----------------------------- MODULE FillsLedger -----------------------------
(***************************************************************************)
(* storage/fills_ledger.py for one broker and symbol: the append-only      *)
(* table `fills`, the coroutines that append to it through record_fill     *)
(* under _FILLS_LOCK, and those that read position_state without it.       *)
(*                                                                         *)
(* Two authorities for a position live in the table: SUM(signed_quantity), *)
(* which the oversell guard reads, and position_qty_after of the last row, *)
(* from which the next row is computed.                                    *)
(***************************************************************************)
EXTENDS Integers, SequencesExt

CONSTANTS
  Writers,     \* coroutines that call record_fill
  Readers,     \* coroutines that call position_state
  Fills,       \* what may be filled: pairs of a quantity, in the smallest decimal
               \* in use, and a price, in the last decimal the column keeps
  Strategies,  \* strategies a fill is attributed to
  Whole,       \* smallest decimals in one whole unit of quantity
  Sqlite,      \* the SQLite profile: decimals are stored as text
  MaxRows,     \* no more fills arrive than make this many rows (a bound)
  NoWriter, NoStrategy

ASSUME ConstantsAssumption ==
  /\ Fills \subseteq (Nat \ {0}) \X (Nat \ {0})
  /\ Whole \in Nat \ {0}
  /\ Sqlite \in BOOLEAN
  /\ MaxRows \in Nat
  /\ NoWriter \notin Writers
  /\ NoStrategy \notin Strategies

VARIABLES
  rows,  \* the table, in id order
  lock,  \* the holder of _FILLS_LOCK
  wr,    \* per writer, the record_fill in progress
  rd     \* per reader, the position_state in progress

vars == <<rows, lock, wr, rd>>

----------------------------------------------------------------------------
(* _compute_wac *)

Abs(n) == IF n < 0 THEN -n ELSE n
Opposite(q, d) == (q > 0 /\ d < 0) \/ (q < 0 /\ d > 0)
IsFlip(q, d) == Opposite(q, d) /\ Abs(d) > Abs(q)

\* A quotient in the last decimal the column keeps; ties go either way, since
\* the two backends break them differently.
Nearest(n, d) ==
  {a \in (n \div d)..(n \div d) + 1 : 2 * Abs(a * d - n) <= d}

\* Mutants: signed quantities weigh the cost; a flip keeps the old cost.
WeighedSigned(q, avg, d, px) ==
  IF Opposite(q, d)
  THEN IF IsFlip(q, d) THEN {px} ELSE {IF q + d = 0 THEN 0 ELSE avg}
  ELSE Nearest(q * avg + d * px, Abs(q + d))
FlipKeepsCost(q, avg, d, px) ==
  IF Opposite(q, d)
  THEN {IF q + d = 0 THEN 0 ELSE avg}
  ELSE Nearest(Abs(q) * avg + Abs(d) * px, Abs(q + d))

\* The average cost of the position after the fill.
NewCost(q, avg, d, px) ==
  IF Opposite(q, d)
  THEN IF IsFlip(q, d) THEN {px} ELSE {IF q + d = 0 THEN 0 ELSE avg}
  ELSE Nearest(Abs(q) * avg + Abs(d) * px, Abs(q + d))

\* What the fill earns on the part of the position it closes.
Realised(q, avg, d, px) ==
  LET closed == IF Abs(d) < Abs(q) THEN Abs(d) ELSE Abs(q) IN
  IF ~Opposite(q, d) THEN 0
  ELSE IF q > 0 THEN (px - avg) * closed ELSE (avg - px) * closed
----------------------------------------------------------------------------
(* The table *)

\* The sum of a sequence of integers.
AddUp(s) ==
  LET sum[n \in 0..Len(s)] == IF n = 0 THEN 0 ELSE sum[n - 1] + s[n]
  IN  sum[Len(s)]
Total(table) == AddUp([i \in DOMAIN table |-> table[i].delta])

\* position_qty_after, avg_cost_basis and the digits of the last row; a flat
\* position is read as a plain zero.
Flat == [qty |-> 0, avg |-> 0, digits |-> FALSE]
Prior(i) ==
  IF i = 0 \/ rows[i].after = 0
  THEN Flat
  ELSE [qty |-> rows[i].after, avg |-> rows[i].avg, digits |-> rows[i].digits]

\* The rows the query position_qty_after == 0 finds.  On SQLite it compares
\* text with "0", and a zero that carries decimals is stored as "0.0".
FlatRows ==
  {i \in DOMAIN rows : rows[i].after = 0 /\ ~(Sqlite /\ rows[i].digits)}
LastFlat == IF FlatRows = {} THEN 0 ELSE CHOOSE i \in FlatRows :
                                           \A j \in FlatRows : j <= i

IdleWriter == [pc |-> "idle", delta |-> 0, price |-> 0, strategy |-> NoStrategy,
               prior |-> Flat, flat |-> 0, opener |-> NoStrategy]
IdleReader == [pc |-> "idle", qty |-> 0, count |-> 0]

WriterStep(w, new) == wr' = [wr EXCEPT ![w] = new]
----------------------------------------------------------------------------
(* record_fill *)

\* A valid fill arrives; an invalid one is logged and dropped.
Submit(w) ==
  /\ wr[w].pc = "idle"
  /\ Len(rows) + Cardinality({v \in Writers : wr[v].pc # "idle"}) < MaxRows
  /\ \E fill \in Fills, s \in Strategies, sign \in {1, -1} :
       WriterStep(w, [IdleWriter EXCEPT !.pc = "wait", !.delta = sign * fill[1],
                                        !.price = fill[2], !.strategy = s])
  /\ UNCHANGED <<rows, lock, rd>>

\* Mutant: no critical section.
EnterUnlocked(w) ==
  /\ wr[w].pc = "wait"
  /\ lock' = w
  /\ WriterStep(w, [wr[w] EXCEPT !.pc = "last"])
  /\ UNCHANGED <<rows, rd>>

Enter(w) ==
  /\ wr[w].pc = "wait"
  /\ lock = NoWriter
  /\ lock' = w
  /\ WriterStep(w, [wr[w] EXCEPT !.pc = "last"])
  /\ UNCHANGED <<rows, rd>>

\* _prior_state: the last row; a flat position has no opener.
ReadLast(w) ==
  /\ wr[w].pc = "last"
  /\ LET prior == Prior(Len(rows)) IN
       WriterStep(w, [wr[w] EXCEPT !.prior = prior,
                        !.pc = IF prior.qty = 0 THEN "commit" ELSE "flat"])
  /\ UNCHANGED <<rows, lock, rd>>

ReadFlat(w) ==
  /\ wr[w].pc = "flat"
  /\ WriterStep(w, [wr[w] EXCEPT !.flat = LastFlat, !.pc = "opener"])
  /\ UNCHANGED <<rows, lock, rd>>

\* Mutant: the flat row itself passes for the opening fill.
ReadOpenerAtFlat(w) ==
  /\ wr[w].pc = "opener"
  /\ WriterStep(w, [wr[w] EXCEPT !.pc = "commit",
       !.opener = rows[IF wr[w].flat = 0 THEN 1 ELSE wr[w].flat].strategy])
  /\ UNCHANGED <<rows, lock, rd>>

\* The opening fill is the first row after the last flat one.
ReadOpener(w) ==
  /\ wr[w].pc = "opener"
  /\ WriterStep(w, [wr[w] EXCEPT !.pc = "commit",
       !.opener = IF wr[w].flat < Len(rows) THEN rows[wr[w].flat + 1].strategy
                                            ELSE NoStrategy])
  /\ UNCHANGED <<rows, lock, rd>>

\* The row record_fill appends: a fresh position and a flip are owned by the
\* strategy of this fill, every other fill by the opener that was read.
NewRows(w) ==
  LET f == wr[w]
      q == f.prior.qty IN
  {[delta |-> f.delta, price |-> f.price, strategy |-> f.strategy,
    after |-> q + f.delta,
    avg |-> cost,
    realised |-> Realised(q, f.prior.avg, f.delta, f.price),
    digits |-> f.prior.digits \/ f.delta % Whole # 0,
    opener |-> IF q = 0 \/ IsFlip(q, f.delta) THEN f.strategy ELSE f.opener] :
   cost \in NewCost(q, f.prior.avg, f.delta, f.price)}

Commit(w) ==
  /\ wr[w].pc = "commit"
  /\ \E r \in NewRows(w) : rows' = Append(rows, r)
  /\ lock' = NoWriter
  /\ WriterStep(w, IdleWriter)
  /\ UNCHANGED rd

\* A query or the commit raises: the lock is released, no row was added.
Fail(w) ==
  /\ wr[w].pc \in {"last", "flat", "opener", "commit"}
  /\ lock' = NoWriter
  /\ WriterStep(w, IdleWriter)
  /\ UNCHANGED <<rows, rd>>

RecordFill(w) ==
  \/ Submit(w) \/ Enter(w) \/ ReadLast(w) \/ ReadFlat(w) \/ ReadOpener(w)
  \/ Commit(w) \/ Fail(w)
----------------------------------------------------------------------------
(* position_state: the sum, then the count, in two queries and no lock *)

\* Mutant: the count is read first.
PositionStateCountFirst(r) ==
  /\ \/ /\ rd[r].pc = "idle"
        /\ rd' = [rd EXCEPT ![r] = [pc |-> "count", qty |-> 0, count |-> Len(rows)]]
     \/ /\ rd[r].pc = "count"
        /\ rd' = [rd EXCEPT ![r].pc = "done", ![r].qty = Total(rows)]
     \/ /\ rd[r].pc = "done"
        /\ rd' = [rd EXCEPT ![r] = IdleReader]
  /\ UNCHANGED <<rows, lock, wr>>

PositionState(r) ==
  /\ \/ /\ rd[r].pc = "idle"
        /\ rd' = [rd EXCEPT ![r] = [pc |-> "count", qty |-> Total(rows), count |-> 0]]
     \/ /\ rd[r].pc = "count"
        /\ rd' = [rd EXCEPT ![r].pc = "done", ![r].count = Len(rows)]
     \/ /\ rd[r].pc = "done"
        /\ rd' = [rd EXCEPT ![r] = IdleReader]
  /\ UNCHANGED <<rows, lock, wr>>

----------------------------------------------------------------------------
(* position_age_seconds_from_fills over the newest n rows of the table: the *)
(* row whose time the age is counted from, 0 when the age is unknown.  The   *)
(* query of fills_age_seconds_by_symbol has a limit over all symbols, so the *)
(* rows of one symbol it returns may be any number of the newest.            *)

\* Mutant: the streak starts at the row that closed the one before.
AgeRowAtFlat(n) ==
  LET seen == Len(rows) - n + 1..Len(rows)
      flats == {i \in seen : rows[i].after = 0} IN
  IF n = 0 \/ rows[Len(rows)].after = 0 THEN 0
  ELSE IF flats = {} THEN Len(rows) - n + 1 ELSE Max(flats)

\* Decimals are compared here, not text: a zero with digits is a zero.
AgeRow(n) ==
  LET seen == Len(rows) - n + 1..Len(rows)
      flats == {i \in seen : rows[i].after = 0} IN
  IF n = 0 \/ rows[Len(rows)].after = 0 THEN 0
  ELSE IF flats = {} THEN Len(rows) - n + 1 ELSE Max(flats) + 1
----------------------------------------------------------------------------
\* The process dies; the rows that were committed stay.
Crash ==
  /\ lock' = NoWriter
  /\ wr' = [w \in Writers |-> IdleWriter]
  /\ rd' = [r \in Readers |-> IdleReader]
  /\ UNCHANGED rows
----------------------------------------------------------------------------
Init ==
  /\ rows = <<>>
  /\ lock = NoWriter
  /\ wr = [w \in Writers |-> IdleWriter]
  /\ rd = [r \in Readers |-> IdleReader]

Next ==
  \/ \E w \in Writers : RecordFill(w)
  \/ \E r \in Readers : PositionState(r)
  \/ Crash

Spec == Init /\ [][Next]_vars
----------------------------------------------------------------------------
Owners == Strategies \cup {NoStrategy}
PriorRecord == [qty : Int, avg : Nat, digits : BOOLEAN]
Row == [delta : Int, price : Nat, strategy : Strategies, after : Int, avg : Nat,
        realised : Int, digits : BOOLEAN, opener : Owners]
WriterRecord ==
  [pc : {"idle", "wait", "last", "flat", "opener", "commit"}, delta : Int,
   price : Nat, strategy : Owners, prior : PriorRecord, flat : Nat,
   opener : Owners]
\* What a reader may have summed: a total the table went through.
Reports == {0} \cup {Total(SubSeq(rows, 1, n)) : n \in 0..Len(rows)}
ReaderRecord == [pc : {"idle", "count", "done"}, qty : Reports, count : Nat]

\* Every variable of the ledger model stays within its type.
TypeOK ==
  /\ rows \in Seq(Row)
  /\ lock \in Writers \cup {NoWriter}
  /\ wr \in [Writers -> WriterRecord]
  /\ rd \in [Readers -> ReaderRecord]
----------------------------------------------------------------------------
(* Safety *)

\* Every row was computed from the row before it, however many coroutines
\* record fills at once: position_qty_after never skips or repeats a fill.
ChainUnbroken ==
  \A i \in DOMAIN rows : rows[i].after = Prior(i - 1).qty + rows[i].delta

\* The sum the oversell guard reads and the last position_qty_after, from which
\* costs are computed, are the same position.
AuthoritiesAgree == Total(rows) = Prior(Len(rows)).qty

\* Realised P&L, over longs, shorts and flips, adds up to the money the fills
\* received less what they paid plus the cost of the position still open, within
\* half a price decimal per unit for every rounded average.
MoneyAddsUp ==
  LET last == Prior(Len(rows)) IN
  2 * Abs(AddUp([i \in DOMAIN rows |-> rows[i].realised + rows[i].delta * rows[i].price])
          - last.qty * last.avg)
    <= AddUp([i \in DOMAIN rows |-> Abs(rows[i].after)])

\* The answer of position_state is a position the ledger went through, and with
\* a count of 0, on which the oversell guard stands aside, it is no position.
AnswerIsAPosition ==
  \A r \in Readers : rd[r].pc = "done" =>
    \E n \in 0..rd[r].count : rd[r].qty = Total(SubSeq(rows, 1, n))

\* Row i crosses zero.
FlipAt(i) == IsFlip(Prior(i - 1).qty, rows[i].delta)
\* The row that started the streak row i belongs to.
StreakStart(i) ==
  CHOOSE j \in 1..i : /\ Prior(j - 1).qty = 0 \/ FlipAt(j)
                      /\ \A k \in j + 1..i : Prior(k - 1).qty # 0 /\ ~FlipAt(k)

\* In a streak that started from a flat position every fill is attributed to
\* the strategy that opened it.
OpenerOwnsStreak ==
  \A i \in DOMAIN rows : Prior(StreakStart(i) - 1).qty = 0 =>
    rows[i].opener = rows[StreakStart(i)].strategy

\* A flip starts a new streak: the fills after it are attributed to the
\* strategy of the flip.
FlipStartsStreak ==
  \A i \in DOMAIN rows : FlipAt(StreakStart(i)) =>
    rows[i].opener = rows[StreakStart(i)].strategy

\* The age that gates protective exits is unknown for a flat position; otherwise it
\* counts from the row that opened the position (storage/fills_ledger.py:333: a
\* fresh open or a flip) but for two cases.  Rows the query's limit has cut off make
\* the position look younger: more suppression, where the comment at
\* system/orchestrator.py:1966 says less.  A flip makes it look as old as the
\* positions before it, back to the last flat row: the walk of
\* position_age_seconds_from_fills does not see where the sign changed, so the
\* reversed position is not held for its minimum time.
AgeCountsPosition ==
  \A n \in 0..Len(rows) :
    LET r == AgeRow(n)
        oldest == Len(rows) - n + 1
        opened == StreakStart(Len(rows)) IN
    IF n = 0 \/ Total(rows) = 0 THEN r = 0
    ELSE /\ r \in oldest..Len(rows)
         /\ r > opened => r = oldest
         /\ r < opened => /\ FlipAt(opened)
                           /\ r > oldest => rows[r - 1].after = 0
                           /\ \A i \in r..Len(rows) : rows[i].after # 0
============================================================================
