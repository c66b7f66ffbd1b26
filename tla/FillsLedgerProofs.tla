-------------------------- MODULE FillsLedgerProofs --------------------------
(***************************************************************************)
(* Invariants of FillsLedger for every set of coroutines, every set of     *)
(* fills and both database backends.                                       *)
(***************************************************************************)
EXTENDS FillsLedger, SequenceTheorems, WellFoundedInduction, TLAPS

Inside == {"last", "flat", "opener", "commit"}

\* Whoever is between ReadLast and Commit holds the lock.
LockOK == \A w \in Writers : wr[w].pc \in Inside => lock = w

\* A fill in progress is a valid fill, and what its writer read of the last row
\* is still the last row.
WriterOK(f) ==
  /\ f.delta # 0
  /\ f.strategy \in Strategies
  /\ f.pc \in Inside \ {"last"} => f.prior = Prior(Len(rows))
WritersOK == \A w \in Writers : wr[w].pc # "idle" => WriterOK(wr[w])

ReaderOK(a) ==
  /\ a.pc = "count" => \E n \in 0..Len(rows) : a.qty = Total(SubSeq(rows, 1, n))
  /\ a.pc = "done" => /\ a.count <= Len(rows)
                      /\ \E n \in 0..a.count : a.qty = Total(SubSeq(rows, 1, n))
ReadersOK == \A r \in Readers : ReaderOK(rd[r])

IndInv == TypeOK /\ LockOK /\ WritersOK /\ ReadersOK /\ ChainUnbroken

USE ConstantsAssumption
----------------------------------------------------------------------------
(* The operators of the model *)

LEMMA AbsFacts == \A n \in Int : Abs(n) \in Nat /\ (n # 0 => Abs(n) > 0)
BY DEF Abs

\* A rounded average of a cost that is not negative is not negative.
LEMMA NearestIsNat ==
  ASSUME NEW n \in Nat, NEW d \in Nat \ {0}
  PROVE  Nearest(n, d) \subseteq Nat
<1>1. n \div d \in Nat
  OBVIOUS
<1> QED
  BY <1>1 DEF Nearest

LEMMA CostIsNat ==
  ASSUME NEW q \in Int, NEW avg \in Nat, NEW d \in Int, d # 0, NEW px \in Nat
  PROVE  NewCost(q, avg, d, px) \subseteq Nat
<1>1. CASE Opposite(q, d)
  BY <1>1 DEF NewCost
<1>2. CASE ~Opposite(q, d)
  <2>1. q + d # 0
    BY <1>2 DEF Opposite
  <2>2. Abs(q + d) \in Nat \ {0}
    BY <2>1, AbsFacts
  <2>3. Abs(q) \in Nat /\ Abs(d) \in Nat
    BY AbsFacts
  <2>4. Abs(q) * avg + Abs(d) * px \in Nat
    BY <2>3
  <2> QED
    BY <1>2, <2>2, <2>4, NearestIsNat DEF NewCost
<1> QED
  BY <1>1, <1>2

LEMMA RealisedIsInt ==
  ASSUME NEW q \in Int, NEW avg \in Nat, NEW d \in Int, NEW px \in Nat
  PROVE  Realised(q, avg, d, px) \in Int
<1>1. Abs(q) \in Int /\ Abs(d) \in Int
  BY AbsFacts
<1> QED
  BY <1>1 DEF Realised

\* A set of indices that is not empty has a largest one.
LEMMA LargestIndex ==
  ASSUME NEW n \in Nat, NEW S, S \subseteq 1..n, S # {}
  PROVE  \E i \in S : \A j \in S : j <= i
<1> DEFINE T == {n - i : i \in S}
<1>1. T \subseteq Nat /\ T # {}
  <2>1. T # {}
    OBVIOUS
  <2>2. \A i \in S : n - i \in Nat
    OBVIOUS
  <2> QED
    BY <2>1, <2>2
<1>2. PICK R : /\ IsWellFoundedOn(R, Nat)
               /\ \A x, y \in Nat : <<x, y>> \in R <=> x < y
  BY NatLessThanWellFounded DEF OpToRel
<1>3. \E x \in T : \A y \in T : ~(<<y, x>> \in R)
  <2>1. IsWellFoundedOn(R, Nat)
    BY <1>2
  <2> HIDE DEF T
  <2>2. T \subseteq Nat /\ T # {}
    BY <1>1
  <2>3. \A rel, set, part :
          IsWellFoundedOn(rel, set) /\ part \subseteq set /\ part # {}
            => \E x \in part : \A y \in part : ~(<<y, x>> \in rel)
    <3> TAKE rel, set, part
    <3> HAVE IsWellFoundedOn(rel, set) /\ part \subseteq set /\ part # {}
    <3> QED
      BY WFMin, Zenon
  <2> QED
    BY <2>1, <2>2, <2>3, Zenon
<1>4. PICK x \in T : \A y \in T : ~(<<y, x>> \in R)
  BY <1>3
<1>5. \A y \in T : ~(y < x)
  <2> HIDE DEF T
  <2> QED
    BY <1>1, <1>2, <1>4
<1>6. PICK i \in S : x = n - i
  OBVIOUS
<1>7. \A j \in S : j <= i
  <2> TAKE j \in S
  <2>1. ~(n - j < n - i)
    BY <1>5, <1>6
  <2>2. i \in Int /\ j \in Int
    OBVIOUS
  <2> QED
    BY <2>1, <2>2
<1> QED
  BY <1>7

\* The query for the last flat row answers with the index of a row, or 0.
LEMMA LastFlatIsNat ==
  ASSUME TypeOK
  PROVE  LastFlat \in Nat
<1>1. Len(rows) \in Nat /\ FlatRows \subseteq 1..Len(rows)
  BY DEF TypeOK, FlatRows
<1>2. CASE FlatRows = {}
  BY <1>2 DEF LastFlat
<1>3. CASE FlatRows # {}
  <2>1. \E i \in FlatRows : \A j \in FlatRows : j <= i
    BY <1>1, <1>3, LargestIndex
  <2>2. LastFlat \in FlatRows
    BY <1>3, <2>1 DEF LastFlat
  <2> QED
    BY <1>1, <2>2
<1> QED
  BY <1>2, <1>3

LEMMA PriorType ==
  ASSUME TypeOK, NEW i \in 0..Len(rows)
  PROVE  Prior(i) \in PriorRecord
<1>1. CASE i = 0
  BY <1>1 DEF Prior, Flat, PriorRecord
<1>2. CASE i # 0
  <2>1. rows[i] \in Row
    BY <1>2, ElementOfSeq DEF TypeOK
  <2> QED
    BY <2>1 DEF Prior, Flat, PriorRecord, Row
<1> QED
  BY <1>1, <1>2

----------------------------------------------------------------------------
(* Init, and the steps that leave the table alone *)

LEMMA InitInv == Init => IndInv
<1> SUFFICES ASSUME Init PROVE IndInv
  OBVIOUS
<1>1. IdleWriter \in WriterRecord
  BY DEF IdleWriter, WriterRecord, Flat, PriorRecord, Owners
<1>2. IdleReader \in ReaderRecord
  BY DEF IdleReader, ReaderRecord, Reports
<1>3. rows = <<>> /\ rows \in Seq(Row) /\ DOMAIN rows = {}
  BY EmptySeq DEF Init
<1>4. TypeOK
  BY <1>1, <1>2, <1>3 DEF Init, TypeOK
<1>5. LockOK /\ WritersOK
  BY DEF Init, LockOK, WritersOK, Inside, IdleWriter
<1>6. ReadersOK
  BY DEF Init, ReadersOK, ReaderOK, IdleReader
<1>7. ChainUnbroken
  BY <1>3 DEF ChainUnbroken
<1> QED
  BY <1>4, <1>5, <1>6, <1>7 DEF IndInv

\* A step of one writer that adds no row.
LEMMA QuietWriterStep ==
  ASSUME IndInv, NEW w \in Writers, NEW f \in WriterRecord,
         wr' = [wr EXCEPT ![w] = f], UNCHANGED <<rows, rd>>,
         lock' \in Writers \cup {NoWriter},
         f.pc # "idle" => WriterOK(f),
         f.pc \in Inside => lock' = w,
         \A v \in Writers \ {w} : wr[v].pc \in Inside => lock' = lock
  PROVE  IndInv'
<1> USE DEF IndInv
<1>1. wr \in [Writers -> WriterRecord]
  BY DEF TypeOK
<1>2. wr'[w] = f /\ \A v \in Writers \ {w} : wr'[v] = wr[v]
  BY <1>1
<1>3. Reports' = Reports /\ ReaderRecord' = ReaderRecord
  BY DEF Reports, ReaderRecord
<1>4. TypeOK'
  BY <1>1, <1>3 DEF TypeOK
<1>5. LockOK'
  BY <1>2 DEF LockOK
<1>6. WritersOK'
  <2>1. \A i : Prior(i)' = Prior(i)
    BY DEF Prior
  <2> QED
    BY <1>2, <2>1 DEF WritersOK, WriterOK
<1>7. ReadersOK'
  BY DEF ReadersOK, ReaderOK
<1>8. ChainUnbroken'
  BY DEF ChainUnbroken, Prior
<1> QED
  BY <1>4, <1>5, <1>6, <1>7, <1>8

LEMMA SubmitInv == ASSUME IndInv, NEW w \in Writers, Submit(w) PROVE IndInv'
<1>0. PICK fill \in Fills, s \in Strategies, sign \in {1, -1} :
        wr' = [wr EXCEPT ![w] = [IdleWriter EXCEPT !.pc = "wait",
                 !.delta = sign * fill[1], !.price = fill[2], !.strategy = s]]
  BY DEF Submit, WriterStep
<1>1. PICK q \in Nat \ {0}, px \in Nat \ {0} : fill[1] = q /\ fill[2] = px
  OBVIOUS
<1> DEFINE f == [IdleWriter EXCEPT !.pc = "wait", !.delta = sign * q,
                                   !.price = px, !.strategy = s]
<1>2. sign * q \in Int /\ sign * q # 0 /\ px \in Nat
  OBVIOUS
<1>3. f \in WriterRecord
  <2>1. IdleWriter \in WriterRecord
    BY DEF WriterRecord, IdleWriter, Owners, Flat, PriorRecord
  <2>2. s \in Owners
    BY DEF Owners
  <2> DEFINE delta == sign * q
  <2>3. delta \in Int
    BY <1>2
  <2> HIDE DEF delta
  <2>4. [IdleWriter EXCEPT !.pc = "wait", !.delta = delta, !.price = px,
                           !.strategy = s] \in WriterRecord
    BY <1>2, <2>1, <2>2, <2>3 DEF WriterRecord
  <2> QED
    BY <2>4 DEF delta
<1>4. f.pc = "wait" /\ WriterOK(f)
  BY <1>2 DEF IdleWriter, WriterOK, Inside
<1>5. UNCHANGED <<rows, lock, rd>> /\ lock \in Writers \cup {NoWriter}
  BY DEF Submit, IndInv, TypeOK
<1> HIDE DEF f
<1> QED
  BY <1>0, <1>1, <1>3, <1>4, <1>5, QuietWriterStep DEF f, Inside

LEMMA EnterInv == ASSUME IndInv, NEW w \in Writers, Enter(w) PROVE IndInv'
<1> DEFINE f == [wr[w] EXCEPT !.pc = "last"]
<1>1. wr[w] \in WriterRecord /\ WriterOK(wr[w])
  BY DEF Enter, IndInv, TypeOK, WritersOK
<1>2. f \in WriterRecord /\ f.pc = "last"
  BY <1>1 DEF WriterRecord
<1>3. WriterOK(f)
  BY <1>1, <1>2 DEF WriterOK, WriterRecord
<1>4. wr' = [wr EXCEPT ![w] = f] /\ UNCHANGED <<rows, rd>> /\ lock' = w
  BY DEF Enter, WriterStep
<1>5. \A v \in Writers : wr[v].pc \notin Inside
  BY DEF Enter, IndInv, LockOK
<1> HIDE DEF f
<1> QED
  BY <1>2, <1>3, <1>4, <1>5, QuietWriterStep

LEMMA ReadLastInv == ASSUME IndInv, NEW w \in Writers, ReadLast(w) PROVE IndInv'
<1> DEFINE prior == Prior(Len(rows))
           f == [wr[w] EXCEPT !.prior = prior,
                   !.pc = IF prior.qty = 0 THEN "commit" ELSE "flat"]
<1>1. wr[w] \in WriterRecord /\ WriterOK(wr[w]) /\ lock = w
  BY DEF ReadLast, IndInv, TypeOK, WritersOK, LockOK, Inside
<1>2. prior \in PriorRecord
  <2>1. Len(rows) \in 0..Len(rows)
    BY LenProperties DEF IndInv, TypeOK
  <2> QED
    BY <2>1, PriorType DEF IndInv
<1>3. f \in WriterRecord /\ f.prior = prior
  BY <1>1, <1>2 DEF WriterRecord
<1>4. WriterOK(f)
  BY <1>1, <1>3 DEF WriterOK, WriterRecord
<1>5. wr' = [wr EXCEPT ![w] = f] /\ UNCHANGED <<rows, lock, rd>>
  BY DEF ReadLast, WriterStep
<1> HIDE DEF f
<1> QED
  BY <1>1, <1>3, <1>4, <1>5, QuietWriterStep

LEMMA ReadFlatInv == ASSUME IndInv, NEW w \in Writers, ReadFlat(w) PROVE IndInv'
<1> DEFINE f == [wr[w] EXCEPT !.flat = LastFlat, !.pc = "opener"]
<1>1. wr[w] \in WriterRecord /\ WriterOK(wr[w]) /\ lock = w /\ wr[w].pc = "flat"
  BY DEF ReadFlat, IndInv, TypeOK, WritersOK, LockOK, Inside
<1>2. f \in WriterRecord
  BY <1>1, LastFlatIsNat DEF WriterRecord, IndInv
<1>3. WriterOK(f)
  BY <1>1 DEF WriterOK, WriterRecord, Inside
<1>4. wr' = [wr EXCEPT ![w] = f] /\ UNCHANGED <<rows, lock, rd>>
  BY DEF ReadFlat, WriterStep
<1> HIDE DEF f
<1> QED
  BY <1>1, <1>2, <1>3, <1>4, QuietWriterStep

LEMMA ReadOpenerInv == ASSUME IndInv, NEW w \in Writers, ReadOpener(w) PROVE IndInv'
<1> DEFINE owner == IF wr[w].flat < Len(rows) THEN rows[wr[w].flat + 1].strategy
                                              ELSE NoStrategy
           f == [wr[w] EXCEPT !.pc = "commit", !.opener = owner]
<1>1. /\ wr[w] \in WriterRecord /\ WriterOK(wr[w])
      /\ lock = w /\ wr[w].pc = "opener"
  BY DEF ReadOpener, IndInv, TypeOK, WritersOK, LockOK, Inside
<1>2. owner \in Owners
  <2>1. CASE wr[w].flat < Len(rows)
    <3>1. rows \in Seq(Row) /\ Len(rows) \in Nat /\ wr[w].flat \in Nat
      BY <1>1 DEF IndInv, TypeOK, WriterRecord
    <3>2. wr[w].flat + 1 \in 1..Len(rows)
      BY <2>1, <3>1
    <3>3. rows[wr[w].flat + 1] \in Row
      BY <3>1, <3>2, ElementOfSeq
    <3> QED
      BY <2>1, <3>3 DEF Row, Owners
  <2> QED
    BY <2>1 DEF Owners
<1>3. f \in WriterRecord
  <2> HIDE DEF owner
  <2> QED
    BY <1>1, <1>2 DEF WriterRecord
<1>4. WriterOK(f)
  BY <1>1 DEF WriterOK, WriterRecord, Inside
<1>5. wr' = [wr EXCEPT ![w] = f] /\ UNCHANGED <<rows, lock, rd>>
  BY DEF ReadOpener, WriterStep
<1> HIDE DEF f
<1> QED
  BY <1>1, <1>3, <1>4, <1>5, QuietWriterStep

LEMMA FailInv == ASSUME IndInv, NEW w \in Writers, Fail(w) PROVE IndInv'
<1>1. IdleWriter \in WriterRecord /\ IdleWriter.pc = "idle"
  BY DEF IdleWriter, WriterRecord, Flat, PriorRecord, Owners
<1>2. lock = w /\ lock' = NoWriter
  BY DEF Fail, IndInv, LockOK, Inside
<1>3. \A v \in Writers \ {w} : wr[v].pc \notin Inside
  BY <1>2 DEF IndInv, LockOK
<1>4. wr' = [wr EXCEPT ![w] = IdleWriter] /\ UNCHANGED <<rows, rd>>
  BY DEF Fail, WriterStep
<1> QED
  BY <1>1, <1>2, <1>3, <1>4, QuietWriterStep DEF Inside

----------------------------------------------------------------------------
(* A new row *)

LEMMA NewRowType ==
  ASSUME IndInv, NEW w \in Writers, wr[w].pc = "commit", NEW r \in NewRows(w)
  PROVE  r \in Row /\ r.after = Prior(Len(rows)).qty + r.delta
<1> DEFINE f == wr[w]
<1>1. f \in WriterRecord /\ WriterOK(f) /\ f.prior = Prior(Len(rows))
  BY DEF IndInv, TypeOK, WritersOK, WriterOK, Inside
<1>2. /\ f.prior.qty \in Int /\ f.prior.avg \in Nat /\ f.prior.digits \in BOOLEAN
      /\ f.delta \in Int /\ f.delta # 0 /\ f.price \in Nat
      /\ f.strategy \in Strategies /\ f.opener \in Owners
  BY <1>1 DEF WriterRecord, PriorRecord, WriterOK
<1>3. PICK cost \in NewCost(f.prior.qty, f.prior.avg, f.delta, f.price) :
        r = [delta |-> f.delta, price |-> f.price, strategy |-> f.strategy,
             after |-> f.prior.qty + f.delta,
             avg |-> cost,
             realised |-> Realised(f.prior.qty, f.prior.avg, f.delta, f.price),
             digits |-> f.prior.digits \/ f.delta % Whole # 0,
             opener |-> IF f.prior.qty = 0 \/ IsFlip(f.prior.qty, f.delta)
                        THEN f.strategy ELSE f.opener]
  BY DEF NewRows
<1>4. cost \in Nat
  BY <1>2, <1>3, CostIsNat
<1>5. Realised(f.prior.qty, f.prior.avg, f.delta, f.price) \in Int
  BY <1>2, RealisedIsInt
<1>6. f.prior.qty + f.delta \in Int /\ (f.prior.digits \/ f.delta % Whole # 0) \in BOOLEAN
  BY <1>2
<1>7. f.strategy \in Owners
  BY <1>2 DEF Owners
<1> HIDE DEF f
<1>8. r \in Row
  BY <1>2, <1>3, <1>4, <1>5, <1>6, <1>7 DEF Row
<1> QED
  BY <1>1, <1>3, <1>8

LEMMA AppendFacts ==
  ASSUME TypeOK, NEW r \in Row, rows' = Append(rows, r)
  PROVE  /\ rows' \in Seq(Row)
         /\ Len(rows) \in Nat /\ Len(rows') = Len(rows) + 1
         /\ rows'[Len(rows) + 1] = r
         /\ \A i \in 1..Len(rows) : rows'[i] = rows[i]
         /\ \A i \in 0..Len(rows) : Prior(i)' = Prior(i)
         /\ \A n \in 0..Len(rows) : SubSeq(rows', 1, n) = SubSeq(rows, 1, n)
<1>1. rows \in Seq(Row)
  BY DEF TypeOK
<1>2. rows' \in Seq(Row) /\ Len(rows) \in Nat /\ Len(rows') = Len(rows) + 1
  BY <1>1
<1>3. rows'[Len(rows) + 1] = r /\ \A i \in 1..Len(rows) : rows'[i] = rows[i]
  BY <1>1
<1>4. \A i \in 0..Len(rows) : Prior(i)' = Prior(i)
  <2> TAKE i \in 0..Len(rows)
  <2>1. i = 0 \/ rows'[i] = rows[i]
    BY <1>2, <1>3
  <2> QED
    BY <2>1 DEF Prior
<1>5. \A n \in 0..Len(rows) : SubSeq(rows', 1, n) = SubSeq(rows, 1, n)
  <2> TAKE n \in 0..Len(rows)
  <2>1. n \in Int /\ 1 \in Int /\ n - 1 + 1 = n
    BY <1>2
  <2>2. \A i \in 1..n : rows[i] \in Row /\ rows'[i] = rows[i]
    BY <1>1, <1>2, <1>3, ElementOfSeq
  <2> DEFINE old == SubSeq(rows, 1, n)
             new == SubSeq(rows', 1, n)
  <2>3. /\ old \in Seq(Row) /\ Len(old) = IF 1 <= n THEN n ELSE 0
        /\ \A i \in 1..n : old[i] = rows[i]
    BY <2>1, <2>2, SubSeqProperties
  <2>4. /\ new \in Seq(Row) /\ Len(new) = IF 1 <= n THEN n ELSE 0
        /\ \A i \in 1..n : new[i] = rows'[i]
    BY <2>1, <2>2, SubSeqProperties
  <2>5. Len(old) = Len(new) /\ \A i \in 1..Len(old) : old[i] = new[i]
    BY <2>2, <2>3, <2>4
  <2> HIDE DEF old, new
  <2>6. old = new
    BY <2>3, <2>4, <2>5, SeqEqual
  <2> QED
    BY <2>6 DEF old, new
<1> QED
  BY <1>2, <1>3, <1>4, <1>5

LEMMA CommitInv == ASSUME IndInv, NEW w \in Writers, Commit(w) PROVE IndInv'
<1> USE DEF IndInv
<1>1. PICK r \in NewRows(w) : rows' = Append(rows, r)
  BY DEF Commit
<1>2. /\ wr[w].pc = "commit" /\ lock = w /\ lock' = NoWriter
      /\ wr' = [wr EXCEPT ![w] = IdleWriter] /\ rd' = rd
  BY DEF Commit, WriterStep, LockOK, Inside
<1>3. r \in Row /\ r.after = Prior(Len(rows)).qty + r.delta
  BY <1>1, <1>2, NewRowType
<1>4. /\ rows' \in Seq(Row)
      /\ Len(rows) \in Nat /\ Len(rows') = Len(rows) + 1
      /\ rows'[Len(rows) + 1] = r
      /\ \A i \in 1..Len(rows) : rows'[i] = rows[i]
      /\ \A i \in 0..Len(rows) : Prior(i)' = Prior(i)
      /\ \A n \in 0..Len(rows) : SubSeq(rows', 1, n) = SubSeq(rows, 1, n)
  BY <1>1, <1>3, AppendFacts
<1>5. wr'[w] = IdleWriter /\ \A v \in Writers \ {w} : wr'[v] = wr[v]
  BY <1>2 DEF TypeOK
<1>6. TypeOK'
  <2>1. IdleWriter \in WriterRecord
    BY DEF IdleWriter, WriterRecord, Flat, PriorRecord, Owners
  <2>2. wr' \in [Writers -> WriterRecord]
    BY <1>2, <2>1 DEF TypeOK
  <2>3. Reports \subseteq Reports'
    <3>1. \A n \in 0..Len(rows) : /\ n \in 0..Len(rows')
                                  /\ SubSeq(rows', 1, n) = SubSeq(rows, 1, n)
      BY <1>4
    <3> QED
      BY <3>1 DEF Reports
  <2>4. rd' \in [Readers -> ReaderRecord']
    BY <1>2, <2>3 DEF TypeOK, ReaderRecord
  <2> QED
    BY <1>2, <1>4, <2>2, <2>4 DEF TypeOK
<1>7. \A v \in Writers : wr'[v].pc \notin Inside
  <2>1. \A v \in Writers \ {w} : wr[v].pc \notin Inside
    BY <1>2 DEF LockOK
  <2> QED
    BY <1>5, <2>1 DEF IdleWriter, Inside
<1>8. LockOK'
  BY <1>7 DEF LockOK
<1>9. WritersOK'
  BY <1>5, <1>7 DEF WritersOK, WriterOK, IdleWriter
<1>10. ReadersOK'
  <2>1. \A n \in 0..Len(rows) : Total(SubSeq(rows', 1, n)) = Total(SubSeq(rows, 1, n))
    BY <1>4
  <2> SUFFICES ASSUME NEW a \in Readers PROVE ReaderOK(rd[a])'
    BY DEF ReadersOK
  <2>2. ReaderOK(rd[a]) /\ rd'[a] = rd[a] /\ rd[a].count \in Nat
    BY <1>2 DEF ReadersOK, TypeOK, ReaderRecord
  <2>3. CASE rd[a].pc = "count"
    <3>1. PICK n \in 0..Len(rows) : rd[a].qty = Total(SubSeq(rows, 1, n))
      BY <2>2, <2>3 DEF ReaderOK
    <3>2. n \in 0..Len(rows') /\ rd'[a].qty = Total(SubSeq(rows', 1, n))
      BY <1>4, <2>1, <2>2, <3>1
    <3> QED
      BY <2>2, <2>3, <3>2 DEF ReaderOK
  <2>4. CASE rd[a].pc = "done"
    <3>1. PICK n \in 0..rd[a].count : rd[a].qty = Total(SubSeq(rows, 1, n))
      BY <2>2, <2>4 DEF ReaderOK
    <3>2. rd[a].count <= Len(rows)
      BY <2>2, <2>4 DEF ReaderOK
    <3>3. n \in 0..Len(rows) /\ rd[a].count <= Len(rows')
      BY <1>4, <2>2, <3>1, <3>2
    <3>4. rd'[a].qty = Total(SubSeq(rows', 1, n))
      BY <2>1, <2>2, <3>1, <3>3
    <3> QED
      BY <2>2, <2>4, <3>1, <3>3, <3>4 DEF ReaderOK
  <2> QED
    BY <2>2, <2>3, <2>4 DEF ReaderOK
<1>11. ChainUnbroken'
  <2> SUFFICES ASSUME NEW i \in 1..Len(rows) + 1
               PROVE  rows'[i].after = Prior(i - 1)'.qty + rows'[i].delta
    BY <1>4, LenProperties DEF ChainUnbroken
  <2>1. CASE i = Len(rows) + 1
    <3>1. i - 1 = Len(rows) /\ Len(rows) \in 0..Len(rows)
      BY <1>4, <2>1
    <3> QED
      BY <1>3, <1>4, <2>1, <3>1
  <2>2. CASE i \in 1..Len(rows)
    <3>1. i - 1 \in 0..Len(rows)
      BY <1>4, <2>2
    <3>2. rows[i].after = Prior(i - 1).qty + rows[i].delta
      BY <2>2, LenProperties DEF TypeOK, ChainUnbroken
    <3> QED
      BY <1>4, <2>2, <3>1, <3>2
  <2> QED
    BY <1>4, <2>1, <2>2
<1> QED
  BY <1>6, <1>8, <1>9, <1>10, <1>11

----------------------------------------------------------------------------
(* Readers, the crash, and the theorems *)

LEMMA ReaderInv == ASSUME IndInv, NEW a \in Readers, PositionState(a) PROVE IndInv'
<1> USE DEF IndInv
<1>1. /\ rows' = rows /\ lock' = lock /\ wr' = wr
      /\ rows \in Seq(Row) /\ Len(rows) \in Nat
      /\ rd \in [Readers -> ReaderRecord]
  BY LenProperties DEF PositionState, TypeOK
<1>2. SubSeq(rows, 1, Len(rows)) = rows
  <2>1. \A i \in 1..Len(rows) : rows[i] \in Row
    BY <1>1, ElementOfSeq
  <2> DEFINE all == SubSeq(rows, 1, Len(rows))
  <2>2. /\ all \in Seq(Row) /\ Len(all) = Len(rows)
        /\ \A i \in 1..Len(rows) : all[i] = rows[i]
    BY <1>1, <2>1, SubSeqProperties
  <2> HIDE DEF all
  <2>3. all = rows
    BY <1>1, <2>2, SeqEqual
  <2> QED
    BY <2>3 DEF all
<1>3. /\ Len(rows) \in 0..Len(rows)
      /\ Total(rows) = Total(SubSeq(rows, 1, Len(rows)))
      /\ Total(rows) \in Reports
  <2>1. Len(rows) \in 0..Len(rows)
    BY <1>1
  <2>2. Total(rows) = Total(SubSeq(rows, 1, Len(rows)))
    BY <1>2
  <2> QED
    BY <2>1, <2>2 DEF Reports
<1>4. rd' \in [Readers -> ReaderRecord] /\ ReadersOK'
  <2>1. CASE /\ rd[a].pc = "idle"
             /\ rd' = [rd EXCEPT ![a] = [pc |-> "count", qty |-> Total(rows),
                                        count |-> 0]]
    <3>1. rd' \in [Readers -> ReaderRecord]
      BY <1>1, <1>3, <2>1 DEF ReaderRecord
    <3>2. rd'[a].pc = "count" /\ rd'[a].qty = Total(SubSeq(rows, 1, Len(rows)))
      BY <1>1, <1>3, <2>1
    <3>4. ReaderOK(rd'[a])
      BY <1>3, <3>2 DEF ReaderOK
    <3>3. \A b \in Readers \ {a} : rd'[b] = rd[b]
      BY <1>1, <2>1
    <3> QED
      BY <1>1, <3>1, <3>3, <3>4 DEF ReadersOK, ReaderOK
  <2>2. CASE /\ rd[a].pc = "count"
             /\ rd' = [rd EXCEPT ![a].pc = "done", ![a].count = Len(rows)]
    <3>1. rd' \in [Readers -> ReaderRecord]
      BY <1>1, <2>2 DEF ReaderRecord
    <3>2. /\ rd'[a].pc = "done" /\ rd'[a].count = Len(rows)
          /\ rd'[a].qty = rd[a].qty
      BY <1>1, <2>2 DEF ReaderRecord
    <3>3. \E n \in 0..Len(rows) : rd[a].qty = Total(SubSeq(rows, 1, n))
      BY <2>2 DEF ReadersOK, ReaderOK
    <3>4. ReaderOK(rd'[a])
      BY <1>1, <3>2, <3>3 DEF ReaderOK
    <3>5. \A b \in Readers \ {a} : rd'[b] = rd[b]
      BY <1>1, <2>2
    <3> QED
      BY <1>1, <3>1, <3>4, <3>5 DEF ReadersOK, ReaderOK
  <2>3. CASE /\ rd[a].pc = "done"
             /\ rd' = [rd EXCEPT ![a] = IdleReader]
    <3>1. IdleReader \in ReaderRecord /\ IdleReader.pc = "idle"
      BY DEF IdleReader, ReaderRecord, Reports
    <3>2. rd' \in [Readers -> ReaderRecord]
      BY <1>1, <2>3, <3>1
    <3>3. \A b \in Readers : rd'[b] = IF b = a THEN IdleReader ELSE rd[b]
      BY <1>1, <2>3
    <3> QED
      BY <1>1, <3>1, <3>2, <3>3 DEF ReadersOK, ReaderOK
  <2> QED
    BY <2>1, <2>2, <2>3 DEF PositionState
<1>5. TypeOK'
  BY <1>1, <1>4 DEF TypeOK, ReaderRecord, Reports
<1>6. LockOK' /\ WritersOK' /\ ChainUnbroken'
  BY <1>1 DEF LockOK, WritersOK, WriterOK, ChainUnbroken, Prior
<1> QED
  BY <1>4, <1>5, <1>6

LEMMA CrashInv == ASSUME IndInv, Crash PROVE IndInv'
<1> USE DEF IndInv, Crash
<1>1. IdleWriter \in WriterRecord /\ IdleWriter.pc = "idle"
  BY DEF IdleWriter, WriterRecord, Flat, PriorRecord, Owners
<1>2. IdleReader \in ReaderRecord' /\ IdleReader.pc = "idle"
  BY DEF IdleReader, ReaderRecord, Reports
<1>3. TypeOK'
  BY <1>1, <1>2 DEF TypeOK
<1>4. LockOK' /\ WritersOK'
  BY <1>1 DEF LockOK, WritersOK, Inside
<1>5. ReadersOK'
  BY <1>2 DEF ReadersOK, ReaderOK
<1>6. ChainUnbroken'
  BY DEF ChainUnbroken, Prior
<1> QED
  BY <1>3, <1>4, <1>5, <1>6

LEMMA StepInv == IndInv /\ [Next]_vars => IndInv'
<1> SUFFICES ASSUME IndInv, [Next]_vars PROVE IndInv'
  OBVIOUS
<1>1. CASE Next
  <2>1. ASSUME NEW w \in Writers, RecordFill(w) PROVE IndInv'
    BY <2>1, SubmitInv, EnterInv, ReadLastInv, ReadFlatInv, ReadOpenerInv,
       CommitInv, FailInv DEF RecordFill
  <2>2. ASSUME NEW a \in Readers, PositionState(a) PROVE IndInv'
    BY <2>2, ReaderInv
  <2> QED
    BY <1>1, <2>1, <2>2, CrashInv DEF Next
<1>2. CASE UNCHANGED vars
  BY <1>2 DEF vars, IndInv, TypeOK, LockOK, WritersOK, WriterOK, ReadersOK,
              ReaderOK, ChainUnbroken, Prior, ReaderRecord, Reports
<1> QED
  BY <1>1, <1>2

\* The inductive invariant of the ledger: the lock excludes, what a writer read
\* of the last row stays true until it appends, and readers hold totals the
\* table went through.
THEOREM LedgerInvariance == Spec => []IndInv
BY InitInv, StepInv, PTL DEF Spec

\* The state of the ledger stays within its type.
THEOREM LedgerTypeCorrect == Spec => []TypeOK
<1>1. IndInv => TypeOK
  BY DEF IndInv
<1> QED
  BY <1>1, LedgerInvariance, PTL

\* _FILLS_LOCK makes read-compute-append atomic: every row extends the row
\* before it, for any number of coroutines and fills, failures and crashes.
THEOREM ChainIsUnbroken == Spec => []ChainUnbroken
<1>1. IndInv => ChainUnbroken
  BY DEF IndInv
<1> QED
  BY <1>1, LedgerInvariance, PTL

\* position_state needs no lock: it reports a total the table went through while
\* it had no more rows than the count it reports.
THEOREM ReadersSeePositions == Spec => []AnswerIsAPosition
<1>1. IndInv => AnswerIsAPosition
  BY DEF IndInv, ReadersOK, ReaderOK, AnswerIsAPosition
<1> QED
  BY <1>1, LedgerInvariance, PTL
============================================================================
