--------------------------- MODULE OrderExecution ---------------------------
(***************************************************************************)
(* One live venue and one symbol of execution/engine.py.                   *)
(*                                                                         *)
(* Several asyncio tasks (the trading loop and the exit monitors) call     *)
(* ExecutionEngine.execute concurrently.  Every `await` of a call is a     *)
(* place where the other tasks, the order-reconcile tick of the            *)
(* orchestrator, cancel_working_orders, the kill switch and the venue may  *)
(* run, so a call is cut into one action per stretch between two awaits    *)
(* that touch shared state.  The shared state is the venue's order book,   *)
(* the `orders` table, the fills ledger and the two gates of the risk      *)
(* engine (kill switch, disabled broker).                                  *)
(***************************************************************************)
EXTENDS Integers, FiniteSets, FiniteSetsExt

CONSTANTS
  Callers,          \* tasks that call execute
  Orders,           \* client order ids that can be drawn (a bound)
  Kinds,            \* kinds of signals in play: "open", "exit", "flatten"
  Quantities,       \* quantities a signal may ask for
  Lot,              \* quantity held, and in the ledger, at the start
  MaxRetries,       \* place_order_retries
  MaxPolls,         \* fill polls before the tracking timeout (a bound)
  MaxAge,           \* 1: rows reach the reconcile age, 2: also the stale age
  IdempotentVenue,  \* place_order returns the order its client id already has
  Faults,           \* failures the environment may show, see FaultNames
  Tasks,            \* background tasks that run, see TaskNames
  NoOrder, NoBid    \* null client order id, null broker order id

FaultNames ==
  { "place_raises",        \* place_order raises, nothing was sent
    "place_rejected",      \* the venue refuses the order
    "lost_reply_rejected", \* accepted, the lost reply is reported as REJECTED
    "lost_reply_raised",   \* accepted, the lost reply surfaces as an exception
    "read_rejected",       \* a failed get_order is reported as REJECTED
    "read_raises",         \* a failed get_order raises
    "list_empty",          \* a failed get_open_orders is reported as []
    "list_raises",         \* a failed get_open_orders raises
    "cancel_fails",        \* cancel_order returns False
    "cancel_raises",       \* cancel_order raises
    "db" }                 \* a database read or write fails
TaskNames == {"reconcile", "sweep", "kill", "crash"}

ASSUME ConstantsAssumption ==
  /\ Kinds \subseteq {"open", "exit", "flatten"}
  /\ Quantities \subseteq Nat \ {0}
  /\ Lot \in Nat
  /\ MaxRetries \in Nat
  /\ MaxPolls \in Nat \ {0}
  /\ MaxAge \in 0..2
  /\ IdempotentVenue \in BOOLEAN
  /\ Faults \subseteq FaultNames
  /\ Tasks \subseteq TaskNames
  /\ NoOrder \notin Orders

\* A broker order: the order the k-th attempt to place client id o created.
Attempts == 1..(MaxRetries + 1)
Placements == Orders \X Attempts

ASSUME NullAssumption == NoBid \notin Placements

VARIABLES
  book,      \* venue: broker orders
  orderLog,  \* table `orders`: one row per client order id
  booked,    \* table `fills`: quantity recorded per broker order
  held,      \* table `fills`: SUM(signed_quantity) of the symbol
  job,       \* per caller, the execute call in progress
  rec,       \* the order-reconcile tick
  swp,       \* cancel_working_orders
  kill,      \* the kill command: cancel_all in progress
  killed,    \* RiskEngine._is_killed
  disabled,  \* the venue is in RiskEngine._disabled_brokers
  parked     \* history: broker orders left working by an earlier process

vars == <<book, orderLog, booked, held, job, rec, swp, kill, killed, disabled,
          parked>>
tables == <<orderLog, booked, held>>
others == <<rec, swp, kill, killed, disabled, parked>>

----------------------------------------------------------------------------
Sides == {"buy", "sell"}
Working == {"open", "partially_filled"}
Terminal == {"filled", "cancelled", "rejected"}
States == {"none", "working", "filled", "cancelled"}
Statuses == {"none"} \cup Working \cup Terminal

SideOf(kind) == IF kind = "open" THEN "buy" ELSE "sell"

NoPlacement == [state |-> "none", side |-> "buy", qty |-> 0, filled |-> 0,
                cancel |-> FALSE]
NoRow == [status |-> "none", side |-> "buy", filled |-> 0, bid |-> NoBid,
          age |-> 0, older |-> {}]
NoResult == [status |-> "none", filled |-> 0, bid |-> NoBid]
Rejected == [status |-> "rejected", filled |-> 0, bid |-> NoBid]
IdleJob == [pc |-> "idle", kind |-> "open", qty |-> 0, cid |-> NoOrder,
            tries |-> 0, polls |-> 0, res |-> NoResult, target |-> NoOrder,
            older |-> {}]
IdleRec == [pc |-> "idle", row |-> NoOrder, res |-> NoResult]
IdleSwp == [pc |-> "idle", row |-> NoOrder, polls |-> 0]
IdleKill == [pc |-> "idle", todo |-> {}]

May(fault) == fault \in Faults

\* What get_order reports of broker order p when the call succeeds.
Snapshot(p) ==
  [status |-> IF book[p].state # "working" THEN book[p].state
              ELSE IF book[p].filled = 0 THEN "open" ELSE "partially_filled",
   filled |-> book[p].filled,
   bid |-> p]

\* The broker orders that carry client order id o.
PlacedFor(o) == {p \in Placements : p[1] = o /\ book[p].state # "none"}

\* _find_in_flight_order: the rows that make execute skip a signal.
InFlight(side) ==
  {o \in Orders : orderLog[o].status \in Working /\ orderLog[o].side = side}

\* A row carries the time of its report: it is newer than the rows the table
\* held when its call began, and in no order with those of calls at that time.
Logged == {o \in Orders : orderLog[o] # NoRow}
Newest(rows) == {o \in rows : \A r \in rows : o \notin orderLog[r].older}

FreeIds ==
  {o \in Orders : /\ orderLog[o] = NoRow
                  /\ PlacedFor(o) = {}
                  /\ \A c \in Callers : job[c].cid # o}

\* fill_count > 0: the ledger has an opinion on the symbol.
LedgerHasRows == Lot > 0 \/ \E p \in Placements : booked[p] > 0

Set(c, new) == job' = [job EXCEPT ![c] = new]
Goto(c, label) == Set(c, [job[c] EXCEPT !.pc = label])
Return(c) == Set(c, IdleJob)
Report(c, r) == Set(c, [job[c] EXCEPT !.pc = "log", !.res = r])

At(c, label) == job[c].pc = label
----------------------------------------------------------------------------
(* execute: gates before the order is built *)

\* The risk verdict is not APPROVED, or the market is closed.
Refuse(c) ==
  /\ At(c, "idle")
  /\ UNCHANGED vars

\* evaluate_and_persist approves a signal: the kill switch and the disabled
\* broker are read here and nowhere later.
Approve(c) ==
  /\ At(c, "idle")
  /\ ~killed /\ ~disabled
  /\ \E kind \in Kinds, q \in Quantities, o \in FreeIds :
       Set(c, [IdleJob EXCEPT !.pc = "dedup", !.kind = kind, !.qty = q, !.cid = o,
                              !.older = Logged])
  /\ UNCHANGED <<book, tables, others>>

\* The dedup lookup: a working row of the same side skips the signal, except
\* that an operator flatten first cancels the newest order it finds.
Dedup(c) ==
  /\ At(c, "dedup")
  /\ LET rows == InFlight(SideOf(job[c].kind)) IN
       \/ /\ rows = {} \/ May("db")
          /\ Goto(c, "clamp")
       \/ /\ rows # {} /\ job[c].kind # "flatten"
          /\ Return(c)
       \/ /\ job[c].kind = "flatten"
          /\ \E o \in Newest(rows) :
               Set(c, [job[c] EXCEPT !.pc = "replace", !.target = o])
  /\ UNCHANGED <<book, tables, others>>

\* cancel_order as the adapters answer it: the request is taken (TRUE) and the
\* venue acts on it later, or the call reports FALSE and nothing was asked.
CancelRequest(p) ==
  book' = [book EXCEPT ![p].cancel = (book[p].state = "working")]

\* _cancel_in_flight_order: cancel the working order a flatten found.
ReplaceCancel(c) ==
  /\ At(c, "replace")
  /\ \/ /\ orderLog[job[c].target].bid # NoBid
        /\ CancelRequest(orderLog[job[c].target].bid)
        /\ Goto(c, "confirm")
     \/ /\ \/ orderLog[job[c].target].bid = NoBid
           \/ May("cancel_fails") \/ May("cancel_raises")
        /\ Return(c)
        /\ UNCHANGED book
  /\ UNCHANGED <<tables, others>>

\* Mutant: an accepted cancel request passes for a cancelled order.
ConfirmedOnRequest(o) == Snapshot(orderLog[o].bid).status \in {"cancelled", "open"}

\* One poll of _confirm_broker_cancelled: TRUE only on a cancelled or rejected
\* report, FALSE on a fill, a failed read or the timeout.
Confirmed(o) ==
  \/ Snapshot(orderLog[o].bid).status = "cancelled"
  \/ May("read_rejected")
Denied(o, polls) ==
  \/ Snapshot(orderLog[o].bid).status \in {"filled", "partially_filled"}
  \/ May("read_raises")
  \/ polls >= MaxPolls
KeepPolling(o, polls) ==
  Snapshot(orderLog[o].bid).status = "open" /\ polls < MaxPolls

ReplaceConfirm(c) ==
  /\ At(c, "confirm")
  /\ LET o == job[c].target IN
       \/ /\ Confirmed(o)
          /\ Goto(c, "replaced")
       \/ /\ Denied(o, job[c].polls)
          /\ Return(c)
       \/ /\ KeepPolling(o, job[c].polls)
          /\ Set(c, [job[c] EXCEPT !.polls = @ + 1])
  /\ UNCHANGED <<book, tables, others>>

\* Mutant: after the cancel the call looks for working rows once more.
ReplaceLooksAgain(c) ==
  /\ At(c, "replaced")
  /\ orderLog' = [orderLog EXCEPT ![job[c].target].status = "cancelled"]
  /\ Set(c, [job[c] EXCEPT !.pc = "dedup", !.polls = 0])
  /\ UNCHANGED <<book, booked, held, others>>

\* The confirmed cancel is written to the row; a failed write is only logged.
ReplaceMark(c) ==
  /\ At(c, "replaced")
  /\ \/ orderLog' = [orderLog EXCEPT ![job[c].target].status = "cancelled"]
     \/ May("db") /\ UNCHANGED orderLog
  /\ Set(c, [job[c] EXCEPT !.pc = "clamp", !.polls = 0])
  /\ UNCHANGED <<book, booked, held, others>>

\* Mutant: a reducing order keeps the quantity of its signal.
ClampNothing(c) ==
  /\ At(c, "clamp")
  /\ Goto(c, "place")
  /\ UNCHANGED <<book, tables, others>>

\* The Wave 9 cost gate may stop an opening order; a reducing order is clamped
\* to the ledger holding, or closes it when it would leave only dust.
Clamp(c) ==
  /\ At(c, "clamp")
  /\ \/ /\ job[c].kind = "open"
        /\ Goto(c, "place") \/ Return(c)
     \/ /\ job[c].kind # "open"
        /\ \/ /\ ~LedgerHasRows \/ May("db")
              /\ Goto(c, "place")
           \/ /\ LedgerHasRows /\ held > 0
              /\ \E q \in {held} \cup ({job[c].qty} \cap 1..held) :
                   Set(c, [job[c] EXCEPT !.pc = "place", !.qty = q])
           \/ /\ LedgerHasRows /\ held <= 0
              /\ Return(c)
  /\ UNCHANGED <<book, tables, others>>

\* No adapter, quantity normalised to zero, sizing guard, pre-check, exhausted
\* balance: the call ends before anything is sent.
Skip(c) ==
  /\ At(c, "place") /\ job[c].tries = 0
  /\ Return(c)
  /\ UNCHANGED <<book, tables, others>>
----------------------------------------------------------------------------
(* execute: placing with retries *)

Attempt(c) == <<job[c].cid, job[c].tries + 1>>

NewOrder(c) == [state |-> "working", side |-> SideOf(job[c].kind),
                qty |-> job[c].qty, filled |-> 0, cancel |-> FALSE]

\* Mutant: place_order does not look the client id up.
AcceptBlindly(c) == book' = [book EXCEPT ![Attempt(c)] = NewOrder(c)]

\* The venue takes the order of this attempt, or, when the adapter looks the
\* client id up first, answers with the order an earlier attempt created.
Accept(c) ==
  book' = IF IdempotentVenue /\ PlacedFor(job[c].cid) # {}
          THEN book
          ELSE [book EXCEPT ![Attempt(c)] = NewOrder(c)]

PlaceAccepted(c) ==
  /\ At(c, "place")
  /\ Accept(c)
  /\ \/ /\ IdempotentVenue
        /\ \E p \in PlacedFor(job[c].cid) :
             Set(c, [job[c] EXCEPT !.pc = "track", !.res = Snapshot(p)])
     \/ /\ ~(IdempotentVenue /\ PlacedFor(job[c].cid) # {})
        /\ Set(c, [job[c] EXCEPT !.pc = "track",
                     !.res = [status |-> "open", filled |-> 0, bid |-> Attempt(c)]])
  /\ UNCHANGED <<tables, others>>

\* The adapter returns REJECTED and no broker id: a refusal, or a reply lost
\* after the venue took the order.
PlaceRejected(c) ==
  /\ At(c, "place")
  /\ \/ May("place_rejected") /\ UNCHANGED book
     \/ May("lost_reply_rejected") /\ Accept(c)
  /\ Report(c, Rejected)
  /\ UNCHANGED <<tables, others>>

\* Mutant: one attempt too many.
PlaceRaisesOnceMore(c) ==
  /\ At(c, "place")
  /\ May("lost_reply_raised") /\ Accept(c)
  /\ IF job[c].tries <= MaxRetries
     THEN Set(c, [job[c] EXCEPT !.tries = @ + 1])
     ELSE Return(c)
  /\ UNCHANGED <<tables, others>>

\* The adapter raises: retry, and after the last attempt disable the venue
\* (when auto_kill_on_api_failure is set) and give the signal up.
PlaceRaises(c) ==
  /\ At(c, "place")
  /\ \/ May("place_raises") /\ UNCHANGED book
     \/ May("lost_reply_raised") /\ Accept(c)
  /\ \/ /\ job[c].tries < MaxRetries
        /\ Set(c, [job[c] EXCEPT !.tries = @ + 1])
        /\ UNCHANGED disabled
     \/ /\ job[c].tries = MaxRetries
        /\ Return(c)
        /\ disabled' \in {disabled, TRUE}
  /\ UNCHANGED <<tables, rec, swp, kill, killed, parked>>
----------------------------------------------------------------------------
(* execute: tracking the fill and persisting the result *)

\* One poll of _track_fill_status.
Poll(c) ==
  /\ At(c, "track")
  /\ job[c].polls < MaxPolls
  /\ LET r == Snapshot(job[c].res.bid) IN
       \/ /\ r.status \in Terminal
          /\ Report(c, r)
       \/ /\ r.status = "partially_filled"
          /\ Set(c, [job[c] EXCEPT !.res = r, !.polls = @ + 1])
       \/ /\ r.status = "open"
          /\ Set(c, [job[c] EXCEPT !.polls = @ + 1])
       \/ /\ May("read_rejected")
          /\ Report(c, [Rejected EXCEPT !.bid = job[c].res.bid])
       \/ /\ May("read_raises")
          /\ Goto(c, "log")
  /\ UNCHANGED <<book, tables, others>>

\* Mutant: a partial fill re-arms the timeout.
TimeoutRearmed(c) ==
  /\ At(c, "track")
  /\ job[c].polls = MaxPolls
  /\ IF job[c].res.status = "partially_filled"
     THEN Set(c, [job[c] EXCEPT !.polls = 0])
     ELSE Goto(c, "log")
  /\ UNCHANGED <<book, tables, others>>

\* fill_poll_timeout_sec is over: a partial fill has its remainder cancelled,
\* any other last report is the result.
Timeout(c) ==
  /\ At(c, "track")
  /\ job[c].polls = MaxPolls
  /\ Goto(c, IF job[c].res.status = "partially_filled" THEN "cancel" ELSE "log")
  /\ UNCHANGED <<book, tables, others>>

\* cancel_order on the remainder; its answer is not looked at, and when it
\* raises the last partial report is the result.
CancelRemainder(c) ==
  /\ At(c, "cancel")
  /\ \/ CancelRequest(job[c].res.bid) /\ Goto(c, "final")
     \/ May("cancel_fails") /\ Goto(c, "final") /\ UNCHANGED book
     \/ May("cancel_raises") /\ Goto(c, "log") /\ UNCHANGED book
  /\ UNCHANGED <<tables, others>>

\* The get_order after the cancel is the result, whatever it says.
FinalRead(c) ==
  /\ At(c, "final")
  /\ \/ Report(c, Snapshot(job[c].res.bid))
     \/ May("read_rejected") /\ Report(c, [Rejected EXCEPT !.bid = job[c].res.bid])
     \/ May("read_raises") /\ Goto(c, "log")
  /\ UNCHANGED <<book, tables, others>>

\* persist_order_log inserts the row; a failure is only logged.
WriteLog(c) ==
  /\ At(c, "log")
  /\ \/ orderLog' = [orderLog EXCEPT ![job[c].cid] =
                       [status |-> job[c].res.status, side |-> SideOf(job[c].kind),
                        filled |-> job[c].res.filled, bid |-> job[c].res.bid,
                        age |-> 0, older |-> job[c].older]]
     \/ May("db") /\ UNCHANGED orderLog
  /\ Goto(c, "book")
  /\ UNCHANGED <<book, booked, held, others>>

Signed(side, q) == IF side = "buy" THEN q ELSE 0 - q

\* _persist_fill_to_ledger records FILLED and PARTIALLY_FILLED results only.
Recordable(r) == r.status \in {"filled", "partially_filled"} /\ r.filled > 0

\* Mutants: the ordered quantity is booked; a write that was kept is retried.
BookOrdered(c) ==
  /\ At(c, "book")
  /\ Recordable(job[c].res)
  /\ booked' = [booked EXCEPT ![job[c].res.bid] = @ + job[c].qty]
  /\ held' = held + Signed(SideOf(job[c].kind), job[c].qty)
  /\ Return(c)
  /\ UNCHANGED <<book, orderLog, others>>

BookRetried(c) ==
  /\ At(c, "book")
  /\ Recordable(job[c].res)
  /\ booked' = [booked EXCEPT ![job[c].res.bid] = @ + job[c].res.filled]
  /\ held' = held + Signed(SideOf(job[c].kind), job[c].res.filled)
  /\ Return(c) \/ (May("db") /\ UNCHANGED job)
  /\ UNCHANGED <<book, orderLog, others>>

Book(c) ==
  /\ At(c, "book")
  /\ LET r == job[c].res IN
       \/ /\ Recordable(r)
          /\ booked' = [booked EXCEPT ![r.bid] = @ + r.filled]
          /\ held' = held + Signed(SideOf(job[c].kind), r.filled)
       \/ /\ ~Recordable(r) \/ May("db")
          /\ UNCHANGED <<booked, held>>
  /\ Return(c)
  /\ UNCHANGED <<book, orderLog, others>>

Execute(c) ==
  \/ Refuse(c) \/ Approve(c) \/ Dedup(c) \/ ReplaceCancel(c)
  \/ ReplaceConfirm(c) \/ ReplaceMark(c) \/ Clamp(c) \/ Skip(c)
  \/ PlaceAccepted(c) \/ PlaceRejected(c) \/ PlaceRaises(c) \/ Poll(c)
  \/ Timeout(c) \/ CancelRemainder(c) \/ FinalRead(c) \/ WriteLog(c) \/ Book(c)
----------------------------------------------------------------------------
(* Orchestrator._run_order_reconcile_tick, one row of its batch at a time *)

RecSet(new) == rec' = new

\* The batch query: working rows past the minimum age.
RecPick(o) ==
  /\ "reconcile" \in Tasks /\ rec.pc = "idle"
  /\ orderLog[o].status \in Working
  /\ orderLog[o].age >= 1
  /\ RecSet([IdleRec EXCEPT !.pc = "read", !.row = o])
  /\ UNCHANGED <<book, tables, job, swp, kill, killed, disabled, parked>>

RecWriteNext(status, filled) ==
  RecSet([rec EXCEPT !.pc = "write",
            !.res = [status |-> status, filled |-> filled, bid |-> NoBid]])

\* The venue's open-order list holds an order of the row's symbol and side.
ListedOpen(side) ==
  \E p \in Placements : book[p].state = "working" /\ book[p].side = side

\* Mutant: no age makes a row stale.
NeverStale == FALSE

Stale == orderLog[rec.row].age = 2

\* get_order for the row.  A row still open is left alone until it is stale,
\* then cancelled.  When get_order raises, the row is declared cancelled if the
\* open-order list shows nothing of its side, or if it is stale.
RecRead ==
  /\ rec.pc = "read"
  /\ LET r == Snapshot(orderLog[rec.row].bid)
         keep == orderLog[rec.row].filled IN
       \/ r.status \in Terminal \cup {"partially_filled"}
            /\ RecWriteNext(r.status, r.filled)
       \/ r.status = "open" /\ Stale /\ RecSet([rec EXCEPT !.pc = "cancel"])
       \/ r.status = "open" /\ ~Stale /\ RecSet(IdleRec)
       \/ May("read_rejected") /\ RecWriteNext("rejected", 0)
       \/ /\ May("read_raises")
          /\ \/ /\ ~ListedOpen(orderLog[rec.row].side) \/ May("list_empty") \/ Stale
                /\ RecWriteNext("cancelled", keep)
             \/ /\ ListedOpen(orderLog[rec.row].side) \/ May("list_raises")
                /\ ~Stale
                /\ RecSet(IdleRec)
  /\ UNCHANGED <<book, tables, job, swp, kill, killed, disabled, parked>>

\* The stale order is cancelled; the answer of cancel_order is not looked at.
RecCancel ==
  /\ rec.pc = "cancel"
  /\ \/ CancelRequest(orderLog[rec.row].bid) /\ RecWriteNext("cancelled", 0)
     \/ /\ May("cancel_fails")
        /\ RecWriteNext("cancelled", 0)
        /\ UNCHANGED book
     \/ /\ May("cancel_raises")
        /\ RecSet(IdleRec)
        /\ UNCHANGED book
  /\ UNCHANGED <<tables, job, swp, kill, killed, disabled, parked>>

\* The row is updated, unless the write fails and ends the tick.  The fills
\* ledger is not.
RecWrite ==
  /\ rec.pc = "write"
  /\ \/ orderLog' = [orderLog EXCEPT ![rec.row].status = rec.res.status,
                                     ![rec.row].filled = rec.res.filled]
     \/ May("db") /\ UNCHANGED orderLog
  /\ RecSet(IdleRec)
  /\ UNCHANGED <<book, booked, held, job, swp, kill, killed, disabled, parked>>

RecStep == RecRead \/ RecCancel \/ RecWrite
Reconcile == RecStep \/ \E o \in Orders : RecPick(o)
----------------------------------------------------------------------------
(* cancel_working_orders, one row at a time *)

SwpPick ==
  /\ "sweep" \in Tasks /\ swp.pc = "idle"
  /\ \E o \in Orders : /\ orderLog[o].status \in Working
                       /\ orderLog[o].bid # NoBid
                       /\ swp' = [IdleSwp EXCEPT !.pc = "cancel", !.row = o]
  /\ UNCHANGED <<book, tables, job, rec, kill, killed, disabled, parked>>

SwpCancel ==
  /\ swp.pc = "cancel"
  /\ \/ /\ CancelRequest(orderLog[swp.row].bid)
        /\ swp' = [swp EXCEPT !.pc = "confirm"]
     \/ /\ May("cancel_fails") \/ May("cancel_raises")
        /\ swp' = IdleSwp
        /\ UNCHANGED book
  /\ UNCHANGED <<tables, job, rec, kill, killed, disabled, parked>>

SwpConfirm ==
  /\ swp.pc = "confirm"
  /\ \/ Confirmed(swp.row) /\ swp' = [swp EXCEPT !.pc = "write"]
     \/ Denied(swp.row, swp.polls) /\ swp' = IdleSwp
     \/ KeepPolling(swp.row, swp.polls) /\ swp' = [swp EXCEPT !.polls = @ + 1]
  /\ UNCHANGED <<book, tables, job, rec, kill, killed, disabled, parked>>

SwpWrite ==
  /\ swp.pc = "write"
  /\ \/ orderLog' = [orderLog EXCEPT ![swp.row].status = "cancelled"]
     \/ May("db") /\ UNCHANGED orderLog
  /\ swp' = IdleSwp
  /\ UNCHANGED <<book, booked, held, job, rec, kill, killed, disabled, parked>>

Sweep == SwpPick \/ SwpCancel \/ SwpConfirm \/ SwpWrite
----------------------------------------------------------------------------
(* Kill switch: RiskEngine.kill, then ExecutionEngine.cancel_all *)

KillCommand ==
  /\ "kill" \in Tasks /\ kill.pc = "idle" /\ ~killed
  /\ killed' = TRUE
  /\ kill' = [kill EXCEPT !.pc = "list"]
  /\ UNCHANGED <<book, tables, job, rec, swp, disabled, parked>>

\* get_open_orders: the orders cancel_all will cancel are those open now.
KillList ==
  /\ kill.pc = "list"
  /\ \/ kill' = [pc |-> "cancel",
                 todo |-> {p \in Placements : book[p].state = "working"}]
     \/ /\ May("list_empty") \/ May("list_raises")
        /\ kill' = [pc |-> "cancel", todo |-> {}]
  /\ UNCHANGED <<book, tables, job, rec, swp, killed, disabled, parked>>

KillCancel ==
  /\ kill.pc = "cancel"
  /\ \/ /\ kill.todo = {}
        /\ kill' = IdleKill
        /\ UNCHANGED book
     \/ \E p \in kill.todo :
          /\ CancelRequest(p) \/ (May("cancel_fails") /\ UNCHANGED book)
          /\ kill' = [kill EXCEPT !.todo = @ \ {p}]
     \/ /\ kill.todo # {} /\ May("cancel_raises")
        /\ kill' = IdleKill
        /\ UNCHANGED book
  /\ UNCHANGED <<tables, job, rec, swp, killed, disabled, parked>>

\* reset_kill: the operator clears the latch and every disabled broker.  Control
\* commands run one after the other, so it waits for cancel_all.
ResetKill ==
  /\ killed \/ disabled
  /\ kill.pc = "idle"
  /\ killed' = FALSE /\ disabled' = FALSE
  /\ UNCHANGED <<book, tables, job, rec, swp, kill, parked>>

KillSwitch == KillCommand \/ KillList \/ KillCancel \/ ResetKill
----------------------------------------------------------------------------
(* Environment: the venue, time, and the process itself *)

\* One more unit of a working order trades.
VenueFill(p) ==
  /\ book[p].state = "working"
  /\ book' = [book EXCEPT ![p].filled = @ + 1,
                          ![p].state = IF book[p].filled + 1 = book[p].qty
                                       THEN "filled" ELSE "working"]
  /\ UNCHANGED <<tables, job, others>>

\* The venue acts on a cancel request.
VenueCancel(p) ==
  /\ book[p].state = "working" /\ book[p].cancel
  /\ book' = [book EXCEPT ![p].state = "cancelled"]
  /\ UNCHANGED <<tables, job, others>>

\* A working row reaches the next age threshold of the reconcile tick.
Age(o) ==
  /\ orderLog[o].status \in Working
  /\ orderLog[o].age < MaxAge
  /\ orderLog' = [orderLog EXCEPT ![o].age = @ + 1]
  /\ UNCHANGED <<book, booked, held, job, others>>

\* The process dies and is restarted: calls and ticks in progress are gone, the
\* tables, the venue's book and the persisted risk gates stay.
Crash ==
  /\ "crash" \in Tasks
  /\ job' = [c \in Callers |-> IdleJob]
  /\ rec' = IdleRec /\ swp' = IdleSwp /\ kill' = IdleKill
  /\ parked' = {p \in Placements : book[p].state = "working"}
  /\ UNCHANGED <<book, tables, killed, disabled>>

Venue == \E p \in Placements : VenueFill(p) \/ VenueCancel(p)
----------------------------------------------------------------------------
Init ==
  /\ book = [p \in Placements |-> NoPlacement]
  /\ orderLog = [o \in Orders |-> NoRow]
  /\ booked = [p \in Placements |-> 0]
  /\ held = Lot
  /\ job = [c \in Callers |-> IdleJob]
  /\ rec = IdleRec
  /\ swp = IdleSwp
  /\ kill = IdleKill
  /\ killed = FALSE
  /\ disabled = FALSE
  /\ parked = {}

Next ==
  \/ \E c \in Callers : Execute(c)
  \/ Reconcile
  \/ Sweep
  \/ KillSwitch
  \/ Venue
  \/ \E o \in Orders : Age(o)
  \/ Crash

Spec == Init /\ [][Next]_vars

\* A call that was started runs on: the event loop schedules its task again
\* and every adapter or database call returns or raises.
Progress(c) == Execute(c) /\ ~At(c, "idle")

\* A tick works through its whole batch, so every row it may pick is picked in
\* the end, though other rows are picked in between.  Nothing makes a caller
\* call, a venue fill or an operator act.
FairSpec ==
  /\ Spec
  /\ \A c \in Callers : WF_vars(Progress(c))
  /\ WF_vars(RecStep)
  /\ \A o \in Orders : SF_vars(RecPick(o)) /\ WF_vars(Age(o))
----------------------------------------------------------------------------
(* Type invariant *)

Results == [status : Statuses, filled : Nat, bid : Placements \cup {NoBid}]
Labels == {"idle", "dedup", "replace", "confirm", "replaced", "clamp", "place",
           "track", "cancel", "final", "log", "book"}

BookRecord == [state : States, side : Sides, qty : Nat, filled : Nat,
               cancel : BOOLEAN]
RowRecord == [status : Statuses, side : Sides, filled : Nat,
              bid : Placements \cup {NoBid}, age : 0..2, older : SUBSET Orders]
JobRecord == [pc : Labels, kind : {"open", "exit", "flatten"}, qty : Nat,
              cid : Orders \cup {NoOrder}, tries : 0..MaxRetries,
              polls : 0..MaxPolls, res : Results, target : Orders \cup {NoOrder},
              older : SUBSET Orders]
RecType == [pc : {"idle", "read", "cancel", "write"},
            row : Orders \cup {NoOrder}, res : Results]
SwpType == [pc : {"idle", "cancel", "confirm", "write"},
            row : Orders \cup {NoOrder}, polls : 0..MaxPolls]
KillType == [pc : {"idle", "list", "cancel"}, todo : SUBSET Placements]

\* Every variable of the execution model stays within its type.
TypeOK ==
  /\ book \in [Placements -> BookRecord]
  /\ orderLog \in [Orders -> RowRecord]
  /\ booked \in [Placements -> Nat]
  /\ held \in Int
  /\ job \in [Callers -> JobRecord]
  /\ rec \in RecType
  /\ swp \in SwpType
  /\ kill \in KillType
  /\ killed \in BOOLEAN
  /\ disabled \in BOOLEAN
  /\ parked \subseteq Placements
----------------------------------------------------------------------------
(* Safety *)

\* The fills ledger never records more of a broker order than that order
\* traded, whatever was retried, lost, swept or reconciled in between: the
\* quantity _persist_fill_to_ledger writes is a report that may be old, never
\* one that is too large.
BookedOnlyWhatTraded == \A p \in Placements : booked[p] <= book[p].filled

\* A client order id reaches the venue as at most one broker order, the
\* idempotence that the retry loop around place_order relies on.
OnePlacementPerClientId ==
  \A o \in Orders : \A p, q \in PlacedFor(o) : p = q

\* A broker order the process died on before it logged the row.
Orphan(p) == p \in parked /\ orderLog[p[1]] = NoRow

\* Two working orders of one side never rest at the venue together, orphans of
\* a crash apart: dedup reads the table, also after a restart, and a row only
\* leaves the working states when the venue said that the order is over.
SingleWorkingOrderPerSide ==
  \A p, q \in Placements :
    /\ book[p].state = "working" /\ book[q].state = "working"
    /\ book[p].side = book[q].side
    /\ ~Orphan(p) /\ ~Orphan(q)
    => p = q

\* The ledger of a long-only symbol never goes short: what a reducing call
\* books was clamped to what the ledger held, and nothing was booked between.
LedgerNeverShort == held >= 0

\* The position the venue holds: the initial lot, plus buys, minus sells.
VenuePosition ==
  Lot + MapThenSumSet(LAMBDA p : Signed(book[p].side, book[p].filled), Placements)

\* A reducing order never sells more than the position holds, so a long-only
\* symbol never becomes a short position at the venue.
NeverOversold == VenuePosition >= 0

Quiet ==
  /\ \A c \in Callers : At(c, "idle")
  /\ rec.pc = "idle"
  /\ \A o \in Orders : orderLog[o].status \notin Working
  /\ \A p \in Placements : book[p].state # "working"

\* When no call is in progress and every order is over, at the venue and in the
\* table, the ledger holds exactly the position of the venue.
LedgerComplete == Quiet => held = VenuePosition

\* After kill() no new order reaches the venue until the kill is reset.
KillHaltsPlacement ==
  [][killed /\ killed' =>
       \A p \in Placements : book[p].state = "none" => book'[p].state = "none"]_vars
----------------------------------------------------------------------------
(* Termination *)

\* The most steps a call can still take by itself.
StepsLeft(j) ==
  CASE j.pc = "idle"     -> 0
    [] j.pc = "book"     -> 1
    [] j.pc = "log"      -> 2
    [] j.pc = "final"    -> 3
    [] j.pc = "cancel"   -> 4
    [] j.pc = "track"    -> 5 + (MaxPolls - j.polls)
    [] j.pc = "place"    -> 6 + MaxPolls + (MaxRetries - j.tries)
    [] j.pc = "clamp"    -> 7 + MaxPolls + MaxRetries
    [] j.pc = "replaced" -> 8 + MaxPolls + MaxRetries
    [] j.pc = "confirm"  -> 9 + MaxPolls + MaxRetries + (MaxPolls - j.polls)
    [] j.pc = "replace"  -> 10 + 2 * MaxPolls + MaxRetries
    [] j.pc = "dedup"    -> 11 + 2 * MaxPolls + MaxRetries

\* Whatever the venue, the tables and the other tasks do to a call, each step it
\* takes brings it nearer to its end: no retry, poll or replaced order starts the
\* call over, so it is over after a number of steps that is known beforehand.
CallsRunDown ==
  [][\A c \in Callers :
       ~At(c, "idle") /\ job'[c] # job[c] =>
         StepsLeft(job'[c]) < StepsLeft(job[c])]_vars

(* Liveness *)

\* Every call of execute returns: the retries and the polls are bounded.
ExecuteReturns == \A c \in Callers : ~At(c, "idle") ~> At(c, "idle")

\* A row left "open" does not block its side for ever: the reconcile tick
\* settles it, or sees it partially filled, or cancels it when it is stale.
OpenRowSettles ==
  \A o \in Orders : orderLog[o].status = "open" ~> orderLog[o].status # "open"
----------------------------------------------------------------------------
(* The abstract promise of the ledger *)

Booking == INSTANCE FillBooking
             WITH traded <- [p \in Placements |-> book[p].filled]

\* Execution implements the promise: each broker order is booked at most once,
\* with a quantity that it really traded.
BookingSpec == Booking!Spec
============================================================================
