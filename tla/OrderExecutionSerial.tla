------------------------ MODULE OrderExecutionSerial ------------------------
(***************************************************************************)
(* What execution guarantees while calls of execute follow one another,    *)
(* for every number of client order ids, signals, retries and polls.       *)
(***************************************************************************)
EXTENDS OrderExecutionProofs

\* The trading loop alone: no exit monitor calls execute meanwhile.
OneCaller == \A c, d \in Callers : c = d

\* What is reported of an order is so: no reply is lost after the venue took an
\* order, no failed read passes for an answer, and the database works.
Misreports == {"lost_reply_rejected", "lost_reply_raised", "read_rejected",
               "list_empty", "db"}
TrueReports == Faults \cap Misreports = {}

----------------------------------------------------------------------------
(* One working order a side: the invariant *)

Live(p) == book[p].state = "working"

\* The row of an order that reached the venue names it and is working when it
\* is, and rows are too young to be cancelled unseen.
RowsMatch ==
  \A o \in Orders :
    /\ orderLog[o].age <= 1
    /\ orderLog[o] # NoRow =>
         \A p \in PlacedFor(o) : /\ orderLog[o].bid = p
                                 /\ orderLog[o].side = book[p].side
                                 /\ Live(p) => orderLog[o].status \in Working

\* The row of a working order is the newest of its side: an older row that was
\* written back to a working status never hides it from dedup.
LiveIsNewest ==
  \A p \in Placements :
    Live(p) /\ orderLog[p[1]] # NoRow =>
      \A o \in Logged \ {p[1]} :
        orderLog[o].side = book[p].side => o \in orderLog[p[1]].older

ParkedPlaced == \A p \in parked : book[p].state # "none"

TablesInv ==
  /\ OnePlacementPerClientId
  /\ RowsMatch
  /\ LiveIsNewest
  /\ ParkedPlaced
  /\ SingleWorkingOrderPerSide

\* An order without a row belongs to the call in progress or to a crash.
Holding == {"track", "cancel", "final", "log"}
Replacing == {"replace", "confirm", "replaced"}
Unlogged(j) ==
  \A p \in Placements :
    Live(p) /\ p \notin parked /\ orderLog[p[1]] = NoRow => p[1] = j.cid /\ j.pc \in Holding

\* Only order o, or an orphan of a crash, works on the side of call j.
Alone(j, o) ==
  \A p \in Placements :
    Live(p) /\ book[p].side = SideOf(j.kind) /\ ~Orphan(p) => p[1] = o

CallInv(j) ==
  /\ Unlogged(j)
  /\ j.pc # "idle" =>
       /\ \A p \in parked : p[1] # j.cid
       /\ \A p \in PlacedFor(j.cid) : book[p].side = SideOf(j.kind)
       /\ j.pc # "book" => Logged \subseteq j.older
  /\ j.pc \in BeforePlace => PlacedFor(j.cid) = {}
  /\ j.pc \in {"track", "cancel", "final"} => j.res.status \in Working
  /\ j.pc \in Holding =>
       \A p \in PlacedFor(j.cid) :
         j.res.bid = p /\ (Live(p) => j.res.status \in Working)
  /\ j.pc \in {"clamp", "place"} \cup Holding => Alone(j, j.cid)
  /\ j.pc \in Replacing => Alone(j, j.target)
  /\ j.pc = "replaced" => \A p \in PlacedFor(j.target) : ~Live(p)

\* A row is written off only when its order is over.
RecInv ==
  /\ rec.pc # "cancel"
  /\ rec.pc = "write" /\ rec.res.status \notin Working =>
       \A p \in PlacedFor(rec.row) : ~Live(p)
SwpInv == swp.pc = "write" => \A p \in PlacedFor(swp.row) : ~Live(p)

SerialInv ==
  /\ TablesInv
  /\ \A c \in Callers : CallInv(job[c])
  /\ RecInv
  /\ SwpInv

----------------------------------------------------------------------------
(* The ledger: the invariant *)

Bound == {"place", "track", "cancel", "final", "log", "book"}

\* A broker order trades no more than its quantity, and trades on only while
\* some of it is left.
QuantityInv ==
  \A p \in Placements : /\ book[p].state # "none" => book[p].filled <= book[p].qty
                        /\ Live(p) => book[p].filled < book[p].qty

\* A reducing call that passed the clamp asks for no more than the ledger holds.
ClampInv(j) ==
  /\ j.pc # "idle" => j.qty > 0
  /\ j.pc \in Bound => \A p \in PlacedFor(j.cid) : book[p].qty = j.qty
  /\ j.pc \in Bound /\ j.kind # "open" => j.qty <= held

LedgerInv ==
  /\ held >= 0
  /\ QuantityInv
  /\ \A c \in Callers : ClampInv(job[c])

----------------------------------------------------------------------------
(* What a step does to the venue's book *)

USE ConstantsAssumption, NullAssumption DEF Attempts

\* Orders stay what they are, and none starts to work again.
Fades ==
  \A p \in Placements : /\ book'[p].state = "none" <=> book[p].state = "none"
                        /\ book'[p].side = book[p].side
                        /\ book'[p].qty = book[p].qty
                        /\ Live(p)' => Live(p)

FadesSized == Fades /\ (QuantityInv => QuantityInv')

LEMMA NothingFades ==
  ASSUME UNCHANGED book
  PROVE  FadesSized
  BY DEF FadesSized, Fades, Live, QuantityInv

LEMMA CancelFades ==
  ASSUME TypeOK, NEW p \in Placements, CancelRequest(p)
  PROVE  FadesSized
<1>1. \A q \in Placements : /\ book'[q].state = book[q].state
                            /\ book'[q].side = book[q].side
                            /\ book'[q].qty = book[q].qty
                            /\ book'[q].filled = book[q].filled
  BY DEF CancelRequest, TypeOK, BookRecord
<1> QED
  BY <1>1 DEF FadesSized, Fades, Live, QuantityInv

LEMMA VenueFades ==
  ASSUME TypeOK, NEW p \in Placements, VenueFill(p) \/ VenueCancel(p)
  PROVE  FadesSized
<1>0. book[p] \in BookRecord /\ book[p].filled \in Nat /\ book[p].qty \in Nat
  BY DEF TypeOK, BookRecord
<1>1. /\ \A q \in Placements \ {p} : book'[q] = book[q]
      /\ book[p].state = "working" /\ book'[p].state \in {"working", "filled", "cancelled"}
      /\ book'[p].side = book[p].side /\ book'[p].qty = book[p].qty
      /\ \/ book'[p].state = "cancelled" /\ book'[p].filled = book[p].filled
         \/ /\ book'[p].filled = book[p].filled + 1
            /\ book'[p].state = IF book[p].filled + 1 = book[p].qty THEN "filled" ELSE "working"
  BY <1>0 DEF VenueFill, VenueCancel, TypeOK, BookRecord
<1>2. Fades
  BY <1>1 DEF Fades, Live
<1>3. ASSUME QuantityInv, NEW q \in Placements
      PROVE  /\ book'[q].state # "none" => book'[q].filled <= book'[q].qty
             /\ Live(q)' => book'[q].filled < book'[q].qty
  <2>1. CASE q = p
    BY <1>0, <1>1, <1>3, <2>1 DEF QuantityInv, Live
  <2>2. CASE q # p
    BY <1>1, <1>3, <2>2 DEF QuantityInv, Live
  <2> QED
    BY <2>1, <2>2
<1> QED
  BY <1>2, <1>3 DEF FadesSized, QuantityInv

\* Every step but the one that places an order only lets orders fade.
LEMMA BookShapes ==
  ASSUME IndInv, [Next]_vars
  PROVE  \/ FadesSized
         \/ \E c \in Callers : At(c, "place") /\ Accept(c) /\ UNCHANGED tables
<1> DEFINE Goal == \/ FadesSized
                   \/ \E c \in Callers : At(c, "place") /\ Accept(c) /\ UNCHANGED tables
<1> SUFFICES Goal
  OBVIOUS
<1>0. TypeOK
  BY DEF IndInv
<1>1. UNCHANGED book => Goal
  BY NothingFades
<1>2. ASSUME NEW p \in Placements, CancelRequest(p) PROVE Goal
  BY <1>0, <1>2, CancelFades
<1>3. ASSUME NEW c \in Callers, Execute(c) PROVE Goal
  <2>0. job[c].pc # "idle" => JobOK(job[c]) /\ job[c].res \in Results
    BY <1>0 DEF IndInv, JobsOK, TypeOK, JobRecord
  <2>1. CASE ReplaceCancel(c)
    <3>1. orderLog[job[c].target].bid \in Placements
      BY <1>0, <2>0, <2>1 DEF ReplaceCancel, At, JobOK, TypeOK, RowRecord
    <3> HIDE DEF Goal
    <3> QED
      BY <1>1, <1>2, <2>1, <3>1 DEF ReplaceCancel
  <2>2. CASE CancelRemainder(c)
    <3>1. job[c].res.bid \in Placements
      BY <2>0, <2>2 DEF CancelRemainder, At, JobOK, Results
    <3> HIDE DEF Goal
    <3> QED
      BY <1>1, <1>2, <2>2, <3>1 DEF CancelRemainder
  <2>3. CASE PlaceAccepted(c) \/ PlaceRejected(c) \/ PlaceRaises(c)
    <3>1. At(c, "place") /\ (Accept(c) \/ UNCHANGED book) /\ UNCHANGED tables
      BY <2>3 DEF PlaceAccepted, PlaceRejected, PlaceRaises
    <3> QED
      BY <1>1, <3>1
  <2> HIDE DEF Goal
  <2>4. CASE Refuse(c) \/ Approve(c) \/ Dedup(c) \/ ReplaceConfirm(c) \/ ReplaceMark(c)
    BY <1>1, <2>4 DEF Refuse, Approve, Dedup, ReplaceConfirm, ReplaceMark, vars
  <2>5. CASE Clamp(c) \/ Skip(c) \/ Poll(c) \/ Timeout(c) \/ FinalRead(c)
    BY <1>1, <2>5 DEF Clamp, Skip, Poll, Timeout, FinalRead
  <2>6. CASE WriteLog(c) \/ Book(c)
    BY <1>1, <2>6 DEF WriteLog, Book
  <2> QED
    BY <1>3, <2>1, <2>2, <2>3, <2>4, <2>5, <2>6 DEF Execute
<1> HIDE DEF Goal
<1>4. CASE Reconcile
  <2>1. CASE RecCancel
    <3>1. orderLog[rec.row].bid \in Placements
      BY <1>0, <2>1 DEF RecCancel, IndInv, TasksOK, TypeOK, RowRecord
    <3> QED
      BY <1>1, <1>2, <2>1, <3>1 DEF RecCancel
  <2>2. CASE RecRead \/ RecWrite \/ \E o \in Orders : RecPick(o)
    BY <1>1, <2>2 DEF RecRead, RecWrite, RecPick
  <2> QED
    BY <1>4, <2>1, <2>2 DEF Reconcile, RecStep
<1>5. CASE Sweep
  <2>1. CASE SwpCancel
    <3>1. orderLog[swp.row].bid \in Placements
      BY <1>0, <2>1 DEF SwpCancel, IndInv, TasksOK, TypeOK, RowRecord
    <3> QED
      BY <1>1, <1>2, <2>1, <3>1 DEF SwpCancel
  <2>2. CASE SwpPick \/ SwpConfirm \/ SwpWrite
    BY <1>1, <2>2 DEF SwpPick, SwpConfirm, SwpWrite
  <2> QED
    BY <1>5, <2>1, <2>2 DEF Sweep
<1>6. CASE KillSwitch
  <2>1. CASE KillCancel
    <3>1. \A p \in kill.todo : p \in Placements
      BY <1>0 DEF TypeOK, KillType
    <3> QED
      BY <1>1, <1>2, <2>1, <3>1 DEF KillCancel
  <2>2. CASE KillCommand \/ KillList \/ ResetKill
    BY <1>1, <2>2 DEF KillCommand, KillList, ResetKill
  <2> QED
    BY <1>6, <2>1, <2>2 DEF KillSwitch
<1>7. ASSUME NEW p \in Placements, VenueFill(p) \/ VenueCancel(p) PROVE Goal
  BY <1>0, <1>7, VenueFades DEF Goal
<1>8. CASE (\E o \in Orders : Age(o)) \/ Crash \/ UNCHANGED vars
  BY <1>1, <1>8 DEF Age, Crash, vars
<1> QED
  BY <1>3, <1>4, <1>5, <1>6, <1>7, <1>8 DEF Next, Venue

\* The order that appears is the only change of the book, and was none before.
LEMMA Appears ==
  ASSUME IndInv, NEW c \in Callers, At(c, "place"), Accept(c)
  PROVE  /\ Attempt(c) \in Placements /\ Attempt(c)[1] = job[c].cid
         /\ book[Attempt(c)].state = "none"
         /\ \A p \in Placements \ {Attempt(c)} : book'[p] = book[p]
         /\ \/ UNCHANGED book
            \/ book'[Attempt(c)] = NewOrder(c)
<1>0. TypeOK /\ JobOK(job[c]) /\ job[c].tries \in Nat
  BY DEF IndInv, TypeOK, JobsOK, At, JobRecord
<1>1. \A p \in PlacedFor(job[c].cid) : p[2] <= job[c].tries
  BY <1>0 DEF JobOK, BeforePlace, At
<1>2. Attempt(c) \notin PlacedFor(job[c].cid)
  BY <1>0, <1>1, AcceptFacts
<1>3. book[Attempt(c)].state = "none"
  BY <1>2, AcceptFacts DEF PlacedFor
<1> QED
  BY <1>0, <1>3, AcceptFacts DEF TypeOK

----------------------------------------------------------------------------
(* The ledger never goes short *)

\* The call goes on with its signal, and passes the clamp nowhere but there.
SameCall(j, new) ==
  /\ new.cid = j.cid /\ new.qty = j.qty /\ new.kind = j.kind /\ new.older = j.older
  /\ new.pc \in Bound => j.pc \in Bound
  /\ j.pc # "idle"

CallEnds(c) == job'[c].pc = "idle"
CallStays(c) == CallEnds(c) \/ SameCall(job[c], job'[c])

LEMMA GotoStays ==
  ASSUME TypeOK, NEW c \in Callers, NEW label, Goto(c, label), job[c].pc # "idle",
         label \in Bound => job[c].pc \in Bound
  PROVE  CallStays(c)
<1>1. job[c] \in JobRecord /\ job'[c] = [job[c] EXCEPT !.pc = label]
  BY DEF TypeOK, Goto, Set
<1> QED
  BY <1>1 DEF CallStays, SameCall, JobRecord

LEMMA ReturnEnds ==
  ASSUME TypeOK, NEW c \in Callers, Return(c)
  PROVE  CallStays(c)
  BY DEF TypeOK, Return, Set, IdleJob, CallStays, CallEnds

LEMMA CallMoves ==
  ASSUME TypeOK, NEW c \in Callers,
         Dedup(c) \/ ReplaceCancel(c) \/ ReplaceConfirm(c) \/ ReplaceMark(c) \/ Skip(c)
           \/ PlaceAccepted(c) \/ PlaceRejected(c) \/ PlaceRaises(c) \/ Poll(c)
           \/ Timeout(c) \/ CancelRemainder(c) \/ FinalRead(c) \/ WriteLog(c)
  PROVE  CallStays(c) /\ UNCHANGED held
<1>0. job[c] \in JobRecord /\ job \in [Callers -> JobRecord]
  BY DEF TypeOK
<1>1. ASSUME NEW new, Set(c, new), SameCall(job[c], new)
      PROVE  CallStays(c)
  BY <1>0, <1>1 DEF Set, CallStays
<1> USE DEF At
<1>2. CASE Dedup(c)
  <2>1. ASSUME NEW o PROVE SameCall(job[c], [job[c] EXCEPT !.pc = "replace", !.target = o])
    BY <1>0, <1>2 DEF Dedup, SameCall, JobRecord, Bound
  <2> QED
    BY <1>1, <1>2, <2>1, GotoStays, ReturnEnds DEF Dedup, tables, Bound
<1>3. CASE ReplaceCancel(c)
  BY <1>3, GotoStays, ReturnEnds DEF ReplaceCancel, tables, Bound
<1>4. CASE ReplaceConfirm(c)
  <2>1. SameCall(job[c], [job[c] EXCEPT !.polls = @ + 1])
    BY <1>0, <1>4 DEF ReplaceConfirm, SameCall, JobRecord, Bound
  <2> QED
    BY <1>1, <1>4, <2>1, GotoStays, ReturnEnds DEF ReplaceConfirm, tables, Bound
<1>5. CASE ReplaceMark(c)
  <2>1. SameCall(job[c], [job[c] EXCEPT !.pc = "clamp", !.polls = 0])
    BY <1>0, <1>5 DEF ReplaceMark, SameCall, JobRecord, Bound
  <2> QED
    BY <1>1, <1>5, <2>1 DEF ReplaceMark
<1>6. CASE Skip(c)
  BY <1>6, ReturnEnds DEF Skip, tables
<1>7. ASSUME job[c].pc \in {"place", "track", "cancel", "final"}, NEW r, Report(c, r)
      PROVE  CallStays(c)
  <2>1. SameCall(job[c], [job[c] EXCEPT !.pc = "log", !.res = r])
    BY <1>0, <1>7 DEF SameCall, JobRecord, Bound
  <2> QED
    BY <1>1, <1>7, <2>1 DEF Report
<1>8. CASE PlaceAccepted(c)
  <2>1. ASSUME NEW r PROVE SameCall(job[c], [job[c] EXCEPT !.pc = "track", !.res = r])
    BY <1>0, <1>8 DEF PlaceAccepted, SameCall, JobRecord, Bound
  <2>2. \E r : Set(c, [job[c] EXCEPT !.pc = "track", !.res = r])
    BY <1>8 DEF PlaceAccepted
  <2> QED
    BY <1>1, <1>8, <2>1, <2>2 DEF PlaceAccepted, tables
<1>9. CASE PlaceRejected(c)
  BY <1>7, <1>9 DEF PlaceRejected, tables
<1>10. CASE PlaceRaises(c)
  <2>1. SameCall(job[c], [job[c] EXCEPT !.tries = @ + 1])
    BY <1>0, <1>10 DEF PlaceRaises, SameCall, JobRecord, Bound
  <2> QED
    BY <1>1, <1>10, <2>1, ReturnEnds DEF PlaceRaises, tables
<1>11. CASE Poll(c)
  <2>1. /\ \A r : SameCall(job[c], [job[c] EXCEPT !.res = r, !.polls = @ + 1])
        /\ SameCall(job[c], [job[c] EXCEPT !.polls = @ + 1])
    BY <1>0, <1>11 DEF Poll, SameCall, JobRecord, Bound
  <2>2. \/ \E r : Report(c, r)
        \/ \E r : Set(c, [job[c] EXCEPT !.res = r, !.polls = @ + 1])
        \/ Set(c, [job[c] EXCEPT !.polls = @ + 1])
        \/ Goto(c, "log")
    BY <1>11 DEF Poll
  <2> QED
    BY <1>1, <1>7, <1>11, <2>1, <2>2, GotoStays DEF Poll, tables, Bound
<1>12. CASE Timeout(c)
  <2>1. Goto(c, "cancel") \/ Goto(c, "log")
    BY <1>12 DEF Timeout
  <2> QED
    BY <1>12, <2>1, GotoStays DEF Timeout, tables, Bound
<1>13. CASE CancelRemainder(c)
  BY <1>13, GotoStays DEF CancelRemainder, tables, Bound
<1>14. CASE FinalRead(c)
  <2>1. Goto(c, "log") \/ \E r : Report(c, r)
    BY <1>14 DEF FinalRead
  <2> QED
    BY <1>7, <1>14, <2>1, GotoStays DEF FinalRead, tables, Bound
<1>15. CASE WriteLog(c)
  BY <1>15, GotoStays DEF WriteLog, Bound
<1> QED
  BY <1>2, <1>3, <1>4, <1>5, <1>6, <1>8, <1>9, <1>10, <1>11, <1>12, <1>13, <1>14, <1>15

\* Only Approve, Clamp and Book touch the ledger or what a call asks for.
LEMMA JobShapes ==
  ASSUME OneCaller, TypeOK, [Next]_vars
  PROVE  \/ UNCHANGED held /\ \A c \in Callers : CallStays(c)
         \/ \E c \in Callers : Approve(c) \/ Clamp(c) \/ Book(c)
<1>1. ASSUME UNCHANGED job, NEW c \in Callers PROVE CallStays(c)
  BY <1>1 DEF CallStays, CallEnds, SameCall
<1>2. ASSUME NEW c \in Callers, Execute(c), ~(Approve(c) \/ Clamp(c) \/ Book(c))
      PROVE  UNCHANGED held /\ \A d \in Callers : CallStays(d)
  <2>1. CASE Refuse(c)
    BY <1>1, <2>1 DEF Refuse, vars
  <2>2. CASE ~Refuse(c)
    BY <1>2, <2>2, CallMoves DEF Execute, OneCaller
  <2> QED
    BY <2>1, <2>2
<1>3. CASE Crash
  BY <1>3 DEF Crash, IdleJob, CallStays, CallEnds, tables
<1>4. CASE Reconcile \/ Sweep
  <2>1. UNCHANGED <<held, job>>
    BY <1>4 DEF Reconcile, RecStep, RecPick, RecRead, RecCancel, RecWrite, Sweep,
                SwpPick, SwpCancel, SwpConfirm, SwpWrite, tables
  <2> QED
    BY <1>1, <2>1
<1>5. CASE KillSwitch \/ Venue \/ (\E o \in Orders : Age(o)) \/ UNCHANGED vars
  <2>1. UNCHANGED <<held, job>>
    BY <1>5 DEF KillSwitch, KillCommand, KillList, KillCancel, ResetKill, Venue,
                VenueFill, VenueCancel, Age, tables, vars
  <2> QED
    BY <1>1, <2>1
<1> QED
  BY <1>2, <1>3, <1>4, <1>5 DEF Next

\* The orders of call j have the quantity it asks for, after the step too.
Sized(j) ==
  \A p \in Placements : p[1] = j.cid /\ book'[p].state # "none" => book'[p].qty = j.qty

\* A broker order keeps within its quantity, which is the one its call asks for.
LEMMA BookLedger ==
  ASSUME OneCaller, IndInv, LedgerInv, [Next]_vars
  PROVE  /\ QuantityInv'
         /\ \A c \in Callers :
              job[c].pc \in Bound => Sized(job[c])
<1>1. CASE FadesSized
  <2>1. ASSUME NEW c \in Callers, job[c].pc \in Bound PROVE Sized(job[c])
    <3>1. \A p \in PlacedFor(job[c].cid) : book[p].qty = job[c].qty
      BY <2>1 DEF LedgerInv, ClampInv
    <3> QED
      BY <1>1, <3>1 DEF FadesSized, Fades, Sized, PlacedFor
  <2> QED
    BY <1>1, <2>1 DEF FadesSized, LedgerInv
<1>2. ASSUME NEW c \in Callers, At(c, "place"), Accept(c)
      PROVE  /\ QuantityInv'
             /\ \A d \in Callers : d = c
             /\ Sized(job[c])
  <2>0. \A p \in PlacedFor(job[c].cid) : book[p].qty = job[c].qty
    BY <1>2 DEF LedgerInv, ClampInv, At, Bound
  <2>1. CASE UNCHANGED book
    BY <2>0, <2>1 DEF LedgerInv, QuantityInv, Sized, PlacedFor, Live, OneCaller
  <2>2. CASE book'[Attempt(c)] = NewOrder(c)
    <3>1. job[c].qty > 0 /\ job[c].qty \in Nat /\ job[c].pc \in Bound
      BY <1>2 DEF At, LedgerInv, ClampInv, IndInv, TypeOK, JobRecord, Bound
    <3>2. /\ book'[Attempt(c)].qty = job[c].qty /\ book'[Attempt(c)].filled = 0
      BY <2>2 DEF NewOrder
    <3>3. \A p \in Placements \ {Attempt(c)} : book'[p] = book[p]
      BY <1>2, Appears
    <3>5. QuantityInv'
      BY <3>1, <3>2, <3>3 DEF LedgerInv, QuantityInv, Live
    <3>6. Sized(job[c])
      BY <2>0, <3>2, <3>3 DEF PlacedFor, Sized
    <3> QED
      BY <3>5, <3>6 DEF OneCaller
  <2> QED
    BY <1>2, <2>1, <2>2, Appears
<1> QED
  BY <1>1, <1>2, BookShapes

LEMMA LedgerStep ==
  ASSUME OneCaller, Lot > 0, "db" \notin Faults, IndInv, LedgerInv, [Next]_vars
  PROVE  LedgerInv'
<1>0. /\ TypeOK /\ held \in Int /\ held >= 0 /\ QuantityInv'
      /\ \A c \in Callers : job[c] \in JobRecord /\ ClampInv(job[c])
  BY BookLedger DEF IndInv, TypeOK, LedgerInv
<1>a. ASSUME NEW c \in Callers, NEW new, Set(c, new), held' >= 0, ClampInv(new)'
      PROVE  LedgerInv'
  <2>1. \A d \in Callers : job'[d] = new
    BY <1>0, <1>a DEF Set, OneCaller, TypeOK
  <2> QED
    BY <1>0, <1>a, <2>1 DEF LedgerInv, ClampInv, PlacedFor
<1>1. CASE UNCHANGED held /\ \A c \in Callers : CallStays(c)
  <2>1. ASSUME NEW c \in Callers PROVE ClampInv(job[c])'
    <3>1. CASE CallEnds(c)
      BY <3>1 DEF CallEnds, ClampInv, Bound
    <3>2. CASE SameCall(job[c], job'[c])
      <4>1. job[c].pc \in Bound => Sized(job[c])
        BY BookLedger
      <4> QED
        BY <1>0, <1>1, <3>2, <4>1 DEF SameCall, ClampInv, PlacedFor, Sized
    <3> QED
      BY <1>1, <3>1, <3>2 DEF CallStays
  <2> QED
    BY <1>0, <1>1, <2>1 DEF LedgerInv
<1>2. ASSUME NEW c \in Callers, Approve(c)
      PROVE  LedgerInv'
  <2>0. PICK k \in Kinds, q \in Quantities, o \in FreeIds :
          Set(c, [IdleJob EXCEPT !.pc = "dedup", !.kind = k, !.qty = q, !.cid = o,
                                 !.older = Logged])
    BY <1>2 DEF Approve
  <2>1. PICK new : new = [IdleJob EXCEPT !.pc = "dedup", !.kind = k, !.qty = q,
                                         !.cid = o, !.older = Logged]
    OBVIOUS
  <2>2. ClampInv(new)'
    <3>1. new.pc = "dedup" /\ new.qty = q /\ q > 0
      BY <2>1 DEF IdleJob
    <3> QED
      BY <3>1 DEF ClampInv, Bound
  <2>3. UNCHANGED held
    BY <1>2 DEF Approve, tables
  <2> QED
    BY <1>0, <1>a, <2>0, <2>1, <2>2, <2>3
<1>3. ASSUME NEW c \in Callers, Clamp(c)
      PROVE  LedgerInv'
  <2>0. /\ job[c].pc = "clamp" /\ UNCHANGED <<book, held>> /\ LedgerHasRows
        /\ ~May("db") /\ job[c].qty > 0
    BY <1>0, <1>3 DEF Clamp, At, tables, LedgerHasRows, May, ClampInv
  <2>1. PlacedFor(job[c].cid) = {}
    <3>1. \A p \in PlacedFor(job[c].cid) : p[2] <= 0
      BY <2>0 DEF IndInv, JobsOK, JobOK, BeforePlace
    <3> QED
      BY <3>1 DEF PlacedFor, Placements
  <2>2. ASSUME NEW q, NEW n, n = [job[c] EXCEPT !.pc = "place", !.qty = q], Set(c, n),
               q > 0, job[c].kind # "open" => q <= held
        PROVE  LedgerInv'
    <3>1. n.qty = q /\ n.kind = job[c].kind /\ n.cid = job[c].cid
      BY <1>0, <2>2 DEF JobRecord
    <3>2. ClampInv(n)'
      BY <2>0, <2>1, <2>2, <3>1 DEF ClampInv, PlacedFor
    <3> QED
      BY <1>0, <1>a, <2>0, <2>2, <3>2
  <2>3. CASE Return(c)
    <3>1. ClampInv(IdleJob)'
      BY DEF ClampInv, IdleJob, Bound
    <3> QED
      BY <1>0, <1>a, <2>0, <2>3, <3>1 DEF Return
  <2>4. CASE job[c].kind = "open" /\ Goto(c, "place")
    <3>1. PICK n : n = [job[c] EXCEPT !.pc = "place"]
      OBVIOUS
    <3>2. n = [job[c] EXCEPT !.pc = "place", !.qty = job[c].qty]
      BY <1>0, <3>1 DEF JobRecord
    <3> QED
      BY <2>0, <2>2, <2>4, <3>1, <3>2 DEF Goto
  <2>5. ASSUME held > 0, NEW q \in {held} \cup ({job[c].qty} \cap 1..held),
               Set(c, [job[c] EXCEPT !.pc = "place", !.qty = q])
        PROVE  LedgerInv'
    <3>1. q > 0 /\ q <= held
      BY <1>0, <2>5
    <3> QED
      BY <2>2, <2>5, <3>1
  <2> QED
    BY <1>3, <2>0, <2>3, <2>4, <2>5 DEF Clamp
<1>4. ASSUME NEW c \in Callers, Book(c)
      PROVE  LedgerInv'
  <2>1. ClampInv(IdleJob)'
    BY DEF ClampInv, IdleJob, Bound
  <2>2. held' >= 0
    <3>1. CASE UNCHANGED held
      BY <1>0, <3>1
    <3>2. CASE Recordable(job[c].res)
                 /\ held' = held + Signed(SideOf(job[c].kind), job[c].res.filled)
      <4> DEFINE r == job[c].res
      <4>1. /\ job[c].pc = "book" /\ JobOK(job[c]) /\ r \in Results /\ r.filled > 0
            /\ job[c].cid \in Orders
        BY <1>0, <1>4, <3>2 DEF Book, At, IndInv, JobsOK, JobOK, JobRecord, Recordable
      <4>2. /\ r.bid \in PlacedFor(job[c].cid) /\ r.filled <= book[r.bid].filled
            /\ r.bid \in Placements
        BY <4>1 DEF JobOK, ResultOK, Results, PlacedFor
      <4>3. book[r.bid].filled <= book[r.bid].qty /\ book[r.bid].qty = job[c].qty
        BY <1>0, <4>1, <4>2 DEF LedgerInv, QuantityInv, PlacedFor, ClampInv, Bound
      <4>4. job[c].kind # "open" => job[c].qty <= held
        BY <1>0, <4>1 DEF ClampInv, Bound
      <4>5. r.filled \in Nat /\ book[r.bid].filled \in Nat /\ job[c].qty \in Nat
        BY <1>0, <4>1, <4>2 DEF Results, TypeOK, BookRecord, JobRecord
      <4> HIDE DEF r
      <4> QED
        BY <1>0, <3>2, <4>2, <4>3, <4>4, <4>5 DEF Signed, SideOf, r
    <3> QED
      BY <1>4, <3>1, <3>2 DEF Book
  <2> QED
    BY <1>a, <1>4, <2>1, <2>2 DEF Book, Return
<1> QED
  BY <1>0, <1>1, <1>2, <1>3, <1>4, JobShapes

\* While calls of execute follow one another, no reducing call ever takes more
\* from the ledger than is in it: whatever was retried, lost, misread or left
\* behind by a crash, as long as the ledger has rows and the database answers.
THEOREM NeverShort ==
  ASSUME OneCaller, Lot > 0, "db" \notin Faults
  PROVE  Spec => []LedgerNeverShort
<1>1. Init => LedgerInv
  <2>1. ClampInv(IdleJob)
    BY DEF ClampInv, IdleJob, Bound
  <2>2. Init => QuantityInv
    BY DEF Init, QuantityInv, NoPlacement, Live
  <2>3. Init => \A c \in Callers : job[c] = IdleJob
    BY DEF Init
  <2> QED
    BY <2>1, <2>2, <2>3 DEF Init, LedgerInv
<1>2. IndInv /\ LedgerInv /\ [Next]_vars => LedgerInv'
  BY LedgerStep
<1>3. LedgerInv => LedgerNeverShort
  BY DEF LedgerInv, LedgerNeverShort
<1> QED
  BY <1>1, <1>2, <1>3, Invariance, PTL DEF Spec

----------------------------------------------------------------------------
(* One working order a side: steps that place and log nothing *)

\* No order starts to work, no row appears, and a row that leaves the working
\* states is one whose order is over.
RowsCalm ==
  \A o \in Orders :
    /\ orderLog'[o].side = orderLog[o].side
    /\ orderLog'[o].bid = orderLog[o].bid
    /\ orderLog'[o].older = orderLog[o].older
    /\ orderLog'[o].age <= 1
    /\ orderLog'[o] = NoRow <=> orderLog[o] = NoRow
    /\ \/ orderLog'[o].status = orderLog[o].status
       \/ orderLog'[o].status \in Working
       \/ \A p \in PlacedFor(o) : ~Live(p)

Calm == Fades /\ RowsCalm /\ UNCHANGED parked

LEMMA PlacementOrder ==
  ASSUME NEW p \in Placements
  PROVE  p[1] \in Orders /\ p # NoBid
  BY DEF Placements

LEMMA CalmTables ==
  ASSUME TypeOK, TablesInv, Calm
  PROVE  TablesInv'
<1>0. \A p \in Placements : p[1] \in Orders
  BY PlacementOrder
<1>1. \A o \in Orders : PlacedFor(o)' = PlacedFor(o)
  BY DEF Calm, Fades, PlacedFor
<1>2. \A p \in Placements : /\ Live(p)' => Live(p)
                            /\ book'[p].side = book[p].side
                            /\ Orphan(p)' <=> Orphan(p)
  BY <1>0 DEF Calm, Fades, RowsCalm, Orphan
<1>3. OnePlacementPerClientId'
  BY <1>1 DEF TablesInv, OnePlacementPerClientId
<1>4. RowsMatch'
  <2>1. ASSUME NEW o \in Orders
        PROVE  /\ orderLog'[o].age <= 1
               /\ orderLog'[o] # NoRow =>
                    \A p \in PlacedFor(o)' : /\ orderLog'[o].bid = p
                                             /\ orderLog'[o].side = book'[p].side
                                             /\ Live(p)' => orderLog'[o].status \in Working
    BY <1>1, <1>2 DEF TablesInv, RowsMatch, Calm, RowsCalm, PlacedFor
  <2> QED
    BY <2>1 DEF RowsMatch
<1>5. LiveIsNewest'
  <2>1. Logged' = Logged
    BY DEF Logged, Calm, RowsCalm
  <2> QED
    BY <1>0, <1>2, <2>1 DEF TablesInv, LiveIsNewest, Calm, RowsCalm, Logged
<1>6. ParkedPlaced'
  BY DEF TypeOK, TablesInv, ParkedPlaced, Calm, Fades
<1>7. SingleWorkingOrderPerSide'
  BY <1>2 DEF TablesInv, SingleWorkingOrderPerSide, Live
<1> QED
  BY <1>3, <1>4, <1>5, <1>6, <1>7 DEF TablesInv

LEMMA CalmCall ==
  ASSUME NEW j, CallInv(j), j.pc # "idle" => j.cid \in Orders,
         j.pc = "replaced" => j.target \in Orders, Calm
  PROVE  CallInv(j)'
<1>0. \A p \in Placements : p[1] \in Orders
  BY PlacementOrder
<1>1. \A o \in Orders : PlacedFor(o)' = PlacedFor(o)
  BY DEF Calm, Fades, PlacedFor
<1>2. \A p \in Placements : /\ Live(p)' => Live(p)
                            /\ book'[p].side = book[p].side
                            /\ Orphan(p)' <=> Orphan(p)
                            /\ orderLog'[p[1]] = NoRow <=> orderLog[p[1]] = NoRow
  BY <1>0 DEF Calm, Fades, RowsCalm, Orphan
<1>3. Unlogged(j)'
  BY <1>2 DEF CallInv, Unlogged, Calm
<1>4. ASSUME NEW o, Alone(j, o) PROVE Alone(j, o)'
  BY <1>2, <1>4 DEF Alone
<1>5. Logged' = Logged
  BY DEF Logged, Calm, RowsCalm
<1>6. \A o \in Orders : \A p \in PlacedFor(o) : p \in Placements
  BY DEF PlacedFor
<1>7. j.pc \in BeforePlace \cup Holding => j.pc # "idle"
  BY DEF BeforePlace, Holding
<1> HIDE DEF Calm, Alone, Unlogged, Logged
<1>8. parked' = parked
  BY DEF Calm
<1> QED
  BY <1>1, <1>2, <1>3, <1>4, <1>5, <1>6, <1>7, <1>8 DEF CallInv

LEMMA CalmTasks ==
  ASSUME TasksOK, Fades
  PROVE  /\ RecInv /\ UNCHANGED rec => RecInv'
         /\ SwpInv /\ UNCHANGED swp => SwpInv'
<1>1. \A o \in Orders : \A p \in PlacedFor(o)' : p \in PlacedFor(o) /\ (Live(p)' => Live(p))
  BY DEF Fades, PlacedFor
<1>2. RecInv /\ UNCHANGED rec => RecInv'
  <2>1. rec.pc = "write" => rec.row \in Orders
    BY DEF TasksOK
  <2> QED
    BY <1>1, <2>1 DEF RecInv
<1>3. SwpInv /\ UNCHANGED swp => SwpInv'
  <2>1. swp.pc = "write" => swp.row \in Orders
    BY DEF TasksOK
  <2> QED
    BY <1>1, <2>1 DEF SwpInv
<1> QED
  BY <1>2, <1>3

\* A step that writes no row is calm when it only lets orders fade.
LEMMA TableCalm ==
  ASSUME TablesInv, Fades, UNCHANGED <<orderLog, parked>>
  PROVE  Calm
  BY DEF TablesInv, RowsMatch, Calm, RowsCalm

\* A calm step of the caller.
LEMMA CallCalm ==
  ASSUME OneCaller, IndInv, SerialInv, NEW c \in Callers, NEW new, Set(c, new),
         CallInv(new), new.pc # "idle" => new.cid \in Orders,
         new.pc = "replaced" => new.target \in Orders,
         Calm, UNCHANGED <<rec, swp>>
  PROVE  SerialInv'
<1>1. \A d \in Callers : job'[d] = new
  BY DEF Set, OneCaller, IndInv, TypeOK
<1>2. CallInv(new)'
  BY CalmCall
<1>3. \A d \in Callers : CallInv(job[d])'
  BY <1>1, <1>2 DEF CallInv, Unlogged, Alone, PlacedFor
<1>4. TablesInv' /\ RecInv' /\ SwpInv'
  BY CalmTables, CalmTasks DEF SerialInv, Calm, IndInv
<1> QED
  BY <1>3, <1>4 DEF SerialInv

\* A calm step of another.
LEMMA TaskCalm ==
  ASSUME IndInv, SerialInv, UNCHANGED job, Calm,
         UNCHANGED rec \/ RecInv', UNCHANGED swp \/ SwpInv'
  PROVE  SerialInv'
<1>1. ASSUME NEW c \in Callers PROVE CallInv(job[c])'
  <2>1. PICK j : j = job[c]
    OBVIOUS
  <2>2. /\ j.pc # "idle" => j.cid \in Orders
        /\ j.pc = "replaced" => j.target \in Orders
    BY <2>1 DEF IndInv, JobsOK, JobOK
  <2>3. CallInv(j)'
    BY <2>1, <2>2, CalmCall DEF SerialInv
  <2> QED
    BY <2>1, <2>3 DEF CallInv, Unlogged, Alone, PlacedFor
<1>2. TablesInv' /\ RecInv' /\ SwpInv'
  BY CalmTables, CalmTasks DEF SerialInv, Calm, IndInv
<1> QED
  BY <1>1, <1>2 DEF SerialInv

\* A report of an order tells whether it works.
LEMMA Reported ==
  ASSUME TypeOK, NEW p \in Placements
  PROVE  Live(p) <=> Snapshot(p).status \in Working
<1>1. book[p].state \in States
  BY DEF TypeOK, BookRecord
<1> QED
  BY <1>1 DEF Live, Snapshot, Working, States

----------------------------------------------------------------------------
(* One working order a side: the caller's steps *)

Honest == OneCaller /\ TrueReports /\ MaxAge <= 1

LEMMA NoMisreport ==
  ASSUME Honest
  PROVE  \A fault \in Misreports : ~May(fault)
  BY DEF Honest, TrueReports, May

\* A call that ends holds no order without a row.
LEMMA EndCall ==
  ASSUME NEW j, CallInv(j), j.pc \notin Holding
  PROVE  CallInv(IdleJob)
  BY DEF CallInv, Unlogged, IdleJob, BeforePlace, Holding, Replacing

LEMMA SerialBeforePlace ==
  ASSUME Honest, IndInv, SerialInv, NEW c \in Callers,
         Approve(c) \/ Dedup(c) \/ ReplaceCancel(c) \/ ReplaceConfirm(c)
           \/ ReplaceMark(c) \/ Clamp(c) \/ Skip(c)
  PROVE  SerialInv'
<1>0. /\ TypeOK /\ TablesInv /\ OneCaller /\ UNCHANGED <<rec, swp, parked>>
      /\ job[c] \in JobRecord /\ CallInv(job[c])
  BY DEF IndInv, TypeOK, SerialInv, Honest, others, Approve, Dedup, ReplaceCancel,
         ReplaceConfirm, ReplaceMark, Clamp, Skip
<1>a. job[c].pc # "idle" => JobOK(job[c]) /\ job[c].cid \in Orders
  BY DEF IndInv, JobsOK, JobOK
<1>b. UNCHANGED <<book, orderLog>> => Calm
  BY <1>0, NothingFades, TableCalm DEF FadesSized
<1>c. ASSUME Return(c), Calm, job[c].pc \in BeforePlace PROVE SerialInv'
  <2>1. CallInv(IdleJob)
    BY <1>0, <1>c, EndCall DEF BeforePlace, Holding
  <2> QED
    BY <1>0, <1>c, <2>1, CallCalm DEF Return, IdleJob
<1>d. ASSUME NEW new, Set(c, new), new.pc \in BeforePlace, new.cid = job[c].cid,
             new.kind = job[c].kind, new.older = job[c].older,
             job[c].pc \in BeforePlace, Calm,
             new.pc \in Replacing => Alone(new, new.target) /\ new.target \in Orders,
             new.pc \in {"clamp", "place"} => Alone(new, new.cid),
             new.pc = "replaced" => \A p \in PlacedFor(new.target) : ~Live(p)
      PROVE  SerialInv'
  <2>1. CallInv(new)
    BY <1>0, <1>d DEF CallInv, Unlogged, BeforePlace, Holding
  <2> QED
    BY <1>0, <1>a, <1>d, <2>1, CallCalm DEF BeforePlace, Replacing
<1>1. CASE Approve(c)
  <2>1. PICK kind \in Kinds, q \in Quantities, o \in FreeIds :
          Set(c, [IdleJob EXCEPT !.pc = "dedup", !.kind = kind, !.qty = q, !.cid = o,
                                 !.older = Logged])
    BY <1>1 DEF Approve
  <2>2. PICK new : new = [IdleJob EXCEPT !.pc = "dedup", !.kind = kind, !.qty = q,
                                         !.cid = o, !.older = Logged]
    OBVIOUS
  <2>3. new.pc = "dedup" /\ new.cid = o /\ new.older = Logged
    BY <2>2 DEF IdleJob
  <2>4. PlacedFor(o) = {} /\ o \in Orders /\ job[c].pc = "idle"
    BY <1>1 DEF FreeIds, Approve, At
  <2>5. \A p \in parked : p[1] # o
    BY <1>0, <2>4 DEF TablesInv, ParkedPlaced, PlacedFor, TypeOK
  <2>6. CallInv(new)
    BY <1>0, <2>3, <2>4, <2>5 DEF CallInv, Unlogged, Holding, BeforePlace, Replacing
  <2> QED
    BY <1>0, <1>b, <1>1, <2>1, <2>2, <2>3, <2>4, <2>6, CallCalm DEF Approve, tables
<1>2. CASE Dedup(c)
  <2>0. job[c].pc = "dedup" /\ job[c].pc \in BeforePlace /\ Calm
    BY <1>b, <1>2 DEF Dedup, At, tables, BeforePlace
  <2>1. ASSUME NEW p \in Placements, Live(p), book[p].side = SideOf(job[c].kind), ~Orphan(p)
        PROVE  p[1] \in InFlight(SideOf(job[c].kind)) /\ orderLog[p[1]] # NoRow
    <3>1. orderLog[p[1]] # NoRow /\ p[1] \in Orders
      BY <1>0, <2>0, <2>1, PlacementOrder DEF CallInv, Unlogged, Holding, Orphan
    <3>2. p \in PlacedFor(p[1])
      BY <2>1 DEF PlacedFor, Live
    <3> QED
      BY <1>0, <2>1, <3>1, <3>2 DEF TablesInv, RowsMatch, InFlight
  <2>2. CASE InFlight(SideOf(job[c].kind)) = {} /\ Goto(c, "clamp")
    <3>1. PICK new : new = [job[c] EXCEPT !.pc = "clamp"]
      OBVIOUS
    <3>2. new.pc = "clamp" /\ new.cid = job[c].cid /\ new.kind = job[c].kind
          /\ new.older = job[c].older
      BY <1>0, <3>1 DEF JobRecord
    <3>3. Alone(new, new.cid)
      BY <2>1, <2>2, <3>2 DEF Alone
    <3> QED
      BY <1>d, <2>0, <2>2, <3>1, <3>2, <3>3 DEF Goto, BeforePlace, Replacing
  <2>3. ASSUME NEW o \in Newest(InFlight(SideOf(job[c].kind))),
               Set(c, [job[c] EXCEPT !.pc = "replace", !.target = o])
        PROVE  SerialInv'
    <3>1. PICK new : new = [job[c] EXCEPT !.pc = "replace", !.target = o]
      OBVIOUS
    <3>2. /\ new.pc = "replace" /\ new.cid = job[c].cid /\ new.kind = job[c].kind
          /\ new.older = job[c].older /\ new.target = o
      BY <1>0, <3>1 DEF JobRecord
    <3>3. /\ o \in Orders /\ orderLog[o].status \in Working
          /\ orderLog[o].side = SideOf(job[c].kind)
          /\ \A r \in InFlight(SideOf(job[c].kind)) : o \notin orderLog[r].older
      BY DEF Newest, InFlight
    <3>4. o \in Logged
      BY <3>3 DEF Logged, NoRow, Working
    <3>5. Alone(new, o)
      <4>1. ASSUME NEW p \in Placements, Live(p), book[p].side = SideOf(job[c].kind),
                   ~Orphan(p), p[1] # o
            PROVE  FALSE
        <5>1. p[1] \in InFlight(SideOf(job[c].kind)) /\ orderLog[p[1]] # NoRow
          BY <2>1, <4>1
        <5>2. o \in orderLog[p[1]].older
          BY <1>0, <3>3, <3>4, <4>1, <5>1 DEF TablesInv, LiveIsNewest
        <5> QED
          BY <3>3, <5>1, <5>2
      <4> QED
        BY <3>2, <4>1 DEF Alone
    <3> QED
      BY <1>d, <2>0, <2>3, <3>1, <3>2, <3>3, <3>5 DEF BeforePlace, Replacing
  <2>4. ~May("db")
    BY NoMisreport DEF Misreports
  <2> QED
    BY <1>c, <1>2, <2>0, <2>2, <2>3, <2>4 DEF Dedup
<1>3. CASE ReplaceCancel(c)
  <2>0. job[c].pc = "replace" /\ job[c].pc \in BeforePlace /\ job[c].target \in Orders
        /\ Alone(job[c], job[c].target)
    BY <1>0, <1>a, <1>3 DEF ReplaceCancel, At, BeforePlace, JobOK, CallInv, Replacing
  <2>1. Calm
    <3>1. orderLog[job[c].target].bid # NoBid => orderLog[job[c].target].bid \in Placements
      BY <1>0, <2>0 DEF TypeOK, RowRecord
    <3>2. Fades
      BY <1>0, <1>3, <3>1, CancelFades, NothingFades DEF ReplaceCancel, FadesSized
    <3> QED
      BY <1>0, <1>3, <3>2, TableCalm DEF ReplaceCancel, tables
  <2>2. CASE Goto(c, "confirm")
    <3>1. PICK new : new = [job[c] EXCEPT !.pc = "confirm"]
      OBVIOUS
    <3>2. new.pc = "confirm" /\ new.cid = job[c].cid /\ new.kind = job[c].kind
          /\ new.older = job[c].older /\ new.target = job[c].target
      BY <1>0, <3>1 DEF JobRecord
    <3>3. Alone(new, new.target)
      BY <2>0, <3>2 DEF Alone
    <3> QED
      BY <1>d, <2>0, <2>1, <2>2, <3>1, <3>2, <3>3 DEF Goto, BeforePlace, Replacing
  <2> QED
    BY <1>c, <1>3, <2>0, <2>1, <2>2 DEF ReplaceCancel
<1>4. CASE ReplaceConfirm(c)
  <2>0. /\ job[c].pc = "confirm" /\ job[c].pc \in BeforePlace /\ Calm
        /\ job[c].target \in Orders /\ orderLog[job[c].target].bid \in Placements
        /\ Alone(job[c], job[c].target)
    BY <1>0, <1>a, <1>b, <1>4 DEF ReplaceConfirm, At, BeforePlace, JobOK, tables, CallInv,
                                 Replacing, TypeOK, RowRecord
  <2>1. CASE Confirmed(job[c].target) /\ Goto(c, "replaced")
    <3>1. PICK new : new = [job[c] EXCEPT !.pc = "replaced"]
      OBVIOUS
    <3>2. new.pc = "replaced" /\ new.cid = job[c].cid /\ new.kind = job[c].kind
          /\ new.older = job[c].older /\ new.target = job[c].target
      BY <1>0, <3>1 DEF JobRecord
    <3>3. Alone(new, new.target)
      BY <2>0, <3>2 DEF Alone
    <3>4. ~Live(orderLog[job[c].target].bid)
      BY <1>0, <2>0, <2>1, Reported, NoMisreport DEF Confirmed, Misreports, Working
    <3>5. \A p \in PlacedFor(new.target) : ~Live(p)
      BY <1>0, <2>0, <3>2, <3>4 DEF TablesInv, RowsMatch, NoRow, PlacedFor
    <3> QED
      BY <1>d, <2>0, <2>1, <3>1, <3>2, <3>3, <3>5 DEF Goto, BeforePlace, Replacing
  <2>2. CASE Set(c, [job[c] EXCEPT !.polls = @ + 1])
    <3>1. PICK new : new = [job[c] EXCEPT !.polls = @ + 1]
      OBVIOUS
    <3>2. new.pc = "confirm" /\ new.cid = job[c].cid /\ new.kind = job[c].kind
          /\ new.older = job[c].older /\ new.target = job[c].target
      BY <1>0, <2>0, <3>1 DEF JobRecord
    <3>3. Alone(new, new.target)
      BY <2>0, <3>2 DEF Alone
    <3> QED
      BY <1>d, <2>0, <2>2, <3>1, <3>2, <3>3 DEF BeforePlace, Replacing
  <2> QED
    BY <1>c, <1>4, <2>0, <2>1, <2>2 DEF ReplaceConfirm
<1>5. CASE ReplaceMark(c)
  <2>0. /\ job[c].pc = "replaced" /\ job[c].pc \in BeforePlace
        /\ job[c].target \in Orders /\ orderLog[job[c].target].bid # NoBid
        /\ Alone(job[c], job[c].target) /\ \A p \in PlacedFor(job[c].target) : ~Live(p)
    BY <1>0, <1>a, <1>5 DEF ReplaceMark, At, BeforePlace, JobOK, CallInv, Replacing
  <2>1. Calm
    <3>1. Fades
      BY <1>5, NothingFades DEF ReplaceMark, FadesSized
    <3>2. CASE UNCHANGED orderLog
      BY <1>0, <3>1, <3>2, TableCalm
    <3>3. CASE orderLog' = [orderLog EXCEPT ![job[c].target].status = "cancelled"]
      <4>1. /\ \A o \in Orders \ {job[c].target} : orderLog'[o] = orderLog[o]
            /\ orderLog'[job[c].target] =
                 [orderLog[job[c].target] EXCEPT !.status = "cancelled"]
            /\ orderLog[job[c].target] \in RowRecord
        BY <1>0, <2>0, <3>3 DEF TypeOK
      <4>2. /\ orderLog'[job[c].target].side = orderLog[job[c].target].side
            /\ orderLog'[job[c].target].bid = orderLog[job[c].target].bid
            /\ orderLog'[job[c].target].older = orderLog[job[c].target].older
            /\ orderLog'[job[c].target].age = orderLog[job[c].target].age
        BY <4>1 DEF RowRecord
      <4>3. orderLog'[job[c].target] # NoRow /\ orderLog[job[c].target] # NoRow
        BY <2>0, <4>2, NoRowFacts
      <4>4. RowsCalm
        BY <1>0, <2>0, <4>1, <4>2, <4>3 DEF RowsCalm, TablesInv, RowsMatch
      <4> QED
        BY <1>0, <3>1, <4>4 DEF Calm
    <3> QED
      BY <1>5, <3>2, <3>3 DEF ReplaceMark
  <2>2. PICK new : new = [job[c] EXCEPT !.pc = "clamp", !.polls = 0]
    OBVIOUS
  <2>3. new.pc = "clamp" /\ new.cid = job[c].cid /\ new.kind = job[c].kind
        /\ new.older = job[c].older
    BY <1>0, <2>2 DEF JobRecord
  <2>4. Alone(new, new.cid)
    BY <2>0, <2>3 DEF Alone, PlacedFor, Live
  <2> QED
    BY <1>d, <1>5, <2>0, <2>1, <2>2, <2>3, <2>4 DEF ReplaceMark, BeforePlace, Replacing
<1>6. CASE Clamp(c)
  <2>0. /\ job[c].pc = "clamp" /\ job[c].pc \in BeforePlace /\ Calm
        /\ Alone(job[c], job[c].cid)
    BY <1>0, <1>b, <1>6 DEF Clamp, At, BeforePlace, tables, CallInv
  <2>1. ASSUME NEW new, Set(c, new), new.pc = "place", new.cid = job[c].cid,
               new.kind = job[c].kind, new.older = job[c].older
        PROVE  SerialInv'
    <3>1. Alone(new, new.cid)
      BY <2>0, <2>1 DEF Alone
    <3> QED
      BY <1>d, <2>0, <2>1, <3>1 DEF BeforePlace, Replacing
  <2>2. ASSUME NEW q, NEW new, new = [job[c] EXCEPT !.pc = "place", !.qty = q], Set(c, new)
        PROVE  SerialInv'
    BY <1>0, <2>1, <2>2 DEF JobRecord
  <2>3. ASSUME NEW new, new = [job[c] EXCEPT !.pc = "place"], Set(c, new)
        PROVE  SerialInv'
    BY <1>0, <2>1, <2>3 DEF JobRecord
  <2>4. \/ Return(c)
        \/ Goto(c, "place")
        \/ \E q : Set(c, [job[c] EXCEPT !.pc = "place", !.qty = q])
    BY <1>6 DEF Clamp
  <2> QED
    BY <1>c, <2>0, <2>2, <2>3, <2>4 DEF Goto
<1>7. CASE Skip(c)
  BY <1>b, <1>c, <1>7 DEF Skip, At, BeforePlace, tables
<1> QED
  BY <1>1, <1>2, <1>3, <1>4, <1>5, <1>6, <1>7

LEMMA SerialPlace ==
  ASSUME Honest, IndInv, SerialInv, NEW c \in Callers,
         PlaceAccepted(c) \/ PlaceRejected(c) \/ PlaceRaises(c)
  PROVE  SerialInv'
<1>0. /\ TypeOK /\ TablesInv /\ OneCaller /\ UNCHANGED <<tables, rec, swp, parked>>
      /\ job[c] \in JobRecord /\ CallInv(job[c])
      /\ At(c, "place") /\ job[c].pc = "place"
  BY DEF IndInv, TypeOK, SerialInv, Honest, others, PlaceAccepted, PlaceRejected,
         PlaceRaises, At
<1>a. /\ JobOK(job[c]) /\ job[c].cid \in Orders /\ orderLog[job[c].cid] = NoRow
      /\ PlacedFor(job[c].cid) = {} /\ Alone(job[c], job[c].cid)
      /\ \A p \in parked : p[1] # job[c].cid
      /\ Logged \subseteq job[c].older /\ Unlogged(job[c])
  BY <1>0 DEF IndInv, JobsOK, JobOK, CallInv, BeforePlace
<1>b. UNCHANGED book => Calm
  BY <1>0, NothingFades, TableCalm DEF FadesSized, tables
<1>c. ~May("lost_reply_rejected") /\ ~May("lost_reply_raised")
  BY NoMisreport DEF Misreports
<1>1. CASE PlaceAccepted(c)
  <2>0. Accept(c) /\ Set(c, [job[c] EXCEPT !.pc = "track",
                 !.res = [status |-> "open", filled |-> 0, bid |-> Attempt(c)]])
    BY <1>a, <1>1 DEF PlaceAccepted
  <2>1. PICK r : r = [status |-> "open", filled |-> 0, bid |-> Attempt(c)]
    OBVIOUS
  <2>2. PICK new : new = [job[c] EXCEPT !.pc = "track", !.res = r]
    OBVIOUS
  <2>3. /\ new.pc = "track" /\ new.cid = job[c].cid /\ new.kind = job[c].kind
        /\ new.older = job[c].older /\ new.res = r
        /\ r.status = "open" /\ r.bid = Attempt(c)
    BY <1>0, <2>1, <2>2 DEF JobRecord
  <2>4. PICK a \in Placements : a = Attempt(c)
    BY <1>0, <2>0, Appears
  <2>5. /\ a[1] = job[c].cid /\ \A p \in Placements \ {a} : book'[p] = book[p]
        /\ book'[a] = NewOrder(c) /\ book[a].state = "none"
    BY <1>0, <1>a, <2>0, <2>4, Appears DEF Accept, TypeOK
  <2>6. book'[a].state = "working" /\ book'[a].side = SideOf(job[c].kind)
    BY <2>5 DEF NewOrder
  <2>7. \A p \in Placements : p[1] = job[c].cid => book[p].state = "none"
    BY <1>a DEF PlacedFor
  <2>8. \A o \in Orders : \A p \in PlacedFor(o)' :
           p \in Placements /\ (p = a \/ (p \in PlacedFor(o) /\ p # a))
    BY <2>5 DEF PlacedFor
  <2>9. \A p \in Placements : /\ Live(p)' => p = a \/ (Live(p) /\ book'[p] = book[p])
                              /\ Orphan(p)' <=> Orphan(p)
    BY <1>0, <2>5 DEF Live, Orphan, tables
  <2>10. OnePlacementPerClientId'
    <3>1. ASSUME NEW o \in Orders, NEW p \in PlacedFor(o)', NEW q \in PlacedFor(o)'
          PROVE  p = q
      BY <1>0, <2>5, <2>7, <2>8 DEF TablesInv, OnePlacementPerClientId, PlacedFor
    <3> QED
      BY <3>1 DEF OnePlacementPerClientId
  <2>11. RowsMatch'
    <3>1. ASSUME NEW o \in Orders, orderLog[o] # NoRow, NEW p \in PlacedFor(o)'
          PROVE  /\ orderLog[o].bid = p
                 /\ orderLog[o].side = book'[p].side
                 /\ Live(p)' => orderLog[o].status \in Working
      <4>1. p # a /\ p \in PlacedFor(o) /\ p \in Placements
        BY <1>a, <2>5, <2>8, <3>1 DEF PlacedFor
      <4> QED
        BY <1>0, <2>5, <2>9, <3>1, <4>1 DEF TablesInv, RowsMatch
    <3> QED
      BY <1>0, <3>1 DEF TablesInv, RowsMatch, tables
  <2>12. LiveIsNewest'
    BY <1>0, <1>a, <2>5, <2>9 DEF TablesInv, LiveIsNewest, Logged, tables
  <2>13. ParkedPlaced'
    BY <1>0, <2>5 DEF TablesInv, ParkedPlaced, TypeOK
  <2>14. SingleWorkingOrderPerSide'
    <3>1. ASSUME NEW q \in Placements \ {a}, Live(q)', book'[q].side = book'[a].side,
                 ~Orphan(q)
          PROVE  FALSE
      <4>1. Live(q) /\ book[q].side = SideOf(job[c].kind)
        BY <2>5, <2>6, <2>9, <3>1
      <4>2. q[1] = job[c].cid
        BY <1>a, <3>1, <4>1 DEF Alone
      <4> QED
        BY <2>7, <4>1, <4>2 DEF Live
    <3> QED
      BY <1>0, <2>5, <2>6, <2>9, <3>1 DEF TablesInv, SingleWorkingOrderPerSide, Live
  <2>15. CallInv(new)'
    <3>1. Unlogged(new)'
      <4>1. ASSUME NEW p \in Placements \ {a}, Live(p)', p \notin parked,
                   orderLog[p[1]] = NoRow
            PROVE  FALSE
        BY <1>0, <1>a, <2>9, <4>1 DEF Unlogged, Holding
      <4> QED
        BY <1>0, <2>3, <2>5, <4>1 DEF Unlogged, Holding, tables
    <3>2. Alone(new, new.cid)'
      BY <1>a, <2>3, <2>5, <2>9 DEF Alone
    <3>3. \A p \in PlacedFor(new.cid)' : p = a
      BY <2>3, <2>5, <2>7 DEF PlacedFor
    <3>4. Logged' = Logged
      BY <1>0 DEF Logged, tables
    <3> HIDE DEF Unlogged, Alone, Logged
    <3> QED
      BY <1>0, <1>a, <2>3, <2>4, <2>6, <3>1, <3>2, <3>3, <3>4
      DEF CallInv, BeforePlace, Holding, Replacing, Working
  <2>16. \A d \in Callers : job'[d] = new
    BY <1>0, <2>0, <2>1, <2>2 DEF Set, OneCaller, TypeOK
  <2>17. \A d \in Callers : CallInv(job[d])'
    BY <2>15, <2>16 DEF CallInv, Unlogged, Alone, PlacedFor
  <2>18. ASSUME NEW o \in Orders, orderLog[o].bid # NoBid
         PROVE  \A p \in PlacedFor(o)' : p \in PlacedFor(o) /\ (Live(p)' => Live(p))
    BY <1>a, <2>5, <2>8, <2>9, <2>18, NoRowFacts DEF PlacedFor
  <2>19. RecInv' /\ SwpInv'
    <3>1. rec.pc # "idle" => rec.row \in Orders /\ orderLog[rec.row].bid # NoBid
      BY DEF IndInv, TasksOK
    <3>2. swp.pc # "idle" => swp.row \in Orders /\ orderLog[swp.row].bid # NoBid
      BY DEF IndInv, TasksOK
    <3>3. RecInv'
      BY <1>0, <2>18, <3>1 DEF SerialInv, RecInv
    <3>4. SwpInv'
      BY <1>0, <2>18, <3>2 DEF SerialInv, SwpInv
    <3> QED
      BY <3>3, <3>4
  <2> QED
    BY <2>10, <2>11, <2>12, <2>13, <2>14, <2>17, <2>19 DEF SerialInv, TablesInv
<1>2. CASE PlaceRejected(c)
  <2>1. PICK new : new = [job[c] EXCEPT !.pc = "log", !.res = Rejected]
    OBVIOUS
  <2>2. new.pc = "log" /\ new.cid = job[c].cid /\ new.kind = job[c].kind
        /\ new.older = job[c].older
    BY <1>0, <2>1 DEF JobRecord
  <2>3. CallInv(new)
    BY <1>0, <1>a, <2>2 DEF CallInv, Unlogged, Alone, BeforePlace, Holding, Replacing
  <2> QED
    BY <1>0, <1>a, <1>b, <1>c, <1>2, <2>1, <2>2, <2>3, CallCalm DEF PlaceRejected, Report
<1>3. CASE PlaceRaises(c)
  <2>0. Calm
    BY <1>b, <1>c, <1>3 DEF PlaceRaises
  <2>1. CASE Return(c)
    <3>1. CallInv(IdleJob)
      BY <1>0, EndCall DEF Holding
    <3> QED
      BY <1>0, <2>0, <2>1, <3>1, CallCalm DEF Return, IdleJob
  <2>2. CASE Set(c, [job[c] EXCEPT !.tries = @ + 1])
    <3>1. PICK new : new = [job[c] EXCEPT !.tries = @ + 1]
      OBVIOUS
    <3>2. new.pc = "place" /\ new.cid = job[c].cid /\ new.kind = job[c].kind
          /\ new.older = job[c].older
      BY <1>0, <3>1 DEF JobRecord
    <3>3. CallInv(new)
      BY <1>0, <1>a, <3>2 DEF CallInv, Unlogged, Alone, BeforePlace, Holding, Replacing
    <3> QED
      BY <1>0, <1>a, <2>0, <2>2, <3>1, <3>2, <3>3, CallCalm
  <2> QED
    BY <1>3, <2>1, <2>2 DEF PlaceRaises
<1> QED
  BY <1>1, <1>2, <1>3

LEMMA SerialTrack ==
  ASSUME Honest, IndInv, SerialInv, NEW c \in Callers,
         Poll(c) \/ Timeout(c) \/ CancelRemainder(c) \/ FinalRead(c)
  PROVE  SerialInv'
<1>0. /\ TypeOK /\ TablesInv /\ OneCaller /\ UNCHANGED <<orderLog, rec, swp, parked>>
      /\ job[c] \in JobRecord /\ CallInv(job[c]) /\ JobOK(job[c])
      /\ job[c].pc \in {"track", "cancel", "final"} /\ job[c].cid \in Orders
  BY DEF IndInv, TypeOK, SerialInv, Honest, others, tables, Poll, Timeout, CancelRemainder,
         FinalRead, At, JobsOK, JobOK
<1>a. job[c].res.bid \in Placements
  BY <1>0 DEF JobOK, JobRecord, Results
<1>b. Calm
  <2>1. Fades
    BY <1>0, <1>a, CancelFades, NothingFades
    DEF FadesSized, Poll, Timeout, CancelRemainder, FinalRead
  <2> QED
    BY <1>0, <2>1, TableCalm
<1>c. ~May("read_rejected")
  BY NoMisreport DEF Misreports
<1>d. ASSUME NEW new, Set(c, new), new.cid = job[c].cid, new.kind = job[c].kind,
             new.older = job[c].older, new.pc \in Holding,
             new.pc # "log" => new.res.status \in Working,
             \A p \in PlacedFor(new.cid) :
               new.res.bid = p /\ (Live(p) => new.res.status \in Working)
      PROVE  SerialInv'
  <2>1. Alone(new, new.cid) /\ Unlogged(new)
    BY <1>0, <1>d DEF CallInv, Alone, Unlogged, Holding
  <2>2. CallInv(new)
    BY <1>0, <1>d, <2>1 DEF CallInv, BeforePlace, Holding, Replacing
  <2> QED
    BY <1>0, <1>b, <1>d, <2>2, CallCalm DEF Holding
<1>e. ASSUME NEW label \in Holding, Goto(c, label) PROVE SerialInv'
  <2>1. PICK new : new = [job[c] EXCEPT !.pc = label]
    OBVIOUS
  <2>2. /\ new.pc = label /\ new.cid = job[c].cid /\ new.kind = job[c].kind
        /\ new.older = job[c].older /\ new.res = job[c].res
    BY <1>0, <2>1 DEF JobRecord
  <2> QED
    BY <1>0, <1>d, <1>e, <2>1, <2>2 DEF Goto, CallInv, Holding
<1>f. PICK r : r = Snapshot(job[c].res.bid)
  OBVIOUS
<1>g. \A p \in PlacedFor(job[c].cid) : r.bid = p /\ (Live(p) => r.status \in Working)
  BY <1>0, <1>a, <1>f, Reported, SnapshotFacts DEF CallInv, Holding, TypeOK
<1>h. ASSUME Report(c, r) PROVE SerialInv'
  <2>1. PICK new : new = [job[c] EXCEPT !.pc = "log", !.res = r]
    OBVIOUS
  <2>2. /\ new.pc = "log" /\ new.cid = job[c].cid /\ new.kind = job[c].kind
        /\ new.older = job[c].older /\ new.res = r
    BY <1>0, <2>1 DEF JobRecord
  <2> QED
    BY <1>d, <1>g, <1>h, <2>1, <2>2 DEF Report, Holding
<1>1. CASE Poll(c)
  <2>0. job[c].pc = "track"
    BY <1>1 DEF Poll, At
  <2>1. CASE r.status = "partially_filled"
               /\ Set(c, [job[c] EXCEPT !.res = r, !.polls = @ + 1])
    <3>1. PICK new : new = [job[c] EXCEPT !.res = r, !.polls = @ + 1]
      OBVIOUS
    <3>2. /\ new.pc = "track" /\ new.cid = job[c].cid /\ new.kind = job[c].kind
          /\ new.older = job[c].older /\ new.res = r
      BY <1>0, <2>0, <3>1 DEF JobRecord
    <3> QED
      BY <1>d, <1>g, <2>1, <3>1, <3>2 DEF Holding, Working
  <2>2. CASE Set(c, [job[c] EXCEPT !.polls = @ + 1])
    <3>1. PICK new : new = [job[c] EXCEPT !.polls = @ + 1]
      OBVIOUS
    <3>2. /\ new.pc = "track" /\ new.cid = job[c].cid /\ new.kind = job[c].kind
          /\ new.older = job[c].older /\ new.res = job[c].res
      BY <1>0, <2>0, <3>1 DEF JobRecord
    <3> QED
      BY <1>0, <1>d, <2>2, <3>1, <3>2 DEF CallInv, Holding
  <2> QED
    BY <1>c, <1>e, <1>f, <1>h, <1>1, <2>1, <2>2 DEF Poll, Holding
<1>2. CASE Timeout(c)
  <2>1. Goto(c, "cancel") \/ Goto(c, "log")
    BY <1>2 DEF Timeout
  <2> QED
    BY <1>e, <2>1 DEF Holding
<1>3. CASE CancelRemainder(c)
  BY <1>e, <1>3 DEF CancelRemainder, Holding
<1>4. CASE FinalRead(c)
  BY <1>c, <1>e, <1>f, <1>h, <1>4 DEF FinalRead, Holding
<1> QED
  BY <1>1, <1>2, <1>3, <1>4

LEMMA SerialWriteLog ==
  ASSUME Honest, IndInv, SerialInv, NEW c \in Callers, WriteLog(c)
  PROVE  SerialInv'
<1>0. /\ TypeOK /\ TablesInv /\ OneCaller /\ UNCHANGED <<book, rec, swp, parked>>
      /\ job[c] \in JobRecord /\ CallInv(job[c]) /\ JobOK(job[c])
      /\ job[c].pc = "log" /\ job[c].cid \in Orders /\ orderLog[job[c].cid] = NoRow
  BY DEF IndInv, TypeOK, SerialInv, Honest, others, WriteLog, At, JobsOK, JobOK
<1>1. ~May("db")
  BY NoMisreport DEF Misreports
<1>2. PICK row : row = [status |-> job[c].res.status, side |-> SideOf(job[c].kind),
                        filled |-> job[c].res.filled, bid |-> job[c].res.bid,
                        age |-> 0, older |-> job[c].older]
  OBVIOUS
<1>3. PICK i \in Orders : i = job[c].cid
  BY <1>0
<1>4. orderLog'[i] = row /\ \A o \in Orders \ {i} : orderLog'[o] = orderLog[o]
  BY <1>0, <1>1, <1>2, <1>3 DEF WriteLog, TypeOK
<1>5. /\ row.status = job[c].res.status /\ row.side = SideOf(job[c].kind)
      /\ row.bid = job[c].res.bid /\ row.age = 0 /\ row.older = job[c].older
  BY <1>2
<1>6. /\ \A p \in PlacedFor(i) : /\ row.bid = p /\ row.side = book[p].side
                                 /\ Live(p) => row.status \in Working
      /\ Logged \subseteq row.older /\ Alone(job[c], i)
      /\ \A p \in parked : p[1] # i
  BY <1>0, <1>3, <1>5 DEF CallInv, Holding
<1>7. \A p \in Placements : p[1] \in Orders /\ (Live(p) => p \in PlacedFor(p[1]))
  BY PlacementOrder DEF PlacedFor, Live
<1>8. /\ \A p \in Placements : Live(p)' = Live(p) /\ (Orphan(p)' <=> Orphan(p))
      /\ \A o \in Orders : PlacedFor(o)' = PlacedFor(o)
  BY <1>0, <1>4, <1>6, <1>7 DEF Live, Orphan, PlacedFor
<1>9. OnePlacementPerClientId' /\ ParkedPlaced'
  BY <1>0, <1>8 DEF TablesInv, OnePlacementPerClientId, ParkedPlaced
<1>10. RowsMatch'
  <2>1. ASSUME NEW o \in Orders
        PROVE  /\ orderLog'[o].age <= 1
               /\ orderLog'[o] # NoRow =>
                    \A p \in PlacedFor(o) : /\ orderLog'[o].bid = p
                                            /\ orderLog'[o].side = book[p].side
                                            /\ Live(p) => orderLog'[o].status \in Working
    BY <1>0, <1>4, <1>5, <1>6 DEF TablesInv, RowsMatch
  <2>2. \A o \in Orders : \A p \in PlacedFor(o) : p \in Placements
    BY DEF PlacedFor
  <2> QED
    BY <1>0, <1>8, <2>1, <2>2 DEF RowsMatch
<1>11. LiveIsNewest'
  <2>1. \A o \in Logged' : o = i \/ o \in Logged
    BY <1>4 DEF Logged
  <2>2. ASSUME NEW p \in Placements, Live(p), orderLog'[p[1]] # NoRow,
               NEW o \in Logged' \ {p[1]}, orderLog'[o].side = book[p].side
        PROVE  o \in orderLog'[p[1]].older
    <3>1. CASE p[1] = i
      BY <1>4, <1>5, <1>6, <2>1, <2>2, <3>1
    <3>2. CASE p[1] # i /\ o = i
      <4>1. orderLog[p[1]] # NoRow /\ ~Orphan(p)
        BY <1>4, <1>7, <2>2, <3>2 DEF Orphan
      <4>2. book[p].side = SideOf(job[c].kind)
        BY <1>4, <1>5, <2>2, <3>2
      <4> QED
        BY <1>6, <2>2, <3>2, <4>1, <4>2 DEF Alone
    <3>3. CASE p[1] # i /\ o # i
      <4>1. o \in Logged /\ o \in Orders /\ orderLog'[o] = orderLog[o]
            /\ orderLog'[p[1]] = orderLog[p[1]]
        BY <1>4, <1>7, <2>1, <2>2, <3>3 DEF Logged
      <4> QED
        BY <1>0, <2>2, <4>1 DEF TablesInv, LiveIsNewest
    <3> QED
      BY <3>1, <3>2, <3>3
  <2> QED
    BY <1>0, <1>8, <2>2 DEF LiveIsNewest
<1>12. SingleWorkingOrderPerSide'
  BY <1>0, <1>8 DEF TablesInv, SingleWorkingOrderPerSide
<1>13. PICK new : new = [job[c] EXCEPT !.pc = "book"]
  OBVIOUS
<1>14. /\ new.pc = "book" /\ new.cid = i /\ new.kind = job[c].kind
       /\ \A d \in Callers : job'[d] = new
  BY <1>0, <1>3, <1>13 DEF WriteLog, Goto, Set, OneCaller, TypeOK, JobRecord
<1>15. CallInv(new)'
  <2>1. ASSUME NEW p \in Placements, Live(p), p \notin parked, orderLog'[p[1]] = NoRow
        PROVE  FALSE
    <3>1. CASE p[1] = i
      BY <1>4, <1>6, <1>7, <2>1, <3>1, NoRowFacts, PlacementOrder
    <3>2. CASE p[1] # i
      BY <1>0, <1>3, <1>4, <1>7, <2>1, <3>2 DEF CallInv, Unlogged
    <3> QED
      BY <3>1, <3>2
  <2>2. Unlogged(new)'
    BY <1>0, <1>8, <2>1 DEF Unlogged
  <2>3. \A p \in PlacedFor(new.cid) : book[p].side = SideOf(new.kind)
    BY <1>0, <1>3, <1>14 DEF CallInv
  <2> QED
    BY <1>0, <1>6, <1>8, <1>14, <2>2, <2>3 DEF CallInv, BeforePlace, Holding, Replacing
<1>16. \A d \in Callers : CallInv(job[d])'
  BY <1>14, <1>15 DEF CallInv, Unlogged, Alone, PlacedFor
<1>17. RecInv' /\ SwpInv'
  <2>1. Fades
    BY <1>0, NothingFades DEF FadesSized
  <2> QED
    BY <1>0, <2>1, CalmTasks DEF SerialInv, IndInv
<1> QED
  BY <1>9, <1>10, <1>11, <1>12, <1>16, <1>17 DEF SerialInv, TablesInv

LEMMA SerialBook ==
  ASSUME Honest, IndInv, SerialInv, NEW c \in Callers, Book(c)
  PROVE  SerialInv'
<1>0. /\ TablesInv /\ OneCaller /\ UNCHANGED <<book, orderLog, rec, swp, parked>>
      /\ CallInv(job[c]) /\ job[c].pc = "book" /\ Return(c)
  BY DEF SerialInv, Honest, others, Book, At
<1>1. Calm
  BY <1>0, NothingFades, TableCalm DEF FadesSized
<1>2. CallInv(IdleJob)
  BY <1>0, EndCall DEF Holding
<1> QED
  BY <1>0, <1>1, <1>2, CallCalm DEF Return, IdleJob

----------------------------------------------------------------------------
(* One working order a side: everyone else's steps *)

\* Order o is over when every report of its broker order says so.
LEMMA RowOver ==
  ASSUME TablesInv, NEW o \in Orders, orderLog[o].bid # NoBid,
         ~Live(orderLog[o].bid)
  PROVE  \A p \in PlacedFor(o) : ~Live(p)
  BY NoRowFacts DEF TablesInv, RowsMatch

\* A write that keeps the order of row o and its age is calm where it ends only
\* orders that are over.
LEMMA RowWritten ==
  ASSUME TypeOK, TablesInv, NEW o \in Orders, UNCHANGED <<book, parked>>,
         \A r \in Orders \ {o} : orderLog'[r] = orderLog[r],
         orderLog[o].bid # NoBid,
         orderLog'[o].side = orderLog[o].side,
         orderLog'[o].bid = orderLog[o].bid,
         orderLog'[o].older = orderLog[o].older,
         orderLog'[o].age <= 1,
         \/ orderLog'[o].status = orderLog[o].status
         \/ orderLog'[o].status \in Working
         \/ \A p \in PlacedFor(o) : ~Live(p)
  PROVE  Calm
<1>1. Fades
  BY NothingFades DEF FadesSized
<1>2. orderLog[o] # NoRow /\ orderLog'[o] # NoRow
  BY NoRowFacts
<1>3. \A r \in Orders : orderLog[r].age <= 1
  BY DEF TablesInv, RowsMatch
<1>4. RowsCalm
  <2>1. ASSUME NEW r \in Orders
        PROVE  /\ orderLog'[r].side = orderLog[r].side
               /\ orderLog'[r].bid = orderLog[r].bid
               /\ orderLog'[r].older = orderLog[r].older
               /\ orderLog'[r].age <= 1
               /\ orderLog'[r] = NoRow <=> orderLog[r] = NoRow
               /\ \/ orderLog'[r].status = orderLog[r].status
                  \/ orderLog'[r].status \in Working
                  \/ \A p \in PlacedFor(r) : ~Live(p)
    <3>1. CASE r = o
      BY <1>2, <3>1
    <3>2. CASE r # o
      BY <1>3, <3>2
    <3> QED
      BY <3>1, <3>2
  <2> QED
    BY <2>1 DEF RowsCalm
<1> QED
  BY <1>1, <1>4 DEF Calm

\* A background task that writes nothing next writes nothing wrong.
LEMMA NoWrite ==
  /\ rec'.pc \in {"idle", "read"} => RecInv'
  /\ swp'.pc # "write" => SwpInv'
  BY DEF RecInv, SwpInv, PlacedFor, Live

LEMMA SerialReconcile ==
  ASSUME Honest, IndInv, SerialInv, Reconcile
  PROVE  SerialInv'
<1>0. /\ TypeOK /\ TablesInv /\ RecInv /\ UNCHANGED <<job, swp, parked>> /\ rec \in RecType
  BY DEF IndInv, TypeOK, SerialInv, Reconcile, RecStep, RecPick, RecRead, RecCancel, RecWrite
<1>a. rec.pc # "idle" => rec.row \in Orders /\ orderLog[rec.row].bid # NoBid
                         /\ orderLog[rec.row].bid \in Placements
  BY <1>0 DEF IndInv, TasksOK, TypeOK, RowRecord
<1>b. UNCHANGED <<book, orderLog>> => Calm
  BY <1>0, NothingFades, TableCalm DEF FadesSized
<1>1. ASSUME NEW o \in Orders, RecPick(o) PROVE SerialInv'
  <2>1. RecInv'
    BY <1>1, NoWrite DEF RecPick, RecSet, IdleRec
  <2> QED
    BY <1>0, <1>b, <1>1, <2>1, TaskCalm DEF RecPick, tables
<1>2. CASE RecRead
  <2>0. UNCHANGED <<book, orderLog>> /\ rec.pc = "read"
    BY <1>2 DEF RecRead, tables
  <2>1. ASSUME NEW s, NEW f, RecWriteNext(s, f),
               s \in Working \/ \A p \in PlacedFor(rec.row) : ~Live(p)
        PROVE  RecInv'
    <3>1. PICK r : r = [status |-> s, filled |-> f, bid |-> NoBid]
      OBVIOUS
    <3>2. rec' = [rec EXCEPT !.pc = "write", !.res = r]
      BY <2>1, <3>1 DEF RecWriteNext, RecSet
    <3>3. rec'.pc = "write" /\ rec'.row = rec.row /\ rec'.res.status = s
      BY <1>0, <3>1, <3>2 DEF RecType
    <3> QED
      BY <2>0, <2>1, <3>3 DEF RecInv, PlacedFor, Live
  <2>2. ASSUME RecSet(IdleRec) PROVE RecInv'
    BY <2>2, NoWrite DEF RecSet, IdleRec
  <2>3. ASSUME RecWriteNext(Snapshot(orderLog[rec.row].bid).status,
                            Snapshot(orderLog[rec.row].bid).filled)
        PROVE  RecInv'
    <3>1. PICK s : /\ s = Snapshot(orderLog[rec.row].bid).status
                   /\ RecWriteNext(s, Snapshot(orderLog[rec.row].bid).filled)
      BY <2>3
    <3>2. s \in Working \/ ~Live(orderLog[rec.row].bid)
      BY <1>0, <1>a, <2>0, <3>1, Reported
    <3>3. s \in Working \/ \A p \in PlacedFor(rec.row) : ~Live(p)
      BY <1>0, <1>a, <2>0, <3>2, RowOver
    <3> QED
      BY <2>1, <3>1, <3>3
  <2>4. ~Stale /\ ~May("read_rejected") /\ ~May("list_empty")
    BY <1>0, <1>a, <2>0, NoMisreport DEF Misreports, Stale, TablesInv, RowsMatch
  <2>5. ASSUME ~ListedOpen(orderLog[rec.row].side),
               RecWriteNext("cancelled", orderLog[rec.row].filled)
        PROVE  RecInv'
    <3>1. \A p \in PlacedFor(rec.row) : ~Live(p)
      BY <1>0, <1>a, <2>0, <2>5, NoRowFacts
      DEF TablesInv, RowsMatch, ListedOpen, PlacedFor, Live
    <3> QED
      BY <2>1, <2>5, <3>1
  <2>6. RecInv'
    BY <1>2, <2>2, <2>3, <2>4, <2>5 DEF RecRead
  <2> QED
    BY <1>0, <1>b, <2>0, <2>6, TaskCalm
<1>3. CASE RecCancel
  BY <1>0, <1>3 DEF RecCancel, RecInv
<1>4. CASE RecWrite
  <2>0. rec.pc = "write" /\ UNCHANGED book /\ rec' = IdleRec
    BY <1>4 DEF RecWrite, RecSet
  <2>1. RecInv'
    BY <2>0, NoWrite DEF IdleRec
  <2>2. CASE UNCHANGED orderLog
    BY <1>0, <1>b, <2>0, <2>1, <2>2, TaskCalm
  <2>3. CASE orderLog' = [orderLog EXCEPT ![rec.row].status = rec.res.status,
                                          ![rec.row].filled = rec.res.filled]
    <3>1. PICK o \in Orders : o = rec.row
      BY <1>a, <2>0
    <3>2. /\ \A r \in Orders \ {o} : orderLog'[r] = orderLog[r]
          /\ orderLog'[o] = [orderLog[o] EXCEPT !.status = rec.res.status,
                                                !.filled = rec.res.filled]
          /\ orderLog[o] \in RowRecord /\ orderLog[o].age <= 1
      BY <1>0, <2>3, <3>1 DEF TypeOK, TablesInv, RowsMatch
    <3>3. /\ orderLog'[o].side = orderLog[o].side
          /\ orderLog'[o].bid = orderLog[o].bid
          /\ orderLog'[o].older = orderLog[o].older
          /\ orderLog'[o].age = orderLog[o].age
          /\ orderLog'[o].status = rec.res.status
      BY <3>2 DEF RowRecord
    <3>4. Calm
      BY <1>0, <1>a, <2>0, <3>1, <3>2, <3>3, RowWritten DEF RecInv
    <3> QED
      BY <1>0, <2>1, <3>4, TaskCalm
  <2> QED
    BY <1>4, <2>2, <2>3 DEF RecWrite
<1> QED
  BY <1>1, <1>2, <1>3, <1>4 DEF Reconcile, RecStep

LEMMA SerialSweep ==
  ASSUME Honest, IndInv, SerialInv, Sweep
  PROVE  SerialInv'
<1>0. /\ TypeOK /\ TablesInv /\ SwpInv /\ UNCHANGED <<job, rec, parked>> /\ swp \in SwpType
  BY DEF IndInv, TypeOK, SerialInv, Sweep, SwpPick, SwpCancel, SwpConfirm, SwpWrite
<1>a. swp.pc # "idle" => swp.row \in Orders /\ orderLog[swp.row].bid # NoBid
                         /\ orderLog[swp.row].bid \in Placements
  BY <1>0 DEF IndInv, TasksOK, TypeOK, RowRecord
<1>b. UNCHANGED <<book, orderLog>> => Calm
  BY <1>0, NothingFades, TableCalm DEF FadesSized
<1>1. CASE SwpPick
  <2>1. SwpInv'
    BY <1>1, NoWrite DEF SwpPick, IdleSwp
  <2> QED
    BY <1>0, <1>b, <1>1, <2>1, TaskCalm DEF SwpPick, tables
<1>2. CASE SwpCancel
  <2>1. Fades
    BY <1>0, <1>a, <1>2, CancelFades, NothingFades DEF SwpCancel, FadesSized
  <2>2. SwpInv'
    BY <1>0, <1>2, NoWrite DEF SwpCancel, IdleSwp, SwpType
  <2> QED
    BY <1>0, <1>2, <2>1, <2>2, TableCalm, TaskCalm DEF SwpCancel, tables
<1>3. CASE SwpConfirm
  <2>0. UNCHANGED <<book, orderLog>> /\ swp.pc = "confirm"
    BY <1>3 DEF SwpConfirm, tables
  <2>1. ASSUME Confirmed(swp.row), swp' = [swp EXCEPT !.pc = "write"]
        PROVE  SwpInv'
    <3>1. ~Live(orderLog[swp.row].bid)
      BY <1>0, <1>a, <2>0, <2>1, Reported, NoMisreport DEF Confirmed, Misreports, Working
    <3>2. \A p \in PlacedFor(swp.row) : ~Live(p)
      BY <1>0, <1>a, <2>0, <3>1, RowOver
    <3>3. swp'.row = swp.row
      BY <1>0, <2>1 DEF SwpType
    <3> QED
      <4>1. \A p \in PlacedFor(swp.row)' : ~Live(p)'
        BY <2>0, <3>2, <3>3 DEF PlacedFor, Live
      <4> QED
        BY <4>1 DEF SwpInv
  <2>2. ASSUME swp' = IdleSwp PROVE SwpInv'
    BY <2>2, NoWrite DEF IdleSwp
  <2>3. ASSUME swp' = [swp EXCEPT !.polls = @ + 1] PROVE SwpInv'
    BY <1>0, <2>0, <2>3, NoWrite DEF SwpType
  <2>4. SwpInv'
    BY <1>3, <2>1, <2>2, <2>3 DEF SwpConfirm
  <2> QED
    BY <1>0, <1>b, <2>0, <2>4, TaskCalm
<1>4. CASE SwpWrite
  <2>0. swp.pc = "write" /\ UNCHANGED book /\ swp' = IdleSwp
    BY <1>4 DEF SwpWrite
  <2>1. SwpInv'
    BY <2>0, NoWrite DEF IdleSwp
  <2>2. CASE UNCHANGED orderLog
    BY <1>0, <1>b, <2>0, <2>1, <2>2, TaskCalm
  <2>3. CASE orderLog' = [orderLog EXCEPT ![swp.row].status = "cancelled"]
    <3>1. PICK o \in Orders : o = swp.row
      BY <1>a, <2>0
    <3>2. /\ \A r \in Orders \ {o} : orderLog'[r] = orderLog[r]
          /\ orderLog'[o] = [orderLog[o] EXCEPT !.status = "cancelled"]
          /\ orderLog[o] \in RowRecord /\ orderLog[o].age <= 1
      BY <1>0, <2>3, <3>1 DEF TypeOK, TablesInv, RowsMatch
    <3>3. /\ orderLog'[o].side = orderLog[o].side
          /\ orderLog'[o].bid = orderLog[o].bid
          /\ orderLog'[o].older = orderLog[o].older
          /\ orderLog'[o].age = orderLog[o].age
      BY <3>2 DEF RowRecord
    <3>4. \A p \in PlacedFor(o) : ~Live(p)
      BY <1>0, <2>0, <3>1 DEF SwpInv
    <3>5. Calm
      BY <1>0, <1>a, <2>0, <3>1, <3>2, <3>3, <3>4, RowWritten
    <3> QED
      BY <1>0, <2>1, <3>5, TaskCalm
  <2> QED
    BY <1>4, <2>2, <2>3 DEF SwpWrite
<1> QED
  BY <1>1, <1>2, <1>3, <1>4 DEF Sweep

LEMMA SerialElsewhere ==
  ASSUME Honest, IndInv, SerialInv,
         KillSwitch \/ Venue \/ (\E o \in Orders : Age(o)) \/ Crash \/ UNCHANGED vars
  PROVE  SerialInv'
<1>0. TypeOK /\ TablesInv /\ RecInv /\ SwpInv
  BY DEF IndInv, SerialInv
<1>1. ASSUME Fades, UNCHANGED <<orderLog, job, rec, swp, parked>>
      PROVE  SerialInv'
  BY <1>0, <1>1, TableCalm, TaskCalm
<1>2. CASE KillSwitch
  <2>1. UNCHANGED <<orderLog, job, rec, swp, parked>>
    BY <1>2 DEF KillSwitch, KillCommand, KillList, KillCancel, ResetKill, tables
  <2>2. CASE UNCHANGED book
    BY <1>1, <2>1, <2>2, NothingFades DEF FadesSized
  <2>3. ASSUME NEW p \in kill.todo, CancelRequest(p) PROVE SerialInv'
    <3>1. p \in Placements
      BY <1>0 DEF TypeOK, KillType
    <3> QED
      BY <1>0, <1>1, <2>1, <2>3, <3>1, CancelFades DEF FadesSized
  <2> QED
    BY <1>2, <2>2, <2>3 DEF KillSwitch, KillCommand, KillList, KillCancel, ResetKill
<1>3. ASSUME NEW p \in Placements, VenueFill(p) \/ VenueCancel(p) PROVE SerialInv'
  <2>1. Fades
    BY <1>0, <1>3, VenueFades DEF FadesSized
  <2> QED
    BY <1>1, <1>3, <2>1 DEF VenueFill, VenueCancel, tables, others
<1>4. ASSUME NEW o \in Orders, Age(o) PROVE SerialInv'
  <2>1. /\ UNCHANGED <<book, parked, job, rec, swp>> /\ orderLog[o].bid # NoBid
        /\ orderLog[o].age < MaxAge /\ MaxAge <= 1
    BY <1>4 DEF Age, others, IndInv, RowsOK, Honest
  <2>2. /\ \A r \in Orders \ {o} : orderLog'[r] = orderLog[r]
        /\ orderLog'[o] = [orderLog[o] EXCEPT !.age = @ + 1]
        /\ orderLog[o] \in RowRecord
    BY <1>0, <1>4 DEF Age, TypeOK
  <2>3. /\ orderLog'[o].side = orderLog[o].side
        /\ orderLog'[o].bid = orderLog[o].bid
        /\ orderLog'[o].older = orderLog[o].older
        /\ orderLog'[o].status = orderLog[o].status
        /\ orderLog'[o].age = orderLog[o].age + 1 /\ orderLog[o].age \in 0..2
    BY <2>2 DEF RowRecord
  <2>4. orderLog'[o].age <= 1
    BY <2>1, <2>3
  <2>5. Calm
    BY <1>0, <2>1, <2>2, <2>3, <2>4, RowWritten
  <2> QED
    BY <2>1, <2>5, TaskCalm
<1>5. CASE Crash
  <2>0. /\ UNCHANGED <<book, orderLog>> /\ rec' = IdleRec /\ swp' = IdleSwp
        /\ parked' = {p \in Placements : Live(p)}
        /\ \A c \in Callers : job'[c] = IdleJob
    BY <1>5 DEF Crash, tables, Live
  <2>1. RecInv' /\ SwpInv'
    BY <2>0, NoWrite DEF IdleRec, IdleSwp
  <2>2. OnePlacementPerClientId' /\ RowsMatch' /\ LiveIsNewest' /\ ParkedPlaced'
    BY <1>0, <2>0 DEF TablesInv, OnePlacementPerClientId, RowsMatch, LiveIsNewest, Logged,
                      ParkedPlaced, PlacedFor, Live
  <2>3. \A p \in Placements : Live(p) /\ ~Orphan(p)' => ~Orphan(p)
    BY <2>0 DEF Orphan
  <2>4. SingleWorkingOrderPerSide'
    BY <1>0, <2>0, <2>3 DEF TablesInv, SingleWorkingOrderPerSide, Live
  <2>5. CallInv(IdleJob)'
    BY <2>0 DEF CallInv, Unlogged, IdleJob, BeforePlace, Holding, Replacing, Live
  <2>6. \A c \in Callers : CallInv(job[c])'
    BY <2>0, <2>5 DEF CallInv, Unlogged, Alone, PlacedFor
  <2> QED
    BY <2>1, <2>2, <2>4, <2>6 DEF SerialInv, TablesInv
<1>6. CASE UNCHANGED vars
  <2>1. Fades
    BY <1>6, NothingFades DEF FadesSized, vars
  <2> QED
    BY <1>1, <1>6, <2>1 DEF vars
<1> QED
  BY <1>2, <1>3, <1>4, <1>5, <1>6 DEF Venue

LEMMA SerialStep ==
  ASSUME Honest, IndInv, SerialInv, [Next]_vars
  PROVE  SerialInv'
<1>1. ASSUME NEW c \in Callers, Execute(c) PROVE SerialInv'
  BY <1>1, SerialBeforePlace, SerialPlace, SerialTrack, SerialWriteLog, SerialBook,
     SerialElsewhere DEF Execute, Refuse
<1> QED
  BY <1>1, SerialReconcile, SerialSweep, SerialElsewhere DEF Next

LEMMA SerialInit == Init => SerialInv
<1> SUFFICES ASSUME Init PROVE SerialInv
  OBVIOUS
<1>1. /\ \A p \in Placements : book[p] = NoPlacement
      /\ \A o \in Orders : orderLog[o] = NoRow
      /\ \A c \in Callers : job[c] = IdleJob
      /\ parked = {} /\ rec = IdleRec /\ swp = IdleSwp
  BY DEF Init
<1>2. \A p \in Placements : ~Live(p) /\ book[p].state = "none"
  BY <1>1 DEF NoPlacement, Live
<1>3. TablesInv
  BY <1>1, <1>2 DEF TablesInv, OnePlacementPerClientId, RowsMatch, LiveIsNewest,
                    ParkedPlaced, SingleWorkingOrderPerSide, PlacedFor, NoRow, Live
<1>4. CallInv(IdleJob)
  BY <1>2 DEF CallInv, Unlogged, IdleJob, BeforePlace, Holding, Replacing
<1>5. RecInv /\ SwpInv
  BY <1>1 DEF RecInv, SwpInv, IdleRec, IdleSwp
<1> QED
  BY <1>1, <1>3, <1>4, <1>5 DEF SerialInv

\* While calls of execute follow one another, at a venue that reports what is
\* so, two working orders of one side never rest there together: a crash, a
\* failed cancel, a failed read, the reconcile tick, the sweep and the kill
\* switch included, with any number of orders and of attempts.
THEOREM OneOrderASide ==
  ASSUME OneCaller, TrueReports, MaxAge <= 1
  PROVE  Spec => []SingleWorkingOrderPerSide
<1>1. Honest
  BY DEF Honest
<1>2. IndInv /\ SerialInv /\ [Next]_vars => SerialInv'
  BY <1>1, SerialStep
<1>3. SerialInv => SingleWorkingOrderPerSide
  BY DEF SerialInv, TablesInv
<1> QED
  BY <1>2, <1>3, SerialInit, Invariance, PTL DEF Spec
=============================================================================
