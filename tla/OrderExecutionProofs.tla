------------------------ MODULE OrderExecutionProofs ------------------------
(***************************************************************************)
(* Invariants of OrderExecution for every set of callers and orders, every *)
(* bound and every set of failures.                                        *)
(***************************************************************************)
EXTENDS OrderExecution, TLAPS

(* What an execute call in progress relies on, in the state it left behind. *)

ResultOK(r, o) ==
  /\ r.status \in Working \/ r.filled > 0 => r.bid # NoBid
  /\ r.bid # NoBid => /\ r.bid[1] = o
                      /\ book[r.bid].state # "none"
                      /\ r.filled <= book[r.bid].filled

BeforePlace == {"dedup", "replace", "confirm", "replaced", "clamp", "place"}

JobOK(j) ==
  /\ j.cid \in Orders
  /\ \A p \in Placements : p[1] = j.cid => booked[p] = 0
  /\ j.pc # "book" => orderLog[j.cid] = NoRow
  /\ ResultOK(j.res, j.cid)
  /\ j.pc \in BeforePlace =>
       /\ j.res = NoResult
       /\ \A p \in PlacedFor(j.cid) : p[2] <= j.tries
  /\ j.pc \in BeforePlace \ {"place"} => j.tries = 0
  /\ j.pc \in {"replace", "confirm", "replaced"} =>
       j.target \in Orders /\ orderLog[j.target].bid # NoBid
  /\ j.pc \in {"track", "cancel", "final"} => j.res.bid # NoBid

JobsOK == \A c \in Callers : job[c].pc # "idle" => JobOK(job[c])

\* Two calls in progress never share a client order id.
OwnIds ==
  \A c, d \in Callers :
    job[c].pc # "idle" /\ job[d].pc # "idle" /\ c # d => job[c].cid # job[d].cid

VenueOK ==
  \A p \in Placements : /\ booked[p] <= book[p].filled
                        /\ book[p].state = "none" => book[p].filled = 0

\* A row that is not over, or that a background task works on, has a broker id.
RowsOK ==
  \A o \in Orders : orderLog[o].status \in Working => orderLog[o].bid # NoBid
TasksOK ==
  /\ rec.pc # "idle" => rec.row \in Orders /\ orderLog[rec.row].bid # NoBid
  /\ swp.pc # "idle" => swp.row \in Orders /\ orderLog[swp.row].bid # NoBid

IndInv == TypeOK /\ JobsOK /\ OwnIds /\ VenueOK /\ RowsOK /\ TasksOK

----------------------------------------------------------------------------
USE ConstantsAssumption, NullAssumption DEF Attempts

LEMMA InitInv == Init => IndInv
<1> SUFFICES ASSUME Init PROVE IndInv
  OBVIOUS
<1> USE DEF Init
<1>1. TypeOK
  <2>1. book \in [Placements -> BookRecord]
    BY DEF NoPlacement, BookRecord, States, Sides
  <2>2. orderLog \in [Orders -> RowRecord]
    BY DEF NoRow, RowRecord, Statuses, Sides
  <2>3. NoResult \in Results
    BY DEF NoResult, Results, Statuses
  <2>4. IdleJob \in JobRecord
    BY <2>3, 0 \in 0..MaxRetries, 0 \in 0..MaxPolls DEF IdleJob, JobRecord, Labels
  <2>5. rec \in RecType /\ swp \in SwpType /\ kill \in KillType
    BY <2>3 DEF IdleRec, RecType, IdleSwp, SwpType, IdleKill, KillType
  <2>6. job \in [Callers -> JobRecord]
    BY <2>4
  <2>7. booked \in [Placements -> Nat] /\ held \in Int
    OBVIOUS
  <2>8. killed \in BOOLEAN /\ disabled \in BOOLEAN /\ parked \subseteq Placements
    OBVIOUS
  <2> QED
    BY <2>1, <2>2, <2>5, <2>6, <2>7, <2>8 DEF TypeOK
<1>2. JobsOK /\ OwnIds
  BY DEF JobsOK, OwnIds, IdleJob
<1>3. VenueOK /\ RowsOK /\ TasksOK
  BY DEF VenueOK, NoPlacement, RowsOK, NoRow, Working, TasksOK, IdleRec, IdleSwp
<1> QED
  BY <1>1, <1>2, <1>3 DEF IndInv

----------------------------------------------------------------------------
(* Types of the values a step writes *)

LEMMA ResultTypes ==
  /\ NoResult \in Results
  /\ Rejected \in Results
  /\ \A b \in Placements : [Rejected EXCEPT !.bid = b] \in Results
  BY DEF NoResult, Rejected, Results, Statuses, Terminal

LEMMA IdleTypes ==
  /\ IdleJob \in JobRecord
  /\ IdleRec \in RecType
  /\ IdleSwp \in SwpType
  /\ IdleKill \in KillType
<1>1. 0 \in 0..MaxRetries /\ 0 \in 0..MaxPolls
  OBVIOUS
<1>2. IdleJob \in JobRecord
  BY <1>1, ResultTypes DEF IdleJob, JobRecord, Labels
<1>3. IdleRec \in RecType /\ IdleSwp \in SwpType /\ IdleKill \in KillType
  BY <1>1, ResultTypes DEF IdleRec, RecType, IdleSwp, SwpType, IdleKill, KillType
<1> QED
  BY <1>2, <1>3

\* A report carries what the order traded by then.
LEMMA SnapshotFacts ==
  ASSUME NEW p \in Placements, book \in [Placements -> BookRecord]
  PROVE  /\ Snapshot(p) \in Results
         /\ Snapshot(p).filled = book[p].filled
         /\ Snapshot(p).bid = p
         /\ Snapshot(p).status \in {"none", "open", "partially_filled", "filled", "cancelled"}
  BY DEF Snapshot, Results, BookRecord, States, Statuses, Working, Terminal

LEMMA CancelRequestType ==
  ASSUME NEW p \in Placements, book \in [Placements -> BookRecord], CancelRequest(p)
  PROVE  book' \in [Placements -> BookRecord]
<1> DEFINE asked == book[p].state = "working"
<1>1. asked \in BOOLEAN
  OBVIOUS
<1>2. book' = [book EXCEPT ![p] = [book[p] EXCEPT !.cancel = asked]]
  BY DEF CancelRequest
<1> HIDE DEF asked
<1>3. [book[p] EXCEPT !.cancel = asked] \in BookRecord
  BY <1>1 DEF BookRecord
<1> QED
  BY <1>2, <1>3

LEMMA SetType ==
  ASSUME job \in [Callers -> JobRecord], NEW c \in Callers,
         NEW new \in JobRecord, Set(c, new)
  PROVE  job' \in [Callers -> JobRecord]
  BY DEF Set

LEMMA GotoType ==
  ASSUME job \in [Callers -> JobRecord], NEW c \in Callers,
         NEW label \in Labels, Goto(c, label)
  PROVE  job' \in [Callers -> JobRecord]
<1>1. [job[c] EXCEPT !.pc = label] \in JobRecord
  BY DEF JobRecord
<1> QED
  BY <1>1, SetType DEF Goto

LEMMA ReportType ==
  ASSUME job \in [Callers -> JobRecord], NEW c \in Callers,
         NEW r \in Results, Report(c, r)
  PROVE  job' \in [Callers -> JobRecord]
<1>1. [job[c] EXCEPT !.pc = "log", !.res = r] \in JobRecord
  BY DEF JobRecord, Labels
<1> QED
  BY <1>1, SetType DEF Report

LEMMA ReturnType ==
  ASSUME job \in [Callers -> JobRecord], NEW c \in Callers, Return(c)
  PROVE  job' \in [Callers -> JobRecord]
  BY IdleTypes, SetType DEF Return

\* The first half of a call: up to the decision to place.
LEMMA TypeBeforePlace ==
  ASSUME IndInv, NEW c \in Callers,
         Approve(c) \/ Dedup(c) \/ ReplaceCancel(c) \/ ReplaceConfirm(c)
           \/ ReplaceMark(c) \/ Clamp(c) \/ Skip(c)
  PROVE  TypeOK'
<1> USE DEF At, IndInv
<1>0. TypeOK /\ job[c] \in JobRecord
  BY DEF TypeOK
<1>1. CASE Approve(c)
  <2>1. PICK kind \in Kinds, q \in Quantities, o \in FreeIds :
          Set(c, [IdleJob EXCEPT !.pc = "dedup", !.kind = kind, !.qty = q, !.cid = o,
                                 !.older = Logged])
    BY <1>1 DEF Approve
  <2>2. [IdleJob EXCEPT !.pc = "dedup", !.kind = kind, !.qty = q, !.cid = o,
                        !.older = Logged] \in JobRecord
    BY IdleTypes DEF JobRecord, Labels, FreeIds, Logged
  <2>3. job' \in [Callers -> JobRecord]
    BY <2>1, <2>2, <1>0, SetType DEF TypeOK
  <2> QED
    BY <1>0, <1>1, <2>3 DEF TypeOK, Approve, tables, others
<1>2. CASE Dedup(c)
  <2>1. ASSUME NEW o \in Orders
        PROVE  [job[c] EXCEPT !.pc = "replace", !.target = o] \in JobRecord
    BY <1>0 DEF JobRecord, Labels
  <2>2. \/ Goto(c, "clamp") \/ Return(c)
        \/ \E o \in Orders : Set(c, [job[c] EXCEPT !.pc = "replace", !.target = o])
    BY <1>2 DEF Dedup, InFlight, Newest
  <2>3. job' \in [Callers -> JobRecord]
    BY <2>1, <2>2, <1>0, SetType, GotoType, ReturnType DEF TypeOK, Labels
  <2> QED
    BY <1>0, <1>2, <2>3 DEF TypeOK, Dedup, tables, others
<1>3. CASE ReplaceCancel(c)
  <2>1. orderLog[job[c].target].bid \in Placements
    BY <1>3, <1>0 DEF ReplaceCancel, JobsOK, JobOK, TypeOK, RowRecord
  <2>2. book' \in [Placements -> BookRecord]
    BY <1>0, <1>3, <2>1, CancelRequestType DEF ReplaceCancel, TypeOK
  <2>3. Goto(c, "confirm") \/ Return(c)
    BY <1>3 DEF ReplaceCancel
  <2>4. job' \in [Callers -> JobRecord]
    BY <2>3, <1>0, GotoType, ReturnType DEF TypeOK, Labels
  <2> QED
    BY <1>0, <1>3, <2>2, <2>4 DEF TypeOK, ReplaceCancel, tables, others
<1>4. CASE ReplaceConfirm(c)
  <2>1. CASE KeepPolling(job[c].target, job[c].polls)
               /\ Set(c, [job[c] EXCEPT !.polls = @ + 1])
    <3>1. job[c].polls + 1 \in 0..MaxPolls
      BY <2>1, <1>0 DEF KeepPolling, TypeOK, JobRecord
    <3>2. [job[c] EXCEPT !.polls = @ + 1] \in JobRecord
      BY <3>1, <1>0 DEF JobRecord
    <3> QED
      BY <2>1, <3>2, <1>0, <1>4, SetType DEF TypeOK, ReplaceConfirm, tables, others
  <2>2. CASE Goto(c, "replaced") \/ Return(c)
    <3>1. job' \in [Callers -> JobRecord]
      BY <2>2, <1>0, GotoType, ReturnType DEF TypeOK, Labels
    <3> QED
      BY <3>1, <1>0, <1>4 DEF TypeOK, ReplaceConfirm, tables, others
  <2> QED
    BY <1>4, <2>1, <2>2 DEF ReplaceConfirm
<1>5. CASE ReplaceMark(c)
  <2>1. [job[c] EXCEPT !.pc = "clamp", !.polls = 0] \in JobRecord
    BY <1>0, 0 \in 0..MaxPolls DEF JobRecord, Labels
  <2>2. job' \in [Callers -> JobRecord]
    BY <2>1, <1>0, <1>5, SetType DEF TypeOK, ReplaceMark
  <2>3. CASE orderLog' = [orderLog EXCEPT ![job[c].target].status = "cancelled"]
    <3>1. [orderLog[job[c].target] EXCEPT !.status = "cancelled"] \in RowRecord
      BY <1>0, <1>5 DEF TypeOK, ReplaceMark, JobsOK, JobOK, RowRecord, Statuses, Terminal
    <3> QED
      BY <3>1, <2>2, <2>3, <1>0, <1>5 DEF TypeOK, ReplaceMark, others
  <2>4. CASE UNCHANGED orderLog
    BY <2>2, <2>4, <1>0, <1>5 DEF TypeOK, ReplaceMark, others
  <2> QED
    BY <1>5, <2>3, <2>4 DEF ReplaceMark
<1>6. CASE Clamp(c)
  <2>1. ASSUME NEW q \in {held} \cup (({job[c].qty}) \cap 1..held), held > 0
        PROVE  [job[c] EXCEPT !.pc = "place", !.qty = q] \in JobRecord
    <3>1. q \in Nat
      BY <2>1, <1>0 DEF TypeOK
    <3> QED
      BY <3>1, <1>0 DEF JobRecord, Labels
  <2>2. \/ Goto(c, "place") \/ Return(c)
        \/ /\ held > 0
           /\ \E q \in {held} \cup (({job[c].qty}) \cap 1..held) :
                Set(c, [job[c] EXCEPT !.pc = "place", !.qty = q])
    BY <1>6 DEF Clamp
  <2>3. job' \in [Callers -> JobRecord]
    BY <2>1, <2>2, <1>0, SetType, GotoType, ReturnType DEF TypeOK, Labels
  <2> QED
    BY <1>0, <1>6, <2>3 DEF TypeOK, Clamp, tables, others
<1>7. CASE Skip(c)
  <2>1. job' \in [Callers -> JobRecord]
    BY <1>0, <1>7, ReturnType DEF TypeOK, Skip
  <2> QED
    BY <1>0, <1>7, <2>1 DEF TypeOK, Skip, tables, others
<1> QED
  BY <1>1, <1>2, <1>3, <1>4, <1>5, <1>6, <1>7

\* Where the venue takes an order, the client id of the call had none there
\* with this attempt's number.
LEMMA AcceptFacts ==
  ASSUME IndInv, NEW c \in Callers, At(c, "place"), Accept(c)
  PROVE  /\ Attempt(c) \in Placements
         /\ Attempt(c)[1] = job[c].cid /\ Attempt(c)[2] = job[c].tries + 1
         /\ book' \in [Placements -> BookRecord]
         /\ \/ UNCHANGED book
            \/ book' = [book EXCEPT ![Attempt(c)] = NewOrder(c)]
<1>1. TypeOK /\ job[c] \in JobRecord /\ job[c].cid \in Orders
  BY DEF IndInv, TypeOK, JobsOK, JobOK, At
<1>2. Attempt(c) \in Placements /\ Attempt(c)[1] = job[c].cid
        /\ Attempt(c)[2] = job[c].tries + 1
  BY <1>1 DEF Attempt, Placements, JobRecord
<1>3. NewOrder(c) \in BookRecord
  BY <1>1 DEF NewOrder, BookRecord, SideOf, Sides, States, JobRecord
<1> QED
  BY <1>1, <1>2, <1>3 DEF Accept, TypeOK

\* The second half of a call: placing, tracking and persisting.
LEMMA TypeFromPlace ==
  ASSUME IndInv, NEW c \in Callers,
         PlaceAccepted(c) \/ PlaceRejected(c) \/ PlaceRaises(c) \/ Poll(c)
           \/ Timeout(c) \/ CancelRemainder(c) \/ FinalRead(c) \/ WriteLog(c) \/ Book(c)
  PROVE  TypeOK'
<1>0. TypeOK /\ job[c] \in JobRecord /\ job[c].res \in Results
  BY DEF IndInv, TypeOK, JobRecord
<1>a. job \in [Callers -> JobRecord] /\ book \in [Placements -> BookRecord]
  BY <1>0 DEF TypeOK
<1>b. job[c].pc \in {"track", "cancel", "final"} => job[c].res.bid \in Placements
  BY <1>0 DEF IndInv, JobsOK, JobOK, Results
<1>1. CASE PlaceAccepted(c)
  <2>1. At(c, "place") /\ Accept(c)
    BY <1>1 DEF PlaceAccepted
  <2>2. ASSUME NEW r \in Results
        PROVE  [job[c] EXCEPT !.pc = "track", !.res = r] \in JobRecord
    BY <1>0 DEF JobRecord, Labels
  <2>3. [status |-> "open", filled |-> 0, bid |-> Attempt(c)] \in Results
    BY <2>1, AcceptFacts DEF Results, Statuses, Working
  <2>4. \A p \in PlacedFor(job[c].cid) : Snapshot(p) \in Results
    BY <1>a, SnapshotFacts DEF PlacedFor
  <2>5. \E r \in Results : Set(c, [job[c] EXCEPT !.pc = "track", !.res = r])
    BY <1>1, <2>3, <2>4 DEF PlaceAccepted
  <2>6. job' \in [Callers -> JobRecord]
    BY <1>a, <2>2, <2>5, SetType
  <2> QED
    BY <1>0, <1>1, <2>1, <2>6, AcceptFacts DEF TypeOK, PlaceAccepted, tables, others
<1>2. CASE PlaceRejected(c)
  <2>1. book' \in [Placements -> BookRecord]
    BY <1>2, <1>a, AcceptFacts DEF PlaceRejected
  <2>2. job' \in [Callers -> JobRecord]
    BY <1>2, <1>a, ReportType, ResultTypes DEF PlaceRejected
  <2> QED
    BY <1>0, <1>2, <2>1, <2>2 DEF TypeOK, PlaceRejected, tables, others
<1>3. CASE PlaceRaises(c)
  <2>1. book' \in [Placements -> BookRecord]
    BY <1>3, <1>a, AcceptFacts DEF PlaceRaises
  <2>2. CASE job[c].tries < MaxRetries /\ Set(c, [job[c] EXCEPT !.tries = @ + 1])
               /\ UNCHANGED disabled
    <3>1. [job[c] EXCEPT !.tries = @ + 1] \in JobRecord
      BY <1>0, <2>2 DEF JobRecord
    <3>2. job' \in [Callers -> JobRecord]
      BY <2>2, <3>1, <1>a, SetType
    <3> QED
      BY <1>0, <1>3, <2>1, <2>2, <3>2 DEF TypeOK, PlaceRaises, tables
  <2>3. CASE Return(c) /\ disabled' \in {disabled, TRUE}
    <3>1. job' \in [Callers -> JobRecord]
      BY <2>3, <1>a, ReturnType
    <3> QED
      BY <1>0, <1>3, <2>1, <2>3, <3>1 DEF TypeOK, PlaceRaises, tables
  <2> QED
    BY <1>3, <2>2, <2>3 DEF PlaceRaises
<1>4. CASE Poll(c)
  <2>1. job[c].polls + 1 \in 0..MaxPolls
    BY <1>0, <1>4 DEF Poll, JobRecord
  <2>2. Snapshot(job[c].res.bid) \in Results
          /\ [Rejected EXCEPT !.bid = job[c].res.bid] \in Results
    BY <1>a, <1>b, <1>4, SnapshotFacts, ResultTypes DEF Poll, At
  <2>3. ASSUME NEW r \in Results
        PROVE  [job[c] EXCEPT !.res = r, !.polls = @ + 1] \in JobRecord
    BY <1>0, <2>1 DEF JobRecord
  <2>4. [job[c] EXCEPT !.polls = @ + 1] \in JobRecord
    BY <1>0, <2>1 DEF JobRecord
  <2>5. \/ \E r \in Results : Report(c, r)
        \/ \E r \in Results : Set(c, [job[c] EXCEPT !.res = r, !.polls = @ + 1])
        \/ Set(c, [job[c] EXCEPT !.polls = @ + 1])
        \/ Goto(c, "log")
    BY <1>4, <2>2 DEF Poll
  <2>6. job' \in [Callers -> JobRecord]
    BY <1>a, <2>3, <2>4, <2>5, SetType, GotoType, ReportType DEF Labels
  <2> QED
    BY <1>0, <1>4, <2>6 DEF TypeOK, Poll, tables, others
<1>5. CASE Timeout(c)
  <2>1. job' \in [Callers -> JobRecord]
    BY <1>5, <1>a, GotoType DEF Timeout, Labels
  <2> QED
    BY <1>0, <1>5, <2>1 DEF TypeOK, Timeout, tables, others
<1>6. CASE CancelRemainder(c)
  <2>1. book' \in [Placements -> BookRecord]
    BY <1>6, <1>a, <1>b, CancelRequestType DEF CancelRemainder, At
  <2>2. Goto(c, "final") \/ Goto(c, "log")
    BY <1>6 DEF CancelRemainder
  <2>3. job' \in [Callers -> JobRecord]
    BY <2>2, <1>a, GotoType DEF Labels
  <2> QED
    BY <1>0, <1>6, <2>1, <2>3 DEF TypeOK, CancelRemainder, tables, others
<1>7. CASE FinalRead(c)
  <2>1. (\E r \in Results : Report(c, r)) \/ Goto(c, "log")
    BY <1>7, <1>a, <1>b, SnapshotFacts, ResultTypes DEF FinalRead, At
  <2>2. job' \in [Callers -> JobRecord]
    BY <2>1, <1>a, ReportType, GotoType DEF Labels
  <2> QED
    BY <1>0, <1>7, <2>2 DEF TypeOK, FinalRead, tables, others
<1>8. CASE WriteLog(c)
  <2>1. job' \in [Callers -> JobRecord]
    BY <1>8, <1>a, GotoType DEF WriteLog, Labels
  <2>2. [status |-> job[c].res.status, side |-> SideOf(job[c].kind),
         filled |-> job[c].res.filled, bid |-> job[c].res.bid, age |-> 0,
         older |-> job[c].older] \in RowRecord
    BY <1>0 DEF RowRecord, Results, SideOf, Sides, JobRecord
  <2>3. orderLog' \in [Orders -> RowRecord]
    BY <1>0, <1>8, <2>2 DEF TypeOK, WriteLog
  <2> QED
    BY <1>0, <1>8, <2>1, <2>3 DEF TypeOK, WriteLog, others
<1>9. CASE Book(c)
  <2>1. job' \in [Callers -> JobRecord]
    BY <1>9, <1>a, ReturnType DEF Book
  <2>2. Signed(SideOf(job[c].kind), job[c].res.filled) \in Int
    BY <1>0 DEF Signed, Results
  <2>3. booked' \in [Placements -> Nat] /\ held' \in Int
    BY <1>0, <1>9, <2>2 DEF TypeOK, Book, Results
  <2> QED
    BY <1>0, <1>9, <2>1, <2>3 DEF TypeOK, Book, others
<1> QED
  BY <1>1, <1>2, <1>3, <1>4, <1>5, <1>6, <1>7, <1>8, <1>9

\* The background tasks, the operator, the venue and time.
LEMMA TypeElsewhere ==
  ASSUME IndInv,
         \/ Reconcile \/ Sweep \/ KillSwitch \/ Venue
         \/ (\E o \in Orders : Age(o)) \/ Crash
  PROVE  TypeOK'
<1>0. /\ TypeOK /\ rec \in RecType /\ swp \in SwpType /\ kill \in KillType
      /\ book \in [Placements -> BookRecord] /\ orderLog \in [Orders -> RowRecord]
  BY DEF IndInv, TypeOK
<1>a. rec.pc # "idle" => rec.row \in Orders /\ orderLog[rec.row].bid \in Placements
  BY <1>0 DEF IndInv, TasksOK, RowRecord
<1>b. swp.pc # "idle" => swp.row \in Orders /\ orderLog[swp.row].bid \in Placements
  BY <1>0 DEF IndInv, TasksOK, RowRecord
<1>1. ASSUME NEW o \in Orders, RecPick(o)
      PROVE  TypeOK'
  <2>1. rec' \in RecType
    BY <1>1, IdleTypes DEF RecPick, RecSet, RecType
  <2> QED
    BY <1>0, <1>1, <2>1 DEF TypeOK, RecPick, tables
<1>2. ASSUME NEW s \in Statuses, NEW f \in Nat, RecWriteNext(s, f)
      PROVE  rec' \in RecType
  BY <1>0, <1>2 DEF RecWriteNext, RecSet, RecType, Results
<1>3. CASE RecRead
  <2>1. LET r == Snapshot(orderLog[rec.row].bid)
        IN  r.status \in Statuses /\ r.filled \in Nat
    BY <1>0, <1>a, <1>3, SnapshotFacts DEF RecRead, Results
  <2>2. orderLog[rec.row].filled \in Nat
    BY <1>0, <1>a, <1>3 DEF RecRead, RowRecord
  <2>3. [rec EXCEPT !.pc = "cancel"] \in RecType
    BY <1>0 DEF RecType
  <2>4. \/ \E s \in Statuses, f \in Nat : RecWriteNext(s, f)
        \/ RecSet([rec EXCEPT !.pc = "cancel"])
        \/ RecSet(IdleRec)
    BY <1>3, <2>1, <2>2 DEF RecRead, Statuses, Terminal
  <2>5. rec' \in RecType
    BY <1>2, <2>3, <2>4, IdleTypes DEF RecSet
  <2> QED
    BY <1>0, <1>3, <2>5 DEF TypeOK, RecRead, tables
<1>4. CASE RecCancel
  <2>1. book' \in [Placements -> BookRecord]
    BY <1>0, <1>a, <1>4, CancelRequestType DEF RecCancel
  <2>2. RecWriteNext("cancelled", 0) \/ RecSet(IdleRec)
    BY <1>4 DEF RecCancel
  <2>3. rec' \in RecType
    BY <1>2, <2>2, IdleTypes DEF RecSet, Statuses, Terminal
  <2> QED
    BY <1>0, <1>4, <2>1, <2>3 DEF TypeOK, RecCancel, tables
<1>5. CASE RecWrite
  <2>a. rec.pc = "write"
    BY <1>5 DEF RecWrite
  <2>b. orderLog[rec.row] \in RowRecord
    BY <1>0, <1>a, <2>a
  <2>c. rec.res \in Results
    BY <1>0 DEF RecType
  <2>d. rec.res.status \in Statuses /\ rec.res.filled \in Nat
    BY <2>c DEF Results
  <2>1. [orderLog[rec.row] EXCEPT !.status = rec.res.status, !.filled = rec.res.filled]
          \in RowRecord
    BY <2>b, <2>d DEF RowRecord
  <2>2. orderLog' \in [Orders -> RowRecord]
    BY <1>0, <1>a, <1>5, <2>1 DEF RecWrite
  <2> QED
    BY <1>0, <1>5, <2>2, IdleTypes DEF TypeOK, RecWrite, RecSet
<1>6. CASE SwpPick
  <2>1. ASSUME NEW o \in Orders
        PROVE  [IdleSwp EXCEPT !.pc = "cancel", !.row = o] \in SwpType
    BY IdleTypes DEF SwpType
  <2>2. swp' \in SwpType
    BY <1>6, <2>1 DEF SwpPick
  <2> QED
    BY <1>0, <1>6, <2>2 DEF TypeOK, SwpPick, tables
<1>7. CASE SwpCancel
  <2>1. book' \in [Placements -> BookRecord]
    BY <1>0, <1>b, <1>7, CancelRequestType DEF SwpCancel
  <2>2. swp' \in SwpType
    BY <1>0, <1>7, IdleTypes DEF SwpCancel, SwpType
  <2> QED
    BY <1>0, <1>7, <2>1, <2>2 DEF TypeOK, SwpCancel, tables
<1>8. CASE SwpConfirm
  <2>1. CASE KeepPolling(swp.row, swp.polls) /\ swp' = [swp EXCEPT !.polls = @ + 1]
    <3>1. swp.polls + 1 \in 0..MaxPolls
      BY <2>1, <1>0 DEF KeepPolling, SwpType
    <3>2. swp' \in SwpType
      BY <2>1, <3>1, <1>0 DEF SwpType
    <3> QED
      BY <3>2, <1>0, <1>8 DEF TypeOK, SwpConfirm, tables
  <2>2. CASE swp' = [swp EXCEPT !.pc = "write"] \/ swp' = IdleSwp
    <3>1. swp' \in SwpType
      BY <2>2, <1>0, IdleTypes DEF SwpType
    <3> QED
      BY <3>1, <1>0, <1>8 DEF TypeOK, SwpConfirm, tables
  <2> QED
    BY <1>8, <2>1, <2>2 DEF SwpConfirm
<1>9. CASE SwpWrite
  <2>1. [orderLog[swp.row] EXCEPT !.status = "cancelled"] \in RowRecord
    BY <1>0, <1>b, <1>9 DEF SwpWrite, RowRecord, Statuses, Terminal
  <2>2. orderLog' \in [Orders -> RowRecord]
    BY <1>0, <1>b, <1>9, <2>1 DEF SwpWrite
  <2> QED
    BY <1>0, <1>9, <2>2, IdleTypes DEF TypeOK, SwpWrite
<1>10. CASE KillCommand \/ KillList
  <2>1. kill' \in KillType
    BY <1>0, <1>10 DEF KillCommand, KillList, KillType
  <2> QED
    BY <1>0, <1>10, <2>1 DEF TypeOK, KillCommand, KillList, tables
<1>11. CASE KillCancel
  <2>1. kill' \in KillType
    BY <1>0, <1>11, IdleTypes DEF KillCancel, KillType
  <2>2. \A p \in kill.todo : p \in Placements
    BY <1>0 DEF KillType
  <2>3. book' \in [Placements -> BookRecord]
    BY <1>0, <1>11, <2>2, CancelRequestType DEF KillCancel
  <2> QED
    BY <1>0, <1>11, <2>1, <2>3 DEF TypeOK, KillCancel, tables
<1>12. CASE ResetKill
  BY <1>0, <1>12 DEF TypeOK, ResetKill, tables
<1>13. ASSUME NEW p \in Placements, VenueFill(p) \/ VenueCancel(p)
       PROVE  TypeOK'
  <2>0. book[p] \in BookRecord
    BY <1>0
  <2>1. ASSUME NEW s \in States
        PROVE  [book[p] EXCEPT !.filled = @ + 1, !.state = s] \in BookRecord
    <3>1. book[p].filled + 1 \in Nat
      BY <2>0 DEF BookRecord
    <3> QED
      BY <2>0, <3>1 DEF BookRecord
  <2>2. \A s \in States : [book[p] EXCEPT !.state = s] \in BookRecord
    BY <2>0 DEF BookRecord
  <2>3. book' \in [Placements -> BookRecord]
    BY <1>0, <1>13, <2>1, <2>2 DEF VenueFill, VenueCancel, States
  <2> QED
    BY <1>0, <1>13, <2>3 DEF TypeOK, VenueFill, VenueCancel, tables, others
<1>14. ASSUME NEW o \in Orders, Age(o)
       PROVE  TypeOK'
  <2>1. orderLog[o].age + 1 \in 0..2
    BY <1>0, <1>14 DEF Age, RowRecord
  <2>2. [orderLog[o] EXCEPT !.age = @ + 1] \in RowRecord
    BY <1>0, <2>1 DEF RowRecord
  <2>3. orderLog' \in [Orders -> RowRecord]
    BY <1>0, <1>14, <2>2 DEF Age
  <2> QED
    BY <1>0, <1>14, <2>3 DEF TypeOK, Age, others
<1>15. CASE Crash
  BY <1>0, <1>15, IdleTypes DEF TypeOK, Crash, tables
<1> QED
  BY <1>1, <1>3, <1>4, <1>5, <1>6, <1>7, <1>8, <1>9, <1>10, <1>11, <1>12, <1>13,
     <1>14, <1>15
  DEF Reconcile, RecStep, Sweep, KillSwitch, Venue

----------------------------------------------------------------------------
(* What a step of others leaves alone for a call in progress *)

\* Broker orders do not vanish and do not lose fills.
BookKept ==
  \A p \in Placements :
    /\ book[p].state = "none" => book'[p].state = "none" /\ book'[p].filled = book[p].filled
    /\ book[p].state # "none" => book'[p].state # "none" /\ book[p].filled <= book'[p].filled

LEMMA NoRowFacts == NoRow.bid = NoBid /\ NoRow.status = "none" /\ NoRow.older = {}
  BY DEF NoRow

\* Rows keep their broker id, and no row appears.
LogKept ==
  \A o \in Orders : /\ orderLog[o].bid # NoBid => orderLog'[o].bid # NoBid
                    /\ orderLog[o] = NoRow => orderLog'[o] = NoRow

\* What the call of client order id o needs of a step it does not make.
Keeps(o) ==
  /\ \A p \in Placements :
       /\ book[p].state # "none" => book'[p].state # "none" /\ book[p].filled <= book'[p].filled
       /\ p[1] = o => /\ book[p].state = "none" => book'[p].state = "none"
                      /\ booked'[p] = booked[p]
  /\ orderLog[o] = NoRow => orderLog'[o] = NoRow
  /\ \A q \in Orders : orderLog[q].bid # NoBid => orderLog'[q].bid # NoBid

LEMMA KeptKeeps ==
  ASSUME BookKept, LogKept, UNCHANGED booked, NEW o \in Orders
  PROVE  Keeps(o)
  BY DEF BookKept, LogKept, Keeps

LEMMA JobKept ==
  ASSUME TypeOK, TypeOK', NEW j \in JobRecord, JobOK(j), Keeps(j.cid)
  PROVE  JobOK(j)'
<1>0. j.res \in Results /\ j.cid \in Orders
  BY DEF JobRecord, JobOK
<1>1. ResultOK(j.res, j.cid)'
  <2>1. ASSUME j.res.bid # NoBid
        PROVE  /\ j.res.bid[1] = j.cid
               /\ book'[j.res.bid].state # "none"
               /\ j.res.filled <= book'[j.res.bid].filled
    <3>1. j.res.bid \in Placements /\ j.res.filled \in Nat
      BY <1>0, <2>1 DEF Results
    <3>2. book[j.res.bid].filled \in Nat /\ book'[j.res.bid].filled \in Nat
      BY <3>1 DEF TypeOK, BookRecord
    <3>3. /\ j.res.bid[1] = j.cid
          /\ book[j.res.bid].state # "none"
          /\ j.res.filled <= book[j.res.bid].filled
      BY <2>1 DEF JobOK, ResultOK
    <3>4. /\ book'[j.res.bid].state # "none"
          /\ book[j.res.bid].filled <= book'[j.res.bid].filled
      BY <3>1, <3>3 DEF Keeps
    <3> QED
      BY <3>1, <3>2, <3>3, <3>4
  <2> QED
    BY <2>1 DEF JobOK, ResultOK
<1>2. \A p \in PlacedFor(j.cid)' : p \in PlacedFor(j.cid)
  BY DEF Keeps, PlacedFor
<1> QED
  BY <1>0, <1>1, <1>2 DEF JobOK, Keeps, BeforePlace

\* A step of caller c.
LEMMA CallerStep ==
  ASSUME IndInv, TypeOK', NEW c \in Callers, NEW new \in JobRecord, Set(c, new),
         new.pc # "idle" =>
           /\ JobOK(new)'
           /\ \A d \in Callers \ {c} : job[d].pc # "idle" => job[d].cid # new.cid,
         \A d \in Callers \ {c} : job[d].pc # "idle" => Keeps(job[d].cid),
         \A o \in Orders : orderLog[o].bid # NoBid => orderLog'[o].bid # NoBid,
         UNCHANGED <<rec, swp>>, VenueOK', RowsOK'
  PROVE  IndInv'
<1>0. job \in [Callers -> JobRecord] /\ TypeOK
  BY DEF IndInv, TypeOK
<1>1. job'[c] = new /\ \A d \in Callers \ {c} : job'[d] = job[d]
  BY <1>0 DEF Set
<1>2. JobsOK'
  <2>1. ASSUME NEW d \in Callers, job'[d].pc # "idle"
        PROVE  JobOK(job[d])'
    <3>1. CASE d = c
      <4>1. JobOK(new)'
        BY <1>1, <2>1, <3>1
      <4> QED
        BY <1>1, <3>1, <4>1 DEF JobOK, ResultOK, PlacedFor
    <3>2. CASE d # c
      <4>1. PICK j \in JobRecord : j = job[d]
        BY <1>0
      <4>2. JobOK(j) /\ Keeps(j.cid) /\ job'[d] = j
        BY <1>1, <2>1, <3>2, <4>1 DEF IndInv, JobsOK
      <4>3. JobOK(j)'
        BY <1>0, <4>2, JobKept
      <4> QED
        BY <4>2, <4>3 DEF JobOK, ResultOK, PlacedFor
    <3> QED
      BY <3>1, <3>2
  <2> QED
    BY <2>1 DEF JobsOK
<1>3. OwnIds'
  BY <1>1 DEF IndInv, OwnIds
<1>4. TasksOK'
  BY DEF IndInv, TasksOK
<1> QED
  BY <1>2, <1>3, <1>4 DEF IndInv

LEMMA VenueKept ==
  ASSUME TypeOK, TypeOK', VenueOK, BookKept, UNCHANGED booked
  PROVE  VenueOK'
<1>1. ASSUME NEW p \in Placements
      PROVE  /\ booked'[p] <= book'[p].filled
             /\ book'[p].state = "none" => book'[p].filled = 0
  <2>1. booked[p] \in Nat /\ book[p].filled \in Nat /\ book'[p].filled \in Nat
    BY DEF TypeOK, BookRecord
  <2>2. /\ booked[p] <= book[p].filled
        /\ book[p].state = "none" => book[p].filled = 0
    BY DEF VenueOK
  <2> QED
    BY <2>1, <2>2 DEF BookKept
<1> QED
  BY <1>1 DEF VenueOK

LEMMA NothingKept ==
  ASSUME TypeOK
  PROVE  /\ UNCHANGED book => BookKept
         /\ UNCHANGED orderLog => LogKept
  BY DEF BookKept, LogKept, TypeOK, BookRecord

LEMMA CancelKept ==
  ASSUME TypeOK, NEW p \in Placements, CancelRequest(p)
  PROVE  BookKept
<1>1. /\ \A q \in Placements : book'[q].state = book[q].state
      /\ \A q \in Placements : book'[q].filled = book[q].filled
  BY DEF CancelRequest, TypeOK, BookRecord
<1> QED
  BY <1>1 DEF BookKept, TypeOK, BookRecord

\* A step of caller c that places and books nothing and adds no row.
LEMMA CallerOnly ==
  ASSUME IndInv, TypeOK', NEW c \in Callers, NEW new \in JobRecord, Set(c, new),
         new.pc # "idle" =>
           /\ JobOK(new)
           /\ \A d \in Callers \ {c} : job[d].pc # "idle" => job[d].cid # new.cid,
         BookKept, LogKept, UNCHANGED <<booked, rec, swp>>, RowsOK'
  PROVE  IndInv'
<1>0. TypeOK /\ VenueOK
  BY DEF IndInv
<1>1. new.pc # "idle" => JobOK(new)'
  <2> SUFFICES ASSUME new.pc # "idle" PROVE JobOK(new)'
    OBVIOUS
  <2>1. JobOK(new) /\ new.cid \in Orders
    BY DEF JobOK
  <2>2. Keeps(new.cid)
    BY <2>1, KeptKeeps
  <2> QED
    BY <1>0, <2>1, <2>2, JobKept
<1>2. \A d \in Callers \ {c} : job[d].pc # "idle" => Keeps(job[d].cid)
  BY KeptKeeps DEF IndInv, JobsOK, JobOK
<1>3. VenueOK'
  BY <1>0, VenueKept
<1> QED
  BY <1>1, <1>2, <1>3, CallerStep DEF LogKept

\* A step that is not a caller's.
LEMMA BackgroundStep ==
  ASSUME IndInv, TypeOK', BookKept, LogKept, UNCHANGED <<booked, job>>, RowsOK', TasksOK'
  PROVE  IndInv'
<1>0. job \in [Callers -> JobRecord] /\ TypeOK /\ VenueOK
  BY DEF IndInv, TypeOK
<1>1. ASSUME NEW c \in Callers, job[c].pc # "idle"
      PROVE  JobOK(job[c])'
  <2>1. PICK j \in JobRecord : j = job[c]
    BY <1>0
  <2>2. JobOK(j) /\ j.cid \in Orders
    BY <1>1, <2>1 DEF IndInv, JobsOK, JobOK
  <2>3. JobOK(j)'
    BY <1>0, <2>2, KeptKeeps, JobKept
  <2> QED
    BY <2>1, <2>3 DEF JobOK, ResultOK, PlacedFor
<1>2. JobsOK'
  BY <1>1 DEF JobsOK
<1>3. OwnIds'
  BY DEF IndInv, OwnIds
<1> QED
  BY <1>0, <1>2, <1>3, VenueKept DEF IndInv

\* A step that changes no table has rows as good as before.
LEMMA RowsKept ==
  ASSUME RowsOK, UNCHANGED orderLog
  PROVE  RowsOK'
  BY DEF RowsOK

----------------------------------------------------------------------------
(* The invariant is inductive *)

\* A step that only moves caller c on, in a call it goes on with.
LEMMA CallGoesOn ==
  ASSUME IndInv, TypeOK', NEW c \in Callers, job[c].pc # "idle",
         NEW new \in JobRecord, Set(c, new), new.pc = "idle" \/ JobOK(new),
         new.pc # "idle" => new.cid = job[c].cid,
         BookKept, LogKept, UNCHANGED <<booked, rec, swp>>, RowsOK'
  PROVE  IndInv'
<1>1. new.pc # "idle" =>
        \A d \in Callers \ {c} : job[d].pc # "idle" => job[d].cid # new.cid
  BY DEF IndInv, OwnIds
<1> QED
  BY <1>1, CallerOnly

LEMMA CallReturns ==
  ASSUME IndInv, TypeOK', NEW c \in Callers, job[c].pc # "idle", Return(c),
         BookKept, LogKept, UNCHANGED <<booked, rec, swp>>, RowsOK'
  PROVE  IndInv'
<1>1. IdleJob \in JobRecord /\ IdleJob.pc = "idle"
  BY IdleTypes DEF IdleJob
<1> QED
  BY <1>1, CallGoesOn DEF Return

\* Moving to another label is harmless where the label asks for no more.
LEMMA CallGoesTo ==
  ASSUME IndInv, TypeOK', NEW c \in Callers, job[c].pc # "idle",
         NEW label \in Labels, Goto(c, label), JobOK([job[c] EXCEPT !.pc = label]),
         BookKept, LogKept, UNCHANGED <<booked, rec, swp>>, RowsOK'
  PROVE  IndInv'
<1>1. PICK new : new = [job[c] EXCEPT !.pc = label]
  OBVIOUS
<1>2. job[c] \in JobRecord
  BY DEF IndInv, TypeOK
<1>3. new \in JobRecord /\ new.cid = job[c].cid
  BY <1>1, <1>2 DEF JobRecord
<1>4. Set(c, new) /\ JobOK(new)
  BY <1>1 DEF Goto
<1> QED
  BY <1>3, <1>4, CallGoesOn

LEMMA InvBeforePlace ==
  ASSUME IndInv, NEW c \in Callers,
         Approve(c) \/ Dedup(c) \/ ReplaceCancel(c) \/ ReplaceConfirm(c)
           \/ ReplaceMark(c) \/ Clamp(c) \/ Skip(c)
  PROVE  IndInv'
<1>0. TypeOK /\ TypeOK' /\ RowsOK /\ job[c] \in JobRecord
  BY TypeBeforePlace DEF IndInv, TypeOK
<1>a. job[c].pc # "idle" => JobOK(job[c])
  BY DEF IndInv, JobsOK
<1>1. CASE Approve(c)
  <2>1. PICK kind \in Kinds, q \in Quantities, o \in FreeIds :
          Set(c, [IdleJob EXCEPT !.pc = "dedup", !.kind = kind, !.qty = q, !.cid = o,
                                 !.older = Logged])
    BY <1>1 DEF Approve
  <2>2. PICK new : new = [IdleJob EXCEPT !.pc = "dedup", !.kind = kind, !.qty = q,
                                         !.cid = o, !.older = Logged]
    OBVIOUS
  <2>3. new \in JobRecord
    BY <2>2, IdleTypes DEF JobRecord, Labels, FreeIds, Logged
  <2>4. /\ new.pc = "dedup" /\ new.cid = o /\ new.res = NoResult /\ new.tries = 0
        /\ o \in Orders
    BY <2>2 DEF IdleJob, FreeIds
  <2>5. \A p \in Placements : p[1] = o => booked[p] = 0
    <3>1. ASSUME NEW p \in Placements, p[1] = o PROVE booked[p] = 0
      <4>1. book[p].state = "none"
        BY <3>1 DEF FreeIds, PlacedFor
      <4> QED
        BY <4>1, <1>0 DEF IndInv, VenueOK, TypeOK
    <3> QED
      BY <3>1
  <2>6. orderLog[o] = NoRow /\ PlacedFor(o) = {}
    BY DEF FreeIds
  <2>7. ResultOK(new.res, o)
    BY <2>4 DEF ResultOK, NoResult, Working
  <2>8. JobOK(new)
    BY <2>4, <2>5, <2>6, <2>7 DEF JobOK, BeforePlace
  <2>9. \A d \in Callers \ {c} : job[d].cid # new.cid
    BY <2>4 DEF FreeIds
  <2>10. BookKept /\ LogKept /\ RowsOK'
    BY <1>0, <1>1, NothingKept, RowsKept DEF Approve, tables
  <2> QED
    BY <1>0, <1>1, <2>1, <2>2, <2>3, <2>8, <2>9, <2>10, CallerOnly
    DEF Approve, tables, others
<1>2. CASE Dedup(c)
  <2>0. BookKept /\ LogKept /\ RowsOK' /\ job[c].pc = "dedup"
    BY <1>0, <1>2, NothingKept, RowsKept DEF Dedup, tables, At
  <2>1. CASE Goto(c, "clamp")
    <3>1. JobOK([job[c] EXCEPT !.pc = "clamp"])
      BY <1>0, <1>a, <2>0 DEF JobOK, JobRecord, BeforePlace
    <3> QED
      BY <1>2, <2>0, <2>1, <3>1, <1>0, CallGoesTo DEF Dedup, tables, others, Labels
  <2>2. CASE Return(c)
    BY <1>2, <2>0, <2>2, <1>0, CallReturns DEF Dedup, tables, others
  <2>3. ASSUME NEW o \in InFlight(SideOf(job[c].kind)),
               Set(c, [job[c] EXCEPT !.pc = "replace", !.target = o])
        PROVE  IndInv'
    <3>1. PICK new : new = [job[c] EXCEPT !.pc = "replace", !.target = o]
      OBVIOUS
    <3>2. o \in Orders /\ orderLog[o].bid # NoBid
      BY <1>0 DEF InFlight, RowsOK
    <3>3. new \in JobRecord /\ new.cid = job[c].cid /\ new.pc = "replace"
          /\ new.target = o /\ new.res = job[c].res /\ new.tries = job[c].tries
      BY <1>0, <3>1, <3>2 DEF JobRecord, Labels
    <3>4. JobOK(new)
      BY <1>a, <2>0, <3>2, <3>3 DEF JobOK, BeforePlace
    <3> QED
      BY <1>2, <2>0, <2>3, <3>1, <3>3, <3>4, <1>0, CallGoesOn DEF Dedup, tables, others
  <2> QED
    BY <1>2, <2>1, <2>2, <2>3 DEF Dedup, Newest
<1>3. CASE ReplaceCancel(c)
  <2>0. orderLog[job[c].target].bid \in Placements
    BY <1>0, <1>a, <1>3 DEF ReplaceCancel, At, JobOK, TypeOK, RowRecord
  <2>1. BookKept /\ LogKept /\ RowsOK' /\ job[c].pc = "replace"
    BY <1>0, <1>3, <2>0, CancelKept, NothingKept, RowsKept DEF ReplaceCancel, tables, At
  <2>2. CASE Goto(c, "confirm")
    <3>1. JobOK([job[c] EXCEPT !.pc = "confirm"])
      BY <1>0, <1>a, <2>1 DEF JobOK, JobRecord, BeforePlace
    <3> QED
      BY <1>3, <2>1, <2>2, <3>1, <1>0, CallGoesTo DEF ReplaceCancel, tables, others, Labels
  <2>3. CASE Return(c)
    BY <1>3, <2>1, <2>3, <1>0, CallReturns DEF ReplaceCancel, tables, others
  <2> QED
    BY <1>3, <2>2, <2>3 DEF ReplaceCancel
<1>4. CASE ReplaceConfirm(c)
  <2>0. BookKept /\ LogKept /\ RowsOK' /\ job[c].pc = "confirm"
    BY <1>0, <1>4, NothingKept, RowsKept DEF ReplaceConfirm, tables, At
  <2>1. CASE Goto(c, "replaced")
    <3>1. JobOK([job[c] EXCEPT !.pc = "replaced"])
      BY <1>0, <1>a, <2>0 DEF JobOK, JobRecord, BeforePlace
    <3> QED
      BY <1>4, <2>0, <2>1, <3>1, <1>0, CallGoesTo DEF ReplaceConfirm, tables, others, Labels
  <2>2. CASE Return(c)
    BY <1>4, <2>0, <2>2, <1>0, CallReturns DEF ReplaceConfirm, tables, others
  <2>3. CASE KeepPolling(job[c].target, job[c].polls)
               /\ Set(c, [job[c] EXCEPT !.polls = @ + 1])
    <3>1. PICK new : new = [job[c] EXCEPT !.polls = @ + 1]
      OBVIOUS
    <3>2. job[c].polls + 1 \in 0..MaxPolls
      BY <2>3, <1>0 DEF KeepPolling, JobRecord
    <3>3. new \in JobRecord /\ new.cid = job[c].cid /\ new.pc = "confirm"
          /\ new.target = job[c].target /\ new.res = job[c].res /\ new.tries = job[c].tries
      BY <1>0, <2>0, <3>1, <3>2 DEF JobRecord
    <3>4. JobOK(new)
      BY <1>a, <2>0, <3>3 DEF JobOK, BeforePlace
    <3> QED
      BY <1>4, <2>0, <2>3, <3>1, <3>3, <3>4, <1>0, CallGoesOn
      DEF ReplaceConfirm, tables, others
  <2> QED
    BY <1>4, <2>1, <2>2, <2>3 DEF ReplaceConfirm
<1>5. CASE ReplaceMark(c)
  <2>0. job[c].pc = "replaced" /\ job[c].target \in Orders
          /\ orderLog[job[c].target].bid # NoBid
    BY <1>a, <1>5 DEF ReplaceMark, At, JobOK
  <2>1. /\ \A o \in Orders : orderLog'[o].bid = orderLog[o].bid
        /\ \A o \in Orders : orderLog'[o] = orderLog[o]
             \/ (orderLog'[o].status = "cancelled" /\ orderLog[o].bid # NoBid)
    BY <1>0, <1>5, <2>0 DEF ReplaceMark, TypeOK, RowRecord
  <2>2. BookKept /\ LogKept /\ RowsOK'
    BY <1>0, <1>5, <2>1, NothingKept
    DEF ReplaceMark, LogKept, RowsOK, NoRow, Working
  <2>3. PICK new : new = [job[c] EXCEPT !.pc = "clamp", !.polls = 0]
    OBVIOUS
  <2>4. new \in JobRecord /\ new.cid = job[c].cid /\ new.pc = "clamp"
          /\ new.res = job[c].res /\ new.tries = job[c].tries
    BY <1>0, <2>3, 0 \in 0..MaxPolls DEF JobRecord, Labels
  <2>5. JobOK(new)
    BY <1>a, <2>0, <2>4 DEF JobOK, BeforePlace
  <2> QED
    BY <1>5, <2>0, <2>2, <2>3, <2>4, <2>5, <1>0, CallGoesOn DEF ReplaceMark, others
<1>6. CASE Clamp(c)
  <2>0. BookKept /\ LogKept /\ RowsOK' /\ job[c].pc = "clamp"
    BY <1>0, <1>6, NothingKept, RowsKept DEF Clamp, tables, At
  <2>1. CASE Goto(c, "place")
    <3>1. JobOK([job[c] EXCEPT !.pc = "place"])
      BY <1>0, <1>a, <2>0 DEF JobOK, JobRecord, BeforePlace
    <3> QED
      BY <1>6, <2>0, <2>1, <3>1, <1>0, CallGoesTo DEF Clamp, tables, others, Labels
  <2>2. CASE Return(c)
    BY <1>6, <2>0, <2>2, <1>0, CallReturns DEF Clamp, tables, others
  <2>3. ASSUME held > 0,
               NEW q \in {held} \cup (({job[c].qty}) \cap 1..held),
               Set(c, [job[c] EXCEPT !.pc = "place", !.qty = q])
        PROVE  IndInv'
    <3>1. PICK new : new = [job[c] EXCEPT !.pc = "place", !.qty = q]
      OBVIOUS
    <3>2. q \in Nat
      BY <2>3, <1>0 DEF TypeOK
    <3>3. new \in JobRecord /\ new.cid = job[c].cid /\ new.pc = "place"
          /\ new.res = job[c].res /\ new.tries = job[c].tries
      BY <1>0, <3>1, <3>2 DEF JobRecord, Labels
    <3>4. JobOK(new)
      BY <1>a, <2>0, <3>3 DEF JobOK, BeforePlace
    <3> QED
      BY <1>6, <2>0, <2>3, <3>1, <3>3, <3>4, <1>0, CallGoesOn DEF Clamp, tables, others
  <2> QED
    BY <1>6, <2>1, <2>2, <2>3 DEF Clamp
<1>7. CASE Skip(c)
  <2>1. BookKept /\ LogKept /\ RowsOK' /\ job[c].pc = "place"
    BY <1>0, <1>7, NothingKept, RowsKept DEF Skip, tables, At
  <2> QED
    BY <1>7, <2>1, <1>0, CallReturns DEF Skip, tables, others
<1> QED
  BY <1>1, <1>2, <1>3, <1>4, <1>5, <1>6, <1>7

\* What a call goes on with once the venue has, or may have, taken its order.
LEMMA AfterAccept ==
  ASSUME IndInv, TypeOK', NEW c \in Callers, At(c, "place"), Accept(c),
         UNCHANGED <<booked, orderLog>>
  PROVE  /\ \A d \in Callers \ {c} : job[d].pc # "idle" => Keeps(job[d].cid)
         /\ VenueOK'
         /\ \A p \in Placements : p[1] = job[c].cid /\ book'[p].state # "none" =>
              p[2] <= job[c].tries + 1
<1>0. /\ TypeOK /\ VenueOK /\ JobOK(job[c]) /\ job[c] \in JobRecord
      /\ job[c].tries \in Nat
  BY DEF IndInv, TypeOK, JobsOK, At, JobRecord
<1>1. book[Attempt(c)].state = "none"
  <2>1. Attempt(c) \in Placements /\ Attempt(c)[1] = job[c].cid
          /\ Attempt(c)[2] = job[c].tries + 1
    BY AcceptFacts
  <2>2. \A p \in PlacedFor(job[c].cid) : p[2] <= job[c].tries
    BY <1>0 DEF JobOK, BeforePlace, At
  <2>3. Attempt(c) \notin PlacedFor(job[c].cid)
    BY <1>0, <2>1, <2>2
  <2> QED
    BY <2>1, <2>3 DEF PlacedFor
<1>2. ASSUME NEW p \in Placements
      PROVE  \/ book'[p] = book[p]
             \/ p = Attempt(c) /\ book'[p].state # "none" /\ book'[p].filled = 0
  BY AcceptFacts, <1>0 DEF TypeOK, NewOrder
<1>3. \A p \in Placements : book[p].filled \in Nat /\ booked[p] \in Nat
  BY <1>0 DEF TypeOK, BookRecord
<1>4. book[Attempt(c)].filled = 0 /\ booked[Attempt(c)] = 0
  BY <1>0, <1>1, AcceptFacts DEF VenueOK, JobOK
<1>5. ASSUME NEW d \in Callers \ {c}, job[d].pc # "idle"
      PROVE  Keeps(job[d].cid)
  <2>1. job[d].cid # job[c].cid
    BY <1>5 DEF IndInv, OwnIds, At
  <2> QED
    BY <1>1, <1>2, <1>3, <1>4, <2>1, AcceptFacts DEF Keeps
<1>6. VenueOK'
  BY <1>0, <1>2, <1>3, <1>4 DEF VenueOK
<1>7. ASSUME NEW p \in Placements, p[1] = job[c].cid, book'[p].state # "none"
      PROVE  p[2] <= job[c].tries + 1
  <2>1. CASE book'[p] = book[p]
    <3>1. p[2] <= job[c].tries
      BY <1>0, <1>7, <2>1 DEF JobOK, BeforePlace, At, PlacedFor
    <3>2. p[2] \in Nat
      BY DEF Placements
    <3> QED
      BY <1>0, <3>1, <3>2
  <2>2. CASE p = Attempt(c)
    BY <1>0, <2>2, AcceptFacts
  <2> QED
    BY <1>2, <2>1, <2>2
<1> QED
  BY <1>5, <1>6, <1>7

\* A call that goes on after the venue has, or may have, taken its order.
LEMMA CallPlaced ==
  ASSUME IndInv, TypeOK', NEW c \in Callers, At(c, "place"), Accept(c),
         NEW new \in JobRecord, Set(c, new), new.pc = "idle" \/ JobOK(new)',
         new.pc # "idle" => new.cid = job[c].cid,
         UNCHANGED <<tables, rec, swp>>
  PROVE  IndInv'
<1>1. new.pc # "idle" =>
        \A d \in Callers \ {c} : job[d].pc # "idle" => job[d].cid # new.cid
  BY DEF IndInv, OwnIds, At
<1>2. /\ \A d \in Callers \ {c} : job[d].pc # "idle" => Keeps(job[d].cid)
      /\ VenueOK' /\ RowsOK'
  BY AfterAccept, RowsKept DEF tables, IndInv
<1> QED
  BY <1>1, <1>2, CallerStep DEF tables

LEMMA InvPlace ==
  ASSUME IndInv, NEW c \in Callers,
         PlaceAccepted(c) \/ PlaceRejected(c) \/ PlaceRaises(c)
  PROVE  IndInv'
<1>0. /\ TypeOK /\ TypeOK' /\ RowsOK /\ job[c] \in JobRecord /\ JobOK(job[c])
      /\ At(c, "place")
  BY TypeFromPlace
  DEF IndInv, TypeOK, JobsOK, PlaceAccepted, PlaceRejected, PlaceRaises, At
<1>1. CASE PlaceAccepted(c)
  <2>1. ASSUME NEW r \in Results, r.bid \in Placements, r.bid[1] = job[c].cid,
               book'[r.bid].state # "none", r.filled <= book'[r.bid].filled,
               Set(c, [job[c] EXCEPT !.pc = "track", !.res = r])
        PROVE  IndInv'
    <3>1. PICK new : new = [job[c] EXCEPT !.pc = "track", !.res = r]
      OBVIOUS
    <3>2. /\ new \in JobRecord /\ new.cid = job[c].cid /\ new.pc = "track"
          /\ new.res = r
      BY <1>0, <3>1 DEF JobRecord, Labels
    <3>3. ResultOK(new.res, new.cid)'
      BY <2>1, <3>2 DEF ResultOK
    <3>4. /\ new.cid \in Orders /\ orderLog'[new.cid] = NoRow
          /\ \A p \in Placements : p[1] = new.cid => booked'[p] = 0
      BY <1>0, <1>1, <3>2 DEF PlaceAccepted, tables, JobOK, At
    <3>5. JobOK(new)'
      BY <2>1, <3>2, <3>3, <3>4 DEF JobOK, BeforePlace
    <3> QED
      BY <1>0, <1>1, <2>1, <3>1, <3>2, <3>5, CallPlaced DEF PlaceAccepted, others
  <2>2. ASSUME IdempotentVenue, NEW p \in PlacedFor(job[c].cid),
               Set(c, [job[c] EXCEPT !.pc = "track", !.res = Snapshot(p)])
        PROVE  IndInv'
    <3>1. UNCHANGED book
      BY <1>1, <2>2 DEF PlaceAccepted, Accept
    <3>2. p \in Placements /\ p[1] = job[c].cid /\ book[p].state # "none"
            /\ book[p].filled \in Nat
      BY <1>0 DEF PlacedFor, TypeOK, BookRecord
    <3>3. Snapshot(p) \in Results /\ Snapshot(p).filled = book[p].filled /\ Snapshot(p).bid = p
      BY <1>0, <3>2, SnapshotFacts DEF TypeOK
    <3>4. PICK r : r = Snapshot(p)
      OBVIOUS
    <3>5. /\ r \in Results /\ r.bid \in Placements /\ r.bid[1] = job[c].cid
          /\ book'[r.bid].state # "none" /\ r.filled <= book'[r.bid].filled
      BY <3>1, <3>2, <3>3, <3>4
    <3>6. Set(c, [job[c] EXCEPT !.pc = "track", !.res = r])
      BY <2>2, <3>4
    <3> QED
      BY <2>1, <3>5, <3>6
  <2>3. ASSUME ~(IdempotentVenue /\ PlacedFor(job[c].cid) # {}),
               Set(c, [job[c] EXCEPT !.pc = "track",
                         !.res = [status |-> "open", filled |-> 0, bid |-> Attempt(c)]])
        PROVE  IndInv'
    <3>1. PICK r : r = [status |-> "open", filled |-> 0, bid |-> Attempt(c)]
      OBVIOUS
    <3>2. r \in Results /\ r.bid = Attempt(c) /\ r.filled = 0
      BY <1>0, <1>1, <3>1, AcceptFacts DEF Results, Statuses, Working, PlaceAccepted
    <3>3. book'[r.bid].state # "none" /\ r.filled <= book'[r.bid].filled
      <4>1. Accept(c) /\ book' = [book EXCEPT ![Attempt(c)] = NewOrder(c)]
        BY <1>1, <2>3 DEF PlaceAccepted, Accept
      <4>2. Attempt(c) \in Placements /\ book'[Attempt(c)] = NewOrder(c)
        BY <1>0, <4>1, AcceptFacts DEF TypeOK
      <4> QED
        BY <3>2, <4>2 DEF NewOrder
    <3>4. r.bid \in Placements /\ r.bid[1] = job[c].cid
      BY <1>0, <1>1, <3>2, AcceptFacts DEF PlaceAccepted
    <3>5. Set(c, [job[c] EXCEPT !.pc = "track", !.res = r])
      BY <2>3, <3>1
    <3> QED
      BY <2>1, <3>2, <3>3, <3>4, <3>5
  <2> QED
    BY <1>1, <2>2, <2>3 DEF PlaceAccepted
<1>2. CASE PlaceRejected(c)
  <2>1. PICK new : new = [job[c] EXCEPT !.pc = "log", !.res = Rejected]
    OBVIOUS
  <2>2. /\ new \in JobRecord /\ new.cid = job[c].cid /\ new.pc = "log"
        /\ new.res = Rejected
    BY <1>0, <2>1, ResultTypes DEF JobRecord, Labels
  <2>3. ResultOK(new.res, new.cid) /\ ResultOK(new.res, new.cid)'
    BY <2>2 DEF ResultOK, Rejected, Working
  <2>4. JobOK(new) /\ JobOK(new)'
    BY <1>0, <1>2, <2>2, <2>3 DEF PlaceRejected, tables, JobOK, At, BeforePlace
  <2>5. CASE Accept(c)
    BY <1>0, <1>2, <2>1, <2>2, <2>4, <2>5, CallPlaced DEF PlaceRejected, Report, others
  <2>6. CASE UNCHANGED book
    <3>1. BookKept /\ LogKept /\ RowsOK'
      BY <1>0, <1>2, <2>6, NothingKept, RowsKept DEF PlaceRejected, tables
    <3> QED
      BY <1>0, <1>2, <2>1, <2>2, <2>4, <3>1, CallGoesOn
      DEF PlaceRejected, Report, others, tables, At
  <2> QED
    BY <1>2, <2>5, <2>6 DEF PlaceRejected
<1>3. CASE PlaceRaises(c)
  <2>1. CASE Return(c)
    <3>1. IdleJob \in JobRecord /\ IdleJob.pc = "idle"
      BY IdleTypes DEF IdleJob
    <3>2. CASE Accept(c)
      BY <1>0, <1>3, <2>1, <3>1, <3>2, CallPlaced DEF PlaceRaises, Return
    <3>3. CASE UNCHANGED book
      <4>1. BookKept /\ LogKept /\ RowsOK'
        BY <1>0, <1>3, <3>3, NothingKept, RowsKept DEF PlaceRaises, tables
      <4> QED
        BY <1>0, <1>3, <2>1, <4>1, CallReturns DEF PlaceRaises, tables, At
    <3> QED
      BY <1>3, <3>2, <3>3 DEF PlaceRaises
  <2>2. CASE job[c].tries < MaxRetries /\ Set(c, [job[c] EXCEPT !.tries = @ + 1])
    <3>1. PICK new : new = [job[c] EXCEPT !.tries = @ + 1]
      OBVIOUS
    <3>2. /\ new \in JobRecord /\ new.cid = job[c].cid /\ new.pc = "place"
          /\ new.res = NoResult /\ new.tries = job[c].tries + 1
      BY <1>0, <2>2, <3>1 DEF JobRecord, At, JobOK, BeforePlace
    <3>3. ResultOK(new.res, new.cid) /\ ResultOK(new.res, new.cid)'
      BY <3>2 DEF ResultOK, NoResult, Working
    <3>4. CASE Accept(c)
      <4>1. \A p \in Placements : p[1] = job[c].cid /\ book'[p].state # "none" =>
              p[2] <= job[c].tries + 1
        BY <1>0, <1>3, <3>4, AfterAccept DEF PlaceRaises, tables
      <4>2. \A p \in PlacedFor(new.cid)' : p[2] <= new.tries
        BY <3>2, <4>1 DEF PlacedFor
      <4>3. JobOK(new)'
        BY <1>0, <1>3, <3>2, <3>3, <4>2 DEF PlaceRaises, tables, JobOK, At, BeforePlace
      <4> QED
        BY <1>0, <1>3, <2>2, <3>1, <3>2, <3>4, <4>3, CallPlaced DEF PlaceRaises
    <3>5. CASE UNCHANGED book
      <4>1. BookKept /\ LogKept /\ RowsOK'
        BY <1>0, <1>3, <3>5, NothingKept, RowsKept DEF PlaceRaises, tables
      <4>2. \A p \in PlacedFor(new.cid) : p[2] <= new.tries
        <5>1. ASSUME NEW p \in PlacedFor(new.cid) PROVE p[2] <= new.tries
          <6>1. p[2] <= job[c].tries
            BY <1>0, <3>2 DEF JobOK, BeforePlace, At
          <6>2. p[2] \in Nat /\ job[c].tries \in Nat
            BY <1>0 DEF PlacedFor, Placements, JobRecord
          <6> QED
            BY <3>2, <6>1, <6>2
        <5> QED
          BY <5>1
      <4>3. JobOK(new)
        BY <1>0, <3>2, <3>3, <4>2 DEF JobOK, At, BeforePlace
      <4> QED
        BY <1>0, <1>3, <2>2, <3>1, <3>2, <4>1, <4>3, CallGoesOn DEF PlaceRaises, tables, At
    <3> QED
      BY <1>3, <3>4, <3>5 DEF PlaceRaises
  <2> QED
    BY <1>3, <2>1, <2>2 DEF PlaceRaises
<1> QED
  BY <1>1, <1>2, <1>3

\* A report on the broker order of a call is a result the call may keep.
LEMMA ReportsOK ==
  ASSUME IndInv, NEW c \in Callers, job[c].pc \in {"track", "cancel", "final"}
  PROVE  LET p == job[c].res.bid IN
         /\ p \in Placements
         /\ Snapshot(p) \in Results /\ Snapshot(p).bid = p
         /\ ResultOK(Snapshot(p), job[c].cid)
         /\ [Rejected EXCEPT !.bid = p] \in Results
         /\ ResultOK([Rejected EXCEPT !.bid = p], job[c].cid)
<1> DEFINE p == job[c].res.bid
<1>1. /\ book \in [Placements -> BookRecord] /\ job[c].res \in Results
      /\ JobOK(job[c])
  BY DEF IndInv, TypeOK, JobsOK, JobRecord
<1>2. p \in Placements /\ p # NoBid
  BY <1>1 DEF JobOK, Results
<1>3. p[1] = job[c].cid /\ book[p].state # "none" /\ book[p].filled \in Nat
  BY <1>1, <1>2 DEF JobOK, ResultOK, BookRecord
<1>4. Snapshot(p) \in Results /\ Snapshot(p).filled = book[p].filled /\ Snapshot(p).bid = p
  BY <1>1, <1>2, SnapshotFacts
<1>5. ResultOK(Snapshot(p), job[c].cid)
  BY <1>2, <1>3, <1>4 DEF ResultOK
<1>6. PICK r : r = [Rejected EXCEPT !.bid = p]
  OBVIOUS
<1>7. r.filled = 0 /\ r.bid = p /\ r.status = "rejected"
  BY <1>6 DEF Rejected
<1>8. ResultOK(r, job[c].cid)
  BY <1>2, <1>3, <1>7 DEF ResultOK, Working
<1> QED
  BY <1>2, <1>4, <1>5, <1>6, <1>8, ResultTypes

LEMMA CallReports ==
  ASSUME IndInv, TypeOK', NEW c \in Callers, job[c].pc \in {"track", "cancel", "final"},
         NEW r \in Results, Report(c, r), ResultOK(r, job[c].cid),
         UNCHANGED <<book, tables, rec, swp>>
  PROVE  IndInv'
<1>0. TypeOK /\ RowsOK /\ job[c] \in JobRecord /\ JobOK(job[c])
  BY DEF IndInv, TypeOK, JobsOK
<1>1. BookKept /\ LogKept /\ RowsOK'
  BY <1>0, NothingKept, RowsKept DEF tables
<1>2. PICK new : new = [job[c] EXCEPT !.pc = "log", !.res = r]
  OBVIOUS
<1>3. new \in JobRecord /\ new.cid = job[c].cid /\ new.pc = "log" /\ new.res = r
  BY <1>0, <1>2 DEF JobRecord, Labels
<1>4. JobOK(new)
  BY <1>0, <1>3 DEF JobOK, BeforePlace
<1> QED
  BY <1>1, <1>2, <1>3, <1>4, CallGoesOn DEF Report, tables

\* "log" asks for less than the labels that lead to it.
LEMMA CallGoesToLog ==
  ASSUME IndInv, TypeOK', NEW c \in Callers, job[c].pc \in {"track", "cancel", "final"},
         NEW label \in {"cancel", "final", "log"}, Goto(c, label),
         BookKept, UNCHANGED <<tables, rec, swp>>
  PROVE  IndInv'
<1>0. TypeOK /\ RowsOK /\ job[c] \in JobRecord /\ JobOK(job[c])
  BY DEF IndInv, TypeOK, JobsOK
<1>1. LogKept /\ RowsOK' /\ label \in Labels
  BY <1>0, NothingKept, RowsKept DEF tables, Labels
<1>2. JobOK([job[c] EXCEPT !.pc = label])
  BY <1>0 DEF JobOK, JobRecord, BeforePlace
<1> QED
  BY <1>1, <1>2, CallGoesTo DEF tables

LEMMA InvTrack ==
  ASSUME IndInv, NEW c \in Callers,
         Poll(c) \/ Timeout(c) \/ CancelRemainder(c) \/ FinalRead(c)
  PROVE  IndInv'
<1>0. /\ TypeOK /\ TypeOK' /\ RowsOK /\ job[c] \in JobRecord
      /\ job[c].pc \in {"track", "cancel", "final"}
  BY TypeFromPlace DEF IndInv, TypeOK, Poll, Timeout, CancelRemainder, FinalRead, At
<1>1. JobOK(job[c])
  BY <1>0 DEF IndInv, JobsOK
<1>2. UNCHANGED book => BookKept
  BY <1>0, NothingKept
<1>3. CASE Poll(c)
  <2>0. /\ UNCHANGED <<book, tables, rec, swp>> /\ job[c].pc = "track"
        /\ LogKept /\ RowsOK' /\ job[c].polls + 1 \in 0..MaxPolls
    BY <1>0, <1>3, NothingKept, RowsKept DEF Poll, tables, others, At, JobRecord
  <2>1. CASE Report(c, Snapshot(job[c].res.bid))
    <3>1. PICK r : r = Snapshot(job[c].res.bid)
      OBVIOUS
    <3> QED
      BY <1>0, <2>0, <2>1, <3>1, ReportsOK, CallReports
  <2>2. CASE Report(c, [Rejected EXCEPT !.bid = job[c].res.bid])
    <3>1. PICK r : r = [Rejected EXCEPT !.bid = job[c].res.bid]
      OBVIOUS
    <3> QED
      BY <1>0, <2>0, <2>2, <3>1, ReportsOK, CallReports
  <2>3. CASE Goto(c, "log")
    BY <1>0, <1>2, <2>0, <2>3, CallGoesToLog
  <2>4. CASE Set(c, [job[c] EXCEPT !.polls = @ + 1])
    <3>1. PICK new : new = [job[c] EXCEPT !.polls = @ + 1]
      OBVIOUS
    <3>2. /\ new \in JobRecord /\ new.cid = job[c].cid /\ new.pc = "track"
          /\ new.res = job[c].res
      BY <1>0, <2>0, <3>1 DEF JobRecord
    <3>3. JobOK(new)
      BY <1>1, <2>0, <3>2 DEF JobOK, BeforePlace
    <3> QED
      BY <1>0, <1>2, <2>0, <2>4, <3>1, <3>2, <3>3, CallGoesOn DEF tables
  <2>5. CASE Set(c, [job[c] EXCEPT !.res = Snapshot(job[c].res.bid), !.polls = @ + 1])
    <3>1. PICK r : r = Snapshot(job[c].res.bid)
      OBVIOUS
    <3>2. r \in Results /\ ResultOK(r, job[c].cid) /\ r.bid # NoBid
      BY <1>0, <1>1, <2>0, <3>1, ReportsOK
    <3>3. PICK new : new = [job[c] EXCEPT !.res = r, !.polls = @ + 1]
      OBVIOUS
    <3>4. /\ new \in JobRecord /\ new.cid = job[c].cid /\ new.pc = "track"
          /\ new.res = r
      BY <1>0, <2>0, <3>2, <3>3 DEF JobRecord
    <3>5. JobOK(new)
      BY <1>1, <2>0, <3>2, <3>4 DEF JobOK, BeforePlace
    <3> QED
      BY <1>0, <1>2, <2>0, <2>5, <3>1, <3>3, <3>4, <3>5, CallGoesOn DEF tables
  <2> QED
    BY <1>3, <2>1, <2>2, <2>3, <2>4, <2>5 DEF Poll
<1>4. CASE Timeout(c)
  BY <1>0, <1>2, <1>4, CallGoesToLog DEF Timeout, others
<1>5. CASE CancelRemainder(c)
  <2>1. job[c].res.bid \in Placements
    BY <1>0, ReportsOK
  <2>2. BookKept
    BY <1>0, <1>2, <1>5, <2>1, CancelKept DEF CancelRemainder
  <2> QED
    BY <1>0, <1>5, <2>2, CallGoesToLog DEF CancelRemainder, others
<1>6. CASE FinalRead(c)
  <2>0. UNCHANGED <<book, tables, rec, swp>>
    BY <1>6 DEF FinalRead, others
  <2>1. CASE Report(c, Snapshot(job[c].res.bid))
    <3>1. PICK r : r = Snapshot(job[c].res.bid)
      OBVIOUS
    <3> QED
      BY <1>0, <2>0, <2>1, <3>1, ReportsOK, CallReports
  <2>2. CASE Report(c, [Rejected EXCEPT !.bid = job[c].res.bid])
    <3>1. PICK r : r = [Rejected EXCEPT !.bid = job[c].res.bid]
      OBVIOUS
    <3> QED
      BY <1>0, <2>0, <2>2, <3>1, ReportsOK, CallReports
  <2>3. CASE Goto(c, "log")
    BY <1>0, <1>2, <2>0, <2>3, CallGoesToLog
  <2> QED
    BY <1>6, <2>1, <2>2, <2>3 DEF FinalRead
<1> QED
  BY <1>3, <1>4, <1>5, <1>6

LEMMA InvWriteLog ==
  ASSUME IndInv, NEW c \in Callers, WriteLog(c)
  PROVE  IndInv'
<1>0. /\ TypeOK /\ TypeOK' /\ RowsOK /\ VenueOK /\ job[c] \in JobRecord /\ JobOK(job[c])
      /\ job[c].pc = "log" /\ UNCHANGED <<book, booked, rec, swp>>
  BY TypeFromPlace DEF IndInv, TypeOK, JobsOK, WriteLog, At, others
<1>1. BookKept
  BY <1>0, NothingKept
<1>2. /\ job[c].cid \in Orders /\ orderLog[job[c].cid] = NoRow
      /\ \A o \in Orders : o # job[c].cid => orderLog'[o] = orderLog[o]
      /\ \/ orderLog'[job[c].cid] = NoRow
         \/ /\ orderLog'[job[c].cid].status = job[c].res.status
            /\ orderLog'[job[c].cid].bid = job[c].res.bid
  BY <1>0 DEF WriteLog, JobOK, TypeOK
<1>3. RowsOK'
  BY <1>0, <1>2 DEF RowsOK, JobOK, ResultOK, NoRow, Working
<1>4. \A o \in Orders : orderLog[o].bid # NoBid => orderLog'[o].bid # NoBid
  BY <1>2 DEF NoRow
<1>5. PICK new : new = [job[c] EXCEPT !.pc = "book"]
  OBVIOUS
<1>6. new \in JobRecord /\ new.cid = job[c].cid /\ new.pc = "book" /\ new.res = job[c].res
  BY <1>0, <1>5 DEF JobRecord, Labels
<1>7. JobOK(new)'
  BY <1>0, <1>6 DEF JobOK, ResultOK, BeforePlace
<1>8. \A d \in Callers \ {c} : job[d].pc # "idle" => job[d].cid # job[c].cid
  BY <1>0 DEF IndInv, OwnIds
<1>9. \A d \in Callers \ {c} : job[d].pc # "idle" => Keeps(job[d].cid)
  <2>1. ASSUME NEW d \in Callers \ {c}, job[d].pc # "idle"
        PROVE  Keeps(job[d].cid)
    <3>1. job[d].cid \in Orders /\ job[d].cid # job[c].cid
      BY <1>8, <2>1 DEF IndInv, JobsOK, JobOK
    <3> QED
      BY <1>0, <1>1, <1>2, <1>4, <3>1 DEF Keeps, BookKept
  <2> QED
    BY <2>1
<1>10. VenueOK'
  BY <1>0, <1>1, VenueKept
<1> QED
  BY <1>0, <1>3, <1>4, <1>5, <1>6, <1>7, <1>8, <1>9, <1>10, CallerStep DEF WriteLog, Goto

LEMMA InvBook ==
  ASSUME IndInv, NEW c \in Callers, Book(c)
  PROVE  IndInv'
<1>0. /\ TypeOK /\ TypeOK' /\ RowsOK /\ VenueOK /\ job[c].res \in Results /\ JobOK(job[c])
      /\ job[c].pc = "book" /\ UNCHANGED <<book, orderLog, rec, swp>>
  BY TypeFromPlace DEF IndInv, TypeOK, JobsOK, Book, At, others, JobRecord
<1>1. BookKept /\ RowsOK'
  BY <1>0, NothingKept, RowsKept
<1>2. IdleJob \in JobRecord /\ IdleJob.pc = "idle"
  BY IdleTypes DEF IdleJob
<1>3. /\ VenueOK'
      /\ \A p \in Placements : p[1] # job[c].cid => booked'[p] = booked[p]
  <2>1. CASE UNCHANGED booked
    BY <1>0, <1>1, <2>1, VenueKept
  <2>2. CASE Recordable(job[c].res)
               /\ booked' = [booked EXCEPT ![job[c].res.bid] = @ + job[c].res.filled]
    <3>1. job[c].res.bid \in Placements /\ job[c].res.bid # NoBid
      BY <1>0, <2>2 DEF Recordable, JobOK, ResultOK, Results
    <3>2. /\ job[c].res.bid[1] = job[c].cid
          /\ job[c].res.filled <= book[job[c].res.bid].filled
          /\ booked[job[c].res.bid] = 0
      BY <1>0, <3>1 DEF JobOK, ResultOK
    <3>3. /\ booked'[job[c].res.bid] = job[c].res.filled
          /\ \A p \in Placements : p # job[c].res.bid => booked'[p] = booked[p]
      BY <1>0, <2>2, <3>1, <3>2 DEF TypeOK, Results
    <3> QED
      BY <1>0, <3>1, <3>2, <3>3 DEF VenueOK
  <2> QED
    BY <2>1, <2>2 DEF Book
<1>4. \A d \in Callers \ {c} : job[d].pc # "idle" => Keeps(job[d].cid)
  <2>1. \A d \in Callers \ {c} : job[d].pc # "idle" => job[d].cid # job[c].cid
    BY <1>0 DEF IndInv, OwnIds
  <2> QED
    BY <1>0, <1>1, <1>3, <2>1 DEF Keeps, BookKept
<1> QED
  BY <1>0, <1>1, <1>2, <1>3, <1>4, CallerStep DEF Book, Return

LEMMA InvElsewhere ==
  ASSUME IndInv,
         \/ Reconcile \/ Sweep \/ KillSwitch \/ Venue
         \/ (\E o \in Orders : Age(o)) \/ Crash
  PROVE  IndInv'
<1>0. /\ TypeOK /\ TypeOK' /\ RowsOK /\ TasksOK
      /\ orderLog \in [Orders -> RowRecord] /\ book \in [Placements -> BookRecord]
  BY TypeElsewhere DEF IndInv, TypeOK
<1>a. UNCHANGED book => BookKept
  BY <1>0, NothingKept
<1>b. UNCHANGED orderLog => LogKept /\ RowsOK'
  BY <1>0, NothingKept, RowsKept
<1>c. rec.pc # "idle" => rec.row \in Orders /\ orderLog[rec.row].bid \in Placements
  BY <1>0 DEF TasksOK, RowRecord
<1>d. swp.pc # "idle" => swp.row \in Orders /\ orderLog[swp.row].bid \in Placements
  BY <1>0 DEF TasksOK, RowRecord
<1>e. rec \in RecType
  BY <1>0 DEF TypeOK
<1>f. /\ RecSet(IdleRec) => rec'.pc = "idle"
      /\ RecSet([rec EXCEPT !.pc = "cancel"]) => rec'.row = rec.row
  BY <1>e DEF RecSet, IdleRec, RecType
<1>g. ASSUME NEW s, NEW f, RecWriteNext(s, f)
      PROVE  rec'.row = rec.row
  <2>1. PICK r : r = [status |-> s, filled |-> f, bid |-> NoBid]
    OBVIOUS
  <2>2. rec' = [rec EXCEPT !.pc = "write", !.res = r]
    BY <1>g, <2>1 DEF RecWriteNext, RecSet
  <2> QED
    BY <1>e, <2>2 DEF RecType
<1>1. ASSUME NEW o \in Orders, RecPick(o) PROVE IndInv'
  <2>1. TasksOK'
    BY <1>0, <1>1 DEF RecPick, RecSet, IdleRec, TasksOK, RowsOK, tables
  <2> QED
    BY <1>0, <1>a, <1>b, <1>1, <2>1, BackgroundStep DEF RecPick, tables
<1>2. CASE RecRead
  <2>1. rec'.pc = "idle" \/ rec'.row = rec.row
    <3>1. \/ \E s, f : RecWriteNext(s, f)
          \/ RecSet([rec EXCEPT !.pc = "cancel"])
          \/ RecSet(IdleRec)
      BY <1>2 DEF RecRead
    <3> QED
      BY <1>f, <1>g, <3>1
  <2>2. TasksOK'
    BY <1>0, <1>2, <2>1 DEF RecRead, TasksOK, tables
  <2> QED
    BY <1>0, <1>a, <1>b, <1>2, <2>2, BackgroundStep DEF RecRead, tables
<1>3. CASE RecCancel
  <2>1. rec'.pc = "idle" \/ rec'.row = rec.row
    <3>1. RecWriteNext("cancelled", 0) \/ RecSet(IdleRec)
      BY <1>3 DEF RecCancel
    <3> QED
      BY <1>f, <1>g, <3>1
  <2>2. TasksOK'
    BY <1>0, <1>3, <2>1 DEF RecCancel, TasksOK, tables
  <2>3. BookKept
    BY <1>0, <1>a, <1>c, <1>3, CancelKept DEF RecCancel
  <2> QED
    BY <1>0, <1>b, <1>3, <2>2, <2>3, BackgroundStep DEF RecCancel, tables
<1>4. CASE RecWrite
  <2>1. /\ \A o \in Orders : orderLog'[o].bid = orderLog[o].bid
        /\ \A o \in Orders : orderLog'[o] = orderLog[o] \/ orderLog[o].bid # NoBid
    BY <1>0, <1>c, <1>4 DEF RecWrite, RowRecord
  <2>2. LogKept /\ RowsOK'
    BY <1>0, <2>1, NoRowFacts DEF LogKept, RowsOK
  <2>3. TasksOK'
    BY <1>0, <1>4, <2>1 DEF RecWrite, RecSet, IdleRec, TasksOK
  <2> QED
    BY <1>0, <1>a, <1>4, <2>2, <2>3, BackgroundStep DEF RecWrite
<1>5. CASE SwpPick
  <2>1. TasksOK'
    BY <1>0, <1>5 DEF SwpPick, IdleSwp, TasksOK, tables
  <2> QED
    BY <1>0, <1>a, <1>b, <1>5, <2>1, BackgroundStep DEF SwpPick, tables
<1>6. CASE SwpCancel
  <2>1. swp'.pc = "idle" \/ swp'.row = swp.row
    BY <1>0, <1>6 DEF SwpCancel, IdleSwp, TypeOK, SwpType
  <2>2. TasksOK'
    BY <1>0, <1>6, <2>1 DEF SwpCancel, TasksOK, tables
  <2>3. BookKept
    BY <1>0, <1>a, <1>d, <1>6, CancelKept DEF SwpCancel
  <2> QED
    BY <1>0, <1>b, <1>6, <2>2, <2>3, BackgroundStep DEF SwpCancel, tables
<1>7. CASE SwpConfirm
  <2>1. swp'.pc = "idle" \/ swp'.row = swp.row
    BY <1>0, <1>7 DEF SwpConfirm, IdleSwp, TypeOK, SwpType
  <2>2. TasksOK'
    BY <1>0, <1>7, <2>1 DEF SwpConfirm, TasksOK, tables
  <2> QED
    BY <1>0, <1>a, <1>b, <1>7, <2>2, BackgroundStep DEF SwpConfirm, tables
<1>8. CASE SwpWrite
  <2>1. /\ \A o \in Orders : orderLog'[o].bid = orderLog[o].bid
        /\ \A o \in Orders : orderLog'[o] = orderLog[o] \/ orderLog[o].bid # NoBid
    BY <1>0, <1>d, <1>8 DEF SwpWrite, RowRecord
  <2>2. LogKept /\ RowsOK'
    BY <1>0, <2>1, NoRowFacts DEF LogKept, RowsOK
  <2>3. TasksOK'
    BY <1>0, <1>8, <2>1 DEF SwpWrite, IdleSwp, TasksOK
  <2> QED
    BY <1>0, <1>a, <1>8, <2>2, <2>3, BackgroundStep DEF SwpWrite
<1>9. CASE KillCommand \/ KillList \/ ResetKill
  <2>1. UNCHANGED <<book, tables, job, rec, swp>>
    BY <1>9 DEF KillCommand, KillList, ResetKill, tables
  <2>2. TasksOK'
    BY <1>0, <2>1 DEF TasksOK, tables
  <2> QED
    BY <1>0, <1>a, <1>b, <2>1, <2>2, BackgroundStep DEF tables
<1>10. CASE KillCancel
  <2>1. \A p \in kill.todo : p \in Placements
    BY <1>0 DEF TypeOK, KillType
  <2>2. BookKept
    BY <1>0, <1>a, <1>10, <2>1, CancelKept DEF KillCancel
  <2>3. TasksOK'
    BY <1>0, <1>10 DEF KillCancel, TasksOK, tables
  <2> QED
    BY <1>0, <1>b, <1>10, <2>2, <2>3, BackgroundStep DEF KillCancel, tables
<1>11. ASSUME NEW p \in Placements, VenueFill(p) \/ VenueCancel(p) PROVE IndInv'
  <2>0. book[p].filled \in Nat /\ \A q \in Placements : book[q].filled \in Nat
    BY <1>0 DEF BookRecord
  <2>1. /\ \A q \in Placements : q # p => book'[q] = book[q]
        /\ book[p].state = "working" /\ book'[p].state # "none"
        /\ book'[p].filled \in {book[p].filled, book[p].filled + 1}
    BY <1>0, <1>11 DEF VenueFill, VenueCancel, BookRecord
  <2>2. BookKept
    BY <2>0, <2>1 DEF BookKept
  <2>3. TasksOK'
    BY <1>0, <1>11 DEF VenueFill, VenueCancel, TasksOK, tables, others
  <2> QED
    BY <1>0, <1>b, <1>11, <2>2, <2>3, BackgroundStep DEF VenueFill, VenueCancel, tables, others
<1>12. ASSUME NEW o \in Orders, Age(o) PROVE IndInv'
  <2>1. /\ \A q \in Orders : orderLog'[q].bid = orderLog[q].bid
        /\ \A q \in Orders : orderLog'[q].status = orderLog[q].status
        /\ \A q \in Orders : q # o => orderLog'[q] = orderLog[q]
    BY <1>0, <1>12 DEF Age, RowRecord
  <2>2. LogKept /\ RowsOK'
    BY <1>0, <1>12, <2>1, NoRowFacts DEF LogKept, RowsOK, Age, Working
  <2>3. TasksOK'
    BY <1>0, <1>12, <2>1 DEF Age, TasksOK, others
  <2> QED
    BY <1>0, <1>a, <1>12, <2>2, <2>3, BackgroundStep DEF Age, others
<1>13. CASE Crash
  <2>1. \A c \in Callers : job'[c].pc = "idle"
    BY <1>13 DEF Crash, IdleJob
  <2>2. JobsOK' /\ OwnIds'
    BY <2>1 DEF JobsOK, OwnIds
  <2>3. VenueOK' /\ RowsOK' /\ TasksOK'
    BY <1>0, <1>13 DEF Crash, tables, IndInv, VenueOK, RowsOK, TasksOK, IdleRec, IdleSwp
  <2> QED
    BY <1>0, <2>2, <2>3 DEF IndInv
<1> QED
  BY <1>1, <1>2, <1>3, <1>4, <1>5, <1>6, <1>7, <1>8, <1>9, <1>10, <1>11, <1>12, <1>13
  DEF Reconcile, RecStep, Sweep, KillSwitch, Venue

LEMMA InvStutters ==
  ASSUME IndInv, UNCHANGED vars
  PROVE  IndInv'
<1>1. TypeOK' /\ VenueOK' /\ RowsOK' /\ TasksOK' /\ OwnIds'
  BY DEF IndInv, vars, TypeOK, VenueOK, RowsOK, TasksOK, OwnIds
<1>2. JobsOK'
  BY DEF IndInv, vars, JobsOK, JobOK, ResultOK, PlacedFor
<1> QED
  BY <1>1, <1>2 DEF IndInv

LEMMA StepInv == IndInv /\ [Next]_vars => IndInv'
<1> SUFFICES ASSUME IndInv, [Next]_vars PROVE IndInv'
  OBVIOUS
<1>1. ASSUME NEW c \in Callers, Execute(c) PROVE IndInv'
  <2>1. CASE Refuse(c)
    BY <2>1, InvStutters DEF Refuse
  <2> QED
    BY <1>1, <2>1, InvBeforePlace, InvPlace, InvTrack, InvWriteLog, InvBook DEF Execute
<1> QED
  BY <1>1, InvElsewhere, InvStutters DEF Next

\* The invariant the safety theorems rest on.
THEOREM Invariance == Spec => []IndInv
<1> QED
  BY InitInv, StepInv, PTL DEF Spec

\* Every variable keeps its type, for every number of callers and orders.
THEOREM TypeCorrect == Spec => []TypeOK
<1>1. IndInv => TypeOK
  BY DEF IndInv
<1> QED
  BY <1>1, Invariance, PTL

\* The ledger never holds more of a broker order than the order traded, with
\* every failure, every retry count and every number of concurrent calls.
THEOREM NothingOverbooked == Spec => []BookedOnlyWhatTraded
<1>1. IndInv => BookedOnlyWhatTraded
  BY DEF IndInv, VenueOK, BookedOnlyWhatTraded
<1> QED
  BY <1>1, Invariance, PTL

----------------------------------------------------------------------------
(* What a step does to the venue's book and to the ledger *)

Steady ==
  /\ UNCHANGED booked
  /\ \A p \in Placements : /\ book'[p].filled = book[p].filled
                           /\ book'[p].state = "none" <=> book[p].state = "none"

LEMMA CancelIsSteady ==
  ASSUME TypeOK, NEW p \in Placements, CancelRequest(p), UNCHANGED booked
  PROVE  Steady
  BY DEF Steady, CancelRequest, TypeOK, BookRecord

\* Orders appear by Accept, trade by VenueFill and are booked by Book, each
\* alone; no other step of the system touches any of the three.
LEMMA StepClasses ==
  ASSUME IndInv, [Next]_vars
  PROVE  \/ Steady
         \/ \E c \in Callers : At(c, "place") /\ Accept(c) /\ UNCHANGED booked
         \/ \E p \in Placements : VenueFill(p)
         \/ \E c \in Callers : Book(c)
<1> DEFINE Goal == \/ Steady
                   \/ \E c \in Callers : At(c, "place") /\ Accept(c) /\ UNCHANGED booked
                   \/ \E p \in Placements : VenueFill(p)
                   \/ \E c \in Callers : Book(c)
<1> SUFFICES Goal
  OBVIOUS
<1>0. TypeOK
  BY DEF IndInv
<1>1. UNCHANGED <<book, booked>> => Goal
  BY DEF Steady
<1>2. ASSUME NEW p \in Placements, CancelRequest(p), UNCHANGED booked
      PROVE  Goal
  BY <1>0, <1>2, CancelIsSteady
<1> HIDE DEF Goal
<1>3. ASSUME NEW c \in Callers, Execute(c) PROVE Goal
  <2>0. job[c].pc # "idle" => JobOK(job[c]) /\ job[c].res \in Results
    BY <1>0 DEF IndInv, JobsOK, TypeOK, JobRecord
  <2>1. CASE ReplaceCancel(c)
    <3>1. orderLog[job[c].target].bid \in Placements
      BY <1>0, <2>0, <2>1 DEF ReplaceCancel, At, JobOK, TypeOK, RowRecord
    <3> QED
      BY <1>1, <1>2, <2>1, <3>1 DEF ReplaceCancel, tables
  <2>2. CASE CancelRemainder(c)
    <3>1. job[c].res.bid \in Placements
      BY <2>0, <2>2 DEF CancelRemainder, At, JobOK, Results
    <3> QED
      BY <1>1, <1>2, <2>2, <3>1 DEF CancelRemainder, tables
  <2>3. CASE PlaceAccepted(c) \/ PlaceRejected(c) \/ PlaceRaises(c)
    <3>1. At(c, "place") /\ (Accept(c) \/ UNCHANGED book) /\ UNCHANGED booked
      BY <2>3 DEF PlaceAccepted, PlaceRejected, PlaceRaises, tables
    <3> QED
      BY <1>1, <3>1 DEF Goal
  <2>4. CASE Book(c)
    BY <2>4 DEF Goal
  <2>5. CASE Refuse(c) \/ Approve(c) \/ Dedup(c) \/ ReplaceConfirm(c) \/ ReplaceMark(c)
    BY <1>1, <2>5 DEF Refuse, Approve, Dedup, ReplaceConfirm, ReplaceMark, tables, vars
  <2>6. CASE Clamp(c) \/ Skip(c) \/ Poll(c) \/ Timeout(c) \/ FinalRead(c) \/ WriteLog(c)
    BY <1>1, <2>6 DEF Clamp, Skip, Poll, Timeout, FinalRead, WriteLog, tables
  <2> QED
    BY <1>3, <2>1, <2>2, <2>3, <2>4, <2>5, <2>6 DEF Execute
<1>4. CASE Reconcile
  <2>1. CASE RecCancel
    <3>1. orderLog[rec.row].bid \in Placements
      BY <1>0, <2>1 DEF RecCancel, IndInv, TasksOK, TypeOK, RowRecord
    <3> QED
      BY <1>1, <1>2, <2>1, <3>1 DEF RecCancel, tables
  <2>2. CASE RecRead \/ RecWrite \/ \E o \in Orders : RecPick(o)
    BY <1>1, <2>2 DEF RecRead, RecWrite, RecPick, tables
  <2> QED
    BY <1>4, <2>1, <2>2 DEF Reconcile, RecStep
<1>5. CASE Sweep
  <2>1. CASE SwpCancel
    <3>1. orderLog[swp.row].bid \in Placements
      BY <1>0, <2>1 DEF SwpCancel, IndInv, TasksOK, TypeOK, RowRecord
    <3> QED
      BY <1>1, <1>2, <2>1, <3>1 DEF SwpCancel, tables
  <2>2. CASE SwpPick \/ SwpConfirm \/ SwpWrite
    BY <1>1, <2>2 DEF SwpPick, SwpConfirm, SwpWrite, tables
  <2> QED
    BY <1>5, <2>1, <2>2 DEF Sweep
<1>6. CASE KillSwitch
  <2>1. CASE KillCancel
    <3>1. \A p \in kill.todo : p \in Placements
      BY <1>0 DEF TypeOK, KillType
    <3> QED
      BY <1>1, <1>2, <2>1, <3>1 DEF KillCancel, tables
  <2>2. CASE KillCommand \/ KillList \/ ResetKill
    BY <1>1, <2>2 DEF KillCommand, KillList, ResetKill, tables
  <2> QED
    BY <1>6, <2>1, <2>2 DEF KillSwitch
<1>7. ASSUME NEW p \in Placements, VenueFill(p) \/ VenueCancel(p) PROVE Goal
  <2>1. CASE VenueFill(p)
    BY <2>1 DEF Goal
  <2>2. CASE VenueCancel(p)
    <3>1. Steady
      BY <1>0, <2>2 DEF Steady, VenueCancel, TypeOK, BookRecord, tables
    <3> QED
      BY <3>1 DEF Goal
  <2> QED
    BY <1>7, <2>1, <2>2
<1>8. CASE (\E o \in Orders : Age(o)) \/ Crash \/ UNCHANGED vars
  BY <1>1, <1>8 DEF Age, Crash, tables, vars
<1>9. Goal
  BY <1>3, <1>4, <1>5, <1>6, <1>7, <1>8 DEF Next, Venue
<1> QED
  BY <1>9 DEF Goal

\* With an adapter that looks the client id up before it sends, the retry loop
\* never leaves two broker orders of one client id, whatever reply is lost.
THEOREM RetriesAreIdempotent ==
  IdempotentVenue => (Spec => []OnePlacementPerClientId)
<1> SUFFICES ASSUME IdempotentVenue PROVE Spec => []OnePlacementPerClientId
  OBVIOUS
<1>1. Init => OnePlacementPerClientId
  BY DEF Init, OnePlacementPerClientId, PlacedFor, NoPlacement
<1>2. IndInv /\ OnePlacementPerClientId /\ [Next]_vars => OnePlacementPerClientId'
  <2> SUFFICES ASSUME IndInv, OnePlacementPerClientId, [Next]_vars
               PROVE  OnePlacementPerClientId'
    OBVIOUS
  <2>0. TypeOK
    BY DEF IndInv
  <2>1. ASSUME \A o \in Orders : \A p \in PlacedFor(o)' : p \in PlacedFor(o)
        PROVE  OnePlacementPerClientId'
    BY <2>1 DEF OnePlacementPerClientId
  <2>2. CASE Steady
    BY <2>1, <2>2 DEF Steady, PlacedFor
  <2>3. ASSUME NEW c \in Callers, At(c, "place"), Accept(c)
        PROVE  OnePlacementPerClientId'
    <3>1. CASE UNCHANGED book
      BY <2>1, <3>1 DEF PlacedFor
    <3>2. CASE PlacedFor(job[c].cid) = {}
                 /\ book' = [book EXCEPT ![Attempt(c)] = NewOrder(c)]
      <4>1. \A p \in Placements : p # Attempt(c) => book'[p] = book[p]
        BY <2>0, <3>2 DEF TypeOK
      <4>2. Attempt(c)[1] = job[c].cid
        BY <2>3, AcceptFacts
      <4>3. ASSUME NEW o \in Orders, NEW p \in PlacedFor(o)', NEW q \in PlacedFor(o)'
            PROVE  p = q
        <5>1. /\ p \in Placements /\ p[1] = o /\ book'[p].state # "none"
              /\ q \in Placements /\ q[1] = o /\ book'[q].state # "none"
          BY DEF PlacedFor
        <5>2. CASE o = job[c].cid
          BY <3>2, <4>1, <5>1, <5>2 DEF PlacedFor
        <5>3. CASE o # job[c].cid
          BY <4>1, <4>2, <5>1, <5>3 DEF PlacedFor, OnePlacementPerClientId
        <5> QED
          BY <5>2, <5>3
      <4> QED
        BY <4>3 DEF OnePlacementPerClientId
    <3> QED
      BY <2>3, <3>1, <3>2 DEF Accept
  <2>4. CASE \E p \in Placements : VenueFill(p)
    <3>1. \A p \in Placements : book'[p].state # "none" => book[p].state # "none"
      BY <2>0, <2>4 DEF VenueFill, TypeOK
    <3> QED
      BY <2>1, <3>1 DEF PlacedFor
  <2>5. CASE \E c \in Callers : Book(c)
    BY <2>1, <2>5 DEF Book, PlacedFor
  <2> QED
    BY <2>2, <2>3, <2>4, <2>5, StepClasses
<1> QED
  BY <1>1, <1>2, Invariance, PTL DEF Spec

----------------------------------------------------------------------------
(* Execution implements the promise of the ledger *)

Traded == [p \in Placements |-> book[p].filled]

\* An order that appears has traded nothing.
LEMMA AcceptTradesNothing ==
  ASSUME IndInv, NEW c \in Callers, At(c, "place"), Accept(c)
  PROVE  UNCHANGED Traded
<1>0. TypeOK /\ VenueOK /\ JobOK(job[c]) /\ job[c].tries \in Nat
  BY DEF IndInv, TypeOK, JobsOK, At, JobRecord
<1>1. book[Attempt(c)].state = "none"
  <2>1. \A p \in PlacedFor(job[c].cid) : p[2] <= job[c].tries
    BY <1>0 DEF JobOK, BeforePlace, At
  <2>2. Attempt(c) \notin PlacedFor(job[c].cid)
    BY <1>0, <2>1, AcceptFacts
  <2> QED
    BY <2>2, AcceptFacts DEF PlacedFor
<1>2. book[Attempt(c)].filled = 0
  BY <1>0, <1>1, AcceptFacts DEF VenueOK
<1>3. \A p \in Placements : book'[p].filled = book[p].filled
  BY <1>0, <1>2, AcceptFacts DEF TypeOK, NewOrder
<1> QED
  BY <1>3 DEF Traded

LEMMA BookingStep == IndInv /\ [Next]_vars => [Booking!Next]_<<Traded, booked>>
<1> SUFFICES ASSUME IndInv, [Next]_vars
             PROVE  Booking!Next \/ UNCHANGED <<Traded, booked>>
  OBVIOUS
<1>0. TypeOK /\ book \in [Placements -> BookRecord] /\ booked \in [Placements -> Nat]
  BY DEF IndInv, TypeOK
<1>1. CASE Steady
  BY <1>1 DEF Steady, Traded
<1>2. ASSUME NEW c \in Callers, At(c, "place"), Accept(c), UNCHANGED booked
      PROVE  UNCHANGED <<Traded, booked>>
  BY <1>2, AcceptTradesNothing
<1>3. ASSUME NEW p \in Placements, VenueFill(p)
      PROVE  Booking!Next
  <2>1. Traded' = [Traded EXCEPT ![p] = @ + 1] /\ UNCHANGED booked
    BY <1>0, <1>3 DEF VenueFill, Traded, BookRecord, tables
  <2> QED
    BY <2>1 DEF Traded, Booking!Next, Booking!Trade
<1>4. ASSUME NEW c \in Callers, Book(c)
      PROVE  Booking!Next \/ UNCHANGED <<Traded, booked>>
  <2>1. UNCHANGED Traded
    BY <1>4 DEF Book, Traded
  <2>2. CASE UNCHANGED booked
    BY <2>1, <2>2
  <2>3. CASE Recordable(job[c].res)
               /\ booked' = [booked EXCEPT ![job[c].res.bid] = @ + job[c].res.filled]
    <3> DEFINE r == job[c].res
    <3>1. JobOK(job[c]) /\ r \in Results
      BY <1>0, <1>4 DEF Book, At, IndInv, JobsOK, TypeOK, JobRecord
    <3>2. r.bid \in Placements /\ r.filled \in Nat /\ r.filled > 0
      BY <2>3, <3>1 DEF Recordable, JobOK, ResultOK, Results
    <3>3. booked[r.bid] = 0 /\ r.filled <= book[r.bid].filled /\ book[r.bid].filled \in Nat
      BY <1>0, <3>1, <3>2 DEF JobOK, ResultOK, BookRecord
    <3>4. r.filled \in 1..Traded[r.bid]
      BY <3>2, <3>3 DEF Traded
    <3>5. booked[r.bid] + r.filled = r.filled
      BY <3>2, <3>3
    <3>6. booked' = [booked EXCEPT ![r.bid] = r.filled]
      BY <2>3, <3>5
    <3> QED
      BY <2>1, <3>2, <3>3, <3>4, <3>6 DEF Traded, Booking!Next, Booking!Book
  <2> QED
    BY <1>4, <2>2, <2>3 DEF Book
<1> QED
  BY <1>1, <1>2, <1>3, <1>4, StepClasses

\* Every broker order is booked at most once, with a positive quantity that it
\* had traded by then: execution implements FillBooking.
THEOREM ExecutionImplementsBooking == Spec => BookingSpec
<1>1. Init => Booking!Init
  BY DEF Init, Booking!Init, NoPlacement
<1>2. IndInv /\ [Next]_vars => [Booking!Next]_<<Traded, booked>>
  BY BookingStep
<1> QED
  BY <1>1, <1>2, Invariance, PTL DEF Spec, BookingSpec, Booking!Spec, Traded

----------------------------------------------------------------------------
(* Calls run down *)

LEMMA StepsLeftAt ==
  ASSUME NEW j \in JobRecord
  PROVE  /\ StepsLeft(j) \in Nat
         /\ j.pc = "idle" <=> StepsLeft(j) = 0
         /\ j.pc = "book" => StepsLeft(j) = 1
         /\ j.pc = "log" => StepsLeft(j) = 2
         /\ j.pc = "final" => StepsLeft(j) = 3
         /\ j.pc = "cancel" => StepsLeft(j) = 4
         /\ j.pc = "track" => StepsLeft(j) = 5 + (MaxPolls - j.polls)
         /\ j.pc = "place" => StepsLeft(j) = 6 + MaxPolls + (MaxRetries - j.tries)
         /\ j.pc = "clamp" => StepsLeft(j) = 7 + MaxPolls + MaxRetries
         /\ j.pc = "replaced" => StepsLeft(j) = 8 + MaxPolls + MaxRetries
         /\ j.pc = "confirm" =>
              StepsLeft(j) = 9 + MaxPolls + MaxRetries + (MaxPolls - j.polls)
         /\ j.pc = "replace" => StepsLeft(j) = 10 + 2 * MaxPolls + MaxRetries
         /\ j.pc = "dedup" => StepsLeft(j) = 11 + 2 * MaxPolls + MaxRetries
<1>1. /\ j.pc \in Labels /\ j.polls \in 0..MaxPolls /\ j.tries \in 0..MaxRetries
      /\ MaxPolls \in Nat /\ MaxRetries \in Nat
  BY DEF JobRecord
<1> QED
  BY <1>1 DEF StepsLeft, Labels

\* Where each step of a call leads.
LEMMA CallLabels ==
  ASSUME TypeOK, NEW c \in Callers, Execute(c), ~At(c, "idle"),
         NEW j, j = job[c], NEW n, n = job'[c]
  PROVE  /\ \A d \in Callers \ {c} : job'[d] = job[d]
         /\ \/ n.pc = "idle"
            \/ j.pc = "dedup" /\ n.pc \in {"clamp", "replace"}
            \/ j.pc = "replace" /\ n.pc = "confirm"
            \/ j.pc = "confirm" /\ n.pc = "replaced"
            \/ j.pc = "confirm" /\ n.pc = "confirm" /\ n.polls = j.polls + 1
            \/ j.pc = "replaced" /\ n.pc = "clamp"
            \/ j.pc = "clamp" /\ n.pc = "place"
            \/ j.pc = "place" /\ n.pc \in {"track", "log"}
            \/ j.pc = "place" /\ n.pc = "place" /\ n.tries = j.tries + 1
            \/ j.pc = "track" /\ n.pc \in {"cancel", "log"}
            \/ j.pc = "track" /\ n.pc = "track" /\ n.polls = j.polls + 1
            \/ j.pc = "cancel" /\ n.pc \in {"final", "log"}
            \/ j.pc = "final" /\ n.pc = "log"
            \/ j.pc = "log" /\ n.pc = "book"
<1>0. j \in JobRecord /\ job \in [Callers -> JobRecord]
  BY DEF TypeOK
<1>1. ASSUME NEW new, Set(c, new)
      PROVE  n = new /\ \A d \in Callers \ {c} : job'[d] = job[d]
  BY <1>0, <1>1 DEF Set
<1>2. ASSUME NEW label, Goto(c, label)
      PROVE  n.pc = label /\ \A d \in Callers \ {c} : job'[d] = job[d]
  <2>1. n = [j EXCEPT !.pc = label] /\ \A d \in Callers \ {c} : job'[d] = job[d]
    BY <1>1, <1>2 DEF Goto
  <2> QED
    BY <1>0, <2>1 DEF JobRecord
<1>3. ASSUME NEW r, Report(c, r)
      PROVE  n.pc = "log" /\ \A d \in Callers \ {c} : job'[d] = job[d]
  <2>1. n = [j EXCEPT !.pc = "log", !.res = r] /\ \A d \in Callers \ {c} : job'[d] = job[d]
    BY <1>1, <1>3 DEF Report
  <2> QED
    BY <1>0, <2>1 DEF JobRecord
<1>4. ASSUME Return(c)
      PROVE  n.pc = "idle" /\ \A d \in Callers \ {c} : job'[d] = job[d]
  BY <1>1, <1>4 DEF Return, IdleJob
<1> USE DEF At
<1>5. CASE Dedup(c)
  <2>1. ASSUME NEW o, Set(c, [job[c] EXCEPT !.pc = "replace", !.target = o])
        PROVE  n.pc = "replace" /\ \A d \in Callers \ {c} : job'[d] = job[d]
    <3>1. n = [j EXCEPT !.pc = "replace", !.target = o]
          /\ \A d \in Callers \ {c} : job'[d] = job[d]
      BY <1>1, <2>1
    <3> QED
      BY <1>0, <3>1 DEF JobRecord
  <2> QED
    BY <1>2, <1>4, <1>5, <2>1 DEF Dedup
<1>6. CASE ReplaceCancel(c)
  BY <1>2, <1>4, <1>6 DEF ReplaceCancel
<1>7. CASE ReplaceConfirm(c)
  <2>1. ASSUME Set(c, [job[c] EXCEPT !.polls = @ + 1])
        PROVE  n.pc = j.pc /\ n.polls = j.polls + 1
               /\ \A d \in Callers \ {c} : job'[d] = job[d]
    BY <1>0, <1>1, <2>1 DEF JobRecord
  <2> QED
    BY <1>2, <1>4, <1>7, <2>1 DEF ReplaceConfirm
<1>8. CASE ReplaceMark(c)
  <2>1. Set(c, [job[c] EXCEPT !.pc = "clamp", !.polls = 0]) /\ j.pc = "replaced"
    BY <1>8 DEF ReplaceMark
  <2>2. n = [j EXCEPT !.pc = "clamp", !.polls = 0]
        /\ \A d \in Callers \ {c} : job'[d] = job[d]
    BY <1>1, <2>1
  <2> QED
    BY <1>0, <2>1, <2>2 DEF JobRecord
<1>9. CASE Clamp(c)
  <2>1. ASSUME NEW q, Set(c, [job[c] EXCEPT !.pc = "place", !.qty = q])
        PROVE  n.pc = "place" /\ \A d \in Callers \ {c} : job'[d] = job[d]
    <3>1. n = [j EXCEPT !.pc = "place", !.qty = q]
          /\ \A d \in Callers \ {c} : job'[d] = job[d]
      BY <1>1, <2>1
    <3> QED
      BY <1>0, <3>1 DEF JobRecord
  <2>2. /\ j.pc = "clamp"
        /\ \/ Goto(c, "place") \/ Return(c)
           \/ \E q : Set(c, [job[c] EXCEPT !.pc = "place", !.qty = q])
    BY <1>9 DEF Clamp
  <2> QED
    BY <1>2, <1>4, <2>1, <2>2
<1>10. CASE PlaceAccepted(c)
  <2>1. ASSUME NEW r, Set(c, [job[c] EXCEPT !.pc = "track", !.res = r])
        PROVE  n.pc = "track" /\ \A d \in Callers \ {c} : job'[d] = job[d]
    <3>1. n = [j EXCEPT !.pc = "track", !.res = r]
          /\ \A d \in Callers \ {c} : job'[d] = job[d]
      BY <1>1, <2>1
    <3> QED
      BY <1>0, <3>1 DEF JobRecord
  <2>2. j.pc = "place" /\ \E r : Set(c, [job[c] EXCEPT !.pc = "track", !.res = r])
    BY <1>10 DEF PlaceAccepted
  <2> QED
    BY <2>1, <2>2
<1>11. CASE PlaceRaises(c)
  <2>1. ASSUME Set(c, [job[c] EXCEPT !.tries = @ + 1])
        PROVE  n.pc = j.pc /\ n.tries = j.tries + 1
               /\ \A d \in Callers \ {c} : job'[d] = job[d]
    BY <1>0, <1>1, <2>1 DEF JobRecord
  <2> QED
    BY <1>4, <1>11, <2>1 DEF PlaceRaises
<1>12. CASE Poll(c)
  <2>1. ASSUME Set(c, [job[c] EXCEPT !.polls = @ + 1])
        PROVE  n.pc = j.pc /\ n.polls = j.polls + 1
               /\ \A d \in Callers \ {c} : job'[d] = job[d]
    BY <1>0, <1>1, <2>1 DEF JobRecord
  <2>2. ASSUME NEW r, Set(c, [job[c] EXCEPT !.res = r, !.polls = @ + 1])
        PROVE  n.pc = j.pc /\ n.polls = j.polls + 1
               /\ \A d \in Callers \ {c} : job'[d] = job[d]
    <3>1. n = [j EXCEPT !.res = r, !.polls = j.polls + 1]
          /\ \A d \in Callers \ {c} : job'[d] = job[d]
      BY <1>1, <2>2
    <3> QED
      BY <1>0, <3>1 DEF JobRecord
  <2>3. /\ j.pc = "track"
        /\ \/ \E r : Report(c, r)
           \/ \E r : Set(c, [job[c] EXCEPT !.res = r, !.polls = @ + 1])
           \/ Set(c, [job[c] EXCEPT !.polls = @ + 1])
           \/ Goto(c, "log")
    BY <1>12 DEF Poll
  <2> QED
    BY <1>2, <1>3, <2>1, <2>2, <2>3
<1>13. CASE Timeout(c)
  <2>1. j.pc = "track" /\ (Goto(c, "cancel") \/ Goto(c, "log"))
    BY <1>13 DEF Timeout
  <2> QED
    BY <1>2, <2>1
<1>14. CASE FinalRead(c)
  <2>1. j.pc = "final" /\ (Goto(c, "log") \/ \E r : Report(c, r))
    BY <1>14 DEF FinalRead
  <2> QED
    BY <1>2, <1>3, <2>1
<1>15. CASE CancelRemainder(c)
  BY <1>2, <1>15 DEF CancelRemainder
<1>16. CASE WriteLog(c)
  BY <1>2, <1>16 DEF WriteLog
<1>17. CASE Skip(c) \/ PlaceRejected(c) \/ Book(c)
  BY <1>3, <1>4, <1>17 DEF Skip, PlaceRejected, Book
<1> QED
  BY <1>5, <1>6, <1>7, <1>8, <1>9, <1>10, <1>11, <1>12, <1>13, <1>14, <1>15, <1>16, <1>17
  DEF Execute, Refuse, Approve

LEMMA CallStepsDown ==
  ASSUME TypeOK, TypeOK', NEW c \in Callers, Execute(c), ~At(c, "idle")
  PROVE  /\ \A d \in Callers \ {c} : job'[d] = job[d]
         /\ StepsLeft(job'[c]) < StepsLeft(job[c])
<1>1. PICK j \in JobRecord : j = job[c]
  BY DEF TypeOK
<1>2. PICK n \in JobRecord : n = job'[c]
  BY DEF TypeOK
<1>3. /\ j.polls \in 0..MaxPolls /\ j.tries \in 0..MaxRetries /\ j.pc # "idle"
      /\ n.polls \in 0..MaxPolls /\ n.tries \in 0..MaxRetries
      /\ MaxPolls \in Nat /\ MaxRetries \in Nat
  BY <1>1 DEF JobRecord, At
<1>4. StepsLeft(n) < StepsLeft(j)
  BY <1>1, <1>2, <1>3, CallLabels, StepsLeftAt
<1> QED
  BY <1>1, <1>2, <1>4, CallLabels

\* Every call is over after at most 11 + 2 * MaxPolls + MaxRetries steps of its
\* own, whatever the venue answers, whatever fails and whoever else runs: the
\* part of "every call returns" that needs no fairness.
THEOREM CallsAreBounded == Spec => CallsRunDown
<1> DEFINE Down == \A c \in Callers :
                     ~At(c, "idle") /\ job'[c] # job[c] =>
                       StepsLeft(job'[c]) < StepsLeft(job[c])
<1>1. IndInv /\ IndInv' /\ [Next]_vars => [Down]_vars
  <2> SUFFICES ASSUME IndInv, IndInv', Next PROVE Down
    BY DEF vars
  <2>0. TypeOK /\ TypeOK'
    BY DEF IndInv
  <2>1. ASSUME NEW c \in Callers, Execute(c) PROVE Down
    <3>1. CASE At(c, "idle")
      <4>1. \A d \in Callers \ {c} : job'[d] = job[d]
        BY <2>0, <2>1, <3>1 DEF TypeOK, Execute, At, Refuse, vars, Approve, Set, Dedup,
           ReplaceCancel, ReplaceConfirm, ReplaceMark, Clamp, Skip, PlaceAccepted,
           PlaceRejected, PlaceRaises, Poll, Timeout, CancelRemainder, FinalRead,
           WriteLog, Book
      <4> QED
        BY <3>1, <4>1
    <3>2. CASE ~At(c, "idle")
      BY <2>0, <2>1, <3>2, CallStepsDown
    <3> QED
      BY <3>1, <3>2
  <2>2. CASE Crash
    <3>1. ASSUME NEW c \in Callers, ~At(c, "idle")
          PROVE  StepsLeft(job'[c]) < StepsLeft(job[c])
      <4>1. job'[c].pc = "idle" /\ job'[c] \in JobRecord /\ job[c] \in JobRecord
        BY <2>0, <2>2 DEF Crash, IdleJob, TypeOK
      <4>2. job[c].pc # "idle"
        BY <3>1 DEF At
      <4> QED
        BY <4>1, <4>2, StepsLeftAt
    <3> QED
      BY <3>1
  <2>3. CASE Reconcile \/ Sweep \/ KillSwitch \/ Venue \/ \E o \in Orders : Age(o)
    <3>1. UNCHANGED job
      BY <2>3 DEF Reconcile, RecStep, RecPick, RecRead, RecCancel, RecWrite, Sweep, SwpPick,
         SwpCancel, SwpConfirm, SwpWrite, KillSwitch, KillCommand, KillList, KillCancel,
         ResetKill, Venue, VenueFill, VenueCancel, Age
    <3> QED
      BY <3>1
  <2> QED
    BY <2>1, <2>2, <2>3 DEF Next
<1> QED
  BY <1>1, Invariance, PTL DEF Spec, CallsRunDown
=============================================================================
