------------------------- MODULE ControlPlaneProofs -------------------------
(***************************************************************************)
(* Proofs about ControlPlane for any brokers, commands, bounds, consumers  *)
(* and faults.  Three invariants, each inductive relative to the ones      *)
(* before it: the rows of the bus and the batches of the pollers, the gate *)
(* with the coverage loop, the dials.                                      *)
(***************************************************************************)
EXTENDS ControlPlane, FiniteSetTheorems, TLAPS

Command ==
  [op : {"none", "kill", "reset", "set", "toggle"}, brokers : SUBSET Brokers, value : Nat]
CommandOK(c) == c \in Command /\ (c.op = "toggle" => c.value \in {0, 1})

RowCommands ==
  Commands \cup {NoCommand} \cup [op : {"toggle", "reset"}, brokers : {{}}, value : Nat]
Statuses == {"none", "pending", "processing"} \cup Settled
RowRecord == [status : Statuses, cmd : RowCommands]
PollerRecord ==
  [pc : {"idle", "apply", "cancel", "merge", "mark", "emit", "fail"}, batch : SUBSET Ids]

\* Every set of rows has an oldest one, so that a poller always has a row at hand.
Ordered == \A S \in SUBSET (1..last) : S # {} => \E m \in S : \A n \in S : m <= n

\* Rows come after one another and a stored toggle has its place; a poller works
\* through rows that it alone has claimed, and there is none while the runner is down.
RowsInv ==
  /\ requests \in [Ids -> RowRecord]
  /\ \A i \in Ids : CommandOK(requests[i].cmd)
  /\ last \in 0..MaxRequests
  /\ toggling \in {0, 1, NoValue}
  /\ toggling # NoValue => last < MaxRequests
  /\ \A i \in Ids : i > last => requests[i] = NoRequest
  /\ poller \in [Consumers -> PollerRecord]
  /\ \A p \in Consumers : poller[p].pc = "idle" <=> poller[p].batch = {}
  /\ \A p \in Consumers : poller[p].batch \subseteq 1..last
  /\ \A p, q \in Consumers : p # q => poller[p].batch \cap poller[q].batch = {}
  /\ \A p \in Consumers : \A i \in poller[p].batch :
       /\ requests[i].status \in {"processing", "done"}
       /\ Queued(p, i) => requests[i].status = "processing"
  /\ runner \in {"down", "starting"} => \A p \in Consumers : poller[p] = Idle
  /\ runner \in {"down", "starting", "running", "recovery"}
  /\ Ordered

LEMMA Constants ==
  /\ MaxRequests \in Nat /\ MaxFailures \in Nat /\ Limit \in Nat
  /\ InBounds \subseteq Nat /\ NoValue \notin Nat /\ NoValue = -1
  /\ \A c \in Commands : CommandOK(c) /\ c.op # "none"
  /\ Everything \notin Brokers
PROOF BY ControlAssumption DEF CommandOK, Command, NoValue

----------------------------------------------------------------------------
(* The rows *)

LEMMA HeadOK ==
  ASSUME RowsInv, NEW p \in Consumers, poller[p].pc # "idle"
  PROVE  /\ Head(p) \in poller[p].batch /\ Head(p) \in Ids /\ Head(p) <= last
         /\ \A i \in poller[p].batch : Head(p) <= i
         /\ CommandOK(HeadCmd(p))
PROOF
<1>1. poller[p].batch # {} /\ poller[p].batch \subseteq 1..last /\ Ordered
  BY DEF RowsInv
<1>2. \E m \in poller[p].batch : \A n \in poller[p].batch : m <= n
  BY <1>1 DEF Ordered
<1>3. Head(p) \in poller[p].batch /\ \A i \in poller[p].batch : Head(p) <= i
  BY <1>2 DEF Head, Min
<1>4. Head(p) \in 1..last /\ last \in 0..MaxRequests
  BY <1>1, <1>3 DEF RowsInv
<1>5. Head(p) \in Ids
  BY <1>4, Constants DEF Ids
<1> QED BY <1>3, <1>4, <1>5 DEF RowsInv, HeadCmd

LEMMA OrderedNext ==
  ASSUME last \in Nat, Ordered, last' \in {last, last + 1}
  PROVE  Ordered'
PROOF
<1>1. CASE last' = last
  BY <1>1 DEF Ordered
<1>2. CASE last' = last + 1
  <2> SUFFICES ASSUME NEW S \in SUBSET (1..(last + 1)), S # {}
               PROVE  \E m \in S : \A n \in S : m <= n
    BY <1>2 DEF Ordered
  <2> DEFINE T == S \cap (1..last)
  <2>1. CASE T # {}
    <3>1. PICK m \in T : \A n \in T : m <= n BY <2>1 DEF Ordered
    <3>2. \A n \in S : n \in T \/ n = last + 1 OBVIOUS
    <3>3. \A n \in S : m <= n BY <3>1, <3>2
    <3> QED BY <3>1, <3>3
  <2>2. CASE T = {}
    <3>1. \A n \in S : n = last + 1 BY <2>2
    <3>2. PICK m \in S : TRUE OBVIOUS
    <3>3. \A n \in S : m <= n BY <3>1, <3>2
    <3> QED BY <3>2, <3>3
  <2> QED BY <2>1, <2>2
<1> QED BY <1>1, <1>2

LEMMA RoomOK ==
  ASSUME RowsInv, Room
  PROVE  /\ last + 1 \in Ids /\ last + 1 \in 0..MaxRequests
         /\ toggling # NoValue => last + 1 < MaxRequests
PROOF
<1>1. CASE toggling = NoValue
  <2>1. {toggling} \ {NoValue} = {} BY <1>1
  <2>2. Cardinality({toggling} \ {NoValue}) = 0 BY <2>1, FS_EmptySet
  <2> QED BY <1>1, <2>2, Constants DEF Room, Ids, RowsInv
<1>2. CASE toggling # NoValue
  <2>1. {toggling} \ {NoValue} = {toggling} BY <1>2
  <2>2. Cardinality({toggling} \ {NoValue}) = 1 BY <2>1, FS_Singleton
  <2> QED BY <1>2, <2>2, Constants DEF Room, Ids, RowsInv
<1> QED BY <1>1, <1>2

LEMMA RowsInit == Init => RowsInv
PROOF
<1> SUFFICES ASSUME Init PROVE RowsInv OBVIOUS
<1> USE Constants DEF Init
<1>1. NoRequest \in RowRecord /\ CommandOK(NoCommand) /\ NoRequest.cmd = NoCommand
  BY DEF NoRequest, NoCommand, RowRecord, RowCommands, Statuses, CommandOK, Command
<1>2. Idle \in PollerRecord /\ Idle.pc = "idle" /\ Idle.batch = {}
  BY DEF Idle, PollerRecord
<1>3. Ordered
  <2>1. 1..last = {} OBVIOUS
  <2> QED BY <2>1 DEF Ordered
<1>4. requests \in [Ids -> RowRecord] /\ \A i \in Ids : CommandOK(requests[i].cmd)
  BY <1>1
<1>5. poller \in [Consumers -> PollerRecord] /\ \A p \in Consumers : poller[p].batch = {} /\ poller[p].pc = "idle"
  BY <1>2
<1> QED BY <1>3, <1>4, <1>5 DEF RowsInv, NoRequest

\* A poller works on its own batch: the invariant survives if what is left of the
\* batch is in order again.
LEMMA OnePoller ==
  ASSUME RowsInv, UNCHANGED <<last, toggling, runner>>,
         NEW p \in Consumers, poller[p].pc # "idle",
         NEW rec \in PollerRecord, poller' = [poller EXCEPT ![p] = rec],
         rec.pc = "idle" <=> rec.batch = {},
         rec.batch \subseteq poller[p].batch,
         requests' \in [Ids -> RowRecord],
         \A i \in Ids : requests'[i].cmd = requests[i].cmd,
         \A i \in Ids : i \notin poller[p].batch => requests'[i] = requests[i],
         \A i \in rec.batch : /\ requests'[i].status \in {"processing", "done"}
                              /\ Queued(p, i)' => requests'[i].status = "processing"
  PROVE  RowsInv'
PROOF
<1>1. poller' \in [Consumers -> PollerRecord] /\ poller'[p] = rec
      /\ \A q \in Consumers : q # p => poller'[q] = poller[q]
  BY DEF RowsInv
<1>2. runner \notin {"down", "starting"}
  BY DEF RowsInv, Idle
<1>3. \A q \in Consumers : poller'[q].batch \subseteq poller[q].batch
  BY <1>1
<1>4. \A q \in Consumers : poller'[q].batch \subseteq 1..last'
  BY <1>3 DEF RowsInv
<1>5. \A q, r \in Consumers : q # r => poller'[q].batch \cap poller'[r].batch = {}
  BY <1>3 DEF RowsInv
<1>6. \A i \in Ids : i > last' => requests'[i] = NoRequest
  BY DEF RowsInv, Ids
<1>7. \A i \in Ids : CommandOK(requests'[i].cmd)
  BY DEF RowsInv
<1>8. \A q \in Consumers : poller'[q].pc = "idle" <=> poller'[q].batch = {}
  BY <1>1 DEF RowsInv
<1>9. ASSUME NEW q \in Consumers, NEW i \in poller'[q].batch
      PROVE  /\ requests'[i].status \in {"processing", "done"}
             /\ Queued(q, i)' => requests'[i].status = "processing"
  <2>1. CASE q = p BY <2>1, <1>1, <1>9
  <2>2. CASE q # p
    <3>1. i \in poller[q].batch /\ poller'[q] = poller[q] /\ i \notin poller[p].batch
      BY <2>2, <1>1, <1>9 DEF RowsInv
    <3>2. i \in Ids BY <3>1 DEF RowsInv, PollerRecord
    <3>3. requests'[i] = requests[i] BY <3>1, <3>2
    <3>4. Queued(q, i)' <=> Queued(q, i)
      BY <3>1 DEF Queued, Head, AtPc
    <3> QED BY <3>1, <3>3, <3>4 DEF RowsInv
  <2> QED BY <2>1, <2>2
<1>10. Ordered' BY DEF RowsInv, Ordered
<1> QED BY <1>1, <1>2, <1>4, <1>5, <1>6, <1>7, <1>8, <1>9, <1>10 DEF RowsInv


LEMMA GotoRows ==
  ASSUME RowsInv, UNCHANGED <<last, toggling, runner>>,
         NEW p \in Consumers, ~AtPc(p, "idle"),
         NEW label \in {"cancel", "merge", "mark", "emit", "fail"}, Goto(p, label),
         UNCHANGED requests \/ Mark(Head(p), "done")
  PROVE  RowsInv'
PROOF
<1> DEFINE rec == [poller[p] EXCEPT !.pc = label]
<1>1. poller[p] \in PollerRecord /\ poller[p].pc # "idle" BY DEF RowsInv, AtPc
<1>2. rec \in PollerRecord /\ rec.batch = poller[p].batch /\ rec.pc = label
  BY <1>1 DEF PollerRecord
<1>3. poller' = [poller EXCEPT ![p] = rec] BY <1>2 DEF Goto, RowsInv
<1>4. rec.batch # {} BY <1>1, <1>2 DEF RowsInv
<1>5. Head(p) \in poller[p].batch /\ Head(p) \in Ids BY <1>1, HeadOK
<1>6. /\ requests' \in [Ids -> RowRecord]
      /\ \A i \in Ids : requests'[i].cmd = requests[i].cmd
      /\ \A i \in Ids : i # Head(p) => requests'[i] = requests[i]
      /\ requests'[Head(p)].status \in {requests[Head(p)].status, "done"}
  <2>1. CASE UNCHANGED requests BY <2>1, <1>5 DEF RowsInv
  <2>2. CASE Mark(Head(p), "done")
    BY <2>2, <1>5 DEF Mark, RowsInv, RowRecord, Statuses, Settled
  <2> QED BY <2>1, <2>2
<1>7. \A i \in rec.batch : i \in poller[p].batch /\ i \in Ids
  BY <1>1, <1>2 DEF PollerRecord
<1>8. \A i \in rec.batch : requests'[i].status \in {"processing", "done"}
  BY <1>6, <1>7 DEF RowsInv
<1>9. ASSUME NEW i \in rec.batch, Queued(p, i)' PROVE requests'[i].status = "processing"
  <2>1. poller'[p] = rec BY <1>3 DEF RowsInv
  <2>2. Head(p)' = Head(p) BY <2>1, <1>2 DEF Head
  <2>3. i # Head(p) BY <1>9, <2>1, <2>2, <1>2 DEF Queued, AtPc
  <2>4. Queued(p, i) BY <2>3, <1>7, <1>9 DEF Queued
  <2> QED BY <2>3, <2>4, <1>6, <1>7, <1>9 DEF RowsInv
<1> HIDE DEF rec
<1> QED BY <1>1, <1>2, <1>3, <1>4, <1>5, <1>6, <1>8, <1>9, OnePoller

LEMMA NextRowRows ==
  ASSUME RowsInv, UNCHANGED <<last, toggling, runner>>,
         NEW p \in Consumers, ~AtPc(p, "idle"), ~AtPc(p, "apply"), NextRow(p),
         UNCHANGED requests \/ Mark(Head(p), "failed")
  PROVE  RowsInv'
PROOF
<1> DEFINE rest == poller[p].batch \ {Head(p)}
           rec == IF rest = {} THEN Idle ELSE [pc |-> "apply", batch |-> rest]
<1>1. poller[p] \in PollerRecord /\ poller[p].pc # "idle" BY DEF RowsInv, AtPc
<1>2. rec \in PollerRecord /\ (rec.pc = "idle" <=> rec.batch = {}) /\ rec.batch = rest
  BY <1>1 DEF PollerRecord, Idle
<1>3. poller' = [poller EXCEPT ![p] = rec] BY DEF NextRow
<1>4. Head(p) \in poller[p].batch /\ Head(p) \in Ids BY <1>1, HeadOK
<1>5. /\ requests' \in [Ids -> RowRecord]
      /\ \A i \in Ids : requests'[i].cmd = requests[i].cmd
      /\ \A i \in Ids : i # Head(p) => requests'[i] = requests[i]
  <2>1. CASE UNCHANGED requests BY <2>1, <1>4 DEF RowsInv
  <2>2. CASE Mark(Head(p), "failed")
    BY <2>2, <1>4 DEF Mark, RowsInv, RowRecord, Statuses, Settled
  <2> QED BY <2>1, <2>2
<1>6. ASSUME NEW i \in rec.batch PROVE requests'[i].status = "processing"
  <2>1. i \in poller[p].batch /\ i # Head(p) /\ i \in Ids
    BY <1>1, <1>2, <1>6 DEF PollerRecord
  <2>2. Queued(p, i) BY <2>1 DEF Queued
  <2> QED BY <2>1, <2>2, <1>5 DEF RowsInv
<1>7. rec.batch \subseteq poller[p].batch BY <1>2
<1> HIDE DEF rec
<1> QED BY <1>1, <1>2, <1>3, <1>4, <1>5, <1>6, <1>7, OnePoller

LEMMA EscapeRows ==
  ASSUME RowsInv, UNCHANGED <<last, toggling, runner>>,
         NEW p \in Consumers, ~AtPc(p, "idle"), Escape(p),
         UNCHANGED requests \/ Mark(Head(p), "failed")
  PROVE  RowsInv'
PROOF
<1>1. poller[p].pc # "idle" BY DEF AtPc
<1>2. Head(p) \in poller[p].batch /\ Head(p) \in Ids BY <1>1, HeadOK
<1>3. /\ requests' \in [Ids -> RowRecord]
      /\ \A i \in Ids : requests'[i].cmd = requests[i].cmd
      /\ \A i \in Ids : i # Head(p) => requests'[i] = requests[i]
  <2>1. CASE UNCHANGED requests BY <2>1, <1>2 DEF RowsInv
  <2>2. CASE Mark(Head(p), "failed")
    BY <2>2, <1>2 DEF Mark, RowsInv, RowRecord, Statuses, Settled
  <2> QED BY <2>1, <2>2
<1>4. Idle \in PollerRecord /\ Idle.pc = "idle" /\ Idle.batch = {}
  BY DEF Idle, PollerRecord
<1> QED BY <1>1, <1>2, <1>3, <1>4, OnePoller DEF Escape

LEMMA PollRows ==
  ASSUME RowsInv, NEW p \in Consumers,
         \/ ApplyKill(p) \/ CancelAll(p) \/ ApplyReset(p) \/ ApplyToggle(p)
         \/ ApplySet(p) \/ Merge(p) \/ MarkDone(p) \/ Emit(p) \/ MarkFailed(p)
  PROVE  RowsInv'
PROOF
<1> USE DEF coverage, dials, gateVars
<1>1. CASE ApplyKill(p) BY <1>1, GotoRows DEF ApplyKill, AtPc
<1>2. CASE CancelAll(p) BY <1>2, GotoRows DEF CancelAll, AtPc
<1>3. CASE ApplyReset(p) BY <1>3, GotoRows DEF ApplyReset, AtPc
<1>4. CASE ApplyToggle(p) BY <1>4, GotoRows DEF ApplyToggle, AtPc
<1>5. CASE ApplySet(p) BY <1>5, GotoRows DEF ApplySet, AtPc
<1>6. CASE Merge(p) BY <1>6, GotoRows DEF Merge, AtPc
<1>7. CASE MarkDone(p) BY <1>7, GotoRows DEF MarkDone, AtPc
<1>8. CASE Emit(p) BY <1>8, GotoRows, NextRowRows DEF Emit, AtPc
<1>9. CASE MarkFailed(p) BY <1>9, NextRowRows, EscapeRows DEF MarkFailed, AtPc
<1> QED BY <1>1, <1>2, <1>3, <1>4, <1>5, <1>6, <1>7, <1>8, <1>9

\* A new row at the end of the table.
LEMMA RequestRows ==
  ASSUME RowsInv, UNCHANGED <<poller, runner>>, last + 1 \in Ids,
         NEW cmd \in RowCommands, CommandOK(cmd), NEW status \in Statuses,
         Request(cmd, status),
         toggling' \in {toggling, NoValue}, toggling' # NoValue => last + 1 < MaxRequests
  PROVE  RowsInv'
PROOF
<1>1. /\ requests' \in [Ids -> RowRecord]
      /\ \A i \in Ids : i # last + 1 => requests'[i] = requests[i]
      /\ requests'[last + 1].cmd = cmd
      /\ last' = last + 1
  BY DEF Request, RowsInv, RowRecord
<1>2. last \in Nat /\ MaxRequests \in Nat /\ last' \in 0..MaxRequests
  BY <1>1, Constants DEF RowsInv, Ids
<1>3. \A i \in Ids : CommandOK(requests'[i].cmd) BY <1>1 DEF RowsInv
<1>4. \A i \in Ids : i > last' => requests'[i] = NoRequest
  BY <1>1, <1>2 DEF RowsInv, Ids
<1>5. Ordered' BY <1>1, <1>2, OrderedNext DEF RowsInv
<1>6. \A p \in Consumers : poller[p].batch \subseteq 1..last' BY <1>1, <1>2 DEF RowsInv
<1>7. ASSUME NEW p \in Consumers, NEW i \in poller[p].batch
      PROVE  i \in Ids /\ requests'[i] = requests[i] /\ (Queued(p, i)' <=> Queued(p, i))
  <2>1. i \in 1..last BY <1>7 DEF RowsInv
  <2>2. i \in Ids /\ i # last + 1 BY <2>1, <1>2, <1>1 DEF Ids
  <2> QED BY <2>2, <1>1 DEF Queued, Head, AtPc
<1> QED BY <1>1, <1>2, <1>3, <1>4, <1>5, <1>6, <1>7, Constants DEF RowsInv

LEMMA ApiRows ==
  ASSUME RowsInv,
         Api \/ EnqueueToggle
  PROVE  RowsInv'
PROOF
<1> USE DEF coverage, dials, gateVars
<1>1. "pending" \in Statuses /\ "direct" \in Statuses BY DEF Statuses, Settled
<1>2. \A cmd \in Commands : cmd \in RowCommands /\ CommandOK(cmd)
  BY Constants DEF RowCommands
<1>3. ASSUME NEW cmd \in Commands, Enqueue(cmd) PROVE RowsInv'
  BY <1>1, <1>2, <1>3, RequestRows, RoomOK DEF Enqueue
<1>4. ASSUME NEW cmd \in Commands, ByHand(cmd) PROVE RowsInv'
  BY <1>1, <1>2, <1>4, RequestRows, RoomOK DEF ByHand
<1>5. ASSUME NEW cmd \in Commands, StoreToggle(cmd) PROVE RowsInv'
  <2>1. toggling' \in {0, 1} /\ last < MaxRequests
    <3>1. cmd.op = "toggle" /\ Room /\ toggling' = cmd.value BY <1>5 DEF StoreToggle
    <3>2. last + 1 \in Ids BY <3>1, RoomOK
    <3>3. last < MaxRequests BY <3>2, Constants DEF Ids, RowsInv
    <3> QED BY <3>1, <3>3, <1>2 DEF CommandOK
  <2>2. UNCHANGED <<requests, last, poller, runner>> BY <1>5 DEF StoreToggle
  <2>3. Ordered' BY <2>2 DEF RowsInv, Ordered
  <2> QED BY <2>1, <2>2, <2>3 DEF RowsInv, Queued, Head, AtPc
<1>6. ASSUME EnqueueToggle PROVE RowsInv'
  <2> DEFINE row == [op |-> "toggle", brokers |-> {}, value |-> toggling]
  <2>1. toggling \in {0, 1} /\ toggling' = NoValue /\ UNCHANGED <<poller, runner>>
    BY <1>6 DEF EnqueueToggle, RowsInv
  <2>2. row \in RowCommands /\ CommandOK(row)
    BY <2>1 DEF RowCommands, CommandOK, Command
  <2>3. last + 1 \in Ids
    BY <1>6, Constants DEF EnqueueToggle, RowsInv, Ids
  <2>4. CASE Request(row, "pending")
    BY <2>1, <2>2, <2>3, <2>4, <1>1, RequestRows
  <2>5. CASE UNCHANGED <<requests, last>>
    <3>1. Ordered' BY <2>5 DEF RowsInv, Ordered
    <3> QED BY <3>1, <2>1, <2>5 DEF RowsInv, Queued, Head, AtPc
  <2> QED BY <1>6, <2>4, <2>5 DEF EnqueueToggle
<1> QED BY <1>3, <1>4, <1>5, <1>6 DEF Api, Direct, ConnectorSwitch

LEMMA ClaimRows ==
  ASSUME RowsInv, NEW p \in Consumers, Claim(p)
  PROVE  RowsInv'
PROOF
<1> USE DEF coverage, dials, gateVars
<1> DEFINE rows == Oldest(Pending, Limit)
<1>1. /\ poller[p].batch = {} /\ poller[p].pc = "idle"
      /\ UNCHANGED <<last, runner, toggling>>
      /\ requests' = [i \in Ids |-> IF i \in rows
                        THEN [requests[i] EXCEPT !.status = "processing"] ELSE requests[i]]
      /\ poller' = [poller EXCEPT ![p] = [pc |-> "apply", batch |-> rows]]
         \/ UNCHANGED poller
      /\ runner \in {"running", "recovery"}
  BY DEF Claim, AtPc, RowsInv, Polling
<1>2. \A i \in rows : i \in Ids /\ requests[i].status = "pending"
  BY DEF Oldest, Pending
<1>3. /\ requests' \in [Ids -> RowRecord]
      /\ \A i \in Ids : requests'[i].cmd = requests[i].cmd
      /\ \A i \in Ids : i \notin rows => requests'[i] = requests[i]
      /\ \A i \in rows : requests'[i].status = "processing"
  BY <1>1, <1>2 DEF RowsInv, RowRecord, Statuses
<1>4. \A i \in Ids : i > last => i \notin rows
  BY <1>2 DEF RowsInv, NoRequest
<1>5. rows \subseteq 1..last /\ rows \subseteq Ids
  BY <1>2, <1>4, Constants DEF RowsInv, Ids
<1>6. \A q \in Consumers : q # p => poller'[q] = poller[q] /\ poller[q].batch \cap rows = {}
  BY <1>1, <1>2 DEF RowsInv
<1>7. rows # {}
  <2>1. Pending # {} /\ Limit \in Nat /\ Limit # 0 BY ControlAssumption DEF Claim
  <2>2. Pending \subseteq 1..last BY Constants DEF Pending, RowsInv, NoRequest, Ids
  <2>3. PICK m \in Pending : \A n \in Pending : m <= n BY <2>1, <2>2 DEF RowsInv, Ordered
  <2>4. Pending \subseteq Nat BY Constants DEF Pending, Ids
  <2>5. m \in Nat /\ \A j \in Pending : j \in Nat /\ m <= j BY <2>3, <2>4
  <2>6. \A j \in Pending : ~(j < m) BY <2>5
  <2>7. {j \in Pending : j < m} = {} BY <2>6
  <2>8. Cardinality({j \in Pending : j < m}) = 0 BY <2>7, FS_EmptySet
  <2>9. m \in rows BY <2>1, <2>3, <2>8 DEF Oldest
  <2> QED BY <2>9
<1> HIDE DEF rows
<1>8. /\ poller' \in [Consumers -> PollerRecord]
      /\ \A q \in Consumers : poller'[q].pc = "idle" <=> poller'[q].batch = {}
      /\ \A q \in Consumers : poller'[q].batch \subseteq 1..last'
      /\ poller'[p].batch \subseteq rows
  <2>1. CASE poller' = [poller EXCEPT ![p] = [pc |-> "apply", batch |-> rows]]
    BY <2>1, <1>1, <1>5, <1>7 DEF RowsInv, PollerRecord
  <2>2. CASE UNCHANGED poller BY <2>2, <1>1 DEF RowsInv
  <2> QED BY <1>1, <2>1, <2>2
<1>9. \A q, r \in Consumers : q # r => poller'[q].batch \cap poller'[r].batch = {}
  BY <1>6, <1>8 DEF RowsInv
<1>10. ASSUME NEW q \in Consumers, NEW i \in poller'[q].batch
       PROVE  /\ requests'[i].status \in {"processing", "done"}
              /\ Queued(q, i)' => requests'[i].status = "processing"
  <2>1. CASE q = p BY <2>1, <1>3, <1>8, <1>10
  <2>2. CASE q # p
    <3>1. poller'[q] = poller[q] /\ i \in poller[q].batch /\ i \notin rows
      BY <2>2, <1>6, <1>10
    <3>2. i \in Ids BY <3>1 DEF RowsInv, PollerRecord
    <3>3. Queued(q, i)' <=> Queued(q, i) BY <3>1 DEF Queued, Head, AtPc
    <3> QED BY <3>1, <3>2, <3>3, <1>3 DEF RowsInv
  <2> QED BY <2>1, <2>2
<1>11. Ordered' BY <1>1 DEF RowsInv, Ordered
<1>12. /\ \A i \in Ids : CommandOK(requests'[i].cmd)
       /\ \A i \in Ids : i > last' => requests'[i] = NoRequest
  BY <1>1, <1>3, <1>4 DEF RowsInv
<1>13. runner' \notin {"down", "starting"} BY <1>1
<1> QED BY <1>1, <1>3, <1>8, <1>9, <1>10, <1>11, <1>12, <1>13 DEF RowsInv

LEMMA LifeRows ==
  ASSUME RowsInv, Down \/ Start \/ Hydrate \/ Recover
  PROVE  RowsInv'
PROOF
<1> USE DEF coverage, dials, gateVars
<1>1. CASE Down
  <2>1. /\ UNCHANGED <<requests, last, toggling>> /\ runner' = "down"
        /\ poller' = [p \in Consumers |-> Idle]
    BY <1>1 DEF Down
  <2>2. Idle \in PollerRecord /\ Idle.pc = "idle" /\ Idle.batch = {}
    BY DEF Idle, PollerRecord
  <2>3. Ordered' BY <2>1 DEF RowsInv, Ordered
  <2> QED BY <2>1, <2>2, <2>3 DEF RowsInv
<1>2. CASE Start \/ Hydrate
  <2>1. UNCHANGED <<requests, last, poller, toggling>> BY <1>2 DEF Start, Hydrate
  <2>2. Ordered' BY <2>1 DEF RowsInv, Ordered
  <2>3. runner \in {"down", "starting"} /\ runner' \in {"starting", "running"}
    BY <1>2 DEF Start, Hydrate
  <2> QED BY <2>1, <2>2, <2>3 DEF RowsInv, Queued, Head, AtPc
<1>3. CASE Recover
  <2>1. /\ last' = last + 1 /\ UNCHANGED <<poller, toggling>>
        /\ runner = "down" /\ runner' = "recovery" /\ Room
    BY <1>3 DEF Recover
  <2>2. \A p \in Consumers : poller'[p].batch = {} /\ poller'[p] = poller[p]
    BY <2>1 DEF RowsInv, Idle
  <2>3. last + 1 \in Ids /\ last' \in 0..MaxRequests
        /\ (toggling # NoValue => last' < MaxRequests)
    BY <2>1, RoomOK
  <2>4. requests' \in [Ids -> RowRecord] /\ \A i \in Ids : CommandOK(requests'[i].cmd)
    BY <1>3 DEF Recover, RowsInv, RowRecord, RowCommands, Statuses, Settled,
                CommandOK, Command
  <2>5. \A i \in Ids : i > last' => requests'[i] = NoRequest
    <3>1. \A i \in Ids : i > last' => i # last + 1 /\ requests[i] = NoRequest
      BY <2>1, Constants DEF RowsInv, Ids
    <3>2. NoRequest.cmd.op # "kill" BY DEF NoRequest, NoCommand
    <3>3. \A i \in Ids : i > last' => requests'[i] = requests[i]
      BY <1>3, <3>1, <3>2 DEF Recover
    <3> QED BY <3>1, <3>3
  <2>6. Ordered' BY <2>1, OrderedNext DEF RowsInv
  <2> QED BY <2>1, <2>2, <2>3, <2>4, <2>5, <2>6 DEF RowsInv
<1> QED BY <1>1, <1>2, <1>3

LEMMA SameRows ==
  ASSUME RowsInv, UNCHANGED <<requests, last, poller, runner, toggling>>
  PROVE  RowsInv'
PROOF
<1>1. Ordered' BY DEF RowsInv, Ordered
<1> QED BY <1>1 DEF RowsInv, Queued, Head, AtPc

LEMMA RowsNext == RowsInv /\ [Next]_vars => RowsInv'
PROOF
<1> SUFFICES ASSUME RowsInv, [Next]_vars PROVE RowsInv' OBVIOUS
<1>1. CASE Environment \/ CoverageTick \/ UNCHANGED vars
  BY <1>1, SameRows DEF Environment, CoverageTick, AutoClose, MonitorRestores, ReportChanges,
                        vars, coverage, dials, gateVars
<1>2. CASE \E p \in Consumers : Poll(p)
  BY <1>2, ClaimRows, PollRows DEF Poll
<1> QED BY <1>1, <1>2, ApiRows, LifeRows DEF Next
----------------------------------------------------------------------------
(* The gate *)

\* A broker is disabled exactly while it has a reason.
GateOK(g) == g \in Gates /\ \A b \in Brokers : b \in g.disabled <=> g.reasons[b] # {}

LEMMA FreshOK == GateOK(FreshGate) /\ GateOK(PortfolioKeys)
PROOF BY DEF GateOK, Gates, FreshGate, PortfolioKeys

\* disable_broker adds its reason and drops none.
LEMMA DisableOK ==
  ASSUME NEW g, GateOK(g), NEW bs \in SUBSET Brokers, NEW source \in Sources
  PROVE  /\ GateOK(DisableBrokers(g, bs, source))
         /\ DisableBrokers(g, bs, source).killed = g.killed
         /\ DisableBrokers(g, bs, source).disabled = g.disabled \cup bs
         /\ DisableBrokers(g, bs, source).reasons =
              [b \in Brokers |-> IF b \in bs THEN g.reasons[b] \cup {source} ELSE g.reasons[b]]
PROOF
<1> DEFINE r == [b \in Brokers |-> IF b \in bs THEN g.reasons[b] \cup {source}
                                   ELSE g.reasons[b]]
           d == DisableBrokers(g, bs, source)
<1>1. g \in [killed : BOOLEAN, disabled : SUBSET Brokers, reasons : [Brokers -> SUBSET Sources]]
  BY DEF GateOK, Gates
<1>2. d.reasons = r /\ d.disabled = g.disabled \cup bs /\ d.killed = g.killed
  BY <1>1 DEF DisableBrokers
<1>3. r \in [Brokers -> SUBSET Sources] BY <1>1
<1>4. d \in Gates BY <1>1, <1>3 DEF DisableBrokers, Gates
<1>5. \A b \in Brokers : b \in g.disabled \cup bs <=> r[b] # {}
  BY DEF GateOK
<1> QED BY <1>2, <1>4, <1>5 DEF GateOK

\* enable_broker for one reason drops that reason and no other.
LEMMA EnableForOK ==
  ASSUME NEW g, GateOK(g), NEW bs \in SUBSET Brokers, NEW source \in Sources
  PROVE  /\ GateOK(EnableBrokersFor(g, bs, source))
         /\ EnableBrokersFor(g, bs, source).killed = g.killed
         /\ EnableBrokersFor(g, bs, source).reasons =
              [b \in Brokers |-> IF b \in bs THEN g.reasons[b] \ {source} ELSE g.reasons[b]]
PROOF
<1> DEFINE r == [b \in Brokers |-> IF b \in bs THEN g.reasons[b] \ {source}
                                   ELSE g.reasons[b]]
           out == g.disabled \ {b \in bs : g.reasons[b] \subseteq {source}}
           e == EnableBrokersFor(g, bs, source)
<1>1. g \in [killed : BOOLEAN, disabled : SUBSET Brokers, reasons : [Brokers -> SUBSET Sources]]
  BY DEF GateOK, Gates
<1>2. e.reasons = r /\ e.disabled = out /\ e.killed = g.killed
  BY <1>1 DEF EnableBrokersFor
<1>3. r \in [Brokers -> SUBSET Sources] BY <1>1
<1>4. e \in Gates BY <1>1, <1>3 DEF EnableBrokersFor, Gates
<1>5. \A b \in Brokers : b \in out <=> r[b] # {}
  BY DEF GateOK
<1> QED BY <1>2, <1>4, <1>5 DEF GateOK

\* What an operator's kill or reset makes of a gate.
LEMMA OperatorOK ==
  ASSUME NEW g, GateOK(g), NEW bs \in SUBSET Brokers
  PROVE  /\ GateOK(CloseGate(g, bs)) /\ GateOK(OpenGate(g, bs))
         /\ \A b \in Brokers : g.reasons[b] \subseteq CloseGate(g, bs).reasons[b]
         /\ \A b \in Brokers \ Opened(bs) : OpenGate(g, bs).reasons[b] = g.reasons[b]
PROOF
<1>1. g \in [killed : BOOLEAN, disabled : SUBSET Brokers, reasons : [Brokers -> SUBSET Sources]]
  BY DEF GateOK, Gates
<1>2. GateOK(Kill(g)) /\ Kill(g).reasons = g.reasons
  BY <1>1 DEF Kill, GateOK, Gates
<1>3. "manual" \in Sources BY DEF Sources
<1>4. GateOK(CloseGate(g, bs))
      /\ \A b \in Brokers : g.reasons[b] \subseteq CloseGate(g, bs).reasons[b]
  <2> DEFINE d == DisableBrokers(g, bs, "manual")
  <2>1. /\ GateOK(d)
        /\ d.reasons = [b \in Brokers |-> IF b \in bs THEN g.reasons[b] \cup {"manual"}
                                          ELSE g.reasons[b]]
    BY <1>3, DisableOK
  <2>2. \A b \in Brokers : g.reasons[b] \subseteq d.reasons[b]
    <3> HIDE DEF d
    <3> QED BY <2>1
  <2> QED BY <1>2, <2>1, <2>2 DEF CloseGate
<1>5. /\ GateOK(EnableBrokers(g, bs))
      /\ \A b \in Brokers \ bs : EnableBrokers(g, bs).reasons[b] = g.reasons[b]
  <2> DEFINE r == [b \in Brokers |-> IF b \in bs THEN {} ELSE g.reasons[b]]
  <2>1. EnableBrokers(g, bs).reasons = r /\ EnableBrokers(g, bs).disabled = g.disabled \ bs
    BY <1>1 DEF EnableBrokers
  <2>2. r \in [Brokers -> SUBSET Sources] BY <1>1
  <2>3. EnableBrokers(g, bs) \in Gates BY <1>1, <2>2 DEF EnableBrokers, Gates
  <2> QED BY <2>1, <2>3 DEF GateOK
<1>6. GateOK(OpenGate(g, bs))
      /\ \A b \in Brokers \ Opened(bs) : OpenGate(g, bs).reasons[b] = g.reasons[b]
  BY <1>5, FreshOK DEF OpenGate, ResetKill, Opened
<1> QED BY <1>4, <1>6

\* restore_runtime_state drops no reason, whatever the keys say.
LEMMA RestoreOK ==
  ASSUME NEW g, GateOK(g), NEW keys \in Gates
  PROVE  /\ GateOK(RestoreRuntimeState(g, keys))
         /\ \A b \in Brokers : g.reasons[b] \subseteq RestoreRuntimeState(g, keys).reasons[b]
PROOF
<1> DEFINE known(b) == g.reasons[b] \cup keys.reasons[b]
           r == [b \in Brokers |-> IF known(b) = {} /\ b \in keys.disabled THEN {"legacy"}
                                   ELSE known(b)]
           d == g.disabled \cup keys.disabled \cup {b \in Brokers : keys.reasons[b] # {}}
           s == RestoreRuntimeState(g, keys)
<1>1. /\ g \in [killed : BOOLEAN, disabled : SUBSET Brokers, reasons : [Brokers -> SUBSET Sources]]
      /\ keys \in [killed : BOOLEAN, disabled : SUBSET Brokers, reasons : [Brokers -> SUBSET Sources]]
  BY DEF GateOK, Gates
<1>2. s.reasons = r /\ s.disabled = d /\ s.killed = (g.killed \/ keys.killed)
  BY DEF RestoreRuntimeState
<1>3. r \in [Brokers -> SUBSET Sources] BY <1>1 DEF Sources
<1>4. (g.killed \/ keys.killed) \in BOOLEAN BY Zenon
<1>5. s \in Gates BY <1>1, <1>3, <1>4 DEF RestoreRuntimeState, Gates
<1>6. \A b \in Brokers : b \in d <=> r[b] # {}
  BY DEF GateOK
<1>7. \A b \in Brokers : g.reasons[b] \subseteq r[b]
  OBVIOUS
<1> QED BY <1>2, <1>5, <1>6, <1>7 DEF GateOK

\* The gate in memory and in the file, and what the coverage loop believes of it.
\* The loop runs only in the orchestrator, and starts with no memory.
GateInv ==
  /\ GateOK(gate) /\ file \in Gates
  /\ report \in [Brokers -> {"included", "excluded"}]
  /\ lastDisabled \subseteq Brokers
  /\ reopened \subseteq lastDisabled
  /\ runner \in {"down", "recovery"} => lastDisabled = {}
  /\ failures \in 0..MaxFailures
  /\ \A b \in lastDisabled \ reopened : "coverage" \in gate.reasons[b]

LEMMA FailuresOK ==
  ASSUME failures \in 0..MaxFailures, Works \/ \E fault \in FaultNames : Fails(fault)
  PROVE  failures' \in 0..MaxFailures
PROOF BY Constants DEF Works, Fails

LEMMA PersistOK ==
  ASSUME failures \in 0..MaxFailures, file \in Gates,
         NEW after \in Gates, NEW during \in SUBSET Gates, Persist(after, during)
  PROVE  file' \in Gates /\ failures' \in 0..MaxFailures
PROOF BY FailuresOK DEF Persist, FaultNames

\* Nothing of the gate changes but the file, or the count of failures.
LEMMA SameGate ==
  ASSUME GateInv, UNCHANGED <<gate, report, lastDisabled, reopened>>, file' \in Gates,
         failures' \in 0..MaxFailures, runner' \in {"down", "recovery"} => lastDisabled = {}
  PROVE  GateInv'
PROOF BY DEF GateInv

LEMMA CloseGateInv ==
  ASSUME GateInv, NEW bs \in SUBSET Brokers, Close(bs), UNCHANGED <<runner, coverage>>
  PROVE  GateInv'
PROOF
<1>1. GateOK(gate) /\ gate' = CloseGate(gate, bs) /\ UNCHANGED <<report, lastDisabled, reopened>>
  BY DEF Close, GateInv, coverage
<1>2. GateOK(gate') /\ \A b \in Brokers : gate.reasons[b] \subseteq gate'.reasons[b]
  BY <1>1, OperatorOK
<1>3. {CloseGate(gate, some) : some \in (SUBSET bs) \ {{}}} \subseteq Gates
  BY <1>1, OperatorOK DEF GateOK
<1>4. file' \in Gates /\ failures' \in 0..MaxFailures
  BY <1>2, <1>3, PersistOK DEF Close, GateInv, GateOK
<1> QED BY <1>1, <1>2, <1>4 DEF GateInv

LEMMA OpenGateInv ==
  ASSUME GateInv, NEW bs \in SUBSET Brokers, Open(bs), UNCHANGED <<runner, coverage>>
  PROVE  GateInv'
PROOF
<1>1. /\ GateOK(gate) /\ gate' = OpenGate(gate, bs) /\ UNCHANGED <<report, lastDisabled>>
      /\ reopened' = reopened \cup (Opened(bs) \cap lastDisabled)
  BY DEF Open, GateInv, coverage
<1>2. GateOK(gate') /\ \A b \in Brokers \ Opened(bs) : gate'.reasons[b] = gate.reasons[b]
  BY <1>1, OperatorOK
<1>3. {OpenGate(gate, some) : some \in (SUBSET bs) \ {{}}} \subseteq Gates
  BY <1>1, OperatorOK DEF GateOK
<1>4. file' \in Gates /\ failures' \in 0..MaxFailures
  BY <1>2, <1>3, PersistOK DEF Open, GateInv, GateOK
<1>5. \A b \in lastDisabled \ reopened' : b \in Brokers \ Opened(bs) /\ b \notin reopened
  BY <1>1 DEF GateInv
<1>6. \A b \in lastDisabled' \ reopened' : "coverage" \in gate'.reasons[b]
  BY <1>1, <1>2, <1>5 DEF GateInv
<1> QED BY <1>1, <1>2, <1>4, <1>6 DEF GateInv

LEMMA RestoresGateInv ==
  ASSUME GateInv, MonitorRestores \/ \E bs \in SUBSET Brokers : AutoClose(bs)
  PROVE  GateInv'
PROOF
<1>1. CASE MonitorRestores
  <2>1. /\ gate' = RestoreRuntimeState(gate, PortfolioKeys) /\ Persist(gate', {})
        /\ UNCHANGED <<report, lastDisabled, reopened, runner>>
    BY <1>1 DEF MonitorRestores, SetGate, coverage
  <2>2. PortfolioKeys \in Gates /\ GateOK(gate) BY FreshOK DEF GateInv, GateOK
  <2>3. GateOK(gate') /\ \A b \in Brokers : gate.reasons[b] \subseteq gate'.reasons[b]
    BY <2>1, <2>2, RestoreOK
  <2>4. file' \in Gates /\ failures' \in 0..MaxFailures
    BY <2>1, <2>3, PersistOK DEF GateInv, GateOK
  <2> QED BY <2>1, <2>3, <2>4 DEF GateInv
<1>2. ASSUME NEW bs \in SUBSET Brokers, AutoClose(bs) PROVE GateInv'
  <2>1. /\ gate' = CloseGate(gate, bs) /\ GateOK(gate)
        /\ UNCHANGED <<report, lastDisabled, reopened, runner>>
        /\ file' \in {gate', file}
    BY <1>2 DEF AutoClose, coverage, GateInv
  <2>2. GateOK(gate') /\ \A b \in Brokers : gate.reasons[b] \subseteq gate'.reasons[b]
    BY <2>1, OperatorOK
  <2>3. failures' \in 0..MaxFailures
    BY <1>2, FailuresOK DEF AutoClose, FaultNames, GateInv
  <2> QED BY <2>1, <2>2, <2>3 DEF GateInv, GateOK
<1> QED BY <1>1, <1>2

LEMMA CoverageGateInv ==
  ASSUME GateInv, CoverageTick
  PROVE  GateInv'
PROOF
<1>1. PICK maturing \in SUBSET Reported("excluded") :
       LET excluded == Reported("excluded") \ maturing
           out  == excluded \ CoverageDisabled
           back == CoverageDisabled \cap Reported("included")
           Without(some) == DisableBrokers(gate, some, "coverage")
           With(some) == EnableBrokersFor(Without(out), some, "coverage")
       IN  /\ gate' = With(back)
           /\ IF out \cup back = {} THEN UNCHANGED file /\ Works
              ELSE Persist(gate', {Without(some) : some \in (SUBSET out) \ {{}}}
                                  \cup {With(some) : some \in (SUBSET back) \ {{}}})
           /\ lastDisabled' = excluded
           /\ reopened' = reopened \cap excluded
           /\ report' = [b \in Brokers |-> IF b \in maturing THEN "included" ELSE report[b]]
  BY DEF CoverageTick
<1> DEFINE excluded == Reported("excluded") \ maturing
           out  == excluded \ CoverageDisabled
           back == CoverageDisabled \cap Reported("included")
           Without(some) == DisableBrokers(gate, some, "coverage")
           With(some) == EnableBrokersFor(Without(out), some, "coverage")
<1>2. /\ gate' = With(back)
      /\ IF out \cup back = {} THEN UNCHANGED file /\ Works
         ELSE Persist(gate', {Without(some) : some \in (SUBSET out) \ {{}}}
                             \cup {With(some) : some \in (SUBSET back) \ {{}}})
      /\ lastDisabled' = excluded
      /\ reopened' = reopened \cap excluded
      /\ report' = [b \in Brokers |-> IF b \in maturing THEN "included" ELSE report[b]]
  BY <1>1
<1>3. /\ excluded \subseteq Brokers /\ out \subseteq Brokers /\ back \subseteq Brokers
      /\ "coverage" \in Sources
  BY DEF Reported, Sources
<1>4. /\ GateOK(gate) /\ \A some \in SUBSET out : GateOK(Without(some))
      /\ \A b \in Brokers : Without(out).reasons[b] =
           IF b \in out THEN gate.reasons[b] \cup {"coverage"} ELSE gate.reasons[b]
  <2>1. GateOK(gate) /\ "coverage" \in Sources BY <1>3 DEF GateInv
  <2>2. ASSUME NEW bs \in SUBSET Brokers
        PROVE  /\ GateOK(DisableBrokers(gate, bs, "coverage"))
               /\ DisableBrokers(gate, bs, "coverage").reasons =
                    [b \in Brokers |-> IF b \in bs THEN gate.reasons[b] \cup {"coverage"}
                                      ELSE gate.reasons[b]]
    BY <2>1, DisableOK
  <2>3. \A some \in SUBSET out : some \in SUBSET Brokers BY <1>3
  <2>4. \A some \in SUBSET out : GateOK(Without(some)) BY <2>2, <2>3
  <2>5. Without(out).reasons =
          [b \in Brokers |-> IF b \in out THEN gate.reasons[b] \cup {"coverage"}
                            ELSE gate.reasons[b]]
    BY <1>3, <2>2
  <2> HIDE DEF out, Without
  <2> QED BY <2>1, <2>4, <2>5
<1>5. /\ \A some \in SUBSET back : GateOK(With(some))
      /\ \A b \in Brokers : With(back).reasons[b] =
           IF b \in back THEN Without(out).reasons[b] \ {"coverage"} ELSE Without(out).reasons[b]
  <2>1. GateOK(Without(out)) /\ "coverage" \in Sources BY <1>3, <1>4
  <2> HIDE DEF Without, out, back
  <2>2. ASSUME NEW bs \in SUBSET Brokers
        PROVE  /\ GateOK(EnableBrokersFor(Without(out), bs, "coverage"))
               /\ EnableBrokersFor(Without(out), bs, "coverage").reasons =
                    [b \in Brokers |-> IF b \in bs THEN Without(out).reasons[b] \ {"coverage"}
                                      ELSE Without(out).reasons[b]]
    BY <2>1, EnableForOK
  <2>3. \A some \in SUBSET back : some \in SUBSET Brokers
    BY <1>3
  <2>4. \A some \in SUBSET back : GateOK(With(some)) BY <2>2, <2>3
  <2>5. With(back).reasons =
          [b \in Brokers |-> IF b \in back THEN Without(out).reasons[b] \ {"coverage"}
                            ELSE Without(out).reasons[b]]
    BY <1>3, <2>2
  <2> HIDE DEF With
  <2> QED BY <2>4, <2>5
<1>6. GateOK(gate') BY <1>2, <1>5
<1>7. file' \in Gates /\ failures' \in 0..MaxFailures
  <2>1. {Without(some) : some \in (SUBSET out) \ {{}}}
        \cup {With(some) : some \in (SUBSET back) \ {{}}} \in SUBSET Gates
    <3>1. \A some \in SUBSET out : Without(some) \in Gates BY <1>4 DEF GateOK
    <3>2. \A some \in SUBSET back : With(some) \in Gates BY <1>5 DEF GateOK
    <3> HIDE DEF out, back, Without, With
    <3> QED BY <3>1, <3>2
  <2> HIDE DEF out, back, Without, With
  <2>2. file \in Gates /\ failures \in 0..MaxFailures BY DEF GateInv
  <2>3. CASE out \cup back = {} BY <1>2, <2>2, <2>3 DEF Works
  <2>4. CASE out \cup back # {}
    BY <1>2, <1>6, <2>1, <2>2, <2>4, PersistOK DEF GateOK
  <2> QED BY <2>3, <2>4
<1>8. report' \in [Brokers -> {"included", "excluded"}]
  BY <1>2 DEF GateInv
<1>9. ASSUME NEW b \in excluded, b \notin reopened'
      PROVE  "coverage" \in gate'.reasons[b]
  <2>1. b \in Brokers /\ b \notin back /\ gate'.reasons[b] = Without(out).reasons[b]
    BY <1>2, <1>3, <1>5, <1>9 DEF Reported
  <2>2. CASE b \in out BY <2>1, <2>2, <1>4
  <2>3. CASE b \notin out
    <3>1. b \in CoverageDisabled /\ b \notin reopened BY <1>2, <1>9, <2>3
    <3>2. "coverage" \in gate.reasons[b]
      BY <3>1 DEF CoverageDisabled, GateInv
    <3> QED BY <2>1, <2>3, <3>2, <1>4
  <2> QED BY <2>2, <2>3
<1>10. runner' = runner /\ runner \notin {"down", "recovery"}
  BY DEF CoverageTick, InOrchestrator
<1>11. lastDisabled' = excluded /\ reopened' \subseteq excluded BY <1>2
<1> HIDE DEF excluded
<1> QED BY <1>3, <1>6, <1>7, <1>8, <1>9, <1>10, <1>11 DEF GateInv

LEMMA LifeGateInv ==
  ASSUME GateInv, Down \/ Start \/ Hydrate \/ Recover
  PROVE  GateInv'
PROOF
<1> USE DEF coverage, gateVars
<1>1. GateOK(Restored)
  BY FreshOK, RestoreOK DEF Restored, GateInv
<1>2. CASE Down
  <2>1. /\ gate' = FreshGate /\ UNCHANGED <<file, report>>
        /\ lastDisabled' = {} /\ reopened' = {} /\ Fails("down")
    BY <1>2 DEF Down
  <2>2. failures' \in 0..MaxFailures
    BY <2>1, FailuresOK DEF FaultNames, GateInv
  <2> QED BY <2>1, <2>2, FreshOK DEF GateInv
<1>3. CASE Start
  <2>1. /\ gate' = Restored /\ Persist(gate', {}) /\ UNCHANGED <<report, lastDisabled, reopened>>
        /\ lastDisabled = {}
    BY <1>3 DEF Start, SetGate, GateInv
  <2>2. file' \in Gates /\ failures' \in 0..MaxFailures
    BY <1>1, <2>1, PersistOK DEF GateInv, GateOK
  <2> QED BY <1>1, <2>1, <2>2 DEF GateInv
<1>4. CASE Hydrate
  BY <1>4, SameGate DEF Hydrate, Works, GateInv
<1>5. CASE Recover
  <2>1. /\ gate' = FreshGate /\ Persist(gate', {Restored})
        /\ UNCHANGED <<report, lastDisabled, reopened>> /\ lastDisabled = {}
    BY <1>5 DEF Recover, ResetKill, GateInv
  <2>2. file' \in Gates /\ failures' \in 0..MaxFailures
    BY <1>1, <2>1, FreshOK, PersistOK DEF GateInv, GateOK
  <2> QED BY <2>1, <2>2, FreshOK DEF GateInv
<1> QED BY <1>2, <1>3, <1>4, <1>5

LEMMA ApiGateInv ==
  ASSUME GateInv, Api \/ EnqueueToggle
  PROVE  GateInv'
PROOF
<1> USE DEF coverage, gateVars
<1>1. ASSUME NEW cmd \in Commands, Enqueue(cmd) \/ StoreToggle(cmd) PROVE GateInv'
  BY <1>1, SameGate DEF Enqueue, StoreToggle, Works, GateInv
<1>2. ASSUME NEW cmd \in Commands, ByHand(cmd) PROVE GateInv'
  <2>1. cmd.brokers \in SUBSET Brokers BY Constants DEF CommandOK, Command
  <2>2. UNCHANGED <<runner, coverage>> BY <1>2 DEF ByHand
  <2>3. Close(cmd.brokers) \/ Open(cmd.brokers) BY <1>2 DEF ByHand
  <2> QED BY <2>1, <2>2, <2>3, CloseGateInv, OpenGateInv
<1>3. CASE EnqueueToggle
  <2>1. failures' \in 0..MaxFailures
    BY <1>3, FailuresOK DEF EnqueueToggle, FaultNames, GateInv
  <2> QED BY <1>3, <2>1, SameGate DEF EnqueueToggle, GateInv
<1> QED BY <1>1, <1>2, <1>3 DEF Api, Direct, ConnectorSwitch

LEMMA PollGateInv ==
  ASSUME RowsInv, GateInv, NEW p \in Consumers, Poll(p)
  PROVE  GateInv'
PROOF
<1> USE DEF coverage, gateVars
<1>1. CASE ApplyKill(p)
  <2>1. HeadCmd(p).brokers \in SUBSET Brokers
    BY <1>1, HeadOK DEF ApplyKill, AtPc, CommandOK, Command
  <2> QED BY <1>1, <2>1, CloseGateInv DEF ApplyKill
<1>2. CASE ApplyReset(p)
  <2>1. HeadCmd(p).brokers \in SUBSET Brokers
    BY <1>2, HeadOK DEF ApplyReset, AtPc, CommandOK, Command
  <2> QED BY <1>2, <2>1, OpenGateInv DEF ApplyReset
<1>3. CASE Claim(p) \/ CancelAll(p) \/ ApplyToggle(p) \/ ApplySet(p) \/ Merge(p)
           \/ MarkDone(p) \/ Emit(p) \/ MarkFailed(p)
  <2>1. UNCHANGED <<gate, file, reopened, report, lastDisabled, runner>>
    BY <1>3 DEF Claim, CancelAll, ApplyToggle, ApplySet, Merge, MarkDone, Emit, MarkFailed
  <2>2. Works \/ \E fault \in FaultNames : Fails(fault)
    BY <1>3 DEF Claim, CancelAll, ApplyToggle, ApplySet, Merge, MarkDone, Emit, MarkFailed,
                FaultNames
  <2>3. failures' \in 0..MaxFailures BY <2>2, FailuresOK DEF GateInv
  <2> QED BY <2>1, <2>3, SameGate DEF GateInv
<1> QED BY <1>1, <1>2, <1>3 DEF Poll

LEMMA GateNext == RowsInv /\ GateInv /\ [Next]_vars => GateInv'
PROOF
<1> SUFFICES ASSUME RowsInv, GateInv, [Next]_vars PROVE GateInv' OBVIOUS
<1>1. ASSUME NEW b \in Brokers, ReportChanges(b) PROVE GateInv'
  BY <1>1 DEF ReportChanges, GateInv, gateVars, Works
<1>2. CASE UNCHANGED vars
  BY <1>2, SameGate DEF vars, GateInv
<1> QED BY <1>1, <1>2, ApiGateInv, PollGateInv, RestoresGateInv, CoverageGateInv, LifeGateInv
        DEF Next, Environment

LEMMA GateInit == Init => GateInv
PROOF BY FreshOK, ControlAssumption
      DEF Init, GateInv, OlderFile, GateOK, Gates
----------------------------------------------------------------------------
(* The dials *)

DialsInv ==
  /\ param \in [memory : Nat, stored : Nat \cup {NoValue}, yaml : Nat \cup {NoValue}]
  /\ switch \in [memory : {0, 1}, stored : {0, 1, NoValue}]
  /\ lostToggle \in BOOLEAN

LEMMA SameDials == DialsInv /\ UNCHANGED <<param, switch, lostToggle>> => DialsInv'
PROOF BY DEF DialsInv

\* What a process loads at its start is a value again.
LEMMA HydrateOK ==
  ASSUME DialsInv
  PROVE  /\ HydrateParameter \in [memory : Nat, stored : Nat \cup {NoValue},
                                  yaml : Nat \cup {NoValue}]
         /\ HydrateSwitch \in [memory : {0, 1}, stored : {0, 1, NoValue}]
PROOF
<1>1. OrElse(param.stored, OrElse(param.yaml, Proven)) \in Nat
  BY DEF DialsInv, OrElse, Proven
<1>2. OrElse(switch.stored, Enabled) \in {0, 1}
  BY DEF DialsInv, OrElse, Enabled
<1> QED BY <1>1, <1>2 DEF DialsInv, HydrateParameter, HydrateSwitch

LEMMA DialsNext == RowsInv /\ DialsInv /\ [Next]_vars => DialsInv'
PROOF
<1> SUFFICES ASSUME RowsInv, DialsInv, [Next]_vars PROVE DialsInv' OBVIOUS
<1> USE DEF dials
<1>1. ASSUME NEW cmd \in Commands,
             Enqueue(cmd) \/ Direct(cmd) \/ ConnectorSwitch(cmd) \/ StoreToggle(cmd)
      PROVE  DialsInv'
  <2>1. CASE StoreToggle(cmd)
    <3>1. cmd.value \in {0, 1} BY <2>1, Constants DEF StoreToggle, CommandOK
    <3> QED BY <2>1, <3>1 DEF StoreToggle, DialsInv
  <2> QED BY <1>1, <2>1, SameDials DEF Enqueue, Direct, ConnectorSwitch, ByHand
<1>2. CASE EnqueueToggle BY <1>2 DEF EnqueueToggle, DialsInv
<1>3. ASSUME NEW p \in Consumers, Poll(p) PROVE DialsInv'
  <2>1. CASE ApplyToggle(p)
    <3>1. HeadCmd(p).value \in {0, 1}
      BY <2>1, HeadOK DEF ApplyToggle, AtPc, CommandOK
    <3> QED BY <2>1, <3>1 DEF ApplyToggle, DialsInv
  <2>2. CASE ApplySet(p)
    <3>1. HeadCmd(p).value \in Nat
      BY <2>2, HeadOK DEF ApplySet, AtPc, CommandOK, Command
    <3> QED BY <2>2, <3>1 DEF ApplySet, DialsInv
  <2>3. CASE Merge(p)
    <3>1. HeadCmd(p).value \in Nat
      BY <2>3, HeadOK DEF Merge, AtPc, CommandOK, Command
    <3> QED BY <2>3, <3>1 DEF Merge, DialsInv
  <2>4. CASE Claim(p) \/ ApplyKill(p) \/ CancelAll(p) \/ ApplyReset(p) \/ MarkDone(p)
             \/ Emit(p) \/ MarkFailed(p)
    BY <2>4, SameDials
       DEF Claim, ApplyKill, CancelAll, ApplyReset, MarkDone, Emit, MarkFailed
  <2> QED BY <1>3, <2>1, <2>2, <2>3, <2>4 DEF Poll
<1>4. CASE Environment \/ CoverageTick \/ Start \/ UNCHANGED vars
  BY <1>4, SameDials
     DEF Environment, AutoClose, MonitorRestores, ReportChanges, CoverageTick, Start, vars
<1>5. CASE Down
  BY <1>5 DEF Down, DialsInv, Proven, Enabled
<1>6. CASE Hydrate \/ Recover
  BY <1>6, HydrateOK DEF Hydrate, Recover, DialsInv
<1> QED BY <1>1, <1>2, <1>3, <1>4, <1>5, <1>6 DEF Next, Api

----------------------------------------------------------------------------
(* The theorems *)

IInv == RowsInv /\ GateInv /\ DialsInv

\* The three invariants hold in every state: they are what TypeOK and
\* ExcludedIsBlocked need to be inductive.
THEOREM Invariance == Spec => []IInv
PROOF
<1>1. Init => DialsInv
  <2> SUFFICES ASSUME Init PROVE DialsInv OBVIOUS
  <2>1. /\ param = [memory |-> Proven, stored |-> NoValue, yaml |-> NoValue]
        /\ switch = [memory |-> Enabled, stored |-> NoValue]
        /\ lostToggle = FALSE
    BY DEF Init
  <2>2. Proven \in Nat /\ Enabled \in {0, 1} BY DEF Proven, Enabled
  <2>3. param \in [memory : Nat, stored : Nat \cup {NoValue}, yaml : Nat \cup {NoValue}]
    BY <2>1, <2>2
  <2>4. switch \in [memory : {0, 1}, stored : {0, 1, NoValue}]
    BY <2>1, <2>2
  <2> QED BY <2>1, <2>3, <2>4 DEF DialsInv
<1>2. Init => IInv BY <1>1, RowsInit, GateInit DEF IInv
<1>3. IInv /\ [Next]_vars => IInv'
  BY RowsNext, GateNext, DialsNext DEF IInv
<1> QED BY <1>2, <1>3, PTL DEF Spec

\* The types of the rows, the pollers, the gate and the dials, whatever crashes,
\* fails or runs at the same time, for any number of brokers, pollers and requests.
THEOREM Types == Spec => []TypeOK
PROOF
<1>1. IInv => TypeOK
  BY DEF IInv, RowsInv, GateInv, DialsInv, GateOK, TypeOK, RowRecord, RowCommands,
         Statuses, PollerRecord, AtPc
<1> QED BY <1>1, Invariance, PTL

\* A broker the coverage loop found excluded stays blocked for coverage until an
\* operator reopens it: no kill, restore, execution failure, crash or poller takes
\* the reason away (enable_broker and restore_runtime_state of risk/engine.py).
THEOREM Excluded == Spec => []ExcludedIsBlocked
PROOF
<1>1. IInv => ExcludedIsBlocked
  BY DEF IInv, GateInv, ExcludedIsBlocked
<1> QED BY <1>1, Invariance, PTL
=============================================================================
