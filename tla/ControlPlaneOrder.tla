------------------------- MODULE ControlPlaneOrder -------------------------
(***************************************************************************)
(* Proofs about ControlPlane for a bus with one poller, which is what the  *)
(* orchestrator starts: the operator's commands take effect in the order   *)
(* they were given, and the dials end where the last command put them.     *)
(* With two pollers none of it holds (run_m5 starts two coroutines that    *)
(* claim).  The rows and batches of ControlPlaneProofs (RowsInv) are the   *)
(* ground; on top come the order of the rows and what a poller has already *)
(* done to the dials at each of its labels.                                *)
(***************************************************************************)
EXTENDS ControlPlaneProofs

SinglePoller == \A p, q \in Consumers : p = q

\* A claim takes the oldest rows: no pending row is older than a claimed one.
ClaimedInOrder ==
  \A i, j \in Ids :
    i < j /\ requests[j].status \in {"processing", "done", "failed"}
      => requests[i].status # "pending"

\* The poller settles nothing that is newer than a row of its batch.
BatchOldest ==
  \A p \in Consumers : \A i \in poller[p].batch : \A j \in Ids :
    i < j => requests[j].status \notin {"done", "failed"}

\* A toggle only travels on the bus.
ToggleRows ==
  \A i \in Ids : requests[i].cmd.op = "toggle"
                 => requests[i].status \in {"pending", "processing", "done", "failed"}

OrderInv == ClaimedInOrder /\ BatchOldest /\ ToggleRows

NewestToggle(i) ==
  /\ requests[i].cmd.op = "toggle"
  /\ \A j \in Ids : j > i => requests[j].cmd.op # "toggle"

\* The stored switch is what the newest toggle says, unless one is not yet
\* enqueued or never will be.
StoredNewest ==
  /\ toggling # NoValue => switch.stored = toggling
  /\ toggling = NoValue /\ ~lostToggle
     => \A i \in Ids : NewestToggle(i) => switch.stored = requests[i].cmd.value

\* What the poller has done to the parameter at each label of a "set" command.
SetInForce ==
  \A p \in Consumers :
    /\ AtPc(p, "cancel") => HeadCmd(p).op = "kill"
    /\ AtPc(p, "merge") => HeadCmd(p).op = "set"
    /\ poller[p].pc \in {"merge", "mark", "emit"} /\ HeadCmd(p).op = "set"
       => /\ HeadCmd(p).value \in InBounds
          /\ param.memory = HeadCmd(p).value
          /\ ~AtPc(p, "merge") => param.stored = HeadCmd(p).value
----------------------------------------------------------------------------
(* The shapes of a step *)

\* A step of the poller at the oldest row of its batch.
Moved(p) ==
  /\ poller[p].pc # "idle"
  /\ UNCHANGED <<last, runner, toggling, lostToggle>>
  /\ \A i \in Ids : requests'[i].cmd = requests[i].cmd
  /\ \A i \in Ids : i # Head(p) => requests'[i] = requests[i]
  /\ requests'[Head(p)].status \in {requests[Head(p)].status, "done", "failed"}
  /\ requests'[Head(p)].status = "done" =>
       requests[Head(p)].status = "done" \/ (AtPc(p, "mark") /\ UNCHANGED <<param, switch>>)
  /\ AtPc(p, "apply") => UNCHANGED requests
  /\ poller'[p].batch \subseteq poller[p].batch
  /\ \A i \in Ids : i # Head(p) =>
       \/ Queued(p, i)' <=> Queued(p, i)
       \/ Queued(p, i) /\ i \notin poller'[p].batch
  /\ \A i \in Ids : i = Head(p) => ~Queued(p, i)'

LEMMA GotoMoves ==
  ASSUME RowsInv, UNCHANGED <<last, runner, toggling, lostToggle>>,
         NEW p \in Consumers, ~AtPc(p, "idle"),
         NEW label \in {"cancel", "merge", "mark", "emit", "fail"}, Goto(p, label),
         \/ UNCHANGED requests
         \/ Mark(Head(p), "done") /\ AtPc(p, "mark") /\ UNCHANGED <<param, switch>>
  PROVE  Moved(p) /\ poller'[p].pc = label /\ poller'[p].batch = poller[p].batch
PROOF
<1>1. poller[p] \in PollerRecord /\ poller[p].pc # "idle" BY DEF RowsInv, AtPc
<1>2. poller'[p] = [poller[p] EXCEPT !.pc = label] BY DEF Goto, RowsInv
<1>3. poller'[p].pc = label /\ poller'[p].batch = poller[p].batch
  BY <1>1, <1>2 DEF PollerRecord
<1>4. Head(p) \in Ids BY <1>1, HeadOK
<1>5. /\ \A i \in Ids : requests'[i].cmd = requests[i].cmd
      /\ \A i \in Ids : i # Head(p) => requests'[i] = requests[i]
      /\ requests'[Head(p)].status \in {requests[Head(p)].status, "done"}
  <2>1. CASE UNCHANGED requests BY <2>1
  <2>2. CASE Mark(Head(p), "done") BY <2>2, <1>4 DEF Mark, RowsInv, RowRecord
  <2> QED BY <2>1, <2>2
<1>6. Head(p)' = Head(p) BY <1>3 DEF Head
<1>7. \A i \in Ids : i # Head(p) => (Queued(p, i)' <=> Queued(p, i))
  BY <1>3, <1>6 DEF Queued
<1>8. \A i \in Ids : i = Head(p) => ~Queued(p, i)'
  BY <1>3, <1>6 DEF Queued, AtPc
<1>9. requests'[Head(p)].status = "done" =>
        requests[Head(p)].status = "done" \/ (AtPc(p, "mark") /\ UNCHANGED <<param, switch>>)
  OBVIOUS
<1>10. AtPc(p, "apply") => UNCHANGED requests BY DEF AtPc
<1> QED BY <1>1, <1>3, <1>5, <1>7, <1>8, <1>9, <1>10 DEF Moved

LEMMA NextRowMoves ==
  ASSUME RowsInv, UNCHANGED <<last, runner, toggling, lostToggle>>,
         NEW p \in Consumers, ~AtPc(p, "idle"), ~AtPc(p, "apply"), NextRow(p) \/ Escape(p),
         UNCHANGED requests \/ Mark(Head(p), "failed")
  PROVE  /\ Moved(p) /\ poller'[p].pc \in {"idle", "apply"}
         /\ requests'[Head(p)].status \in {requests[Head(p)].status, "failed"}
PROOF
<1> DEFINE rest == poller[p].batch \ {Head(p)}
<1>1. poller[p] \in PollerRecord /\ poller[p].pc # "idle" BY DEF RowsInv, AtPc
<1>2. Head(p) \in poller[p].batch /\ Head(p) \in Ids BY <1>1, HeadOK
<1>3. /\ \A i \in Ids : requests'[i].cmd = requests[i].cmd
      /\ \A i \in Ids : i # Head(p) => requests'[i] = requests[i]
      /\ requests'[Head(p)].status \in {requests[Head(p)].status, "failed"}
  <2>1. CASE UNCHANGED requests BY <2>1
  <2>2. CASE Mark(Head(p), "failed") BY <2>2, <1>2 DEF Mark, RowsInv, RowRecord
  <2> QED BY <2>1, <2>2
<1>4. \/ poller'[p].pc = "idle" /\ poller'[p].batch = {}
      \/ poller'[p].pc = "apply" /\ poller'[p].batch = rest
  BY DEF NextRow, Escape, Idle, RowsInv
<1>5. Head(p) \notin poller'[p].batch /\ poller'[p].batch \subseteq poller[p].batch
  BY <1>4
<1>6. ASSUME NEW i \in Ids, i # Head(p)
      PROVE  \/ Queued(p, i)' <=> Queued(p, i)
             \/ Queued(p, i) /\ i \notin poller'[p].batch
  <2>1. CASE i \in poller[p].batch
    <3>1. Queued(p, i) BY <2>1, <1>6 DEF Queued
    <3>2. i \in poller'[p].batch => Queued(p, i)'
      BY <1>4 DEF Queued, AtPc
    <3> QED BY <3>1, <3>2
  <2>2. CASE i \notin poller[p].batch BY <2>2, <1>5 DEF Queued
  <2> QED BY <2>1, <2>2
<1>7. \A i \in Ids : i = Head(p) => ~Queued(p, i)'
  BY <1>5 DEF Queued
<1>8. requests'[Head(p)].status = "done" => requests[Head(p)].status = "done"
  BY <1>3
<1>9. poller'[p].pc \in {"idle", "apply"} BY <1>4
<1> HIDE DEF rest
<1> QED BY <1>1, <1>3, <1>5, <1>6, <1>7, <1>8, <1>9 DEF Moved

Step(p) ==
  \/ ApplyKill(p) \/ CancelAll(p) \/ ApplyReset(p) \/ ApplyToggle(p)
  \/ ApplySet(p) \/ Merge(p) \/ MarkDone(p) \/ Emit(p) \/ MarkFailed(p)

LEMMA StepMoves ==
  ASSUME RowsInv, NEW p \in Consumers, Step(p)
  PROVE  Moved(p)
PROOF
<1> USE DEF coverage, dials, gateVars
<1>1. CASE ApplyKill(p) BY <1>1, GotoMoves DEF ApplyKill, AtPc
<1>2. CASE CancelAll(p) BY <1>2, GotoMoves DEF CancelAll, AtPc
<1>3. CASE ApplyReset(p) BY <1>3, GotoMoves DEF ApplyReset, AtPc
<1>4. CASE ApplyToggle(p) BY <1>4, GotoMoves DEF ApplyToggle, AtPc
<1>5. CASE ApplySet(p) BY <1>5, GotoMoves DEF ApplySet, AtPc
<1>6. CASE Merge(p) BY <1>6, GotoMoves DEF Merge, AtPc
<1>7. CASE MarkDone(p) BY <1>7, GotoMoves DEF MarkDone, AtPc
<1>8. CASE Emit(p) BY <1>8, GotoMoves, NextRowMoves DEF Emit, AtPc
<1>9. CASE MarkFailed(p) BY <1>9, NextRowMoves DEF MarkFailed, AtPc
<1> QED BY <1>1, <1>2, <1>3, <1>4, <1>5, <1>6, <1>7, <1>8, <1>9 DEF Step

\* A row is added at the end of the table.
Appended(cmd, status) ==
  /\ last + 1 \in Ids
  /\ Request(cmd, status)
  /\ CommandOK(cmd)
  /\ UNCHANGED <<poller, runner, param, switch>>

LEMMA AppendedRows ==
  ASSUME RowsInv, NEW cmd, NEW status, Appended(cmd, status)
  PROVE  /\ requests'[last + 1] = [status |-> status, cmd |-> cmd]
         /\ \A i \in Ids : i # last + 1 => requests'[i] = requests[i]
         /\ \A i \in Ids : i > last + 1 => requests'[i] = NoRequest
         /\ requests[last + 1] = NoRequest
         /\ last + 1 \in Ids
         /\ \A p \in Consumers : last + 1 \notin poller[p].batch
         /\ \A p \in Consumers : \A i \in Ids : Queued(p, i)' <=> Queued(p, i)
PROOF
<1>1. last \in Nat /\ last + 1 \in Ids BY Constants DEF Appended, RowsInv
<1>2. /\ requests'[last + 1] = [status |-> status, cmd |-> cmd]
      /\ \A i \in Ids : i # last + 1 => requests'[i] = requests[i]
  BY <1>1 DEF Appended, Request, RowsInv
<1>3. \A i \in Ids : i > last + 1 => requests'[i] = NoRequest
  BY <1>1, <1>2 DEF RowsInv, Ids
<1>4. requests[last + 1] = NoRequest BY <1>1 DEF RowsInv
<1>5. \A p \in Consumers : last + 1 \notin poller[p].batch
  BY <1>1 DEF RowsInv
<1>6. \A p \in Consumers : \A i \in Ids : Queued(p, i)' <=> Queued(p, i)
  BY DEF Appended, Queued, Head, AtPc
<1> QED BY <1>1, <1>2, <1>3, <1>4, <1>5, <1>6

\* Nothing the three invariants look at changes, except that a runner may start.
Quiet ==
  /\ UNCHANGED <<requests, poller, toggling, lostToggle, param, switch>>
  /\ Polling' => Polling

LEMMA Shapes ==
  ASSUME RowsInv, [Next]_vars
  PROVE  \/ Quiet
         \/ \E cmd \in Commands, status \in {"pending", "direct"} :
              /\ Appended(cmd, status) /\ cmd.op # "toggle"
              /\ UNCHANGED <<toggling, lostToggle>>
         \/ \E cmd \in Commands : StoreToggle(cmd)
         \/ EnqueueToggle
         \/ \E p \in Consumers : Claim(p) \/ Step(p)
         \/ Down \/ Hydrate \/ Recover
PROOF
<1> USE DEF coverage, dials, gateVars
<1>1. CASE Environment \/ CoverageTick \/ UNCHANGED vars
  BY <1>1 DEF Environment, AutoClose, MonitorRestores, ReportChanges, CoverageTick, vars,
              Quiet, Polling
<1>2. CASE Start BY <1>2 DEF Start, Quiet, Polling
<1>3. ASSUME NEW cmd \in Commands, Enqueue(cmd) \/ ByHand(cmd)
      PROVE  \E status \in {"pending", "direct"} :
               /\ Appended(cmd, status) /\ cmd.op # "toggle"
               /\ UNCHANGED <<toggling, lostToggle>>
  <2>1. CommandOK(cmd) BY Constants
  <2>2. CASE Enqueue(cmd) BY <2>1, <2>2, RoomOK DEF Enqueue, Appended
  <2>3. CASE ByHand(cmd) BY <2>1, <2>3, RoomOK DEF ByHand, Appended
  <2> QED BY <1>3, <2>2, <2>3
<1>4. CASE Api BY <1>3, <1>4 DEF Api, Direct, ConnectorSwitch
<1>5. ASSUME NEW p \in Consumers, Poll(p) PROVE Claim(p) \/ Step(p)
  BY <1>5 DEF Poll, Step
<1> QED BY <1>1, <1>2, <1>4, <1>5 DEF Next

\* What a claim does.
Claimed(p) ==
  /\ Polling
  /\ poller[p].pc = "idle"
  /\ UNCHANGED <<last, runner, param, switch, toggling, lostToggle>>
  /\ \A i \in Ids : requests'[i].cmd = requests[i].cmd
  /\ \E rows \in SUBSET Pending :
       /\ \A i \in Pending, j \in rows : i < j => i \in rows
       /\ \A i \in Ids \ rows : requests'[i] = requests[i]
       /\ \A i \in rows : requests'[i].status = "processing"
       /\ \/ poller' = [poller EXCEPT ![p] = [pc |-> "apply", batch |-> rows]]
          \/ UNCHANGED poller

LEMMA OldestFirst ==
  ASSUME NEW i \in Pending, NEW j \in Oldest(Pending, Limit), i < j
  PROVE  i \in Oldest(Pending, Limit)
PROOF
<1> DEFINE Below(k) == {n \in Pending : n < k}
<1>1. IsFiniteSet(Ids) BY Constants, FS_Interval DEF Ids
<1>2. Pending \subseteq Ids /\ Ids \subseteq Nat BY Constants DEF Pending, Ids
<1>3. i \in Nat /\ j \in Nat /\ j \in Pending BY <1>2 DEF Oldest
<1>4. Below(i) \subseteq Below(j) /\ Below(j) \subseteq Ids
  <2>1. \A n \in Pending : n \in Nat /\ (n < i => n < j) BY <1>2, <1>3
  <2> QED BY <1>2, <2>1
<1>5. IsFiniteSet(Below(j)) BY <1>1, <1>4, FS_Subset
<1>6. Cardinality(Below(i)) <= Cardinality(Below(j)) BY <1>4, <1>5, FS_Subset
<1>7. Cardinality(Below(i)) \in Nat /\ Cardinality(Below(j)) \in Nat
  BY <1>4, <1>5, FS_Subset, FS_CardinalityType
<1>8. Cardinality(Below(j)) < Limit BY DEF Oldest
<1>9. Cardinality(Below(i)) < Limit
  <2> HIDE DEF Below
  <2> QED BY <1>6, <1>7, <1>8, Constants
<1> QED BY <1>9 DEF Oldest

LEMMA ClaimClaims ==
  ASSUME RowsInv, NEW p \in Consumers, Claim(p)
  PROVE  Claimed(p)
PROOF
<1> USE DEF coverage, dials, gateVars
<1> DEFINE rows == Oldest(Pending, Limit)
<1>1. rows \in SUBSET Pending BY DEF Oldest
<1>2. /\ requests' = [i \in Ids |-> IF i \in rows
                        THEN [requests[i] EXCEPT !.status = "processing"] ELSE requests[i]]
      /\ \/ poller' = [poller EXCEPT ![p] = [pc |-> "apply", batch |-> rows]]
         \/ UNCHANGED poller
  BY DEF Claim
<1>3. Pending \subseteq Ids BY DEF Pending
<1>4. /\ \A i \in Ids : requests'[i].cmd = requests[i].cmd
      /\ \A i \in Ids \ rows : requests'[i] = requests[i]
      /\ \A i \in rows : requests'[i].status = "processing"
  <2> HIDE DEF rows
  <2>1. \A i \in Ids : requests[i] \in RowRecord BY DEF RowsInv
  <2> QED BY <1>1, <1>2, <1>3, <2>1 DEF RowRecord
<1>5. \A i \in Pending, j \in rows : i < j => i \in rows
  BY OldestFirst
<1>6. /\ Polling /\ poller[p].pc = "idle"
      /\ UNCHANGED <<last, runner, param, switch, toggling, lostToggle>>
  BY DEF Claim, AtPc
<1> HIDE DEF rows
<1> QED BY <1>1, <1>2, <1>4, <1>5, <1>6 DEF Claimed

LEMMA Recovered ==
  ASSUME RowsInv, Recover
  PROVE  /\ last + 1 \in Ids /\ runner = "down"
         /\ \A p \in Consumers : poller[p] = Idle
         /\ UNCHANGED <<poller, toggling, lostToggle>>
         /\ param' = HydrateParameter /\ switch' = HydrateSwitch
         /\ requests[last + 1] = NoRequest
         /\ requests'[last + 1].status = "direct" /\ requests'[last + 1].cmd.op = "reset"
         /\ \A i \in Ids : i # last + 1 => requests'[i].cmd = requests[i].cmd
         /\ \A i \in Ids : i # last + 1 /\ requests'[i] # requests[i] =>
              /\ requests'[i].status = "deleted" /\ requests[i].cmd.op = "kill"
PROOF
<1>1. last + 1 \in Ids /\ last \in Nat BY RoomOK, Constants DEF Recover, RowsInv
<1>2. runner = "down" /\ UNCHANGED <<poller, toggling, lostToggle>>
      /\ param' = HydrateParameter /\ switch' = HydrateSwitch
  BY DEF Recover
<1>3. \A i \in Ids : requests[i] \in RowRecord BY DEF RowsInv
<1>4. requests[last + 1] = NoRequest BY <1>1 DEF RowsInv
<1>5. requests'[last + 1].status = "direct" /\ requests'[last + 1].cmd.op = "reset"
  BY <1>1 DEF Recover
<1>6. \A i \in Ids : i # last + 1 => requests'[i].cmd = requests[i].cmd
  BY <1>1, <1>3 DEF Recover, RowRecord
<1>7. \A i \in Ids : i # last + 1 /\ requests'[i] # requests[i] =>
        requests'[i].status = "deleted" /\ requests[i].cmd.op = "kill"
  BY <1>1, <1>3 DEF Recover, RowRecord
<1> QED BY <1>1, <1>2, <1>4, <1>5, <1>6, <1>7 DEF RowsInv
----------------------------------------------------------------------------
(* The rows are settled in the order of the commands *)

LEMMA OrderNext ==
  ASSUME RowsInv, RowsInv', SinglePoller, OrderInv, [Next]_vars
  PROVE  OrderInv'
PROOF
<1> USE DEF OrderInv
<1>0. Ids \subseteq Nat BY Constants DEF Ids
<1>1. CASE Quiet
  BY <1>1 DEF Quiet, ClaimedInOrder, BatchOldest, ToggleRows
<1>2. ASSUME NEW cmd, NEW status \in {"pending", "direct"}, Appended(cmd, status),
             cmd.op = "toggle" => status = "pending"
      PROVE  OrderInv'
  <2>1. /\ requests'[last + 1] = [status |-> status, cmd |-> cmd]
        /\ \A i \in Ids : i # last + 1 => requests'[i] = requests[i]
        /\ \A i \in Ids : i > last + 1 => requests'[i] = NoRequest
        /\ last + 1 \in Ids /\ UNCHANGED poller
    BY <1>2, AppendedRows DEF Appended
  <2>2. ClaimedInOrder'
    <3> SUFFICES ASSUME NEW i \in Ids, NEW j \in Ids, i < j,
                        requests'[j].status \in {"processing", "done", "failed"}
                 PROVE  requests'[i].status # "pending"
      BY DEF ClaimedInOrder
    <3>1. j # last + 1 /\ ~(j > last + 1) BY <2>1 DEF NoRequest
    <3>2. i # last + 1 BY <1>0, <2>1, <3>1
    <3> QED BY <2>1, <3>1, <3>2 DEF ClaimedInOrder
  <2>3. BatchOldest' BY <2>1 DEF BatchOldest
  <2>4. ToggleRows' BY <1>2, <2>1 DEF ToggleRows
  <2> QED BY <2>2, <2>3, <2>4
<1>3. ASSUME NEW cmd \in Commands, StoreToggle(cmd) PROVE OrderInv'
  BY <1>3 DEF StoreToggle, ClaimedInOrder, BatchOldest, ToggleRows
<1>4. CASE EnqueueToggle
  <2> DEFINE row == [op |-> "toggle", brokers |-> {}, value |-> toggling]
  <2>1. CASE Appended(row, "pending") BY <1>2, <2>1
  <2>2. CASE ~Appended(row, "pending")
    <3>1. toggling \in {0, 1} /\ last + 1 \in Ids
      BY <1>4, Constants DEF EnqueueToggle, RowsInv, Ids
    <3>2. CommandOK(row) BY <3>1 DEF CommandOK, Command
    <3>3. UNCHANGED <<requests, poller>>
      BY <1>4, <2>2, <3>1, <3>2 DEF EnqueueToggle, Appended
    <3> QED BY <3>3 DEF ClaimedInOrder, BatchOldest, ToggleRows
  <2> QED BY <2>1, <2>2
<1>5. ASSUME NEW p \in Consumers, Claimed(p) PROVE OrderInv'
  <2>1. PICK rows \in SUBSET Pending :
          /\ \A i \in Pending, j \in rows : i < j => i \in rows
          /\ \A i \in Ids \ rows : requests'[i] = requests[i]
          /\ \A i \in rows : requests'[i].status = "processing"
          /\ \/ poller' = [poller EXCEPT ![p] = [pc |-> "apply", batch |-> rows]]
             \/ UNCHANGED poller
    BY <1>5 DEF Claimed
  <2>2. ClaimedInOrder'
    <3> SUFFICES ASSUME NEW i \in Ids, NEW j \in Ids, i < j,
                        requests'[j].status \in {"processing", "done", "failed"},
                        requests'[i].status = "pending"
                 PROVE  FALSE
      BY DEF ClaimedInOrder
    <3>1. i \notin rows /\ requests[i].status = "pending" /\ i \in Pending
      BY <2>1 DEF Pending
    <3>2. j \notin rows BY <2>1, <3>1
    <3> QED BY <2>1, <3>1, <3>2 DEF ClaimedInOrder
  <2>3. BatchOldest'
    <3> SUFFICES ASSUME NEW q \in Consumers, NEW i \in poller'[q].batch, NEW j \in Ids, i < j,
                        requests'[j].status \in {"done", "failed"}
                 PROVE  FALSE
      BY DEF BatchOldest
    <3>1. j \notin rows /\ requests'[j] = requests[j] BY <2>1
    <3>2. q = p BY DEF SinglePoller
    <3>3. CASE UNCHANGED poller BY <3>1, <3>3 DEF BatchOldest
    <3>4. CASE poller' = [poller EXCEPT ![p] = [pc |-> "apply", batch |-> rows]]
      <4>1. i \in rows BY <3>2, <3>4 DEF RowsInv
      <4>2. i \in Ids /\ requests[i].status = "pending" BY <4>1 DEF Pending
      <4> QED BY <3>1, <4>2 DEF ClaimedInOrder
    <3> QED BY <2>1, <3>3, <3>4
  <2>4. ToggleRows'
    BY <1>5, <2>1 DEF ToggleRows, Claimed
  <2> QED BY <2>2, <2>3, <2>4
<1>6. ASSUME NEW p \in Consumers, Step(p) PROVE OrderInv'
  <2>1. Moved(p) BY <1>6, StepMoves
  <2>2. /\ Head(p) \in poller[p].batch /\ Head(p) \in Ids
        /\ \A i \in poller[p].batch : Head(p) <= i /\ i \in Ids
    BY <2>1, HeadOK DEF Moved, RowsInv, PollerRecord
  <2>3. requests[Head(p)].status \in {"processing", "done"} BY <2>2 DEF RowsInv
  <2>4. \A i \in Ids :
          /\ requests'[i].status = "pending" => requests[i].status = "pending"
          /\ requests'[i].status \in {"processing", "done", "failed"}
             <=> requests[i].status \in {"processing", "done", "failed"}
    BY <2>1, <2>3 DEF Moved
  <2>5. ClaimedInOrder' BY <2>4 DEF ClaimedInOrder
  <2>6. BatchOldest'
    <3> SUFFICES ASSUME NEW q \in Consumers, NEW i \in poller'[q].batch, NEW j \in Ids, i < j,
                        requests'[j].status \in {"done", "failed"}
                 PROVE  FALSE
      BY DEF BatchOldest
    <3>1. q = p /\ i \in poller[p].batch BY <2>1 DEF SinglePoller, Moved
    <3>2. j # Head(p) BY <1>0, <2>2, <3>1
    <3> QED BY <2>1, <3>1, <3>2 DEF BatchOldest, Moved
  <2>7. ToggleRows'
    BY <2>1, <2>3 DEF ToggleRows, Moved
  <2> QED BY <2>5, <2>6, <2>7
<1>7. CASE Down
  <2>1. requests' = requests /\ \A p \in Consumers : poller'[p].batch = {}
    BY <1>7 DEF Down, Idle
  <2> QED BY <2>1 DEF ClaimedInOrder, BatchOldest, ToggleRows
<1>8. CASE Hydrate
  BY <1>8 DEF Hydrate, ClaimedInOrder, BatchOldest, ToggleRows
<1>9. CASE Recover
  <2>1. /\ last + 1 \in Ids
        /\ \A p \in Consumers : poller'[p].batch = {}
        /\ requests'[last + 1].status = "direct" /\ requests'[last + 1].cmd.op = "reset"
        /\ \A i \in Ids : i # last + 1 => requests'[i].cmd = requests[i].cmd
        /\ \A i \in Ids : i # last + 1 /\ requests'[i] # requests[i] =>
              /\ requests'[i].status = "deleted" /\ requests[i].cmd.op = "kill"
    BY <1>9, Recovered DEF Idle
  <2>2. ClaimedInOrder'
    <3> SUFFICES ASSUME NEW i \in Ids, NEW j \in Ids, i < j,
                        requests'[j].status \in {"processing", "done", "failed"},
                        requests'[i].status = "pending"
                 PROVE  FALSE
      BY DEF ClaimedInOrder
    <3>1. i # last + 1 /\ j # last + 1 BY <2>1
    <3>2. requests'[i] = requests[i] /\ requests'[j] = requests[j] BY <2>1, <3>1
    <3> QED BY <3>2 DEF ClaimedInOrder
  <2>3. BatchOldest' BY <2>1 DEF BatchOldest
  <2>4. ToggleRows' BY <2>1 DEF ToggleRows
  <2> QED BY <2>2, <2>3, <2>4
<1> QED BY <1>1, <1>2, <1>3, <1>4, <1>5, <1>6, <1>7, <1>8, <1>9, Shapes, ClaimClaims
----------------------------------------------------------------------------
(* The switch *)

Live(i) == requests[i].cmd.op = "toggle" /\ (Waiting(i) \/ Orphan(i))

\* The switch's part of a state that no step but a toggle touches.
LEMMA SwitchKept ==
  ASSUME ToggleAgrees, StoredNewest, UNCHANGED <<switch, toggling, lostToggle>>,
         Polling' => Polling,
         \A i \in Ids : Live(i) => Live(i)',
         \A i \in Ids : /\ requests'[i].cmd.op = "toggle" <=> requests[i].cmd.op = "toggle"
                        /\ requests[i].cmd.op = "toggle" => requests'[i].cmd = requests[i].cmd
  PROVE  ToggleAgrees' /\ StoredNewest'
PROOF
<1>1. ToggleAgrees' BY DEF ToggleAgrees, Live
<1>2. \A i \in Ids : NewestToggle(i)' => NewestToggle(i) /\ requests'[i].cmd = requests[i].cmd
  BY DEF NewestToggle
<1>3. StoredNewest' BY <1>2 DEF StoredNewest
<1> QED BY <1>1, <1>3

\* No step of the poller loses a toggle: a row it does not take up stays on its way.
LEMMA LiveKept ==
  ASSUME RowsInv, SinglePoller, NEW p \in Consumers, Moved(p),
         NEW i \in Ids, Live(i), i = Head(p) => ~AtPc(p, "apply")
  PROVE  Live(i)'
PROOF
<1>1. Head(p) \in poller[p].batch /\ Head(p) \in Ids BY HeadOK DEF Moved
<1>2. requests[Head(p)].status # "pending" BY <1>1 DEF RowsInv
<1>3. i # Head(p)
  BY <1>1, <1>2 DEF Live, Waiting, Orphan, Queued, SinglePoller
<1>4. requests'[i] = requests[i] BY <1>3 DEF Moved
<1>5. CASE requests[i].status = "pending" BY <1>4, <1>5 DEF Live, Waiting
<1>6. CASE Queued(p, i)
  <2>1. CASE Queued(p, i)' BY <1>4, <2>1 DEF Live, Waiting
  <2>2. CASE i \notin poller'[p].batch
    <3>1. requests[i].status = "processing" BY <1>6 DEF RowsInv, Queued
    <3> QED BY <1>4, <2>2, <3>1 DEF Live, Orphan, SinglePoller
  <2> QED BY <1>3, <1>6, <2>1, <2>2 DEF Moved
<1>7. CASE Orphan(i)
  <2>1. i \notin poller'[p].batch BY <1>7 DEF Orphan, Moved
  <2> QED BY <1>4, <1>7, <2>1 DEF Live, Orphan, SinglePoller
<1>8. requests[i].status = "pending" \/ Queued(p, i) \/ Orphan(i)
  BY DEF Live, Waiting, SinglePoller
<1> QED BY <1>5, <1>6, <1>7, <1>8

LEMMA LiveClaimed ==
  ASSUME RowsInv, SinglePoller, NEW p \in Consumers, Claimed(p), NEW i \in Ids, Live(i)
  PROVE  Live(i)'
PROOF
<1>1. PICK rows \in SUBSET Pending :
        /\ \A j \in Ids \ rows : requests'[j] = requests[j]
        /\ \A j \in rows : requests'[j].status = "processing"
        /\ \/ poller' = [poller EXCEPT ![p] = [pc |-> "apply", batch |-> rows]]
           \/ UNCHANGED poller
  BY DEF Claimed
<1>2. poller[p].batch = {} BY DEF Claimed, RowsInv
<1>3. requests'[i].cmd = requests[i].cmd BY DEF Claimed
<1>4. requests[i].status \in {"pending", "processing"} /\ (\A q \in Consumers : ~Queued(q, i))
  BY <1>2 DEF Live, Waiting, Orphan, Queued, SinglePoller
<1>5. CASE i \in rows
  <2>1. CASE UNCHANGED poller
    BY <1>1, <1>2, <1>3, <1>5, <2>1 DEF Live, Orphan, SinglePoller
  <2>2. CASE poller' = [poller EXCEPT ![p] = [pc |-> "apply", batch |-> rows]]
    <3>1. poller'[p] = [pc |-> "apply", batch |-> rows] BY <2>2 DEF RowsInv
    <3>2. Queued(p, i)' BY <1>5, <3>1 DEF Queued, AtPc
    <3> QED BY <1>3, <3>2 DEF Live, Waiting
  <2> QED BY <1>1, <2>1, <2>2
<1>6. CASE i \notin rows
  <2>1. requests'[i] = requests[i] BY <1>1, <1>6
  <2>2. poller'[p].batch \subseteq rows
    BY <1>1, <1>2 DEF RowsInv
  <2>3. \A q \in Consumers : i \notin poller'[q].batch
    BY <1>6, <2>2 DEF SinglePoller
  <2> QED BY <1>4, <2>1, <2>3 DEF Live, Waiting, Orphan
<1> QED BY <1>5, <1>6

LEMMA LiveAppended ==
  ASSUME RowsInv, NEW cmd, NEW status, Appended(cmd, status), NEW i \in Ids, Live(i)
  PROVE  Live(i)'
PROOF
<1>1. i # last + 1
  <2>1. requests[last + 1] = NoRequest BY AppendedRows
  <2> QED BY <2>1 DEF Live, NoRequest, NoCommand
<1>2. requests'[i] = requests[i] /\ \A p \in Consumers : Queued(p, i)' <=> Queued(p, i)
  BY <1>1, AppendedRows
<1>3. UNCHANGED poller BY DEF Appended
<1> QED BY <1>2, <1>3 DEF Live, Waiting, Orphan

LEMMA ToggleTaken ==
  ASSUME RowsInv, DialsInv, SinglePoller, OrderInv, StoredNewest,
         NEW p \in Consumers, ApplyToggle(p)
  PROVE  ToggleAgrees' /\ StoredNewest'
PROOF
<1> USE DEF dials
<1>1. /\ UNCHANGED <<requests, toggling, lostToggle>>
      /\ switch' = [switch EXCEPT !.memory = HeadCmd(p).value]
      /\ HeadCmd(p).op = "toggle" /\ poller[p].pc = "apply" /\ Goto(p, "mark")
  BY DEF ApplyToggle, AtPc
<1>2. /\ switch'.stored = switch.stored /\ switch'.memory = HeadCmd(p).value
  BY <1>1 DEF DialsInv
<1>3. StoredNewest' BY <1>1, <1>2 DEF StoredNewest, NewestToggle
<1>4. /\ Head(p) \in poller[p].batch /\ Head(p) \in Ids
      /\ HeadCmd(p).value \in {0, 1}
  BY <1>1, HeadOK DEF CommandOK
<1>5. poller'[p].batch = poller[p].batch /\ poller'[p].pc = "mark"
  BY <1>1 DEF Goto, RowsInv, PollerRecord
<1>6. Head(p)' = Head(p) BY <1>5 DEF Head
<1>7. ASSUME toggling = NoValue, ~lostToggle, ~NewestToggle(Head(p))
      PROVE  \E i \in Ids : requests'[i].cmd.op = "toggle" /\ (Waiting(i)' \/ Orphan(i)')
  <2>1. PICK j \in Ids : j > Head(p) /\ requests[j].cmd.op = "toggle"
    BY <1>1, <1>4, <1>7 DEF NewestToggle, HeadCmd
  <2>2. j # Head(p) /\ Head(p) < j BY <1>4, <2>1, Constants DEF Ids
  <2>3. requests[j].status \in {"pending", "processing"}
    BY <1>4, <2>1, <2>2 DEF OrderInv, ToggleRows, BatchOldest
  <2>4. CASE requests[j].status = "pending" BY <1>1, <2>1, <2>4 DEF Waiting
  <2>5. CASE j \in poller[p].batch
    <3>1. Queued(p, j)' BY <1>5, <1>6, <2>2, <2>5 DEF Queued
    <3> QED BY <1>1, <2>1, <3>1 DEF Waiting
  <2>6. CASE requests[j].status = "processing" /\ j \notin poller[p].batch
    BY <1>1, <1>5, <2>1, <2>6 DEF Orphan, SinglePoller
  <2> QED BY <2>3, <2>4, <2>5, <2>6
<1>8. ASSUME toggling = NoValue, ~lostToggle, NewestToggle(Head(p))
      PROVE  switch'.memory = OrElse(switch'.stored, Enabled)
  BY <1>2, <1>4, <1>8 DEF StoredNewest, OrElse, HeadCmd, NoValue
<1>9. ToggleAgrees' BY <1>1, <1>7, <1>8 DEF ToggleAgrees
<1> QED BY <1>3, <1>9

LEMMA ToggleNext ==
  ASSUME RowsInv, DialsInv, SinglePoller, OrderInv, StoredNewest, ToggleAgrees, [Next]_vars
  PROVE  StoredNewest' /\ ToggleAgrees'
PROOF
<1> USE DEF coverage, dials, gateVars
<1>1. CASE Quiet
  <2>1. \A i \in Ids : Live(i) => Live(i)'
    BY <1>1 DEF Quiet, Live, Waiting, Orphan, Queued, Head, AtPc
  <2> QED BY <1>1, <2>1, SwitchKept DEF Quiet
<1>2. ASSUME NEW cmd \in Commands, NEW status \in {"pending", "direct"}, Appended(cmd, status),
             cmd.op # "toggle", UNCHANGED <<toggling, lostToggle>>
      PROVE  StoredNewest' /\ ToggleAgrees'
  <2>1. \A i \in Ids : Live(i) => Live(i)' BY <1>2, LiveAppended
  <2>2. /\ requests[last + 1] = NoRequest
        /\ requests'[last + 1] = [status |-> status, cmd |-> cmd]
        /\ \A i \in Ids : i # last + 1 => requests'[i] = requests[i]
    BY <1>2, AppendedRows
  <2>3. \A i \in Ids : /\ requests'[i].cmd.op = "toggle" <=> requests[i].cmd.op = "toggle"
                       /\ requests[i].cmd.op = "toggle" => requests'[i].cmd = requests[i].cmd
    BY <1>2, <2>2 DEF NoRequest, NoCommand
  <2>4. UNCHANGED <<switch, runner>> BY <1>2 DEF Appended
  <2> QED BY <1>2, <2>1, <2>3, <2>4, SwitchKept DEF Polling
<1>3. ASSUME NEW cmd \in Commands, StoreToggle(cmd) PROVE StoredNewest' /\ ToggleAgrees'
  <2>1. toggling' = cmd.value /\ cmd.value \in {0, 1}
    BY <1>3, Constants DEF StoreToggle, CommandOK
  <2>2. toggling' # NoValue BY <2>1 DEF NoValue
  <2>3. switch'.stored = cmd.value BY <1>3 DEF StoreToggle, DialsInv
  <2> QED BY <2>1, <2>2, <2>3 DEF StoredNewest, ToggleAgrees
<1>4. CASE EnqueueToggle
  <2> DEFINE row == [op |-> "toggle", brokers |-> {}, value |-> toggling]
  <2>1. toggling \in {0, 1} /\ last + 1 \in Ids /\ toggling' = NoValue /\ UNCHANGED switch
        /\ switch.stored = toggling
    BY <1>4, Constants DEF EnqueueToggle, RowsInv, Ids, StoredNewest
  <2>2. CASE Request(row, "pending") /\ UNCHANGED lostToggle
    <3>1. Appended(row, "pending")
      BY <1>4, <2>1, <2>2 DEF EnqueueToggle, Appended, CommandOK, Command
    <3>2. /\ requests'[last + 1] = [status |-> "pending", cmd |-> row]
          /\ \A i \in Ids : i > last + 1 => requests'[i] = NoRequest
      BY <3>1, AppendedRows
    <3>3. \A i \in Ids : NewestToggle(i)' => i = last + 1
      <4> SUFFICES ASSUME NEW i \in Ids, NewestToggle(i)', i # last + 1 PROVE FALSE
        OBVIOUS
      <4>1. ~(last + 1 > i) BY <2>1, <3>2 DEF NewestToggle
      <4>2. i > last + 1 BY <4>1, <2>1, Constants DEF Ids
      <4> QED BY <3>2, <4>2 DEF NewestToggle, NoRequest, NoCommand
    <3>4. StoredNewest' BY <2>1, <3>2, <3>3 DEF StoredNewest
    <3>5. PICK i \in Ids : i = last + 1 BY <2>1
    <3>6. requests'[i].cmd.op = "toggle" /\ Waiting(i)'
      BY <3>2, <3>5 DEF Waiting
    <3>7. ToggleAgrees' BY <2>1, <3>6 DEF ToggleAgrees
    <3> QED BY <3>4, <3>7
  <2>3. CASE lostToggle' = TRUE
    BY <2>1, <2>3 DEF StoredNewest, ToggleAgrees
  <2> QED BY <1>4, <2>2, <2>3 DEF EnqueueToggle
<1>5. ASSUME NEW p \in Consumers, Claimed(p) PROVE StoredNewest' /\ ToggleAgrees'
  <2>1. \A i \in Ids : Live(i) => Live(i)' BY <1>5, LiveClaimed
  <2>2. /\ UNCHANGED <<switch, toggling, lostToggle, runner>>
        /\ \A i \in Ids : requests'[i].cmd = requests[i].cmd
    BY <1>5 DEF Claimed
  <2> QED BY <2>1, <2>2, SwitchKept DEF Polling
<1>6. ASSUME NEW p \in Consumers, Step(p) PROVE StoredNewest' /\ ToggleAgrees'
  <2>1. CASE ApplyToggle(p) BY <2>1, ToggleTaken
  <2>2. CASE ~ApplyToggle(p)
    <3>1. Moved(p) BY <1>6, StepMoves
    <3>2. UNCHANGED switch
      BY <1>6, <2>2 DEF Step, ApplyKill, CancelAll, ApplyReset, ApplySet, Merge, MarkDone,
                        Emit, MarkFailed
    <3>3. AtPc(p, "apply") => HeadCmd(p).op # "toggle"
      BY <1>6, <2>2 DEF Step, ApplyKill, CancelAll, ApplyReset, ApplySet, Merge, MarkDone,
                        Emit, MarkFailed, AtPc
    <3>4. ASSUME NEW i \in Ids, Live(i) PROVE Live(i)'
      <4>1. i = Head(p) => ~AtPc(p, "apply") BY <3>3, <3>4 DEF Live, HeadCmd
      <4> QED BY <3>1, <3>4, <4>1, LiveKept
    <3>5. /\ UNCHANGED <<toggling, lostToggle, runner>>
          /\ \A i \in Ids : requests'[i].cmd = requests[i].cmd
      BY <3>1 DEF Moved
    <3> QED BY <3>2, <3>4, <3>5, SwitchKept DEF Polling
  <2> QED BY <2>1, <2>2
<1>7. CASE Down
  <2>1. ~Polling' /\ switch'.stored = switch.stored /\ UNCHANGED <<requests, toggling, lostToggle>>
    BY <1>7 DEF Down, Polling, DialsInv
  <2> QED BY <2>1 DEF ToggleAgrees, StoredNewest, NewestToggle
<1>8. CASE Hydrate \/ Recover
  <2>1. switch' = HydrateSwitch /\ UNCHANGED <<toggling, lostToggle>>
    BY <1>8 DEF Hydrate, Recover
  <2>2. switch'.stored = switch.stored /\ switch'.memory = OrElse(switch'.stored, Enabled)
    BY <2>1 DEF HydrateSwitch, DialsInv
  <2>3. \A i \in Ids : NewestToggle(i)' => NewestToggle(i) /\ requests'[i].cmd = requests[i].cmd
    <3>1. CASE Hydrate BY <3>1 DEF Hydrate, NewestToggle
    <3>2. CASE Recover
      <4>1. /\ requests[last + 1] = NoRequest /\ requests'[last + 1].cmd.op = "reset"
            /\ \A i \in Ids : i # last + 1 => requests'[i].cmd = requests[i].cmd
        BY <3>2, Recovered
      <4> QED BY <4>1 DEF NewestToggle, NoRequest, NoCommand
    <3> QED BY <1>8, <3>1, <3>2
  <2>4. StoredNewest' BY <2>1, <2>2, <2>3 DEF StoredNewest
  <2> QED BY <2>2, <2>4 DEF ToggleAgrees
<1> QED BY <1>1, <1>2, <1>3, <1>4, <1>5, <1>6, <1>7, <1>8, Shapes, ClaimClaims
----------------------------------------------------------------------------
(* The parameter *)

LEMMA ParameterKept ==
  ASSUME ParameterDurable,
         \A i \in Ids : requests'[i].cmd.op = "set" /\ requests'[i].status = "done"
                      => requests[i].status = "done" /\ requests'[i].cmd = requests[i].cmd,
         \A i \in Ids : MayHaveSet(i) => MayHaveSet(i)',
         param'.stored = param.stored,
         Polling' => Polling /\ param'.memory = param.memory
  PROVE  ParameterDurable'
PROOF BY DEF ParameterDurable, Ids

\* A command that may have changed the parameter stays one that may have.
LEMMA MayHaveSetMoves ==
  ASSUME RowsInv, SinglePoller, NEW p \in Consumers, Moved(p), NEW i \in Ids, MayHaveSet(i)
  PROVE  MayHaveSet(i)'
PROOF
<1>1. requests'[i].cmd = requests[i].cmd BY DEF Moved
<1>2. requests'[i].status \notin {"none", "pending"} BY DEF Moved, MayHaveSet
<1>3. ~Queued(p, i)' BY DEF Moved, MayHaveSet
<1>4. \A q \in Consumers : ~Queued(q, i)' BY <1>3 DEF SinglePoller
<1> QED BY <1>1, <1>2, <1>4 DEF MayHaveSet

LEMMA MayHaveSetClaimed ==
  ASSUME RowsInv, SinglePoller, NEW p \in Consumers, Claimed(p), NEW i \in Ids, MayHaveSet(i)
  PROVE  MayHaveSet(i)'
PROOF
<1>1. PICK rows \in SUBSET Pending :
        /\ \A j \in Ids \ rows : requests'[j] = requests[j]
        /\ \/ poller' = [poller EXCEPT ![p] = [pc |-> "apply", batch |-> rows]]
           \/ UNCHANGED poller
  BY DEF Claimed
<1>2. poller[p].batch = {} BY DEF Claimed, RowsInv
<1>3. i \notin rows BY DEF MayHaveSet, Pending
<1>4. requests'[i] = requests[i] BY <1>1, <1>3
<1>5. poller'[p].batch \subseteq rows BY <1>1, <1>2 DEF RowsInv
<1>6. \A q \in Consumers : ~Queued(q, i)' BY <1>3, <1>5 DEF Queued, SinglePoller
<1> QED BY <1>4, <1>6 DEF MayHaveSet

\* The poller's batch and its oldest command are not touched: what it has done to
\* the parameter stands.
LEMMA InForceKept ==
  ASSUME RowsInv, SetInForce, UNCHANGED <<poller, param>>,
         \A p \in Consumers : poller[p].pc # "idle" => HeadCmd(p)' = HeadCmd(p)
  PROVE  SetInForce'
PROOF BY DEF SetInForce, AtPc, Head

LEMMA HeadCmdKept ==
  ASSUME RowsInv, UNCHANGED poller,
         \A i \in Ids : requests'[i].cmd = requests[i].cmd \/ requests[i] = NoRequest
  PROVE  \A p \in Consumers : poller[p].pc # "idle" => HeadCmd(p)' = HeadCmd(p)
PROOF
<1> SUFFICES ASSUME NEW p \in Consumers, poller[p].pc # "idle"
             PROVE  HeadCmd(p)' = HeadCmd(p)
  OBVIOUS
<1>1. Head(p) \in poller[p].batch /\ Head(p) \in Ids BY HeadOK
<1>2. requests[Head(p)] # NoRequest BY <1>1 DEF RowsInv, NoRequest
<1>3. Head(p)' = Head(p) BY DEF Head
<1> QED BY <1>1, <1>2, <1>3 DEF HeadCmd

LEMMA AllIdle ==
  ASSUME \A p \in Consumers : poller'[p] = Idle
  PROVE  SetInForce'
PROOF BY DEF SetInForce, AtPc, Idle

\* The only poller is at a label that says nothing of the parameter.
LEMMA SilentLabel ==
  ASSUME SinglePoller, NEW p \in Consumers,
         \/ poller'[p].pc \in {"idle", "apply", "fail"}
         \/ HeadCmd(p)'.op = "kill" /\ poller'[p].pc \in {"cancel", "mark"}
         \/ HeadCmd(p)'.op # "set" /\ poller'[p].pc \in {"mark", "emit"}
  PROVE  SetInForce'
PROOF BY DEF SetInForce, AtPc, SinglePoller

\* The only poller has just put its command in force.
LEMMA LoudLabel ==
  ASSUME SinglePoller, NEW p \in Consumers,
         HeadCmd(p)'.op = "set", HeadCmd(p)'.value \in InBounds,
         param'.memory = HeadCmd(p)'.value,
         \/ poller'[p].pc = "merge"
         \/ poller'[p].pc \in {"mark", "emit"} /\ param'.stored = HeadCmd(p)'.value
  PROVE  SetInForce'
PROOF BY DEF SetInForce, AtPc, SinglePoller

LEMMA GotoInForce ==
  ASSUME RowsInv, NEW p \in Consumers, Moved(p), NEW label, Goto(p, label)
  PROVE  poller'[p].pc = label /\ Head(p)' = Head(p) /\ HeadCmd(p)' = HeadCmd(p)
PROOF
<1>1. poller'[p].pc = label /\ poller'[p].batch = poller[p].batch
  BY DEF Goto, RowsInv, PollerRecord
<1>2. Head(p)' = Head(p) BY <1>1 DEF Head
<1>3. Head(p) \in Ids BY HeadOK DEF Moved
<1>4. requests'[Head(p)].cmd = requests[Head(p)].cmd BY <1>3 DEF Moved
<1> QED BY <1>1, <1>2, <1>4 DEF HeadCmd

LEMMA StepInForce ==
  ASSUME RowsInv, DialsInv, SinglePoller, SetInForce, NEW p \in Consumers, Step(p)
  PROVE  SetInForce'
PROOF
<1> USE DEF dials
<1>1. Moved(p) BY StepMoves
<1>2. \A label : Goto(p, label) =>
        poller'[p].pc = label /\ HeadCmd(p)' = HeadCmd(p)
  BY <1>1, GotoInForce
<1>3. CASE ApplyKill(p) \/ CancelAll(p)
  <2>1. HeadCmd(p).op = "kill" BY <1>3 DEF ApplyKill, CancelAll, SetInForce
  <2>2. HeadCmd(p)' = HeadCmd(p) /\ poller'[p].pc \in {"cancel", "mark"}
    BY <1>2, <1>3 DEF ApplyKill, CancelAll
  <2> QED BY <2>1, <2>2, SilentLabel
<1>4. CASE ApplyReset(p) \/ ApplyToggle(p)
  <2>1. HeadCmd(p).op # "set" BY <1>4 DEF ApplyReset, ApplyToggle
  <2>2. HeadCmd(p)' = HeadCmd(p) /\ poller'[p].pc = "mark"
    BY <1>2, <1>4 DEF ApplyReset, ApplyToggle
  <2> QED BY <2>1, <2>2, SilentLabel
<1>5. CASE ApplySet(p)
  <2>1. CASE HeadCmd(p).value \in InBounds
    <3>1. param' = [param EXCEPT !.memory = HeadCmd(p).value] /\ HeadCmd(p).op = "set"
          /\ Goto(p, "merge")
      BY <1>5, <2>1 DEF ApplySet
    <3>2. param'.memory = HeadCmd(p).value BY <3>1 DEF DialsInv
    <3> QED BY <1>2, <2>1, <3>1, <3>2, LoudLabel
  <2>2. CASE HeadCmd(p).value \notin InBounds
    <3>1. poller'[p].pc = "fail" BY <1>2, <1>5, <2>2 DEF ApplySet
    <3> QED BY <3>1, SilentLabel
  <2> QED BY <2>1, <2>2
<1>6. CASE Merge(p)
  <2>1. HeadCmd(p).op = "set" /\ HeadCmd(p).value \in InBounds
        /\ param.memory = HeadCmd(p).value
    BY <1>6 DEF Merge, AtPc, SetInForce
  <2>2. CASE Goto(p, "fail")
    <3>1. poller'[p].pc = "fail" BY <1>2, <2>2
    <3> QED BY <3>1, SilentLabel
  <2>3. CASE Goto(p, "mark") /\ \/ param' = [param EXCEPT !.stored = HeadCmd(p).value,
                                                       !.yaml = HeadCmd(p).value]
                                \/ param' = [param EXCEPT !.stored = HeadCmd(p).value]
    <3>1. param'.memory = HeadCmd(p).value /\ param'.stored = HeadCmd(p).value
      BY <2>1, <2>3 DEF DialsInv
    <3>2. HeadCmd(p)' = HeadCmd(p) /\ poller'[p].pc = "mark" BY <1>2, <2>3
    <3> QED BY <2>1, <3>1, <3>2, LoudLabel
  <2> QED BY <1>6, <2>2, <2>3 DEF Merge
<1>7. CASE MarkDone(p)
  <2>1. CASE Goto(p, "fail")
    <3>1. poller'[p].pc = "fail" BY <1>2, <2>1
    <3> QED BY <3>1, SilentLabel
  <2>2. CASE Goto(p, "emit")
    <3>1. HeadCmd(p)' = HeadCmd(p) /\ poller'[p].pc = "emit" BY <1>2, <2>2
    <3>2. UNCHANGED param /\ poller[p].pc = "mark" BY <1>7 DEF MarkDone, AtPc
    <3>3. CASE HeadCmd(p).op # "set" BY <3>1, <3>3, SilentLabel
    <3>4. CASE HeadCmd(p).op = "set"
      <4>1. /\ HeadCmd(p).value \in InBounds /\ param.memory = HeadCmd(p).value
            /\ param.stored = HeadCmd(p).value
        BY <3>2, <3>4 DEF SetInForce, AtPc
      <4> QED BY <3>1, <3>2, <3>4, <4>1, LoudLabel
    <3> QED BY <3>3, <3>4
  <2> QED BY <1>7, <2>1, <2>2 DEF MarkDone
<1>8. CASE Emit(p) \/ MarkFailed(p)
  <2>1. CASE Goto(p, "fail")
    <3>1. poller'[p].pc = "fail" BY <1>2, <2>1
    <3> QED BY <3>1, SilentLabel
  <2>2. CASE NextRow(p) \/ Escape(p)
    <3>1. poller'[p].pc \in {"idle", "apply"} BY <2>2 DEF NextRow, Escape, Idle, RowsInv
    <3> QED BY <3>1, SilentLabel
  <2> QED BY <1>8, <2>1, <2>2 DEF Emit, MarkFailed
<1> QED BY <1>3, <1>4, <1>5, <1>6, <1>7, <1>8 DEF Step

LEMMA StepDurable ==
  ASSUME RowsInv, DialsInv, SinglePoller, OrderInv, SetInForce, ParameterDurable,
         NEW p \in Consumers, Step(p)
  PROVE  ParameterDurable'
PROOF
<1> USE DEF dials
<1>1. Moved(p) BY StepMoves
<1>2. \A i \in Ids : MayHaveSet(i) => MayHaveSet(i)' BY <1>1, MayHaveSetMoves
<1>3. /\ Head(p) \in poller[p].batch /\ Head(p) \in Ids /\ runner' = runner
      /\ Ids \subseteq Nat
  BY <1>1, HeadOK, Constants DEF Moved, Ids
<1>4. \A i \in Ids : i > Head(p) => requests[i].status # "done"
  BY <1>3 DEF OrderInv, BatchOldest
<1>5. \A i \in Ids : i # Head(p) => requests'[i] = requests[i]
  BY <1>1 DEF Moved
<1> PICK h \in Ids : h = Head(p) BY <1>3
<1>6. requests'[h].cmd = HeadCmd(p) BY <1>1 DEF Moved, HeadCmd
\* A "set" that is in force is the newest of those done, and no older one is.
<1>7. ASSUME MayHaveSet(h)',
             \/ requests'[h].status # "done"
             \/ param'.stored = HeadCmd(p).value /\ param'.memory = HeadCmd(p).value
      PROVE  ParameterDurable'
  <2> SUFFICES ASSUME NEW i \in Ids, requests'[i].status = "done",
                      \A j \in Ids : j > i => ~MayHaveSet(j)'
               PROVE  param'.stored = requests'[i].cmd.value
                      /\ param'.memory = requests'[i].cmd.value
    BY DEF ParameterDurable, Ids
  <2>1. i = h
    <3>1. CASE i > h BY <1>4, <1>5, <3>1, <1>3
    <3>2. CASE h > i BY <1>7, <3>2
    <3>3. i \in Nat /\ h \in Nat BY <1>3
    <3> QED BY <3>1, <3>2, <3>3
  <2> QED BY <1>6, <1>7, <2>1
<1>8. CASE ApplySet(p) /\ HeadCmd(p).value \in InBounds
  <2>1. HeadCmd(p).op = "set" /\ poller[p].pc = "apply" /\ UNCHANGED requests
    BY <1>8 DEF ApplySet, AtPc
  <2>2. Queued(p, h) BY <1>3, <2>1 DEF Queued, AtPc
  <2>3. requests[h].status = "processing" BY <1>3, <2>2 DEF RowsInv
  <2>4. \A q \in Consumers : ~Queued(q, h)' BY <1>1 DEF Moved, SinglePoller
  <2>5. MayHaveSet(h)' BY <1>6, <1>8, <2>1, <2>3, <2>4 DEF MayHaveSet
  <2> QED BY <1>7, <2>1, <2>3, <2>5
<1>9. CASE Merge(p)
  <2>1. HeadCmd(p).op = "set" /\ HeadCmd(p).value \in InBounds
        /\ param.memory = HeadCmd(p).value /\ UNCHANGED requests
    BY <1>9 DEF Merge, AtPc, SetInForce
  <2>2. requests[h].status \in {"processing", "done"} BY <1>3 DEF RowsInv
  <2>3. \A q \in Consumers : ~Queued(q, h)' BY <1>1 DEF Moved, SinglePoller
  <2>4. MayHaveSet(h)' BY <1>6, <2>1, <2>2, <2>3 DEF MayHaveSet
  <2>5. CASE param'.stored = HeadCmd(p).value /\ param'.memory = param.memory
    BY <1>7, <2>1, <2>4, <2>5
  <2>6. CASE UNCHANGED param
    <3>1. Polling' => Polling BY <1>3 DEF Polling
    <3> QED BY <1>2, <2>1, <2>6, <3>1, ParameterKept
  <2> QED BY <1>9, <2>5, <2>6 DEF Merge, DialsInv
<1>10. CASE ~(ApplySet(p) /\ HeadCmd(p).value \in InBounds) /\ ~Merge(p)
  <2>1. UNCHANGED param
    BY <1>10 DEF Step, ApplyKill, CancelAll, ApplyReset, ApplyToggle, ApplySet, MarkDone, Emit,
                 MarkFailed
  <2>2. Polling' => Polling BY <1>3 DEF Polling
  <2>3. CASE requests'[h].status = "done" /\ requests[h].status # "done"
             /\ HeadCmd(p).op = "set"
    <3>1. AtPc(p, "mark") BY <1>1, <2>3 DEF Moved
    <3>2. /\ HeadCmd(p).value \in InBounds /\ param.memory = HeadCmd(p).value
          /\ param.stored = HeadCmd(p).value
      BY <2>3, <3>1 DEF SetInForce, AtPc
    <3>3. \A q \in Consumers : ~Queued(q, h)' BY <1>1 DEF Moved, SinglePoller
    <3>4. MayHaveSet(h)' BY <1>6, <2>3, <3>2, <3>3 DEF MayHaveSet
    <3> QED BY <1>7, <2>1, <3>2, <3>4
  <2>4. CASE ~(requests'[h].status = "done" /\ requests[h].status # "done"
               /\ HeadCmd(p).op = "set")
    <3>1. \A i \in Ids : requests'[i].cmd.op = "set" /\ requests'[i].status = "done"
                         => requests[i].status = "done" /\ requests'[i].cmd = requests[i].cmd
      BY <1>1, <1>5, <1>6, <2>4 DEF Moved
    <3> QED BY <1>2, <2>1, <2>2, <3>1, ParameterKept
  <2> QED BY <2>3, <2>4
<1> QED BY <1>8, <1>9, <1>10

LEMMA SetNext ==
  ASSUME RowsInv, DialsInv, SinglePoller, OrderInv, SetInForce, ParameterDurable, [Next]_vars
  PROVE  SetInForce' /\ ParameterDurable'
PROOF
<1> USE DEF coverage, dials, gateVars
\* Steps that leave the pollers and the parameter alone and settle no row.
<1>1. ASSUME UNCHANGED <<poller, param>>, Polling' => Polling,
             \A i \in Ids : requests'[i] # requests[i] =>
               requests[i] = NoRequest /\ requests'[i].status \in {"pending", "direct"}
      PROVE  SetInForce' /\ ParameterDurable'
  <2>1. \A i \in Ids : requests'[i].cmd = requests[i].cmd \/ requests[i] = NoRequest
    BY <1>1
  <2>2. SetInForce' BY <1>1, <2>1, HeadCmdKept, InForceKept
  <2>3. \A i \in Ids : MayHaveSet(i) => MayHaveSet(i)'
    BY <1>1 DEF MayHaveSet, NoRequest, Queued, Head, AtPc
  <2>4. \A i \in Ids : requests'[i].cmd.op = "set" /\ requests'[i].status = "done"
                       => requests[i].status = "done" /\ requests'[i].cmd = requests[i].cmd
    BY <1>1
  <2> QED BY <1>1, <2>2, <2>3, <2>4, ParameterKept
<1>2. CASE Quiet BY <1>1, <1>2 DEF Quiet
<1>3. ASSUME NEW cmd, NEW status \in {"pending", "direct"}, Appended(cmd, status)
      PROVE  SetInForce' /\ ParameterDurable'
  <2>1. /\ requests[last + 1] = NoRequest
        /\ requests'[last + 1] = [status |-> status, cmd |-> cmd]
        /\ \A i \in Ids : i # last + 1 => requests'[i] = requests[i]
    BY <1>3, AppendedRows
  <2>2. UNCHANGED <<poller, param, runner>> BY <1>3 DEF Appended
  <2> QED BY <1>1, <1>3, <2>1, <2>2 DEF Polling
<1>4. ASSUME NEW cmd \in Commands, StoreToggle(cmd) PROVE SetInForce' /\ ParameterDurable'
  BY <1>1, <1>4 DEF StoreToggle, Polling
<1>5. CASE EnqueueToggle
  <2> DEFINE row == [op |-> "toggle", brokers |-> {}, value |-> toggling]
  <2>1. toggling \in {0, 1} /\ last + 1 \in Ids
    BY <1>5, Constants DEF EnqueueToggle, RowsInv, Ids
  <2>2. CommandOK(row) BY <2>1 DEF CommandOK, Command
  <2>3. CASE Request(row, "pending")
    <3>1. Appended(row, "pending") BY <1>5, <2>1, <2>2, <2>3 DEF EnqueueToggle, Appended
    <3> QED BY <1>3, <3>1
  <2>4. CASE UNCHANGED <<requests, last>>
    BY <1>1, <1>5, <2>4 DEF EnqueueToggle, Polling
  <2> QED BY <1>5, <2>3, <2>4 DEF EnqueueToggle
<1>6. ASSUME NEW p \in Consumers, Claimed(p) PROVE SetInForce' /\ ParameterDurable'
  <2>1. poller'[p].pc \in {"idle", "apply"} BY <1>6 DEF Claimed, RowsInv
  <2>2. SetInForce' BY <2>1, SilentLabel
  <2>3. \A i \in Ids : MayHaveSet(i) => MayHaveSet(i)' BY <1>6, MayHaveSetClaimed
  <2>4. \A i \in Ids : requests'[i].cmd.op = "set" /\ requests'[i].status = "done"
                       => requests[i].status = "done" /\ requests'[i].cmd = requests[i].cmd
    BY <1>6 DEF Claimed
  <2>5. UNCHANGED <<param, runner>> BY <1>6 DEF Claimed
  <2> QED BY <2>2, <2>3, <2>4, <2>5, ParameterKept DEF Polling
<1>7. ASSUME NEW p \in Consumers, Step(p) PROVE SetInForce' /\ ParameterDurable'
  BY <1>7, StepInForce, StepDurable
<1>8. CASE Down
  <2>1. /\ \A p \in Consumers : poller'[p] = Idle
        /\ requests' = requests /\ param'.stored = param.stored /\ ~Polling'
    BY <1>8 DEF Down, Polling, DialsInv
  <2>2. \A i \in Ids : MayHaveSet(i) => MayHaveSet(i)'
    BY <2>1 DEF MayHaveSet, Queued, Idle
  <2> QED BY <2>1, <2>2, AllIdle, ParameterKept
<1>9. CASE Hydrate \/ Recover
  <2>1. /\ param' = HydrateParameter /\ UNCHANGED poller
        /\ runner \in {"starting", "down"}
    BY <1>9 DEF Hydrate, Recover
  <2>2. \A p \in Consumers : poller'[p] = Idle BY <2>1 DEF RowsInv
  <2>3. /\ param'.stored = param.stored
        /\ param.stored # NoValue => param'.memory = param.stored
    BY <2>1 DEF HydrateParameter, DialsInv, OrElse
  <2>4. \A i \in Ids :
          /\ requests[i].cmd.op = "set" => requests'[i] = requests[i]
          /\ requests'[i].cmd.op = "set" => requests[i].cmd.op = "set"
    <3>1. CASE Hydrate BY <3>1 DEF Hydrate
    <3>2. CASE Recover
      <4>1. /\ requests[last + 1] = NoRequest /\ requests'[last + 1].cmd.op = "reset"
            /\ \A i \in Ids : i # last + 1 => requests'[i].cmd = requests[i].cmd
            /\ \A i \in Ids : i # last + 1 /\ requests'[i] # requests[i] =>
                 requests[i].cmd.op = "kill"
        BY <3>2, Recovered
      <4> QED BY <4>1 DEF NoRequest, NoCommand
    <3> QED BY <1>9, <3>1, <3>2
  <2>5. \A i \in Ids : MayHaveSet(i) => MayHaveSet(i)'
    BY <2>1, <2>4 DEF MayHaveSet, Queued, Head, AtPc
  <2>6. ParameterDurable'
    <3> SUFFICES ASSUME NEW i \in Ids, requests'[i].cmd.op = "set",
                        requests'[i].status = "done", \A j \in Ids : j > i => ~MayHaveSet(j)'
                 PROVE  /\ param'.stored = requests'[i].cmd.value
                        /\ param'.memory = requests'[i].cmd.value
      BY DEF ParameterDurable, Ids
    <3>1. requests'[i] = requests[i] /\ \A j \in Ids : j > i => ~MayHaveSet(j)
      BY <2>4, <2>5
    <3>2. param.stored = requests[i].cmd.value BY <3>1 DEF ParameterDurable
    <3>3. requests[i].cmd.value \in Nat BY DEF RowsInv, CommandOK, Command
    <3> QED BY <2>3, <3>1, <3>2, <3>3, Constants
  <2> QED BY <2>2, <2>6, AllIdle
<1> QED BY <1>2, <1>3, <1>4, <1>5, <1>6, <1>7, <1>8, <1>9, Shapes, ClaimClaims
----------------------------------------------------------------------------
(* The theorems *)

OneInv == OrderInv /\ StoredNewest /\ ToggleAgrees /\ SetInForce /\ ParameterDurable

LEMMA OneInvInit == Init => OneInv
PROOF
<1> SUFFICES ASSUME Init PROVE OneInv OBVIOUS
<1>1. /\ \A i \in Ids : requests[i] = NoRequest
      /\ \A p \in Consumers : poller[p] = Idle
      /\ runner = "down" /\ toggling = NoValue
  BY DEF Init
<1>2. OrderInv
  BY <1>1 DEF OrderInv, ClaimedInOrder, BatchOldest, ToggleRows, NoRequest, NoCommand, Idle
<1>3. StoredNewest BY <1>1 DEF StoredNewest, NewestToggle, NoRequest, NoCommand
<1>4. ToggleAgrees BY <1>1 DEF ToggleAgrees, Polling
<1>5. SetInForce BY <1>1 DEF SetInForce, AtPc, Idle
<1>6. ParameterDurable BY <1>1 DEF ParameterDurable, NoRequest
<1> QED BY <1>2, <1>3, <1>4, <1>5, <1>6 DEF OneInv

LEMMA OneInvariance ==
  ASSUME SinglePoller
  PROVE  Spec => [](IInv /\ OneInv)
PROOF
<1>1. IInv /\ IInv' /\ OneInv /\ [Next]_vars => OneInv'
  BY OrderNext, ToggleNext, SetNext DEF IInv, OneInv
<1> QED BY <1>1, OneInvInit, Invariance, PTL DEF Spec

\* With one poller, commands take effect in the order the operator gave them,
\* whatever fails in a batch and whenever the runner crashes: no row is settled
\* while an older one still waits (claim_pending, apply_control_commands).
THEOREM InOrder ==
  ASSUME SinglePoller
  PROVE  Spec => []CommandsInOrder
PROOF
<1>1. RowsInv /\ OrderInv => CommandsInOrder
  <2> SUFFICES ASSUME RowsInv, OrderInv, NEW i \in Ids, NEW j \in Ids, i < j,
                      requests[j].status \in {"done", "failed"}
               PROVE  ~Waiting(i)
    BY DEF CommandsInOrder
  <2> QED BY DEF OrderInv, ClaimedInOrder, BatchOldest, Waiting, Queued
<1> QED BY <1>1, OneInvariance, PTL DEF IInv, OneInv

\* With one poller, a runner that polls trades by the switch the dashboard shows,
\* unless a toggle is on its way or was lost (strategy toggle of the API, the
\* poller, and the hydration of the next process).
THEOREM SwitchAgrees ==
  ASSUME SinglePoller
  PROVE  Spec => []ToggleAgrees
PROOF BY OneInvariance, PTL DEF OneInv

\* With one poller, the last parameter change an operator was told is done is the
\* one in force and the one the next process will load, across crashes, failed
\* stores and failed marks (set_parameter in runner_control).
THEOREM ParameterLasts ==
  ASSUME SinglePoller
  PROVE  Spec => []ParameterDurable
PROOF BY OneInvariance, PTL DEF OneInv
=============================================================================
