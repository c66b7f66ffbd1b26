---------------------------- MODULE ControlPlane ----------------------------
(***************************************************************************)
(* The operator's commands and the risk gate they move.                    *)
(*                                                                         *)
(* The API writes a command as a row of control_commands (or, without a    *)
(* bus, calls the risk engine itself); a poller of the runner claims the   *)
(* pending rows, applies them one by one and marks each of them.  The gate *)
(* is also closed by execution failures, opened and closed by the broker-  *)
(* coverage loop, and touched by every monitor that restores the runtime   *)
(* state.  The runner may stop or crash between any two awaits; the gate   *)
(* comes back from a JSON file, the risk parameter and the strategy switch *)
(* from control_state, and the rows stay as they were.                     *)
(***************************************************************************)
EXTENDS Integers, RiskGate, FiniteSetsExt

CONSTANTS
  OlderDisabled, \* brokers disabled in a file written by an older version
  Commands,     \* commands an operator may give
  InBounds,     \* values the bounds of the risk parameter admit
  MaxRequests,  \* commands given in a behaviour (a bound)
  MaxFailures,  \* failures in a behaviour (a bound)
  Limit,        \* rows one claim takes
  Consumers,    \* coroutines that call apply_control_commands
  Faults        \* failures that may happen, see FaultNames

FaultNames ==
  { "db",         \* a statement on control_commands or control_state fails
    "refresh",    \* the refresh after the commit of a claim fails
    "persist",    \* a local file cannot be written
    "execution",  \* an execution failure closes the gate
    "down" }      \* the runner is stopped or crashes

ASSUME ControlAssumption ==
  /\ OlderDisabled \subseteq Brokers
  /\ MaxRequests \in Nat
  /\ MaxFailures \in Nat
  /\ Limit \in Nat \ {0}
  /\ InBounds \subseteq Nat
  /\ Commands \subseteq [op      : {"kill", "reset", "set", "toggle"},
                         brokers : SUBSET Brokers,
                         value   : Nat]
  /\ \A c \in Commands : c.op = "toggle" => c.value \in {0, 1}
  /\ Faults \subseteq FaultNames
  /\ IsFiniteSet(Brokers)
  /\ Everything \notin Brokers

VARIABLES
  requests,      \* table control_commands, and the commands applied directly
  last,          \* id of the last request
  poller,        \* per consumer, apply_control_commands in progress
  gate,          \* the risk engine's gate in memory
  file,          \* the gate in data/runtime/risk_state.json
  runner,        \* the process that holds the risk engine
  report,        \* what the coverage report says of each broker
  lastDisabled,  \* coverage loop: the brokers excluded at its last tick
  param,         \* the risk parameter: in memory, in control_state, in YAML
  switch,        \* the strategy switch: in memory, in control_state
  toggling,      \* a toggle the API has stored and not yet enqueued
  failures,      \* failures so far
  reopened,      \* history: excluded brokers an operator has reopened since
  lostToggle     \* history: a stored toggle was never enqueued

vars == <<requests, last, poller, gate, file, runner, report, lastDisabled,
          param, switch, toggling, failures, reopened, lostToggle>>
gateVars == <<gate, file, reopened>>
coverage == <<report, lastDisabled>>
dials == <<param, switch, toggling, lostToggle>>
----------------------------------------------------------------------------
Ids == 1..MaxRequests
Settled == {"done", "failed", "deleted", "direct"}
NoValue == -1
Proven == 0    \* proven_default of the parameter
Enabled == 1   \* a strategy is enabled unless its switch says otherwise

NoCommand == [op |-> "none", brokers |-> {}, value |-> 0]
NoRequest == [status |-> "none", cmd |-> NoCommand]
Idle == [pc |-> "idle", batch |-> {}]

Works == UNCHANGED failures
Fails(fault) ==
  /\ fault \in Faults
  /\ failures < MaxFailures
  /\ failures' = failures + 1

InOrchestrator == runner \in {"starting", "running"}
Polling == runner \in {"running", "recovery"}

AtPc(p, label) == poller[p].pc = label
HeadNewest(p) == Max(poller[p].batch)  \* bug: rows claimed newest first
Head(p) == Min(poller[p].batch)
HeadCmd(p) == requests[Head(p)].cmd

\* Claimed and not yet applied.
Queued(p, i) ==
  i \in poller[p].batch /\ (i # Head(p) \/ AtPc(p, "apply"))
Waiting(i) ==
  \/ requests[i].status = "pending"
  \/ \E p \in Consumers : Queued(p, i)

\* Claimed by a poller that is gone: no code looks at such a row again.
Orphan(i) ==
  /\ requests[i].status = "processing"
  /\ \A p \in Consumers : i \notin poller[p].batch

Goto(p, label) == poller' = [poller EXCEPT ![p].pc = label]

\* Head(p) is finished: the next row, or the end of the batch.
NextRow(p) ==
  LET rest == poller[p].batch \ {Head(p)}
  IN  poller' = [poller EXCEPT ![p] =
        IF rest = {} THEN Idle ELSE [pc |-> "apply", batch |-> rest]]

\* An exception leaves apply_control_commands: the poll loop logs it, and the
\* rest of the batch stays "processing".
EscapeStops(p) ==                      \* bug: the exception ends the poll loop
  poller' = [poller EXCEPT ![p] = [pc |-> "stopped", batch |-> {}]]
Escape(p) == poller' = [poller EXCEPT ![p] = Idle]

Mark(i, status) == requests' = [requests EXCEPT ![i].status = status]

\* _persist_runtime_state after each change of a loop: the file ends as the
\* last of the gates written, or as it was.
Persist(after, during) ==
  \/ file' = after /\ Works
  \/ Fails("persist") /\ file' \in {file} \cup during
SetGate(after) == gate' = after /\ Persist(after, {})

\* What kill and reset_kill do to gate g, for every broker or for those named.
CloseGate(g, brokers) ==
  IF brokers = {} THEN Kill(g) ELSE DisableBrokers(g, brokers, "manual")
OpenGate(g, brokers) ==
  IF brokers = {} THEN ResetKill(g) ELSE EnableBrokers(g, brokers)
Opened(brokers) == IF brokers = {} THEN Brokers ELSE brokers

Close(brokers) ==
  /\ gate' = CloseGate(gate, brokers)
  /\ Persist(gate', {CloseGate(gate, some) : some \in (SUBSET brokers) \ {{}}})
  /\ UNCHANGED reopened
Open(brokers) ==
  /\ gate' = OpenGate(gate, brokers)
  /\ Persist(gate', {OpenGate(gate, some) : some \in (SUBSET brokers) \ {{}}})
  /\ reopened' = reopened \cup (Opened(brokers) \cap lastDisabled)
----------------------------------------------------------------------------
(* The API *)

\* A stored toggle keeps its place among the MaxRequests commands.
Room == last + Cardinality({toggling} \ {NoValue}) < MaxRequests

Request(cmd, status) ==
  /\ last' = last + 1
  /\ requests' = [requests EXCEPT ![last + 1] = [status |-> status, cmd |-> cmd]]

\* /kill, /kill/reset, /risk/parameters/{name}: one row on the bus.
Enqueue(cmd) ==
  /\ cmd.op # "toggle"
  /\ Room
  /\ Request(cmd, "pending")
  /\ Works
  /\ UNCHANGED <<poller, gateVars, runner, coverage, dials>>

ByHand(cmd) ==
  /\ InOrchestrator
  /\ Room
  /\ Request(cmd, "direct")
  /\ \/ cmd.op = "kill" /\ Close(cmd.brokers)
     \/ cmd.op = "reset" /\ Open(cmd.brokers)
  /\ UNCHANGED <<poller, runner, coverage, dials>>

\* /kill and /kill/reset while the API has no bus.
Direct(cmd) == ByHand(cmd)

\* Enabling, disabling or deleting the connector of a broker moves its gate.
ConnectorSwitch(cmd) == Cardinality(cmd.brokers) = 1 /\ ByHand(cmd)

\* /strategy/{name}/toggle stores the switch first and enqueues afterwards.
StoreToggle(cmd) ==
  /\ cmd.op = "toggle"
  /\ toggling = NoValue
  /\ Room
  /\ toggling' = cmd.value
  /\ switch' = [switch EXCEPT !.stored = cmd.value]
  /\ Works
  /\ UNCHANGED <<requests, last, poller, gateVars, runner, coverage, param, lostToggle>>

EnqueueToggle ==
  /\ toggling # NoValue
  /\ \/ /\ Request([op |-> "toggle", brokers |-> {}, value |-> toggling], "pending")
        /\ UNCHANGED lostToggle
        /\ Works
     \/ /\ Fails("db")
        /\ lostToggle' = TRUE
        /\ UNCHANGED <<requests, last>>
  /\ toggling' = NoValue
  /\ UNCHANGED <<poller, gateVars, runner, coverage, param, switch>>
----------------------------------------------------------------------------
(* apply_control_commands *)

Pending == {i \in Ids : requests[i].status = "pending"}
Oldest(ids, n) == {i \in ids : Cardinality({j \in ids : j < i}) < n}

\* claim_pending: select, mark "processing", commit, refresh each row.
Claim(p) ==
  /\ Polling
  /\ AtPc(p, "idle")
  /\ Pending # {}
  /\ LET rows == Oldest(Pending, Limit)
     IN  /\ requests' = [i \in Ids |-> IF i \in rows
                            THEN [requests[i] EXCEPT !.status = "processing"]
                            ELSE requests[i]]
         /\ \/ poller' = [poller EXCEPT ![p] = [pc |-> "apply", batch |-> rows]] /\ Works
            \/ Fails("refresh") /\ UNCHANGED poller
  /\ UNCHANGED <<last, gateVars, runner, coverage, dials>>

\* A kill of everything also cancels every open order, over several awaits.
ApplyKill(p) ==
  /\ AtPc(p, "apply")
  /\ HeadCmd(p).op = "kill"
  /\ Close(HeadCmd(p).brokers)
  /\ Goto(p, IF HeadCmd(p).brokers = {} THEN "cancel" ELSE "mark")
  /\ UNCHANGED <<requests, last, runner, coverage, dials>>

CancelAll(p) ==
  /\ AtPc(p, "cancel")
  /\ Goto(p, "mark")
  /\ Works
  /\ UNCHANGED <<requests, last, gateVars, runner, coverage, dials>>

ApplyReset(p) ==
  /\ AtPc(p, "apply")
  /\ HeadCmd(p).op = "reset"
  /\ Open(HeadCmd(p).brokers)
  /\ Goto(p, "mark")
  /\ UNCHANGED <<requests, last, runner, coverage, dials>>

ApplyToggle(p) ==
  /\ AtPc(p, "apply")
  /\ HeadCmd(p).op = "toggle"
  /\ switch' = [switch EXCEPT !.memory = HeadCmd(p).value]
  /\ Goto(p, "mark")
  /\ Works
  /\ UNCHANGED <<requests, last, gateVars, runner, coverage, param, toggling, lostToggle>>

\* apply_regime_override raises on a value outside the bounds; otherwise the
\* value is in force before it is stored.
ApplySet(p) ==
  /\ AtPc(p, "apply")
  /\ HeadCmd(p).op = "set"
  /\ IF HeadCmd(p).value \in InBounds
     THEN /\ param' = [param EXCEPT !.memory = HeadCmd(p).value]
          /\ Goto(p, "merge")
     ELSE Goto(p, "fail") /\ UNCHANGED param
  /\ Works
  /\ UNCHANGED <<requests, last, gateVars, runner, coverage, switch, toggling, lostToggle>>

\* merge_risk_override_state, then the YAML file, whose failure is swallowed.
Merge(p) ==
  /\ AtPc(p, "merge")
  /\ \/ /\ \/ param' = [param EXCEPT !.stored = HeadCmd(p).value,
                                     !.yaml = HeadCmd(p).value] /\ Works
           \/ Fails("persist") /\ param' = [param EXCEPT !.stored = HeadCmd(p).value]
        /\ Goto(p, "mark")
     \/ Fails("db") /\ Goto(p, "fail") /\ UNCHANGED param
  /\ UNCHANGED <<requests, last, gateVars, runner, coverage, switch, toggling, lostToggle>>

MarkDone(p) ==
  /\ AtPc(p, "mark")
  /\ \/ Mark(Head(p), "done") /\ Goto(p, "emit") /\ Works
     \/ Fails("db") /\ Goto(p, "fail") /\ UNCHANGED requests
  /\ UNCHANGED <<last, gateVars, runner, coverage, dials>>

\* The event of the dashboard is still inside the try: its failure sends a row
\* that is done to mark_failed.
Emit(p) ==
  /\ AtPc(p, "emit")
  /\ \/ NextRow(p) /\ Works
     \/ Fails("db") /\ Goto(p, "fail")
  /\ UNCHANGED <<requests, last, gateVars, runner, coverage, dials>>

\* mark_failed and its event: a second failure leaves apply_control_commands.
MarkFailed(p) ==
  /\ AtPc(p, "fail")
  /\ \/ Mark(Head(p), "failed") /\ NextRow(p) /\ Works
     \/ Fails("db") /\ Escape(p) /\ (Mark(Head(p), "failed") \/ UNCHANGED requests)
  /\ UNCHANGED <<last, gateVars, runner, coverage, dials>>
----------------------------------------------------------------------------
(* Failures and monitors *)

\* _maybe_auto_kill and _maybe_auto_kill_reconciliation: one broker, or all.
AutoClose(brokers) ==
  /\ Fails("execution")
  /\ runner # "down"
  /\ Cardinality(brokers) <= 1
  /\ gate' = CloseGate(gate, brokers)
  /\ file' \in {gate'} \cup {f \in {file} : "persist" \in Faults}
  /\ UNCHANGED <<requests, last, poller, reopened, runner, coverage, dials>>

\* A portfolio state read from the database carries no key of the gate.
PortfolioKeys == FreshGate

\* A monitor or the trading loop restores the runtime state before it evaluates.
MonitorRestores ==
  /\ InOrchestrator
  /\ SetGate(RestoreRuntimeState(gate, PortfolioKeys))
  /\ UNCHANGED <<requests, last, poller, reopened, runner, coverage, dials>>
----------------------------------------------------------------------------
(* The coverage loop *)

\* A configured broker is included in the coverage or excluded from it.
ReportChanges(b) ==
  /\ \E says \in {"included", "excluded"} : report' = [report EXCEPT ![b] = says]
  /\ Works
  /\ UNCHANGED <<requests, last, poller, gateVars, runner, lastDisabled, dials>>

Reported(says) == {b \in Brokers : report[b] = says}

OwnDisabled == lastDisabled            \* bug: what the file still holds is forgotten
CoverageDisabled ==
  lastDisabled \cup {b \in gate.disabled : "coverage" \in gate.reasons[b]}

\* A broker whose balance matures between the two evaluations of coverage() is
\* neither included nor excluded.  A tick of the startup grace that finds only
\* excluded brokers is a step that changes nothing.
CoverageTick ==
  /\ InOrchestrator
  /\ \E maturing \in SUBSET Reported("excluded") :
       LET excluded == Reported("excluded") \ maturing
           out  == excluded \ CoverageDisabled
           back == CoverageDisabled \cap Reported("included")
           Without(some) == DisableBrokers(gate, some, "coverage")
           With(some) == EnableBrokersFor(Without(out), some, "coverage")
       IN  /\ gate' = With(back)
           /\ IF out \cup back = {} THEN UNCHANGED file /\ Works
              ELSE Persist(gate', {Without(some) : some \in (SUBSET out) \ {{}}}
                                  \cup {With(some) : some \in (SUBSET back) \ {{}}})
           /\ lastDisabled' = excluded
           /\ reopened' = reopened \cap excluded
           /\ report' = [b \in Brokers |-> IF b \in maturing THEN "included" ELSE report[b]]
  /\ UNCHANGED <<requests, last, poller, runner, dials>>
----------------------------------------------------------------------------
(* The life of the runner *)

\* stop, or a crash: memory is lost, claimed rows stay "processing".
Down ==
  /\ runner # "down"
  /\ Fails("down")
  /\ runner' = "down"
  /\ poller' = [p \in Consumers |-> Idle]
  /\ gate' = FreshGate
  /\ lastDisabled' = {} /\ reopened' = {}
  /\ param' = [param EXCEPT !.memory = Proven]
  /\ switch' = [switch EXCEPT !.memory = Enabled]
  /\ UNCHANGED <<requests, last, file, report, toggling, lostToggle>>

Restored == RestoreRuntimeState(FreshGate, file)

\* The orchestrator's trading loop creates the risk engine ...
Start ==
  /\ runner = "down"
  /\ runner' = "starting"
  /\ SetGate(Restored)
  /\ UNCHANGED <<requests, last, poller, reopened, coverage, dials>>

OrElse(value, default) == IF value = NoValue THEN default ELSE value

ForgetParameter == param               \* bug: the stored override is not loaded
HydrateParameter ==
  [param EXCEPT !.memory = OrElse(param.stored, OrElse(param.yaml, Proven))]
ForgetSwitch == switch                 \* bug: the stored switch is not loaded
HydrateSwitch == [switch EXCEPT !.memory = OrElse(switch.stored, Enabled)]

\* ... and later loads the dials and starts the poller.
Hydrate ==
  /\ runner = "starting"
  /\ runner' = "running"
  /\ param' = HydrateParameter
  /\ switch' = HydrateSwitch
  /\ Works
  /\ UNCHANGED <<requests, last, poller, gateVars, coverage, toggling, lostToggle>>

\* run_m5 --clear-pending-kill-commands: a recovery the operator asks for.
Recover ==
  /\ runner = "down"
  /\ Room
  /\ last' = last + 1
  /\ requests' = [i \in Ids |->
       IF i = last + 1
       THEN [status |-> "direct", cmd |-> [op |-> "reset", brokers |-> {}, value |-> 0]]
       ELSE IF requests[i].cmd.op = "kill" /\ requests[i].status \in {"pending", "processing"}
       THEN [requests[i] EXCEPT !.status = "deleted"]
       ELSE requests[i]]
  /\ runner' = "recovery"
  /\ gate' = ResetKill(Restored)
  /\ Persist(gate', {Restored})
  /\ param' = HydrateParameter
  /\ switch' = HydrateSwitch
  /\ UNCHANGED <<poller, reopened, coverage, toggling, lostToggle>>
----------------------------------------------------------------------------
\* The first start finds the file of an older version, without reasons.
OlderFile == [FreshGate EXCEPT !.disabled = OlderDisabled]

Init ==
  /\ requests = [i \in Ids |-> NoRequest]
  /\ last = 0
  /\ poller = [p \in Consumers |-> Idle]
  /\ gate = FreshGate
  /\ file = OlderFile
  /\ runner = "down"
  /\ report = [b \in Brokers |-> "excluded"]
  /\ lastDisabled = {}
  /\ param = [memory |-> Proven, stored |-> NoValue, yaml |-> NoValue]
  /\ switch = [memory |-> Enabled, stored |-> NoValue]
  /\ toggling = NoValue
  /\ failures = 0
  /\ reopened = {}
  /\ lostToggle = FALSE

Api == \E cmd \in Commands :
         Enqueue(cmd) \/ Direct(cmd) \/ ConnectorSwitch(cmd) \/ StoreToggle(cmd)
Poll(p) ==
  \/ Claim(p) \/ ApplyKill(p) \/ CancelAll(p) \/ ApplyReset(p) \/ ApplyToggle(p)
  \/ ApplySet(p) \/ Merge(p) \/ MarkDone(p) \/ Emit(p) \/ MarkFailed(p)
Environment ==
  \/ \E bs \in SUBSET Brokers : AutoClose(bs)
  \/ MonitorRestores
  \/ \E b \in Brokers : ReportChanges(b)

Next ==
  \/ Api \/ EnqueueToggle
  \/ \E p \in Consumers : Poll(p)
  \/ Environment \/ CoverageTick
  \/ Down \/ Start \/ Hydrate \/ Recover

\* The event loop runs every coroutine that is ready; the orchestrator is started
\* again whenever it is down.
Fairness ==
  /\ \A p \in Consumers : WF_vars(Poll(p))
  /\ WF_vars(CoverageTick) /\ WF_vars(Start \/ Hydrate)

Spec == Init /\ [][Next]_vars
FairSpec == Spec /\ Fairness
----------------------------------------------------------------------------
\* The types of the state; a broker is disabled exactly while some component has
\* a reason for it, and only the oldest row of a batch is being worked on.
TypeOK ==
  /\ requests \in [Ids -> [status : {"none", "pending", "processing"} \cup Settled,
                           cmd : Commands \cup {NoCommand}
                                 \cup [op : {"toggle", "reset"}, brokers : {{}}, value : Nat]]]
  /\ last \in 0..MaxRequests
  /\ poller \in [Consumers -> [pc : {"idle", "apply", "cancel", "merge", "mark", "emit", "fail"},
                               batch : SUBSET Ids]]
  /\ \A p \in Consumers : AtPc(p, "idle") <=> poller[p].batch = {}
  /\ gate \in Gates /\ file \in Gates
  /\ \A b \in Brokers : b \in gate.disabled <=> gate.reasons[b] # {}
  /\ runner \in {"down", "starting", "running", "recovery"}
  /\ report \in [Brokers -> {"included", "excluded"}]
  /\ lastDisabled \subseteq Brokers
  /\ reopened \subseteq lastDisabled
  /\ lostToggle \in BOOLEAN
  /\ param \in [memory : Nat, stored : Nat \cup {NoValue}, yaml : Nat \cup {NoValue}]
  /\ switch \in [memory : {0, 1}, stored : {0, 1, NoValue}]
  /\ toggling \in {0, 1, NoValue}
  /\ failures \in 0..MaxFailures

\* A broker the coverage loop has found excluded stays blocked for coverage
\* through kills, restores and partial re-enables by every other component,
\* unless an operator reopened it (orchestrator._coverage_sync_loop).
ExcludedIsBlocked ==
  InOrchestrator =>
    \A b \in lastDisabled \ reopened : "coverage" \in gate.reasons[b]

\* Commands take effect in the order the operator gave them: no row is settled
\* while an older one has still to be applied, also across a crash of the poller
\* and a failure in the middle of a batch.
CommandsInOrder ==
  \A i, j \in Ids : i < j /\ requests[j].status \in {"done", "failed"} => ~Waiting(i)

\* Row i is claimed: it may have changed the parameter.
MayHaveSet(i) ==
  /\ requests[i].cmd.op = "set"
  /\ requests[i].cmd.value \in InBounds
  /\ requests[i].status \notin {"none", "pending"}
  /\ \A p \in Consumers : ~Queued(p, i)

\* The last parameter change an operator was told is done is the one in force,
\* and the one the next process will load (set_parameter in runner_control).
ParameterDurable ==
  \A i \in Ids :
    /\ requests[i].cmd.op = "set"
    /\ requests[i].status = "done"
    /\ \A j \in Ids : j > i => ~MayHaveSet(j)
    => /\ param.stored = requests[i].cmd.value
       /\ Polling => param.memory = requests[i].cmd.value

\* While the runner polls, its switch differs from the one the dashboard shows
\* only as long as a toggle is on its way, or if one was lost on the way.
ToggleAgrees ==
  Polling /\ switch.memory # OrElse(switch.stored, Enabled)
    => \/ toggling # NoValue
       \/ lostToggle
       \/ \E i \in Ids : requests[i].cmd.op = "toggle" /\ (Waiting(i) \/ Orphan(i))

\* The gate is the operator's latch: whatever crashes, restores, failures and
\* coverage do, kill and manual blocks open only for a request to open them, each
\* request opens them at most once, and a restart brings back the saved gate.
Opens(i) == requests[i].cmd.op = "reset"
Scope(i) == IF requests[i].cmd.brokers = {} THEN Blocks ELSE requests[i].cmd.brokers
Latch == INSTANCE OperatorLatch WITH
  Requests <- Ids,
  closed <- IF runner = "down" THEN Closed(Restored) ELSE Closed(gate),
  kept <- Closed(Restored),
  asked <- [i \in Ids |-> IF Opens(i) /\ Waiting(i) THEN Scope(i) ELSE {}],
  spent <- {i \in Ids : Opens(i) /\ ~Waiting(i)}
LatchSpec == Latch!LatchSpec

\* No command waits for ever: whenever the operator has given some, the poller gets
\* through them (or loses them with the batch they were claimed in), across crashes
\* and failures of the database in any step (_control_command_poll).
CommandsSettle == []<>(\A i \in Ids : ~Waiting(i))

\* A broker that comes back for good is in the end released by the coverage loop,
\* also when an earlier process disabled it (test_persisted_coverage_disable_is_
\* cleared_after_restart in tests/test_broker_coverage.py).
CoverageReleases ==
  \A b \in Brokers :
    <>[](InOrchestrator /\ report[b] = "included") => <>[]("coverage" \notin gate.reasons[b])
=============================================================================
