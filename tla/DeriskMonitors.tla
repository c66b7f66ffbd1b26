--------------------------- MODULE DeriskMonitors ---------------------------
(***************************************************************************)
(* The exit monitors of system/orchestrator.py and what keeps them from    *)
(* selling one position twice.                                             *)
(*                                                                         *)
(* Two tasks of one event loop watch the open positions.  The guard task   *)
(* runs the stop-loss tick and then the aggregate de-risk tick, the other  *)
(* task runs the intraday de-risk tick.  A tick reads the positions, picks *)
(* those to reduce and takes each of them through risk and execution, with *)
(* awaits in between at which the other task runs.  Two tables of          *)
(* timestamps decide which position is skipped: _stop_loss_last_close_ts   *)
(* (lastClose) and _derisk_inflight_ts (inflight).  The code marks and     *)
(* compares with now_ts, which a tick reads once; the model keeps ages     *)
(* instead of times, so that a timestamp is the age of its mark and now_ts *)
(* the time since the tick read it.  The code does not bound how long a    *)
(* tick takes, and neither does an assumption here: MaxTick bounds what    *)
(* TLC explores, whatever the windows are, and the proofs are for any.     *)
(*                                                                         *)
(* Execution is the simulated one, which books the whole fill at once; the *)
(* life of a live order is in OrderExecution.  What evaluate_stop_loss,    *)
(* select_derisk_closes and evaluate_intraday_derisk compute from prices   *)
(* is left open: a stop is breached or not, the others select any loser.   *)
(***************************************************************************)
EXTENDS Integers, FiniteSets

CONSTANTS
  Positions,    \* open lots, one per broker and symbol
  Losers,       \* positions the de-risk monitors may select
  Allocated,    \* positions opened by signals that are exempt from the open lock
  Poison,       \* positions whose execution raises whenever it is tried
  MaxHeld,      \* largest quantity held
  Cooldown,     \* STOP_LOSS_CLOSE_COOLDOWN_SEC
  Window,       \* DERISK_INFLIGHT_WINDOW_SEC
  OpenLock,     \* open_lock_sec and open_lock.cooldown_sec
  Gap,          \* sleep of a task between two ticks
  MaxTick,      \* longest time in a tick before and after it reads now_ts (a bound)
  MaxFailures,  \* rejections, empty executions and exceptions (a bound)
  NoPosition

ASSUME MonitorAssumption ==
  /\ Losers \subseteq Positions /\ Poison \subseteq Positions
  /\ Allocated \subseteq Positions
  /\ NoPosition \notin Positions
  /\ MaxHeld \in Nat \ {0}
  /\ {Cooldown, Window, OpenLock, Gap, MaxTick, MaxFailures} \subseteq Nat

VARIABLES
  task,       \* per task: the monitor that runs and where it is
  held,       \* fills ledger: the quantity of each position
  breach,     \* positions whose stop is breached and that may be closed now
  lastClose,  \* age of a position's entry in _stop_loss_last_close_ts
  inflight,   \* age of a position's entry in _derisk_inflight_ts
  lock,       \* how long the open lock still holds
  rebuy,      \* history: how long a flattened position must not be reopened
  failures    \* failures so far

vars == <<task, held, breach, lastClose, inflight, lock, rebuy, failures>>
market == <<held, breach>>
marks == <<lastClose, inflight>>
openLock == <<lock, rebuy>>
----------------------------------------------------------------------------
Guard == "guard"          \* _stop_loss_loop
Intraday == "intraday"    \* _intraday_derisk_loop
Tasks == {Guard, Intraday}
Monitors == {"stop_loss", "aggregate", "intraday"}

\* A mark so old that no tick, however late, finds it recent.
OldClose == Cooldown + MaxTick
OldFlight == Window + MaxTick

Smaller(a, b) == IF a < b THEN a ELSE b
Larger(a, b) == IF a > b THEN a ELSE b

Nothing == [p \in Positions |-> 0]
Asleep(monitor) ==
  [monitor |-> monitor, pc |-> "sleep", since |-> 0, plan |-> Nothing,
   pos |-> NoPosition, qty |-> 0, locks |-> FALSE, claim |-> 0]

AtPc(t, label) == task[t].pc = label
InTick(t) == ~AtPc(t, "sleep")
Runs(t, monitor) == task[t].monitor = monitor

\* A fill is in the ledger before _persist_fill_to_portfolio_state has written
\* the position row that the monitors read.
Unwritten(t, p) == IF AtPc(t, "persist") /\ task[t].pos = p THEN task[t].qty ELSE 0
Row(p) == held[p] + Unwritten(Guard, p) + Unwritten(Intraday, p)
Open == {p \in Positions : Row(p) > 0}

Init ==
  /\ task = [t \in Tasks |-> Asleep(IF t = Guard THEN "stop_loss" ELSE "intraday")]
  /\ held = [p \in Positions |-> MaxHeld]
  /\ breach \in SUBSET Positions
  /\ lastClose = [p \in Positions |-> OldClose]
  /\ inflight = [p \in Positions |-> OldFlight]
  /\ lock = 0
  /\ rebuy = Nothing
  /\ failures = 0
----------------------------------------------------------------------------
(* Time and the market *)

Older(age, old) == Smaller(age + 1, old)
LessBelow(left) == left - 1          \* bug: a lock that is over goes on
Less(left) == Larger(left - 1, 0)

\* No task sleeps longer than Gap.
Elapse ==
  /\ \A t \in Tasks : task[t].since < (IF InTick(t) THEN MaxTick ELSE Gap)
  /\ task' = [t \in Tasks |->
       [task[t] EXCEPT !.since = @ + 1,
                       !.claim = IF AtPc(t, "book") THEN Older(@, OldFlight) ELSE @]]
  /\ lastClose' = [p \in Positions |-> Older(lastClose[p], OldClose)]
  /\ inflight' = [p \in Positions |-> Older(inflight[p], OldFlight)]
  /\ lock' = Less(lock)
  /\ rebuy' = [p \in Positions |-> Less(rebuy[p])]
  /\ UNCHANGED <<market, failures>>

\* A price moves, a venue opens or closes, a position outgrows its minimum hold.
PriceMoves(p) ==
  /\ breach' = (breach \ {p}) \cup ({p} \ breach)
  /\ UNCHANGED <<task, held, marks, openLock, failures>>

\* The trading loop opens the position.  _check_open_lock lets a hedge pass, and a
\* signal the allocator selected that fits below the target exposure.
TradingLoopOpens(p) ==
  /\ lock = 0 \/ p \in Allocated
  /\ held[p] <= 0
  /\ held' = [held EXCEPT ![p] = MaxHeld]
  /\ UNCHANGED <<task, breach, marks, openLock, failures>>
----------------------------------------------------------------------------
(* The start and the end of a tick *)

\* The tick reads the clock: now_ts.
StartsClock(t, label) == task' = [task EXCEPT ![t].pc = label, ![t].since = 0]
\* It knows the positions to reduce.
Plans(t, label, chosen) ==
  task' = [task EXCEPT ![t].pc = label,
                       ![t].plan = [p \in Positions |-> IF p \in chosen THEN Row(p) ELSE 0]]

\* _run_stop_loss_tick reads now_ts ...
StopLossTick ==
  /\ Runs(Guard, "stop_loss") /\ AtPc(Guard, "sleep")
  /\ task[Guard].since = Gap
  /\ StartsClock(Guard, "rows")
  /\ UNCHANGED <<market, marks, openLock, failures>>

\* ... then the rows, and takes the whole of every position whose stop is breached.
\* The runtime state it restores does not hold the open lock.
StopLossRows ==
  /\ Runs(Guard, "stop_loss") /\ AtPc(Guard, "rows")
  /\ Plans(Guard, "scan", breach \cap Open)
  /\ UNCHANGED <<market, marks, openLock, failures>>

\* _run_aggregate_derisk_tick reads the rows and selects the worst losers ...
AggregateTick ==
  /\ Runs(Guard, "aggregate") /\ AtPc(Guard, "due")
  /\ \E chosen \in SUBSET (Losers \cap Open) : Plans(Guard, "ages", chosen)
  /\ UNCHANGED <<market, marks, openLock, failures>>

\* ... awaits the ages of the positions, and only then reads now_ts.
AggregateClock ==
  /\ Runs(Guard, "aggregate") /\ AtPc(Guard, "ages")
  /\ StartsClock(Guard, "scan")
  /\ UNCHANGED <<market, marks, openLock, failures>>

\* _run_intraday_derisk_tick: the positions are read ...
IntradayTick ==
  /\ AtPc(Intraday, "sleep")
  /\ task[Intraday].since = Gap
  /\ task' = [task EXCEPT
       ![Intraday].pc = "evaluate", ![Intraday].since = 0,
       ![Intraday].plan = [p \in Positions |-> IF p \in Losers \cap Open THEN Row(p) ELSE 0]]
  /\ UNCHANGED <<market, marks, openLock, failures>>

\* ... then, after an await, evaluate_intraday_derisk trims some of them.  A tier
\* milder than the lock's, or one recovered from, clears the open lock, whoever
\* set it; a fill of the tick sets it if the tier is severe enough.
Tiers == {"none", "mild", "severe", "recovered"}
Evaluate ==
  /\ AtPc(Intraday, "evaluate")
  /\ \E tier \in Tiers :
     \E trim \in [Positions -> 0..MaxHeld] :
       /\ \A p \in Positions : trim[p] <= Larger(task[Intraday].plan[p], 0)
       /\ tier = "none" => trim = Nothing
       /\ task' = [task EXCEPT ![Intraday].pc = "scan",
                               ![Intraday].plan = trim,
                               ![Intraday].locks = tier \in {"severe", "recovered"}]
       /\ IF tier \in {"mild", "recovered"}
          THEN lock' = 0 /\ rebuy' = Nothing
          ELSE UNCHANGED openLock
  /\ UNCHANGED <<market, marks, failures>>

\* The guard task goes from the stop-loss tick to the aggregate tick without a
\* pause, every other tick ends in a sleep.
Over(t) ==
  task' = [task EXCEPT ![t] =
    IF Runs(t, "stop_loss") THEN [Asleep("aggregate") EXCEPT !.pc = "due"]
    ELSE Asleep(IF t = Guard THEN "stop_loss" ELSE "intraday")]

TickEnds(t) ==
  /\ AtPc(t, "scan")
  /\ task[t].plan = Nothing
  /\ Over(t)
  /\ UNCHANGED <<market, marks, openLock, failures>>

\* An exception leaves the loop over the positions: the tick is over, with the
\* marks it has made.
Raises(t) ==
  /\ InTick(t) /\ ~AtPc(t, "due")
  /\ \/ AtPc(t, "book") /\ task[t].pos \in Poison /\ UNCHANGED failures
     \/ failures < MaxFailures /\ failures' = failures + 1
  /\ Over(t)
  /\ UNCHANGED <<market, marks, openLock>>
----------------------------------------------------------------------------
(* One position of a tick *)

\* now_ts - mark, both taken relative to now.
Recent(t, age, window) == age - task[t].since < window

Skipped(t, p) ==
  \/ ~Runs(t, "intraday") /\ Recent(t, lastClose[p], Cooldown)
  \/ ~Runs(t, "stop_loss") /\ Recent(t, inflight[p], Window)

Skip(t, p) ==
  /\ AtPc(t, "scan")
  /\ task[t].plan[p] > 0
  /\ Skipped(t, p)
  /\ task' = [task EXCEPT ![t].plan[p] = 0]
  /\ UNCHANGED <<market, marks, openLock, failures>>

\* An entry of a table is now_ts: as old as the tick.
Marked(ages, t, p) == [ages EXCEPT ![p] = task[t].since]

\* The position goes to the risk engine.  The stop-loss monitor marks it first;
\* its mark in _derisk_inflight_ts has a key with the direction, which no monitor
\* reads, and so has no entry here.
MarkLater(t, p) == lastClose          \* bug: no mark before the risk engine
MarkStop(t, p) == IF Runs(t, "stop_loss") THEN Marked(lastClose, t, p) ELSE lastClose
Submit(t, p) ==
  /\ AtPc(t, "scan")
  /\ task[t].plan[p] > 0
  /\ ~Skipped(t, p)
  /\ task' = [task EXCEPT ![t].pc = "ask", ![t].pos = p,
                          ![t].qty = task[t].plan[p], ![t].plan[p] = 0]
  /\ lastClose' = MarkStop(t, p)
  /\ UNCHANGED <<market, inflight, openLock, failures>>

NextPosition(t) ==
  task' = [task EXCEPT ![t].pc = "scan", ![t].pos = NoPosition, ![t].qty = 0,
                       ![t].claim = 0]

\* A reduce-only signal is rejected while the system is killed or the broker
\* disabled.  Only the aggregate monitor marks a position it could not close.
MarkMiss(t) ==
  IF Runs(t, "aggregate") THEN Marked(lastClose, t, task[t].pos) ELSE lastClose
Reject(t) ==
  /\ AtPc(t, "ask")
  /\ failures < MaxFailures /\ failures' = failures + 1
  /\ lastClose' = MarkMiss(t)
  /\ NextPosition(t)
  /\ UNCHANGED <<market, inflight, openLock>>

\* Approved: execute clamps the quantity to what the fills ledger holds
\* (_clamp_reduce_only_to_holdings), or sells all of it where the rest would be
\* dust.  The intraday monitor marks the position before it executes.
Clamped(qty, p) ==
  IF held[p] <= 0 THEN {0} ELSE {Smaller(qty, held[p]), held[p]}
MarkNothing(t) == inflight            \* bug: the intraday mark only after the fill
MarkApproved(t) ==
  IF Runs(t, "intraday") THEN Marked(inflight, t, task[t].pos) ELSE inflight
\* History: the age of the oldest clock that a mark of the position can still be
\* made with, when its intraday order goes out.
Claim(t) ==
  LET g == task[Guard]
      theirs == Runs(Guard, "aggregate") /\ g.pc \in {"ask", "book"} /\ g.pos = task[t].pos
  IN  IF t # Intraday THEN 0
      ELSE IF theirs THEN Larger(task[t].since, g.since) ELSE task[t].since
Approve(t) ==
  /\ AtPc(t, "ask")
  /\ \E qty \in Clamped(task[t].qty, task[t].pos) :
       task' = [task EXCEPT ![t].pc = "book", ![t].qty = qty, ![t].claim = Claim(t)]
  /\ inflight' = MarkApproved(t)
  /\ UNCHANGED <<market, lastClose, openLock, failures>>

\* execute returns None: nothing to reduce, or the order failed.
Miss(t) ==
  /\ AtPc(t, "book")
  /\ \/ task[t].qty = 0 /\ UNCHANGED failures
     \/ task[t].pos \notin Poison /\ failures < MaxFailures /\ failures' = failures + 1
  /\ lastClose' = MarkMiss(t)
  /\ NextPosition(t)
  /\ UNCHANGED <<market, inflight, openLock>>

ActivatedOnce == IF lock > 0 THEN lock ELSE OpenLock  \* bug: a lock is not extended
\* activate_open_lock: never shortens a lock.
Activated == Larger(lock, OpenLock)

\* The fill is booked and execute returns.
MarkFill(t) ==
  IF Runs(t, "stop_loss") THEN inflight ELSE Marked(inflight, t, task[t].pos)
Book(t) ==
  LET p == task[t].pos
  IN  /\ AtPc(t, "book")
      /\ task[t].qty > 0 /\ p \notin Poison
      /\ held' = [held EXCEPT ![p] = @ - task[t].qty]
      /\ task' = [task EXCEPT ![t].pc = "persist"]
      /\ lastClose' = MarkMiss(t)
      /\ inflight' = MarkFill(t)
      /\ lock' = IF Runs(t, "aggregate") \/ task[t].locks THEN Activated ELSE lock
      /\ rebuy' = IF Runs(t, "aggregate") THEN [rebuy EXCEPT ![p] = OpenLock] ELSE rebuy
      /\ UNCHANGED <<breach, failures>>

\* _persist_fill_to_portfolio_state has written the position row.
Persist(t) ==
  /\ AtPc(t, "persist")
  /\ NextPosition(t)
  /\ UNCHANGED <<market, marks, openLock, failures>>

\* The orchestrator is stopped and started again: the tasks are cancelled at any
\* await, the cooldowns are forgotten, the in-flight marks are not; the open lock
\* comes back from the file of the risk engine.
Restart ==
  /\ failures < MaxFailures /\ failures' = failures + 1
  /\ task' = [t \in Tasks |-> Asleep(IF t = Guard THEN "stop_loss" ELSE "intraday")]
  /\ lastClose' = [p \in Positions |-> OldClose]
  /\ UNCHANGED <<market, inflight, openLock>>

Step(t) ==
  \/ TickEnds(t) \/ Approve(t) \/ Miss(t) \/ Book(t) \/ Persist(t)
  \/ \E p \in Positions : Skip(t, p) \/ Submit(t, p)

GuardSteps ==
  StopLossTick \/ StopLossRows \/ AggregateTick \/ AggregateClock \/ Step(Guard)
IntradaySteps == IntradayTick \/ Evaluate \/ Step(Intraday)

Next ==
  \/ Elapse
  \/ \E p \in Positions : PriceMoves(p) \/ TradingLoopOpens(p)
  \/ GuardSteps \/ IntradaySteps
  \/ \E t \in Tasks : Reject(t) \/ Raises(t)
  \/ Restart

Spec == Init /\ [][Next]_vars

\* The event loop runs both tasks and the clock goes on.  An execution that always
\* raises comes to its exception.
FairSpec ==
  /\ Spec
  /\ WF_vars(Elapse)
  /\ WF_vars(GuardSteps \/ Raises(Guard))
  /\ WF_vars(IntradaySteps \/ Raises(Intraday))
----------------------------------------------------------------------------
(* Properties *)

TypeOK ==
  /\ task \in [Tasks ->
       [monitor : Monitors,
        pc      : {"sleep", "rows", "due", "ages", "evaluate", "scan", "ask", "book",
                   "persist"},
        since   : 0..Larger(Gap, MaxTick),
        plan    : [Positions -> Nat],
        pos     : Positions \cup {NoPosition},
        qty     : Nat,
        locks   : BOOLEAN,
        claim   : 0..OldFlight]]
  /\ held \in [Positions -> Int]
  /\ breach \subseteq Positions
  /\ lastClose \in [Positions -> 0..OldClose]
  /\ inflight \in [Positions -> 0..OldFlight]
  /\ lock \in 0..OpenLock
  /\ rebuy \in [Positions -> 0..OpenLock]
  /\ failures \in 0..MaxFailures

\* The position p has an approved order of monitor m on its way.
Executing(monitor, p) ==
  \E t \in Tasks : Runs(t, monitor) /\ AtPc(t, "book") /\ task[t].pos = p
                   /\ task[t].qty > 0
Submits(monitor, p) ==
  \E t \in Tasks : Runs(t, monitor) /\ AtPc(t, "scan") /\ task'[t].pc = "ask"
                   /\ task'[t].pos = p

\* The aggregate monitor takes no position to the risk engine while an order of
\* the intraday monitor for it is being executed, unless now_ts of that order, or of
\* an aggregate close that was on its way with it, lies a whole window before its
\* own.  Only ticks that outlast the window get there; nothing in the code bounds
\* them, so the comments at system/orchestrator.py:2124 and :3245, by which the mark
\* keeps out a second close, hold for shorter ticks only.
AggregateSeesInFlight ==
  [][\A p \in Positions :
       Submits("aggregate", p) /\ Executing("intraday", p) =>
         task[Intraday].claim - task[Guard].since >= Window]_vars

\* What the aggregate monitor has flattened is not bought back while the open lock
\* it has set would hold, unless the intraday monitor has cleared it or the signal
\* is exempt.
NoRebuy ==
  [][\A p \in Positions \ Allocated : held'[p] > held[p] => rebuy[p] = 0]_vars

\* A breached position is closed in the end, even when the execution of another one
\* raises each time and ends the tick before its turn, provided the ticks of the
\* guard task come to be short beside the cooldown: else each of them finds the
\* mark of the poisoned position expired and raises again.
Prompt == InTick(Guard) => Gap + 3 * task[Guard].since < Cooldown
StopsReach ==
  <>[]Prompt =>
    \A p \in Positions \ Poison : []<>(held[p] <= 0 \/ p \notin breach)

\* What the comment above the marks of the stop-loss monitor says: while its close
\* is on its way, no parallel tick gets a second reduce approved.
Approves(monitor, p) ==
  \E t \in Tasks : Runs(t, monitor) /\ AtPc(t, "ask") /\ task[t].pos = p
                   /\ task'[t].pc = "book" /\ task'[t].qty > 0
StopLossFirst ==
  [][\A p \in Positions : Approves("intraday", p) => ~Executing("stop_loss", p)]_vars
=============================================================================
