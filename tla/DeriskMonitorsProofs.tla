------------------------ MODULE DeriskMonitorsProofs ------------------------
(* Proofs about DeriskMonitors, for any positions and any durations. *)
EXTENDS DeriskMonitors, TLAPS

TaskRecord ==
  [monitor : Monitors,
   pc      : {"sleep", "rows", "due", "ages", "evaluate", "scan", "ask", "book",
              "persist"},
   since   : 0..Larger(Gap, MaxTick),
   plan    : [Positions -> Nat],
   pos     : Positions \cup {NoPosition},
   qty     : Nat,
   locks   : BOOLEAN,
   claim   : 0..OldFlight]

\* Which monitor a task runs, and that one position is in hand from the risk engine
\* to the position row.
TasksOK ==
  /\ task[Intraday].monitor = "intraday"
  /\ task[Guard].monitor \in {"stop_loss", "aggregate"}
  /\ \A t \in Tasks : task[t].pc \in {"ask", "book", "persist"} => task[t].pos \in Positions
  /\ \A t \in Tasks : task[t].pc # "sleep" => task[t].since <= MaxTick

\* While the intraday monitor executes, the in-flight mark of its position is no
\* older than the clocks it can have been made with: that of the order, and that of
\* an aggregate close, which may put its own mark over it.
Behind(p) ==
  task[Guard].monitor = "aggregate" /\ task[Guard].pc \in {"ask", "book"} /\ task[Guard].pos = p
FlightMarked ==
  task[Intraday].pc = "book" =>
    /\ inflight[task[Intraday].pos] <= task[Intraday].claim
    /\ Behind(task[Intraday].pos) => task[Guard].since <= task[Intraday].claim

\* The open lock holds at least as long as any flattened position needs it.
LockCovers == \A p \in Positions : rebuy[p] <= lock

IInv == TypeOK /\ TasksOK /\ FlightMarked /\ LockCovers

LEMMA Constants ==
  /\ Cooldown \in Nat /\ Window \in Nat /\ OpenLock \in Nat /\ Gap \in Nat
  /\ MaxTick \in Nat /\ MaxFailures \in Nat /\ MaxHeld \in Nat
  /\ OldClose \in Nat /\ OldFlight \in Nat
  /\ NoPosition \notin Positions
  /\ OldClose = Cooldown + MaxTick /\ OldFlight = Window + MaxTick
PROOF BY MonitorAssumption DEF OldClose, OldFlight

LEMMA TaskType == TypeOK => task \in [Tasks -> TaskRecord]
PROOF BY DEF TypeOK, TaskRecord

\* A position row is never counted below zero where the monitors look at it.
LEMMA RowType == TypeOK => \A p \in Positions : Row(p) \in Int
PROOF BY DEF TypeOK, Row, Unwritten, Tasks, Guard, Intraday

LEMMA InitInv == Init => IInv
PROOF
<1> SUFFICES ASSUME Init PROVE IInv OBVIOUS
<1> USE Constants DEF Init
<1>1. TypeOK
  BY DEF TypeOK, Asleep, Nothing, Monitors, OldClose, OldFlight, Larger
<1>2. TasksOK
  BY DEF TasksOK, Asleep, Tasks, Guard, Intraday
<1>3. FlightMarked
  BY DEF FlightMarked, Asleep, Tasks, Intraday
<1>4. LockCovers
  BY DEF LockCovers, Nothing
<1> QED BY <1>1, <1>2, <1>3, <1>4 DEF IInv

LEMMA TypeParts ==
  ASSUME task' \in [Tasks -> TaskRecord],
         held' \in [Positions -> Int], breach' \subseteq Positions,
         lastClose' \in [Positions -> 0..OldClose],
         inflight' \in [Positions -> 0..OldFlight],
         lock' \in 0..OpenLock, rebuy' \in [Positions -> 0..OpenLock],
         failures' \in 0..MaxFailures
  PROVE  TypeOK'
PROOF BY DEF TypeOK, TaskRecord

\* The end of a tick leaves the two tasks well formed.
LEMMA OverOK ==
  ASSUME IInv, NEW t \in Tasks, Over(t)
  PROVE  /\ task' \in [Tasks -> TaskRecord]
         /\ TasksOK'
         /\ \A u \in Tasks : u # t => task'[u] = task[u]
         /\ task'[t].pc \in {"sleep", "due"}
PROOF
<1>1. task \in [Tasks -> TaskRecord]
  BY TaskType DEF IInv
<1>2. \A m \in Monitors : Asleep(m) \in TaskRecord
  BY Constants DEF Asleep, TaskRecord, Nothing, Larger
<1>3. [Asleep("aggregate") EXCEPT !.pc = "due"] \in TaskRecord
  BY <1>2 DEF TaskRecord, Monitors
<1>4. task'[t] \in TaskRecord /\ task' \in [Tasks -> TaskRecord]
  BY <1>1, <1>2, <1>3 DEF Over, Monitors
<1>5. \A u \in Tasks : u # t => task'[u] = task[u]
  BY <1>1 DEF Over
<1>6. task'[t] \in {Asleep("stop_loss"), Asleep("intraday"),
                    [Asleep("aggregate") EXCEPT !.pc = "due"]}
  BY <1>1 DEF Over
<1>7. task'[t].pc \in {"sleep", "due"} /\ task'[t].since = 0
  BY <1>6 DEF Asleep
<1>8. (t = Intraday => task'[t].monitor = "intraday")
      /\ (t = Guard => task'[t].monitor \in {"stop_loss", "aggregate"})
  BY <1>1 DEF Over, Asleep, Runs, Guard, Intraday, IInv, TasksOK
<1>9. TasksOK'
  BY <1>4, <1>5, <1>7, <1>8, Constants DEF TasksOK, IInv, Tasks, Guard, Intraday
<1> QED BY <1>4, <1>5, <1>7, <1>9

\* An entry made by a task that ticks is a legal age, and at most a tick old.
LEMMA MarkedOK ==
  ASSUME IInv, NEW t \in Tasks, task[t].pc # "sleep", NEW p \in Positions
  PROVE  /\ task[t].since \in 0..MaxTick
         /\ Marked(lastClose, t, p) \in [Positions -> 0..OldClose]
         /\ Marked(inflight, t, p) \in [Positions -> 0..OldFlight]
         /\ Marked(inflight, t, p)[p] <= MaxTick
         /\ \A q \in Positions : q # p => Marked(inflight, t, p)[q] = inflight[q]
PROOF
<1>1. task[t] \in TaskRecord
  BY TaskType DEF IInv
<1>2. task[t].since \in 0..MaxTick
  BY <1>1, Constants DEF TaskRecord, IInv, TasksOK, Larger
<1>3. lastClose \in [Positions -> 0..OldClose] /\ inflight \in [Positions -> 0..OldFlight]
  BY DEF IInv, TypeOK
<1>4. MaxTick <= OldClose /\ MaxTick <= OldFlight
  BY Constants DEF OldClose, OldFlight
<1> QED BY <1>2, <1>3, <1>4, Constants DEF Marked

LEMMA OlderGrows ==
  ASSUME NEW old \in Nat, NEW a \in 0..old, NEW b \in 0..old, a <= b
  PROVE  Older(a, old) <= Older(b, old)
PROOF BY DEF Older, Smaller

\* What a moment makes of a task.
Aged(t) ==
  [task[t] EXCEPT !.since = @ + 1,
                  !.claim = IF AtPc(t, "book") THEN Older(@, OldFlight) ELSE @]

LEMMA ElapseInv == ASSUME IInv, Elapse PROVE IInv'
PROOF
<1>0. task \in [Tasks -> TaskRecord]
  BY TaskType DEF IInv
<1>e. /\ lastClose' = [q \in Positions |-> Older(lastClose[q], OldClose)]
      /\ inflight' = [q \in Positions |-> Older(inflight[q], OldFlight)]
      /\ lock' = Less(lock)
      /\ rebuy' = [q \in Positions |-> Less(rebuy[q])]
      /\ UNCHANGED <<market, failures>>
  BY DEF Elapse
<1>f. /\ \A t \in Tasks : task[t].since < (IF InTick(t) THEN MaxTick ELSE Gap)
      /\ task' = [t \in Tasks |-> Aged(t)]
  BY DEF Elapse, Aged
<1>a. \A t \in Tasks : /\ task[t] \in TaskRecord
                       /\ task'[t] = Aged(t)
                       /\ task[t].since + 1 \in 0..Larger(Gap, MaxTick)
                       /\ task[t].pc # "sleep" => task[t].since + 1 <= MaxTick
  <2> SUFFICES ASSUME NEW t \in Tasks
               PROVE  /\ task[t] \in TaskRecord
                      /\ task'[t] = Aged(t)
                      /\ task[t].since + 1 \in 0..Larger(Gap, MaxTick)
                      /\ task[t].pc # "sleep" => task[t].since + 1 <= MaxTick
    OBVIOUS
  <2>1. task[t] \in TaskRecord BY <1>0
  <2>2. task[t].since \in Nat BY <2>1, Constants DEF TaskRecord, Larger
  <2>3. task[t].since < (IF task[t].pc # "sleep" THEN MaxTick ELSE Gap)
    BY <1>f DEF InTick, AtPc
  <2> QED BY <1>f, <2>1, <2>2, <2>3, Constants DEF Larger
<1>b. \A t \in Tasks : /\ Aged(t) \in TaskRecord
                       /\ Aged(t).monitor = task[t].monitor /\ Aged(t).pc = task[t].pc
                       /\ Aged(t).pos = task[t].pos /\ Aged(t).since = task[t].since + 1
                       /\ task[t].pc = "book" => Aged(t).claim = Older(task[t].claim, OldFlight)
  <2> SUFFICES ASSUME NEW t \in Tasks
               PROVE  /\ Aged(t) \in TaskRecord
                      /\ Aged(t).monitor = task[t].monitor /\ Aged(t).pc = task[t].pc
                      /\ Aged(t).pos = task[t].pos /\ Aged(t).since = task[t].since + 1
                      /\ task[t].pc = "book" => Aged(t).claim = Older(task[t].claim, OldFlight)
    OBVIOUS
  <2> DEFINE claim == IF AtPc(t, "book") THEN Older(task[t].claim, OldFlight) ELSE task[t].claim
  <2>1. task[t] \in TaskRecord BY <1>a
  <2>2. claim \in 0..OldFlight
    <3>1. task[t].claim \in 0..OldFlight BY <2>1 DEF TaskRecord
    <3>2. Older(task[t].claim, OldFlight) \in 0..OldFlight
      BY <3>1, Constants DEF Older, Smaller
    <3> QED BY <3>1, <3>2
  <2>3. Aged(t) = [task[t] EXCEPT !.since = task[t].since + 1, !.claim = claim]
    BY <2>1 DEF Aged, TaskRecord
  <2>4. task[t].pc = "book" => claim = Older(task[t].claim, OldFlight) BY DEF AtPc
  <2> HIDE DEF claim
  <2> QED BY <1>a, <2>1, <2>2, <2>3, <2>4 DEF TaskRecord
<1>d. task' \in [Tasks -> TaskRecord]
  BY <1>b, <1>f
<1>c. lastClose' \in [Positions -> 0..OldClose] /\ inflight' \in [Positions -> 0..OldFlight]
      /\ lock' \in 0..OpenLock /\ rebuy' \in [Positions -> 0..OpenLock]
  <2>1. \A a \in 0..OldClose : Older(a, OldClose) \in 0..OldClose
    BY Constants DEF Older, Smaller
  <2>2. \A a \in 0..OldFlight : Older(a, OldFlight) \in 0..OldFlight
    BY Constants DEF Older, Smaller
  <2>3. \A a \in 0..OpenLock : Less(a) \in 0..OpenLock
    BY Constants DEF Less, Larger
  <2> QED BY <1>e, <2>1, <2>2, <2>3 DEF IInv, TypeOK
<1>1. TypeOK'
  BY <1>d, <1>c, <1>e, TypeParts DEF IInv, TypeOK, market
<1>2. TasksOK'
  <2>1. Guard \in Tasks /\ Intraday \in Tasks BY DEF Tasks
  <2>2. \A t \in Tasks :
          /\ task'[t].monitor = task[t].monitor /\ task'[t].pc = task[t].pc
          /\ task'[t].pos = task[t].pos /\ task'[t].since = task[t].since + 1
          /\ task[t].pc # "sleep" => task[t].since + 1 <= MaxTick
    BY <1>a, <1>b
  <2> QED BY <2>1, <2>2 DEF IInv, TasksOK
<1>3. FlightMarked'
  <2> DEFINE q == task[Intraday].pos
  <2>0. Intraday \in Tasks /\ Guard \in Tasks BY DEF Tasks
  <2>1. task'[Intraday].pos = q /\ task'[Intraday].pc = task[Intraday].pc
        /\ \A p \in Positions : (Behind(p)') = Behind(p)
    BY <1>a, <1>b, <2>0 DEF Behind
  <2> SUFFICES ASSUME task[Intraday].pc = "book"
               PROVE  /\ inflight'[q] <= task'[Intraday].claim
                      /\ Behind(q) => task'[Guard].since <= task'[Intraday].claim
    <3>1. task[Intraday].pc = "book" => q \in Positions
      BY <2>0 DEF IInv, TasksOK
    <3> QED BY <2>1, <3>1 DEF FlightMarked
  <2>2. q \in Positions
    BY <2>0 DEF IInv, TasksOK
  <2>3. /\ inflight[q] <= task[Intraday].claim
        /\ Behind(q) => task[Guard].since <= task[Intraday].claim
    BY DEF IInv, FlightMarked
  <2>4. inflight'[q] = Older(inflight[q], OldFlight) /\ inflight[q] \in 0..OldFlight
    BY <1>e, <2>2 DEF IInv, TypeOK
  <2>5. /\ task'[Intraday].claim = Older(task[Intraday].claim, OldFlight)
        /\ task[Intraday].claim \in 0..OldFlight
    BY <1>a, <1>b, <2>0 DEF TaskRecord
  <2>6. Behind(q) => /\ task'[Guard].since = task[Guard].since + 1
                     /\ task[Guard].since \in Nat /\ task[Guard].since + 1 <= MaxTick
    <3>1. task[Guard] \in TaskRecord BY <1>a, <2>0
    <3>2. task[Guard].since \in Nat BY <3>1, Constants DEF TaskRecord, Larger
    <3> QED BY <1>a, <1>b, <2>0, <3>2 DEF Behind
  <2> HIDE DEF q
  <2>7. inflight'[q] <= task'[Intraday].claim
    BY <2>3, <2>4, <2>5, Constants, OlderGrows
  <2>8. Behind(q) => task'[Guard].since <= task'[Intraday].claim
    <3>1. MaxTick <= OldFlight BY Constants
    <3> QED BY <2>3, <2>5, <2>6, <3>1, Constants DEF Older, Smaller
  <2> QED BY <2>7, <2>8
<1>4. LockCovers'
  <2> SUFFICES ASSUME NEW p \in Positions PROVE rebuy'[p] <= lock'
    BY DEF LockCovers
  <2>1. rebuy[p] <= lock /\ rebuy[p] \in Int /\ lock \in Int
    BY DEF IInv, LockCovers, TypeOK
  <2>2. rebuy'[p] = Less(rebuy[p]) /\ lock' = Less(lock)
    BY <1>e DEF IInv, TypeOK
  <2> QED BY <2>1, <2>2 DEF Less, Larger
<1> QED BY <1>1, <1>2, <1>3, <1>4 DEF IInv

LEMMA MarketInv ==
  ASSUME IInv, NEW p \in Positions, PriceMoves(p) \/ TradingLoopOpens(p)
  PROVE  IInv'
PROOF
<1>0. task' = task /\ lastClose' = lastClose /\ inflight' = inflight /\ lock' = lock
      /\ rebuy' = rebuy /\ failures' = failures
  BY DEF PriceMoves, TradingLoopOpens, marks, openLock
<1>1. held' \in [Positions -> Int] /\ breach' \subseteq Positions
  BY Constants DEF PriceMoves, TradingLoopOpens, IInv, TypeOK
<1>2. TypeOK'
  BY <1>0, <1>1 DEF IInv, TypeOK
<1> QED BY <1>0, <1>2 DEF IInv, TasksOK, FlightMarked, Behind, LockCovers

\* What a step of task t has to show of the record it leaves.
GoodRecord(t, r) ==
  /\ r \in TaskRecord
  /\ r.monitor = task[t].monitor
  /\ r.pc \in {"ask", "book", "persist"} => r.pos \in Positions
  /\ r.pc # "sleep" => r.since <= MaxTick

LEMMA TaskStep ==
  ASSUME IInv, NEW t \in Tasks, NEW r, GoodRecord(t, r), task' = [task EXCEPT ![t] = r]
  PROVE  /\ task' \in [Tasks -> TaskRecord]
         /\ TasksOK'
         /\ task'[t] = r
         /\ \A u \in Tasks : u # t => task'[u] = task[u]
PROOF
<1>1. task \in [Tasks -> TaskRecord]
  BY TaskType DEF IInv
<1>2. task' \in [Tasks -> TaskRecord] /\ task'[t] = r
      /\ \A u \in Tasks : u # t => task'[u] = task[u]
  BY <1>1 DEF GoodRecord
<1>3. TasksOK'
  BY <1>1, <1>2 DEF TasksOK, IInv, GoodRecord, Tasks, Guard, Intraday
<1> QED BY <1>2, <1>3

\* FlightMarked is kept by a step of t that leaves the marks alone and does not
\* bring the intraday monitor to execution, or a position into the guard's hand.
LEMMA FlightKept ==
  ASSUME IInv, NEW t \in Tasks,
         \A u \in Tasks : u # t => task'[u] = task[u],
         inflight' = inflight,
         t = Intraday => task'[t].pc # "book",
         t = Guard => \/ task'[t].pc \notin {"ask", "book"}
                      \/ /\ task[t].pc \in {"ask", "book"}
                         /\ task'[t].monitor = task[t].monitor
                         /\ task'[t].pos = task[t].pos
                         /\ task'[t].since = task[t].since
  PROVE  FlightMarked'
PROOF
<1> DEFINE q == task[Intraday].pos
<1> SUFFICES ASSUME task'[Intraday].pc = "book"
             PROVE  /\ inflight'[task'[Intraday].pos] <= task'[Intraday].claim
                    /\ (Behind(task[Intraday].pos)') => task'[Guard].since <= task'[Intraday].claim
  BY DEF FlightMarked
<1>1. t = Guard /\ task'[Intraday] = task[Intraday]
  BY DEF Tasks, Guard, Intraday
<1>2. /\ inflight[q] <= task[Intraday].claim
      /\ Behind(q) => task[Guard].since <= task[Intraday].claim
  BY <1>1 DEF IInv, FlightMarked
<1>3. (Behind(q)') => Behind(q) /\ task'[Guard].since = task[Guard].since
  BY <1>1 DEF Behind
<1> QED BY <1>1, <1>2, <1>3

LEMMA LockKept == ASSUME IInv, UNCHANGED openLock PROVE LockCovers'
PROOF BY DEF LockCovers, IInv, openLock

LEMMA BeginInv ==
  ASSUME IInv, StopLossTick \/ StopLossRows \/ AggregateTick \/ AggregateClock \/ IntradayTick
  PROVE  IInv'
PROOF
<1>0. UNCHANGED <<market, marks, openLock, failures>>
  BY DEF StopLossTick, StopLossRows, AggregateTick, AggregateClock, IntradayTick
<1>a. task \in [Tasks -> TaskRecord] /\ Guard \in Tasks /\ Intraday \in Tasks
      /\ \A p \in Positions : Row(p) \in Int
  BY TaskType, RowType DEF IInv, Tasks
<1>b. \A S \in SUBSET Open :
        [p \in Positions |-> IF p \in S THEN Row(p) ELSE 0] \in [Positions -> Nat]
  BY <1>a DEF Open
<1>1. PICK t \in Tasks, r \in TaskRecord :
        /\ task' = [task EXCEPT ![t] = r]
        /\ r.monitor = task[t].monitor
        /\ r.pc \in {"rows", "scan", "ages", "evaluate"}
        /\ r.since = 0 \/ (r.since = task[t].since /\ task[t].pc # "sleep")
  <2>1. ASSUME NEW t \in Tasks, NEW label \in {"rows", "scan"}, StartsClock(t, label)
        PROVE  LET r == [task[t] EXCEPT !.pc = label, !.since = 0]
               IN  /\ task' = [task EXCEPT ![t] = r]
                   /\ r \in TaskRecord /\ r.monitor = task[t].monitor
                   /\ r.pc = label /\ r.since = 0
    <3> DEFINE r == [task[t] EXCEPT !.pc = label, !.since = 0]
    <3>1. task[t] \in TaskRecord /\ 0 \in 0..Larger(Gap, MaxTick)
      BY <1>a, Constants DEF Larger
    <3>2. task' = [task EXCEPT ![t] = r] BY <1>a, <2>1 DEF StartsClock
    <3>3. /\ r \in TaskRecord /\ r.monitor = task[t].monitor
          /\ r.pc = label /\ r.since = 0
      BY <3>1 DEF TaskRecord
    <3> QED BY <3>2, <3>3
  <2>2. ASSUME NEW t \in Tasks, NEW label \in {"ages", "scan"}, NEW S \in SUBSET Open,
               Plans(t, label, S)
        PROVE  LET plan == [p \in Positions |-> IF p \in S THEN Row(p) ELSE 0]
                   r == [task[t] EXCEPT !.pc = label, !.plan = plan]
               IN  /\ task' = [task EXCEPT ![t] = r]
                   /\ r \in TaskRecord /\ r.monitor = task[t].monitor
                   /\ r.pc = label /\ r.since = task[t].since
    <3> DEFINE plan == [p \in Positions |-> IF p \in S THEN Row(p) ELSE 0]
    <3> DEFINE r == [task[t] EXCEPT !.pc = label, !.plan = plan]
    <3>1. task[t] \in TaskRecord /\ plan \in [Positions -> Nat] BY <1>a, <1>b
    <3>2. task' = [task EXCEPT ![t] = r] BY <1>a, <2>2 DEF Plans
    <3> HIDE DEF plan
    <3>3. /\ r \in TaskRecord /\ r.monitor = task[t].monitor
          /\ r.pc = label /\ r.since = task[t].since
      BY <3>1 DEF TaskRecord
    <3> QED BY <3>2, <3>3 DEF plan
  <2>3. CASE StopLossTick BY <1>a, <2>1, <2>3 DEF StopLossTick
  <2>4. CASE AggregateClock BY <1>a, <2>1, <2>4 DEF AggregateClock
  <2>5. CASE StopLossRows
    <3>1. Plans(Guard, "scan", breach \cap Open) /\ task[Guard].pc = "rows"
      BY <2>5 DEF StopLossRows, AtPc
    <3>2. breach \cap Open \in SUBSET Open OBVIOUS
    <3> DEFINE plan == [p \in Positions |-> IF p \in breach \cap Open THEN Row(p) ELSE 0]
    <3> DEFINE r == [task[Guard] EXCEPT !.pc = "scan", !.plan = plan]
    <3>3. /\ task' = [task EXCEPT ![Guard] = r]
          /\ r \in TaskRecord /\ r.monitor = task[Guard].monitor
          /\ r.pc = "scan" /\ r.since = task[Guard].since
      BY <1>a, <2>2, <3>1, <3>2
    <3> HIDE DEF r
    <3> QED BY <1>a, <3>1, <3>3
  <2>6. CASE AggregateTick
    <3>1. PICK chosen \in SUBSET (Losers \cap Open) : Plans(Guard, "ages", chosen)
      BY <2>6 DEF AggregateTick
    <3>2. task[Guard].pc = "due" BY <2>6 DEF AggregateTick, AtPc
    <3>3. chosen \in SUBSET Open OBVIOUS
    <3> DEFINE plan == [p \in Positions |-> IF p \in chosen THEN Row(p) ELSE 0]
    <3> DEFINE r == [task[Guard] EXCEPT !.pc = "ages", !.plan = plan]
    <3>4. /\ task' = [task EXCEPT ![Guard] = r]
          /\ r \in TaskRecord /\ r.monitor = task[Guard].monitor
          /\ r.pc = "ages" /\ r.since = task[Guard].since
      BY <1>a, <2>2, <3>1, <3>3
    <3> HIDE DEF r
    <3> QED BY <1>a, <3>2, <3>4
  <2>7. CASE IntradayTick
    <3> DEFINE plan == [p \in Positions |-> IF p \in Losers \cap Open THEN Row(p) ELSE 0]
    <3> DEFINE r == [task[Intraday] EXCEPT !.pc = "evaluate", !.since = 0, !.plan = plan]
    <3>1. plan \in [Positions -> Nat] /\ task[Intraday] \in TaskRecord BY <1>a, <1>b
    <3>2. task' = [task EXCEPT ![Intraday] = r]
      BY <1>a, <2>7 DEF IntradayTick
    <3> HIDE DEF plan
    <3>3. /\ r \in TaskRecord /\ r.monitor = task[Intraday].monitor
          /\ r.pc = "evaluate" /\ r.since = 0
      <4>1. 0 \in 0..Larger(Gap, MaxTick) BY Constants DEF Larger
      <4> QED BY <3>1, <4>1 DEF TaskRecord
    <3> QED BY <1>a, <3>2, <3>3
  <2> QED BY <2>3, <2>4, <2>5, <2>6, <2>7
<1>2. GoodRecord(t, r)
  BY <1>1, Constants DEF GoodRecord, IInv, TasksOK
<1>3. /\ task' \in [Tasks -> TaskRecord] /\ TasksOK' /\ task'[t] = r
      /\ \A u \in Tasks : u # t => task'[u] = task[u]
  BY <1>1, <1>2, TaskStep
<1>4. TypeOK'
  BY <1>0, <1>3, TypeParts DEF IInv, TypeOK, market, marks, openLock
<1>5. FlightMarked'
  BY <1>0, <1>1, <1>3, FlightKept DEF marks
<1> QED BY <1>0, <1>3, <1>4, <1>5, LockKept DEF IInv

LEMMA EvaluateInv == ASSUME IInv, Evaluate PROVE IInv'
PROOF
<1>0. UNCHANGED <<market, marks, failures>>
  BY DEF Evaluate
<1>d. PICK tier \in Tiers, trim \in [Positions -> 0..MaxHeld] :
        task' = [task EXCEPT ![Intraday].pc = "scan", ![Intraday].plan = trim,
                             ![Intraday].locks = tier \in {"severe", "recovered"}]
  BY DEF Evaluate
<1> DEFINE locks == tier \in {"severe", "recovered"}
<1>1. task' = [task EXCEPT ![Intraday].pc = "scan", ![Intraday].plan = trim,
                           ![Intraday].locks = locks]
  BY <1>d
<1>a. task[Intraday] \in TaskRecord /\ task \in [Tasks -> TaskRecord] /\ Intraday \in Tasks
  BY TaskType DEF IInv, Tasks
<1> DEFINE r == [task[Intraday] EXCEPT !.pc = "scan", !.plan = trim, !.locks = locks]
<1>2. task' = [task EXCEPT ![Intraday] = r]
  BY <1>1, <1>a
<1>b. task[Intraday].pc = "evaluate"
  BY DEF Evaluate, AtPc
<1>c. trim \in [Positions -> Nat]
  BY Constants
<1>3. GoodRecord(Intraday, r)
  <2> HIDE DEF locks
  <2>1. locks \in BOOLEAN BY DEF locks
  <2>2. task[Intraday].since <= MaxTick BY <1>a, <1>b DEF IInv, TasksOK
  <2>3. /\ r \in TaskRecord /\ r.monitor = task[Intraday].monitor
        /\ r.pc = "scan" /\ r.since = task[Intraday].since
    BY <1>a, <1>c, <2>1 DEF TaskRecord
  <2> QED BY <2>2, <2>3 DEF GoodRecord
<1>4. /\ task' \in [Tasks -> TaskRecord] /\ TasksOK' /\ task'[Intraday] = r
      /\ \A u \in Tasks : u # Intraday => task'[u] = task[u]
  BY <1>2, <1>3, <1>a, TaskStep
<1>5. \/ UNCHANGED openLock
      \/ lock' = 0 /\ rebuy' = Nothing
  BY DEF Evaluate
<1>6. lock' \in 0..OpenLock /\ rebuy' \in [Positions -> 0..OpenLock] /\ LockCovers'
  BY <1>5, Constants DEF IInv, TypeOK, LockCovers, openLock, Nothing
<1>7. TypeOK'
  BY <1>0, <1>4, <1>6, TypeParts DEF IInv, TypeOK, market, marks
<1>8. FlightMarked'
  BY <1>0, <1>4, <1>a, FlightKept DEF marks, TaskRecord
<1> QED BY <1>4, <1>6, <1>7, <1>8 DEF IInv

LEMMA EndInv ==
  ASSUME IInv, NEW t \in Tasks, TickEnds(t) \/ Raises(t)
  PROVE  IInv'
PROOF
<1>0. Over(t) /\ UNCHANGED <<market, marks, openLock>> /\ failures' \in 0..MaxFailures
  BY Constants DEF TickEnds, Raises, IInv, TypeOK
<1>1. /\ task' \in [Tasks -> TaskRecord] /\ TasksOK'
      /\ \A u \in Tasks : u # t => task'[u] = task[u]
      /\ task'[t].pc \in {"sleep", "due"}
  BY <1>0, OverOK
<1>2. TypeOK'
  BY <1>0, <1>1, TypeParts DEF IInv, TypeOK, market, marks, openLock
<1>3. FlightMarked'
  BY <1>0, <1>1, FlightKept DEF marks
<1> QED BY <1>0, <1>1, <1>2, <1>3, LockKept DEF IInv

\* The steps that go on to another position, or to the risk engine.
LEMMA ScanInv ==
  ASSUME IInv, NEW t \in Tasks, NEW p \in Positions, Skip(t, p) \/ Submit(t, p)
  PROVE  IInv'
PROOF
<1>0. UNCHANGED <<market, openLock, failures, inflight>> /\ task[t].pc = "scan"
  BY DEF Skip, Submit, marks, AtPc
<1>a. task[t] \in TaskRecord /\ task \in [Tasks -> TaskRecord]
  BY TaskType DEF IInv
<1>b. task[t].since <= MaxTick
  BY <1>0 DEF IInv, TasksOK
<1>1. PICK r \in TaskRecord :
        /\ task' = [task EXCEPT ![t] = r]
        /\ r.monitor = task[t].monitor /\ r.since = task[t].since
        /\ r.pc \in {"scan", "ask"}
        /\ r.pc = "ask" => r.pos \in Positions
  <2>0. [task[t].plan EXCEPT ![p] = 0] \in [Positions -> Nat]
    BY <1>a DEF TaskRecord
  <2>1. CASE Skip(t, p)
    <3> DEFINE r == [task[t] EXCEPT !.plan[p] = 0]
    <3>1. task' = [task EXCEPT ![t] = r] BY <1>a, <2>1 DEF Skip
    <3>2. r \in TaskRecord /\ r.monitor = task[t].monitor /\ r.since = task[t].since
          /\ r.pc = "scan"
      BY <1>0, <1>a, <2>0 DEF TaskRecord
    <3> QED BY <3>1, <3>2
  <2>2. CASE Submit(t, p)
    <3> DEFINE r == [task[t] EXCEPT !.pc = "ask", !.pos = p, !.qty = task[t].plan[p], !.plan[p] = 0]
    <3>1. task' = [task EXCEPT ![t] = r] BY <1>a, <2>2 DEF Submit
    <3>2. task[t].plan[p] \in Nat BY <1>a DEF TaskRecord
    <3>3. r \in TaskRecord /\ r.monitor = task[t].monitor /\ r.since = task[t].since
          /\ r.pc = "ask" /\ r.pos = p
      BY <1>a, <2>0, <3>2 DEF TaskRecord
    <3> QED BY <3>1, <3>3
  <2> QED BY <2>1, <2>2
<1>2. GoodRecord(t, r)
  BY <1>1, <1>b DEF GoodRecord
<1>3. /\ task' \in [Tasks -> TaskRecord] /\ TasksOK' /\ task'[t] = r
      /\ \A u \in Tasks : u # t => task'[u] = task[u]
  BY <1>1, <1>2, TaskStep
<1>4. lastClose' \in [Positions -> 0..OldClose]
  BY <1>0, MarkedOK DEF Skip, Submit, MarkStop, marks, IInv, TypeOK
<1>5. TypeOK'
  BY <1>0, <1>3, <1>4, TypeParts DEF IInv, TypeOK, market, openLock
<1>6. FlightMarked'
  <2>1. CASE t = Guard /\ r.pc = "ask" /\ task[Intraday].pc = "book"
    <3> DEFINE q == task[Intraday].pos
    <3>1. task'[Intraday] = task[Intraday] /\ inflight[q] <= task[Intraday].claim
          /\ Intraday \in Tasks /\ q \in Positions
      BY <1>3, <2>1 DEF IInv, FlightMarked, TasksOK, Tasks, Guard, Intraday
    <3>2. task[Intraday].claim \in Int /\ inflight[q] \in Int /\ task[t].since \in Nat
      BY <1>a, <3>1 DEF IInv, TypeOK, TaskRecord
    <3>3. (Behind(q)') => task[t].monitor = "aggregate" /\ Submit(t, p) /\ p = q
      <4>1. Skip(t, p) => task'[t].pc = "scan"
        BY <1>a, <1>0 DEF Skip, TaskRecord
      <4>2. Submit(t, p) => task'[t].pos = p
        BY <1>a DEF Submit, TaskRecord
      <4>3. task'[Guard].pc = "ask" /\ task'[t].monitor = task[t].monitor
            /\ task'[t] = task'[Guard]
        BY <1>1, <1>3, <2>1
      <4>4. Submit(t, p) BY <4>1, <4>3
      <4>5. (Behind(q)') => task'[Guard].monitor = "aggregate" /\ task'[Guard].pos = q
        BY <3>1 DEF Behind
      <4> QED BY <4>2, <4>3, <4>4, <4>5
    <3>4. (Behind(q)') => inflight[q] - task[t].since >= Window
      BY <3>2, <3>3, Constants DEF Submit, Skipped, Recent, Runs
    <3>5. (Behind(q)') => task'[Guard].since <= task'[Intraday].claim
      BY <3>1, <3>2, <3>4, <1>1, <1>3, <2>1, Constants
    <3> QED BY <1>0, <3>1, <3>5 DEF FlightMarked
  <2>2. CASE t = Guard /\ r.pc = "ask" /\ task[Intraday].pc # "book"
    <3>1. task'[Intraday] = task[Intraday]
      BY <1>3, <2>2 DEF Tasks, Guard, Intraday
    <3> QED BY <2>2, <3>1 DEF FlightMarked
  <2>3. CASE t # Guard \/ r.pc = "scan"
    BY <1>0, <1>1, <1>3, <2>3, FlightKept
  <2> QED BY <2>1, <2>2, <2>3, <1>1
<1> QED BY <1>0, <1>3, <1>5, <1>6, LockKept DEF IInv

\* What MarkMiss leaves in lastClose.
LEMMA MissType ==
  ASSUME IInv, NEW t \in Tasks, task[t].pc \in {"ask", "book"}
  PROVE  MarkMiss(t) \in [Positions -> 0..OldClose] /\ task[t].pos \in Positions
PROOF
<1>1. task[t].pos \in Positions
  BY DEF IInv, TasksOK
<1> QED BY <1>1, MarkedOK DEF MarkMiss, IInv, TypeOK

LEMMA NextPositionOK ==
  ASSUME IInv, NEW t \in Tasks, NextPosition(t), task[t].pc # "sleep"
  PROVE  /\ task' \in [Tasks -> TaskRecord] /\ TasksOK'
         /\ task'[t].pc = "scan"
         /\ \A u \in Tasks : u # t => task'[u] = task[u]
PROOF
<1>1. task[t] \in TaskRecord /\ task \in [Tasks -> TaskRecord]
  BY TaskType DEF IInv
<1> DEFINE r == [task[t] EXCEPT !.pc = "scan", !.pos = NoPosition, !.qty = 0, !.claim = 0]
<1>2. task' = [task EXCEPT ![t] = r]
  BY <1>1 DEF NextPosition
<1>3. r \in TaskRecord /\ r.monitor = task[t].monitor /\ r.since = task[t].since
      /\ r.pc = "scan"
  <2>1. 0 \in 0..OldFlight BY Constants
  <2> QED BY <1>1, <2>1 DEF TaskRecord
<1>4. GoodRecord(t, r)
  BY <1>3 DEF GoodRecord, IInv, TasksOK
<1> QED BY <1>2, <1>3, <1>4, TaskStep

LEMMA MissInv ==
  ASSUME IInv, NEW t \in Tasks, Reject(t) \/ Miss(t) \/ Persist(t)
  PROVE  IInv'
PROOF
<1>0. /\ UNCHANGED <<market, inflight, openLock>> /\ NextPosition(t)
      /\ task[t].pc \in {"ask", "book", "persist"} /\ failures' \in 0..MaxFailures
  BY Constants DEF Reject, Miss, Persist, marks, AtPc, IInv, TypeOK
<1>1. lastClose' \in [Positions -> 0..OldClose]
  <2>1. CASE Reject(t) \/ Miss(t)
    BY <2>1, MissType DEF Reject, Miss, AtPc
  <2>2. CASE Persist(t)
    BY <2>2 DEF Persist, marks, IInv, TypeOK
  <2> QED BY <2>1, <2>2
<1>2. /\ task' \in [Tasks -> TaskRecord] /\ TasksOK' /\ task'[t].pc = "scan"
      /\ \A u \in Tasks : u # t => task'[u] = task[u]
  BY <1>0, NextPositionOK
<1>3. TypeOK'
  BY <1>0, <1>1, <1>2, TypeParts DEF IInv, TypeOK, market, openLock
<1>4. FlightMarked'
  BY <1>0, <1>2, FlightKept
<1> QED BY <1>0, <1>2, <1>3, <1>4, LockKept DEF IInv

\* Approval: the mark is as old as the tick of the monitor that makes it.
LEMMA ApproveInv == ASSUME IInv, NEW t \in Tasks, Approve(t) PROVE IInv'
PROOF
<1>0. UNCHANGED <<market, lastClose, openLock, failures>> /\ task[t].pc = "ask"
  BY DEF Approve, AtPc
<1>a. task[t] \in TaskRecord /\ task \in [Tasks -> TaskRecord] /\ task[t].pos \in Positions
  BY <1>0, TaskType DEF IInv, TasksOK
<1>1. PICK qty \in Clamped(task[t].qty, task[t].pos) :
        task' = [task EXCEPT ![t].pc = "book", ![t].qty = qty, ![t].claim = Claim(t)]
  BY DEF Approve
<1>2. qty \in Nat
  BY <1>a DEF Clamped, Smaller, TaskRecord, IInv, TypeOK
<1>b. task[Guard].pc # "sleep" => task[Guard].since \in 0..MaxTick
  <2>1. Guard \in Tasks /\ task[Guard] \in TaskRecord BY <1>a DEF Tasks
  <2> QED BY <2>1, Constants DEF TaskRecord, Larger, IInv, TasksOK
<1>c. Claim(t) \in 0..OldFlight
  <2>1. task[t].since \in 0..MaxTick BY <1>0, <1>a, MarkedOK
  <2>2. task[Guard].pc \in {"ask", "book"} => task[Guard].since \in 0..MaxTick
    BY <1>b
  <2>3. Claim(t) \in {0, task[t].since}
        \/ (task[Guard].pc \in {"ask", "book"} /\ Claim(t) \in {task[t].since, task[Guard].since})
    BY DEF Claim, Larger
  <2>4. MaxTick <= OldFlight BY Constants
  <2> QED BY <2>1, <2>2, <2>3, <2>4, Constants
<1> DEFINE r == [task[t] EXCEPT !.pc = "book", !.qty = qty, !.claim = Claim(t)]
<1>3. task' = [task EXCEPT ![t] = r]
  BY <1>1, <1>a
<1>4. /\ r \in TaskRecord /\ r.monitor = task[t].monitor /\ r.since = task[t].since
      /\ r.pc = "book" /\ r.pos = task[t].pos /\ r.claim = Claim(t)
  BY <1>2, <1>a, <1>c DEF TaskRecord
<1>5. GoodRecord(t, r)
  BY <1>0, <1>4, <1>a DEF GoodRecord, IInv, TasksOK
<1>6. /\ task' \in [Tasks -> TaskRecord] /\ TasksOK' /\ task'[t] = r
      /\ \A u \in Tasks : u # t => task'[u] = task[u]
  BY <1>3, <1>5, TaskStep
<1>7. inflight' = MarkApproved(t)
  BY DEF Approve
<1>8. /\ Marked(inflight, t, task[t].pos) \in [Positions -> 0..OldFlight]
      /\ Marked(inflight, t, task[t].pos)[task[t].pos] <= MaxTick
      /\ task[t].since \in 0..MaxTick
  BY <1>0, <1>a, MarkedOK
<1>9. TypeOK'
  <2>1. inflight' \in [Positions -> 0..OldFlight]
    BY <1>7, <1>8 DEF MarkApproved, IInv, TypeOK
  <2> QED BY <2>1, <1>0, <1>6, TypeParts DEF IInv, TypeOK, market, openLock
<1>10. FlightMarked'
  <2>1. CASE t = Intraday
    <3>0. task'[Guard] = task[Guard] /\ Guard \in Tasks
      BY <1>6, <2>1 DEF Tasks, Guard, Intraday
    <3>1. inflight' = Marked(inflight, t, task[t].pos)
      BY <1>7, <2>1 DEF MarkApproved, Runs, IInv, TasksOK
    <3>2. inflight'[task[t].pos] = task[t].since
      BY <3>1, <1>a DEF Marked, IInv, TypeOK
    <3>3. /\ task[t].since <= Claim(t)
          /\ Behind(task[t].pos) => task[Guard].since <= Claim(t)
      <4>1. Behind(task[t].pos) => task[Guard].since \in Nat
        <5>1. Behind(task[t].pos) => task[Guard].pc \in {"ask", "book"} BY DEF Behind
        <5> QED BY <1>b, <5>1
      <4> QED BY <1>8, <2>1, <4>1 DEF Claim, Behind, Runs, Larger
    <3>4. (Behind(task[t].pos)') = Behind(task[t].pos)
      BY <3>0, <2>1, <1>4, <1>6 DEF Behind
    <3> QED BY <2>1, <3>0, <3>2, <3>3, <3>4, <1>4, <1>6 DEF FlightMarked
  <2>2. CASE t # Intraday
    <3>1. t = Guard BY <2>2 DEF Tasks
    <3>2. inflight' = inflight
      BY <1>7, <3>1 DEF MarkApproved, Runs, IInv, TasksOK
    <3> QED BY <3>2, <2>2, <1>0, <1>4, <1>6, FlightKept
  <2> QED BY <2>1, <2>2
<1> QED BY <1>0, <1>6, <1>9, <1>10, LockKept DEF IInv

\* A fill: the aggregate monitor may overwrite the mark of the intraday monitor with
\* an older one and sets the lock with the history.
LEMMA BookInv == ASSUME IInv, NEW t \in Tasks, Book(t) PROVE IInv'
PROOF
<1>0. task[t].pc = "book" /\ UNCHANGED <<breach, failures>>
  BY DEF Book, AtPc
<1>a. task[t] \in TaskRecord /\ task \in [Tasks -> TaskRecord] /\ task[t].pos \in Positions
  BY <1>0, TaskType DEF IInv, TasksOK
<1> DEFINE p == task[t].pos
<1> DEFINE r == [task[t] EXCEPT !.pc = "persist"]
<1>1. task' = [task EXCEPT ![t] = r]
  BY <1>a DEF Book
<1>2. /\ r \in TaskRecord /\ r.monitor = task[t].monitor /\ r.since = task[t].since
      /\ r.pc = "persist" /\ r.pos = p
  BY <1>a DEF TaskRecord
<1>3. GoodRecord(t, r)
  BY <1>0, <1>2, <1>a DEF GoodRecord, IInv, TasksOK
<1>4. /\ task' \in [Tasks -> TaskRecord] /\ TasksOK' /\ task'[t] = r
      /\ \A u \in Tasks : u # t => task'[u] = task[u]
  BY <1>1, <1>3, TaskStep
<1>5. /\ Marked(inflight, t, p) \in [Positions -> 0..OldFlight]
      /\ Marked(inflight, t, p)[p] <= MaxTick
      /\ \A q \in Positions : q # p => Marked(inflight, t, p)[q] = inflight[q]
  BY <1>0, <1>a, MarkedOK
<1>6. inflight' = MarkFill(t) /\ lastClose' = MarkMiss(t)
  BY DEF Book
<1>7. inflight' \in [Positions -> 0..OldFlight]
  BY <1>5, <1>6 DEF MarkFill, IInv, TypeOK
<1>8. lastClose' \in [Positions -> 0..OldClose]
  BY <1>0, <1>6, MissType
<1>9. held' \in [Positions -> Int]
  <2>1. held' = [held EXCEPT ![p] = @ - task[t].qty] BY DEF Book
  <2>2. held \in [Positions -> Int] /\ task[t].qty \in Nat
    BY <1>a DEF TaskRecord, IInv, TypeOK
  <2>3. held[p] - task[t].qty \in Int BY <2>2, <1>a
  <2> QED BY <2>1, <2>2, <2>3
<1>10. Activated \in 0..OpenLock /\ lock <= Activated /\ OpenLock <= Activated
       /\ lock \in 0..OpenLock
  BY Constants DEF Activated, Larger, IInv, TypeOK
<1>11. /\ lock' = IF Runs(t, "aggregate") \/ task[t].locks THEN Activated ELSE lock
       /\ rebuy' = IF Runs(t, "aggregate") THEN [rebuy EXCEPT ![p] = OpenLock] ELSE rebuy
  BY DEF Book
<1>12. lock' \in 0..OpenLock /\ rebuy' \in [Positions -> 0..OpenLock] /\ lock <= lock'
  <2>1. rebuy \in [Positions -> 0..OpenLock] /\ OpenLock \in 0..OpenLock
    BY Constants DEF IInv, TypeOK
  <2>2. lock' \in {Activated, lock} BY <1>11
  <2>3. rebuy' \in {[rebuy EXCEPT ![p] = OpenLock], rebuy} BY <1>11
  <2>4. lock' \in 0..OpenLock /\ lock <= lock' BY <1>10, <2>2, Constants
  <2>5. rebuy' \in [Positions -> 0..OpenLock]
    <3> HIDE DEF p
    <3> QED BY <2>1, <2>3
  <2> QED BY <2>4, <2>5
<1>13. LockCovers'
  <2> SUFFICES ASSUME NEW q \in Positions PROVE rebuy'[q] <= lock'
    BY DEF LockCovers
  <2>1. rebuy[q] <= lock /\ rebuy[q] \in Int /\ rebuy \in [Positions -> 0..OpenLock]
    BY DEF IInv, LockCovers, TypeOK
  <2>2. CASE Runs(t, "aggregate")
    BY <2>1, <2>2, <1>10, <1>11, Constants
  <2>3. CASE ~Runs(t, "aggregate")
    BY <2>1, <2>3, <1>10, <1>11, <1>12, Constants
  <2> QED BY <2>2, <2>3
<1>14. TypeOK'
  BY <1>0, <1>4, <1>7, <1>8, <1>9, <1>12, TypeParts DEF IInv, TypeOK
<1>15. FlightMarked'
  <2> SUFFICES ASSUME task'[Intraday].pc = "book"
               PROVE  inflight'[task'[Intraday].pos] <= task'[Intraday].claim
    <3>1. t = Guard => task'[Guard].pc = "persist" BY <1>2, <1>4
    <3>2. task'[Intraday].pc = "book" => t = Guard BY <1>2, <1>4 DEF Tasks
    <3> QED BY <3>1, <3>2 DEF FlightMarked, Behind
  <2>1. t = Guard /\ task'[Intraday] = task[Intraday] /\ Intraday \in Tasks
    BY <1>2, <1>4 DEF Tasks, Guard, Intraday
  <2>2. /\ inflight[task[Intraday].pos] <= task[Intraday].claim
        /\ Behind(task[Intraday].pos) => task[Guard].since <= task[Intraday].claim
        /\ task[Intraday].pos \in Positions
    BY <2>1 DEF IInv, FlightMarked, TasksOK
  <2>3. CASE inflight' = inflight
    BY <2>1, <2>2, <2>3
  <2>4. CASE inflight' = Marked(inflight, t, p) /\ task[Intraday].pos = p /\ ~Runs(t, "stop_loss")
    <3>1. inflight'[p] = task[t].since
      BY <2>4, <1>a DEF Marked, IInv, TypeOK
    <3>2. Behind(p)
      BY <2>1, <2>4, <1>0 DEF Behind, Runs, IInv, TasksOK
    <3> QED BY <3>1, <3>2, <2>1, <2>2, <2>4
  <2>5. CASE inflight' = Marked(inflight, t, p) /\ task[Intraday].pos # p
    BY <2>1, <2>2, <2>5, <1>5
  <2> QED BY <2>3, <2>4, <2>5, <1>6 DEF MarkFill
<1> QED BY <1>4, <1>13, <1>14, <1>15 DEF IInv

LEMMA RestartInv == ASSUME IInv, Restart PROVE IInv'
PROOF
<1>0. UNCHANGED <<market, inflight, openLock>> /\ failures' \in 0..MaxFailures
      /\ lastClose' \in [Positions -> 0..OldClose]
  BY Constants DEF Restart, IInv, TypeOK
<1>1. \A m \in Monitors : Asleep(m) \in TaskRecord
  BY Constants DEF Asleep, TaskRecord, Nothing, Larger
<1>2. task' \in [Tasks -> TaskRecord]
  BY <1>1 DEF Restart, Monitors
<1>3. task'[Guard] = Asleep("stop_loss") /\ task'[Intraday] = Asleep("intraday")
  BY DEF Restart, Tasks, Guard, Intraday
<1>4. TasksOK'
  BY <1>3 DEF TasksOK, Asleep, Tasks
<1>5. TypeOK'
  BY <1>0, <1>2, TypeParts DEF IInv, TypeOK, market, openLock
<1>6. FlightMarked'
  BY <1>3 DEF FlightMarked, Asleep
<1> QED BY <1>0, <1>4, <1>5, <1>6, LockKept DEF IInv

LEMMA StepInv == IInv /\ [Next]_vars => IInv'
PROOF
<1> SUFFICES ASSUME IInv, [Next]_vars PROVE IInv' OBVIOUS
<1>1. CASE Elapse BY <1>1, ElapseInv
<1>2. CASE \E p \in Positions : PriceMoves(p) \/ TradingLoopOpens(p)
  BY <1>2, MarketInv
<1>3. ASSUME NEW t \in Tasks, Step(t) PROVE IInv'
  BY <1>3, EndInv, ScanInv, MissInv, ApproveInv, BookInv DEF Step
<1>4. CASE GuardSteps
  BY <1>3, <1>4, BeginInv DEF GuardSteps, Tasks
<1>5. CASE IntradaySteps
  BY <1>3, <1>5, BeginInv, EvaluateInv DEF IntradaySteps, Tasks
<1>6. CASE \E t \in Tasks : Reject(t) \/ Raises(t)
  BY <1>6, MissInv, EndInv
<1>7. CASE Restart BY <1>7, RestartInv
<1>8. CASE UNCHANGED vars
  BY <1>8 DEF vars, market, marks, openLock, IInv, TypeOK, TasksOK, FlightMarked,
              Behind, LockCovers
<1> QED BY <1>1, <1>2, <1>4, <1>5, <1>6, <1>7, <1>8 DEF Next

\* Every reachable state satisfies the inductive invariant: the types, the shape of
\* the two tasks, the age of the in-flight mark and the cover of the open lock.
THEOREM Invariance == Spec => []IInv
PROOF BY InitInv, StepInv, PTL DEF Spec

\* The variables keep their types, for all durations and any number of positions.
THEOREM Types == Spec => []TypeOK
<1>1. IInv => TypeOK BY DEF IInv
<1> QED BY <1>1, Invariance, PTL

\* The actions of Next, by what they do to the tasks.
LEMMA StepCases ==
  ASSUME Next
  PROVE  \/ Elapse
         \/ \E p \in Positions : PriceMoves(p) \/ TradingLoopOpens(p)
         \/ StopLossTick \/ StopLossRows \/ AggregateTick \/ AggregateClock
         \/ IntradayTick \/ Evaluate
         \/ \E t \in Tasks : TickEnds(t) \/ Raises(t)
         \/ \E t \in Tasks : Reject(t) \/ Miss(t) \/ Persist(t)
         \/ \E t \in Tasks : Approve(t) \/ Book(t)
         \/ \E t \in Tasks : \E p \in Positions : Skip(t, p) \/ Submit(t, p)
         \/ Restart
PROOF
<1>1. ASSUME NEW t \in Tasks, Step(t)
      PROVE  \/ TickEnds(t) \/ Miss(t) \/ Persist(t) \/ Approve(t) \/ Book(t)
             \/ \E p \in Positions : Skip(t, p) \/ Submit(t, p)
  BY <1>1 DEF Step
<1>2. Guard \in Tasks /\ Intraday \in Tasks BY DEF Tasks
<1>3. CASE GuardSteps BY <1>1, <1>2, <1>3 DEF GuardSteps
<1>4. CASE IntradaySteps BY <1>1, <1>2, <1>4 DEF IntradaySteps
<1> QED BY <1>3, <1>4 DEF Next

\* When the aggregate monitor takes up a position whose intraday order is being
\* executed, the mark it has looked at is a whole window older than its own clock, and
\* the mark is no older than the clocks it can have been made with.
LEMMA AggregateStep ==
  ASSUME IInv, [Next]_vars, NEW p \in Positions, Submits("aggregate", p)
  PROVE  Executing("intraday", p) => task[Intraday].claim - task[Guard].since >= Window
PROOF
<1> SUFFICES ASSUME Executing("intraday", p)
             PROVE  task[Intraday].claim - task[Guard].since >= Window
  OBVIOUS
<1>1. task[Intraday].pc = "book" /\ task[Intraday].pos = p
  BY DEF Executing, Runs, AtPc, IInv, TasksOK, Tasks
<1>2. /\ task[Guard].monitor = "aggregate" /\ task[Guard].pc = "scan"
      /\ task'[Guard].pc = "ask" /\ task'[Guard].pos = p
  BY DEF Submits, Runs, AtPc, IInv, TasksOK, Tasks
<1>3. task \in [Tasks -> TaskRecord] /\ Guard \in Tasks /\ Intraday \in Tasks /\ Guard # Intraday
  BY TaskType DEF IInv, Tasks, Guard, Intraday
<1>4. task[Guard].since \in 0..MaxTick /\ task[Intraday].claim \in 0..OldFlight
  BY <1>2, <1>3, MarkedOK DEF TaskRecord
<1>5. inflight[p] <= task[Intraday].claim /\ inflight[p] \in Int
  BY <1>1 DEF IInv, FlightMarked, TypeOK
<1>7. Submit(Guard, p)
  <2>1. task'[Guard] # task[Guard] BY <1>2
  <2>2. CASE Elapse
    BY <1>2, <1>3, <2>2 DEF Elapse, TaskRecord
  <2>3. CASE (\E q \in Positions : PriceMoves(q) \/ TradingLoopOpens(q)) \/ UNCHANGED vars
    BY <2>1, <2>3 DEF PriceMoves, TradingLoopOpens, vars
  <2>4. CASE StopLossTick \/ StopLossRows \/ AggregateTick \/ AggregateClock
    BY <1>2, <2>4 DEF StopLossTick, StopLossRows, AggregateTick, AggregateClock, Runs, AtPc
  <2>5. CASE IntradayTick \/ Evaluate
    BY <1>3, <2>1, <2>5 DEF IntradayTick, Evaluate
  <2>6. ASSUME NEW t \in Tasks, TickEnds(t) \/ Raises(t) PROVE FALSE
    <3>1. Over(t) BY <2>6 DEF TickEnds, Raises
    <3> QED BY <3>1, OverOK, <1>2, <1>3, <2>1
  <2>7. ASSUME NEW t \in Tasks, Reject(t) \/ Miss(t) \/ Persist(t) PROVE FALSE
    <3>1. NextPosition(t) /\ task[t].pc \in {"ask", "book", "persist"}
      BY <2>7 DEF Reject, Miss, Persist, AtPc
    <3> QED BY <3>1, NextPositionOK, <1>2, <1>3, <2>1
  <2>8. ASSUME NEW t \in Tasks, Approve(t) \/ Book(t) PROVE FALSE
    <3>1. task[t].pc \in {"ask", "book"} BY <2>8 DEF Approve, Book, AtPc
    <3>2. t # Guard BY <3>1, <1>2
    <3> QED BY <3>2, <2>8, <1>3, <2>1 DEF Approve, Book
  <2>9. ASSUME NEW t \in Tasks, NEW q \in Positions, Skip(t, q) \/ Submit(t, q)
        PROVE  Submit(Guard, p)
    <3>1. t = Guard BY <2>9, <1>3, <2>1 DEF Skip, Submit
    <3>2. CASE Skip(t, q)
      BY <3>1, <3>2, <1>2, <1>3 DEF Skip, TaskRecord
    <3>3. CASE Submit(t, q)
      <4>1. task'[Guard].pos = q
        BY <3>1, <3>3, <1>3 DEF Submit, TaskRecord
      <4> QED BY <4>1, <3>1, <3>3, <1>2
    <3> QED BY <2>9, <3>2, <3>3
  <2>10. CASE Restart
    BY <1>2, <1>3, <2>10 DEF Restart, Asleep
  <2>11. CASE Next BY <2>2, <2>3, <2>4, <2>5, <2>6, <2>7, <2>8, <2>9, <2>10, <2>11, StepCases
  <2> QED BY <2>3, <2>11
<1>8. inflight[p] - task[Guard].since >= Window
  BY <1>2, <1>4, <1>5, <1>7, Constants DEF Submit, Skipped, Recent, Runs
<1> QED BY <1>4, <1>5, <1>8, Constants

\* The aggregate monitor takes up a position with an intraday order in execution only
\* when the clock of that order, or of an aggregate close on its way with it, lies a
\* whole window before its own: for ticks of any length, and any window.
THEOREM SeesInFlight == Spec => AggregateSeesInFlight
<1>1. IInv /\ [Next]_vars =>
        [\A p \in Positions :
           Submits("aggregate", p) /\ Executing("intraday", p) =>
             task[Intraday].claim - task[Guard].since >= Window]_vars
  BY AggregateStep
<1> QED BY <1>1, Invariance, PTL DEF Spec, AggregateSeesInFlight

\* What the aggregate monitor has flattened is bought back only when the lock it set
\* is over or cleared, or by an exempt signal: the lock always covers the history,
\* however the two monitors' locks overlap.
THEOREM Rebuy == Spec => NoRebuy
<1>1. ASSUME IInv, [Next]_vars, NEW p \in Positions \ Allocated, held'[p] > held[p]
      PROVE  rebuy[p] = 0
  <2>0. held \in [Positions -> Int] /\ rebuy[p] \in 0..OpenLock /\ rebuy[p] <= lock
    BY <1>1 DEF IInv, TypeOK, LockCovers
  <2>1. held'[p] # held[p] BY <1>1, <2>0
  <2>2. ASSUME NEW q \in Positions, TradingLoopOpens(q) PROVE rebuy[p] = 0
    <3>1. q = p BY <2>1, <2>2, <2>0 DEF TradingLoopOpens
    <3> QED BY <2>0, <2>2, <3>1, Constants DEF TradingLoopOpens
  <2>3. ASSUME NEW t \in Tasks, Book(t) PROVE FALSE
    <3>1. task[t].pos \in Positions /\ task[t] \in TaskRecord
      BY <1>1, <2>3, TaskType DEF Book, AtPc, IInv, TasksOK
    <3>2. held' = [held EXCEPT ![task[t].pos] = @ - task[t].qty] /\ task[t].qty \in Nat
      BY <2>3, <3>1 DEF Book, TaskRecord
    <3>3. held'[p] <= held[p]
      BY <3>1, <3>2, <2>0
    <3> QED BY <3>3, <1>1, <2>0, <3>1, <3>2
  <2>4. ASSUME NEW t \in Tasks, Approve(t) PROVE held' = held
    BY <2>4 DEF Approve, market
  <2>5. held' # held => Next
    BY <1>1 DEF vars
  <2>6. CASE Next
    BY <2>1, <2>2, <2>3, <2>4, <2>6, StepCases
       DEF Elapse, PriceMoves, StopLossTick, StopLossRows, AggregateTick, AggregateClock,
           IntradayTick, Evaluate, TickEnds,
           Raises, Reject, Miss, Persist, Skip, Submit, Restart, market
  <2> QED BY <2>1, <2>5, <2>6
<1>2. IInv /\ [Next]_vars => [\A p \in Positions \ Allocated : held'[p] > held[p] => rebuy[p] = 0]_vars
  BY <1>1
<1> QED BY <1>2, Invariance, PTL DEF Spec, NoRebuy
=============================================================================
