-------------------------- MODULE ControlPlaneLatch --------------------------
(***************************************************************************)
(* ControlPlane implements OperatorLatch: every step of the API, a poller, *)
(* a monitor, the coverage loop or the runner's life is a step of the      *)
(* latch or leaves it as it is, for any brokers, commands, pollers and     *)
(* failures.                                                               *)
(***************************************************************************)
EXTENDS ControlPlaneProofs

\* The refinement mapping of ControlPlane's Latch, under names.
GateBlocks == IF runner = "down" THEN Closed(Restored) ELSE Closed(gate)
SavedBlocks == Closed(Restored)
Asked == [i \in Ids |-> IF Opens(i) /\ Waiting(i) THEN Scope(i) ELSE {}]
Spent == {i \in Ids : Opens(i) /\ ~Waiting(i)}

LEMMA TripStep ==
  ASSUME NEW what \in SUBSET Blocks, GateBlocks' = GateBlocks \cup what,
         \/ SavedBlocks' = SavedBlocks
         \/ SavedBlocks' \in {GateBlocks \cup some : some \in SUBSET what},
         Asked' = Asked, Spent' = Spent
  PROVE  Latch!LatchNext
PROOF
<1>1. Latch!Trip(what)
  BY DEF Latch!Trip, Latch!Save, GateBlocks, SavedBlocks, Asked, Spent
<1> QED BY <1>1 DEF Latch!LatchNext

LEMMA AskStep ==
  ASSUME NEW r \in Ids, NEW what \in SUBSET Blocks, r \notin Spent, Asked[r] = {},
         Asked' = [Asked EXCEPT ![r] = what], Spent' = Spent,
         GateBlocks' = GateBlocks, SavedBlocks' = SavedBlocks
  PROVE  Latch!LatchNext
PROOF
<1>1. Latch!Ask(r, what)
  BY DEF Latch!Ask, GateBlocks, SavedBlocks, Asked, Spent
<1> QED BY <1>1 DEF Latch!LatchNext

LEMMA ServeStep ==
  ASSUME NEW r \in Ids, NEW what \in SUBSET Blocks, r \notin Spent,
         Asked[r] \in {{}, what}, GateBlocks' = GateBlocks \ what,
         \/ SavedBlocks' = SavedBlocks
         \/ SavedBlocks' \in {GateBlocks \ some : some \in SUBSET what},
         Asked' = [Asked EXCEPT ![r] = {}], Spent' = Spent \cup {r}
  PROVE  Latch!LatchNext
PROOF
<1>1. Latch!Serve(r, what)
  BY DEF Latch!Serve, Latch!Save, GateBlocks, SavedBlocks, Asked, Spent
<1> QED BY <1>1 DEF Latch!LatchNext

LEMMA GoneStep ==
  ASSUME NEW gone \in SUBSET Ids, \A r \in gone : Asked[r] # {},
         Asked' = [r \in Ids |-> IF r \in gone THEN {} ELSE Asked[r]],
         Spent' = Spent \cup gone, SavedBlocks' = SavedBlocks,
         GateBlocks' = GateBlocks \/ GateBlocks' = SavedBlocks
  PROVE  Latch!LatchNext
PROOF
<1>1. Latch!GiveUp(gone)
  BY DEF Latch!GiveUp, Asked, Spent
<1>2. Latch!Lose(gone) \/ Latch!Restart(gone)
  BY <1>1 DEF Latch!Lose, Latch!Restart, GateBlocks, SavedBlocks
<1> QED BY <1>2 DEF Latch!LatchNext
----------------------------------------------------------------------------
(* What each method of the gate closes and opens *)

\* A consistent gate blocks what its reasons say.
ByReasons(g) ==
  {b \in Brokers : ~(g.reasons[b] \subseteq {"coverage"})} \cup {x \in {Everything} : g.killed}

LEMMA ClosedByReasons ==
  ASSUME NEW g, GateOK(g)
  PROVE  Closed(g) = ByReasons(g) /\ Closed(g) \subseteq Blocks
PROOF
<1>1. g.disabled \subseteq Brokers BY DEF GateOK, Gates
<1>2. {b \in g.disabled : ~(g.reasons[b] \subseteq {"coverage"})}
      = {b \in Brokers : ~(g.reasons[b] \subseteq {"coverage"})}
  BY <1>1 DEF GateOK
<1> QED BY <1>1, <1>2 DEF Closed, ByReasons, Blocks

LEMMA SameReasons ==
  ASSUME NEW g, NEW h, GateOK(g), GateOK(h), g.killed = h.killed,
         \A b \in Brokers : g.reasons[b] = h.reasons[b]
  PROVE  Closed(g) = Closed(h)
PROOF
<1>1. ByReasons(g) = ByReasons(h) BY DEF ByReasons
<1> QED BY <1>1, ClosedByReasons

\* A gate that was saved comes back as it was; the keys of the portfolio add nothing.
LEMMA ReloadOK ==
  ASSUME NEW g, GateOK(g)
  PROVE  /\ Closed(RestoreRuntimeState(FreshGate, g)) = Closed(g)
         /\ Closed(RestoreRuntimeState(g, PortfolioKeys)) = Closed(g)
PROOF
<1>1. g \in [killed : BOOLEAN, disabled : SUBSET Brokers, reasons : [Brokers -> SUBSET Sources]]
  BY DEF GateOK, Gates
<1>2. GateOK(RestoreRuntimeState(FreshGate, g)) /\ GateOK(RestoreRuntimeState(g, PortfolioKeys))
  <2>1. g \in Gates /\ PortfolioKeys \in Gates BY FreshOK DEF GateOK
  <2> QED BY <2>1, FreshOK, RestoreOK
<1>3. FreshGate.killed = FALSE /\ \A b \in Brokers : FreshGate.reasons[b] = {}
  BY DEF FreshGate
<1>4. /\ RestoreRuntimeState(FreshGate, g).killed = (FreshGate.killed \/ g.killed)
      /\ RestoreRuntimeState(g, PortfolioKeys).killed = (g.killed \/ PortfolioKeys.killed)
  BY DEF RestoreRuntimeState
<1>5. /\ RestoreRuntimeState(FreshGate, g).killed = g.killed
      /\ RestoreRuntimeState(g, PortfolioKeys).killed = g.killed
  BY <1>1, <1>3, <1>4 DEF PortfolioKeys
<1>6. \A b \in Brokers : RestoreRuntimeState(FreshGate, g).reasons[b] = g.reasons[b]
  BY <1>3 DEF RestoreRuntimeState, GateOK
<1>7. \A b \in Brokers : RestoreRuntimeState(g, PortfolioKeys).reasons[b] = g.reasons[b]
  BY DEF RestoreRuntimeState, PortfolioKeys, FreshGate
<1> QED BY <1>2, <1>5, <1>6, <1>7, SameReasons

\* The scope of a kill or of a reset.
Reach(bs, all) == IF bs = {} THEN all ELSE bs

LEMMA OperatorClosed ==
  ASSUME NEW g, GateOK(g), NEW bs \in SUBSET Brokers
  PROVE  /\ Closed(CloseGate(g, bs)) = Closed(g) \cup Reach(bs, {Everything})
         /\ Closed(OpenGate(g, bs)) = Closed(g) \ Reach(bs, Blocks)
PROOF
<1>1. g \in [killed : BOOLEAN, disabled : SUBSET Brokers, reasons : [Brokers -> SUBSET Sources]]
  BY DEF GateOK, Gates
<1>2. GateOK(CloseGate(g, bs)) /\ GateOK(OpenGate(g, bs)) BY OperatorOK
<1>3. /\ Closed(g) = ByReasons(g) /\ Closed(g) \subseteq Blocks
      /\ Closed(CloseGate(g, bs)) = ByReasons(CloseGate(g, bs))
      /\ Closed(OpenGate(g, bs)) = ByReasons(OpenGate(g, bs))
  BY <1>2, ClosedByReasons
<1>4. CASE bs = {}
  <2>1. CloseGate(g, bs).killed = TRUE /\ CloseGate(g, bs).reasons = g.reasons
    BY <1>1, <1>4 DEF CloseGate, Kill
  <2>2. OpenGate(g, bs).killed = FALSE /\ \A b \in Brokers : OpenGate(g, bs).reasons[b] = {}
    BY <1>4 DEF OpenGate, ResetKill, FreshGate
  <2>3. ByReasons(CloseGate(g, bs)) = ByReasons(g) \cup {Everything}
    BY <2>1 DEF ByReasons
  <2>4. ByReasons(OpenGate(g, bs)) = {} BY <2>2 DEF ByReasons
  <2> QED BY <1>3, <1>4, <2>3, <2>4 DEF Reach
<1>5. CASE bs # {}
  <2>1. /\ CloseGate(g, bs).killed = g.killed
        /\ CloseGate(g, bs).reasons =
             [b \in Brokers |-> IF b \in bs THEN g.reasons[b] \cup {"manual"} ELSE g.reasons[b]]
    <3>1. "manual" \in Sources BY DEF Sources
    <3>2. CloseGate(g, bs) = DisableBrokers(g, bs, "manual") BY <1>5 DEF CloseGate
    <3> QED BY <3>1, <3>2, DisableOK
  <2>2. /\ OpenGate(g, bs).killed = g.killed
        /\ OpenGate(g, bs).reasons =
             [b \in Brokers |-> IF b \in bs THEN {} ELSE g.reasons[b]]
    BY <1>1, <1>5 DEF OpenGate, EnableBrokers
  <2>3. ByReasons(CloseGate(g, bs)) = ByReasons(g) \cup bs
    BY <2>1 DEF ByReasons
  <2>4. ByReasons(OpenGate(g, bs)) = ByReasons(g) \ bs
    BY <2>2, Constants DEF ByReasons
  <2> QED BY <1>3, <1>5, <2>3, <2>4 DEF Reach
<1> QED BY <1>4, <1>5

\* Coverage neither closes nor opens anything for the operator.
LEMMA CoverageClosed ==
  ASSUME NEW g, GateOK(g), NEW bs \in SUBSET Brokers
  PROVE  /\ Closed(DisableBrokers(g, bs, "coverage")) = Closed(g)
         /\ Closed(EnableBrokersFor(g, bs, "coverage")) = Closed(g)
PROOF
<1> DEFINE d == DisableBrokers(g, bs, "coverage")
           e == EnableBrokersFor(g, bs, "coverage")
<1>1. "coverage" \in Sources BY DEF Sources
<1>2. /\ GateOK(d) /\ d.killed = g.killed
      /\ d.reasons = [b \in Brokers |-> IF b \in bs THEN g.reasons[b] \cup {"coverage"}
                                        ELSE g.reasons[b]]
  BY <1>1, DisableOK
<1>3. /\ GateOK(e) /\ e.killed = g.killed
      /\ e.reasons = [b \in Brokers |-> IF b \in bs THEN g.reasons[b] \ {"coverage"}
                                        ELSE g.reasons[b]]
  BY <1>1, EnableForOK
<1>4. /\ Closed(g) = ByReasons(g) /\ Closed(d) = ByReasons(d) /\ Closed(e) = ByReasons(e)
  BY <1>2, <1>3, ClosedByReasons
<1> HIDE DEF d, e
<1>5. ByReasons(d) = ByReasons(g) BY <1>2 DEF ByReasons
<1>6. ByReasons(e) = ByReasons(g) BY <1>3 DEF ByReasons
<1> QED BY <1>4, <1>5, <1>6 DEF d, e

\* What a write of the gate leaves for the next process.
LEMMA SavedLemma ==
  ASSUME NEW after, GateOK(after), NEW during, \A g \in during : GateOK(g),
         Persist(after, during)
  PROVE  \/ SavedBlocks' = SavedBlocks
         \/ SavedBlocks' = Closed(after)
         \/ \E g \in during : SavedBlocks' = Closed(g)
PROOF
<1>1. \A g : GateOK(g) => Closed(RestoreRuntimeState(FreshGate, g)) = Closed(g)
  BY ReloadOK
<1>2. file' = after \/ file' = file \/ \E g \in during : file' = g
  BY DEF Persist
<1>3. CASE file' = file BY <1>3 DEF SavedBlocks, Restored
<1>4. CASE file' = after
  <2>1. SavedBlocks' = Closed(RestoreRuntimeState(FreshGate, after))
    BY <1>4 DEF SavedBlocks, Restored
  <2> QED BY <2>1, <1>1
<1>5. ASSUME NEW g \in during, file' = g PROVE SavedBlocks' = Closed(g)
  <2>1. SavedBlocks' = Closed(RestoreRuntimeState(FreshGate, g))
    BY <1>5 DEF SavedBlocks, Restored
  <2> QED BY <2>1, <1>1
<1> QED BY <1>2, <1>3, <1>4, <1>5

LEMMA CloseBlocks ==
  ASSUME GateInv, NEW bs \in SUBSET Brokers, Close(bs), UNCHANGED runner, runner # "down"
  PROVE  /\ Reach(bs, {Everything}) \in SUBSET Blocks
         /\ GateBlocks' = GateBlocks \cup Reach(bs, {Everything})
         /\ \/ SavedBlocks' = SavedBlocks
            \/ SavedBlocks' \in {GateBlocks \cup some : some \in SUBSET Reach(bs, {Everything})}
PROOF
<1> DEFINE what == Reach(bs, {Everything})
           during == {CloseGate(gate, some) : some \in (SUBSET bs) \ {{}}}
<1>1. GateOK(gate) /\ gate' = CloseGate(gate, bs) /\ Persist(gate', during)
  BY DEF GateInv, Close
<1>2. ASSUME NEW some \in SUBSET bs
      PROVE  /\ GateOK(CloseGate(gate, some))
             /\ Closed(CloseGate(gate, some)) = Closed(gate) \cup Reach(some, {Everything})
  BY <1>1, OperatorOK, OperatorClosed
<1>3. GateOK(gate') /\ Closed(gate') = Closed(gate) \cup what
  BY <1>1, <1>2
<1>4. GateBlocks = Closed(gate) /\ GateBlocks' = Closed(gate')
  BY DEF GateBlocks
<1>5. ASSUME NEW some \in (SUBSET bs) \ {{}} PROVE Reach(some, {Everything}) \subseteq what
  <2>1. some # {} /\ bs # {} OBVIOUS
  <2>2. Reach(some, {Everything}) = some /\ what = bs BY <2>1 DEF Reach
  <2> QED BY <2>2
<1>6. what \in SUBSET Blocks BY DEF Reach, Blocks
<1>7. \A g \in during : GateOK(g) BY <1>2
<1>8. ASSUME NEW g \in during, SavedBlocks' = Closed(g)
      PROVE  SavedBlocks' \in {GateBlocks \cup some : some \in SUBSET what}
  <2>1. PICK some \in (SUBSET bs) \ {{}} : g = CloseGate(gate, some) OBVIOUS
  <2>2. Closed(g) = GateBlocks \cup Reach(some, {Everything}) BY <2>1, <1>2, <1>4
  <2> QED BY <2>2, <1>5, <1>8
<1> HIDE DEF what, during
<1>9. \/ SavedBlocks' = SavedBlocks \/ SavedBlocks' = Closed(gate')
      \/ \E g \in during : SavedBlocks' = Closed(g)
  BY <1>1, <1>3, <1>7, SavedLemma
<1>10. SavedBlocks' = SavedBlocks
       \/ SavedBlocks' \in {GateBlocks \cup some : some \in SUBSET what}
  BY <1>3, <1>4, <1>8, <1>9
<1> QED BY <1>3, <1>4, <1>6, <1>10 DEF what

LEMMA OpenBlocks ==
  ASSUME GateInv, NEW bs \in SUBSET Brokers, Open(bs), UNCHANGED runner, runner # "down"
  PROVE  /\ Reach(bs, Blocks) \in SUBSET Blocks
         /\ GateBlocks' = GateBlocks \ Reach(bs, Blocks)
         /\ \/ SavedBlocks' = SavedBlocks
            \/ SavedBlocks' \in {GateBlocks \ some : some \in SUBSET Reach(bs, Blocks)}
PROOF
<1> DEFINE what == Reach(bs, Blocks)
           during == {OpenGate(gate, some) : some \in (SUBSET bs) \ {{}}}
<1>1. GateOK(gate) /\ gate' = OpenGate(gate, bs) /\ Persist(gate', during)
  BY DEF GateInv, Open
<1>2. ASSUME NEW some \in SUBSET bs
      PROVE  /\ GateOK(OpenGate(gate, some))
             /\ Closed(OpenGate(gate, some)) = Closed(gate) \ Reach(some, Blocks)
  BY <1>1, OperatorOK, OperatorClosed
<1>3. GateOK(gate') /\ Closed(gate') = Closed(gate) \ what
  BY <1>1, <1>2
<1>4. GateBlocks = Closed(gate) /\ GateBlocks' = Closed(gate')
  BY DEF GateBlocks
<1>5. ASSUME NEW some \in (SUBSET bs) \ {{}} PROVE Reach(some, Blocks) \subseteq what
  <2>1. some # {} /\ bs # {} OBVIOUS
  <2>2. Reach(some, Blocks) = some /\ what = bs BY <2>1 DEF Reach
  <2> QED BY <2>2
<1>6. what \in SUBSET Blocks BY DEF Reach, Blocks
<1>7. \A g \in during : GateOK(g) BY <1>2
<1>8. ASSUME NEW g \in during, SavedBlocks' = Closed(g)
      PROVE  SavedBlocks' \in {GateBlocks \ some : some \in SUBSET what}
  <2>1. PICK some \in (SUBSET bs) \ {{}} : g = OpenGate(gate, some) OBVIOUS
  <2>2. Closed(g) = GateBlocks \ Reach(some, Blocks) BY <2>1, <1>2, <1>4
  <2> QED BY <2>2, <1>5, <1>8
<1> HIDE DEF what, during
<1>9. \/ SavedBlocks' = SavedBlocks \/ SavedBlocks' = Closed(gate')
      \/ \E g \in during : SavedBlocks' = Closed(g)
  BY <1>1, <1>3, <1>7, SavedLemma
<1>10. SavedBlocks' = SavedBlocks
       \/ SavedBlocks' \in {GateBlocks \ some : some \in SUBSET what}
  BY <1>3, <1>4, <1>8, <1>9
<1> QED BY <1>3, <1>4, <1>6, <1>10 DEF what

\* A write that keeps what is closed, by a monitor, the coverage loop or a start.
LEMMA SameBlocks ==
  ASSUME NEW after, GateOK(after), Closed(after) = GateBlocks, gate' = after,
         NEW during, \A g \in during : GateOK(g) /\ Closed(g) = GateBlocks,
         Persist(after, during) \/ UNCHANGED file, runner' # "down",
         UNCHANGED <<Asked, Spent>>
  PROVE  Latch!LatchNext
PROOF
<1>1. GateBlocks' = GateBlocks BY DEF GateBlocks
<1>2. SavedBlocks' = SavedBlocks \/ SavedBlocks' = GateBlocks
  <2>1. CASE UNCHANGED file BY <2>1 DEF SavedBlocks, Restored
  <2>2. CASE Persist(after, during) BY <2>2, SavedLemma
  <2> QED BY <2>1, <2>2
<1>3. PICK what \in SUBSET Blocks : what = {} OBVIOUS
<1>4. GateBlocks' = GateBlocks \cup what BY <1>1, <1>3
<1>5. SavedBlocks' = SavedBlocks
      \/ SavedBlocks' \in {GateBlocks \cup some : some \in SUBSET what}
  BY <1>2, <1>3
<1>6. Asked' = Asked /\ Spent' = Spent OBVIOUS
<1> QED BY <1>4, <1>5, <1>6, TripStep

----------------------------------------------------------------------------
(* Which requests wait, step by step *)

LEMMA ScopeOK ==
  ASSUME NEW i \in Ids
  PROVE  Scope(i) # {} /\ Scope(i) = Reach(requests[i].cmd.brokers, Blocks)
PROOF BY DEF Scope, Reach, Blocks

\* The commands stay; of the resets that waited, the rows gone do not wait any more.
LEMMA GoneAsks ==
  ASSUME \A i \in Ids : requests'[i].cmd = requests[i].cmd,
         NEW gone \in SUBSET Ids,
         \A i \in gone : Opens(i) /\ Waiting(i) /\ ~Waiting(i)',
         \A i \in Ids \ gone : Opens(i) => (Waiting(i)' <=> Waiting(i))
  PROVE  /\ \A r \in gone : Asked[r] # {}
         /\ Asked' = [r \in Ids |-> IF r \in gone THEN {} ELSE Asked[r]]
         /\ Spent' = Spent \cup gone
PROOF
<1>1. \A i \in Ids : (Opens(i)' <=> Opens(i)) /\ Scope(i)' = Scope(i)
  BY DEF Opens, Scope
<1>2. \A r \in gone : Asked[r] # {} BY ScopeOK DEF Asked
<1>3. Asked' = [i \in Ids |-> IF Opens(i)' /\ Waiting(i)' THEN Scope(i)' ELSE {}]
  BY DEF Asked
<1>4. \A i \in Ids : Asked'[i] = IF i \in gone THEN {} ELSE Asked[i]
  <2> TAKE i \in Ids
  <2>1. Asked'[i] = IF Opens(i) /\ Waiting(i)' THEN Scope(i) ELSE {}
    BY <1>1, <1>3
  <2>2. Asked[i] = IF Opens(i) /\ Waiting(i) THEN Scope(i) ELSE {} BY DEF Asked
  <2> HIDE DEF Asked
  <2> QED BY <2>1, <2>2
<1>5. Asked' = [r \in Ids |-> IF r \in gone THEN {} ELSE Asked[r]]
  BY <1>3, <1>4
<1>6. \A i \in Ids : i \in Spent' <=> Opens(i) /\ ~Waiting(i)'
  BY <1>1 DEF Spent
<1>7. \A i \in Ids : i \in Spent <=> Opens(i) /\ ~Waiting(i)
  BY DEF Spent
<1>8. Spent \subseteq Ids /\ Spent' \subseteq Ids BY DEF Spent
<1>9. Spent' = Spent \cup gone
  BY <1>6, <1>7, <1>8
<1> QED BY <1>2, <1>5, <1>9

\* Nothing the latch sees has happened.
LEMMA StillStep ==
  ASSUME UNCHANGED <<gate, file, runner>>,
         \A i \in Ids : requests'[i].cmd = requests[i].cmd,
         \A i \in Ids : Opens(i) => (Waiting(i)' <=> Waiting(i))
  PROVE  Latch!LatchNext /\ Asked' = Asked /\ Spent' = Spent
PROOF
<1>1. PICK gone \in SUBSET Ids : gone = {} OBVIOUS
<1>2. /\ \A r \in gone : Asked[r] # {}
      /\ Asked' = [r \in Ids |-> IF r \in gone THEN {} ELSE Asked[r]]
      /\ Spent' = Spent \cup gone
  BY <1>1, GoneAsks
<1>3. GateBlocks' = GateBlocks /\ SavedBlocks' = SavedBlocks
  BY DEF GateBlocks, SavedBlocks, Restored
<1>4. Latch!LatchNext BY <1>2, <1>3, GoneStep
<1>5. Asked' = [r \in Ids |-> Asked[r]] BY <1>1, <1>2
<1>6. Asked = [r \in Ids |-> Asked[r]] BY DEF Asked
<1> QED BY <1>1, <1>2, <1>4, <1>5, <1>6

\* What a poller does to its own batch: of the rows that were queued, those
\* left are queued still.
Gone(p, left) == {i \in poller[p].batch : Opens(i) /\ Queued(p, i) /\ i \notin left}

LEMMA BatchAsks ==
  ASSUME RowsInv, NEW p \in Consumers,
         \A q \in Consumers : q # p => poller'[q] = poller[q],
         \A i \in Ids : requests'[i].cmd = requests[i].cmd,
         \A i \in Ids : i \notin poller[p].batch => requests'[i] = requests[i],
         \A i \in poller[p].batch : requests'[i].status # "pending",
         NEW left \in SUBSET poller[p].batch, \A i \in left : Queued(p, i),
         \A i \in Ids : Queued(p, i)' <=> i \in left
  PROVE  /\ Gone(p, left) \in SUBSET Ids
         /\ \A r \in Gone(p, left) : Asked[r] # {}
         /\ Asked' = [r \in Ids |-> IF r \in Gone(p, left) THEN {} ELSE Asked[r]]
         /\ Spent' = Spent \cup Gone(p, left)
PROOF
<1>1. poller[p].batch \subseteq Ids BY DEF RowsInv, PollerRecord
<1>2. ASSUME NEW i \in poller[p].batch
      PROVE  (Waiting(i) <=> Queued(p, i)) /\ (Waiting(i)' <=> Queued(p, i)')
  <2>1. requests[i].status # "pending" BY DEF RowsInv
  <2>2. \A q \in Consumers : q # p => i \notin poller[q].batch BY DEF RowsInv
  <2>3. \A q \in Consumers : q # p => ~Queued(q, i) BY <2>2 DEF Queued
  <2>4. \A q \in Consumers : q # p => ~Queued(q, i)' BY <2>2 DEF Queued
  <2> QED BY <2>1, <2>3, <2>4 DEF Waiting
<1>3. ASSUME NEW i \in Ids, i \notin poller[p].batch
      PROVE  Waiting(i)' <=> Waiting(i)
  <2>1. requests'[i] = requests[i] BY <1>3
  <2>2. ~Queued(p, i) /\ ~Queued(p, i)' BY <1>3 DEF Queued
  <2>3. \A q \in Consumers : q # p => (Queued(q, i)' <=> Queued(q, i))
    BY DEF Queued, Head, AtPc
  <2> QED BY <2>1, <2>2, <2>3 DEF Waiting
<1>4. Gone(p, left) \in SUBSET Ids BY <1>1 DEF Gone
<1>5. \A i \in Gone(p, left) : Opens(i) /\ Waiting(i) /\ ~Waiting(i)'
  BY <1>1, <1>2 DEF Gone
<1>6. \A i \in Ids \ Gone(p, left) : Opens(i) => (Waiting(i)' <=> Waiting(i))
  BY <1>2, <1>3 DEF Gone
<1> QED BY <1>4, <1>5, <1>6, GoneAsks

\* The poller turns to the rest of its batch: only its oldest row can have waited.
LEMMA TurnAsks ==
  ASSUME RowsInv, NEW p \in Consumers, ~AtPc(p, "idle"),
         \/ NextRow(p)
         \/ \E label \in {"cancel", "merge", "mark", "emit", "fail"} : Goto(p, label),
         \/ UNCHANGED requests
         \/ \E status \in {"done", "failed"} : Mark(Head(p), status)
  PROVE  LET gone == {i \in {Head(p)} : Opens(i) /\ AtPc(p, "apply")}
         IN  /\ gone \in SUBSET Ids
             /\ \A r \in gone : Asked[r] # {}
             /\ Asked' = [r \in Ids |-> IF r \in gone THEN {} ELSE Asked[r]]
             /\ Spent' = Spent \cup gone
PROOF
<1> DEFINE left == poller[p].batch \ {Head(p)}
           gone == {i \in {Head(p)} : Opens(i) /\ AtPc(p, "apply")}
<1>1. poller[p].pc # "idle" /\ poller[p] \in PollerRecord BY DEF AtPc, RowsInv
<1>2. Head(p) \in poller[p].batch /\ Head(p) \in Ids BY <1>1, HeadOK
<1>3. \A i \in left : Queued(p, i) BY DEF Queued
<1>4. Gone(p, left) = gone BY <1>2 DEF Gone, Queued
<1>5. /\ \A i \in Ids : requests'[i].cmd = requests[i].cmd
      /\ \A i \in Ids : i \notin poller[p].batch => requests'[i] = requests[i]
      /\ \A i \in poller[p].batch : requests'[i].status # "pending"
  <2>1. CASE UNCHANGED requests BY <2>1 DEF RowsInv
  <2>2. ASSUME NEW status \in {"done", "failed"}, Mark(Head(p), status)
        PROVE  /\ \A i \in Ids : requests'[i].cmd = requests[i].cmd
               /\ \A i \in Ids : i \notin poller[p].batch => requests'[i] = requests[i]
               /\ \A i \in poller[p].batch : requests'[i].status # "pending"
    <3>1. poller[p].batch \subseteq Ids BY <1>1 DEF PollerRecord
    <3> QED BY <1>2, <2>2, <3>1 DEF Mark, RowsInv, RowRecord
  <2> QED BY <2>1, <2>2
<1>6. /\ \A q \in Consumers : q # p => poller'[q] = poller[q]
      /\ \A i \in Ids : Queued(p, i)' <=> i \in left
  <2>1. ASSUME NEW label \in {"cancel", "merge", "mark", "emit", "fail"}, Goto(p, label)
        PROVE  /\ \A q \in Consumers : q # p => poller'[q] = poller[q]
               /\ \A i \in Ids : Queued(p, i)' <=> i \in left
    <3>1. poller'[p] = [poller[p] EXCEPT !.pc = label]
          /\ \A q \in Consumers : q # p => poller'[q] = poller[q]
      BY <2>1 DEF Goto, RowsInv
    <3>2. poller'[p].batch = poller[p].batch /\ poller'[p].pc # "apply"
      BY <1>1, <3>1 DEF PollerRecord
    <3> QED BY <3>1, <3>2 DEF Queued, Head, AtPc
  <2>2. CASE NextRow(p)
    <3>1. poller'[p] = (IF left = {} THEN Idle ELSE [pc |-> "apply", batch |-> left])
          /\ \A q \in Consumers : q # p => poller'[q] = poller[q]
      BY <2>2 DEF NextRow, RowsInv
    <3>2. poller'[p].batch = left /\ (left # {} => poller'[p].pc = "apply")
      BY <3>1 DEF Idle
    <3> QED BY <3>1, <3>2 DEF Queued, AtPc
  <2> QED BY <2>1, <2>2
<1> HIDE DEF left, gone
<1>7. left \in SUBSET poller[p].batch BY DEF left
<1>8. /\ Gone(p, left) \in SUBSET Ids
      /\ \A r \in Gone(p, left) : Asked[r] # {}
      /\ Asked' = [r \in Ids |-> IF r \in Gone(p, left) THEN {} ELSE Asked[r]]
      /\ Spent' = Spent \cup Gone(p, left)
  BY <1>3, <1>5, <1>6, <1>7, BatchAsks
<1> QED BY <1>4, <1>8 DEF gone

\* A command that is not a reset, or is applied already, leaves the latch's requests.
LEMMA NoTurn ==
  ASSUME RowsInv, NEW p \in Consumers, ~AtPc(p, "idle"),
         \/ NextRow(p)
         \/ \E label \in {"cancel", "merge", "mark", "emit", "fail"} : Goto(p, label),
         \/ UNCHANGED requests
         \/ \E status \in {"done", "failed"} : Mark(Head(p), status),
         ~AtPc(p, "apply") \/ HeadCmd(p).op # "reset"
  PROVE  Asked' = Asked /\ Spent' = Spent
PROOF
<1> DEFINE gone == {i \in {Head(p)} : Opens(i) /\ AtPc(p, "apply")}
<1>1. gone = {} BY DEF Opens, HeadCmd
<1>2. /\ Asked' = [r \in Ids |-> IF r \in gone THEN {} ELSE Asked[r]]
      /\ Spent' = Spent \cup gone
  BY TurnAsks
<1> HIDE DEF gone
<1>3. Asked' = [r \in Ids |-> Asked[r]] BY <1>1, <1>2
<1>4. Asked = [r \in Ids |-> Asked[r]] BY DEF Asked
<1> QED BY <1>1, <1>2, <1>3, <1>4

LEMMA NoneStep ==
  ASSUME Asked' = Asked, Spent' = Spent, UNCHANGED <<gate, file, runner>>
  PROVE  Latch!LatchNext
PROOF
<1>1. PICK what \in SUBSET Blocks : what = {} OBVIOUS
<1>2. GateBlocks' = GateBlocks \cup what /\ SavedBlocks' = SavedBlocks
  BY <1>1 DEF GateBlocks, SavedBlocks, Restored
<1> QED BY <1>2, TripStep

LEMMA PollStep ==
  ASSUME RowsInv, GateInv, NEW p \in Consumers,
         \/ ApplyKill(p) \/ CancelAll(p) \/ ApplyReset(p) \/ ApplyToggle(p)
         \/ ApplySet(p) \/ Merge(p) \/ MarkDone(p) \/ Emit(p) \/ MarkFailed(p)
  PROVE  Latch!LatchNext
PROOF
<1> USE DEF coverage, dials, gateVars
<1>1. CASE CancelAll(p) \/ ApplyToggle(p) \/ ApplySet(p) \/ Merge(p)
  <2>1. /\ ~AtPc(p, "idle") /\ (~AtPc(p, "apply") \/ HeadCmd(p).op # "reset")
        /\ \E label \in {"cancel", "merge", "mark", "emit", "fail"} : Goto(p, label)
        /\ UNCHANGED <<requests, gate, file, runner>>
    BY <1>1 DEF CancelAll, ApplyToggle, ApplySet, Merge, AtPc
  <2> QED BY <2>1, NoTurn, NoneStep
<1>2. CASE MarkDone(p) \/ Emit(p)
  <2>1. /\ ~AtPc(p, "idle") /\ ~AtPc(p, "apply")
        /\ NextRow(p)
           \/ \E label \in {"cancel", "merge", "mark", "emit", "fail"} : Goto(p, label)
        /\ UNCHANGED requests \/ \E status \in {"done", "failed"} : Mark(Head(p), status)
        /\ UNCHANGED <<gate, file, runner>>
    BY <1>2 DEF MarkDone, Emit, AtPc
  <2> QED BY <2>1, NoTurn, NoneStep
<1>3. CASE MarkFailed(p)
  <2>1. /\ AtPc(p, "fail") /\ ~AtPc(p, "idle") /\ ~AtPc(p, "apply")
        /\ UNCHANGED requests \/ \E status \in {"done", "failed"} : Mark(Head(p), status)
        /\ UNCHANGED <<gate, file, runner>>
        /\ NextRow(p) \/ Escape(p)
    BY <1>3 DEF MarkFailed, AtPc
  <2>2. CASE NextRow(p) BY <2>1, <2>2, NoTurn, NoneStep
  <2>3. CASE Escape(p)
    <3>1. /\ poller'[p].batch = {}
          /\ \A q \in Consumers : q # p => poller'[q] = poller[q]
      BY <2>3 DEF Escape, RowsInv, Idle
    <3>2. \A i \in Ids : ~Queued(p, i)' BY <3>1 DEF Queued
    <3>3. /\ \A i \in Ids : requests'[i].cmd = requests[i].cmd
          /\ \A i \in Ids : i \notin poller[p].batch => requests'[i] = requests[i]
          /\ \A i \in poller[p].batch : requests'[i].status # "pending"
      <4>1. poller[p].batch \subseteq Ids /\ poller[p].pc # "idle"
        BY <2>1 DEF RowsInv, PollerRecord, AtPc
      <4>2. Head(p) \in poller[p].batch BY <4>1, HeadOK
      <4> QED BY <2>1, <4>1, <4>2 DEF Mark, RowsInv, RowRecord
    <3>4. PICK left \in SUBSET poller[p].batch : left = {} OBVIOUS
    <3>5. /\ Gone(p, left) \in SUBSET Ids
          /\ \A r \in Gone(p, left) : Asked[r] # {}
          /\ Asked' = [r \in Ids |-> IF r \in Gone(p, left) THEN {} ELSE Asked[r]]
          /\ Spent' = Spent \cup Gone(p, left)
      BY <3>1, <3>2, <3>3, <3>4, BatchAsks
    <3>6. GateBlocks' = GateBlocks /\ SavedBlocks' = SavedBlocks
      BY <2>1 DEF GateBlocks, SavedBlocks, Restored
    <3> QED BY <3>5, <3>6, GoneStep
  <2> QED BY <2>1, <2>2, <2>3
<1>4. ASSUME ApplyKill(p) \/ ApplyReset(p)
      PROVE  /\ AtPc(p, "apply") /\ ~AtPc(p, "idle")
             /\ \E label \in {"cancel", "merge", "mark", "emit", "fail"} : Goto(p, label)
             /\ UNCHANGED <<requests, runner>> /\ runner # "down"
             /\ HeadCmd(p).brokers \in SUBSET Brokers /\ Head(p) \in Ids
  <2>1. AtPc(p, "apply") /\ ~AtPc(p, "idle") /\ UNCHANGED <<requests, runner>>
        /\ \E label \in {"cancel", "merge", "mark", "emit", "fail"} : Goto(p, label)
    BY <1>4 DEF ApplyKill, ApplyReset, AtPc
  <2>2. runner # "down" BY <2>1 DEF RowsInv, AtPc, Idle
  <2>3. CommandOK(HeadCmd(p)) /\ Head(p) \in Ids BY <2>1, HeadOK DEF AtPc
  <2> QED BY <2>1, <2>2, <2>3 DEF CommandOK, Command
<1>5. CASE ApplyKill(p)
  <2>1. HeadCmd(p).op = "kill" /\ Close(HeadCmd(p).brokers) BY <1>5 DEF ApplyKill
  <2>2. Asked' = Asked /\ Spent' = Spent BY <1>4, <1>5, <2>1, NoTurn
  <2>3. /\ Reach(HeadCmd(p).brokers, {Everything}) \in SUBSET Blocks
        /\ GateBlocks' = GateBlocks \cup Reach(HeadCmd(p).brokers, {Everything})
        /\ \/ SavedBlocks' = SavedBlocks
           \/ SavedBlocks' \in {GateBlocks \cup some :
                                some \in SUBSET Reach(HeadCmd(p).brokers, {Everything})}
    BY <1>4, <1>5, <2>1, CloseBlocks
  <2> QED BY <2>2, <2>3, TripStep
<1>6. CASE ApplyReset(p)
  <2> DEFINE h == Head(p)
             what == Reach(HeadCmd(p).brokers, Blocks)
             gone == {i \in {h} : Opens(i) /\ AtPc(p, "apply")}
  <2>1. HeadCmd(p).op = "reset" /\ Open(HeadCmd(p).brokers) BY <1>6 DEF ApplyReset
  <2>2. what \in SUBSET Blocks /\ GateBlocks' = GateBlocks \ what
        /\ (SavedBlocks' = SavedBlocks
            \/ SavedBlocks' \in {GateBlocks \ some : some \in SUBSET what})
    BY <1>4, <1>6, <2>1, OpenBlocks
  <2>3. gone = {h} BY <1>4, <1>6, <2>1 DEF Opens, HeadCmd
  <2>4. /\ \A r \in gone : Asked[r] # {}
        /\ Asked' = [r \in Ids |-> IF r \in gone THEN {} ELSE Asked[r]]
        /\ Spent' = Spent \cup gone
    BY <1>4, <1>6, TurnAsks
  <2>5. h \in Ids /\ Asked[h] # {} BY <1>4, <1>6, <2>3, <2>4
  <2>6. Asked[h] = what /\ h \notin Spent
    <3>1. Scope(h) = what BY <2>5, ScopeOK DEF HeadCmd
    <3>2. Asked[h] = (IF Opens(h) /\ Waiting(h) THEN Scope(h) ELSE {}) BY <2>5 DEF Asked
    <3> HIDE DEF h, what
    <3>3. Opens(h) /\ Waiting(h) BY <2>5, <3>2
    <3> QED BY <3>1, <3>2, <3>3 DEF Spent
  <2> HIDE DEF h, what, gone
  <2>7. Asked' = [Asked EXCEPT ![h] = {}] /\ Spent' = Spent \cup {h}
    BY <2>3, <2>4 DEF Asked
  <2> QED BY <2>2, <2>5, <2>6, <2>7, ServeStep
<1> QED BY <1>1, <1>2, <1>3, <1>5, <1>6

\* A poller that claims rows keeps them waiting, or loses them with the refresh.
LEMMA ClaimStep ==
  ASSUME RowsInv, NEW p \in Consumers, Claim(p)
  PROVE  Latch!LatchNext
PROOF
<1> USE DEF coverage, dials, gateVars
<1> DEFINE rows == Oldest(Pending, Limit)
<1>1. /\ poller[p].batch = {} /\ UNCHANGED <<gate, file, runner>>
      /\ requests' = [i \in Ids |-> IF i \in rows
                        THEN [requests[i] EXCEPT !.status = "processing"] ELSE requests[i]]
      /\ poller' = [poller EXCEPT ![p] = [pc |-> "apply", batch |-> rows]]
         \/ UNCHANGED poller
  BY DEF Claim, AtPc, RowsInv
<1>2. \A i \in rows : i \in Ids /\ requests[i].status = "pending"
  BY DEF Oldest, Pending
<1> HIDE DEF rows
<1>3. /\ \A i \in Ids : requests'[i].cmd = requests[i].cmd
      /\ \A i \in Ids : i \notin rows => requests'[i] = requests[i]
      /\ \A i \in rows : requests'[i].status = "processing"
  BY <1>1, <1>2 DEF RowsInv, RowRecord
<1>4. \A q \in Consumers : q # p => poller'[q] = poller[q] BY <1>1 DEF RowsInv
<1>5. \A i \in rows : \A q \in Consumers : i \notin poller[q].batch
  BY <1>2 DEF RowsInv
<1>6. ASSUME NEW i \in rows, NEW q \in Consumers PROVE ~Queued(q, i)
  BY <1>5 DEF Queued
<1>7. \A i \in rows : Waiting(i) BY <1>2 DEF Waiting
<1>8. ASSUME NEW i \in Ids, i \notin rows PROVE Waiting(i)' <=> Waiting(i)
  <2>1. ~Queued(p, i) /\ ~Queued(p, i)' BY <1>1, <1>8 DEF Queued, RowsInv
  <2>2. \A q \in Consumers : q # p => (Queued(q, i)' <=> Queued(q, i))
    BY <1>4 DEF Queued, Head, AtPc
  <2> QED BY <1>3, <1>8, <2>1, <2>2 DEF Waiting
<1>9. CASE poller' = [poller EXCEPT ![p] = [pc |-> "apply", batch |-> rows]]
  <2>1. \A i \in rows : Queued(p, i)' BY <1>9 DEF Queued, AtPc, RowsInv
  <2>2. \A i \in rows : Waiting(i)' BY <2>1 DEF Waiting
  <2>3. \A i \in Ids : Opens(i) => (Waiting(i)' <=> Waiting(i)) BY <1>7, <1>8, <2>2
  <2> QED BY <1>1, <1>3, <2>3, StillStep
<1>10. CASE UNCHANGED poller
  <2> DEFINE gone == {i \in rows : Opens(i)}
  <2>1. ASSUME NEW i \in rows PROVE ~Waiting(i)'
    <3>1. \A q \in Consumers : ~Queued(q, i)' BY <1>5, <1>10 DEF Queued
    <3>2. requests'[i].status # "pending" BY <1>3
    <3> QED BY <3>1, <3>2 DEF Waiting
  <2>2. gone \in SUBSET Ids BY <1>2
  <2>3. \A i \in gone : Opens(i) /\ Waiting(i) /\ ~Waiting(i)' BY <1>7, <2>1
  <2>4. \A i \in Ids \ gone : Opens(i) => (Waiting(i)' <=> Waiting(i)) BY <1>8
  <2> HIDE DEF gone
  <2>5. /\ \A r \in gone : Asked[r] # {}
        /\ Asked' = [r \in Ids |-> IF r \in gone THEN {} ELSE Asked[r]]
        /\ Spent' = Spent \cup gone
    BY <1>3, <2>2, <2>3, <2>4, GoneAsks
  <2>6. GateBlocks' = GateBlocks /\ SavedBlocks' = SavedBlocks
    BY <1>1 DEF GateBlocks, SavedBlocks, Restored
  <2> QED BY <2>2, <2>5, <2>6, GoneStep
<1> QED BY <1>1, <1>9, <1>10

\* A new row asks to open what its command names, waits if it is pending and is
\* carried out at once if it is not.
LEMMA RequestAsks ==
  ASSUME RowsInv, UNCHANGED poller, NEW n \in Ids, n = last + 1,
         NEW cmd, NEW status \in {"pending", "direct"},
         requests'[n] = [status |-> status, cmd |-> cmd],
         \A i \in Ids : i # n =>
           /\ requests'[i].cmd = requests[i].cmd
           /\ Opens(i) => requests'[i].status = requests[i].status
  PROVE  /\ n \notin Spent /\ Asked[n] = {}
         /\ cmd.op # "reset" => Asked' = Asked /\ Spent' = Spent
         /\ cmd.op = "reset" /\ status = "pending" =>
              /\ Asked' = [Asked EXCEPT ![n] = Reach(cmd.brokers, Blocks)]
              /\ Spent' = Spent
         /\ cmd.op = "reset" /\ status = "direct" =>
              /\ Asked' = [Asked EXCEPT ![n] = {}]
              /\ Spent' = Spent \cup {n}
PROOF
<1>1. n \in Ids /\ n > last /\ last \in Nat
  BY Constants DEF RowsInv, Ids
<1>2. requests[n] = NoRequest BY <1>1 DEF RowsInv
<1>3. ~Opens(n) BY <1>2 DEF Opens, NoRequest, NoCommand
<1>4. n \notin 1..last /\ requests'[n].cmd = cmd /\ requests'[n].status = status
  BY <1>1
<1>5. ASSUME NEW q \in Consumers PROVE ~Queued(q, n)'
  <2>1. poller'[q].batch \subseteq 1..last BY DEF RowsInv
  <2> QED BY <1>4, <2>1 DEF Queued
<1>6. Waiting(n)' <=> status = "pending" BY <1>4, <1>5 DEF Waiting
<1>7. (Opens(n)' <=> cmd.op = "reset") /\ Scope(n)' = Reach(cmd.brokers, Blocks)
  BY <1>4 DEF Opens, Scope, Reach
<1>8. ASSUME NEW i \in Ids, i # n
      PROVE  /\ Opens(i)' <=> Opens(i)
             /\ Scope(i)' = Scope(i)
             /\ Opens(i) => (Waiting(i)' <=> Waiting(i))
  <2>1. requests'[i].cmd = requests[i].cmd BY <1>8
  <2>2. Opens(i) => requests'[i].status = requests[i].status BY <1>8
  <2>3. \A q \in Consumers : Queued(q, i)' <=> Queued(q, i) BY DEF Queued, Head, AtPc
  <2> QED BY <2>1, <2>2, <2>3 DEF Opens, Scope, Waiting
<1>9. Asked' = [i \in Ids |-> IF Opens(i)' /\ Waiting(i)' THEN Scope(i)' ELSE {}]
  BY DEF Asked
<1>10. \A i \in Ids : i # n => Asked'[i] = Asked[i]
  BY <1>8, <1>9 DEF Asked
<1>11. Asked'[n] = IF cmd.op = "reset" /\ status = "pending"
                   THEN Reach(cmd.brokers, Blocks) ELSE {}
  BY <1>1, <1>6, <1>7, <1>9
<1>12. Asked[n] = {} /\ n \notin Spent BY <1>1, <1>3 DEF Asked, Spent
<1>13. \A i \in Ids : i # n => (i \in Spent' <=> i \in Spent)
  BY <1>8 DEF Spent
<1>14. n \in Spent' <=> cmd.op = "reset" /\ status = "direct"
  BY <1>1, <1>6, <1>7 DEF Spent
<1>15. DOMAIN Asked = Ids /\ Asked = [i \in Ids |-> Asked[i]]
       /\ Asked' = [i \in Ids |-> Asked'[i]] /\ Spent \subseteq Ids /\ Spent' \subseteq Ids
  BY DEF Asked, Spent
<1>16. Asked' = [Asked EXCEPT ![n] = Asked'[n]]
  BY <1>1, <1>10, <1>15
<1>17. cmd.op # "reset" => Asked' = Asked
  <2> HAVE cmd.op # "reset"
  <2>1. Asked'[n] = Asked[n] BY <1>11, <1>12
  <2>2. \A i \in Ids : Asked'[i] = Asked[i] BY <1>10, <2>1
  <2> QED BY <1>15, <2>2
<1>18. ~(cmd.op = "reset" /\ status = "direct") => Spent' = Spent
  <2> HAVE ~(cmd.op = "reset" /\ status = "direct")
  <2>1. n \notin Spent' /\ n \notin Spent BY <1>12, <1>14
  <2>2. \A i \in Ids : i \in Spent' <=> i \in Spent BY <1>13, <2>1
  <2> QED BY <1>15, <2>2
<1>19. cmd.op = "reset" /\ status = "direct" => Spent' = Spent \cup {n}
  BY <1>1, <1>13, <1>14, <1>15
<1> QED BY <1>11, <1>12, <1>16, <1>17, <1>18, <1>19

LEMMA ApiStep ==
  ASSUME RowsInv, GateInv, Api \/ EnqueueToggle
  PROVE  Latch!LatchNext
PROOF
<1> USE DEF coverage, dials, gateVars
\* A new row, as RequestAsks wants it.
<1>1. ASSUME NEW cmd, NEW status \in {"pending", "direct"}, Request(cmd, status),
             last + 1 \in Ids, UNCHANGED poller
      PROVE  \E n \in Ids :
               /\ n \notin Spent /\ Asked[n] = {}
               /\ cmd.op # "reset" => Asked' = Asked /\ Spent' = Spent
               /\ cmd.op = "reset" /\ status = "pending" =>
                    /\ Asked' = [Asked EXCEPT ![n] = Reach(cmd.brokers, Blocks)]
                    /\ Spent' = Spent
               /\ cmd.op = "reset" /\ status = "direct" =>
                    /\ Asked' = [Asked EXCEPT ![n] = {}]
                    /\ Spent' = Spent \cup {n}
  <2>1. PICK n \in Ids : n = last + 1 BY <1>1
  <2>2. requests'[n] = [status |-> status, cmd |-> cmd]
        /\ \A i \in Ids : i # n => requests'[i] = requests[i]
    BY <1>1, <2>1 DEF Request, RowsInv
  <2>3. \A i \in Ids : i # n =>
          /\ requests'[i].cmd = requests[i].cmd
          /\ Opens(i) => requests'[i].status = requests[i].status
    BY <2>2
  <2> QED BY <1>1, <2>1, <2>2, <2>3, RequestAsks
<1>2. ASSUME NEW cmd \in Commands, Enqueue(cmd) PROVE Latch!LatchNext
  <2>1. /\ UNCHANGED <<poller, gate, file, runner>> /\ Request(cmd, "pending")
        /\ last + 1 \in Ids
    BY <1>2, RoomOK DEF Enqueue
  <2>2. PICK n \in Ids :
          /\ n \notin Spent /\ Asked[n] = {}
          /\ cmd.op # "reset" => Asked' = Asked /\ Spent' = Spent
          /\ cmd.op = "reset" =>
               /\ Asked' = [Asked EXCEPT ![n] = Reach(cmd.brokers, Blocks)]
               /\ Spent' = Spent
    BY <1>1, <2>1
  <2>3. CASE cmd.op # "reset" BY <2>1, <2>2, <2>3, NoneStep
  <2>4. CASE cmd.op = "reset"
    <3>1. Reach(cmd.brokers, Blocks) \in SUBSET Blocks
      BY Constants DEF Reach, Blocks, CommandOK, Command
    <3>2. GateBlocks' = GateBlocks /\ SavedBlocks' = SavedBlocks
      BY <2>1 DEF GateBlocks, SavedBlocks, Restored
    <3> QED BY <2>2, <2>4, <3>1, <3>2, AskStep
  <2> QED BY <2>3, <2>4
<1>3. ASSUME NEW cmd \in Commands, ByHand(cmd) PROVE Latch!LatchNext
  <2>1. /\ UNCHANGED <<poller, runner>> /\ Request(cmd, "direct")
        /\ last + 1 \in Ids /\ runner # "down"
        /\ cmd.brokers \in SUBSET Brokers
    BY <1>3, RoomOK, Constants DEF ByHand, InOrchestrator, CommandOK, Command
  <2>2. PICK n \in Ids :
          /\ n \notin Spent /\ Asked[n] = {}
          /\ cmd.op # "reset" => Asked' = Asked /\ Spent' = Spent
          /\ cmd.op = "reset" =>
               /\ Asked' = [Asked EXCEPT ![n] = {}] /\ Spent' = Spent \cup {n}
    BY <1>1, <2>1
  <2>3. CASE cmd.op = "kill" /\ Close(cmd.brokers)
    <3>1. /\ Reach(cmd.brokers, {Everything}) \in SUBSET Blocks
          /\ GateBlocks' = GateBlocks \cup Reach(cmd.brokers, {Everything})
          /\ \/ SavedBlocks' = SavedBlocks
             \/ SavedBlocks' \in {GateBlocks \cup some :
                                  some \in SUBSET Reach(cmd.brokers, {Everything})}
      BY <2>1, <2>3, CloseBlocks
    <3> QED BY <2>2, <2>3, <3>1, TripStep
  <2>4. CASE cmd.op = "reset" /\ Open(cmd.brokers)
    <3> DEFINE what == Reach(cmd.brokers, Blocks)
    <3>1. /\ what \in SUBSET Blocks /\ GateBlocks' = GateBlocks \ what
          /\ (SavedBlocks' = SavedBlocks
              \/ SavedBlocks' \in {GateBlocks \ some : some \in SUBSET what})
      BY <2>1, <2>4, OpenBlocks
    <3> HIDE DEF what
    <3> QED BY <2>2, <2>4, <3>1, ServeStep
  <2> QED BY <1>3, <2>3, <2>4 DEF ByHand
<1>4. ASSUME NEW cmd \in Commands, StoreToggle(cmd) PROVE Latch!LatchNext
  <2>1. UNCHANGED <<requests, poller, gate, file, runner>> BY <1>4 DEF StoreToggle
  <2>2. \A i \in Ids : Waiting(i)' <=> Waiting(i)
    BY <2>1 DEF Waiting, Queued, Head, AtPc
  <2> QED BY <2>1, <2>2, StillStep
<1>5. CASE EnqueueToggle
  <2> DEFINE row == [op |-> "toggle", brokers |-> {}, value |-> toggling]
  <2>1. UNCHANGED <<poller, gate, file, runner>> BY <1>5 DEF EnqueueToggle
  <2>2. CASE Request(row, "pending")
    <3>1. last + 1 \in Ids BY <1>5, Constants DEF EnqueueToggle, RowsInv, Ids
    <3>2. row.op # "reset" OBVIOUS
    <3> HIDE DEF row
    <3>3. Asked' = Asked /\ Spent' = Spent BY <1>1, <2>1, <2>2, <3>1, <3>2
    <3> QED BY <2>1, <3>3, NoneStep
  <2>3. CASE UNCHANGED requests
    <3>1. \A i \in Ids : Waiting(i)' <=> Waiting(i)
      BY <2>1, <2>3 DEF Waiting, Queued, Head, AtPc
    <3> QED BY <2>1, <2>3, <3>1, StillStep
  <2> QED BY <1>5, <2>2, <2>3 DEF EnqueueToggle
<1> QED BY <1>2, <1>3, <1>4, <1>5 DEF Api, Direct, ConnectorSwitch

LEMMA SameAsks ==
  ASSUME UNCHANGED <<requests, poller>>
  PROVE  Asked' = Asked /\ Spent' = Spent
PROOF
<1>1. \A i \in Ids : (Waiting(i)' <=> Waiting(i)) /\ (Opens(i)' <=> Opens(i))
                     /\ Scope(i)' = Scope(i)
  BY DEF Waiting, Queued, Head, AtPc, Opens, Scope
<1>2. Asked' = [i \in Ids |-> IF Opens(i)' /\ Waiting(i)' THEN Scope(i)' ELSE {}]
  BY DEF Asked
<1> QED BY <1>1, <1>2 DEF Asked, Spent

LEMMA EnvironmentStep ==
  ASSUME RowsInv, GateInv, Environment \/ CoverageTick
  PROVE  Latch!LatchNext
PROOF
<1> USE DEF coverage, dials, gateVars
<1>1. Asked' = Asked /\ Spent' = Spent
  BY SameAsks DEF Environment, CoverageTick, AutoClose, MonitorRestores, ReportChanges
<1>2. ASSUME NEW b \in Brokers, ReportChanges(b) PROVE Latch!LatchNext
  BY <1>1, <1>2, NoneStep DEF ReportChanges
<1>3. ASSUME NEW bs \in SUBSET Brokers, AutoClose(bs) PROVE Latch!LatchNext
  <2> DEFINE what == Reach(bs, {Everything})
  <2>1. /\ gate' = CloseGate(gate, bs) /\ file' \in {gate', file}
        /\ UNCHANGED runner /\ runner # "down" /\ GateOK(gate)
    BY <1>3 DEF AutoClose, GateInv
  <2>2. GateOK(gate') /\ Closed(gate') = Closed(gate) \cup what
    BY <2>1, OperatorOK, OperatorClosed
  <2>3. what \in SUBSET Blocks BY DEF Reach, Blocks
  <2>4. GateBlocks' = GateBlocks \cup what BY <2>1, <2>2 DEF GateBlocks
  <2>5. SavedBlocks' = SavedBlocks \/ SavedBlocks' = GateBlocks \cup what
    <3>1. CASE file' = file BY <3>1 DEF SavedBlocks, Restored
    <3>2. CASE file' = gate'
      <4>1. Closed(RestoreRuntimeState(FreshGate, gate')) = Closed(gate') BY <2>2, ReloadOK
      <4>2. SavedBlocks' = Closed(gate') BY <3>2, <4>1 DEF SavedBlocks, Restored
      <4> QED BY <2>1, <2>2, <4>2 DEF GateBlocks
    <3> QED BY <2>1, <3>1, <3>2
  <2> HIDE DEF what
  <2> QED BY <1>1, <2>3, <2>4, <2>5, TripStep
<1>4. CASE MonitorRestores
  <2> DEFINE after == RestoreRuntimeState(gate, PortfolioKeys)
  <2>1. /\ gate' = after /\ Persist(after, {}) /\ UNCHANGED runner
        /\ runner # "down" /\ GateOK(gate)
    BY <1>4 DEF MonitorRestores, SetGate, InOrchestrator, GateInv
  <2>2. GateOK(after) /\ Closed(after) = Closed(gate)
    BY <2>1, FreshOK, RestoreOK, ReloadOK DEF GateOK
  <2>3. Closed(gate) = GateBlocks /\ runner' # "down" BY <2>1 DEF GateBlocks
  <2> HIDE DEF after
  <2>4. PICK during : during = {} OBVIOUS
  <2>5. \A g \in during : GateOK(g) /\ Closed(g) = GateBlocks BY <2>4
  <2>6. Persist(after, during) BY <2>1, <2>4
  <2> QED BY <1>1, <2>1, <2>2, <2>3, <2>5, <2>6, SameBlocks
<1>5. CASE CoverageTick
  <2>1. PICK maturing \in SUBSET Reported("excluded") :
         LET excluded == Reported("excluded") \ maturing
             out  == excluded \ CoverageDisabled
             back == CoverageDisabled \cap Reported("included")
             Without(some) == DisableBrokers(gate, some, "coverage")
             With(some) == EnableBrokersFor(Without(out), some, "coverage")
         IN  /\ gate' = With(back)
             /\ IF out \cup back = {} THEN UNCHANGED file /\ Works
                ELSE Persist(gate', {Without(some) : some \in (SUBSET out) \ {{}}}
                                    \cup {With(some) : some \in (SUBSET back) \ {{}}})
             /\ lastDisabled' = excluded
             /\ reopened' = reopened \cap excluded
             /\ report' = [b \in Brokers |-> IF b \in maturing THEN "included" ELSE report[b]]
    BY <1>5 DEF CoverageTick
  <2> DEFINE excluded == Reported("excluded") \ maturing
             out  == excluded \ CoverageDisabled
             back == CoverageDisabled \cap Reported("included")
             Without(some) == DisableBrokers(gate, some, "coverage")
             With(some) == EnableBrokersFor(Without(out), some, "coverage")
             during == {Without(some) : some \in (SUBSET out) \ {{}}}
                       \cup {With(some) : some \in (SUBSET back) \ {{}}}
  <2>2. gate' = With(back) /\ (Persist(gate', during) \/ UNCHANGED file)
    BY <2>1
  <2>3. out \subseteq Brokers /\ back \subseteq Brokers /\ "coverage" \in Sources
    BY DEF Reported, Sources
  <2>4. runner # "down" /\ UNCHANGED runner /\ GateOK(gate)
    BY <1>5 DEF CoverageTick, InOrchestrator, GateInv
  <2>5. ASSUME NEW bs \in SUBSET Brokers
        PROVE  GateOK(DisableBrokers(gate, bs, "coverage"))
               /\ Closed(DisableBrokers(gate, bs, "coverage")) = Closed(gate)
    BY <2>3, <2>4, DisableOK, CoverageClosed
  <2>6. \A some \in SUBSET out : GateOK(Without(some)) /\ Closed(Without(some)) = Closed(gate)
    BY <2>3, <2>5
  <2>7. GateOK(Without(out)) /\ Closed(Without(out)) = Closed(gate)
    BY <2>3, <2>5
  <2> HIDE DEF Without, out, back
  <2>8. ASSUME NEW bs \in SUBSET Brokers
        PROVE  GateOK(EnableBrokersFor(Without(out), bs, "coverage"))
               /\ Closed(EnableBrokersFor(Without(out), bs, "coverage")) = Closed(gate)
    BY <2>3, <2>7, EnableForOK, CoverageClosed
  <2>9. \A some \in SUBSET back : GateOK(With(some)) /\ Closed(With(some)) = Closed(gate)
    BY <2>3, <2>8
  <2>10. GateOK(With(back)) /\ Closed(With(back)) = Closed(gate)
    BY <2>9
  <2> HIDE DEF With
  <2>11. Closed(gate) = GateBlocks /\ runner' # "down" BY <2>4 DEF GateBlocks
  <2>12. \A g \in during : GateOK(g) /\ Closed(g) = GateBlocks
    BY <2>6, <2>9, <2>11
  <2> HIDE DEF during
  <2>13. GateOK(gate') /\ Closed(gate') = GateBlocks BY <2>2, <2>10, <2>11
  <2> DEFINE after == With(back)
  <2>14. gate' = after /\ GateOK(after) /\ Closed(after) = GateBlocks
         /\ (Persist(after, during) \/ UNCHANGED file)
    BY <2>2, <2>10, <2>11
  <2> HIDE DEF after
  <2> QED BY <1>1, <2>11, <2>12, <2>14, SameBlocks
<1> QED BY <1>2, <1>3, <1>4, <1>5 DEF Environment

\* The runner goes down and comes back: requests that were claimed are given up.
LEMMA LifeStep ==
  ASSUME RowsInv, GateInv, Down \/ Start \/ Hydrate \/ Recover
  PROVE  Latch!LatchNext
PROOF
<1> USE DEF coverage, dials, gateVars
<1>1. GateOK(Restored) BY FreshOK, RestoreOK DEF Restored, GateInv
<1>2. CASE Down
  <2> DEFINE gone == {i \in Ids : Opens(i) /\ Waiting(i) /\ requests[i].status # "pending"}
  <2>1. /\ UNCHANGED <<requests, file>> /\ runner' = "down"
        /\ \A q \in Consumers : poller'[q].batch = {}
    BY <1>2 DEF Down, Idle
  <2>2. \A q \in Consumers : \A i \in Ids : ~Queued(q, i)' BY <2>1 DEF Queued
  <2>3. \A i \in Ids : Waiting(i)' <=> requests[i].status = "pending"
    BY <2>1, <2>2 DEF Waiting
  <2>4. \A i \in gone : Opens(i) /\ Waiting(i) /\ ~Waiting(i)' BY <2>3
  <2>5. \A i \in Ids \ gone : Opens(i) => (Waiting(i)' <=> Waiting(i))
    BY <2>3 DEF Waiting
  <2>6. gone \in SUBSET Ids OBVIOUS
  <2> HIDE DEF gone
  <2>7. /\ \A r \in gone : Asked[r] # {}
        /\ Asked' = [r \in Ids |-> IF r \in gone THEN {} ELSE Asked[r]]
        /\ Spent' = Spent \cup gone
    BY <2>1, <2>4, <2>5, <2>6, GoneAsks
  <2>8. SavedBlocks' = SavedBlocks /\ GateBlocks' = SavedBlocks
    BY <2>1 DEF SavedBlocks, GateBlocks, Restored
  <2> QED BY <2>6, <2>7, <2>8, GoneStep
<1>3. CASE Start
  <2>1. /\ runner = "down" /\ runner' # "down" /\ gate' = Restored /\ Persist(Restored, {})
        /\ UNCHANGED <<requests, poller>>
    BY <1>3 DEF Start, SetGate
  <2>2. Closed(Restored) = GateBlocks BY <2>1 DEF GateBlocks
  <2>3. Asked' = Asked /\ Spent' = Spent BY <2>1, SameAsks
  <2>4. PICK during : during = {} OBVIOUS
  <2>5. \A g \in during : GateOK(g) /\ Closed(g) = GateBlocks BY <2>4
  <2>6. Persist(Restored, during) BY <2>1, <2>4
  <2> QED BY <1>1, <2>1, <2>2, <2>3, <2>5, <2>6, SameBlocks
<1>4. CASE Hydrate
  <2>1. /\ runner # "down" /\ runner' # "down"
        /\ UNCHANGED <<requests, poller, gate, file>> /\ GateOK(gate)
    BY <1>4 DEF Hydrate, GateInv
  <2>2. Asked' = Asked /\ Spent' = Spent BY <2>1, SameAsks
  <2>3. GateBlocks' = GateBlocks /\ SavedBlocks' = SavedBlocks
    BY <2>1 DEF GateBlocks, SavedBlocks, Restored
  <2>4. PICK what \in SUBSET Blocks : what = {} OBVIOUS
  <2>5. GateBlocks' = GateBlocks \cup what BY <2>3, <2>4
  <2> QED BY <2>2, <2>3, <2>5, TripStep
<1>5. CASE Recover
  <2> DEFINE cmd == [op |-> "reset", brokers |-> {}, value |-> 0]
  <2>1. /\ runner = "down" /\ runner' # "down" /\ UNCHANGED poller
        /\ gate' = FreshGate /\ Persist(FreshGate, {Restored})
        /\ last + 1 \in Ids
    BY <1>5, RoomOK DEF Recover, ResetKill
  <2>2. PICK n \in Ids : n = last + 1 BY <2>1
  <2>3. /\ requests'[n] = [status |-> "direct", cmd |-> cmd]
        /\ \A i \in Ids : i # n =>
             /\ requests'[i].cmd = requests[i].cmd
             /\ Opens(i) => requests'[i].status = requests[i].status
    <3>1. requests'[n] = [status |-> "direct", cmd |-> cmd] BY <1>5, <2>2 DEF Recover
    <3>2. \A i \in Ids : requests[i] \in RowRecord BY DEF RowsInv
    <3>3. ASSUME NEW i \in Ids, i # n
          PROVE  /\ requests'[i].cmd = requests[i].cmd
                 /\ Opens(i) => requests'[i].status = requests[i].status
      <4>1. requests'[i] =
              IF requests[i].cmd.op = "kill" /\ requests[i].status \in {"pending", "processing"}
              THEN [requests[i] EXCEPT !.status = "deleted"] ELSE requests[i]
        BY <1>5, <2>2, <3>3 DEF Recover
      <4> QED BY <3>2, <4>1 DEF Opens, RowRecord
    <3> QED BY <3>1, <3>3
  <2>4. cmd.op = "reset" /\ cmd.brokers = {} OBVIOUS
  <2> HIDE DEF cmd
  <2>5. /\ n \notin Spent /\ Asked[n] = {}
        /\ Asked' = [Asked EXCEPT ![n] = {}]
        /\ Spent' = Spent \cup {n}
    BY <2>1, <2>2, <2>3, <2>4, RequestAsks
  <2>6. GateOK(FreshGate) /\ Closed(FreshGate) = {}
    BY FreshOK DEF Closed, FreshGate
  <2>7. GateBlocks = Closed(Restored) /\ GateBlocks \subseteq Blocks
    BY <1>1, <2>1, ClosedByReasons DEF GateBlocks
  <2>8. PICK what \in SUBSET Blocks : what = Blocks OBVIOUS
  <2>9. GateBlocks' = GateBlocks \ what BY <2>1, <2>6, <2>7, <2>8 DEF GateBlocks
  <2>10. PICK during : during = {Restored} OBVIOUS
  <2>11. SavedBlocks' = SavedBlocks \/ SavedBlocks' = Closed(FreshGate)
         \/ \E g \in during : SavedBlocks' = Closed(g)
    <3>1. \A g \in during : GateOK(g) BY <1>1, <2>10
    <3>2. Persist(FreshGate, during) BY <2>1, <2>10
    <3> QED BY <2>6, <3>1, <3>2, SavedLemma
  <2>12. SavedBlocks' = SavedBlocks \/ SavedBlocks' = {} \/ SavedBlocks' = GateBlocks
    BY <2>6, <2>7, <2>10, <2>11
  <2>13. GateBlocks \ what = {} /\ GateBlocks \ {} = GateBlocks BY <2>7, <2>8
  <2>14. {} \in SUBSET what /\ what \in SUBSET what OBVIOUS
  <2>15. SavedBlocks' = SavedBlocks
         \/ SavedBlocks' \in {GateBlocks \ some : some \in SUBSET what}
    BY <2>12, <2>13, <2>14
  <2> QED BY <2>5, <2>9, <2>15, ServeStep
<1> QED BY <1>2, <1>3, <1>4, <1>5
----------------------------------------------------------------------------
(* The theorem *)

LEMMA LatchStarts == Init => Latch!LatchInit
PROOF
<1> SUFFICES ASSUME Init PROVE Latch!LatchInit OBVIOUS
<1>1. runner = "down" /\ file \in Gates /\ requests = [i \in Ids |-> NoRequest]
  BY ControlAssumption DEF Init, OlderFile, Gates, FreshGate
<1>2. GateOK(Restored) BY <1>1, FreshOK, RestoreOK DEF Restored
<1>3. GateBlocks = SavedBlocks /\ SavedBlocks \in SUBSET Blocks
  BY <1>1, <1>2, ClosedByReasons DEF GateBlocks, SavedBlocks
<1>4. \A i \in Ids : ~Opens(i) BY <1>1 DEF Opens, NoRequest, NoCommand
<1>5. Asked = [i \in Ids |-> {}] /\ Spent = {} BY <1>4 DEF Asked, Spent
<1> QED BY <1>3, <1>5 DEF Latch!LatchInit, GateBlocks, SavedBlocks, Asked, Spent

LEMMA LatchStill == UNCHANGED vars => UNCHANGED Latch!latchVars
PROOF
<1> SUFFICES ASSUME UNCHANGED vars PROVE UNCHANGED Latch!latchVars OBVIOUS
<1>1. UNCHANGED <<requests, poller, gate, file, runner>> BY DEF vars
<1>2. Asked' = Asked /\ Spent' = Spent BY <1>1, SameAsks
<1>3. GateBlocks' = GateBlocks /\ SavedBlocks' = SavedBlocks
  BY <1>1 DEF GateBlocks, SavedBlocks, Restored
<1> QED BY <1>2, <1>3 DEF Latch!latchVars, GateBlocks, SavedBlocks, Asked, Spent

\* The operator's blocks are a latch: kill and manual blocks open only for a request
\* to open them, each request opens at most once and no further than it says, and a
\* restart brings back the saved gate, for any brokers, pollers, commands and faults
\* (apply_control_commands in runner_control, risk/engine.py, the coverage loop).
THEOREM Implements == Spec => LatchSpec
PROOF
<1>1. Init => Latch!LatchInit BY LatchStarts
<1>2. IInv /\ [Next]_vars => [Latch!LatchNext]_(Latch!latchVars)
  <2> SUFFICES ASSUME IInv, [Next]_vars PROVE [Latch!LatchNext]_(Latch!latchVars)
    OBVIOUS
  <2>1. RowsInv /\ GateInv BY DEF IInv
  <2>2. CASE Next
    <3>1. CASE \E p \in Consumers : Poll(p) BY <2>1, <3>1, ClaimStep, PollStep DEF Poll
    <3> QED BY <2>1, <2>2, <3>1, ApiStep, EnvironmentStep, LifeStep DEF Next
  <2>3. CASE UNCHANGED vars BY <2>3, LatchStill
  <2> QED BY <2>2, <2>3
<1> QED BY <1>1, <1>2, Invariance, PTL DEF Spec, LatchSpec, Latch!LatchSpec
=============================================================================
