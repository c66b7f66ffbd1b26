------------------------------ MODULE RiskGate ------------------------------
(***************************************************************************)
(* The gate of risk/engine.py: the kill switch, the disabled brokers and,  *)
(* per disabled broker, who disabled it.  RiskEngine keeps the three in    *)
(* memory and writes them to a JSON file after every change; this module   *)
(* holds what each method makes of the gate, the callers and the file are  *)
(* in ControlPlane.                                                        *)
(***************************************************************************)
EXTENDS FiniteSets

CONSTANT Brokers  \* configured venues

\* Who disabled a broker: an operator or an execution failure ("manual" is the
\* default of disable_broker), the coverage loop, or a file of an older version
\* that has no reasons.
Sources == {"manual", "coverage", "legacy"}

Gates == [killed   : BOOLEAN,
          disabled : SUBSET Brokers,
          reasons  : [Brokers -> SUBSET Sources]]

\* RiskEngine.__init__, before the file is read.
FreshGate == [killed |-> FALSE, disabled |-> {}, reasons |-> [b \in Brokers |-> {}]]

Kill(g) == [g EXCEPT !.killed = TRUE]

ResetKill(g) == FreshGate

DisableOnce(g, bs, source) ==     \* bug: a disabled broker keeps its reasons
  [g EXCEPT !.disabled = @ \cup bs,
            !.reasons = [b \in Brokers |-> IF b \in bs \ g.disabled THEN {source}
                                          ELSE g.reasons[b]]]
\* disable_broker, for each of the brokers bs.
DisableBrokers(g, bs, source) ==
  [g EXCEPT !.disabled = @ \cup bs,
            !.reasons = [b \in Brokers |-> IF b \in bs THEN g.reasons[b] \cup {source}
                                          ELSE g.reasons[b]]]

\* enable_broker without a reason drops every reason ...
EnableBrokers(g, bs) ==
  [g EXCEPT !.disabled = @ \ bs,
            !.reasons = [b \in Brokers |-> IF b \in bs THEN {} ELSE g.reasons[b]]]

\* ... and with one only that reason: a broker reopens with the last of them.
EnableForgetful(g, bs, source) == \* bug: reopens whatever reasons are left
  [g EXCEPT !.disabled = @ \ bs,
            !.reasons = [b \in Brokers |-> IF b \in bs THEN g.reasons[b] \ {source}
                                          ELSE g.reasons[b]]]
EnableBrokersFor(g, bs, source) ==
  [g EXCEPT !.disabled = @ \ {b \in bs : g.reasons[b] \subseteq {source}},
            !.reasons = [b \in Brokers |-> IF b \in bs THEN g.reasons[b] \ {source}
                                          ELSE g.reasons[b]]]

RestoreExactly(g, keys) ==        \* bug: the kill switch is read like the counters
  [g EXCEPT !.killed = keys.killed]
\* restore_runtime_state only ever closes the gate further: a broker listed
\* without a reason is given "legacy".
RestoreRuntimeState(g, keys) ==
  LET known(b) == g.reasons[b] \cup keys.reasons[b]
  IN  [killed   |-> g.killed \/ keys.killed,
       disabled |-> g.disabled \cup keys.disabled
                    \cup {b \in Brokers : keys.reasons[b] # {}},
       reasons  |-> [b \in Brokers |->
                       IF known(b) = {} /\ b \in keys.disabled THEN {"legacy"}
                       ELSE known(b)]]

\* What a gate blocks whatever the coverage loop thinks: everything while killed,
\* and each broker that has a reason other than coverage.
Everything == "everything"
Blocks == Brokers \cup {Everything}
Closed(g) ==
  {b \in g.disabled : ~(g.reasons[b] \subseteq {"coverage"})}
  \cup {x \in {Everything} : g.killed}
=============================================================================
