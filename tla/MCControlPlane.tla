--------------------------- MODULE MCControlPlane ---------------------------
(* Instances of ControlPlane for TLC. *)
EXTENDS ControlPlane, TLC

CONSTANTS b1, poll

OneBroker == {b1}
OnePoller == {poll}

Cmd(op, brokers, value) == [op |-> op, brokers |-> brokers, value |-> value]

\* Both forms of kill and reset, two parameter values that are admitted and one
\* that is not, and the strategy switched off.
AllCommands ==
  {Cmd("kill", {}, 0), Cmd("kill", {b1}, 0), Cmd("reset", {}, 0), Cmd("reset", {b1}, 0),
   Cmd("set", {}, 1), Cmd("set", {}, 2), Cmd("set", {}, 9), Cmd("toggle", {}, 0)}
Admitted == {1, 2}
=============================================================================
