-------------------------- MODULE MCDeriskMonitors --------------------------
(* Instances of DeriskMonitors for TLC. *)
EXTENDS DeriskMonitors, TLC

CONSTANTS p1, p2

TwoPositions == {p1, p2}
=============================================================================
