---------------------------- MODULE MCFillsLedger ----------------------------
(* Instances of FillsLedger for TLC. *)
EXTENDS FillsLedger, TLC

CONSTANTS w1, w2, r1, s1, s2

TwoWriters == {w1, w2}
OneWriter == {w1}
OneReader == {r1}
NoReader == {}
TwoStrategies == {s1, s2}

\* One unit at two prices and two units at one: averages that must be rounded,
\* gains and losses, flips.
MixedFills == {<<1, 3>>, <<1, 8>>, <<2, 3>>}
OnePrice == {<<1, 3>>, <<2, 3>>}
OneUnit == {<<1, 3>>}

\* The writers are alike, and so are the strategies.
Alike == Permutations(TwoWriters) \cup Permutations(TwoStrategies)
============================================================================
