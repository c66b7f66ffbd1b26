----------------------------- MODULE FillBooking -----------------------------
(***************************************************************************)
(* What the fills ledger promises about the venue: a broker order trades   *)
(* unit by unit, and the ledger books it at most once, with a quantity it  *)
(* had traded by then.                                                     *)
(***************************************************************************)
EXTENDS Naturals

CONSTANT Placements   \* broker orders

VARIABLES traded, booked

Init ==
  /\ traded = [p \in Placements |-> 0]
  /\ booked = [p \in Placements |-> 0]

Trade(p) ==
  /\ traded' = [traded EXCEPT ![p] = @ + 1]
  /\ UNCHANGED booked

Book(p) ==
  /\ booked[p] = 0
  /\ \E q \in 1..traded[p] : booked' = [booked EXCEPT ![p] = q]
  /\ UNCHANGED traded

Next == \E p \in Placements : Trade(p) \/ Book(p)

Spec == Init /\ [][Next]_<<traded, booked>>
============================================================================
