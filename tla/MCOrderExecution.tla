--------------------------- MODULE MCOrderExecution ---------------------------
(* Instances of OrderExecution for TLC: the failures each adapter shows. *)
EXTENDS OrderExecution, TLC

CONSTANTS c1, c2, o1, o2

Twins == Permutations(Callers) \cup Permutations(Orders)

\* Replies lost in every way an adapter turns them into an answer, and a
\* database that fails.
LossyFaults ==
  {"place_rejected", "lost_reply_rejected", "lost_reply_raised", "read_rejected",
   "read_raises", "cancel_fails", "db"}

\* A venue whose calls fail loudly and never report an order that is not so.
HonestFaults ==
  {"place_raises", "place_rejected", "read_raises", "list_raises", "cancel_fails"}
LoudFaults == HonestFaults \cup {"cancel_raises"}
===============================================================================
