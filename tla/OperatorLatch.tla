---------------------------- MODULE OperatorLatch ----------------------------
(***************************************************************************)
(* What the risk gate promises its operator.  It is a latch: any component *)
(* may close it, and it opens only for a request of the operator to open   *)
(* it, at most once per request and no further than the request says.  A   *)
(* restart brings back what was last saved and nothing else.               *)
(***************************************************************************)
EXTENDS FiniteSets

CONSTANTS Requests,  \* requests an operator can make
          Blocks     \* what can be closed

VARIABLES closed,    \* what the gate blocks
          kept,      \* what the saved gate blocks
          asked,     \* per request, what it asks to open; {} if it does not wait
          spent      \* requests that opened the gate or were given up

latchVars == <<closed, kept, asked, spent>>

LatchTypeOK ==
  /\ closed \subseteq Blocks
  /\ kept \subseteq Blocks
  /\ asked \in [Requests -> SUBSET Blocks]
  /\ spent \subseteq Requests

\* A gate that was never saved, or the one the last process saved.
LatchInit ==
  /\ closed = kept
  /\ kept \in SUBSET Blocks
  /\ asked = [r \in Requests |-> {}]
  /\ spent = {}

\* Saving may fail, and then it is the older gate that a restart brings back, or
\* one saved half way through the change.
Save(halfway) == kept' = kept \/ kept' \in halfway

Ask(r, what) ==
  /\ r \notin spent
  /\ asked[r] = {}
  /\ asked' = [asked EXCEPT ![r] = what]
  /\ UNCHANGED <<closed, kept, spent>>

\* A request is carried out when it waited, or at once.
Serve(r, what) ==
  /\ r \notin spent
  /\ asked[r] \in {{}, what}
  /\ closed' = closed \ what
  /\ Save({closed \ some : some \in SUBSET what})
  /\ asked' = [asked EXCEPT ![r] = {}]
  /\ spent' = spent \cup {r}

GiveUp(gone) ==
  /\ gone \subseteq {r \in Requests : asked[r] # {}}
  /\ asked' = [r \in Requests |-> IF r \in gone THEN {} ELSE asked[r]]
  /\ spent' = spent \cup gone

Trip(what) ==
  /\ closed' = closed \cup what
  /\ Save({closed \cup some : some \in SUBSET what})
  /\ UNCHANGED <<asked, spent>>

Lose(gone) ==
  /\ GiveUp(gone)
  /\ UNCHANGED <<closed, kept>>

Restart(gone) ==
  /\ GiveUp(gone)
  /\ closed' = kept
  /\ UNCHANGED kept

LatchNext ==
  \/ \E what \in SUBSET Blocks : Trip(what)
  \/ \E r \in Requests, what \in SUBSET Blocks : Ask(r, what) \/ Serve(r, what)
  \/ \E gone \in SUBSET Requests : Lose(gone) \/ Restart(gone)

LatchSpec == LatchInit /\ [][LatchNext]_latchVars
==============================================================================
