------------------------------ MODULE PeerMap ------------------------------
(***************************************************************************)
(* What a server table promises (src/include/distributed_server.h): which  *)
(* nodes are connected, and for each how long ago it gave a sign of life.  *)
(***************************************************************************)
EXTENDS Seconds

CONSTANTS
  Node,    \* the nodes there are
  Self     \* the owner of the table

VARIABLES
  age,     \* age[m]: ticks since m was inserted or heard, or Absent
  phase    \* the tick within the current second

vars == << age, phase >>

Init == age = [m \in Node |-> Absent] /\ phase \in Phase

\* A node that is not connected becomes so.
Insert(m) ==
  /\ age[m] = Absent
  /\ age' = [age EXCEPT ![m] = 0]
  /\ UNCHANGED phase

\* A sign of life counts for connected nodes only.
KeepAlive(m) ==
  /\ age' = [age EXCEPT ![m] = IF @ = Absent THEN Absent ELSE 0]
  /\ UNCHANGED phase

\* The owner, and all who were silent for too long, are removed; no one else is.
RemoveDead ==
  /\ age' = [m \in Node |-> IF m = Self \/ Stale(age[m], phase) THEN Absent ELSE age[m]]
  /\ UNCHANGED phase

Tick ==
  /\ age' = [m \in Node |-> Older(age[m])]
  /\ phase' = NextPhase(phase)

Next ==
  \/ \E m \in Node : Insert(m) \/ KeepAlive(m)
  \/ RemoveDead
  \/ Tick

Spec == Init /\ [][Next]_vars
=============================================================================
