--------------------------- MODULE ReplicatedLog ---------------------------
(***************************************************************************)
(* What a network in which one node mines promises: a log that grows by    *)
(* one block at a time, and copies of it that are brought up to date       *)
(* before it grows again, one by one and for certain.                      *)
(***************************************************************************)
EXTENDS Naturals, Sequences, SequencesExt

CONSTANT Follower

VARIABLES
  log,    \* the blocks of the node that mines
  copy    \* copy[f]: those a follower has

vars == << log, copy >>

\* A genesis, the same everywhere.
Init == Len(log) = 1 /\ copy = [f \in Follower |-> log]

UpToDate(f) == copy[f] = log

\* One more block, of any content, once everybody has the last one.
Grow ==
  /\ \A f \in Follower : UpToDate(f)
  /\ Len(log') = Len(log) + 1
  /\ IsPrefix(log, log')
  /\ UNCHANGED copy

\* A follower gets the block it lacks.
Deliver(f) ==
  /\ ~UpToDate(f)
  /\ copy' = [copy EXCEPT ![f] = Append(@, log[Len(@) + 1])]
  /\ UNCHANGED log

Next == Grow \/ \E f \in Follower : Deliver(f)

Safety == Init /\ [][Next]_vars
Spec == Safety /\ \A f \in Follower : WF_vars(Deliver(f))
=============================================================================
