------------------------------- MODULE MCMesh -------------------------------
(* One node mines; what it replicates, and what the accounts then hold. *)
EXTENDS MCNoeudBloc, Replication, Accounts

\* Everybody pays the account the first node mines for.
ToMiner    == [t \in Tx |-> "m1"]
MinesFor   == [n \in Node |-> IF n = n1 THEN "m1" ELSE "m2"]

\* Ten points, of which the bonus is one.
TenPoints  == [t \in Tx |-> 1000]
=============================================================================
