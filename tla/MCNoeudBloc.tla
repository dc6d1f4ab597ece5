---------------------------- MODULE MCNoeudBloc ----------------------------
(* Small networks for TLC to explore. *)
EXTENDS NoeudBloc

CONSTANTS n1, n2, n3, t1, t2, t3

\* Participants: one client for everything, or one each.
OneClient   == [t \in Tx |-> "c"]
OwnClient   == [t \in Tx |-> t]

\* The nodes participants send to.
AllToFirst  == [t \in Tx |-> {n1}]
AllToSecond == [t \in Tx |-> {n2}]
Shared      == [t \in Tx |-> IF t = t1 THEN Node ELSE {n2}]
Split       == [t \in Tx |-> IF t \in {t1, t2} THEN {n1} ELSE {n2}]

\* Command lines.
NoPeer      == [n \in Node |-> Nobody]
JoinFirst   == [n \in Node |-> IF n = n1 THEN Nobody ELSE n1]
JoinSecond  == [n \in Node |-> IF n = n2 THEN Nobody ELSE n2]

\* The tables of nodes that are connected from the start.
FullTables  == [n \in Mesh |-> SetToSeq(Mesh \ {n})]

\* The CONNECT of n2 to n1 was lost: n1 knows nobody.
ConnectLost == [n \in Mesh |-> IF n = n2 THEN << n1 >> ELSE << >>]

OneSecond   == {0}
=============================================================================
