---------------------------- MODULE MCMembership ----------------------------
(* Small networks, and clocks of a few ticks, for TLC to explore. *)
EXTENDS Membership

CONSTANTS n1, n2, n3

\* Command lines.
NoPeer      == [n \in Node |-> Nobody]
JoinFirst   == [n \in Node |-> IF n = n1 THEN Nobody ELSE n1]
JoinInChain == [n \in Node |-> CASE n = n1 -> Nobody [] n = n2 -> n1 [] OTHER -> n2]

\* Long enough for everybody to forget a node.
UntilForgotten == Detection
=============================================================================
