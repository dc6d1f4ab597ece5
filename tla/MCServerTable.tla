---------------------------- MODULE MCServerTable ----------------------------
(* A small table for TLC to explore. *)
EXTENDS ServerTable

CONSTANTS n1, n2, n3
=============================================================================
