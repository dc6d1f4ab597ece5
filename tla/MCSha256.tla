------------------------------ MODULE MCSha256 ------------------------------
(* All messages up to a little more than four blocks, in pieces of any length. *)
EXTENDS Sha256

EveryLength == 0..Longest
=============================================================================
