---------------------------- MODULE Replication ----------------------------
(***************************************************************************)
(* Where participants send to one node only, the network is a replicated   *)
(* log: the chain of that node, and the chains of the others.              *)
(***************************************************************************)
EXTENDS NoeudBloc

CONSTANT Miner

ASSUME OneMiner == Miner \in Node /\ \A t \in Tx : Target[t] \subseteq {Miner}

\* The joins are over, and the miner has heard of everybody.
ASSUME FormedNetwork ==
  /\ Mesh = Node
  /\ ToSet(InitialTable[Miner]) = Node \ {Miner}

Log == INSTANCE ReplicatedLog WITH
         Follower <- Node \ {Miner},
         log      <- blockchain[Miner].chain,
         copy     <- [n \in Node \ {Miner} |-> blockchain[n].chain]

\* Every step of threads, handlers and main leaves the chains alone, adds a block
\* to the miner's when all the others have its last one, or brings one of them up
\* to date; and no block that was mined stays undelivered (threadMine, sendBlock).
ImplementsLog == Log!Spec
=============================================================================
