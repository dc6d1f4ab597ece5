---------------------------- MODULE ServerTable ----------------------------
(***************************************************************************)
(* The linked list of connected servers of one node                        *)
(* (src/src/distributed_server.cpp) as a sequence, the functions that walk *)
(* it, and the operations main and fthread apply to it while they hold     *)
(* sem_server.  The entries that a mining thread or a handler reads        *)
(* without the semaphore are not protected by this.                        *)
(***************************************************************************)
EXTENDS Seconds, Sequences, SequencesExt

CONSTANTS
  Node,    \* the nodes there are
  Self     \* my_addr, my_port

ASSUME Owner == Self \in Node

VARIABLES
  server_table,   \* the head first; last_keep_alive is kept as its age
  phase

vars == << server_table, phase >>

Entry == [node : Node, age : Age]

-----------------------------------------------------------------------------
(* The functions of the list.                                              *)

\* Where a walk that looks for m ends: its first entry, or 0.
Position(table, m) == SelectInSeq(table, LAMBDA server : server.node = m)

is_known(table, m) == Position(table, m) # 0

insert_server(table, m) == << [node |-> m, age |-> 0] >> \o table

\* mutant of suppression_server: what follows goes too.
suppression_tail(table, m) ==
  IF is_known(table, m) THEN SubSeq(table, 1, Position(table, m) - 1) ELSE table

suppression_server(table, m) ==
  IF is_known(table, m) THEN RemoveAt(table, Position(table, m)) ELSE table

keep_alive_server(table, m) ==
  IF is_known(table, m) THEN [table EXCEPT ![Position(table, m)].age = 0] ELSE table

\* What the loop looks for: its own address, and who has been silent.
Dead(server) == server.node = Self \/ Stale(server.age, phase)

\* The loop visits the entries there were, and each time takes the first of
\* that address out of what is left.
suppression_dead_server(table) ==
  LET left[i \in 0..Len(table)] ==
        IF i = 0 THEN table
        ELSE IF Dead(table[i]) THEN suppression_server(left[i - 1], table[i].node)
        ELSE left[i - 1]
  IN left[Len(table)]

-----------------------------------------------------------------------------
(* Their callers.                                                          *)

Init == server_table = << >> /\ phase \in Phase

\* mutant of Insert: main does not look first.
InsertUnseen(m) ==
  /\ Len(server_table) < 3
  /\ server_table' = insert_server(server_table, m)
  /\ UNCHANGED phase

\* main, on a CONNECT or a SHARE_SERVER: is_known, then insert_server.
Insert(m) ==
  /\ ~is_known(server_table, m)
  /\ server_table' = insert_server(server_table, m)
  /\ UNCHANGED phase

\* main, on a KEEP.
KeepAlive(m) ==
  /\ server_table' = keep_alive_server(server_table, m)
  /\ UNCHANGED phase

\* fthread, once a second.
RemoveDead ==
  /\ server_table' = suppression_dead_server(server_table)
  /\ UNCHANGED phase

Tick ==
  /\ server_table' = [i \in 1..Len(server_table) |->
                        [server_table[i] EXCEPT !.age = Older(@)]]
  /\ phase' = NextPhase(phase)

Next ==
  \/ \E m \in Node : Insert(m) \/ KeepAlive(m)
  \/ RemoveDead
  \/ Tick

Spec == Init /\ [][Next]_vars

-----------------------------------------------------------------------------

\* No node has two entries, though insert_server does not look: the removal of one
\* would take the other (suppression_server frees the first it meets).
TypeOK ==
  /\ server_table \in Seq(Entry)
  /\ phase \in Phase
  /\ \A i, j \in 1..Len(server_table) :
       server_table[i].node = server_table[j].node => i = j

\* The age a walk finds for each node.
AgeOf == [m \in Node |-> IF is_known(server_table, m)
                           THEN server_table[Position(server_table, m)].age
                           ELSE Absent]

Map == INSTANCE PeerMap WITH age <- AgeOf

\* Whatever the order of insertions, signs of life and removals (several dead in
\* a row, the head, the owner itself) the list does what a map from nodes to ages
\* would do: all the dead go in one pass, nobody else does, and a sign of life
\* reaches the entry the next removal looks at.
ImplementsMap == Map!Spec
=============================================================================
