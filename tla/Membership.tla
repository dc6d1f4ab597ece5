----------------------------- MODULE Membership -----------------------------
(***************************************************************************)
(* Who is connected to whom, in time (src/src/server.cpp: the branches     *)
(* CONNECT, SHARE_SERVER, KEEP and ASK_BALANCE of main, and fthread).      *)
(*                                                                         *)
(* Once a second fthread sends a KEEP to every connected node and removes  *)
(* those it has not heard for too long.  The KEEPs are received by main,   *)
(* one datagram at a time, and main may be held up: to answer a            *)
(* participant it waits for sem_blockchain, which a mining thread keeps    *)
(* while it mines and sends.                                               *)
(*                                                                         *)
(* Real time is modelled by ticks.  A tick does not pass while something   *)
(* is overdue: the KEEPs of a fthread that has slept for MaxPeriod ticks,  *)
(* a datagram that has waited for MaxDelay ticks at a main that receives,  *)
(* an answer when the semaphore is free.                                   *)
(*                                                                         *)
(* A table is a map from nodes to ages here: ServerTable shows that the    *)
(* list is one.  The chains are left out: NoeudBloc has them.              *)
(***************************************************************************)
EXTENDS Seconds, Sequences, FiniteSets

CONSTANTS
  Node, Participant,
  Nobody,        \* neither of them
  Peer,          \* Peer[n]: the node named on n's command line, or Nobody
  Mesh,          \* nodes that are running, and connected, at first
  MayStop,       \* nodes that may stop, once
  MayRestart,    \* nodes that may be started again after that
  Downtime,      \* ticks a stopped node stays down, at least
  MaxPeriod,     \* ticks between two rounds of fthread, at most
  MaxDelay,      \* ticks a datagram waits for a main that receives, at most
  MaxHold        \* ticks a mining thread keeps sem_blockchain, at most

ASSUME Actors ==
  /\ IsFiniteSet(Participant)
  /\ Node \cap Participant = {}
  /\ Nobody \notin Node \cup Participant
\* A command line names another node than the one it starts: main does not look.
ASSUME Deployment ==
  /\ Mesh \subseteq Node
  /\ Peer \in [Node -> Node \cup {Nobody}]
  /\ \A n \in Node : Peer[n] # n
  /\ MayStop \subseteq Node /\ MayRestart \subseteq Node

\* The ticks for which main may not receive, in all: every participant asks once.
HeldUp == Cardinality(Participant) * MaxHold

\* The ticks after which a node that stopped is out of a table: its last KEEP
\* waits, it grows stale, and a round removes it.
Detection == MaxDelay + HeldUp + Oldest + MaxPeriod

ASSUME Durations ==
  /\ MaxPeriod \in Nat /\ MaxPeriod >= Ticks
  /\ MaxDelay \in Nat
  /\ MaxHold \in Nat
  /\ Downtime \in 0..Detection

\* A datagram, and the ticks it has waited.
Datagram ==
  [header : {"CONNECT", "SHARE_SERVER", "KEEP"}, to : Node, node : Node, waited : 0..MaxDelay]
    \cup [header : {"ASK_BALANCE"}, to : Node, node : Participant, waited : 0..MaxDelay]
    \cup [header : {"SEND_BALANCE"}, to : Participant, node : Node, waited : 0..MaxDelay]

VARIABLES
  phase,
  status,          \* "off", "up", "down"
  stopped,         \* nodes that have stopped
  server_table,    \* server_table[n][m]: ticks since n heard of m, or Absent
  fthread,         \* "asleep", or between sending and removing
  since,           \* ticks since fthread fell asleep, or since the node stopped (to Detection)
  main, asker,     \* main is in receive_m, or about to answer the participant
  held,            \* ticks until main could have sem_blockchain
  participant,     \* "idle", "waiting", "answered", "gave up"
  patience,        \* ticks the participant goes on waiting
  udp

tableVars == << server_table >>
nodeVars  == << phase, status, stopped >>
roundVars == << fthread, since >>
mainVars  == << main, asker, held >>
askVars   == << participant, patience >>
vars == << nodeVars, tableVars, roundVars, mainVars, askVars, udp >>

-----------------------------------------------------------------------------

Up(n) == status[n] = "up"

Known(n, m) == server_table[n][m] # Absent

Sent(header, to, node) == [header |-> header, to |-> to, node |-> node, waited |-> 0]

\* Every node of the mesh has just ended a round.
Init ==
  /\ phase \in Phase
  /\ status = [n \in Node |-> IF n \in Mesh THEN "up" ELSE "off"]
  /\ stopped = {}
  /\ server_table = [n \in Node |-> [m \in Node |->
                       IF {n, m} \subseteq Mesh /\ m # n THEN 0 ELSE Absent]]
  /\ fthread = [n \in Node |-> "asleep"]
  /\ since = [n \in Node |-> 0]
  /\ main = [n \in Node |-> "loop"]
  /\ asker = [n \in Node |-> Nobody]
  /\ held = [n \in Node |-> 0]
  /\ participant = [p \in Participant |-> "idle"]
  /\ patience = [p \in Participant |-> 0]
  /\ udp = {}

-----------------------------------------------------------------------------
(* The life of a process.                                                  *)

\* A new process: an empty table, but for the node of the command line, which is
\* sent a CONNECT.  fthread's first round is due at once.  That the peer runs is assumed
\* of who starts the process: main does not look.
Start(n) ==
  /\ \/ status[n] = "off"
     \/ status[n] = "down" /\ n \in MayRestart /\ since[n] >= Downtime
  /\ Peer[n] # Nobody => Up(Peer[n])
  /\ status' = [status EXCEPT ![n] = "up"]
  /\ server_table' = [server_table EXCEPT ![n] =
                        [m \in Node |-> IF m = Peer[n] THEN 0 ELSE Absent]]
  /\ udp' = IF Peer[n] = Nobody THEN udp ELSE udp \cup {Sent("CONNECT", Peer[n], n)}
  /\ since' = [since EXCEPT ![n] = Ticks]
  /\ UNCHANGED << phase, stopped, fthread, mainVars, askVars >>

\* What is left of a process that ends: datagrams to it are lost.
Ends(n) ==
  /\ status' = [status EXCEPT ![n] = "down"]
  /\ fthread' = [fthread EXCEPT ![n] = "asleep"]
  /\ since' = [since EXCEPT ![n] = 0]
  /\ main' = [main EXCEPT ![n] = "loop"]
  /\ asker' = [asker EXCEPT ![n] = Nobody]
  /\ held' = [held EXCEPT ![n] = 0]
  /\ server_table' = [server_table EXCEPT ![n] = [m \in Node |-> Absent]]

\* SIGINT, or a kill.
Stop(n) ==
  /\ Up(n)
  /\ n \in MayStop \ stopped
  /\ stopped' = stopped \cup {n}
  /\ Ends(n)
  /\ udp' = {d \in udp : d.to # n}
  /\ UNCHANGED << phase, askVars >>

-----------------------------------------------------------------------------
(* fthread.                                                                *)

\* Awake again, it sends a KEEP to every connected node ...
SendKeeps(n) ==
  /\ Up(n) /\ fthread[n] = "asleep" /\ since[n] >= Ticks
  /\ udp' = udp \cup {Sent("KEEP", m, n) : m \in {k \in Node \ {n} : Known(n, k) /\ Up(k)}}
  /\ fthread' = [fthread EXCEPT ![n] = "removing"]
  /\ UNCHANGED << nodeVars, tableVars, since, mainVars, askVars >>

\* mutant of RemoveDead: nobody is removed.
RemoveNobody(n) ==
  /\ Up(n) /\ fthread[n] = "removing"
  /\ fthread' = [fthread EXCEPT ![n] = "asleep"]
  /\ since' = [since EXCEPT ![n] = 0]
  /\ UNCHANGED << nodeVars, tableVars, mainVars, askVars, udp >>

\* ... and, in a second critical section, removes the dead.
RemoveDead(n) ==
  /\ Up(n) /\ fthread[n] = "removing"
  /\ server_table' = [server_table EXCEPT ![n] =
                        [m \in Node |-> IF m = n \/ Stale(@[m], phase) THEN Absent ELSE @[m]]]
  /\ fthread' = [fthread EXCEPT ![n] = "asleep"]
  /\ since' = [since EXCEPT ![n] = 0]
  /\ UNCHANGED << nodeVars, mainVars, askVars, udp >>

-----------------------------------------------------------------------------
(* main.                                                                   *)

Receiving(n) == Up(n) /\ main[n] = "loop"

\* share_all_servers, then a CONNECT, to a node that is about to be inserted.
Introduce(n, m) ==
  {Sent("SHARE_SERVER", m, s) : s \in {k \in Node : Known(n, k)}}
    \cup {Sent("CONNECT", m, n)}

\* A CONNECT from an unknown node.  The call of sendBlockchain that follows ends
\* the process if that node has stopped meanwhile.
ConnectReceived(n) ==
  /\ Receiving(n)
  /\ \E d \in udp :
       /\ d.header = "CONNECT" /\ d.to = n
       /\ IF d.node = n \/ Known(n, d.node)
            THEN /\ udp' = udp \ {d}
                 /\ UNCHANGED << status, tableVars, roundVars, mainVars >>
            ELSE IF Up(d.node)
              THEN /\ udp' = (udp \ {d}) \cup Introduce(n, d.node)
                   /\ server_table' = [server_table EXCEPT ![n][d.node] = 0]
                   /\ UNCHANGED << status, roundVars, mainVars >>
              ELSE /\ udp' = {e \in udp : e.to # n}
                   /\ Ends(n)
  /\ UNCHANGED << phase, stopped, askVars >>

\* mutant of ShareServerReceived: an unknown node is not asked to connect.
ShareServerOnly(n) ==
  /\ Receiving(n)
  /\ \E d \in udp :
       /\ d.header = "SHARE_SERVER" /\ d.to = n
       /\ IF Known(n, d.node)
            THEN udp' = udp \ {d} /\ UNCHANGED tableVars
            ELSE /\ udp' = udp \ {d}
                 /\ server_table' = [server_table EXCEPT ![n][d.node] = 0]
  /\ UNCHANGED << nodeVars, roundVars, mainVars, askVars >>

\* A SHARE_SERVER: an unknown node is inserted, and sent a CONNECT.
ShareServerReceived(n) ==
  /\ Receiving(n)
  /\ \E d \in udp :
       /\ d.header = "SHARE_SERVER" /\ d.to = n
       /\ IF Known(n, d.node)
            THEN udp' = udp \ {d} /\ UNCHANGED tableVars
            ELSE /\ udp' = (udp \ {d})
                      \cup {Sent("CONNECT", m, n) : m \in {k \in {d.node} \ {n} : Up(k)}}
                 /\ server_table' = [server_table EXCEPT ![n][d.node] = 0]
  /\ UNCHANGED << nodeVars, roundVars, mainVars, askVars >>

\* mutant of KeepReceived: the date is not renewed.
KeepIgnored(n) ==
  /\ Receiving(n)
  /\ \E d \in udp : d.header = "KEEP" /\ d.to = n /\ udp' = udp \ {d}
  /\ UNCHANGED << nodeVars, tableVars, roundVars, mainVars, askVars >>

\* A KEEP: a connected node has been heard.  An unknown one is ignored.
KeepReceived(n) ==
  /\ Receiving(n)
  /\ \E d \in udp :
       /\ d.header = "KEEP" /\ d.to = n
       /\ udp' = udp \ {d}
       /\ server_table' = [server_table EXCEPT ![n][d.node] =
                             IF @ = Absent THEN Absent ELSE 0]
  /\ UNCHANGED << nodeVars, roundVars, mainVars, askVars >>

\* mutant of AskBalanceReceived: whom to answer is not kept.
AskAnonymous(n) ==
  /\ Receiving(n)
  /\ \E d \in udp :
       /\ d.header = "ASK_BALANCE" /\ d.to = n
       /\ udp' = udp \ {d}
       /\ main' = [main EXCEPT ![n] = "balance"]
  /\ UNCHANGED << nodeVars, tableVars, roundVars, asker, held, askVars >>

\* An ASK_BALANCE: main waits for sem_blockchain ...
AskBalanceReceived(n) ==
  /\ Receiving(n)
  /\ \E d \in udp :
       /\ d.header = "ASK_BALANCE" /\ d.to = n
       /\ udp' = udp \ {d}
       /\ main' = [main EXCEPT ![n] = "balance"]
       /\ asker' = [asker EXCEPT ![n] = d.node]
  /\ UNCHANGED << nodeVars, tableVars, roundVars, held, askVars >>

\* mutant of AnswerBalance: main goes on without an answer.
AnswerNothing(n) ==
  /\ Up(n) /\ main[n] = "balance" /\ held[n] = 0
  /\ main' = [main EXCEPT ![n] = "loop"]
  /\ asker' = [asker EXCEPT ![n] = Nobody]
  /\ UNCHANGED << nodeVars, tableVars, roundVars, held, askVars, udp >>

\* ... and answers when it has it.
AnswerBalance(n) ==
  /\ Up(n) /\ main[n] = "balance" /\ held[n] = 0
  /\ udp' = udp \cup {Sent("SEND_BALANCE", asker[n], n)}
  /\ main' = [main EXCEPT ![n] = "loop"]
  /\ asker' = [asker EXCEPT ![n] = Nobody]
  /\ UNCHANGED << nodeVars, tableVars, roundVars, held, askVars >>

\* Mining threads take sem_blockchain, for at most MaxHold ticks in all.
Mine(n) ==
  /\ Up(n) /\ held[n] = 0 /\ main[n] = "loop"
  /\ \E ticks \in 1..MaxHold : held' = [held EXCEPT ![n] = ticks]
  /\ UNCHANGED << nodeVars, tableVars, roundVars, main, asker, askVars, udp >>

-----------------------------------------------------------------------------
(* participant ... balance                                                 *)

\* The question is sent, and select is given a second.
GetBalance(p, n) ==
  /\ participant[p] = "idle" /\ Up(n)
  /\ udp' = udp \cup {Sent("ASK_BALANCE", n, p)}
  /\ participant' = [participant EXCEPT ![p] = "waiting"]
  /\ patience' = [patience EXCEPT ![p] = Ticks]
  /\ UNCHANGED << nodeVars, tableVars, roundVars, mainVars >>

\* An answer is shown.  It comes too late for a participant that has gone.
AnswerReceived(p) ==
  \E d \in udp :
    /\ d.header = "SEND_BALANCE" /\ d.to = p
    /\ udp' = udp \ {d}
    /\ participant' = [participant EXCEPT ![p] = IF @ = "waiting" THEN "answered" ELSE @]
    /\ patience' = [patience EXCEPT ![p] = 0]
    /\ UNCHANGED << nodeVars, tableVars, roundVars, mainVars >>

GiveUp(p) ==
  /\ participant[p] = "waiting" /\ patience[p] = 0
  /\ participant' = [participant EXCEPT ![p] = "gave up"]
  /\ UNCHANGED << nodeVars, tableVars, roundVars, mainVars, patience, udp >>

-----------------------------------------------------------------------------

\* What has to be done before the clock goes on.
Overdue ==
  \/ \E n \in Node : Up(n) /\ (fthread[n] = "removing" \/ since[n] = MaxPeriod)
  \/ \E n \in Node : Up(n) /\ main[n] = "balance" /\ held[n] = 0
  \/ \E d \in udp : d.waited = MaxDelay /\ (d.to \in Node => Receiving(d.to))
  \/ \E p \in Participant : participant[p] = "waiting" /\ patience[p] = 0

Later(count, bound) == IF count < bound THEN count + 1 ELSE count

Sooner(count) == IF count > 0 THEN count - 1 ELSE 0

Tick ==
  /\ ~Overdue
  /\ phase' = NextPhase(phase)
  /\ server_table' = [n \in Node |-> [m \in Node |-> Older(server_table[n][m])]]
  /\ since' = [n \in Node |-> Later(since[n], Detection)]
  /\ held' = [n \in Node |-> Sooner(held[n])]
  /\ patience' = [p \in Participant |-> Sooner(patience[p])]
  /\ udp' = {[d EXCEPT !.waited = Later(@, MaxDelay)] : d \in udp}
  /\ UNCHANGED << status, stopped, fthread, main, asker, participant >>

Receive(n) ==
  \/ ConnectReceived(n) \/ ShareServerReceived(n) \/ KeepReceived(n) \/ AskBalanceReceived(n)

Round(n) == SendKeeps(n) \/ RemoveDead(n)

Next ==
  \/ \E n \in Node : \/ Start(n) \/ Stop(n) \/ Round(n) \/ Receive(n)
                     \/ AnswerBalance(n) \/ Mine(n)
                     \/ \E p \in Participant : GetBalance(p, n)
  \/ \E p \in Participant : AnswerReceived(p) \/ GiveUp(p)
  \/ Tick

\* The processes and the clock go on.  As no tick passes before what is overdue is
\* done, this is all the fairness needed.  Nothing has to start, stop, mine or ask.
Progress ==
  \/ \E n \in Node : Round(n) \/ Receive(n) \/ AnswerBalance(n)
  \/ \E p \in Participant : AnswerReceived(p) \/ GiveUp(p)
  \/ Tick

Fairness == WF_vars(Progress)

Safety == Init /\ [][Next]_vars
Spec == Safety /\ Fairness

-----------------------------------------------------------------------------

TypeOK ==
  /\ phase \in Phase
  /\ status \in [Node -> {"off", "up", "down"}]
  /\ stopped \subseteq Node
  /\ server_table \in [Node -> [Node -> Age \cup {Absent}]]
  /\ fthread \in [Node -> {"asleep", "removing"}]
  /\ since \in [Node -> 0..Detection]
  /\ main \in [Node -> {"loop", "balance"}]
  /\ asker \in [Node -> Participant \cup {Nobody}]
  /\ held \in [Node -> 0..MaxHold]
  /\ participant \in [Participant -> {"idle", "waiting", "answered", "gave up"}]
  /\ patience \in [Participant -> 0..Ticks]
  /\ udp \subseteq Datagram

\* Two running nodes that know each other stay connected: as long as one sends
\* its KEEPs, the other does not take it for dead, however the rounds, the delays
\* and the waits of main add up (fthread, suppression_dead_server).
LivingStay ==
  [][\A m, n \in Node :
       Up(m) /\ Up(n) /\ Known(m, n) /\ Known(n, m) /\ Up(n)' => Known(n, m)']_vars

\* A node that stopped is out of all tables within a bounded time.
DeadForgotten ==
  \A m, n \in Node : status[m] = "down" /\ since[m] >= Detection => ~Known(n, m)

\* A node that stopped leaves the tables of those that go on, although others may
\* still be told of it.
DeadLeave ==
  \A m \in Node : status[m] = "down" ~> Up(m) \/ \A n \in Node : ~Known(n, m)

\* A participant whose node goes on running sees the answer to its question.
QuestionsAnswered ==
  stopped = {} => \A p \in Participant : participant[p] # "gave up"

\* In the end every two running nodes know each other.
FullMesh == <>[](\A m, n \in Node : Up(m) /\ Up(n) /\ m # n => Known(m, n))
=============================================================================
