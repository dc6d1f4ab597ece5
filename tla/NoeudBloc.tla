----------------------------- MODULE NoeudBloc -----------------------------
(***************************************************************************)
(* A network of "bloc" processes (src/src/server.cpp).  Each node runs     *)
(*                                                                         *)
(*   - main, which receives datagrams one at a time and handles them;      *)
(*   - one threadMine per transaction received, which queues it and mines  *)
(*     a block when enough are pending, under sem_mining and               *)
(*     sem_blockchain;                                                     *)
(*   - one RCF dispatch thread, which runs sendBlock and sendBlockchain    *)
(*     for the other nodes and takes no semaphore;                         *)
(*   - fthread, of which only the loyalty decay is kept here.              *)
(*                                                                         *)
(* They share the pointer `blockchain', read and replaced in several       *)
(* steps by each of them.  An RCF call blocks its caller until the remote  *)
(* handler returns.  If the callee is gone, or its handler has thrown, the *)
(* call throws at the caller, where nothing is caught: its process ends.   *)
(*                                                                         *)
(* Left out: keep-alives and the removal of dead peers, so that the tables *)
(* only grow, and restarts (see Membership); and the lifetime of the       *)
(* objects behind the pointer (a replaced chain is freed while others may  *)
(* still read it; here a reader sees the value it started from).           *)
(***************************************************************************)
EXTENDS Integers, Sequences, FiniteSets, SequencesExt

CONSTANTS
  Node,          \* the processes
  Tx,            \* payments, each sent once by a participant
  Client,        \* the accounts payments are made from
  Nobody,        \* neither a node nor a payment
  ClientOf,      \* ClientOf[t]: the account that makes payment t
  Target,        \* Target[t]: the nodes t may be sent to
  Asked,         \* the nodes participants ask for balances
  Peer,          \* Peer[n]: the node named on n's command line, or Nobody
  Mesh,          \* nodes that are already running, and connected, at first
  InitialTable,  \* InitialTable[n]: the server table of n \in Mesh
  MayStop,       \* nodes that may be interrupted or killed
  Reliable,      \* datagrams arrive, and a node is started after its peer
  Slots,         \* length of arg_mine             (100 in the code)
  Threshold,     \* pending transactions to mine     (5 in the code)
  LoyalAt,       \* quality that earns a bonus       (5 in the code)
  InvalidLimit,  \* rejected blocks before asking    (2 in the code)
  Time           \* the seconds time(nullptr) may return

ASSUME NodesAndPayments ==
  /\ Node \cap Tx = {}
  /\ Nobody \notin Node \cup Tx
ASSUME Participants ==
  /\ ClientOf \in [Tx -> Client]
  /\ Target \in [Tx -> SUBSET Node]
  /\ Asked \subseteq Node
\* A command line names another node than the one it starts: main does not look.
ASSUME Deployment ==
  /\ Mesh \subseteq Node
  /\ Peer \in [Node -> Node \cup {Nobody}]
  /\ \A n \in Node : Peer[n] # n
  /\ InitialTable \in [Mesh -> Seq(Mesh)]
  /\ \A n \in Mesh : IsInjective(InitialTable[n]) /\ n \notin ToSet(InitialTable[n])
  /\ MayStop \subseteq Node
  /\ Reliable \in BOOLEAN
ASSUME Limits ==
  /\ Slots \in Nat \ {0}
  /\ Threshold \in Nat \ {0}
  /\ LoyalAt \in Nat
  /\ InvalidLimit \in Nat \ {0}
ASSUME Clock == Time # {} /\ Time \subseteq Nat

\* What a block may carry: a participant's payment, the tenth of it a loyal
\* client is given, the miner's reward.
Payment(t) == [kind |-> "payment", of |-> t]
Bonus(t)   == [kind |-> "bonus",   of |-> t]
Reward(n)  == [kind |-> "reward",  of |-> n]

Transaction == [kind : {"payment", "bonus"}, of : Tx] \cup [kind : {"reward"}, of : Node]

INSTANCE Blockchain

\* Stands for an unset Blockchain pointer.
NoLedger == [chain |-> << >>, pending |-> << >>]

Caller == Node \cup Tx   \* main of a node, or the thread of a payment

\* The RCF requests and the UDP datagrams.
Call == [procedure : {"sendBlock"},      caller : Caller, to : Node, block : Block]
   \cup [procedure : {"sendBlockchain"}, caller : Caller, to : Node, chain : Seq(Block)]

Datagram == [header : {"CONNECT", "SHARE_SERVER", "ASK_BLOCKCHAIN"},
             to : Node, node : Node]

VARIABLES
  \* per node
  status,          \* "off", then "up", then "down"
  blockchain,      \* the chain and the pending transactions pointed to
  server_table,    \* the connected nodes, the last inserted first
  sem_mining, sem_blockchain,
  nb_thread, arg_mine,
  client_noeud,    \* quality of each client, -1 when unknown
  pas_valide,
  main, peer,      \* where main is, and the node it answers
  \* the RCF dispatch thread of a node
  handler, newChain, index, serving,
  \* the thread of a payment
  pc, home, slot, newBlockchain, server,
  \* the network
  calls, udp

chainVars  == << blockchain >>
nodeVars   == << status, server_table, pas_valide >>
semVars    == << sem_mining, sem_blockchain >>
ringVars   == << nb_thread, arg_mine, client_noeud >>
mainVars   == << main, peer >>
rcfVars    == << handler, newChain, index, serving >>
threadVars == << pc, home, slot, newBlockchain, server >>
netVars    == << calls, udp >>
vars == << chainVars, nodeVars, semVars, ringVars, mainVars, rcfVars, threadVars, netVars >>

-----------------------------------------------------------------------------

Up(n) == status[n] = "up"

\* A caller is blocked for as long as its request is neither served nor lost.
Waiting(x) == \E c \in calls : c.caller = x

\* main is in receive_m.
Receiving(n) == Up(n) /\ main[n] = "loop" /\ ~Waiting(n)

\* mutant of At: an RCF call that does not wait for the answer.
AtOneway(t, l) == pc[t] = l /\ Up(home[t])

\* The thread of t runs, and is at line l.
At(t, l) == pc[t] = l /\ Up(home[t]) /\ ~Waiting(t)

Known(n, m) == m \in ToSet(server_table[n])

Init ==
  \E ts \in Time :
    /\ status = [n \in Node |-> IF n \in Mesh THEN "up" ELSE "off"]
    /\ blockchain = [n \in Node |-> NewLedger(ts)]
    /\ server_table = [n \in Node |-> IF n \in Mesh THEN InitialTable[n] ELSE << >>]
    /\ sem_mining = [n \in Node |-> 1]
    /\ sem_blockchain = [n \in Node |-> 1]
    /\ nb_thread = [n \in Node |-> 0]
    /\ arg_mine = [n \in Node |-> [i \in 0..(Slots - 1) |-> Nobody]]
    /\ client_noeud = [n \in Node |-> [c \in Client |-> -1]]
    /\ pas_valide = [n \in Node |-> 0]
    /\ main = [n \in Node |-> "loop"]
    /\ peer = [n \in Node |-> Nobody]
    /\ handler = [n \in Node |-> "idle"]
    /\ newChain = [n \in Node |-> NoLedger]
    /\ index = [n \in Node |-> 0]
    /\ serving = [n \in Node |-> Nobody]
    /\ pc = [t \in Tx |-> "idle"]
    /\ home = [t \in Tx |-> Nobody]
    /\ slot = [t \in Tx |-> 0]
    /\ newBlockchain = [t \in Tx |-> NoLedger]
    /\ server = [t \in Tx |-> << >>]
    /\ calls = {}
    /\ udp = {}

-----------------------------------------------------------------------------
(* The life of a process.                                                  *)

\* main up to its receive loop: a genesis of its own, the RCF server, and a
\* CONNECT to the node named on the command line, inserted unconditionally.  That its
\* peer runs, under Reliable, is assumed of who starts it: the code does not look.
Start(n) ==
  /\ status[n] = "off"
  /\ Reliable /\ Peer[n] # Nobody => Up(Peer[n])
  /\ status' = [status EXCEPT ![n] = "up"]
  /\ \E ts \in Time : blockchain' = [blockchain EXCEPT ![n] = NewLedger(ts)]
  /\ IF Peer[n] = Nobody
       THEN UNCHANGED << server_table, udp >>
       ELSE /\ udp' = udp \cup {[header |-> "CONNECT", to |-> Peer[n], node |-> n]}
            /\ server_table' = [server_table EXCEPT ![n] = << Peer[n] >> \o @]
  /\ UNCHANGED << pas_valide, semVars, ringVars, mainVars, rcfVars, threadVars, calls >>

\* SIGINT, the end of a `bloc -d', or a kill.
Stop(n) ==
  /\ Up(n)
  /\ n \in MayStop
  /\ status' = [status EXCEPT ![n] = "down"]
  /\ UNCHANGED << chainVars, server_table, pas_valide, semVars, ringVars, mainVars,
                  rcfVars, threadVars, netVars >>

\* The process a caller runs in.
HomeOf(x) == IF x \in Tx THEN home[x] ELSE x

\* callSync throws when the callee is not there; nothing catches it.
CallFails(c) ==
  /\ Up(HomeOf(c.caller))
  /\ ~Up(c.to)
  /\ status' = [status EXCEPT ![HomeOf(c.caller)] = "down"]
  /\ calls' = calls \ {c}
  /\ UNCHANGED << chainVars, server_table, pas_valide, semVars, ringVars, mainVars,
                  rcfVars, threadVars, udp >>

LoseDatagram(m) ==
  /\ ~Reliable \/ ~Up(m.to)
  /\ udp' = udp \ {m}
  /\ UNCHANGED << chainVars, nodeVars, semVars, ringVars, mainVars, rcfVars,
                  threadVars, calls >>

-----------------------------------------------------------------------------
(* main: one datagram at a time.                                           *)

\* A TRANSACTION.  A client that is loyal enough earns a bonus, queued without
\* taking a semaphore; the payment goes into the next slot of the ring, whatever
\* that slot still holds, for a new thread to queue.
TransactionReceived(n, t) ==
  LET quality == client_noeud[n][ClientOf[t]]
      next    == (nb_thread[n] + 1) % Slots
  IN
  /\ Receiving(n)
  /\ pc[t] = "idle" /\ n \in Target[t]
  /\ blockchain' = IF quality >= LoyalAt
                     THEN [blockchain EXCEPT ![n] = CreateTransaction(@, Bonus(t))]
                     ELSE blockchain
  /\ client_noeud' = [client_noeud EXCEPT ![n][ClientOf[t]] = quality + 1]
  /\ nb_thread' = [nb_thread EXCEPT ![n] = next]
  /\ arg_mine' = [arg_mine EXCEPT ![n][next] = t]
  /\ pc' = [pc EXCEPT ![t] = "start"]
  /\ home' = [home EXCEPT ![t] = n]
  /\ slot' = [slot EXCEPT ![t] = next]
  /\ UNCHANGED << nodeVars, semVars, mainVars, rcfVars, newBlockchain, server, netVars >>

\* An ASK_BALANCE: main waits for sem_blockchain ...
AskBalance(n) ==
  /\ Receiving(n) /\ n \in Asked
  /\ main' = [main EXCEPT ![n] = "balance"]
  /\ UNCHANGED << chainVars, nodeVars, semVars, ringVars, peer, rcfVars, threadVars, netVars >>

\* ... reads the chain, and gives the semaphore back.
AnswerBalance(n) ==
  /\ Up(n) /\ main[n] = "balance"
  /\ sem_blockchain[n] = 1
  /\ main' = [main EXCEPT ![n] = "loop"]
  /\ UNCHANGED << chainVars, nodeVars, semVars, ringVars, peer, rcfVars, threadVars, netVars >>

\* mutant of Unknown: a CONNECT is taken without looking at the table.
UnknownUnseen(n, m) == m # n

\* is_known, and the comparison with one's own address.
Unknown(n, m) == m # n /\ ~Known(n, m)

\* mutant of Introduce: the newcomer is inserted before the table is shared.
IntroduceInserted(n, m) ==
  {[header |-> "SHARE_SERVER", to |-> m, node |-> s] : s \in ToSet(server_table[n]) \cup {m}}
    \cup {[header |-> "CONNECT", to |-> m, node |-> n]}

\* share_all_servers, then the CONNECT that answers a CONNECT.
Introduce(n, m) ==
  {[header |-> "SHARE_SERVER", to |-> m, node |-> s] : s \in ToSet(server_table[n])}
    \cup {[header |-> "CONNECT", to |-> m, node |-> n]}

\* A CONNECT from an unknown node: it is sent our table, then inserted in it,
\* and connected back to; sending it our chain is the next step.
ConnectReceived(n) ==
  /\ Receiving(n)
  /\ \E m \in udp :
       /\ m.header = "CONNECT" /\ m.to = n
       /\ IF Unknown(n, m.node)
            THEN /\ udp' = (udp \ {m}) \cup Introduce(n, m.node)
                 /\ server_table' = [server_table EXCEPT ![n] = << m.node >> \o @]
                 /\ main' = [main EXCEPT ![n] = "send"]
                 /\ peer' = [peer EXCEPT ![n] = m.node]
            ELSE udp' = udp \ {m} /\ UNCHANGED << server_table, mainVars >>
  /\ UNCHANGED << chainVars, status, pas_valide, semVars, ringVars, rcfVars,
                  threadVars, calls >>

\* A SHARE_SERVER: an unknown node is inserted, and asked to connect.
ShareServerReceived(n) ==
  /\ Receiving(n)
  /\ \E m \in udp :
       /\ m.header = "SHARE_SERVER" /\ m.to = n
       /\ IF Known(n, m.node)
            THEN udp' = udp \ {m} /\ UNCHANGED server_table
            ELSE /\ udp' = (udp \ {m})
                      \cup (IF m.node = n THEN {}   \* send_to_server skips oneself
                            ELSE {[header |-> "CONNECT", to |-> m.node, node |-> n]})
                 /\ server_table' = [server_table EXCEPT ![n] = << m.node >> \o @]
  /\ UNCHANGED << chainVars, status, pas_valide, semVars, ringVars, mainVars,
                  rcfVars, threadVars, calls >>

\* An ASK_BLOCKCHAIN: the sender is to be sent our chain.
AskBlockchainReceived(n) ==
  /\ Receiving(n)
  /\ \E m \in udp :
       /\ m.header = "ASK_BLOCKCHAIN" /\ m.to = n
       /\ udp' = udp \ {m}
       /\ main' = [main EXCEPT ![n] = "send"]
       /\ peer' = [peer EXCEPT ![n] = m.node]
  /\ UNCHANGED << chainVars, nodeVars, semVars, ringVars, rcfVars, threadVars, calls >>

\* client.sendBlockchain( *blockchain ): the chain as it is now.
SendBlockchain(n) ==
  /\ Up(n) /\ main[n] = "send"
  /\ calls' = calls \cup {[procedure |-> "sendBlockchain", caller |-> n,
                           to |-> peer[n], chain |-> blockchain[n].chain]}
  /\ main' = [main EXCEPT ![n] = "loop"]
  /\ peer' = [peer EXCEPT ![n] = Nobody]
  /\ UNCHANGED << chainVars, nodeVars, semVars, ringVars, rcfVars, threadVars, udp >>

\* Once a second, fthread lowers the quality of every client.
DecayQuality(n) ==
  /\ Up(n)
  /\ client_noeud' = [client_noeud EXCEPT ![n] =
                        [c \in Client |-> IF @[c] > 0 THEN @[c] - 1 ELSE @[c]]]
  /\ UNCHANGED << chainVars, nodeVars, semVars, nb_thread, arg_mine, mainVars, rcfVars,
                  threadVars, netVars >>

-----------------------------------------------------------------------------
(* threadMine, for the payment t.                                          *)

\* mutant of WaitMining: the semaphore is taken without waiting for it.
WaitMiningTry(t) ==
  /\ At(t, "start")
  /\ sem_mining' = [sem_mining EXCEPT ![home[t]] = 0]
  /\ pc' = [pc EXCEPT ![t] = "mining"]
  /\ UNCHANGED << chainVars, nodeVars, sem_blockchain, ringVars, mainVars, rcfVars,
                  home, slot, newBlockchain, server, netVars >>

WaitMining(t) ==
  LET n == home[t] IN
  /\ At(t, "start")
  /\ sem_mining[n] = 1
  /\ sem_mining' = [sem_mining EXCEPT ![n] = 0]
  /\ pc' = [pc EXCEPT ![t] = "mining"]
  /\ UNCHANGED << chainVars, nodeVars, sem_blockchain, ringVars, mainVars, rcfVars,
                  home, slot, newBlockchain, server, netVars >>

WaitBlockchain(t) ==
  LET n == home[t] IN
  /\ At(t, "mining")
  /\ sem_blockchain[n] = 1
  /\ sem_blockchain' = [sem_blockchain EXCEPT ![n] = 0]
  /\ pc' = [pc EXCEPT ![t] = "add"]
  /\ UNCHANGED << chainVars, nodeVars, sem_mining, ringVars, mainVars, rcfVars,
                  home, slot, newBlockchain, server, netVars >>

\* Queues what the slot holds now.
AddTransaction(t) ==
  LET n == home[t] IN
  /\ At(t, "add")
  /\ blockchain' = [blockchain EXCEPT ![n] =
                      CreateTransaction(@, Payment(arg_mine[n][slot[t]]))]
  /\ pc' = [pc EXCEPT ![t] = "size"]
  /\ UNCHANGED << nodeVars, semVars, ringVars, mainVars, rcfVars,
                  home, slot, newBlockchain, server, netVars >>

\* mutants of CheckPending: one transaction too early, one too late.
CheckPendingEarly(t) ==
  /\ At(t, "size")
  /\ pc' = [pc EXCEPT ![t] = IF Len(blockchain[home[t]].pending) >= Threshold - 1
                               THEN "copy" ELSE "share"]
  /\ UNCHANGED << chainVars, nodeVars, semVars, ringVars, mainVars, rcfVars,
                  home, slot, newBlockchain, server, netVars >>

CheckPendingLate(t) ==
  /\ At(t, "size")
  /\ pc' = [pc EXCEPT ![t] = IF Len(blockchain[home[t]].pending) > Threshold
                               THEN "copy" ELSE "share"]
  /\ UNCHANGED << chainVars, nodeVars, semVars, ringVars, mainVars, rcfVars,
                  home, slot, newBlockchain, server, netVars >>

\* Looks whether there is enough to mine.
CheckPending(t) ==
  /\ At(t, "size")
  /\ pc' = [pc EXCEPT ![t] = IF Len(blockchain[home[t]].pending) >= Threshold
                               THEN "copy" ELSE "share"]
  /\ UNCHANGED << chainVars, nodeVars, semVars, ringVars, mainVars, rcfVars,
                  home, slot, newBlockchain, server, netVars >>

\* Mines on a copy of the ledger, whatever that has become since the last step.
MineCopy(t) ==
  LET n == home[t] IN
  /\ At(t, "copy")
  /\ \E ts \in Time :
       newBlockchain' = [newBlockchain EXCEPT ![t] =
                           MinePendingTransactions(blockchain[n], ts, Reward(n))]
  /\ pc' = [pc EXCEPT ![t] = "check"]
  /\ UNCHANGED << chainVars, nodeVars, semVars, ringVars, mainVars, rcfVars,
                  home, slot, server, netVars >>

\* The mined block is forgotten.
Dropped(t) ==
  /\ pc' = [pc EXCEPT ![t] = "share"]
  /\ newBlockchain' = [newBlockchain EXCEPT ![t] = NoLedger]

\* The block is kept if it is valid and makes the chain longer than the current one, or,
\* the next two steps, as long with a last block of more transactions.  Each of the
\* three comparisons reads the pointer again.
CheckMined(t) ==
  LET new == newBlockchain[t].chain IN
  /\ At(t, "check")
  /\ IF ~IsChainValid(new)
       THEN Dropped(t)
       ELSE /\ pc' = [pc EXCEPT ![t] =
                        IF Len(blockchain[home[t]].chain) < Len(new) THEN "install" ELSE "length"]
            /\ UNCHANGED newBlockchain
  /\ UNCHANGED << chainVars, nodeVars, semVars, ringVars, mainVars, rcfVars,
                  home, slot, server, netVars >>

CompareLengths(t) ==
  /\ At(t, "length")
  /\ IF Len(blockchain[home[t]].chain) # Len(newBlockchain[t].chain)
       THEN Dropped(t)
       ELSE pc' = [pc EXCEPT ![t] = "last"] /\ UNCHANGED newBlockchain
  /\ UNCHANGED << chainVars, nodeVars, semVars, ringVars, mainVars, rcfVars,
                  home, slot, server, netVars >>

CompareLastBlocks(t) ==
  LET last == GetLatestBlock(blockchain[home[t]].chain)
      new  == GetLatestBlock(newBlockchain[t].chain)
  IN
  /\ At(t, "last")
  /\ IF Len(last.transactions) >= Len(new.transactions)
       THEN Dropped(t)
       ELSE pc' = [pc EXCEPT ![t] = "install"] /\ UNCHANGED newBlockchain
  /\ UNCHANGED << chainVars, nodeVars, semVars, ringVars, mainVars, rcfVars,
                  home, slot, server, netVars >>

\* delete(blockchain); blockchain = newBlockchain; server = server_table
InstallMined(t) ==
  LET n == home[t] IN
  /\ At(t, "install")
  /\ blockchain' = [blockchain EXCEPT ![n] = newBlockchain[t]]
  /\ newBlockchain' = [newBlockchain EXCEPT ![t] = NoLedger]
  /\ server' = [server EXCEPT ![t] = server_table[n]]
  /\ pc' = [pc EXCEPT ![t] = "share"]
  /\ UNCHANGED << nodeVars, semVars, ringVars, mainVars, rcfVars, home, slot, netVars >>

\* mutant of ShareBlock: sends the block the new one was mined upon.
ShareBlockBefore(t) ==
  LET chain == blockchain[home[t]].chain IN
  /\ At(t, "share")
  /\ server[t] # << >>
  /\ calls' = calls \cup {[procedure |-> "sendBlock", caller |-> t, to |-> Head(server[t]),
                           block |-> chain[Len(chain) - 1]]}
  /\ server' = [server EXCEPT ![t] = Tail(@)]
  /\ UNCHANGED << chainVars, nodeVars, semVars, ringVars, mainVars, rcfVars,
                  pc, home, slot, newBlockchain, udp >>

\* client.sendBlock( *(blockchain->chain.back()) ), one server after the other:
\* the last block of the chain as it is at each call.
ShareBlock(t) ==
  LET n == home[t] IN
  /\ At(t, "share")
  /\ server[t] # << >>
  /\ calls' = calls \cup {[procedure |-> "sendBlock", caller |-> t, to |-> Head(server[t]),
                           block |-> GetLatestBlock(blockchain[n].chain)]}
  /\ server' = [server EXCEPT ![t] = Tail(@)]
  /\ UNCHANGED << chainVars, nodeVars, semVars, ringVars, mainVars, rcfVars,
                  pc, home, slot, newBlockchain, udp >>

\* mutant of PostSemaphores: sem_blockchain is not given back.
PostMiningOnly(t) ==
  /\ At(t, "share")
  /\ server[t] = << >>
  /\ sem_mining' = [sem_mining EXCEPT ![home[t]] = 1]
  /\ pc' = [pc EXCEPT ![t] = "done"]
  /\ UNCHANGED << chainVars, nodeVars, sem_blockchain, ringVars, mainVars, rcfVars,
                  home, slot, newBlockchain, server, netVars >>

PostSemaphores(t) ==
  LET n == home[t] IN
  /\ At(t, "share")
  /\ server[t] = << >>
  /\ sem_blockchain' = [sem_blockchain EXCEPT ![n] = 1]
  /\ sem_mining' = [sem_mining EXCEPT ![n] = 1]
  /\ pc' = [pc EXCEPT ![t] = "done"]
  /\ UNCHANGED << chainVars, nodeVars, ringVars, mainVars, rcfVars,
                  home, slot, newBlockchain, server, netVars >>

-----------------------------------------------------------------------------
(* NoeudBloc::sendBlockchain and NoeudBloc::sendBlock, on the dispatch     *)
(* thread of n.  None of these steps takes a semaphore.                    *)

\* The dispatch thread is at line l of a handler.
Handling(n, l) == Up(n) /\ handler[n] = l

\* The handler returns, which releases its caller.
Return(n) ==
  /\ handler' = [handler EXCEPT ![n] = "idle"]
  /\ newChain' = [newChain EXCEPT ![n] = NoLedger]
  /\ index' = [index EXCEPT ![n] = 0]
  /\ serving' = [serving EXCEPT ![n] = Nobody]
  /\ calls' = {c \in calls : c.caller # serving[n]}

\* sendBlockchain: a copy of the chain received, with nothing pending.
ReceiveBlockchain(n) ==
  /\ Handling(n, "idle")
  /\ \E c \in calls :
       /\ c.procedure = "sendBlockchain" /\ c.to = n
       /\ newChain' = [newChain EXCEPT ![n] = Received(c.chain)]
       /\ serving' = [serving EXCEPT ![n] = c.caller]
  /\ handler' = [handler EXCEPT ![n] = "chain"]
  /\ UNCHANGED << chainVars, nodeVars, semVars, ringVars, mainVars, index, threadVars, netVars >>

\* mutant of CheckBlockchain: the lengths are not compared.
CheckBlockchainAnyLength(n) ==
  /\ Handling(n, "chain")
  /\ IF IsChainValid(newChain[n].chain)
       THEN /\ handler' = [handler EXCEPT ![n] = "compare"]
            /\ index' = [index EXCEPT ![n] = 1]
            /\ UNCHANGED << newChain, serving, calls >>
       ELSE Return(n)
  /\ UNCHANGED << chainVars, nodeVars, semVars, ringVars, mainVars, threadVars, udp >>

\* mutant of CheckBlockchain: a valid chain replaces ours at once.
CheckBlockchainTrusting(n) ==
  /\ Handling(n, "chain")
  /\ IF IsChainValid(newChain[n].chain)
       THEN /\ handler' = [handler EXCEPT ![n] = "adopt"]
            /\ UNCHANGED << newChain, index, serving, calls >>
       ELSE Return(n)
  /\ UNCHANGED << chainVars, nodeVars, semVars, ringVars, mainVars, threadVars, udp >>

\* It is adopted when it is valid and not shorter than ours.
CheckBlockchain(n) ==
  /\ Handling(n, "chain")
  /\ IF IsChainValid(newChain[n].chain) /\ Len(blockchain[n].chain) <= Len(newChain[n].chain)
       THEN /\ handler' = [handler EXCEPT ![n] = "compare"]
            /\ index' = [index EXCEPT ![n] = 1]
            /\ UNCHANGED << newChain, serving, calls >>
       ELSE Return(n)
  /\ UNCHANGED << chainVars, nodeVars, semVars, ringVars, mainVars, threadVars, udp >>

\* The search for the fork: is there a block of ours at index[n] ...
CompareSize(n) ==
  /\ Handling(n, "compare")
  /\ handler' = [handler EXCEPT ![n] =
                    IF index[n] <= Len(blockchain[n].chain) THEN "digest" ELSE "requeue"]
  /\ UNCHANGED << chainVars, nodeVars, semVars, ringVars, mainVars, newChain, index, serving,
                  threadVars, netVars >>

\* The handler looks at a block that one of the two chains does not have: the pointer
\* was replaced since the length was read.
Beyond(n) ==
  \/ handler[n] = "digest" /\ index[n] > Len(newChain[n].chain)
  \/ handler[n] \in {"digest", "walk"} /\ index[n] > Len(blockchain[n].chain)

\* mutant of CompareDigest: the index passes the block that differs.
CompareDigestPast(n) ==
  /\ Handling(n, "digest") /\ ~Beyond(n)
  /\ handler' = [handler EXCEPT ![n] =
                    IF blockchain[n].chain[index[n]].hash = newChain[n].chain[index[n]].hash
                      THEN "compare" ELSE "requeue"]
  /\ index' = [index EXCEPT ![n] = @ + 1]
  /\ UNCHANGED << chainVars, nodeVars, semVars, ringVars, mainVars, newChain, serving,
                  threadVars, netVars >>

\* ... and is it the one of the chain received?
CompareDigest(n) ==
  /\ Handling(n, "digest") /\ ~Beyond(n)
  /\ IF blockchain[n].chain[index[n]].hash = newChain[n].chain[index[n]].hash
       THEN /\ handler' = [handler EXCEPT ![n] = "compare"]
            /\ index' = [index EXCEPT ![n] = @ + 1]
       ELSE /\ handler' = [handler EXCEPT ![n] = "requeue"]
            /\ UNCHANGED index
  /\ UNCHANGED << chainVars, nodeVars, semVars, ringVars, mainVars, newChain, serving,
                  threadVars, netVars >>

\* Then, while there is a block of what is our chain now ...
RequeueSize(n) ==
  /\ Handling(n, "requeue")
  /\ handler' = [handler EXCEPT ![n] =
                    IF index[n] <= Len(blockchain[n].chain) THEN "walk" ELSE "adopt"]
  /\ UNCHANGED << chainVars, nodeVars, semVars, ringVars, mainVars, newChain, index, serving,
                  threadVars, netVars >>

\* ... its transactions are queued on the chain received.
RequeueBlock(n) ==
  /\ Handling(n, "walk") /\ ~Beyond(n)
  /\ newChain' = [newChain EXCEPT ![n].pending =
                    @ \o blockchain[n].chain[index[n]].transactions]
  /\ index' = [index EXCEPT ![n] = @ + 1]
  /\ handler' = [handler EXCEPT ![n] = "requeue"]
  /\ UNCHANGED << chainVars, nodeVars, semVars, ringVars, mainVars, serving,
                  threadVars, netVars >>

\* vector::at throws.  RCF carries the exception back to the caller, and ends its process.
OutOfRange(n) ==
  /\ Up(n) /\ Beyond(n)
  /\ status' = [status EXCEPT ![HomeOf(serving[n])] = IF @ = "up" THEN "down" ELSE @]
  /\ Return(n)
  /\ UNCHANGED << chainVars, server_table, pas_valide, semVars, ringVars, mainVars,
                  threadVars, udp >>

\* delete(blockchain); blockchain = newChain
AdoptBlockchain(n) ==
  /\ Handling(n, "adopt")
  /\ blockchain' = [blockchain EXCEPT ![n] = newChain[n]]
  /\ Return(n)
  /\ UNCHANGED << nodeVars, semVars, ringVars, mainVars, threadVars, udp >>

\* mutant of ReceiveBlock: the handler waits until no thread has sem_blockchain.
ReceiveBlockLocked(n) ==
  /\ Handling(n, "idle")
  /\ sem_blockchain[n] = 1
  /\ \E c \in calls :
       /\ c.procedure = "sendBlock" /\ c.to = n
       /\ newChain' = [newChain EXCEPT ![n] =
                         [blockchain[n] EXCEPT !.chain = Append(@, c.block)]]
       /\ serving' = [serving EXCEPT ![n] = c.caller]
  /\ handler' = [handler EXCEPT ![n] = "block"]
  /\ UNCHANGED << chainVars, nodeVars, semVars, ringVars, mainVars, index, threadVars, netVars >>

\* sendBlock: a copy of our chain and of what is pending, and the block on top.
ReceiveBlock(n) ==
  /\ Handling(n, "idle")
  /\ \E c \in calls :
       /\ c.procedure = "sendBlock" /\ c.to = n
       /\ newChain' = [newChain EXCEPT ![n] =
                         [blockchain[n] EXCEPT !.chain = Append(@, c.block)]]
       /\ serving' = [serving EXCEPT ![n] = c.caller]
  /\ handler' = [handler EXCEPT ![n] = "block"]
  /\ UNCHANGED << chainVars, nodeVars, semVars, ringVars, mainVars, index, threadVars, netVars >>

\* mutant of ExtendsChain: the block is not validated.
ExtendsAnyChain(n) == Len(blockchain[n].chain) <= Len(newChain[n].chain)

ExtendsChain(n) ==
  /\ IsChainValid(newChain[n].chain)
  /\ Len(blockchain[n].chain) <= Len(newChain[n].chain)

BlockValid(n) ==
  /\ Handling(n, "block")
  /\ ExtendsChain(n)
  /\ handler' = [handler EXCEPT ![n] = "extend"]
  /\ UNCHANGED << chainVars, nodeVars, semVars, ringVars, mainVars, newChain, index, serving,
                  threadVars, netVars >>

\* mutant of InstallBlock: the valid chain is not installed.
InstallNoBlock(n) ==
  /\ Handling(n, "extend")
  /\ pas_valide' = [pas_valide EXCEPT ![n] = 0]
  /\ Return(n)
  /\ UNCHANGED << chainVars, status, server_table, semVars, ringVars, mainVars, threadVars, udp >>

\* delete(blockchain); blockchain = newChain; pas_valide = 0
InstallBlock(n) ==
  /\ Handling(n, "extend")
  /\ blockchain' = [blockchain EXCEPT ![n] = newChain[n]]
  /\ pas_valide' = [pas_valide EXCEPT ![n] = 0]
  /\ Return(n)
  /\ UNCHANGED << status, server_table, semVars, ringVars, mainVars, threadVars, udp >>

\* mutant of BlockInvalid: the count may reach the limit.
BlockInvalidLate(n) ==
  /\ Handling(n, "block")
  /\ ~ExtendsChain(n)
  /\ pas_valide[n] + 1 <= InvalidLimit
  /\ pas_valide' = [pas_valide EXCEPT ![n] = @ + 1]
  /\ Return(n)
  /\ UNCHANGED << chainVars, status, server_table, semVars, ringVars, mainVars,
                  threadVars, udp >>

\* One rejection too many: the head of the table is asked for its chain.  An
\* empty table is a NULL pointer dereferenced, and the end of the process.
BlockInvalid(n) ==
  /\ Handling(n, "block")
  /\ ~ExtendsChain(n)
  /\ IF pas_valide[n] + 1 < InvalidLimit
       THEN /\ pas_valide' = [pas_valide EXCEPT ![n] = @ + 1]
            /\ Return(n)
            /\ UNCHANGED << status, udp >>
       ELSE /\ pas_valide' = [pas_valide EXCEPT ![n] = 0]
            /\ IF server_table[n] = << >>
                 THEN /\ status' = [status EXCEPT ![n] = "down"]
                      /\ UNCHANGED << rcfVars, netVars >>
                 ELSE /\ udp' = udp \cup {[header |-> "ASK_BLOCKCHAIN",
                                           to |-> Head(server_table[n]), node |-> n]}
                      /\ Return(n)
                      /\ UNCHANGED status
  /\ UNCHANGED << chainVars, server_table, semVars, ringVars, mainVars, threadVars >>

-----------------------------------------------------------------------------

PeerMessage(n) ==
  \/ ConnectReceived(n) \/ ShareServerReceived(n) \/ AskBlockchainReceived(n)

MainStep(n) == SendBlockchain(n) \/ AnswerBalance(n)

HandlerStep(n) ==
  \/ ReceiveBlockchain(n) \/ CheckBlockchain(n) \/ CompareSize(n)  \/ CompareDigest(n)
  \/ RequeueSize(n)       \/ RequeueBlock(n)    \/ OutOfRange(n)   \/ AdoptBlockchain(n)
  \/ ReceiveBlock(n)      \/ BlockValid(n)      \/ InstallBlock(n) \/ BlockInvalid(n)

ThreadStep(t) ==
  \/ WaitMining(t) \/ WaitBlockchain(t) \/ AddTransaction(t) \/ CheckPending(t)
  \/ MineCopy(t)   \/ CheckMined(t)     \/ CompareLengths(t) \/ CompareLastBlocks(t)
  \/ InstallMined(t) \/ ShareBlock(t) \/ PostSemaphores(t)

Next ==
  \/ \E n \in Node : \/ Start(n) \/ Stop(n) \/ AskBalance(n) \/ DecayQuality(n)
                     \/ PeerMessage(n) \/ MainStep(n) \/ HandlerStep(n)
                     \/ \E t \in Tx : TransactionReceived(n, t)
  \/ \E t \in Tx : ThreadStep(t)
  \/ \E c \in calls : CallFails(c)
  \/ \E m \in udp : LoseDatagram(m)

\* Threads that can run are scheduled.  A datagram that waits is received, the
\* socket being a queue, though main may have to answer others in between: hence
\* the strong fairness.  A call to a process that ended fails in the end.  Nothing
\* obliges a participant to send, or a process to start or to stop.
Fairness ==
  /\ \A n \in Node :
       SF_vars(PeerMessage(n)) /\ WF_vars(MainStep(n)) /\ WF_vars(HandlerStep(n))
  /\ \A t \in Tx : WF_vars(ThreadStep(t))
  /\ \A x \in Caller : WF_vars(\E c \in calls : c.caller = x /\ CallFails(c))

Safety == Init /\ [][Next]_vars
Spec == Safety /\ Fairness

-----------------------------------------------------------------------------

TypeOK ==
  /\ status \in [Node -> {"off", "up", "down"}]
  /\ blockchain \in [Node -> Ledger]
  /\ server_table \in [Node -> Seq(Node)]
  /\ sem_mining \in [Node -> {0, 1}]
  /\ sem_blockchain \in [Node -> {0, 1}]
  /\ nb_thread \in [Node -> 0..(Slots - 1)]
  /\ arg_mine \in [Node -> [0..(Slots - 1) -> Tx \cup {Nobody}]]
  /\ client_noeud \in [Node -> [Client -> Nat \cup {-1}]]
  /\ pas_valide \in [Node -> 0..(InvalidLimit - 1)]
  /\ main \in [Node -> {"loop", "balance", "send"}]
  /\ peer \in [Node -> Node \cup {Nobody}]
  /\ handler \in [Node -> {"idle", "chain", "compare", "digest", "requeue", "walk", "adopt",
                         "block", "extend"}]
  /\ newChain \in [Node -> Ledger]
  /\ index \in [Node -> Nat]
  /\ serving \in [Node -> Caller \cup {Nobody}]
  /\ pc \in [Tx -> {"idle", "start", "mining", "add", "size", "copy", "check", "length", "last",
                    "install", "share", "done"}]
  /\ home \in [Tx -> Node \cup {Nobody}]
  /\ slot \in [Tx -> 0..(Slots - 1)]
  /\ newBlockchain \in [Tx -> Ledger]
  /\ server \in [Tx -> Seq(Node)]
  /\ calls \subseteq Call
  /\ udp \subseteq Datagram

-----------------------------------------------------------------------------
(* What goes wrong in this program goes wrong around the pointer: the      *)
(* steps of main, of the mining threads and of the dispatch thread, in     *)
(* orders nobody wrote a test for.                                         *)

HoldsMining(t) == pc[t] \in {"mining", "add", "size", "copy", "check", "length", "last",
                            "install", "share"}
HoldsBlockchain(t) == HoldsMining(t) /\ pc[t] # "mining"

\* Each semaphore is held by at most one thread of the node, and is down
\* exactly when one holds it (threadMine, sem_wait and sem_post).
MutualExclusion ==
  \A n \in Node :
    LET threads == {t \in Tx : home[t] = n} IN
    /\ \A t, u \in threads : HoldsMining(t) /\ HoldsMining(u) => t = u
    /\ sem_mining[n] = 0 <=> \E t \in threads : HoldsMining(t)
    /\ sem_blockchain[n] = 0 <=> \E t \in threads : HoldsBlockchain(t)

GoodChain(chain) == chain # << >> /\ IsChainValid(chain)

\* Whatever the interleaving of the three writers of the pointer, the chain of
\* a node is valid, and so are the chains about to replace it and those on their
\* way to another node.
ChainsValid ==
  /\ \A n \in Node : GoodChain(blockchain[n].chain)
  /\ \A t \in Tx : pc[t] \in {"check", "length", "last", "install"} =>
       GoodChain(newBlockchain[t].chain)
  /\ \A n \in Node : handler[n] \notin {"idle", "block"} => GoodChain(newChain[n].chain)
  /\ \A c \in calls : c.procedure = "sendBlockchain" => GoodChain(c.chain)

\* A server table names each peer once, and never its owner, although three
\* places insert into it (main, CONNECT, SHARE_SERVER) and insert_server does
\* not look.
PeersDistinct ==
  \A n \in Node :
    /\ IsInjective(server_table[n])
    /\ ~Known(n, n)

\* What a ledger carries: block by block, and, as block 0, what is pending.
Carried(ledger, i) == IF i = 0 THEN ledger.pending ELSE ledger.chain[i].transactions

\* Where it carries a transaction: the block, and the place in it.
Places(ledger, tx) ==
  {place \in UNION {{i} \X (1..Len(Carried(ledger, i))) : i \in 0..Len(ledger.chain)} :
     Carried(ledger, place[1])[place[2]] = tx}

\* How often a node has a transaction, on its chain or pending.
Times(n, tx) == Cardinality(Places(blockchain[n], tx))

Queued(t) == pc[t] \in {"size", "copy", "check", "length", "last", "install", "share", "done"}

\* A payment is on the chain or pending at the node that took it, exactly once,
\* from the moment its thread has queued it, through every copy and swap of the
\* pointer by the other threads of the node.
PaymentsOnce ==
  \A t \in Tx : home[t] # Nobody =>
    Times(home[t], Payment(t)) = (IF Queued(t) THEN 1 ELSE 0)

\* No node has a payment both pending and on its chain, or twice on either: when a
\* chain is adopted, what is queued again is not on it (sendBlockchain).  The code
\* does not look, and so it fails: a block that was sent on and then replaced may be
\* mined again and come back in a chain that has it.
CountedOnce == \A n \in Node, t \in Tx : Times(n, Payment(t)) <= 1

\* A payment that was queued is never forgotten by a node that still runs.
PaymentsKept ==
  \A t \in Tx : Queued(t) /\ Up(home[t]) => Times(home[t], Payment(t)) > 0

\* A block is mined once `Threshold' transactions are pending, so it has as many.
BlocksFull ==
  \A n \in Node : \A i \in 2..Len(blockchain[n].chain) :
    Len(blockchain[n].chain[i].transactions) >= Threshold

\* When every thread of a node has ended, too little is pending for a block.
PendingMined ==
  \A n \in Node :
    (\A t \in Tx : home[t] = n => pc[t] = "done")
      => Len(blockchain[n].pending) < Threshold

Miners == UNION {Target[t] : t \in Tx}

\* Where one node does all the mining, the others hold its chain, or its chain
\* without the last block: a block is with every peer before the next is begun.
FollowersTrail ==
  \A m \in Miners, n \in Node :
    LET chain == blockchain[n].chain
        ahead == blockchain[m].chain
    IN IsPrefix(chain, ahead) /\ Len(ahead) <= Len(chain) + 1

\* A step never makes the chain of a running node shorter.
NeverShrinks ==
  [][\A n \in Node : Up(n) => Len(blockchain'[n].chain) >= Len(blockchain[n].chain)]_vars

\* A node that takes no payments itself never replaces its chain by a shorter one: the
\* handlers alone write its pointer, one after the other, and what sendBlock and
\* sendBlockchain compared with is what they replace.
Follows(n) == n \notin Miners

FollowersGrow ==
  [][\A n \in Node : Follows(n) /\ Up(n) =>
       Len(blockchain[n].chain) <= Len(blockchain'[n].chain)]_vars

\* The blocks of a chain that another one has not, by their digests.
Missing(mine, theirs) ==
  {i \in 1..Len(mine) : i > Len(theirs) \/ mine[i].hash # theirs[i].hash}

\* When such a node adopts a chain, what it has pending afterwards is what was in the
\* blocks of its own that the adopted chain has not: nothing mined is lost, and
\* nothing of a shared block comes again, though sendBlockchain looks for the fork
\* once and then walks to the end of its chain block by block.
FollowersRequeue ==
  [][\A n \in Node : Follows(n) /\ AdoptBlockchain(n) =>
       LET mine == blockchain[n].chain IN
       ToSet(blockchain'[n].pending) =
         UNION {ToSet(mine[i].transactions) : i \in Missing(mine, blockchain'[n].chain)}]_vars

\* The block a thread sends to a peer is one that carries its payment, the last
\* it queued before mining.
SharesOwnBlock ==
  \A c \in calls : c.procedure = "sendBlock" => Payment(c.caller) \in ToSet(c.block.transactions)

\* Running nodes with no block or chain under way hold the same chain.  A thread cut short
\* in a process that stopped is under way for ever: nothing is said once it is.
Quiet ==
  /\ calls = {} /\ udp = {}
  /\ \A n \in Node : main[n] # "send"
  /\ \A t \in Tx : pc[t] \in {"idle", "done"}

Agreement ==
  Quiet => \A m, n \in Node : Up(m) /\ Up(n) => blockchain[m].chain = blockchain[n].chain

\* A node that takes no payments never throws at a caller: what it compares and queues is
\* there, because nobody else writes its pointer between the reads of the length and
\* of the block.
FollowersServe == \A n \in Node : Follows(n) => ~Beyond(n)

\* Whatever becomes of some nodes, one that nobody interrupts or kills runs on: what one
\* process throws, or is missing, does not end the network.
NetworkSurvives == \E n \in Node \ MayStop : status[n] # "down"

\* The process a caller ran in has ended.
Ended(x) == HomeOf(x) \in Node /\ ~Up(HomeOf(x))

\* Every thread that was started ends, or its process does (it queues for both
\* semaphores, and calls every peer while it holds them).
ThreadsEnd == \A t \in Tx : pc[t] = "start" ~> pc[t] = "done" \/ Ended(t)

\* main and the threads get out of every remote call, with an answer or an exception:
\* no cycle of nodes waits on itself, because a handler waits for nothing.
CallsReturn == \A x \in Caller : Waiting(x) ~> ~Waiting(x) \/ Ended(x)

\* main gets the semaphore and answers, however many blocks are being mined, unless
\* the process ends.
BalanceAnswered == \A n \in Node : main[n] = "balance" ~> main[n] = "loop" \/ Ended(n)

=============================================================================
