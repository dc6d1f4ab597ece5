-------------------------- MODULE NoeudBlocProofs --------------------------
(***************************************************************************)
(* Proofs about NoeudBloc, for any number of nodes and payments and any    *)
(* value of the limits.                                                    *)
(***************************************************************************)
EXTENDS NoeudBloc, SequenceTheorems, FiniteSetTheorems, TLAPS

-----------------------------------------------------------------------------
(* What the operators of Blockchain preserve.                              *)

LEMMA TransactionTypes ==
  /\ \A t \in Tx : Payment(t) \in Transaction /\ Bonus(t) \in Transaction
  /\ \A n \in Node : Reward(n) \in Transaction
BY DEF Payment, Bonus, Reward, Transaction

LEMMA NewBlockType ==
  ASSUME NEW ts \in Time, NEW txs \in Seq(Transaction), NEW h \in Hash
  PROVE  /\ NewBlock(ts, txs, h) \in Block
         /\ NewBlock(ts, txs, h).previousHash = h
         /\ NewBlock(ts, txs, h).hash = CalculateHash(NewBlock(ts, txs, h))
<1> DEFINE content == [timestamp |-> ts, transactions |-> txs]
<1>1. content \in Content
  BY DEF Content
<1>2. Append(h, content) \in Hash
  BY <1>1 DEF Hash
<1> QED
  BY <1>2 DEF NewBlock, Block, CalculateHash, ContentOf

LEMMA NewLedgerGood ==
  ASSUME NEW ts \in Time
  PROVE  NewLedger(ts) \in Ledger /\ GoodChain(NewLedger(ts).chain)
<1>1. << >> \in Seq(Transaction) /\ << >> \in Hash
  BY DEF Hash
<1>2. CreateGenesisBlock(ts) \in Block
  BY <1>1, NewBlockType DEF CreateGenesisBlock
<1> QED
  BY <1>1, <1>2 DEF NewLedger, Ledger, GoodChain, IsChainValid

LEMMA LatestBlockType ==
  ASSUME NEW chain \in Seq(Block), chain # << >>
  PROVE  GetLatestBlock(chain) \in Block /\ GetLatestBlock(chain).hash \in Hash
<1>1. Len(chain) \in 1..Len(chain)
  OBVIOUS
<1>2. chain[Len(chain)] \in Block
  BY <1>1, ElementOfSeq
<1> QED
  BY <1>2 DEF GetLatestBlock, Block

\* A mined block extends a valid chain to a valid chain, one longer.
LEMMA MiningGood ==
  ASSUME NEW ledger \in Ledger, GoodChain(ledger.chain),
         NEW ts \in Time, NEW reward \in Transaction
  PROVE  /\ MinePendingTransactions(ledger, ts, reward) \in Ledger
         /\ GoodChain(MinePendingTransactions(ledger, ts, reward).chain)
<1> DEFINE chain == ledger.chain
           block == NewBlock(ts, ledger.pending, GetLatestBlock(chain).hash)
           longer == Append(chain, block)
<1>1. chain \in Seq(Block) /\ ledger.pending \in Seq(Transaction) /\ Len(chain) \in Nat \ {0}
  BY DEF Ledger, GoodChain
<1>2. GetLatestBlock(chain).hash \in Hash
  BY <1>1, LatestBlockType
<1>3. /\ block \in Block
      /\ block.previousHash = GetLatestBlock(chain).hash
      /\ block.hash = CalculateHash(block)
  BY <1>1, <1>2, NewBlockType
<1> HIDE DEF block
<1>4. longer \in Seq(Block) /\ Len(longer) = Len(chain) + 1
      /\ longer[Len(chain) + 1] = block /\ \A i \in 1..Len(chain) : longer[i] = chain[i]
  BY <1>1, <1>3
<1> HIDE DEF longer
<1>5. IsChainValid(longer)
  <2> SUFFICES ASSUME NEW i \in 2..Len(longer)
               PROVE  /\ longer[i].hash = CalculateHash(longer[i])
                      /\ longer[i].previousHash = longer[i - 1].hash
    BY DEF IsChainValid
  <2>1. CASE i = Len(chain) + 1
    BY <2>1, <1>1, <1>3, <1>4 DEF GetLatestBlock
  <2>2. CASE i \in 2..Len(chain)
    <3>1. i \in 1..Len(chain) /\ i - 1 \in 1..Len(chain)
      BY <2>2, <1>1
    <3> QED
      BY <2>2, <3>1, <1>4 DEF GoodChain, IsChainValid
  <2> QED
    BY <2>1, <2>2, <1>1, <1>4
<1>6. MinePendingTransactions(ledger, ts, reward) = [chain |-> longer, pending |-> << reward >>]
  BY DEF MinePendingTransactions, longer, block
<1> QED
  BY <1>1, <1>4, <1>5, <1>6 DEF GoodChain, Ledger

LEMMA CreateTransactionType ==
  ASSUME NEW ledger \in Ledger, NEW tx \in Transaction
  PROVE  /\ CreateTransaction(ledger, tx) \in Ledger
         /\ CreateTransaction(ledger, tx).chain = ledger.chain
<1>1. ledger.pending \in Seq(Transaction) /\ ledger.chain \in Seq(Block)
  BY DEF Ledger
<1>2. Append(ledger.pending, tx) \in Seq(Transaction)
  BY <1>1
<1> QED
  BY <1>1, <1>2 DEF CreateTransaction, Ledger

LEMMA LedgerFields ==
  ASSUME NEW ledger \in Ledger
  PROVE  /\ \A c \in Seq(Block) : /\ [ledger EXCEPT !.chain = c] \in Ledger
                                  /\ [ledger EXCEPT !.chain = c].chain = c
         /\ \A p \in Seq(Transaction) :
              /\ [ledger EXCEPT !.pending = p] \in Ledger
              /\ [ledger EXCEPT !.pending = p].chain = ledger.chain
BY DEF Ledger

\* insert_server, at the head.
LEMMA InsertType ==
  ASSUME NEW table \in Seq(Node), NEW m \in Node
  PROVE  << m >> \o table \in Seq(Node)
<1>1. << m >> \in Seq(Node)
  OBVIOUS
<1> QED
  BY <1>1, ConcatProperties

-----------------------------------------------------------------------------
(* The inductive invariant of Safety: types, what the threads point to, and *)
(* the validity of every chain.                                            *)

\* A thread that was started has a node, and its slot there holds a payment;
\* main knows whom it answers; the scans of sendBlockchain have an index.
Wiring ==
  /\ \A t \in Tx : pc[t] # "idle" =>
       /\ home[t] \in Node
       /\ arg_mine[home[t]][slot[t]] \in Tx
  /\ \A n \in Node : main[n] = "send" => peer[n] \in Node
  /\ \A n \in Node : handler[n] \in {"compare", "digest", "requeue", "walk"}
                       => index[n] \in Nat \ {0}

IInv == TypeOK /\ Wiring /\ ChainsValid

LEMMA NoLedgerType == NoLedger \in Ledger
BY DEF NoLedger, Ledger

LEMMA InitInv == Init => IInv
<1> SUFFICES ASSUME Init PROVE IInv
  OBVIOUS
<1> PICK ts \in Time : Init!(ts)
  BY DEF Init
<1>1. NewLedger(ts) \in Ledger /\ GoodChain(NewLedger(ts).chain)
  BY NewLedgerGood
<1>2. Slots \in Nat \ {0} /\ InvalidLimit \in Nat \ {0}
  BY Limits
<1>3. \A n \in Mesh : InitialTable[n] \in Seq(Node)
  BY Deployment
<1>4. TypeOK
  BY <1>1, <1>2, <1>3, NoLedgerType DEF TypeOK
<1>5. Wiring
  BY DEF Wiring
<1>6. ChainsValid
  BY <1>1 DEF ChainsValid
<1> QED
  BY <1>4, <1>5, <1>6 DEF IInv

-----------------------------------------------------------------------------
(* Types.                                                                  *)

LEMMA UnchangedType == TypeOK /\ UNCHANGED vars => TypeOK'
BY DEF TypeOK, vars, chainVars, nodeVars, semVars, ringVars, mainVars, rcfVars,
       threadVars, netVars

LEMMA ProcessTypes ==
  ASSUME IInv
  PROVE  /\ \A n \in Node : Start(n) \/ Stop(n) => TypeOK'
         /\ \A c \in calls : CallFails(c) => TypeOK'
         /\ \A m \in udp : LoseDatagram(m) => TypeOK'
<1> USE DEF IInv, TypeOK, chainVars, nodeVars, semVars, ringVars, mainVars, rcfVars,
            threadVars, netVars
<1>1. ASSUME NEW n \in Node, Start(n) PROVE TypeOK'
  <2>1. PICK ts \in Time : blockchain' = [blockchain EXCEPT ![n] = NewLedger(ts)]
    BY <1>1 DEF Start
  <2>2. blockchain' \in [Node -> Ledger]
    BY <2>1, NewLedgerGood
  <2>3. Peer[n] # Nobody => Peer[n] \in Node /\ << Peer[n] >> \o server_table[n] \in Seq(Node)
    BY Deployment, InsertType
  <2>4. server_table' \in [Node -> Seq(Node)]
    BY <1>1, <2>3 DEF Start
  <2>5. udp' \subseteq Datagram
    BY <1>1, <2>3 DEF Start, Datagram
  <2> QED
    BY <1>1, <2>2, <2>4, <2>5 DEF Start
<1>2. ASSUME NEW n \in Node, Stop(n) PROVE TypeOK'
  BY <1>2 DEF Stop
<1>3. ASSUME NEW c \in calls, CallFails(c) PROVE TypeOK'
  BY <1>3 DEF CallFails
<1>4. ASSUME NEW m \in udp, LoseDatagram(m) PROVE TypeOK'
  BY <1>4 DEF LoseDatagram
<1> QED
  BY <1>1, <1>2, <1>3, <1>4

LEMMA MainTypes ==
  ASSUME IInv, NEW n \in Node
  PROVE  /\ \A t \in Tx : TransactionReceived(n, t) => TypeOK'
         /\ AskBalance(n) \/ DecayQuality(n) \/ PeerMessage(n) \/ MainStep(n) => TypeOK'
<1> USE DEF IInv, TypeOK, chainVars, nodeVars, semVars, ringVars, mainVars, rcfVars,
            threadVars, netVars
<1>1. ASSUME NEW t \in Tx, TransactionReceived(n, t) PROVE TypeOK'
  <2> DEFINE next == (nb_thread[n] + 1) % Slots
  <2>1. next \in 0..(Slots - 1)
    BY Limits
  <2>2. CreateTransaction(blockchain[n], Bonus(t)) \in Ledger
    BY TransactionTypes, CreateTransactionType
  <2>3. blockchain' \in [Node -> Ledger]
    BY <1>1, <2>2 DEF TransactionReceived
  <2>4. client_noeud' \in [Node -> [Client -> Nat \cup {-1}]]
    <3>1. ClientOf[t] \in Client
      BY Participants
    <3>2. client_noeud[n][ClientOf[t]] \in Nat \cup {-1}
      BY <3>1
    <3> QED
      BY <1>1, <3>1, <3>2 DEF TransactionReceived
  <2>5. nb_thread' \in [Node -> 0..(Slots - 1)] /\ slot' \in [Tx -> 0..(Slots - 1)]
    BY <1>1, <2>1 DEF TransactionReceived
  <2>6. arg_mine' \in [Node -> [0..(Slots - 1) -> Tx \cup {Nobody}]]
    BY <1>1, <2>1 DEF TransactionReceived
  <2> QED
    BY <1>1, <2>3, <2>4, <2>5, <2>6 DEF TransactionReceived
<1>2. ASSUME AskBalance(n) PROVE TypeOK'
  BY <1>2 DEF AskBalance
<1>3. ASSUME DecayQuality(n) PROVE TypeOK'
  BY <1>3 DEF DecayQuality
<1>4. ASSUME ConnectReceived(n) PROVE TypeOK'
  <2>1. PICK m \in udp : ConnectReceived(n)!2!(m)
    BY <1>4 DEF ConnectReceived
  <2>2. m.node \in Node /\ << m.node >> \o server_table[n] \in Seq(Node)
    BY InsertType DEF Datagram
  <2>3. server_table' \in [Node -> Seq(Node)] /\ peer' \in [Node -> Node \cup {Nobody}]
    <3>1. CASE Unknown(n, m.node)
      <4>1. /\ server_table' = [server_table EXCEPT ![n] = << m.node >> \o @]
            /\ peer' = [peer EXCEPT ![n] = m.node]
        BY <2>1, <3>1
      <4> QED
        BY <2>2, <4>1
    <3>2. CASE ~Unknown(n, m.node)
      BY <2>1, <3>2
    <3> QED
      BY <3>1, <3>2
  <2>4. ToSet(server_table[n]) \subseteq Node
    BY DEF ToSet
  <2>5. udp' \subseteq Datagram
    BY <2>1, <2>2, <2>4, SMTT(30) DEF Datagram, Introduce
  <2> QED
    BY <1>4, <2>1, <2>3, <2>5, ZenonT(60) DEF ConnectReceived
<1>5. ASSUME ShareServerReceived(n) PROVE TypeOK'
  <2>1. PICK m \in udp : ShareServerReceived(n)!2!(m)
    BY <1>5 DEF ShareServerReceived
  <2>2. m.node \in Node /\ << m.node >> \o server_table[n] \in Seq(Node)
    BY InsertType DEF Datagram
  <2>3. server_table' \in [Node -> Seq(Node)]
    BY <2>1, <2>2
  <2>4. udp' \subseteq Datagram
    BY <2>1, <2>2 DEF Datagram
  <2> QED
    BY <1>5, <2>3, <2>4, ZenonT(60) DEF ShareServerReceived
<1>6. ASSUME AskBlockchainReceived(n) PROVE TypeOK'
  BY <1>6, SMTT(30) DEF AskBlockchainReceived, Datagram
<1>7. ASSUME SendBlockchain(n) PROVE TypeOK'
  <2>1. blockchain[n].chain \in Seq(Block) /\ peer[n] \in Node /\ n \in Caller
    BY <1>7 DEF SendBlockchain, Wiring, Caller, Ledger
  <2>2. calls' \subseteq Call
    BY <1>7, <2>1 DEF SendBlockchain, Call
  <2> QED
    BY <1>7, <2>2 DEF SendBlockchain
<1>8. ASSUME AnswerBalance(n) PROVE TypeOK'
  BY <1>8 DEF AnswerBalance
<1> QED
  BY <1>1, <1>2, <1>3, <1>4, <1>5, <1>6, <1>7, <1>8 DEF PeerMessage, MainStep

LEMMA ThreadTypes ==
  ASSUME IInv, NEW t \in Tx, ThreadStep(t)
  PROVE  TypeOK'
<1> USE DEF IInv, TypeOK, chainVars, nodeVars, semVars, ringVars, mainVars, rcfVars,
            threadVars, netVars
<1> DEFINE n == home[t]
<1>0. pc[t] # "idle" => n \in Node /\ blockchain[n] \in Ledger /\ GoodChain(blockchain[n].chain)
  BY DEF Wiring, ChainsValid
<1>1. CASE WaitMining(t)
  BY <1>1 DEF WaitMining
<1>2. CASE WaitBlockchain(t)
  BY <1>2 DEF WaitBlockchain
<1>3. CASE AddTransaction(t)
  <2> DEFINE tx == Payment(arg_mine[n][slot[t]])
  <2>1. n \in Node /\ tx \in Transaction
    BY <1>3, TransactionTypes DEF AddTransaction, At, Wiring
  <2>2. CreateTransaction(blockchain[n], tx) \in Ledger
    BY <2>1, CreateTransactionType
  <2>3. blockchain' \in [Node -> Ledger]
    BY <1>3, <2>2 DEF AddTransaction
  <2> QED
    BY <1>3, <2>3 DEF AddTransaction
<1>4. CASE MineCopy(t)
  <2>1. n \in Node /\ blockchain[n] \in Ledger /\ GoodChain(blockchain[n].chain)
    BY <1>4, <1>0 DEF MineCopy, At
  <2>2. newBlockchain' \in [Tx -> Ledger]
    BY <1>4, <2>1, MiningGood, TransactionTypes DEF MineCopy
  <2> QED
    BY <1>4, <2>2 DEF MineCopy
<1>5. CASE CheckMined(t)
  <2>1. newBlockchain' \in [Tx -> Ledger]
    BY <1>5, NoLedgerType DEF CheckMined, Dropped
  <2> QED
    BY <1>5, <2>1 DEF CheckMined, Dropped
<1>6. CASE InstallMined(t)
  <2>1. newBlockchain' \in [Tx -> Ledger]
    BY <1>6, NoLedgerType DEF InstallMined
  <2>2. n \in Node
    BY <1>6, <1>0 DEF InstallMined, At
  <2> QED
    BY <1>6, <2>1, <2>2 DEF InstallMined
<1>7. CASE ShareBlock(t)
  <2>1. n \in Node /\ GetLatestBlock(blockchain[n].chain) \in Block
    BY <1>7, <1>0, LatestBlockType DEF ShareBlock, At, GoodChain, Ledger
  <2>2. Head(server[t]) \in Node /\ Tail(server[t]) \in Seq(Node)
    BY <1>7, HeadTailProperties DEF ShareBlock
  <2>3. [procedure |-> "sendBlock", caller |-> t, to |-> Head(server[t]),
         block |-> GetLatestBlock(blockchain[n].chain)] \in Call
    BY <2>1, <2>2 DEF Call, Caller
  <2>4. server' \in [Tx -> Seq(Node)]
    BY <1>7, <2>2 DEF ShareBlock
  <2> QED
    BY <1>7, <2>3, <2>4 DEF ShareBlock
<1>8. CASE PostSemaphores(t)
  BY <1>8 DEF PostSemaphores
<1>9. CASE CheckPending(t)
  BY <1>9 DEF CheckPending
<1>10. CASE CompareLengths(t) \/ CompareLastBlocks(t)
  <2>1. newBlockchain' \in [Tx -> Ledger]
    BY <1>10, NoLedgerType DEF CompareLengths, CompareLastBlocks, Dropped
  <2> QED
    BY <1>10, <2>1 DEF CompareLengths, CompareLastBlocks, Dropped
<1> QED
  BY <1>1, <1>2, <1>3, <1>4, <1>5, <1>6, <1>7, <1>8, <1>9, <1>10 DEF ThreadStep

LEMMA ReturnTypes ==
  ASSUME TypeOK, NEW n \in Node, Return(n)
  PROVE  /\ handler' \in [Node -> {"idle", "chain", "compare", "digest", "requeue", "walk", "adopt",
                                "block", "extend"}]
         /\ newChain' \in [Node -> Ledger]
         /\ index' \in [Node -> Nat]
         /\ serving' \in [Node -> Caller \cup {Nobody}]
         /\ calls' \subseteq Call
BY NoLedgerType DEF TypeOK, Return

LEMMA HandlerTypes ==
  ASSUME IInv, NEW n \in Node, HandlerStep(n)
  PROVE  TypeOK'
<1> USE DEF chainVars, nodeVars, semVars, ringVars, mainVars, rcfVars, threadVars, netVars
<1>0. TypeOK
  BY DEF IInv
<1> USE <1>0
<1>1. CASE ReceiveBlockchain(n)
  <2>1. PICK c \in calls : ReceiveBlockchain(n)!2!(c)
    BY <1>1 DEF ReceiveBlockchain
  <2>2. c.chain \in Seq(Block) /\ c.caller \in Caller
    BY <2>1 DEF TypeOK, Call
  <2>3. Received(c.chain) \in Ledger
    BY <2>2 DEF Received, Ledger
  <2> QED
    BY <1>1, <2>1, <2>2, <2>3 DEF ReceiveBlockchain, TypeOK
<1>2. CASE CheckBlockchain(n)
  <2>1. CASE Return(n)
    BY <1>2, <2>1, ReturnTypes, SMTT(30) DEF CheckBlockchain, TypeOK
  <2>2. CASE ~Return(n)
    <3>1. /\ handler' = [handler EXCEPT ![n] = "compare"]
          /\ index' = [index EXCEPT ![n] = 1]
          /\ UNCHANGED << newChain, serving, calls >>
      BY <1>2, <2>2 DEF CheckBlockchain
    <3> QED
      BY <1>2, <3>1 DEF CheckBlockchain, TypeOK
  <2> QED
    BY <2>1, <2>2
<1>3. CASE RequeueBlock(n)
  <2>1. index[n] \in 1..Len(blockchain[n].chain)
    BY <1>3 DEF RequeueBlock, Handling, Beyond, IInv, Wiring, TypeOK, Ledger
  <2>2. blockchain[n].chain[index[n]] \in Block
    BY <2>1, ElementOfSeq DEF TypeOK, Ledger
  <2> DEFINE requeued == newChain[n].pending \o blockchain[n].chain[index[n]].transactions
  <2>3. requeued \in Seq(Transaction)
    BY <2>2, ConcatProperties DEF TypeOK, Ledger, Block
  <2>4. [newChain[n] EXCEPT !.pending = requeued] \in Ledger
    BY <2>3, LedgerFields DEF TypeOK
  <2>5. newChain' = [newChain EXCEPT ![n] = [newChain[n] EXCEPT !.pending = requeued]]
    BY <1>3 DEF RequeueBlock
  <2>6. newChain' \in [Node -> Ledger]
    BY <2>4, <2>5 DEF TypeOK
  <2>7. index' \in [Node -> Nat]
    BY <1>3 DEF RequeueBlock, TypeOK
  <2> QED
    BY <1>3, <2>6, <2>7 DEF RequeueBlock, TypeOK
<1>4. CASE CompareSize(n) \/ RequeueSize(n)
  BY <1>4 DEF CompareSize, RequeueSize, TypeOK
<1>5. CASE AdoptBlockchain(n)
  <2>1. Return(n)
    BY <1>5 DEF AdoptBlockchain
  <2> QED
    BY <1>5, <2>1, ReturnTypes DEF AdoptBlockchain, TypeOK
<1>6. CASE ReceiveBlock(n)
  <2>1. PICK c \in calls : ReceiveBlock(n)!2!(c)
    BY <1>6 DEF ReceiveBlock
  <2>2. c.block \in Block /\ c.caller \in Caller
    BY <2>1 DEF TypeOK, Call
  <2>3. Append(blockchain[n].chain, c.block) \in Seq(Block)
    BY <2>2 DEF TypeOK, Ledger
  <2>4. [blockchain[n] EXCEPT !.chain = Append(@, c.block)] \in Ledger
    BY <2>3, LedgerFields DEF TypeOK
  <2> QED
    BY <1>6, <2>1, <2>2, <2>4 DEF ReceiveBlock, TypeOK
<1>7. CASE BlockValid(n)
  BY <1>7 DEF BlockValid, TypeOK
<1>8. CASE InstallBlock(n)
  <2>1. Return(n)
    BY <1>8 DEF InstallBlock
  <2>2. 0 \in 0..(InvalidLimit - 1)
    BY Limits
  <2> QED
    BY <1>8, <2>1, <2>2, ReturnTypes DEF InstallBlock, TypeOK
<1>9. CASE BlockInvalid(n)
  <2>1. pas_valide' \in [Node -> 0..(InvalidLimit - 1)]
    <3> DEFINE range == 0..(InvalidLimit - 1)
    <3>1. 0 \in range /\ pas_valide \in [Node -> range]
      BY Limits DEF TypeOK
    <3>2. pas_valide[n] + 1 < InvalidLimit => pas_valide[n] + 1 \in range
      BY <3>1, Limits
    <3> HIDE DEF range
    <3>3. \/ pas_valide' = [pas_valide EXCEPT ![n] = 0]
          \/ /\ pas_valide[n] + 1 < InvalidLimit
             /\ pas_valide' = [pas_valide EXCEPT ![n] = pas_valide[n] + 1]
      BY <1>9 DEF BlockInvalid
    <3>4. pas_valide' \in [Node -> range]
      BY <3>1, <3>2, <3>3
    <3> QED
      BY <3>4 DEF range
  <2>2. udp' \subseteq Datagram
    <3>1. server_table[n] # << >> => Head(server_table[n]) \in Node
      BY HeadTailProperties DEF TypeOK
    <3> QED
      BY <1>9, <3>1 DEF BlockInvalid, TypeOK, Datagram
  <2>3. CASE Return(n)
    BY <1>9, <2>1, <2>2, <2>3, ReturnTypes DEF BlockInvalid, TypeOK
  <2>4. CASE ~Return(n)
    BY <1>9, <2>1, <2>2, <2>4 DEF BlockInvalid, TypeOK
  <2> QED
    BY <2>3, <2>4
<1>10. CASE CompareDigest(n)
  <2>1. \/ /\ handler' = [handler EXCEPT ![n] = "compare"]
           /\ index' = [index EXCEPT ![n] = index[n] + 1]
        \/ handler' = [handler EXCEPT ![n] = "requeue"] /\ UNCHANGED index
    BY <1>10 DEF CompareDigest
  <2>2. index' \in [Node -> Nat]
    <3>1. index \in [Node -> Nat] /\ index[n] + 1 \in Nat
      BY DEF TypeOK
    <3> QED
      BY <2>1, <3>1
  <2>3. handler' \in [Node -> {"idle", "chain", "compare", "digest", "requeue", "walk", "adopt",
                                "block", "extend"}]
    BY <2>1 DEF TypeOK
  <2> QED
    BY <1>10, <2>2, <2>3, ZenonT(60) DEF CompareDigest, TypeOK
<1>11. CASE OutOfRange(n)
  <2>1. Return(n)
    BY <1>11 DEF OutOfRange
  <2> QED
    BY <1>11, <2>1, ReturnTypes DEF OutOfRange, TypeOK
<1> QED
  BY <1>1, <1>2, <1>3, <1>4, <1>5, <1>6, <1>7, <1>8, <1>9, <1>10, <1>11 DEF HandlerStep

-----------------------------------------------------------------------------
(* Wiring.                                                                 *)

LEMMA WiringStep ==
  ASSUME IInv, Next
  PROVE  Wiring'
<1> USE DEF IInv, chainVars, nodeVars, semVars, ringVars, mainVars, rcfVars, threadVars, netVars
<1>1. ASSUME NEW n \in Node, Start(n) \/ Stop(n) \/ AskBalance(n) \/ DecayQuality(n)
      PROVE  Wiring'
  BY <1>1 DEF Start, Stop, AskBalance, DecayQuality, Wiring, TypeOK
<1>2. ASSUME NEW n \in Node, NEW t \in Tx, TransactionReceived(n, t)
      PROVE  Wiring'
  <2> DEFINE next == (nb_thread[n] + 1) % Slots
  <2>1. next \in 0..(Slots - 1)
    BY Limits DEF TypeOK
  <2>2. /\ arg_mine' = [arg_mine EXCEPT ![n][next] = t]
        /\ pc' = [pc EXCEPT ![t] = "start"]
        /\ home' = [home EXCEPT ![t] = n]
        /\ slot' = [slot EXCEPT ![t] = next]
    BY <1>2 DEF TransactionReceived
  <2> HIDE DEF next
  <2>3. arg_mine'[n][next] = t
    BY <2>1, <2>2 DEF TypeOK
  <2>4. \A m \in Node, i \in 0..(Slots - 1) : arg_mine[m][i] \in Tx => arg_mine'[m][i] \in Tx
    BY <2>1, <2>2 DEF TypeOK
  <2>5. ASSUME NEW u \in Tx, pc'[u] # "idle"
        PROVE  home'[u] \in Node /\ arg_mine'[home'[u]][slot'[u]] \in Tx
    <3>1. CASE u = t
      BY <2>2, <2>3, <3>1 DEF TypeOK
    <3>2. CASE u # t
      BY <2>2, <2>4, <2>5, <3>2 DEF TypeOK, Wiring
    <3> QED
      BY <3>1, <3>2
  <2> QED
    BY <1>2, <2>5 DEF TransactionReceived, Wiring
<1>3. ASSUME NEW n \in Node, PeerMessage(n)
      PROVE  Wiring'
  <2>1. CASE ConnectReceived(n)
    <3>1. PICK m \in udp : ConnectReceived(n)!2!(m)
      BY <2>1 DEF ConnectReceived
    <3>2. m.node \in Node
      BY DEF TypeOK, Datagram
    <3>3. UNCHANGED << pc, home, slot, arg_mine, handler, index >>
      BY <2>1 DEF ConnectReceived
    <3>4. \A k \in Node : main'[k] = "send" => peer'[k] \in Node
      BY <3>1, <3>2, ZenonT(60) DEF Wiring, TypeOK
    <3> QED
      BY <3>3, <3>4 DEF Wiring
  <2>2. CASE ShareServerReceived(n)
    BY <2>2 DEF ShareServerReceived, Wiring, TypeOK
  <2>3. CASE AskBlockchainReceived(n)
    <3>1. PICK m \in udp : AskBlockchainReceived(n)!2!(m)
      BY <2>3 DEF AskBlockchainReceived
    <3>2. m.node \in Node
      BY DEF TypeOK, Datagram
    <3>3. UNCHANGED << pc, home, slot, arg_mine, handler, index >>
      BY <2>3 DEF AskBlockchainReceived
    <3>4. \A k \in Node : main'[k] = "send" => peer'[k] \in Node
      BY <3>1, <3>2 DEF Wiring, TypeOK
    <3> QED
      BY <3>3, <3>4 DEF Wiring
  <2> QED
    BY <1>3, <2>1, <2>2, <2>3 DEF PeerMessage
<1>4. ASSUME NEW n \in Node, MainStep(n)
      PROVE  Wiring'
  <2>1. UNCHANGED << pc, home, slot, arg_mine, handler, index >>
    BY <1>4 DEF MainStep, SendBlockchain, AnswerBalance
  <2>2. \A k \in Node : main'[k] = "send" => main[k] = "send" /\ peer'[k] = peer[k]
    <3>1. main \in [Node -> {"loop", "balance", "send"}] /\ peer \in [Node -> Node \cup {Nobody}]
      BY DEF TypeOK
    <3>2. CASE SendBlockchain(n)
      BY <3>1, <3>2 DEF SendBlockchain
    <3>3. CASE AnswerBalance(n)
      BY <3>1, <3>3 DEF AnswerBalance
    <3> QED
      BY <1>4, <3>2, <3>3 DEF MainStep
  <2> QED
    BY <2>1, <2>2 DEF Wiring
<1>5. ASSUME NEW n \in Node, HandlerStep(n)
      PROVE  Wiring'
  <2>0. UNCHANGED << pc, home, slot, arg_mine, main, peer >>
    BY <1>5 DEF HandlerStep, ReceiveBlockchain, CheckBlockchain, CompareSize, CompareDigest,
                RequeueSize, RequeueBlock, OutOfRange, AdoptBlockchain, ReceiveBlock,
                BlockValid, InstallBlock, BlockInvalid
  <2> DEFINE scans == {"compare", "digest", "requeue", "walk"}
  <2>1. /\ DOMAIN handler = Node /\ index \in [Node -> Nat]
        /\ \A k \in Node : handler[k] \in scans => index[k] \in Nat \ {0}
    BY DEF TypeOK, Wiring
  <2>2. \A k \in Node : handler'[k] \in scans => index'[k] \in Nat \ {0}
    <3>1. CASE Return(n)
      BY <2>1, <3>1 DEF Return
    <3>2. CASE ~Return(n)
      <4>1. CASE CheckBlockchain(n)
        BY <2>1, <3>2, <4>1 DEF CheckBlockchain
      <4>2. CASE CompareSize(n) \/ RequeueSize(n)
        BY <2>1, <4>2 DEF CompareSize, RequeueSize, Handling
      <4>3. CASE CompareDigest(n) \/ RequeueBlock(n)
        <5>1. /\ handler[n] \in scans
              /\ \E l : handler' = [handler EXCEPT ![n] = l]
              /\ index' = [index EXCEPT ![n] = index[n] + 1] \/ UNCHANGED index
          BY <4>3 DEF CompareDigest, RequeueBlock, Handling
        <5> QED
          BY <2>1, <5>1
      <4>4. CASE ReceiveBlockchain(n) \/ ReceiveBlock(n) \/ BlockValid(n) \/ BlockInvalid(n)
        BY <2>1, <3>2, <4>4 DEF ReceiveBlockchain, ReceiveBlock, BlockValid, BlockInvalid
      <4> QED
        BY <1>5, <3>2, <4>1, <4>2, <4>3, <4>4
           DEF HandlerStep, OutOfRange, AdoptBlockchain, InstallBlock
    <3> QED
      BY <3>1, <3>2
  <2> QED
    BY <2>0, <2>2 DEF Wiring
<1>6. ASSUME NEW t \in Tx, ThreadStep(t)
      PROVE  Wiring'
  <2>1. UNCHANGED << home, slot, arg_mine, main, peer, handler, index >>
    BY <1>6 DEF ThreadStep, WaitMining, WaitBlockchain, AddTransaction, CheckPending,
                MineCopy, CheckMined, CompareLengths, CompareLastBlocks, Dropped,
                InstallMined, ShareBlock, PostSemaphores
  <2>2. pc[t] # "idle" /\ \A u \in Tx : u # t => pc'[u] = pc[u]
    BY <1>6 DEF ThreadStep, WaitMining, WaitBlockchain, AddTransaction, CheckPending,
                MineCopy, CheckMined, CompareLengths, CompareLastBlocks, Dropped,
                InstallMined, ShareBlock, PostSemaphores, At, TypeOK
  <2> QED
    BY <2>1, <2>2 DEF Wiring
<1>7. ASSUME NEW c \in calls, CallFails(c)
      PROVE  Wiring'
  BY <1>7 DEF CallFails, Wiring
<1>8. ASSUME NEW m \in udp, LoseDatagram(m)
      PROVE  Wiring'
  BY <1>8 DEF LoseDatagram, Wiring
<1> QED
  BY <1>1, <1>2, <1>3, <1>4, <1>5, <1>6, <1>7, <1>8 DEF Next

-----------------------------------------------------------------------------
(* Valid chains.                                                           *)

\* A thread has a mined chain.
HasMined(t) == pc[t] \in {"check", "length", "last", "install"}

\* A step that leaves these alone, and adds no call, leaves every chain valid.
LEMMA ChainsUnchanged ==
  ASSUME ChainsValid, calls' \subseteq calls, UNCHANGED << blockchain, newBlockchain, handler, newChain >>,
         \A t \in Tx : HasMined(t)' => HasMined(t)
  PROVE  ChainsValid'
BY DEF ChainsValid, HasMined

LEMMA ChainsMain ==
  ASSUME IInv, NEW n \in Node,
         \/ Start(n) \/ Stop(n) \/ AskBalance(n) \/ DecayQuality(n) \/ PeerMessage(n) \/ MainStep(n)
         \/ \E t \in Tx : TransactionReceived(n, t)
  PROVE  ChainsValid'
<1> USE DEF chainVars, nodeVars, semVars, ringVars, mainVars, rcfVars, threadVars, netVars
<1>0. TypeOK /\ ChainsValid
  BY DEF IInv
<1>1. CASE Start(n)
  <2>1. PICK ts \in Time : blockchain' = [blockchain EXCEPT ![n] = NewLedger(ts)]
    BY <1>1 DEF Start
  <2>2. \A m \in Node : GoodChain(blockchain'[m].chain)
    BY <1>0, <2>1, NewLedgerGood DEF ChainsValid, TypeOK
  <2> QED
    BY <1>0, <1>1, <2>2 DEF Start, ChainsValid
<1>2. CASE \E t \in Tx : TransactionReceived(n, t)
  <2>1. PICK t \in Tx : TransactionReceived(n, t)
    BY <1>2
  <2>2. CreateTransaction(blockchain[n], Bonus(t)).chain = blockchain[n].chain
    BY <1>0, TransactionTypes, CreateTransactionType DEF TypeOK
  <2>3. \A m \in Node : blockchain'[m].chain = blockchain[m].chain
    BY <1>0, <2>1, <2>2 DEF TransactionReceived, TypeOK
  <2>4. \A u \in Tx : HasMined(u)' => HasMined(u)
    BY <1>0, <2>1 DEF TransactionReceived, TypeOK, HasMined
  <2> QED
    BY <1>0, <2>1, <2>3, <2>4 DEF TransactionReceived, ChainsValid, HasMined
<1>3. CASE SendBlockchain(n)
  BY <1>0, <1>3 DEF SendBlockchain, ChainsValid
<1>4. CASE Stop(n) \/ AskBalance(n) \/ DecayQuality(n) \/ PeerMessage(n) \/ AnswerBalance(n)
  <2>1. UNCHANGED << blockchain, newBlockchain, handler, newChain, pc, calls >>
    BY <1>4 DEF Stop, AskBalance, DecayQuality, PeerMessage, ConnectReceived, ShareServerReceived,
                AskBlockchainReceived, AnswerBalance
  <2> QED
    BY <1>0, <2>1, ChainsUnchanged DEF HasMined
<1> QED
  BY <1>1, <1>2, <1>3, <1>4 DEF MainStep

LEMMA ChainsThread ==
  ASSUME IInv, NEW t \in Tx, ThreadStep(t)
  PROVE  ChainsValid'
<1> USE DEF chainVars, nodeVars, semVars, ringVars, mainVars, rcfVars, threadVars, netVars
<1> DEFINE n == home[t]
<1>0. TypeOK /\ ChainsValid /\ DOMAIN pc = Tx
  BY DEF IInv, TypeOK
<1>n. n \in Node
  BY DEF IInv, Wiring, ThreadStep, WaitMining, WaitBlockchain, AddTransaction, CheckPending,
         MineCopy, CheckMined, CompareLengths, CompareLastBlocks, InstallMined, ShareBlock,
         PostSemaphores, At
<1>1. CASE WaitMining(t) \/ WaitBlockchain(t) \/ CheckPending(t) \/ PostSemaphores(t)
  BY <1>0, <1>1, ChainsUnchanged DEF WaitMining, WaitBlockchain, CheckPending, PostSemaphores,
                                     HasMined
<1>2. CASE AddTransaction(t)
  <2> DEFINE tx == Payment(arg_mine[n][slot[t]])
  <2>1. tx \in Transaction
    BY <1>2, TransactionTypes DEF AddTransaction, At, IInv, Wiring
  <2>2. CreateTransaction(blockchain[n], tx).chain = blockchain[n].chain
    BY <1>0, <1>n, <2>1, CreateTransactionType DEF TypeOK
  <2>3. \A m \in Node : blockchain'[m].chain = blockchain[m].chain
    BY <1>0, <1>2, <2>2 DEF AddTransaction, TypeOK
  <2>4. \A u \in Tx : HasMined(u)' => HasMined(u)
    BY <1>0, <1>2 DEF AddTransaction, HasMined
  <2> QED
    BY <1>0, <1>2, <2>3, <2>4 DEF AddTransaction, ChainsValid, HasMined
<1>3. CASE MineCopy(t)
  <2>1. blockchain[n] \in Ledger /\ GoodChain(blockchain[n].chain)
    BY <1>0, <1>n DEF TypeOK, ChainsValid
  <2>2. GoodChain(newBlockchain'[t].chain)
    BY <1>0, <1>3, <1>n, <2>1, MiningGood, TransactionTypes DEF MineCopy, TypeOK
  <2>3. \A u \in Tx : u # t => newBlockchain'[u] = newBlockchain[u] /\ pc'[u] = pc[u]
    BY <1>0, <1>3 DEF MineCopy, TypeOK
  <2> QED
    BY <1>0, <1>3, <2>2, <2>3 DEF MineCopy, ChainsValid
<1>4. CASE CheckMined(t) \/ CompareLengths(t) \/ CompareLastBlocks(t)
  <2>1. \A u \in Tx : u # t => newBlockchain'[u] = newBlockchain[u] /\ pc'[u] = pc[u]
    BY <1>0, <1>4 DEF CheckMined, CompareLengths, CompareLastBlocks, Dropped, TypeOK
  <2>2. HasMined(t)' => GoodChain(newBlockchain'[t].chain)
    BY <1>0, <1>4 DEF CheckMined, CompareLengths, CompareLastBlocks, Dropped, At, HasMined,
                      ChainsValid
  <2>3. UNCHANGED << blockchain, handler, newChain, calls >>
    BY <1>4 DEF CheckMined, CompareLengths, CompareLastBlocks
  <2> QED
    BY <1>0, <2>1, <2>2, <2>3 DEF ChainsValid, HasMined
<1>5. CASE InstallMined(t)
  <2>1. GoodChain(newBlockchain[t].chain)
    BY <1>0, <1>5 DEF InstallMined, At, ChainsValid
  <2>2. \A m \in Node : GoodChain(blockchain'[m].chain)
    BY <1>0, <1>5, <2>1 DEF InstallMined, ChainsValid, TypeOK
  <2>3. \A u \in Tx : u # t => newBlockchain'[u] = newBlockchain[u] /\ pc'[u] = pc[u]
    BY <1>0, <1>5 DEF InstallMined, TypeOK
  <2>4. pc'[t] = "share"
    BY <1>0, <1>5 DEF InstallMined
  <2> QED
    BY <1>0, <1>5, <2>2, <2>3, <2>4 DEF InstallMined, ChainsValid
<1>6. CASE ShareBlock(t)
  BY <1>0, <1>6 DEF ShareBlock, ChainsValid
<1> QED
  BY <1>1, <1>2, <1>3, <1>4, <1>5, <1>6 DEF ThreadStep

\* The handlers: what is installed was validated, and no step in between
\* changes the copy but for what is pending.
LEMMA ChainsHandler ==
  ASSUME IInv, NEW n \in Node, HandlerStep(n)
  PROVE  ChainsValid'
<1> USE DEF chainVars, nodeVars, semVars, ringVars, mainVars, rcfVars, threadVars, netVars
<1>0. TypeOK /\ ChainsValid
  BY DEF IInv
<1>r. Return(n) => /\ calls' \subseteq calls
                   /\ \A m \in Node : m # n => handler'[m] = handler[m] /\ newChain'[m] = newChain[m]
                   /\ handler'[n] = "idle"
  BY <1>0 DEF Return, TypeOK
<1>1. CASE ReceiveBlockchain(n)
  <2>1. PICK c \in calls : ReceiveBlockchain(n)!2!(c)
    BY <1>1 DEF ReceiveBlockchain
  <2>2. GoodChain(newChain'[n].chain)
    BY <1>0, <2>1 DEF ChainsValid, TypeOK, Received
  <2>3. \A m \in Node : m # n => handler'[m] = handler[m] /\ newChain'[m] = newChain[m]
    BY <1>0, <1>1, <2>1 DEF ReceiveBlockchain, TypeOK
  <2> QED
    BY <1>0, <1>1, <2>2, <2>3 DEF ReceiveBlockchain, ChainsValid
<1>2. CASE CheckBlockchain(n)
  <2>1. CASE Return(n)
    BY <1>0, <1>2, <1>r, <2>1 DEF CheckBlockchain, ChainsValid
  <2>2. CASE ~Return(n)
    <3>1. UNCHANGED << newChain, calls, blockchain, pc, newBlockchain >>
      BY <1>2, <2>2 DEF CheckBlockchain
    <3>2. \A m \in Node : m # n => handler'[m] = handler[m]
      BY <1>0, <1>2, <2>2 DEF CheckBlockchain, TypeOK
    <3>3. GoodChain(newChain[n].chain)
      BY <1>0, <1>2 DEF CheckBlockchain, Handling, ChainsValid
    <3> QED
      BY <1>0, <3>1, <3>2, <3>3 DEF ChainsValid
  <2> QED
    BY <2>1, <2>2
<1>3. CASE RequeueBlock(n)
  <2> DEFINE requeued == newChain[n].pending \o blockchain[n].chain[index[n]].transactions
  <2>1. newChain' = [newChain EXCEPT ![n] = [newChain[n] EXCEPT !.pending = requeued]]
    BY <1>3 DEF RequeueBlock
  <2>2. \A m \in Node : newChain'[m].chain = newChain[m].chain
    BY <1>0, <2>1 DEF TypeOK, Ledger
  <2>3. \A m \in Node : handler'[m] \notin {"idle", "block"} => handler[m] \notin {"idle", "block"}
    BY <1>0, <1>3 DEF RequeueBlock, Handling, TypeOK
  <2> QED
    BY <1>0, <1>3, <2>2, <2>3 DEF RequeueBlock, ChainsValid
<1>4. CASE CompareSize(n) \/ CompareDigest(n) \/ RequeueSize(n)
  <2>1. \A m \in Node : m # n => handler'[m] = handler[m]
    BY <1>0, <1>4 DEF CompareSize, CompareDigest, RequeueSize, TypeOK
  <2>2. GoodChain(newChain[n].chain)
    BY <1>0, <1>4 DEF CompareSize, CompareDigest, RequeueSize, Handling, ChainsValid
  <2>3. UNCHANGED << newChain, calls, blockchain, pc, newBlockchain >>
    BY <1>4 DEF CompareSize, CompareDigest, RequeueSize
  <2> QED
    BY <1>0, <2>1, <2>2, <2>3 DEF ChainsValid
<1>5. CASE AdoptBlockchain(n) \/ InstallBlock(n)
  <2>1. Return(n) /\ blockchain' = [blockchain EXCEPT ![n] = newChain[n]]
    BY <1>5 DEF AdoptBlockchain, InstallBlock
  <2>2. GoodChain(newChain[n].chain)
    BY <1>0, <1>5 DEF AdoptBlockchain, InstallBlock, Handling, ChainsValid
  <2>3. \A m \in Node : GoodChain(blockchain'[m].chain)
    BY <1>0, <2>1, <2>2 DEF ChainsValid, TypeOK
  <2> QED
    BY <1>0, <1>5, <1>r, <2>1, <2>3 DEF AdoptBlockchain, InstallBlock, ChainsValid
<1>6. CASE ReceiveBlock(n)
  <2>1. \A m \in Node : m # n => handler'[m] = handler[m] /\ newChain'[m] = newChain[m]
    BY <1>0, <1>6 DEF ReceiveBlock, TypeOK
  <2>2. handler'[n] = "block"
    BY <1>0, <1>6 DEF ReceiveBlock, TypeOK
  <2> QED
    BY <1>0, <1>6, <2>1, <2>2 DEF ReceiveBlock, ChainsValid
<1>7. CASE BlockValid(n)
  <2>1. \A m \in Node : m # n => handler'[m] = handler[m]
    BY <1>0, <1>7 DEF BlockValid, TypeOK
  <2>2. newChain[n].chain # << >>
    BY <1>0, <1>7 DEF BlockValid, ExtendsChain, ChainsValid, GoodChain, TypeOK, Ledger
  <2>3. GoodChain(newChain[n].chain)
    BY <1>7, <2>2 DEF BlockValid, ExtendsChain, GoodChain
  <2> QED
    BY <1>0, <1>7, <2>1, <2>3 DEF BlockValid, ChainsValid
<1>8. CASE BlockInvalid(n)
  <2>1. CASE Return(n)
    BY <1>0, <1>8, <1>r, <2>1 DEF BlockInvalid, ChainsValid
  <2>2. CASE ~Return(n)
    BY <1>0, <1>8, <2>2, ChainsUnchanged DEF BlockInvalid, HasMined
  <2> QED
    BY <2>1, <2>2
<1>9. CASE OutOfRange(n)
  BY <1>0, <1>9, <1>r DEF OutOfRange, ChainsValid
<1> QED
  BY <1>1, <1>2, <1>3, <1>4, <1>5, <1>6, <1>7, <1>8, <1>9 DEF HandlerStep

LEMMA InvStep == IInv /\ [Next]_vars => IInv'
<1> SUFFICES ASSUME IInv, [Next]_vars PROVE IInv'
  OBVIOUS
<1>1. CASE Next
  <2>1. TypeOK'
    BY <1>1, ProcessTypes, MainTypes, ThreadTypes, HandlerTypes DEF Next
  <2>2. Wiring'
    BY <1>1, WiringStep
  <2>3. ChainsValid'
    <3>1. ASSUME NEW c \in calls, CallFails(c) PROVE ChainsValid'
      BY <3>1, ChainsUnchanged DEF CallFails, HasMined, IInv, chainVars, rcfVars, threadVars
    <3>2. ASSUME NEW m \in udp, LoseDatagram(m) PROVE ChainsValid'
      BY <3>2, ChainsUnchanged DEF LoseDatagram, HasMined, IInv, chainVars, rcfVars, threadVars
    <3> QED
      BY <1>1, <3>1, <3>2, ChainsMain, ChainsThread, ChainsHandler DEF Next
  <2> QED
    BY <2>1, <2>2, <2>3 DEF IInv
<1>2. CASE UNCHANGED vars
  <2>1. TypeOK'
    BY <1>2, UnchangedType DEF IInv
  <2>2. Wiring' /\ ChainsValid'
    BY <1>2 DEF IInv, Wiring, ChainsValid, vars, chainVars, nodeVars, semVars, ringVars,
                mainVars, rcfVars, threadVars, netVars
  <2> QED
    BY <2>1, <2>2 DEF IInv
<1> QED
  BY <1>1, <1>2

LEMMA Invariance == Safety => []IInv
BY InitInv, InvStep, PTL DEF Safety

\* Every variable keeps its type: in particular the ring holds a payment where a
\* thread looks for one, and main knows whom it answers.
THEOREM TypeCorrect == Safety => []TypeOK
<1>1. IInv => TypeOK
  BY DEF IInv
<1> QED
  BY <1>1, Invariance, PTL

\* However the writers of the pointer interleave, and whoever stops, no node ever
\* holds, prepares or sends a chain that isChainValid would reject.
THEOREM ChainsAlwaysValid == Safety => []ChainsValid
<1>1. IInv => ChainsValid
  BY DEF IInv
<1> QED
  BY <1>1, Invariance, PTL

-----------------------------------------------------------------------------
(* Mutual exclusion.                                                       *)

LEMMA MutexStep == IInv /\ MutualExclusion /\ [Next]_vars => MutualExclusion'
<1> SUFFICES ASSUME IInv, MutualExclusion, [Next]_vars PROVE MutualExclusion'
  OBVIOUS
<1> USE DEF chainVars, nodeVars, semVars, ringVars, mainVars, rcfVars, threadVars, netVars
<1>0. /\ pc \in [Tx -> {"idle", "start", "mining", "add", "size", "copy", "check", "length",
                   "last", "install", "share", "done"}]
      /\ home \in [Tx -> Node \cup {Nobody}]
      /\ sem_mining \in [Node -> {0, 1}] /\ sem_blockchain \in [Node -> {0, 1}]
  BY DEF IInv, TypeOK
<1>h. \A t \in Tx : pc[t] # "idle" => home[t] \in Node
  BY DEF IInv, Wiring
<1>1. ASSUME UNCHANGED << pc, home, sem_mining, sem_blockchain >> PROVE MutualExclusion'
  BY <1>1 DEF MutualExclusion, HoldsMining, HoldsBlockchain
<1>2. ASSUME NEW n \in Node, NEW t \in Tx, TransactionReceived(n, t) PROVE MutualExclusion'
  <2>1. /\ pc[t] = "idle"
        /\ pc' = [pc EXCEPT ![t] = "start"] /\ home' = [home EXCEPT ![t] = n]
        /\ UNCHANGED << sem_mining, sem_blockchain >>
    BY <1>2 DEF TransactionReceived
  <2>2. \A u \in Tx : /\ HoldsMining(u)' <=> HoldsMining(u)
                      /\ HoldsBlockchain(u)' <=> HoldsBlockchain(u)
                      /\ HoldsMining(u) => home'[u] = home[u]
    BY <1>0, <2>1 DEF HoldsMining, HoldsBlockchain
  <2>3. \A u \in Tx : ~HoldsMining(t) /\ (u # t => home'[u] = home[u])
    BY <1>0, <2>1 DEF HoldsMining
  <2> QED
    BY <2>1, <2>2, <2>3 DEF MutualExclusion, HoldsBlockchain
<1>3. ASSUME NEW t \in Tx, WaitMining(t) PROVE MutualExclusion'
  BY <1>0, <1>h, <1>3 DEF WaitMining, At, MutualExclusion, HoldsMining, HoldsBlockchain
<1>4. ASSUME NEW t \in Tx, WaitBlockchain(t) PROVE MutualExclusion'
  BY <1>0, <1>h, <1>4 DEF WaitBlockchain, At, MutualExclusion, HoldsMining, HoldsBlockchain
<1>5. ASSUME NEW t \in Tx, PostSemaphores(t) PROVE MutualExclusion'
  BY <1>0, <1>h, <1>5 DEF PostSemaphores, At, MutualExclusion, HoldsMining, HoldsBlockchain
<1>6. ASSUME NEW t \in Tx,
             \/ AddTransaction(t) \/ CheckPending(t) \/ MineCopy(t) \/ CheckMined(t)
             \/ CompareLengths(t) \/ CompareLastBlocks(t) \/ InstallMined(t) \/ ShareBlock(t)
      PROVE  MutualExclusion'
  <2>1. /\ UNCHANGED << home, sem_mining, sem_blockchain >>
        /\ HoldsBlockchain(t) /\ HoldsBlockchain(t)'
        /\ \A u \in Tx : u # t => pc'[u] = pc[u]
    BY <1>0, <1>6 DEF AddTransaction, CheckPending, MineCopy, CheckMined, CompareLengths,
                      CompareLastBlocks, Dropped, InstallMined, ShareBlock, At,
                      HoldsMining, HoldsBlockchain
  <2>2. \A u \in Tx : /\ HoldsMining(u)' <=> HoldsMining(u)
                      /\ HoldsBlockchain(u)' <=> HoldsBlockchain(u)
    BY <2>1 DEF HoldsMining, HoldsBlockchain
  <2> QED
    BY <2>1, <2>2 DEF MutualExclusion
<1>7. ASSUME NEW n \in Node, HandlerStep(n) PROVE UNCHANGED << pc, home, sem_mining, sem_blockchain >>
  BY <1>7 DEF HandlerStep, ReceiveBlockchain, CheckBlockchain, CompareSize, CompareDigest,
              RequeueSize, RequeueBlock, OutOfRange, AdoptBlockchain, ReceiveBlock,
              BlockValid, InstallBlock, BlockInvalid
<1>8. ASSUME NEW n \in Node,
             \/ Start(n) \/ Stop(n) \/ AskBalance(n) \/ DecayQuality(n) \/ PeerMessage(n) \/ MainStep(n)
      PROVE  UNCHANGED << pc, home, sem_mining, sem_blockchain >>
  BY <1>8 DEF Start, Stop, AskBalance, DecayQuality, PeerMessage, ConnectReceived,
              ShareServerReceived, AskBlockchainReceived, MainStep, SendBlockchain, AnswerBalance
<1>9. ASSUME \/ \E c \in calls : CallFails(c)
             \/ \E m \in udp : LoseDatagram(m)
             \/ UNCHANGED vars
      PROVE  UNCHANGED << pc, home, sem_mining, sem_blockchain >>
  BY <1>9 DEF CallFails, LoseDatagram, vars
<1> QED
  BY <1>1, <1>2, <1>3, <1>4, <1>5, <1>6, <1>7, <1>8, <1>9 DEF Next, ThreadStep

\* At most one thread of a node is between its sem_wait and its sem_post, and a
\* semaphore is down only while a thread holds it.
THEOREM Mutex == Safety => []MutualExclusion
<1>1. Init => MutualExclusion
  BY DEF Init, MutualExclusion, HoldsMining, HoldsBlockchain
<1> QED
  BY <1>1, MutexStep, Invariance, PTL DEF Safety

-----------------------------------------------------------------------------
(* Server tables.                                                          *)

LEMMA InsertDistinct ==
  ASSUME NEW table \in Seq(Node), IsInjective(table), NEW m \in Node, m \notin ToSet(table)
  PROVE  /\ IsInjective(<< m >> \o table)
         /\ ToSet(<< m >> \o table) = ToSet(table) \cup {m}
<1> DEFINE longer == << m >> \o table
<1>1. /\ longer \in Seq(Node) /\ Len(longer) = Len(table) + 1
      /\ longer[1] = m
      /\ \A i \in 1..Len(table) : longer[i + 1] = table[i]
  BY ConcatProperties
<1> HIDE DEF longer
<1>2. \A i \in 2..Len(longer) : i - 1 \in 1..Len(table) /\ longer[i] = table[i - 1]
  <2> TAKE i \in 2..Len(longer)
  <2>1. i - 1 \in 1..Len(table) /\ (i - 1) + 1 = i
    BY <1>1
  <2> QED
    BY <1>1, <2>1
<1>3. \A i \in 1..Len(table) : table[i] # m
  BY DEF ToSet
<1>4. DOMAIN longer = 1..Len(longer) /\ DOMAIN table = 1..Len(table)
  BY <1>1
<1>5. IsInjective(longer)
  <2> SUFFICES ASSUME NEW i \in 1..Len(longer), NEW j \in 1..Len(longer), longer[i] = longer[j]
               PROVE  i = j
    BY <1>4 DEF IsInjective
  <2>1. CASE i = 1 /\ j = 1
    BY <2>1
  <2>2. CASE i # 1 /\ j # 1
    <3>1. i - 1 \in 1..Len(table) /\ j - 1 \in 1..Len(table) /\ table[i - 1] = table[j - 1]
      BY <2>2, <1>1, <1>2
    <3>2. i - 1 = j - 1
      BY <3>1, <1>4 DEF IsInjective
    <3> QED
      BY <3>2, <1>1
  <2>3. CASE (i = 1) # (j = 1)
    BY <2>3, <1>1, <1>2, <1>3
  <2> QED
    BY <2>1, <2>2, <2>3
<1>6. ToSet(longer) = ToSet(table) \cup {m}
  <2>1. ASSUME NEW i \in 1..Len(longer) PROVE longer[i] \in ToSet(table) \cup {m}
    <3>1. i = 1 \/ i \in 2..Len(longer)
      OBVIOUS
    <3> QED
      BY <3>1, <1>1, <1>2, <1>4 DEF ToSet
  <2>2. ASSUME NEW i \in 1..Len(table) PROVE table[i] \in ToSet(longer)
    <3>1. i + 1 \in 1..Len(longer) /\ table[i] = longer[i + 1]
      BY <1>1
    <3> QED
      BY <3>1, <1>4 DEF ToSet
  <2>3. m \in ToSet(longer)
    <3>1. 1 \in 1..Len(longer)
      BY <1>1
    <3> QED
      BY <3>1, <1>1, <1>4 DEF ToSet
  <2>4. ToSet(longer) \subseteq ToSet(table) \cup {m}
    BY <2>1, <1>4 DEF ToSet
  <2>5. ToSet(table) \subseteq ToSet(longer)
    BY <2>2, <1>4 DEF ToSet
  <2> QED
    BY <2>3, <2>4, <2>5
<1> QED
  BY <1>5, <1>6 DEF longer

\* A process that was not started has no table, and a SHARE_SERVER never names
\* the node it is sent to.
PeersInv ==
  /\ PeersDistinct
  /\ \A n \in Node : status[n] = "off" => server_table[n] = << >>
  /\ \A m \in udp : m.header = "SHARE_SERVER" => m.node # m.to

LEMMA PeersInit == Init => PeersInv
<1> SUFFICES ASSUME Init PROVE PeersInv
  OBVIOUS
<1>1. IsInjective(<< >>) /\ ToSet(<< >>) = {}
  BY DEF IsInjective, ToSet
<1>2. \A n \in Node : /\ IsInjective(server_table[n]) /\ n \notin ToSet(server_table[n])
                      /\ status[n] = "off" => server_table[n] = << >>
  BY <1>1, Deployment DEF Init
<1> QED
  BY <1>2 DEF Init, PeersInv, PeersDistinct, Known

LEMMA PeersStep == IInv /\ PeersInv /\ [Next]_vars => PeersInv'
<1> SUFFICES ASSUME IInv, PeersInv, [Next]_vars PROVE PeersInv'
  OBVIOUS
<1> USE DEF chainVars, nodeVars, semVars, ringVars, mainVars, rcfVars, threadVars, netVars
<1>0. /\ status \in [Node -> {"off", "up", "down"}]
      /\ server_table \in [Node -> Seq(Node)] /\ udp \subseteq Datagram
  BY DEF IInv, TypeOK
<1>1. ASSUME UNCHANGED server_table,
             \A n \in Node : status'[n] = "off" => status[n] = "off",
             \A m \in udp' : m.header = "SHARE_SERVER" => m \in udp
      PROVE  PeersInv'
  BY <1>1 DEF PeersInv, PeersDistinct, Known
\* One more peer at the head of a table.
<1>2. ASSUME NEW n \in Node, NEW p \in Node, p # n, ~Known(n, p),
             server_table' = [server_table EXCEPT ![n] = << p >> \o @]
      PROVE  PeersDistinct'
  <2>1. /\ IsInjective(<< p >> \o server_table[n])
        /\ n \notin ToSet(<< p >> \o server_table[n])
    BY <1>0, <1>2, InsertDistinct DEF PeersInv, PeersDistinct, Known
  <2> QED
    BY <1>0, <1>2, <2>1 DEF PeersInv, PeersDistinct, Known
<1>3. ASSUME NEW n \in Node, Start(n) PROVE PeersInv'
  <2>1. CASE Peer[n] = Nobody
    BY <1>0, <1>1, <1>3, <2>1 DEF Start
  <2>2. CASE Peer[n] # Nobody
    <3>1. Peer[n] \in Node /\ Peer[n] # n
      BY <2>2, Deployment
    <3>2. ~Known(n, Peer[n])
      BY <1>3 DEF Start, PeersInv, Known, ToSet
    <3>3. PeersDistinct'
      BY <1>2, <1>3, <2>2, <3>1, <3>2 DEF Start
    <3> QED
      BY <1>0, <1>3, <2>2, <3>3 DEF Start, PeersInv
  <2> QED
    BY <2>1, <2>2
<1>4. ASSUME NEW n \in Node, ConnectReceived(n) PROVE PeersInv'
  <2>1. PICK m \in udp : ConnectReceived(n)!2!(m)
    BY <1>4 DEF ConnectReceived
  <2>2. m.node \in Node /\ Up(n) /\ UNCHANGED status
    BY <1>0, <1>4 DEF Datagram, ConnectReceived, Receiving
  <2>3. CASE ~Unknown(n, m.node)
    BY <1>1, <2>1, <2>2, <2>3
  <2>4. CASE Unknown(n, m.node)
    <3>0. m.node # n /\ ~Known(n, m.node)
      BY <2>4 DEF Unknown
    <3>1. PeersDistinct'
      BY <1>2, <2>1, <2>2, <2>4, <3>0
    <3>2. \A d \in udp' : d.header = "SHARE_SERVER" => d.node # d.to
      BY <2>1, <2>4, <3>0 DEF Known, PeersInv, Introduce
    <3> QED
      BY <1>0, <2>1, <2>2, <2>4, <3>1, <3>2 DEF PeersInv, Up
  <2> QED
    BY <2>3, <2>4
<1>5. ASSUME NEW n \in Node, ShareServerReceived(n) PROVE PeersInv'
  <2>1. PICK m \in udp : ShareServerReceived(n)!2!(m)
    BY <1>5 DEF ShareServerReceived
  <2>2. m.node \in Node /\ m.node # n /\ Up(n) /\ UNCHANGED status
    BY <1>0, <1>5, <2>1 DEF Datagram, ShareServerReceived, Receiving, PeersInv
  <2>3. CASE Known(n, m.node)
    BY <1>1, <2>1, <2>2, <2>3
  <2>4. CASE ~Known(n, m.node)
    <3>1. PeersDistinct'
      BY <1>2, <2>1, <2>2, <2>4
    <3> QED
      BY <1>0, <2>1, <2>2, <2>4, <3>1 DEF PeersInv, Up
  <2> QED
    BY <2>3, <2>4
<1>6. ASSUME NEW n \in Node,
             \/ Stop(n) \/ AskBalance(n) \/ DecayQuality(n) \/ AskBlockchainReceived(n) \/ MainStep(n)
             \/ \E t \in Tx : TransactionReceived(n, t)
      PROVE  PeersInv'
  BY <1>0, <1>1, <1>6 DEF Stop, AskBalance, DecayQuality, AskBlockchainReceived, MainStep,
                          SendBlockchain, AnswerBalance, TransactionReceived
<1>7. ASSUME NEW n \in Node, HandlerStep(n) PROVE PeersInv'
  <2>1. CASE BlockInvalid(n)
    <3>1. \A k \in Node : status'[k] = "off" => status[k] = "off"
      BY <1>0, <2>1 DEF BlockInvalid
    <3>2. \A m \in udp' : m.header = "SHARE_SERVER" => m \in udp
      BY <2>1 DEF BlockInvalid
    <3> QED
      BY <1>1, <2>1, <3>1, <3>2 DEF BlockInvalid
  <2>2. CASE OutOfRange(n)
    <3>1. \A k \in Node : status'[k] = "off" => status[k] = "off"
      BY <1>0, <2>2 DEF OutOfRange
    <3> QED
      BY <1>1, <2>2, <3>1 DEF OutOfRange
  <2>3. CASE ~BlockInvalid(n) /\ ~OutOfRange(n)
    <3>1. UNCHANGED << server_table, status, udp >>
      BY <1>7, <2>3 DEF HandlerStep, ReceiveBlockchain, CheckBlockchain, CompareSize,
                  CompareDigest, RequeueSize, RequeueBlock, AdoptBlockchain, ReceiveBlock,
                  BlockValid, InstallBlock
    <3> QED
      BY <1>1, <3>1
  <2> QED
    BY <2>1, <2>2, <2>3
<1>8. ASSUME NEW t \in Tx, ThreadStep(t) PROVE UNCHANGED << server_table, status, udp >>
  BY <1>8 DEF ThreadStep, WaitMining, WaitBlockchain, AddTransaction, CheckPending,
              MineCopy, CheckMined, CompareLengths, CompareLastBlocks, InstallMined,
              ShareBlock, PostSemaphores
<1>9. ASSUME NEW c \in calls, CallFails(c) PROVE PeersInv'
  BY <1>0, <1>1, <1>9 DEF CallFails
<1>10. ASSUME NEW m \in udp, LoseDatagram(m) PROVE PeersInv'
  BY <1>0, <1>1, <1>10 DEF LoseDatagram
<1>11. CASE UNCHANGED vars
  BY <1>1, <1>11 DEF vars
<1> QED
  BY <1>1, <1>3, <1>4, <1>5, <1>6, <1>7, <1>8, <1>9, <1>10, <1>11 DEF Next, PeerMessage

\* A server table never names a peer twice nor its owner, whatever is lost and
\* in whatever order the nodes connect.
THEOREM PeersAlwaysDistinct == Safety => []PeersDistinct
<1>1. PeersInv => PeersDistinct
  BY DEF PeersInv
<1> QED
  BY <1>1, PeersInit, PeersStep, Invariance, PTL DEF Safety

=============================================================================
