-------------------------- MODULE ReplicationProofs --------------------------
(***************************************************************************)
(* Proofs about a network in which one node mines, for any number of       *)
(* followers and payments, with losses and stops: it is a replicated log,  *)
(* and no payment is lost or doubled on the way into it.                   *)
(***************************************************************************)
EXTENDS Replication, NoeudBlocProofs

Followers == Node \ {Miner}

\* The miner's blocks.
Blocks == blockchain[Miner].chain

\* A follower has them all, or lacks the last one.
UpToDate(f) == blockchain[f].chain = Blocks
Behind(f)   == /\ blockchain[f].chain # << >>
               /\ Blocks = Append(blockchain[f].chain, GetLatestBlock(Blocks))

\* The thread that shares is to call the follower, or is calling it.
ToBeCalled(t, f) == pc[t] = "share" /\ f \in ToSet(server[t])
Called(f) == \E c \in calls : c.to = f

\* The miner has ended while it was sharing.
CutShort == ~Up(Miner) /\ \E t \in Tx : pc[t] = "share"

\* No introduction is under way, so that the tables stay as they are.
Formed ==
  /\ \A n \in Node : status[n] # "off"
  /\ udp = {}
  /\ \A n \in Node : main[n] # "send"
  /\ server_table[Miner] = InitialTable[Miner]
  /\ \A t \in Tx : home[t] \in {Miner, Nobody}

\* The one call there is carries the last block to a follower that lacks it.
OneCall ==
  /\ \A c, d \in calls : c = d
  /\ \A c \in calls :
       /\ c.procedure = "sendBlock"
       /\ c.caller \in Tx /\ pc[c.caller] = "share"
       /\ c.to \in Followers /\ Behind(c.to)
       /\ c.to \notin ToSet(server[c.caller])
       /\ c.block = GetLatestBlock(Blocks)

\* Who is still to be called lacks the last block; who lacks it will be called,
\* unless the miner has ended while it was sharing.
Sharing ==
  /\ \A t \in Tx : pc[t] # "share" => server[t] = << >>
  /\ \A t \in Tx : /\ IsInjective(server[t])
                   /\ ToSet(server[t]) \subseteq Followers
                   /\ \A f \in ToSet(server[t]) : Behind(f)
  /\ \A f \in Followers :
       UpToDate(f) \/ Called(f) \/ CutShort \/ \E t \in Tx : ToBeCalled(t, f)

\* A handler that runs serves that call, with the miner's blocks in hand.
Serving ==
  /\ handler[Miner] = "idle"
  /\ \A f \in Followers :
       /\ handler[f] \in {"idle", "block", "extend"}
       /\ Up(f) /\ handler[f] # "idle" =>
            /\ newChain[f].chain = Blocks
            /\ \E c \in calls : c.to = f /\ c.caller = serving[f]

\* A block was mined on top of the last one, and one look at its length is enough.
OnTop ==
  \A t \in Tx :
    /\ pc[t] \in {"check", "install"} =>
         \E b \in Block : newBlockchain[t].chain = Append(Blocks, b)
    /\ pc[t] \notin {"length", "last"}

Trail == \A f \in Followers : UpToDate(f) \/ Behind(f)

RInv == Formed /\ OneCall /\ Sharing /\ Serving /\ OnTop /\ Trail

\* What a follower holds is a chain only.
NothingPending ==
  \A f \in Followers : blockchain[f].pending = << >> /\ newChain[f].pending = << >>

\* The payment a thread came with is where its slot says, then pending, then in
\* the block it mined, which is the last one for as long as it is shared.
Carries(block, t) == Payment(t) \in ToSet(block.transactions)

SlotKept == \A t \in Tx : pc[t] \in {"start", "mining", "add"} => arg_mine[Miner][slot[t]] = t

PaymentFollowed ==
  \A t \in Tx :
    /\ pc[t] \in {"size", "copy"} => Payment(t) \in ToSet(blockchain[Miner].pending)
    /\ pc[t] \in {"check", "install"} => Carries(GetLatestBlock(newBlockchain[t].chain), t)
    /\ pc[t] = "share" /\ (server[t] # << >> \/ Waiting(t)) => Carries(GetLatestBlock(Blocks), t)

\* Each queued payment is carried once, the others are not.
Once(ledger) ==
  \A t \in Tx : IF Queued(t) THEN \E place : Places(ledger, Payment(t)) = {place}
                             ELSE Places(ledger, Payment(t)) = {}

PaymentsInv ==
  /\ Once(blockchain[Miner])
  /\ \A t \in Tx : pc[t] \in {"check", "install"} => Once(newBlockchain[t])

\* Enough is pending from the moment that was looked at, and in every block.
Full(chain) == \A i \in 2..Len(chain) : Len(chain[i].transactions) >= Threshold

FullInv ==
  /\ \A t \in Tx : pc[t] = "copy" => Len(blockchain[Miner].pending) >= Threshold
  /\ \A t \in Tx : pc[t] \in {"check", "install"} =>
                     Full(newBlockchain[t].chain) /\ Len(newBlockchain[t].pending) = 1
  /\ Full(Blocks)

\* While enough is pending for a block, there is a thread that will see it.
WillMine ==
  Len(blockchain[Miner].pending) >= Threshold =>
    \E t \in Tx : home[t] = Miner /\ pc[t] \in {"start", "mining", "add", "size", "copy",
                                               "check", "install"}

-----------------------------------------------------------------------------
(* What the invariant rules out.                                           *)

\* The rest of a list without repetitions does not hold its head.
LEMMA TailInjective ==
  ASSUME NEW list \in Seq(Node), list # << >>, IsInjective(list)
  PROVE  /\ Head(list) \in ToSet(list) /\ Head(list) \notin ToSet(Tail(list))
         /\ ToSet(list) = {Head(list)} \cup ToSet(Tail(list))
         /\ IsInjective(Tail(list))
<1> DEFINE tail == Tail(list)
<1>1. /\ Len(list) \in Nat \ {0} /\ DOMAIN list = 1..Len(list) /\ Head(list) = list[1]
      /\ Len(tail) = Len(list) - 1 /\ DOMAIN tail = 1..Len(tail)
      /\ \A i \in 1..Len(tail) : tail[i] = list[i + 1]
  BY HeadTailProperties
<1> HIDE DEF tail
<1>2. \A i \in 1..Len(tail) : i + 1 \in 1..Len(list) /\ i + 1 # 1
  BY <1>1
<1>3. \A i \in 1..Len(list) : i = 1 \/ (i - 1 \in 1..Len(tail) /\ list[i] = tail[i - 1])
  <2> TAKE i \in 1..Len(list)
  <2>1. i # 1 => i - 1 \in 1..Len(tail) /\ (i - 1) + 1 = i
    BY <1>1
  <2> QED
    BY <1>1, <2>1
<1>4. 1 \in DOMAIN list
  BY <1>1
<1>5. Head(list) \in ToSet(list)
  BY <1>1, <1>4 DEF ToSet
<1>6. Head(list) \notin ToSet(tail)
  BY <1>1, <1>2, <1>4 DEF ToSet, IsInjective
<1>7. ToSet(list) = {Head(list)} \cup ToSet(tail)
  <2>1. ToSet(list) \subseteq {Head(list)} \cup ToSet(tail)
    BY <1>1, <1>3 DEF ToSet
  <2>2. ToSet(tail) \subseteq ToSet(list)
    BY <1>1, <1>2 DEF ToSet
  <2> QED
    BY <1>5, <2>1, <2>2
<1>8. IsInjective(tail)
  <2> SUFFICES ASSUME NEW i \in 1..Len(tail), NEW j \in 1..Len(tail), tail[i] = tail[j]
               PROVE  i = j
    BY <1>1 DEF IsInjective
  <2>1. i + 1 = j + 1
    BY <1>1, <1>2 DEF IsInjective
  <2> QED
    BY <2>1
<1> QED
  BY <1>5, <1>6, <1>7, <1>8 DEF tail

\* One thread of the whole network is between sem_wait and sem_post.
LEMMA OneHolder ==
  ASSUME IInv, MutualExclusion, Formed, NEW t \in Tx, NEW u \in Tx,
         HoldsMining(t), HoldsMining(u)
  PROVE  t = u /\ home[t] = Miner
<1>1. ASSUME NEW v \in Tx, HoldsMining(v) PROVE home[v] \in Node /\ home[v] = Miner
  <2>1. home[v] \in Node
    BY <1>1 DEF HoldsMining, IInv, Wiring
  <2>2. Nobody \notin Node
    BY NodesAndPayments
  <2> QED
    BY <2>1, <2>2 DEF Formed
<1>2. home[t] = Miner /\ home[u] = Miner /\ Miner \in Node
  BY <1>1, OneMiner
<1> QED
  BY <1>2 DEF MutualExclusion

LEMMA ChainTypes ==
  ASSUME IInv, NEW n \in Node
  PROVE  /\ blockchain[n] \in Ledger /\ newChain[n] \in Ledger
         /\ blockchain[n].chain \in Seq(Block) /\ blockchain[n].pending \in Seq(Transaction)
         /\ GoodChain(blockchain[n].chain) /\ blockchain[n].chain # << >>
         /\ GetLatestBlock(blockchain[n].chain) \in Block
<1>1. /\ blockchain[n] \in Ledger /\ newChain[n] \in Ledger
      /\ blockchain[n].chain \in Seq(Block) /\ blockchain[n].pending \in Seq(Transaction)
  BY DEF IInv, TypeOK, Ledger
<1>2. GoodChain(blockchain[n].chain) /\ blockchain[n].chain # << >>
  BY DEF IInv, ChainsValid, GoodChain
<1> QED
  BY <1>1, <1>2, LatestBlockType

\* The block a follower is sent makes its chain the miner's.
LEMMA CallCompletes ==
  ASSUME IInv, OneCall, NEW c \in calls
  PROVE  /\ c.to \in Node /\ c.to # Miner
         /\ Append(blockchain[c.to].chain, c.block) = Blocks
BY DEF OneCall, Followers, Behind

LEMMA NeverThere ==
  ASSUME IInv, RInv, NEW n \in Node
  PROVE  /\ ~Start(n) /\ ~PeerMessage(n) /\ ~SendBlockchain(n)
         /\ ~ReceiveBlockchain(n) /\ ~CheckBlockchain(n) /\ ~CompareSize(n) /\ ~CompareDigest(n)
         /\ ~RequeueSize(n) /\ ~RequeueBlock(n) /\ ~OutOfRange(n) /\ ~AdoptBlockchain(n)
         /\ ~BlockInvalid(n)
<1>1. ~Start(n) /\ ~PeerMessage(n) /\ ~SendBlockchain(n)
  BY DEF RInv, Formed, Start, PeerMessage, ConnectReceived, ShareServerReceived,
         AskBlockchainReceived, SendBlockchain
<1>2. handler[n] \in {"idle", "block", "extend"}
  BY DEF RInv, Serving, Followers
<1>3. /\ ~CheckBlockchain(n) /\ ~CompareSize(n) /\ ~CompareDigest(n) /\ ~RequeueSize(n)
      /\ ~RequeueBlock(n) /\ ~OutOfRange(n) /\ ~AdoptBlockchain(n)
  BY <1>2 DEF CheckBlockchain, CompareSize, CompareDigest, RequeueSize, RequeueBlock,
              OutOfRange, Beyond, AdoptBlockchain, Handling
<1>4. ~ReceiveBlockchain(n)
  BY DEF RInv, OneCall, ReceiveBlockchain
<1>5. ~BlockInvalid(n)
  <2> SUFFICES ASSUME BlockInvalid(n) PROVE FALSE
    OBVIOUS
  <2>1. Up(n) /\ handler[n] = "block" /\ ~ExtendsChain(n)
    BY DEF BlockInvalid, Handling
  <2>2. n \in Followers /\ newChain[n].chain = Blocks
    BY <2>1 DEF RInv, Serving, Followers
  <2>3. Miner \in Node /\ (UpToDate(n) \/ Behind(n))
    BY <2>2, OneMiner DEF RInv, Trail
  <2>4. Len(blockchain[n].chain) <= Len(Blocks)
    BY <2>3, ChainTypes, OneMiner DEF UpToDate, Behind, Blocks
  <2>5. IsChainValid(Blocks)
    BY ChainTypes, OneMiner DEF Blocks, GoodChain
  <2> QED
    BY <2>1, <2>2, <2>4, <2>5 DEF ExtendsChain
<1> QED
  BY <1>1, <1>3, <1>4, <1>5

LEMMA HomeIsMiner ==
  ASSUME IInv, RInv, NEW t \in Tx, pc[t] # "idle"
  PROVE  home[t] = Miner /\ Miner \in Node
<1>1. home[t] \in Node /\ home[t] \in {Miner, Nobody}
  BY DEF IInv, Wiring, RInv, Formed
<1> QED
  BY <1>1, NodesAndPayments, OneMiner

\* A block mined on top of the miner's chain is always kept.
LEMMA MinedIsKept ==
  ASSUME IInv, RInv, NEW t \in Tx, CheckMined(t)
  PROVE  pc' = [pc EXCEPT ![t] = "install"] /\ UNCHANGED newBlockchain
<1>1. pc[t] = "check" /\ home[t] = Miner /\ Miner \in Node
  BY HomeIsMiner DEF CheckMined, Dropped, At
<1>2. PICK b \in Block : newBlockchain[t].chain = Append(Blocks, b)
  BY <1>1 DEF RInv, OnTop
<1>3. IsChainValid(newBlockchain[t].chain)
  BY <1>1 DEF IInv, ChainsValid, GoodChain
<1>4. Blocks \in Seq(Block)
  BY <1>1, ChainTypes DEF Blocks
<1>5. Len(Blocks) < Len(newBlockchain[t].chain)
  BY <1>2, <1>4
<1> QED
  BY <1>1, <1>3, <1>5 DEF CheckMined, Dropped, Blocks

\* The later looks at the lengths are never needed.
LEMMA MinerStep ==
  ASSUME RInv, NEW t \in Tx, ThreadStep(t)
  PROVE  \/ WaitMining(t) \/ WaitBlockchain(t) \/ AddTransaction(t) \/ CheckPending(t)
         \/ MineCopy(t) \/ CheckMined(t) \/ InstallMined(t) \/ ShareBlock(t)
         \/ PostSemaphores(t)
BY DEF ThreadStep, CompareLengths, CompareLastBlocks, At, RInv, OnTop

-----------------------------------------------------------------------------
(* The invariant holds at first.                                           *)

LEMMA RInit == Init => RInv
<1> SUFFICES ASSUME Init PROVE RInv
  OBVIOUS
<1> PICK ts \in Time : Init!(ts)
  BY DEF Init
<1>1. Formed
  BY FormedNetwork, OneMiner DEF Formed
<1>2. IsInjective(<< >>) /\ ToSet(<< >>) = {}
  BY DEF IsInjective, ToSet
<1>3. \A f \in Followers : UpToDate(f)
  BY OneMiner DEF UpToDate, Blocks, Followers
<1>4. OneCall /\ Sharing /\ Serving /\ OnTop /\ Trail
  BY <1>2, <1>3, OneMiner DEF OneCall, Sharing, Serving, OnTop, Trail, Followers
<1> QED
  BY <1>1, <1>4 DEF RInv

-----------------------------------------------------------------------------
(* It is kept by every step.                                               *)

\* Steps that leave chains, calls and handlers alone.
LEMMA RKept ==
  ASSUME IInv, RInv,
         UNCHANGED << status, server_table, server, handler, newChain, serving, calls, udp >>,
         \A n \in Node : blockchain'[n].chain = blockchain[n].chain,
         \A n \in Node : main'[n] # "send",
         \A t \in Tx : home'[t] \in {Miner, Nobody},
         \A t \in Tx : pc[t] = "share" /\ pc'[t] # "share" =>
                        server[t] = << >> /\ ~Waiting(t) /\ Up(Miner),
         OnTop'
  PROVE  RInv'
<1>1. Blocks' = Blocks
  BY OneMiner DEF Blocks
<1>2. \A f \in Followers : /\ UpToDate(f)' <=> UpToDate(f)
                           /\ Behind(f)' <=> Behind(f)
  BY <1>1 DEF UpToDate, Behind, Followers
<1>3. Formed'
  BY DEF RInv, Formed
<1>4. OneCall'
  <2>1. \A c \in calls : pc'[c.caller] = "share"
    BY DEF RInv, OneCall, Waiting
  <2> QED
    BY <1>1, <1>2, <2>1 DEF RInv, OneCall
<1>5. Sharing'
  <2>1. \A t \in Tx : pc'[t] # "share" => server'[t] = << >>
    BY DEF RInv, Sharing
  <2>2. \A t \in Tx, f \in Followers : ToBeCalled(t, f) => ToBeCalled(t, f)'
    BY DEF RInv, Sharing, ToBeCalled, ToSet
  <2>3. \A f \in Followers : Called(f)' <=> Called(f)
    BY DEF Called
  <2>4. CutShort => CutShort'
    BY DEF CutShort, Up
  <2> QED
    BY <1>2, <2>1, <2>2, <2>3, <2>4 DEF RInv, Sharing
<1>6. Serving' /\ Trail'
  BY <1>1, <1>2 DEF RInv, Serving, Trail, Up
<1> QED
  BY <1>3, <1>4, <1>5, <1>6 DEF RInv

\* A mined block goes on top of the chain of the ledger.
LEMMA MinedOnTop ==
  ASSUME NEW ledger \in Ledger, GoodChain(ledger.chain),
         NEW ts \in Time, NEW reward \in Transaction
  PROVE  LET mined == MinePendingTransactions(ledger, ts, reward)
             block == NewBlock(ts, ledger.pending, GetLatestBlock(ledger.chain).hash)
         IN  /\ mined.chain = Append(ledger.chain, block)
             /\ mined.pending = << reward >>
             /\ block \in Block /\ block.transactions = ledger.pending
<1>1. ledger.chain \in Seq(Block) /\ ledger.pending \in Seq(Transaction) /\ ledger.chain # << >>
  BY DEF Ledger, GoodChain
<1>2. GetLatestBlock(ledger.chain).hash \in Hash
  BY <1>1, LatestBlockType
<1> QED
  BY <1>1, <1>2, NewBlockType DEF MinePendingTransactions, NewBlock

LEMMA RThread ==
  ASSUME IInv, MutualExclusion, RInv, NEW t \in Tx,
         \/ WaitMining(t) \/ WaitBlockchain(t) \/ AddTransaction(t) \/ CheckPending(t)
         \/ MineCopy(t) \/ CheckMined(t) \/ PostSemaphores(t)
  PROVE  RInv'
<1> USE DEF chainVars, nodeVars, semVars, ringVars, mainVars, rcfVars, threadVars, netVars
<1>0. /\ pc \in [Tx -> {"idle", "start", "mining", "add", "size", "copy", "check",
                   "length", "last", "install", "share", "done"}]
      /\ newBlockchain \in [Tx -> Ledger] /\ blockchain \in [Node -> Ledger]
  BY DEF IInv, TypeOK
<1>1. UNCHANGED << status, server_table, server, handler, newChain, serving, calls, udp,
                   main, home >>
  BY DEF WaitMining, WaitBlockchain, AddTransaction, CheckPending, MineCopy, CheckMined, Dropped,
         PostSemaphores
<1>2. /\ \A n \in Node : main'[n] # "send"
      /\ \A u \in Tx : home'[u] \in {Miner, Nobody}
  BY <1>1 DEF RInv, Formed
<1>3. \A u \in Tx : u # t => pc'[u] = pc[u] /\ newBlockchain'[u] = newBlockchain[u]
  BY <1>0 DEF WaitMining, WaitBlockchain, AddTransaction, CheckPending, MineCopy, CheckMined,
              Dropped, PostSemaphores
<1>4. home[t] = Miner
  <2>1. pc[t] # "idle"
    BY DEF WaitMining, WaitBlockchain, AddTransaction, CheckPending, MineCopy, CheckMined, Dropped,
           PostSemaphores, At
  <2> QED
    BY <2>1, NodesAndPayments DEF IInv, Wiring, RInv, Formed
<1>5. \A n \in Node : blockchain'[n].chain = blockchain[n].chain
  <2>1. CASE AddTransaction(t)
    <3> DEFINE tx == Payment(arg_mine[home[t]][slot[t]])
    <3>1. CreateTransaction(blockchain[Miner], tx).chain = blockchain[Miner].chain
      BY <1>0, OneMiner DEF CreateTransaction, Ledger
    <3> QED
      BY <1>0, <1>4, <2>1, <3>1 DEF AddTransaction
  <2>2. CASE ~AddTransaction(t)
    BY <2>2 DEF WaitMining, WaitBlockchain, CheckPending, MineCopy, CheckMined, Dropped,
                    PostSemaphores
  <2> QED
    BY <2>1, <2>2
<1>6. \A u \in Tx : pc[u] = "share" /\ pc'[u] # "share" =>
                     server[u] = << >> /\ ~Waiting(u) /\ Up(Miner)
  <2>1. CASE PostSemaphores(t)
    BY <1>3, <1>4, <2>1 DEF PostSemaphores, At
  <2>2. CASE ~PostSemaphores(t)
    BY <1>3, <2>2 DEF WaitMining, WaitBlockchain, AddTransaction, CheckPending, MineCopy,
                      CheckMined, Dropped, At
  <2> QED
    BY <2>1, <2>2
<1>7. OnTop'
  <2>1. Blocks' = Blocks
    BY <1>5, OneMiner DEF Blocks
  <2>2. ASSUME pc'[t] \in {"check", "install"}
        PROVE  \E b \in Block : newBlockchain'[t].chain = Append(Blocks, b)
    <3>1. CASE MineCopy(t)
      <4>1. PICK ts \in Time : newBlockchain'[t] =
                                 MinePendingTransactions(blockchain[Miner], ts, Reward(Miner))
        BY <1>0, <1>4, <3>1 DEF MineCopy
      <4> QED
        BY <4>1, MinedOnTop, ChainTypes, TransactionTypes, OneMiner DEF Blocks
    <3>2. CASE CheckMined(t)
      BY <1>0, <2>2, <3>2 DEF CheckMined, Dropped, At, RInv, OnTop
    <3>3. CASE ~MineCopy(t) /\ ~CheckMined(t)
      BY <1>0, <2>2, <3>3 DEF WaitMining, WaitBlockchain, AddTransaction, CheckPending,
                              PostSemaphores, At
    <3> QED
      BY <3>1, <3>2, <3>3
  <2>3. ASSUME NEW u \in Tx, u # t, pc'[u] \in {"check", "install"}
        PROVE  \E b \in Block : newBlockchain'[u].chain = Append(Blocks, b)
    BY <1>3, <2>3 DEF RInv, OnTop
  <2>4. pc'[t] \notin {"length", "last"}
    <3>1. CASE CheckMined(t)
      BY <1>0, <3>1, MinedIsKept
    <3>2. CASE ~CheckMined(t)
      BY <1>0, <3>2 DEF WaitMining, WaitBlockchain, AddTransaction, CheckPending, MineCopy,
                        PostSemaphores
    <3> QED
      BY <3>1, <3>2
  <2>5. \A u \in Tx : u # t => pc'[u] \notin {"length", "last"}
    BY <1>3 DEF RInv, OnTop
  <2> QED
    BY <2>1, <2>2, <2>3, <2>4, <2>5 DEF OnTop
<1> QED
  BY <1>1, <1>2, <1>5, <1>6, <1>7, RKept

\* While a thread is about to install its block nobody shares: all are up to date.
LEMMA NobodyShares ==
  ASSUME IInv, MutualExclusion, RInv, NEW t \in Tx, HoldsMining(t), pc[t] # "share"
  PROVE  /\ \A u \in Tx : pc[u] # "share" /\ server[u] = << >>
         /\ calls = {}
         /\ Up(Miner) => \A f \in Followers : UpToDate(f)
<1>1. \A u \in Tx : pc[u] # "share"
  BY OneHolder DEF HoldsMining, RInv
<1>2. \A u \in Tx : server[u] = << >>
  BY <1>1 DEF RInv, Sharing
<1>3. calls = {}
  BY <1>1 DEF RInv, OneCall
<1> QED
  BY <1>1, <1>2, <1>3 DEF RInv, Sharing, Called, ToBeCalled, CutShort

LEMMA RInstall ==
  ASSUME IInv, MutualExclusion, RInv, NEW t \in Tx, InstallMined(t)
  PROVE  RInv'
<1> USE DEF chainVars, nodeVars, semVars, ringVars, mainVars, rcfVars, threadVars, netVars
<1>0. /\ pc \in [Tx -> {"idle", "start", "mining", "add", "size", "copy", "check",
                   "length", "last", "install", "share", "done"}]
      /\ blockchain \in [Node -> Ledger] /\ server \in [Tx -> Seq(Node)]
      /\ newBlockchain \in [Tx -> Ledger] /\ Miner \in Node
  BY OneMiner DEF IInv, TypeOK
<1>1. HoldsMining(t) /\ pc[t] = "install"
  BY DEF InstallMined, At, HoldsMining
<1>2. home[t] = Miner /\ Up(Miner)
  BY <1>1, OneHolder DEF InstallMined, At, RInv
<1>3. /\ \A u \in Tx : pc[u] # "share" /\ server[u] = << >>
      /\ calls = {} /\ \A f \in Followers : UpToDate(f)
  BY <1>1, <1>2, NobodyShares
<1>4. PICK b \in Block : newBlockchain[t].chain = Append(Blocks, b)
  BY <1>1 DEF RInv, OnTop
<1>5. /\ Blocks \in Seq(Block) /\ Blocks # << >>
  BY <1>0, ChainTypes DEF Blocks
<1>6. Blocks' = Append(Blocks, b) /\ GetLatestBlock(Blocks') = b
  BY <1>0, <1>2, <1>4, <1>5 DEF InstallMined, Blocks, GetLatestBlock
<1>7. \A f \in Followers : Behind(f)'
  <2> TAKE f \in Followers
  <2>1. f \in Node /\ f # Miner /\ blockchain[f].chain = Blocks
    BY <1>3 DEF UpToDate, Followers
  <2>2. blockchain'[f].chain = Blocks
    BY <1>0, <1>2, <2>1 DEF InstallMined
  <2> QED
    BY <1>5, <1>6, <2>2 DEF Behind, GetLatestBlock
<1>8. server'[t] = InitialTable[Miner] /\ \A u \in Tx : u # t => server'[u] = << >>
  BY <1>0, <1>2, <1>3 DEF InstallMined, RInv, Formed
<1>9. IsInjective(InitialTable[Miner]) /\ ToSet(InitialTable[Miner]) = Followers
  BY <1>0, Deployment, FormedNetwork DEF Followers
<1>10. pc'[t] = "share" /\ \A u \in Tx : u # t => pc'[u] = pc[u]
  BY <1>0 DEF InstallMined
<1>11. IsInjective(<< >>) /\ ToSet(<< >>) = {}
  BY DEF IsInjective, ToSet
<1>12. Formed' /\ OneCall'
  BY <1>3 DEF InstallMined, RInv, Formed, OneCall
<1>13. Sharing'
  <2>1. \A u \in Tx : pc'[u] # "share" => server'[u] = << >>
    BY <1>8, <1>10
  <2>2. \A u \in Tx : /\ IsInjective(server'[u]) /\ ToSet(server'[u]) \subseteq Followers
                      /\ \A f \in ToSet(server'[u]) : Behind(f)'
    BY <1>7, <1>8, <1>9, <1>11
  <2>3. \A f \in Followers : ToBeCalled(t, f)'
    BY <1>8, <1>9, <1>10 DEF ToBeCalled
  <2> QED
    BY <2>1, <2>2, <2>3 DEF Sharing
<1>14. Serving'
  <2>1. \A f \in Followers : ~(Up(f) /\ handler[f] # "idle")
    BY <1>3 DEF RInv, Serving
  <2> QED
    BY <2>1 DEF InstallMined, RInv, Serving, Up
<1>15. OnTop'
  <2>1. \A u \in Tx : pc[u] \in {"check", "install"} => u = t
    BY <1>1, OneHolder DEF HoldsMining, RInv
  <2>2. \A u \in Tx : pc'[u] \notin {"length", "last"}
    BY <1>10 DEF RInv, OnTop
  <2> QED
    BY <1>10, <2>1, <2>2 DEF OnTop
<1> QED
  BY <1>7, <1>12, <1>13, <1>14, <1>15 DEF RInv, Trail

LEMMA RShare ==
  ASSUME IInv, MutualExclusion, RInv, NEW t \in Tx, ShareBlock(t)
  PROVE  RInv'
<1> USE DEF chainVars, nodeVars, semVars, ringVars, mainVars, rcfVars, threadVars, netVars
<1>0. /\ server \in [Tx -> Seq(Node)] /\ Miner \in Node
  BY OneMiner DEF IInv, TypeOK
<1>1. HoldsMining(t) /\ pc[t] = "share" /\ ~Waiting(t) /\ server[t] # << >>
  BY DEF ShareBlock, At, HoldsMining
<1>2. home[t] = Miner /\ Up(Miner)
  BY <1>1, OneHolder DEF RInv, ShareBlock, At
<1>3. \A u \in Tx : pc[u] = "share" => u = t
  BY <1>1, OneHolder DEF RInv, HoldsMining
<1>4. calls = {}
  BY <1>1, <1>3 DEF RInv, OneCall, Waiting
<1> DEFINE f == Head(server[t])
           c == [procedure |-> "sendBlock", caller |-> t, to |-> f,
                 block |-> GetLatestBlock(Blocks)]
<1>5. calls' = {c}
  BY <1>2, <1>4 DEF ShareBlock, Blocks
<1>6. server'[t] = Tail(server[t]) /\ \A u \in Tx : u # t => server'[u] = server[u]
  BY <1>0 DEF ShareBlock
<1>7. /\ f \in ToSet(server[t]) /\ f \notin ToSet(Tail(server[t]))
      /\ ToSet(server[t]) = {f} \cup ToSet(Tail(server[t]))
      /\ IsInjective(Tail(server[t]))
  BY <1>0, <1>1, TailInjective DEF RInv, Sharing
<1>8. UNCHANGED << pc, Blocks >>
  BY DEF ShareBlock, Blocks
<1>9. \A g \in Followers : /\ Behind(g)' <=> Behind(g)
                           /\ UpToDate(g)' <=> UpToDate(g)
  BY <1>8 DEF ShareBlock, Behind, UpToDate
<1>10. f \in Followers /\ Behind(f)
  BY <1>7 DEF RInv, Sharing
<1>11. Formed'
  BY DEF ShareBlock, RInv, Formed
<1>12. OneCall'
  BY <1>1, <1>5, <1>6, <1>7, <1>8, <1>9, <1>10 DEF OneCall
<1>13. Sharing'
  <2>1. \A u \in Tx : pc'[u] # "share" => server'[u] = << >>
    BY <1>1, <1>6, <1>8 DEF RInv, Sharing
  <2>2. \A u \in Tx : /\ IsInjective(server'[u]) /\ ToSet(server'[u]) \subseteq ToSet(server[u])
    BY <1>6, <1>7 DEF RInv, Sharing
  <2>3. ASSUME NEW g \in Followers, ~UpToDate(g)
        PROVE  Called(g)' \/ ToBeCalled(t, g)'
    <3>1. PICK u \in Tx : ToBeCalled(u, g)
      BY <1>2, <1>4, <2>3 DEF RInv, Sharing, Called, CutShort
    <3>2. g \in ToSet(server[t])
      BY <1>3, <3>1 DEF ToBeCalled
    <3> QED
      BY <1>1, <1>5, <1>6, <1>7, <1>8, <3>2 DEF Called, ToBeCalled
  <2> QED
    BY <1>9, <1>10, <2>1, <2>2, <2>3 DEF RInv, Sharing
<1>14. Serving'
  <2>1. \A g \in Followers : ~(Up(g) /\ handler[g] # "idle")
    BY <1>4 DEF RInv, Serving
  <2> QED
    BY <2>1 DEF ShareBlock, RInv, Serving, Up
<1>15. OnTop' /\ Trail'
  BY <1>8, <1>9 DEF ShareBlock, RInv, OnTop, Trail
<1> QED
  BY <1>11, <1>12, <1>13, <1>14, <1>15 DEF RInv

\* A node that ends.
LEMMA REnd ==
  ASSUME IInv, RInv, NEW n \in Node, status' = [status EXCEPT ![n] = "down"],
         calls' \subseteq calls, \A c \in calls \ calls' : ~Up(c.to) /\ n = Miner,
         UNCHANGED << blockchain, server_table, main, handler, newChain, serving, pc, home,
                      newBlockchain, server, udp >>
  PROVE  RInv'
<1>0. status \in [Node -> {"off", "up", "down"}] /\ Miner \in Node
  BY OneMiner DEF IInv, TypeOK
<1>1. /\ \A m \in Node : Up(m)' => Up(m) /\ m # n
      /\ \A m \in Node : status'[m] # "off"
  BY <1>0 DEF Up, RInv, Formed
<1>2. Blocks' = Blocks
  BY DEF Blocks
<1>3. \A f \in Followers : /\ UpToDate(f)' <=> UpToDate(f)
                           /\ Behind(f)' <=> Behind(f)
  BY <1>2 DEF UpToDate, Behind
<1>4. Formed' /\ OneCall' /\ OnTop' /\ Trail'
  BY <1>1, <1>2, <1>3 DEF RInv, Formed, OneCall, OnTop, Trail
<1>5. Sharing'
  <2>1. CutShort => CutShort'
    BY <1>0, <1>1 DEF CutShort
  <2>2. \A f \in Followers, t \in Tx : ToBeCalled(t, f)' <=> ToBeCalled(t, f)
    BY DEF ToBeCalled
  <2>3. \A f \in Followers : Called(f) => Called(f)' \/ CutShort'
    <3>1. CASE n = Miner
      BY <1>0, <1>1, <3>1 DEF RInv, OneCall, Called, CutShort
    <3>2. CASE n # Miner
      BY <3>2 DEF Called
    <3> QED
      BY <3>1, <3>2
  <2> QED
    BY <1>3, <2>1, <2>2, <2>3 DEF RInv, Sharing
<1>6. Serving'
  <2>1. ASSUME NEW f \in Followers, Up(f)', handler[f] # "idle"
        PROVE  \E c \in calls' : c.to = f /\ c.caller = serving[f]
    <3>1. Up(f)
      BY <1>1, <2>1 DEF Followers
    <3>2. PICK c \in calls : c.to = f /\ c.caller = serving[f]
      BY <2>1, <3>1 DEF RInv, Serving
    <3> QED
      BY <3>1, <3>2
  <2> QED
    BY <1>1, <1>2, <2>1 DEF RInv, Serving, Followers
<1> QED
  BY <1>4, <1>5, <1>6 DEF RInv

LEMMA RStops ==
  ASSUME IInv, RInv
  PROVE  /\ \A n \in Node : Stop(n) => RInv'
         /\ \A c \in calls : CallFails(c) => RInv'
<1> USE DEF chainVars, nodeVars, semVars, ringVars, mainVars, rcfVars, threadVars, netVars
<1>1. ASSUME NEW n \in Node, Stop(n) PROVE RInv'
  BY <1>1, REnd DEF Stop
<1>2. ASSUME NEW c \in calls, CallFails(c) PROVE RInv'
  <2>1. c.caller \in Tx /\ HomeOf(c.caller) = home[c.caller] /\ pc[c.caller] = "share"
    BY DEF RInv, OneCall, HomeOf
  <2>2. home[c.caller] \in Node /\ home[c.caller] \in {Miner, Nobody}
    BY <2>1 DEF IInv, Wiring, RInv, Formed
  <2>3. home[c.caller] = Miner
    BY <2>2, NodesAndPayments
  <2> QED
    BY <1>2, <2>1, <2>2, <2>3, REnd DEF CallFails
<1> QED
  BY <1>1, <1>2

LEMMA RMain ==
  ASSUME IInv, RInv, NEW n \in Node,
         \/ \E t \in Tx : TransactionReceived(n, t)
         \/ AskBalance(n) \/ AnswerBalance(n) \/ DecayQuality(n)
  PROVE  RInv'
<1> USE DEF chainVars, nodeVars, semVars, ringVars, mainVars, rcfVars, threadVars, netVars
<1>0. /\ pc \in [Tx -> {"idle", "start", "mining", "add", "size", "copy", "check",
                   "length", "last", "install", "share", "done"}]
      /\ blockchain \in [Node -> Ledger] /\ main \in [Node -> {"loop", "balance", "send"}]
      /\ home \in [Tx -> Node \cup {Nobody}] /\ Miner \in Node
  BY OneMiner DEF IInv, TypeOK
<1>1. CASE AskBalance(n) \/ AnswerBalance(n) \/ DecayQuality(n)
  <2>1. /\ UNCHANGED << status, server_table, server, handler, newChain, serving, calls, udp,
                        blockchain, pc, home, newBlockchain >>
        /\ \A m \in Node : main'[m] # "send"
    BY <1>0, <1>1 DEF AskBalance, AnswerBalance, DecayQuality, RInv, Formed
  <2>2. OnTop'
    BY <2>1 DEF OnTop, RInv, Blocks
  <2>3. \A t \in Tx : home'[t] \in {Miner, Nobody}
    BY <2>1 DEF RInv, Formed
  <2> QED
    BY <2>1, <2>2, <2>3, RKept
<1>2. CASE \E t \in Tx : TransactionReceived(n, t)
  <2> PICK t \in Tx : TransactionReceived(n, t)
    BY <1>2
  <2>1. /\ UNCHANGED << status, server_table, server, handler, newChain, serving, calls, udp,
                        main, newBlockchain >>
        /\ pc[t] = "idle" /\ pc' = [pc EXCEPT ![t] = "start"]
        /\ home' = [home EXCEPT ![t] = n] /\ n \in Target[t]
        /\ \/ blockchain' = [blockchain EXCEPT ![n] = CreateTransaction(@, Bonus(t))]
           \/ blockchain' = blockchain
    BY DEF TransactionReceived
  <2>2. n = Miner
    BY <2>1, OneMiner
  <2>3. CreateTransaction(blockchain[n], Bonus(t)).chain = blockchain[n].chain
    BY <1>0, TransactionTypes, CreateTransactionType
  <2>4. \A m \in Node : blockchain'[m].chain = blockchain[m].chain
    BY <1>0, <2>1, <2>3
  <2>5. OnTop'
    <3>1. Blocks' = Blocks
      BY <1>0, <2>4 DEF Blocks
    <3>2. \A u \in Tx : pc'[u] \in {"check", "install"} => pc[u] \in {"check", "install"}
      BY <1>0, <2>1
    <3> QED
      BY <2>1, <3>1, <3>2 DEF RInv, OnTop
  <2>6. /\ \A m \in Node : main'[m] # "send"
        /\ \A u \in Tx : home'[u] \in {Miner, Nobody}
        /\ \A u \in Tx : pc[u] = "share" => pc'[u] = "share"
    BY <1>0, <2>1, <2>2 DEF RInv, Formed
  <2> QED
    BY <2>1, <2>4, <2>5, <2>6, RKept
<1> QED
  BY <1>1, <1>2

LEMMA RHandler ==
  ASSUME IInv, MutualExclusion, RInv, NEW n \in Node,
         ReceiveBlock(n) \/ BlockValid(n) \/ InstallBlock(n)
  PROVE  RInv'
<1> USE DEF chainVars, nodeVars, semVars, ringVars, mainVars, rcfVars, threadVars, netVars
<1>0. /\ handler \in [Node -> {"idle", "chain", "compare", "digest", "requeue", "walk", "adopt",
                            "block", "extend"}]
      /\ newChain \in [Node -> Ledger] /\ serving \in [Node -> Caller \cup {Nobody}]
      /\ blockchain \in [Node -> Ledger] /\ Miner \in Node
  BY OneMiner DEF IInv, TypeOK
\* Steps that only move the handler of n.
<1>1. ASSUME UNCHANGED << blockchain, status, server_table, main, pc, home, newBlockchain,
                          server, calls, udp >>,
             Serving'
      PROVE  RInv'
  <2>1. Blocks' = Blocks
    BY <1>1 DEF Blocks
  <2>2. \A f \in Followers : /\ UpToDate(f)' <=> UpToDate(f)
                             /\ Behind(f)' <=> Behind(f)
                             /\ Called(f)' <=> Called(f)
                             /\ \A t \in Tx : ToBeCalled(t, f)' <=> ToBeCalled(t, f)
    BY <1>1, <2>1 DEF UpToDate, Behind, Called, ToBeCalled
  <2>3. Formed' /\ OneCall' /\ OnTop' /\ Trail'
    BY <1>1, <2>1, <2>2 DEF RInv, Formed, OneCall, OnTop, Trail
  <2>4. CutShort => CutShort'
    BY <1>1 DEF CutShort, Up
  <2>5. Sharing'
    BY <1>1, <2>2, <2>4 DEF RInv, Sharing
  <2> QED
    BY <1>1, <2>3, <2>5 DEF RInv
<1>2. CASE ReceiveBlock(n)
  <2>1. PICK c \in calls : ReceiveBlock(n)!2!(c)
    BY <1>2 DEF ReceiveBlock
  <2>2. n \in Followers
    BY <2>1 DEF RInv, OneCall
  <2>3. Append(blockchain[n].chain, c.block) = Blocks
    BY <2>1, CallCompletes DEF RInv
  <2>4. newChain'[n].chain = Blocks /\ serving'[n] = c.caller /\ handler'[n] = "block"
    BY <1>0, <1>2, <2>1, <2>3, LedgerFields DEF ReceiveBlock, Ledger
  <2>5. \A m \in Node : m # n => /\ newChain'[m] = newChain[m] /\ serving'[m] = serving[m]
                                 /\ handler'[m] = handler[m]
    BY <1>0, <1>2, <2>1 DEF ReceiveBlock
  <2>6. Serving'
    BY <1>2, <2>1, <2>2, <2>4, <2>5 DEF ReceiveBlock, RInv, Serving, Followers, Blocks, Up
  <2> QED
    BY <1>1, <1>2, <2>6 DEF ReceiveBlock
<1>3. CASE BlockValid(n)
  <2>1. n # Miner /\ handler[n] = "block"
    BY <1>3 DEF BlockValid, Handling, RInv, Serving
  <2>2. Serving'
    BY <1>0, <1>3, <2>1 DEF BlockValid, RInv, Serving, Followers, Blocks, Up
  <2> QED
    BY <1>1, <1>3, <2>2 DEF BlockValid
<1>4. CASE InstallBlock(n)
  <2>1. Up(n) /\ handler[n] = "extend" /\ n \in Followers /\ n # Miner
    BY <1>4 DEF InstallBlock, Handling, RInv, Serving, Followers
  <2>2. newChain[n].chain = Blocks
    BY <2>1 DEF RInv, Serving
  <2>3. PICK c \in calls : c.to = n /\ c.caller = serving[n]
    BY <2>1 DEF RInv, Serving
  <2>4. calls = {c} /\ calls' = {}
    BY <1>4, <2>3 DEF InstallBlock, Return, RInv, OneCall
  <2>5. /\ blockchain'[n].chain = Blocks
        /\ \A m \in Node : m # n => blockchain'[m] = blockchain[m]
        /\ handler'[n] = "idle" /\ \A m \in Node : m # n => handler'[m] = handler[m]
    BY <1>0, <1>4, <2>2 DEF InstallBlock, Return
  <2>6. UNCHANGED << status, server_table, main, pc, home, newBlockchain, server, udp >>
    BY <1>4 DEF InstallBlock
  <2>7. Blocks' = Blocks
    BY <1>0, <2>1, <2>5 DEF Blocks
  <2>8. UpToDate(n)' /\ \A f \in Followers : f # n => /\ UpToDate(f)' <=> UpToDate(f)
                                                      /\ Behind(f)' <=> Behind(f)
    BY <2>1, <2>5, <2>7 DEF UpToDate, Behind, Followers
  <2>9. \A t \in Tx : n \notin ToSet(server[t])
    <3> TAKE t \in Tx
    <3>1. CASE pc[t] = "share"
      <4>1. t = c.caller
        BY <3>1, OneHolder DEF RInv, OneCall, HoldsMining
      <4> QED
        BY <2>3, <4>1 DEF RInv, OneCall
    <3>2. CASE pc[t] # "share"
      BY <3>2 DEF RInv, Sharing, ToSet
    <3> QED
      BY <3>1, <3>2
  <2>10. Formed' /\ OneCall' /\ OnTop' /\ Trail'
    BY <2>4, <2>6, <2>7, <2>8 DEF RInv, Formed, OneCall, OnTop, Trail
  <2>11. Sharing'
    <3>1. \A f \in Followers : Called(f) => f = n
      BY <2>3, <2>4 DEF Called
    <3>2. \A f \in Followers, t \in Tx : ToBeCalled(t, f)' <=> ToBeCalled(t, f)
      BY <2>6 DEF ToBeCalled
    <3>3. \A t \in Tx : \A f \in ToSet(server'[t]) : Behind(f)'
      <4> TAKE t \in Tx
      <4> TAKE f \in ToSet(server'[t])
      <4>1. f \in ToSet(server[t]) /\ f # n
        BY <2>6, <2>9
      <4>2. f \in Followers /\ Behind(f)
        BY <4>1 DEF RInv, Sharing
      <4> QED
        BY <2>8, <4>1, <4>2
    <3>4. ASSUME NEW f \in Followers
          PROVE  UpToDate(f)' \/ CutShort' \/ \E t \in Tx : ToBeCalled(t, f)'
      <4>1. CASE f = n
        BY <2>8, <4>1
      <4>2. CASE f # n
        <5>1. UpToDate(f) \/ Called(f) \/ CutShort \/ \E t \in Tx : ToBeCalled(t, f)
          BY DEF RInv, Sharing
        <5>2. CutShort => CutShort'
          BY <2>6 DEF CutShort, Up
        <5> QED
          BY <2>8, <3>1, <3>2, <4>2, <5>1, <5>2
      <4> QED
        BY <4>1, <4>2
    <3> QED
      BY <2>6, <3>3, <3>4 DEF RInv, Sharing
  <2>12. Serving'
    <3>1. \A f \in Followers : f # n => ~(Up(f) /\ handler[f] # "idle")
      <4> SUFFICES ASSUME NEW f \in Followers, f # n, Up(f), handler[f] # "idle" PROVE FALSE
        OBVIOUS
      <4>1. \E d \in calls : d.to = f
        BY DEF RInv, Serving
      <4> QED
        BY <2>3, <2>4, <4>1
    <3> QED
      BY <1>0, <2>1, <2>5, <2>6, <3>1 DEF RInv, Serving, Followers, Up
  <2> QED
    BY <2>10, <2>11, <2>12 DEF RInv
<1> QED
  BY <1>2, <1>3, <1>4

LEMMA RStep == IInv /\ MutualExclusion /\ RInv /\ [Next]_vars => RInv'
<1> SUFFICES ASSUME IInv, MutualExclusion, RInv, [Next]_vars PROVE RInv'
  OBVIOUS
<1>1. ASSUME NEW n \in Node, \/ AskBalance(n) \/ DecayQuality(n) \/ MainStep(n)
                             \/ \E t \in Tx : TransactionReceived(n, t)
      PROVE  RInv'
  BY <1>1, RMain, NeverThere DEF MainStep
<1>2. ASSUME NEW n \in Node, HandlerStep(n) PROVE RInv'
  BY <1>2, RHandler, NeverThere DEF HandlerStep
<1>3. ASSUME NEW t \in Tx, ThreadStep(t) PROVE RInv'
  BY <1>3, RThread, RInstall, RShare, MinerStep
<1>4. ASSUME NEW m \in udp, LoseDatagram(m) PROVE FALSE
  BY DEF RInv, Formed
<1>5. CASE UNCHANGED vars
  <2>1. OnTop'
    BY <1>5 DEF vars, chainVars, threadVars, RInv, OnTop, Blocks
  <2> QED
    BY <1>5, <2>1, RKept DEF vars, chainVars, nodeVars, mainVars, rcfVars, threadVars, netVars,
                             RInv, Formed
<1> QED
  BY <1>1, <1>2, <1>3, <1>4, <1>5, RStops, NeverThere DEF Next

LEMMA RAlways == Safety => [](IInv /\ MutualExclusion /\ RInv)
<1>1. Safety => [][Next]_vars /\ Init
  BY DEF Safety
<1> QED
  BY <1>1, RInit, RStep, Invariance, Mutex, PTL

-----------------------------------------------------------------------------
(* What follows from it.                                                   *)

LEMMA PrefixOfAppend ==
  ASSUME NEW S, NEW s \in Seq(S), NEW e \in S
  PROVE  /\ IsPrefix(s, s) /\ IsPrefix(s, Append(s, e))
         /\ Len(Append(s, e)) = Len(s) + 1 /\ Append(s, e) # s
<1> DEFINE longer == Append(s, e)
<1>1. /\ longer \in Seq(S) /\ Len(longer) = Len(s) + 1 /\ Len(s) \in Nat
      /\ \A i \in 1..Len(s) : longer[i] = s[i]
  OBVIOUS
<1> HIDE DEF longer
<1>2. SubSeq(longer, 1, Len(s)) = SubSeq(s, 1, Len(s))
  BY <1>1
<1>3. IsPrefix(s, longer) /\ IsPrefix(s, s)
  BY <1>1, <1>2 DEF IsPrefix
<1> QED
  BY <1>1, <1>3 DEF longer

\* Where one node mines, a follower has its chain or its chain without the last
\* block, at every step: threadMine shares a block with every peer before it
\* gives sem_blockchain back.
THEOREM FollowersAlwaysTrail == Safety => []FollowersTrail
<1>1. IInv /\ RInv => FollowersTrail
  <2> SUFFICES ASSUME IInv, RInv, NEW m \in Miners, NEW n \in Node
               PROVE  /\ IsPrefix(blockchain[n].chain, blockchain[m].chain)
                      /\ Len(blockchain[m].chain) <= Len(blockchain[n].chain) + 1
    BY DEF FollowersTrail
  <2>1. m = Miner /\ Miner \in Node
    BY OneMiner DEF Miners
  <2>2. /\ Blocks \in Seq(Block) /\ GetLatestBlock(Blocks) \in Block
        /\ blockchain[n].chain \in Seq(Block)
    BY <2>1, ChainTypes DEF Blocks
  <2>3. \/ blockchain[n].chain = Blocks
        \/ Blocks = Append(blockchain[n].chain, GetLatestBlock(Blocks))
    BY DEF RInv, Trail, UpToDate, Behind, Followers, Blocks
  <2> DEFINE chain == blockchain[n].chain
             last  == GetLatestBlock(Blocks)
  <2>4. /\ IsPrefix(chain, chain) /\ IsPrefix(chain, Append(chain, last))
        /\ Len(Append(chain, last)) = Len(chain) + 1 /\ Len(chain) \in Nat
    BY <2>2, PrefixOfAppend
  <2> HIDE DEF last
  <2>5. IsPrefix(chain, Blocks) /\ Len(Blocks) <= Len(chain) + 1
    <3>1. CASE chain = Blocks
      BY <2>4, <3>1
    <3>2. CASE Blocks = Append(chain, last)
      BY <2>4, <3>2
    <3> QED
      BY <2>3, <3>1, <3>2 DEF last
  <2> QED
    BY <2>1, <2>5 DEF Blocks
<1> QED
  BY <1>1, RAlways, PTL

\* When no thread, call or datagram is left, the nodes that still run hold the
\* same chain, whichever nodes stopped meanwhile.
THEOREM AlwaysAgree == Safety => []Agreement
<1>1. IInv /\ RInv => Agreement
  <2> SUFFICES ASSUME IInv, RInv, Quiet PROVE \A n \in Node : blockchain[n].chain = Blocks
    BY DEF Agreement
  <2>1. \A t \in Tx : pc[t] # "share"
    BY DEF Quiet
  <2>2. \A f \in Followers : ~Called(f) /\ \A t \in Tx : ~ToBeCalled(t, f)
    BY <2>1 DEF Quiet, Called, ToBeCalled
  <2>3. \A f \in Followers : UpToDate(f)
    BY <2>1, <2>2 DEF RInv, Sharing, CutShort
  <2> QED
    BY <2>3 DEF Followers, UpToDate, Blocks
<1> QED
  BY <1>1, RAlways, PTL

-----------------------------------------------------------------------------
(* The network implements a replicated log.                                *)

\* Two steps only change a chain.
LEMMA ChainSteps ==
  ASSUME IInv, RInv, [Next]_vars
  PROVE  \/ \E t \in Tx : InstallMined(t)
         \/ \E n \in Node : InstallBlock(n)
         \/ \A n \in Node : blockchain'[n].chain = blockchain[n].chain
<1> DEFINE Kept == \A n \in Node : blockchain'[n].chain = blockchain[n].chain
<1> USE DEF chainVars, nodeVars, semVars, ringVars, mainVars, rcfVars, threadVars, netVars
<1>0. blockchain \in [Node -> Ledger]
  BY DEF IInv, TypeOK
<1>1. ASSUME NEW n \in Node, NEW tx \in Transaction,
             blockchain' = [blockchain EXCEPT ![n] = CreateTransaction(@, tx)]
      PROVE  Kept
  BY <1>0, <1>1, CreateTransactionType
<1>2. ASSUME NEW t \in Tx, ThreadStep(t), ~InstallMined(t) PROVE Kept
  <2>1. CASE AddTransaction(t)
    <3>1. home[t] \in Node /\ arg_mine[home[t]][slot[t]] \in Tx
      BY <2>1 DEF AddTransaction, At, IInv, Wiring
    <3>2. Payment(arg_mine[home[t]][slot[t]]) \in Transaction
      BY <3>1, TransactionTypes
    <3> QED
      BY <1>1, <2>1, <3>1, <3>2 DEF AddTransaction
  <2>2. CASE ~AddTransaction(t)
    BY <1>2, <2>2, MinerStep DEF WaitMining, WaitBlockchain, CheckPending, MineCopy,
                                 CheckMined, Dropped, ShareBlock, PostSemaphores
  <2> QED
    BY <2>1, <2>2
<1>3. ASSUME NEW n \in Node, NEW t \in Tx, TransactionReceived(n, t) PROVE Kept
  <2>1. \/ blockchain' = [blockchain EXCEPT ![n] = CreateTransaction(@, Bonus(t))]
        \/ blockchain' = blockchain
    BY <1>3 DEF TransactionReceived
  <2> QED
    BY <1>1, <2>1, TransactionTypes
<1>4. ASSUME NEW n \in Node, HandlerStep(n), ~InstallBlock(n) PROVE Kept
  BY <1>4, NeverThere DEF HandlerStep, ReceiveBlock, BlockValid
<1>5. ASSUME NEW n \in Node, \/ Stop(n) \/ AskBalance(n) \/ DecayQuality(n) \/ MainStep(n)
      PROVE  Kept
  BY <1>5, NeverThere DEF Stop, AskBalance, DecayQuality, MainStep, AnswerBalance
<1>6. ASSUME \/ \E c \in calls : CallFails(c)
             \/ \E m \in udp : LoseDatagram(m)
             \/ UNCHANGED vars
      PROVE  Kept
  BY <1>6 DEF CallFails, LoseDatagram, vars
<1> HIDE DEF Kept
<1>7. (\E t \in Tx : InstallMined(t)) \/ (\E n \in Node : InstallBlock(n)) \/ Kept
  BY <1>2, <1>3, <1>4, <1>5, <1>6, NeverThere DEF Next
<1> QED
  BY <1>7 DEF Kept

LEMMA LogInit == Init => Log!Init
<1> SUFFICES ASSUME Init PROVE Log!Init
  OBVIOUS
<1> PICK ts \in Time : Init!(ts)
  BY DEF Init
<1>1. \A n \in Node : blockchain[n].chain = NewLedger(ts).chain
  OBVIOUS
<1>2. Len(NewLedger(ts).chain) = 1
  BY DEF NewLedger
<1> QED
  BY <1>1, <1>2, OneMiner DEF Log!Init

LEMMA LogStep ==
  ASSUME IInv, MutualExclusion, RInv, [Next]_vars
  PROVE  [Log!Next]_(Log!vars)
<1> USE DEF chainVars, nodeVars, semVars, ringVars, mainVars, rcfVars, threadVars, netVars
<1>0. /\ blockchain \in [Node -> Ledger] /\ newBlockchain \in [Tx -> Ledger] /\ Miner \in Node
      /\ Blocks \in Seq(Block) /\ Blocks # << >>
  BY OneMiner, ChainTypes DEF IInv, TypeOK, Blocks
<1>1. ASSUME NEW t \in Tx, InstallMined(t) PROVE Log!Grow
  <2>1. HoldsMining(t) /\ pc[t] = "install" /\ Up(home[t])
    BY <1>1 DEF InstallMined, At, HoldsMining
  <2>2. home[t] = Miner /\ Up(Miner)
    BY <2>1, OneHolder DEF RInv
  <2>3. \A f \in Followers : UpToDate(f)
    BY <2>1, <2>2, NobodyShares
  <2>4. PICK b \in Block : newBlockchain[t].chain = Append(Blocks, b)
    BY <2>1 DEF RInv, OnTop
  <2>5. Blocks' = Append(Blocks, b)
    BY <1>0, <1>1, <2>2, <2>4 DEF InstallMined, Blocks
  <2>6. Len(Blocks') = Len(Blocks) + 1 /\ IsPrefix(Blocks, Blocks')
    BY <1>0, <2>5, PrefixOfAppend
  <2>7. \A f \in Node \ {Miner} : blockchain'[f].chain = blockchain[f].chain
    BY <1>0, <1>1, <2>2 DEF InstallMined
  <2>8. Log!IsPrefix(Blocks, Blocks')
    BY <2>6 DEF IsPrefix, Log!IsPrefix
  <2> QED
    BY <2>3, <2>6, <2>7, <2>8 DEF Log!Grow, Log!UpToDate, Blocks, Followers, UpToDate
<1>2. ASSUME NEW n \in Node, InstallBlock(n) PROVE n \in Followers /\ Log!Deliver(n)
  <2>1. Up(n) /\ handler[n] = "extend" /\ n \in Followers
    BY <1>2 DEF InstallBlock, Handling, RInv, Serving, Followers
  <2>2. newChain[n].chain = Blocks
    BY <2>1 DEF RInv, Serving
  <2>3. Behind(n)
    BY <2>1 DEF RInv, Serving, OneCall
  <2> DEFINE mine == blockchain[n].chain
             last == GetLatestBlock(Blocks)
  <2>4. mine \in Seq(Block) /\ last \in Block
    BY <1>0, <2>1, ChainTypes DEF Followers, Blocks
  <2>5. Blocks = Append(mine, last)
    BY <2>3 DEF Behind
  <2>6. mine # Blocks /\ Blocks[Len(mine) + 1] = last
    <3> HIDE DEF last, mine
    <3> QED
      BY <2>4, <2>5
  <2>7. blockchain' = [blockchain EXCEPT ![n] = newChain[n]]
    BY <1>2 DEF InstallBlock
  <2>8. blockchain'[Miner] = blockchain[Miner]
    BY <2>1, <2>7 DEF Followers
  <2>9. \A f \in Node \ {Miner} :
          blockchain'[f].chain = IF f = n THEN Append(mine, Blocks[Len(mine) + 1])
                                          ELSE blockchain[f].chain
    BY <1>0, <2>2, <2>5, <2>6, <2>7
  <2> QED
    BY <2>1, <2>6, <2>8, <2>9 DEF Log!Deliver, Log!UpToDate, Blocks, Followers
<1>3. ASSUME \A n \in Node : blockchain'[n].chain = blockchain[n].chain
      PROVE  UNCHANGED Log!vars
  BY <1>0, <1>3 DEF Log!vars
<1> QED
  BY <1>1, <1>2, <1>3, ChainSteps DEF Log!Next, Followers

\* The network of one miner implements the replicated log: whatever the threads,
\* handlers and remote calls do, and whoever stops, a step adds one block to the
\* miner's chain when every follower has its last one, or brings one follower up
\* to date, or changes no chain (threadMine, sendBlock).
THEOREM ImplementsLogSafely == Safety => Log!Safety
<1> QED
  BY LogInit, LogStep, RAlways, PTL DEF Safety, Log!Safety

-----------------------------------------------------------------------------
(* What is pending, and what the blocks carry.                             *)

\* Only a thread of the miner, and a transaction it receives, change its ledger,
\* or what a thread works on.
LEMMA LedgerSteps ==
  ASSUME IInv, RInv, [Next]_vars
  PROVE  \/ \E t \in Tx : ThreadStep(t) /\ ~ShareBlock(t)
         \/ \E t \in Tx : TransactionReceived(Miner, t)
         \/ /\ UNCHANGED << pc, home, slot, arg_mine, newBlockchain >>
            /\ blockchain'[Miner] = blockchain[Miner]
<1> DEFINE Kept == /\ UNCHANGED << pc, home, slot, arg_mine, newBlockchain >>
                   /\ blockchain'[Miner] = blockchain[Miner]
<1> USE DEF chainVars, nodeVars, semVars, ringVars, mainVars, rcfVars, threadVars, netVars
<1>1. ASSUME NEW t \in Tx, ShareBlock(t) PROVE Kept
  BY <1>1 DEF ShareBlock
<1>2. ASSUME NEW n \in Node, NEW t \in Tx, TransactionReceived(n, t) PROVE n = Miner
  BY <1>2, OneMiner DEF TransactionReceived
<1>3. ASSUME NEW n \in Node, HandlerStep(n) PROVE Kept
  <2>1. CASE InstallBlock(n)
    <3>1. n # Miner
      BY <2>1 DEF InstallBlock, Handling, RInv, Serving
    <3> QED
      BY <2>1, <3>1 DEF InstallBlock
  <2>2. CASE ReceiveBlock(n) \/ BlockValid(n)
    BY <2>2 DEF ReceiveBlock, BlockValid
  <2> QED
    BY <1>3, <2>1, <2>2, NeverThere DEF HandlerStep
<1>4. ASSUME NEW n \in Node, \/ Stop(n) \/ AskBalance(n) \/ DecayQuality(n) \/ MainStep(n)
      PROVE  Kept
  BY <1>4, NeverThere DEF Stop, AskBalance, DecayQuality, MainStep, AnswerBalance
<1>5. ASSUME \/ \E c \in calls : CallFails(c)
             \/ \E m \in udp : LoseDatagram(m)
             \/ UNCHANGED vars
      PROVE  Kept
  BY <1>5 DEF CallFails, LoseDatagram, vars
<1> HIDE DEF Kept
<1>6. \/ \E t \in Tx : ThreadStep(t) /\ ~ShareBlock(t)
      \/ \E t \in Tx : TransactionReceived(Miner, t)
      \/ Kept
  BY <1>1, <1>2, <1>3, <1>4, <1>5, NeverThere DEF Next
<1> QED
  BY <1>6 DEF Kept

LEMMA NothingPendingStep ==
  ASSUME IInv, RInv, NothingPending, [Next]_vars
  PROVE  NothingPending'
<1> USE DEF chainVars, nodeVars, semVars, ringVars, mainVars, rcfVars, threadVars, netVars
<1>0. blockchain \in [Node -> Ledger] /\ newChain \in [Node -> Ledger]
  BY DEF IInv, TypeOK
<1>1. ASSUME UNCHANGED newChain, \A f \in Followers : blockchain'[f] = blockchain[f]
      PROVE  NothingPending'
  BY <1>1 DEF NothingPending
<1>2. ASSUME NEW t \in Tx, ThreadStep(t) PROVE NothingPending'
  <2>1. pc[t] # "idle"
    BY <1>2, MinerStep DEF WaitMining, WaitBlockchain, AddTransaction, CheckPending, MineCopy,
                CheckMined, Dropped, InstallMined, ShareBlock, PostSemaphores, At
  <2>2. home[t] = Miner
    BY <2>1, HomeIsMiner
  <2>3. UNCHANGED newChain /\ \A f \in Followers : blockchain'[f] = blockchain[f]
    BY <1>0, <1>2, <2>2, MinerStep DEF WaitMining, WaitBlockchain, AddTransaction, CheckPending,
                MineCopy, CheckMined, Dropped, InstallMined, ShareBlock, PostSemaphores, Followers
  <2> QED
    BY <1>1, <2>3
<1>3. ASSUME NEW n \in Node, NEW t \in Tx, TransactionReceived(n, t) PROVE NothingPending'
  <2>1. n = Miner
    BY <1>3, OneMiner DEF TransactionReceived
  <2> QED
    BY <1>0, <1>1, <1>3, <2>1 DEF TransactionReceived, Followers
<1>4. ASSUME NEW n \in Node, HandlerStep(n) PROVE NothingPending'
  <2>1. CASE ReceiveBlock(n)
    <3>1. PICK c \in calls : ReceiveBlock(n)!2!(c)
      BY <2>1 DEF ReceiveBlock
    <3>2. newChain'[n].pending = blockchain[n].pending
          /\ \A m \in Node : m # n => newChain'[m] = newChain[m]
      BY <1>0, <3>1 DEF Ledger
    <3>3. n \in Followers
      BY <3>1 DEF RInv, OneCall
    <3> QED
      BY <2>1, <3>2, <3>3 DEF ReceiveBlock, NothingPending, Followers
  <2>2. CASE InstallBlock(n)
    <3>1. n \in Followers
      BY <2>2 DEF InstallBlock, Handling, RInv, Serving, Followers
    <3>2. /\ blockchain' = [blockchain EXCEPT ![n] = newChain[n]]
          /\ newChain' = [newChain EXCEPT ![n] = NoLedger]
      BY <2>2 DEF InstallBlock, Return
    <3>3. \A f \in Followers : /\ blockchain'[f] \in {blockchain[f], newChain[f]}
                               /\ newChain'[f] \in {newChain[f], NoLedger}
      BY <1>0, <3>2 DEF Followers
    <3> QED
      BY <3>3 DEF NothingPending, NoLedger
  <2>3. CASE BlockValid(n)
    BY <1>1, <2>3 DEF BlockValid
  <2> QED
    BY <1>4, <2>1, <2>2, <2>3, NeverThere DEF HandlerStep
<1>5. ASSUME NEW n \in Node, \/ Stop(n) \/ AskBalance(n) \/ DecayQuality(n) \/ MainStep(n)
      PROVE  NothingPending'
  BY <1>1, <1>5, NeverThere DEF Stop, AskBalance, DecayQuality, MainStep, AnswerBalance
<1>6. ASSUME \/ \E c \in calls : CallFails(c)
             \/ \E m \in udp : LoseDatagram(m)
             \/ UNCHANGED vars
      PROVE  NothingPending'
  BY <1>1, <1>6 DEF CallFails, LoseDatagram, vars
<1> QED
  BY <1>2, <1>3, <1>4, <1>5, <1>6, NeverThere DEF Next

LEMMA FullAppend ==
  ASSUME NEW chain \in Seq(Block), NEW b \in Block
  PROVE  Full(Append(chain, b)) <=>
           Full(chain) /\ (chain # << >> => Len(b.transactions) >= Threshold)
<1> DEFINE longer == Append(chain, b)
<1>1. /\ Len(chain) \in Nat /\ Len(longer) = Len(chain) + 1
      /\ longer[Len(chain) + 1] = b /\ \A i \in 1..Len(chain) : longer[i] = chain[i]
      /\ chain # << >> <=> Len(chain) + 1 \in 2..(Len(chain) + 1)
  OBVIOUS
<1> HIDE DEF longer
<1>2. 2..Len(longer) = 2..Len(chain) \cup (2..Len(longer) \cap {Len(chain) + 1})
  BY <1>1
<1>3. \A i \in 2..Len(chain) : longer[i] = chain[i]
  BY <1>1
<1> QED
  BY <1>1, <1>2, <1>3 DEF Full, longer

\* What the miner's ledger becomes when a transaction is queued.
LEMMA QueuedAtMiner ==
  ASSUME IInv, NEW tx \in Transaction,
         blockchain' = [blockchain EXCEPT ![Miner] = CreateTransaction(@, tx)]
  PROVE  /\ blockchain'[Miner].pending = Append(blockchain[Miner].pending, tx)
         /\ Len(blockchain'[Miner].pending) = Len(blockchain[Miner].pending) + 1
         /\ Len(blockchain[Miner].pending) \in Nat
         /\ Blocks' = Blocks
<1>1. /\ blockchain \in [Node -> Ledger] /\ Miner \in Node
      /\ blockchain[Miner].pending \in Seq(Transaction)
  BY OneMiner, ChainTypes DEF IInv, TypeOK
<1>2. blockchain'[Miner] = CreateTransaction(blockchain[Miner], tx)
  BY <1>1
<1> QED
  BY <1>1, <1>2 DEF CreateTransaction, Ledger, Blocks

LEMMA FullStep ==
  ASSUME IInv, MutualExclusion, RInv, FullInv, [Next]_vars
  PROVE  FullInv'
<1> USE DEF chainVars, nodeVars, semVars, ringVars, mainVars, rcfVars, threadVars, netVars
<1>0. /\ pc \in [Tx -> {"idle", "start", "mining", "add", "size", "copy", "check",
                   "length", "last", "install", "share", "done"}]
      /\ newBlockchain \in [Tx -> Ledger] /\ blockchain \in [Node -> Ledger] /\ Miner \in Node
      /\ Threshold \in Nat
      /\ blockchain[Miner].pending \in Seq(Transaction)
      /\ Blocks \in Seq(Block) /\ Blocks # << >>
  BY OneMiner, Limits, ChainTypes DEF IInv, TypeOK, Blocks
\* Steps that only add to what is pending, if anything.
<1>1. ASSUME Blocks' = Blocks, Len(blockchain'[Miner].pending) >= Len(blockchain[Miner].pending),
             Len(blockchain'[Miner].pending) \in Nat, UNCHANGED newBlockchain,
             \A t \in Tx : pc'[t] = "copy" =>
               pc[t] = "copy" \/ Len(blockchain[Miner].pending) >= Threshold,
             \A t \in Tx : pc'[t] \in {"check", "install"} => pc[t] \in {"check", "install"}
      PROVE  FullInv'
  <2>1. \A t \in Tx : pc'[t] = "copy" => Len(blockchain'[Miner].pending) >= Threshold
    <3>1. Len(blockchain[Miner].pending) \in Nat
      BY <1>0
    <3>2. \A t \in Tx : pc'[t] = "copy" => Len(blockchain[Miner].pending) >= Threshold
      BY <1>1 DEF FullInv
    <3> QED
      BY <1>0, <1>1, <3>1, <3>2
  <2>2. \A t \in Tx : pc'[t] \in {"check", "install"} =>
          Full(newBlockchain'[t].chain) /\ Len(newBlockchain'[t].pending) = 1
    BY <1>1 DEF FullInv
  <2>3. Full(Blocks')
    BY <1>1 DEF FullInv
  <2> QED
    BY <2>1, <2>2, <2>3 DEF FullInv, Full
<1>2. ASSUME NEW t \in Tx, TransactionReceived(Miner, t) PROVE FullInv'
  <2>1. /\ \/ blockchain' = [blockchain EXCEPT ![Miner] = CreateTransaction(@, Bonus(t))]
           \/ blockchain' = blockchain
        /\ pc' = [pc EXCEPT ![t] = "start"] /\ UNCHANGED newBlockchain
    BY <1>2 DEF TransactionReceived
  <2>2. /\ Blocks' = Blocks /\ Len(blockchain'[Miner].pending) >= Len(blockchain[Miner].pending)
        /\ Len(blockchain'[Miner].pending) \in Nat
    <3>1. CASE blockchain' = blockchain
      BY <1>0, <3>1 DEF Blocks
    <3>2. CASE blockchain' = [blockchain EXCEPT ![Miner] = CreateTransaction(@, Bonus(t))]
      <4>1. /\ Blocks' = Blocks /\ Len(blockchain[Miner].pending) \in Nat
            /\ Len(blockchain'[Miner].pending) = Len(blockchain[Miner].pending) + 1
        BY <3>2, QueuedAtMiner, TransactionTypes
      <4> QED
        BY <4>1
    <3> QED
      BY <2>1, <3>1, <3>2
  <2> QED
    BY <1>0, <1>1, <2>1, <2>2
<1>3. ASSUME NEW t \in Tx, ThreadStep(t), ~ShareBlock(t) PROVE FullInv'
  <2>1. pc[t] # "idle" /\ home[t] = Miner
    <3>1. pc[t] # "idle"
      BY <1>3, MinerStep DEF WaitMining, WaitBlockchain, AddTransaction, CheckPending, MineCopy,
                  CheckMined, Dropped, InstallMined, ShareBlock, PostSemaphores, At
    <3> QED
      BY <3>1, HomeIsMiner
  <2>2. CASE WaitMining(t) \/ WaitBlockchain(t) \/ PostSemaphores(t) \/ CheckPending(t)
    <3>1. /\ UNCHANGED << blockchain, newBlockchain >>
          /\ \A u \in Tx : pc'[u] = "copy" =>
               pc[u] = "copy" \/ Len(blockchain[Miner].pending) >= Threshold
          /\ \A u \in Tx : pc'[u] \in {"check", "install"} => pc[u] \in {"check", "install"}
      BY <1>0, <2>1, <2>2 DEF WaitMining, WaitBlockchain, PostSemaphores, CheckPending
    <3> QED
      BY <1>0, <1>1, <3>1 DEF Blocks
  <2>3. CASE AddTransaction(t)
    <3>1. Payment(arg_mine[home[t]][slot[t]]) \in Transaction
      BY <2>1, TransactionTypes DEF IInv, Wiring
    <3>2. /\ Blocks' = Blocks
          /\ Len(blockchain'[Miner].pending) >= Len(blockchain[Miner].pending)
          /\ Len(blockchain'[Miner].pending) \in Nat
      <4>1. /\ Blocks' = Blocks /\ Len(blockchain[Miner].pending) \in Nat
            /\ Len(blockchain'[Miner].pending) = Len(blockchain[Miner].pending) + 1
        BY <2>1, <2>3, <3>1, QueuedAtMiner DEF AddTransaction
      <4> QED
        BY <4>1
    <3> QED
      BY <1>0, <1>1, <2>3, <3>2 DEF AddTransaction
  <2>4. CASE MineCopy(t)
    <3>1. PICK ts \in Time : newBlockchain' = [newBlockchain EXCEPT ![t] =
                               MinePendingTransactions(blockchain[Miner], ts, Reward(Miner))]
      BY <2>1, <2>4 DEF MineCopy
    <3> DEFINE b == NewBlock(ts, blockchain[Miner].pending, GetLatestBlock(Blocks).hash)
    <3>2. /\ newBlockchain'[t].chain = Append(Blocks, b)
          /\ newBlockchain'[t].pending = << Reward(Miner) >>
          /\ b \in Block /\ b.transactions = blockchain[Miner].pending
      BY <1>0, <3>1, MinedOnTop, ChainTypes, TransactionTypes DEF Blocks
    <3> HIDE DEF b
    <3>3. Len(blockchain[Miner].pending) >= Threshold
      BY <2>4 DEF MineCopy, At, FullInv
    <3>4. Full(newBlockchain'[t].chain) /\ Len(newBlockchain'[t].pending) = 1
      BY <1>0, <3>2, <3>3, FullAppend DEF FullInv
    <3>5. UNCHANGED blockchain /\ Blocks' = Blocks /\ pc'[t] = "check"
          /\ \A u \in Tx : u # t => pc'[u] = pc[u] /\ newBlockchain'[u] = newBlockchain[u]
      BY <1>0, <2>4, <3>1 DEF MineCopy, Blocks
    <3> QED
      BY <1>0, <3>4, <3>5 DEF FullInv, Full
  <2>5. CASE CheckMined(t)
    <3>1. /\ UNCHANGED blockchain /\ Blocks' = Blocks
          /\ \A u \in Tx : u # t => pc'[u] = pc[u] /\ newBlockchain'[u] = newBlockchain[u]
          /\ pc[t] = "check" /\ pc'[t] = "install" /\ UNCHANGED newBlockchain
      BY <1>0, <2>5, MinedIsKept DEF CheckMined, Blocks, At
    <3> QED
      BY <1>0, <3>1 DEF FullInv, Full
  <2>6. CASE InstallMined(t)
    <3>1. HoldsMining(t) /\ pc[t] = "install"
      BY <2>6 DEF InstallMined, At, HoldsMining
    <3>2. \A u \in Tx : pc[u] \in {"copy", "check", "install"} => u = t
      BY <3>1, OneHolder DEF HoldsMining, RInv
    <3>3. Blocks' = newBlockchain[t].chain /\ Full(newBlockchain[t].chain)
      BY <1>0, <2>1, <2>6, <3>1 DEF InstallMined, Blocks, FullInv
    <3>4. \A u \in Tx : pc'[u] \notin {"copy", "check", "install"}
      BY <1>0, <2>6, <3>2 DEF InstallMined
    <3> QED
      BY <3>3, <3>4 DEF FullInv, Full
  <2> QED
    BY <1>3, <2>2, <2>3, <2>4, <2>5, <2>6, MinerStep
<1>4. CASE /\ UNCHANGED << pc, home, slot, arg_mine, newBlockchain >>
           /\ blockchain'[Miner] = blockchain[Miner]
  BY <1>0, <1>1, <1>4 DEF Blocks
<1> QED
  BY <1>2, <1>3, <1>4, LedgerSteps

LEMMA WillMineStep ==
  ASSUME Threshold > 1, IInv, MutualExclusion, RInv, FullInv, WillMine, [Next]_vars
  PROVE  WillMine'
<1> DEFINE Awake(t) == pc[t] \in {"start", "mining", "add", "size", "copy", "check", "install"}
<1> USE DEF chainVars, nodeVars, semVars, ringVars, mainVars, rcfVars, threadVars, netVars
<1>0. /\ pc \in [Tx -> {"idle", "start", "mining", "add", "size", "copy", "check",
                   "length", "last", "install", "share", "done"}]
      /\ home \in [Tx -> Node \cup {Nobody}]
      /\ newBlockchain \in [Tx -> Ledger] /\ blockchain \in [Node -> Ledger] /\ Miner \in Node
      /\ Threshold \in Nat
  BY OneMiner, Limits DEF IInv, TypeOK
<1>1. ASSUME NEW t \in Tx, home'[t] = Miner, Awake(t)' PROVE WillMine'
  BY <1>1 DEF WillMine
<1>2. ASSUME blockchain'[Miner].pending = blockchain[Miner].pending, UNCHANGED home,
             \A t \in Tx : Awake(t) => Awake(t)'
      PROVE  WillMine'
  BY <1>2 DEF WillMine
<1>3. ASSUME NEW t \in Tx, TransactionReceived(Miner, t) PROVE WillMine'
  BY <1>0, <1>1, <1>3 DEF TransactionReceived
<1>4. ASSUME NEW t \in Tx, ThreadStep(t), ~ShareBlock(t) PROVE WillMine'
  <2>1. home[t] = Miner /\ UNCHANGED home
    <3>1. pc[t] # "idle" /\ UNCHANGED home
      BY <1>4, MinerStep DEF WaitMining, WaitBlockchain, AddTransaction, CheckPending, MineCopy,
                  CheckMined, Dropped, InstallMined, ShareBlock, PostSemaphores, At
    <3> QED
      BY <3>1, HomeIsMiner
  <2>2. CASE WaitMining(t) \/ WaitBlockchain(t) \/ AddTransaction(t) \/ MineCopy(t)
    <3>1. Awake(t)'
      BY <1>0, <2>2 DEF WaitMining, WaitBlockchain, AddTransaction, MineCopy
    <3> QED
      BY <1>1, <2>1, <3>1
  <2>3. CASE CheckMined(t)
    <3>1. Awake(t)'
      BY <1>0, <2>3, MinedIsKept
    <3> QED
      BY <1>1, <2>1, <3>1
  <2>4. CASE CheckPending(t)
    <3>1. CASE Len(blockchain[Miner].pending) >= Threshold
      <4>1. Awake(t)'
        BY <1>0, <2>1, <2>4, <3>1 DEF CheckPending
      <4> QED
        BY <1>1, <2>1, <4>1
    <3>2. CASE ~(Len(blockchain[Miner].pending) >= Threshold)
      BY <2>4, <3>2 DEF CheckPending, WillMine
    <3> QED
      BY <3>1, <3>2
  <2>5. CASE InstallMined(t)
    <3>1. /\ Len(newBlockchain[t].pending) = 1
          /\ blockchain'[Miner] = newBlockchain[t]
      BY <1>0, <2>1, <2>5 DEF InstallMined, At, FullInv
    <3>2. Len(blockchain'[Miner].pending) = 1
      BY <3>1
    <3>3. ~(1 >= Threshold)
      BY <1>0
    <3> QED
      BY <3>2, <3>3 DEF WillMine
  <2>6. CASE PostSemaphores(t)
    BY <1>0, <1>2, <2>1, <2>6 DEF PostSemaphores, At
  <2> QED
    BY <1>4, <2>2, <2>3, <2>4, <2>5, <2>6, MinerStep
<1>5. CASE /\ UNCHANGED << pc, home, slot, arg_mine, newBlockchain >>
           /\ blockchain'[Miner] = blockchain[Miner]
  BY <1>2, <1>5
<1> QED
  BY <1>3, <1>4, <1>5, LedgerSteps

LEMMA PendingInit == Init => NothingPending /\ FullInv /\ WillMine
<1> SUFFICES ASSUME Init PROVE NothingPending /\ FullInv /\ WillMine
  OBVIOUS
<1> PICK ts \in Time : Init!(ts)
  BY DEF Init
<1>1. /\ \A n \in Node : blockchain[n].pending = << >> /\ newChain[n].pending = << >>
      /\ Len(Blocks) = 1 /\ Miner \in Node
  BY OneMiner DEF NewLedger, NoLedger, Blocks
<1>2. NothingPending
  BY <1>1 DEF NothingPending, Followers
<1>3. FullInv
  BY <1>1 DEF FullInv, Full
<1>4. WillMine
  BY <1>1, Limits DEF WillMine
<1> QED
  BY <1>2, <1>3, <1>4

LEMMA FullAlways == Safety => [](IInv /\ RInv /\ NothingPending /\ FullInv)
BY PendingInit, NothingPendingStep, FullStep, RAlways, PTL DEF Safety

\* Every block after the genesis, at every node, has `Threshold' transactions at
\* least, although what is pending may change between the moment a thread looks
\* at its number and the moment it mines (threadMine).
THEOREM BlocksAlwaysFull == Safety => []BlocksFull
<1>1. IInv /\ RInv /\ FullInv => BlocksFull
  <2> SUFFICES ASSUME IInv, RInv, FullInv, NEW n \in Node PROVE Full(blockchain[n].chain)
    BY DEF BlocksFull, Full
  <2>1. CASE blockchain[n].chain = Blocks
    BY <2>1 DEF FullInv
  <2>2. CASE Blocks = Append(blockchain[n].chain, GetLatestBlock(Blocks))
    <3>1. blockchain[n].chain \in Seq(Block) /\ GetLatestBlock(Blocks) \in Block
      BY ChainTypes, OneMiner DEF Blocks
    <3> DEFINE last == GetLatestBlock(Blocks)
    <3> HIDE DEF last
    <3>2. Full(Append(blockchain[n].chain, last)) => Full(blockchain[n].chain)
      BY <3>1, FullAppend DEF last
    <3> QED
      BY <2>2, <3>2 DEF FullInv, last
  <2> QED
    BY <2>1, <2>2 DEF RInv, Trail, UpToDate, Behind, Followers, Blocks
<1> QED
  BY <1>1, FullAlways, PTL

\* When the threads of a node have ended, too little is left pending for a block:
\* no thread that is needed gives up (threadMine).  A block may not be made of
\* the miner's reward alone.
THEOREM PendingAlwaysMined ==
  ASSUME Threshold > 1
  PROVE  Safety => []PendingMined
<1>1. IInv /\ RInv /\ NothingPending /\ WillMine => PendingMined
  <2> SUFFICES ASSUME IInv, RInv, NothingPending, WillMine, NEW n \in Node,
                      \A t \in Tx : home[t] = n => pc[t] = "done"
               PROVE  Len(blockchain[n].pending) < Threshold
    BY DEF PendingMined
  <2>1. Threshold \in Nat \ {0} /\ blockchain[n].pending \in Seq(Transaction)
    BY Limits, ChainTypes
  <2>2. CASE n = Miner
    <3>1. ~(Len(blockchain[n].pending) >= Threshold)
      BY <2>2 DEF WillMine
    <3> QED
      BY <2>1, <3>1
  <2>3. CASE n # Miner
    <3>1. blockchain[n].pending = << >>
      BY <2>3 DEF NothingPending, Followers
    <3> QED
      BY <2>1, <3>1
  <2> QED
    BY <2>2, <2>3
<1>2. Threshold > 1 /\ IInv /\ MutualExclusion /\ RInv /\ FullInv /\ WillMine /\ [Next]_vars
        => WillMine'
  BY WillMineStep
<1>3. Threshold > 1
  OBVIOUS
<1>4. IInv /\ MutualExclusion /\ RInv /\ FullInv /\ WillMine /\ [Next]_vars => WillMine'
  BY <1>2, <1>3
<1> QED
  BY <1>1, <1>4, PendingInit, FullAlways, RAlways, PTL DEF Safety

-----------------------------------------------------------------------------
(* No slot of arg_mine is used again as long as there are enough of them.  *)

EnoughSlots == IsFiniteSet(Tx) /\ Cardinality(Tx) <= Slots

Started == {t \in Tx : pc[t] # "idle"}

\* The slots are given from 1 on, and slot 0 last.
SlotsInOrder ==
  Cardinality(Started) < Slots =>
    /\ nb_thread[Miner] = Cardinality(Started)
    /\ \A t \in Started : slot[t] \in 1..Cardinality(Started)

LEMMA SlotsStep ==
  ASSUME EnoughSlots, IInv, RInv, SlotsInOrder, SlotKept, [Next]_vars
  PROVE  SlotsInOrder' /\ SlotKept'
<1> USE DEF chainVars, nodeVars, semVars, ringVars, mainVars, rcfVars, threadVars, netVars
<1>0. /\ pc \in [Tx -> {"idle", "start", "mining", "add", "size", "copy", "check",
                   "length", "last", "install", "share", "done"}]
      /\ nb_thread \in [Node -> 0..(Slots - 1)] /\ slot \in [Tx -> 0..(Slots - 1)]
      /\ arg_mine \in [Node -> [0..(Slots - 1) -> Tx \cup {Nobody}]]
      /\ Miner \in Node /\ Slots \in Nat \ {0}
  BY OneMiner, Limits DEF IInv, TypeOK
<1>1. ASSUME UNCHANGED << nb_thread, slot, arg_mine >>,
             \A t \in Tx : pc'[t] # "idle" <=> pc[t] # "idle",
             \A t \in Tx : pc'[t] \in {"start", "mining", "add"} =>
                           pc[t] \in {"start", "mining", "add"}
      PROVE  SlotsInOrder' /\ SlotKept'
  <2>1. Started' = Started
    BY <1>1 DEF Started
  <2> QED
    BY <1>1, <2>1 DEF SlotsInOrder, SlotKept
<1>2. ASSUME NEW n \in Node, NEW t \in Tx, TransactionReceived(n, t)
      PROVE  SlotsInOrder' /\ SlotKept'
  <2> DEFINE k == Cardinality(Started)
             next == (nb_thread[Miner] + 1) % Slots
  <2>1. n = Miner
    BY <1>2, OneMiner DEF TransactionReceived
  <2>2. /\ pc[t] = "idle" /\ pc' = [pc EXCEPT ![t] = "start"]
        /\ nb_thread' = [nb_thread EXCEPT ![Miner] = next]
        /\ arg_mine' = [arg_mine EXCEPT ![Miner][next] = t]
        /\ slot' = [slot EXCEPT ![t] = next]
    BY <1>2, <2>1 DEF TransactionReceived
  <2>3. Started' = Started \cup {t} /\ t \notin Started
    BY <1>0, <2>2 DEF Started
  <2>4. IsFiniteSet(Started) /\ k \in Nat /\ Cardinality(Started') = k + 1
        /\ Cardinality(Tx) \in Nat
    BY <2>3, FS_Subset, FS_AddElement, FS_CardinalityType DEF EnoughSlots, Started
  <2>5. k + 1 <= Cardinality(Tx)
    <3>1. Started' \subseteq Tx
      BY DEF Started
    <3> QED
      BY <2>4, <3>1, FS_Subset DEF EnoughSlots
  <2>6. k < Slots
    BY <1>0, <2>4, <2>5 DEF EnoughSlots
  <2>7. nb_thread[Miner] = k /\ \A u \in Started : slot[u] \in 1..k
    BY <2>6 DEF SlotsInOrder
  <2>8. next = IF k + 1 < Slots THEN k + 1 ELSE 0
    <3>0. next = (k + 1) % Slots
      BY <2>7
    <3> HIDE DEF k, next
    <3>1. CASE k + 1 < Slots
      <4>1. k + 1 \in 0..(Slots - 1)
        BY <1>0, <2>4, <3>1
      <4>2. \A S \in Nat \ {0} : \A i \in 0..(S - 1) : i % S = i
        OBVIOUS
      <4>3. (k + 1) % Slots = k + 1
        BY <1>0, <4>1, <4>2
      <4> QED
        BY <3>0, <3>1, <4>3
    <3>2. CASE ~(k + 1 < Slots)
      <4>1. k + 1 = Slots
        BY <1>0, <2>4, <2>6, <3>2
      <4>2. Slots % Slots = 0
        BY <1>0
      <4> QED
        BY <3>0, <3>2, <4>1, <4>2
    <3> QED
      BY <3>1, <3>2
  <2> HIDE DEF k, next
  <2>9. next \in 0..(Slots - 1) /\ \A u \in Started : slot[u] # next
    BY <1>0, <2>4, <2>6, <2>7, <2>8
  <2>10. SlotKept'
    <3> SUFFICES ASSUME NEW u \in Tx, pc'[u] \in {"start", "mining", "add"}
                 PROVE  arg_mine'[Miner][slot'[u]] = u
      BY DEF SlotKept
    <3>1. CASE u = t
      BY <1>0, <2>2, <2>9, <3>1
    <3>2. CASE u # t
      <4>1. pc[u] \in {"start", "mining", "add"} /\ slot'[u] = slot[u] /\ u \in Started
        BY <1>0, <2>2, <3>2 DEF Started
      <4>2. slot[u] \in 0..(Slots - 1) /\ slot[u] # next
        BY <1>0, <2>9, <4>1
      <4>3. arg_mine[Miner][slot[u]] = u
        BY <4>1 DEF SlotKept
      <4> QED
        BY <1>0, <2>2, <4>1, <4>2, <4>3
    <3> QED
      BY <3>1, <3>2
  <2>11. SlotsInOrder'
    <3> SUFFICES ASSUME k + 1 < Slots
                 PROVE  nb_thread'[Miner] = k + 1 /\ \A u \in Started' : slot'[u] \in 1..(k + 1)
      BY <2>4 DEF SlotsInOrder
    <3>1. next = k + 1
      BY <2>8
    <3>2. nb_thread'[Miner] = k + 1 /\ slot'[t] = k + 1
      BY <1>0, <2>2, <3>1
    <3>3. \A u \in Started : slot'[u] = slot[u]
      BY <1>0, <2>2, <2>3 DEF Started
    <3> QED
      BY <2>3, <2>4, <2>7, <3>2, <3>3
  <2> QED
    BY <2>10, <2>11
<1>3. ASSUME NEW t \in Tx, ThreadStep(t) PROVE SlotsInOrder' /\ SlotKept'
  <2>1. UNCHANGED << nb_thread, slot, arg_mine >>
    BY <1>3, MinerStep DEF WaitMining, WaitBlockchain, AddTransaction, CheckPending, MineCopy,
                CheckMined, Dropped, InstallMined, ShareBlock, PostSemaphores
  <2>2. /\ pc[t] # "idle" /\ pc'[t] # "idle"
        /\ pc'[t] \in {"start", "mining", "add"} => pc[t] \in {"start", "mining", "add"}
        /\ \A u \in Tx : u # t => pc'[u] = pc[u]
    BY <1>0, <1>3, MinerStep DEF WaitMining, WaitBlockchain, AddTransaction, CheckPending,
                MineCopy, CheckMined, Dropped, InstallMined, ShareBlock, PostSemaphores, At
  <2> QED
    BY <1>1, <2>1, <2>2
<1>4. ASSUME NEW n \in Node, HandlerStep(n) PROVE SlotsInOrder' /\ SlotKept'
  <2>1. UNCHANGED << nb_thread, slot, arg_mine, pc >>
    BY <1>4, NeverThere DEF HandlerStep, ReceiveBlock, BlockValid, InstallBlock
  <2> QED
    BY <1>1, <2>1
<1>5. ASSUME NEW n \in Node, \/ Stop(n) \/ AskBalance(n) \/ DecayQuality(n) \/ MainStep(n)
      PROVE  SlotsInOrder' /\ SlotKept'
  <2>1. UNCHANGED << nb_thread, slot, arg_mine, pc >>
    BY <1>5, NeverThere DEF Stop, AskBalance, DecayQuality, MainStep, AnswerBalance
  <2> QED
    BY <1>1, <2>1
<1>6. ASSUME \/ \E c \in calls : CallFails(c)
             \/ \E m \in udp : LoseDatagram(m)
             \/ UNCHANGED vars
      PROVE  SlotsInOrder' /\ SlotKept'
  BY <1>1, <1>6 DEF CallFails, LoseDatagram, vars
<1> QED
  BY <1>2, <1>3, <1>4, <1>5, <1>6, NeverThere DEF Next

LEMMA SlotsInit == Init => SlotsInOrder /\ SlotKept
<1> SUFFICES ASSUME Init PROVE SlotsInOrder /\ SlotKept
  OBVIOUS
<1> PICK ts \in Time : Init!(ts)
  BY DEF Init
<1>1. Started = {}
  BY DEF Started
<1>2. Cardinality(Started) = 0
  BY <1>1, FS_EmptySet
<1> QED
  BY <1>1, <1>2, OneMiner DEF SlotsInOrder, SlotKept

\* As long as no more payments come than arg_mine has slots, the slot of a thread
\* still holds the payment it was started for when the thread reads it.
THEOREM SlotsSuffice ==
  ASSUME EnoughSlots
  PROVE  Safety => []SlotKept
<1>1. IInv /\ RInv /\ SlotsInOrder /\ SlotKept /\ [Next]_vars => SlotsInOrder' /\ SlotKept'
  BY SlotsStep
<1> QED
  BY <1>1, SlotsInit, RAlways, PTL DEF Safety

-----------------------------------------------------------------------------
(* The payment a thread came with.                                         *)

LEMMA AppendCarries ==
  ASSUME NEW S, NEW list \in Seq(S), NEW e \in S
  PROVE  ToSet(Append(list, e)) = ToSet(list) \cup {e}
<1> DEFINE longer == Append(list, e)
<1>1. /\ Len(list) \in Nat /\ DOMAIN list = 1..Len(list)
      /\ DOMAIN longer = 1..(Len(list) + 1)
      /\ longer[Len(list) + 1] = e /\ \A i \in 1..Len(list) : longer[i] = list[i]
  OBVIOUS
<1> HIDE DEF longer
<1>2. DOMAIN longer = DOMAIN list \cup {Len(list) + 1}
  BY <1>1
<1> QED
  BY <1>1, <1>2 DEF ToSet, longer

LEMMA FollowedStep ==
  ASSUME IInv, MutualExclusion, RInv, SlotKept, PaymentFollowed, [Next]_vars
  PROVE  PaymentFollowed'
<1> USE DEF chainVars, nodeVars, semVars, ringVars, mainVars, rcfVars, threadVars, netVars
<1>0. /\ pc \in [Tx -> {"idle", "start", "mining", "add", "size", "copy", "check",
                   "length", "last", "install", "share", "done"}]
      /\ server \in [Tx -> Seq(Node)]
      /\ newBlockchain \in [Tx -> Ledger] /\ blockchain \in [Node -> Ledger] /\ Miner \in Node
      /\ blockchain[Miner].pending \in Seq(Transaction)
      /\ Blocks \in Seq(Block) /\ Blocks # << >>
  BY OneMiner, ChainTypes DEF IInv, TypeOK, Blocks
\* Steps that let the ledger of the miner, and the threads that share, go on.
<1>1. ASSUME ToSet(blockchain[Miner].pending) \subseteq ToSet(blockchain'[Miner].pending),
             Blocks' = Blocks, UNCHANGED newBlockchain,
             \A t \in Tx : pc'[t] \in {"size", "copy"} =>
                pc[t] \in {"size", "copy"} \/ Payment(t) \in ToSet(blockchain'[Miner].pending),
             \A t \in Tx : pc'[t] \in {"check", "install"} => pc[t] \in {"check", "install"},
             \A t \in Tx : pc'[t] = "share" /\ (server'[t] # << >> \/ Waiting(t)') =>
                pc[t] = "share" /\ (server[t] # << >> \/ Waiting(t))
      PROVE  PaymentFollowed'
  BY <1>1 DEF PaymentFollowed
<1>2. ASSUME NEW t \in Tx, TransactionReceived(Miner, t) PROVE PaymentFollowed'
  <2>1. /\ \/ blockchain' = [blockchain EXCEPT ![Miner] = CreateTransaction(@, Bonus(t))]
           \/ blockchain' = blockchain
        /\ pc' = [pc EXCEPT ![t] = "start"] /\ UNCHANGED << newBlockchain, server, calls >>
    BY <1>2 DEF TransactionReceived
  <2>2. /\ Blocks' = Blocks
        /\ ToSet(blockchain[Miner].pending) \subseteq ToSet(blockchain'[Miner].pending)
    <3>1. CASE blockchain' = blockchain
      BY <3>1 DEF Blocks
    <3>2. CASE blockchain' = [blockchain EXCEPT ![Miner] = CreateTransaction(@, Bonus(t))]
      <4>1. /\ Bonus(t) \in Transaction /\ Blocks' = Blocks
            /\ blockchain'[Miner].pending = Append(blockchain[Miner].pending, Bonus(t))
        BY <3>2, QueuedAtMiner, TransactionTypes
      <4> QED
        BY <1>0, <4>1, AppendCarries
    <3> QED
      BY <2>1, <3>1, <3>2
  <2>3. \A u \in Tx : Waiting(u)' <=> Waiting(u)
    BY <2>1 DEF Waiting
  <2> QED
    BY <1>0, <1>1, <2>1, <2>2, <2>3
<1>3. ASSUME NEW t \in Tx, ThreadStep(t) PROVE PaymentFollowed'
  <2>0. pc[t] # "idle" /\ home[t] = Miner
    <3>1. pc[t] # "idle"
      BY <1>3, MinerStep DEF WaitMining, WaitBlockchain, AddTransaction, CheckPending, MineCopy,
                  CheckMined, Dropped, InstallMined, ShareBlock, PostSemaphores, At
    <3> QED
      BY <3>1, HomeIsMiner
  <2>1. ASSUME pc[t] # "share" PROVE server[t] = << >> /\ ~Waiting(t)
    BY <2>1 DEF RInv, Sharing, OneCall, Waiting
  <2>2. CASE WaitMining(t) \/ WaitBlockchain(t) \/ PostSemaphores(t) \/ CheckPending(t)
    <3>1. /\ UNCHANGED << blockchain, newBlockchain, server, calls >>
          /\ \A u \in Tx : u # t => pc'[u] = pc[u]
          /\ pc'[t] \in {"size", "copy"} => pc[t] \in {"size", "copy"}
          /\ pc'[t] \notin {"check", "install"}
          /\ pc'[t] = "share" => pc[t] # "share"
      BY <1>0, <2>2 DEF WaitMining, WaitBlockchain, PostSemaphores, CheckPending, At
    <3>2. \A u \in Tx : Waiting(u)' <=> Waiting(u)
      BY <3>1 DEF Waiting
    <3> QED
      BY <1>1, <2>1, <3>1, <3>2 DEF Blocks
  <2>3. CASE AddTransaction(t)
    <3>1. /\ arg_mine[Miner][slot[t]] = t /\ pc[t] = "add" /\ Payment(t) \in Transaction
      BY <2>3, TransactionTypes DEF AddTransaction, At, SlotKept
    <3>2. /\ blockchain' = [blockchain EXCEPT ![Miner] = CreateTransaction(@, Payment(t))]
          /\ UNCHANGED << newBlockchain, server, calls >>
          /\ pc' = [pc EXCEPT ![t] = "size"]
      BY <2>0, <2>3, <3>1 DEF AddTransaction
    <3>3. /\ Blocks' = Blocks
          /\ blockchain'[Miner].pending = Append(blockchain[Miner].pending, Payment(t))
      BY <3>1, <3>2, QueuedAtMiner
    <3>4. ToSet(blockchain'[Miner].pending) = ToSet(blockchain[Miner].pending) \cup {Payment(t)}
      BY <1>0, <3>1, <3>3, AppendCarries
    <3>5. \A u \in Tx : Waiting(u)' <=> Waiting(u)
      BY <3>2 DEF Waiting
    <3> QED
      BY <1>0, <1>1, <3>2, <3>3, <3>4, <3>5
  <2>4. CASE MineCopy(t)
    <3>1. PICK ts \in Time : newBlockchain' = [newBlockchain EXCEPT ![t] =
                               MinePendingTransactions(blockchain[Miner], ts, Reward(Miner))]
      BY <2>0, <2>4 DEF MineCopy
    <3> DEFINE b == NewBlock(ts, blockchain[Miner].pending, GetLatestBlock(Blocks).hash)
    <3>2. /\ newBlockchain'[t].chain = Append(Blocks, b)
          /\ b \in Block /\ b.transactions = blockchain[Miner].pending
      BY <1>0, <3>1, MinedOnTop, ChainTypes, TransactionTypes DEF Blocks
    <3> HIDE DEF b
    <3>3. GetLatestBlock(newBlockchain'[t].chain) = b
      BY <1>0, <3>2 DEF GetLatestBlock
    <3>4. Payment(t) \in ToSet(blockchain[Miner].pending)
      BY <2>4 DEF MineCopy, At, PaymentFollowed
    <3>5. UNCHANGED << blockchain, Blocks, server, calls >> /\ pc'[t] = "check"
          /\ \A u \in Tx : u # t => pc'[u] = pc[u] /\ newBlockchain'[u] = newBlockchain[u]
      BY <1>0, <2>4, <3>1 DEF MineCopy, Blocks
    <3>6. \A u \in Tx : Waiting(u)' <=> Waiting(u)
      BY <3>5 DEF Waiting
    <3> QED
      BY <3>2, <3>3, <3>4, <3>5, <3>6 DEF PaymentFollowed, Carries
  <2>5. CASE CheckMined(t)
    <3>1. /\ UNCHANGED << blockchain, Blocks, server, calls, newBlockchain >>
          /\ pc[t] = "check" /\ pc' = [pc EXCEPT ![t] = "install"]
      BY <2>5, MinedIsKept DEF CheckMined, Blocks, At
    <3>2. \A u \in Tx : Waiting(u)' <=> Waiting(u)
      BY <3>1 DEF Waiting
    <3> QED
      BY <1>0, <1>1, <3>1, <3>2
  <2>6. CASE InstallMined(t)
    <3>1. HoldsMining(t) /\ pc[t] = "install"
      BY <2>6 DEF InstallMined, At, HoldsMining
    <3>2. \A u \in Tx : pc[u] \in {"size", "copy", "check", "install", "share"} => u = t
      BY <3>1, OneHolder DEF HoldsMining, RInv
    <3>3. Blocks' = newBlockchain[t].chain /\ Carries(GetLatestBlock(newBlockchain[t].chain), t)
      BY <1>0, <2>0, <2>6, <3>1 DEF InstallMined, Blocks, PaymentFollowed
    <3>4. pc'[t] = "share" /\ \A u \in Tx : u # t => pc'[u] = pc[u]
      BY <1>0, <2>6 DEF InstallMined
    <3>5. \A u \in Tx : /\ pc'[u] \notin {"size", "copy", "check", "install"}
                        /\ pc'[u] = "share" => u = t
      BY <3>2, <3>4
    <3> QED
      BY <3>3, <3>5 DEF PaymentFollowed
  <2>7. CASE ShareBlock(t)
    <3>1. /\ UNCHANGED << blockchain, Blocks, newBlockchain, pc >>
          /\ pc[t] = "share" /\ server[t] # << >>
          /\ \A u \in Tx : u # t => server'[u] = server[u]
      BY <1>0, <2>7 DEF ShareBlock, At, Blocks
    <3>2. \A u \in Tx : u # t => (Waiting(u)' => Waiting(u))
      BY <2>7 DEF ShareBlock, Waiting
    <3> QED
      BY <1>1, <3>1, <3>2
  <2> QED
    BY <1>3, <2>2, <2>3, <2>4, <2>5, <2>6, <2>7, MinerStep
\* The others only end calls.
<1>4. ASSUME UNCHANGED << pc, newBlockchain, server >>, blockchain'[Miner] = blockchain[Miner],
             calls' \subseteq calls
      PROVE  PaymentFollowed'
  <2>1. \A t \in Tx : Waiting(t)' => Waiting(t)
    BY <1>4 DEF Waiting
  <2> QED
    BY <1>1, <1>4, <2>1 DEF Blocks
<1>5. ASSUME NEW n \in Node, HandlerStep(n) PROVE PaymentFollowed'
  <2>1. CASE InstallBlock(n)
    <3>1. n # Miner
      BY <2>1 DEF InstallBlock, Handling, RInv, Serving
    <3> QED
      BY <1>4, <2>1, <3>1 DEF InstallBlock, Return
  <2>2. CASE ReceiveBlock(n) \/ BlockValid(n)
    BY <1>4, <2>2 DEF ReceiveBlock, BlockValid
  <2> QED
    BY <1>5, <2>1, <2>2, NeverThere DEF HandlerStep
<1>6. ASSUME NEW n \in Node, \/ Stop(n) \/ AskBalance(n) \/ DecayQuality(n) \/ MainStep(n)
      PROVE  PaymentFollowed'
  BY <1>4, <1>6, NeverThere DEF Stop, AskBalance, DecayQuality, MainStep, AnswerBalance
<1>7. ASSUME \/ \E c \in calls : CallFails(c)
             \/ \E m \in udp : LoseDatagram(m)
             \/ UNCHANGED vars
      PROVE  PaymentFollowed'
  BY <1>4, <1>7 DEF CallFails, LoseDatagram, vars
<1>8. ASSUME NEW n \in Node, NEW t \in Tx, TransactionReceived(n, t) PROVE n = Miner
  BY <1>8, OneMiner DEF TransactionReceived
<1> QED
  BY <1>2, <1>3, <1>5, <1>6, <1>7, <1>8, NeverThere DEF Next

\* As long as no slot is used again, the block a thread sends is the one that
\* carries its payment, although it sends whatever is the last of the chain at
\* each call (threadMine).
THEOREM SharesOwnBlockIfSlotsKept == Safety /\ []SlotKept => []SharesOwnBlock
<1>1. Init => PaymentFollowed
  BY DEF Init, PaymentFollowed
<1>2. RInv /\ PaymentFollowed => SharesOwnBlock
  BY DEF RInv, OneCall, PaymentFollowed, SharesOwnBlock, Waiting, Carries
<1> QED
  BY <1>1, <1>2, FollowedStep, RAlways, PTL DEF Safety

-----------------------------------------------------------------------------
(* Each payment once.                                                      *)

\* The ledger carries tx at place j of block i.
Has(ledger, tx, i, j) ==
  /\ i \in 0..Len(ledger.chain)
  /\ j \in 1..Len(Carried(ledger, i))
  /\ Carried(ledger, i)[j] = tx

LEMMA PlacesHas ==
  ASSUME NEW ledger, NEW tx
  PROVE  /\ \A i, j : << i, j >> \in Places(ledger, tx) <=> Has(ledger, tx, i, j)
         /\ \A place \in Places(ledger, tx) : \E i, j : place = << i, j >>
BY DEF Places, Has

\* It carries it nowhere, or there only.
LEMMA PlacesAre ==
  ASSUME NEW ledger, NEW tx
  PROVE  /\ Places(ledger, tx) = {} <=> \A i, j : ~Has(ledger, tx, i, j)
         /\ (\E place : Places(ledger, tx) = {place}) <=>
              \E i, j : \A k, l : Has(ledger, tx, k, l) <=> k = i /\ l = j
<1> DEFINE P == Places(ledger, tx)
           H(i, j) == Has(ledger, tx, i, j)
<1>0. /\ \A i, j : << i, j >> \in P <=> H(i, j)
      /\ \A place \in P : \E i, j : place = << i, j >>
  BY PlacesHas
<1> HIDE DEF P, H
<1>1. P = {} <=> \A i, j : ~H(i, j)
  <2>1. P = {} => \A i, j : ~H(i, j)
    BY <1>0
  <2>2. ASSUME \A i, j : ~H(i, j), NEW place \in P PROVE FALSE
    BY <1>0, <2>2
  <2> QED
    BY <2>1, <2>2
<1>2. ASSUME NEW place, P = {place}
      PROVE  \E i, j : \A k, l : H(k, l) <=> k = i /\ l = j
  <2>1. PICK i, j : place = << i, j >>
    BY <1>0, <1>2
  <2>2. ASSUME NEW k, NEW l PROVE H(k, l) <=> k = i /\ l = j
    <3>1. H(k, l) <=> << k, l >> \in P
      BY <1>0
    <3>2. << k, l >> \in P <=> << k, l >> = << i, j >>
      BY <1>2, <2>1
    <3> QED
      BY <3>1, <3>2
  <2> QED
    BY <2>2
<1>3. ASSUME NEW i, NEW j, \A k, l : H(k, l) <=> k = i /\ l = j
      PROVE  P = {<< i, j >>}
  <2>1. << i, j >> \in P
    BY <1>0, <1>3
  <2>2. ASSUME NEW place \in P PROVE place = << i, j >>
    <3>1. PICK k, l : place = << k, l >>
      BY <1>0
    <3>2. H(k, l)
      BY <1>0, <3>1
    <3> QED
      BY <1>3, <3>1, <3>2
  <2> QED
    BY <2>1, <2>2
<1>4. (\E place : P = {place}) <=> \E i, j : \A k, l : H(k, l) <=> k = i /\ l = j
  <2>1. ASSUME \E i, j : \A k, l : H(k, l) <=> k = i /\ l = j PROVE \E place : P = {place}
    <3>1. PICK i, j : \A k, l : H(k, l) <=> k = i /\ l = j
      BY <2>1
    <3> QED
      BY <1>3, <3>1
  <2> QED
    BY <1>2, <2>1
<1> QED
  BY <1>1, <1>4 DEF P, H

\* What createTransaction, and then mining, do to the places.
LEMMA CreatePlaces ==
  ASSUME NEW ledger \in Ledger, NEW tx \in Transaction, NEW x \in Transaction, NEW i, NEW j
  PROVE  Has(CreateTransaction(ledger, tx), x, i, j) <=>
           Has(ledger, x, i, j) \/ (x = tx /\ i = 0 /\ j = Len(ledger.pending) + 1)
<1> DEFINE after == CreateTransaction(ledger, tx)
           longer == Append(ledger.pending, tx)
<1>1. /\ ledger.pending \in Seq(Transaction) /\ ledger.chain \in Seq(Block)
      /\ after.pending = longer /\ after.chain = ledger.chain
  BY DEF Ledger, CreateTransaction
<1>2. /\ Len(ledger.pending) \in Nat /\ Len(longer) = Len(ledger.pending) + 1
      /\ longer[Len(ledger.pending) + 1] = tx
      /\ \A k \in 1..Len(ledger.pending) : longer[k] = ledger.pending[k]
      /\ Len(ledger.chain) \in Nat
  BY <1>1
<1> HIDE DEF after, longer
<1>3. CASE i = 0
  <2>1. Carried(after, i) = longer /\ Carried(ledger, i) = ledger.pending
    BY <1>1, <1>3 DEF Carried
  <2>2. i \in 0..Len(ledger.chain)
    BY <1>2, <1>3
  <2>3. j \in 1..Len(longer) <=> j \in 1..Len(ledger.pending) \/ j = Len(ledger.pending) + 1
    BY <1>2
  <2>4. Len(ledger.pending) + 1 \notin 1..Len(ledger.pending)
    BY <1>2
  <2> QED
    BY <1>1, <1>2, <1>3, <2>1, <2>2, <2>3, <2>4 DEF Has, after
<1>4. CASE i # 0
  <2>1. Carried(after, i) = Carried(ledger, i)
    BY <1>1, <1>4 DEF Carried
  <2> QED
    BY <1>1, <1>4, <2>1 DEF Has, after
<1> QED
  BY <1>3, <1>4

LEMMA MinedPlaces ==
  ASSUME NEW ledger \in Ledger, GoodChain(ledger.chain),
         NEW ts \in Time, NEW reward \in Transaction, NEW x \in Transaction, x # reward,
         NEW i, NEW j
  PROVE  Has(MinePendingTransactions(ledger, ts, reward), x, i, j) <=>
           \/ i # 0 /\ Has(ledger, x, i, j)
           \/ i = Len(ledger.chain) + 1 /\ Has(ledger, x, 0, j)
<1> DEFINE mined == MinePendingTransactions(ledger, ts, reward)
           b == NewBlock(ts, ledger.pending, GetLatestBlock(ledger.chain).hash)
<1>1. /\ mined.chain = Append(ledger.chain, b) /\ mined.pending = << reward >>
      /\ b \in Block /\ b.transactions = ledger.pending
  BY MinedOnTop
<1>2. ledger.chain \in Seq(Block)
  BY DEF Ledger
<1> HIDE DEF mined, b
<1>3. /\ Len(ledger.chain) \in Nat /\ Len(mined.chain) = Len(ledger.chain) + 1
      /\ mined.chain[Len(ledger.chain) + 1] = b
      /\ \A k \in 1..Len(ledger.chain) : mined.chain[k] = ledger.chain[k]
  BY <1>1, <1>2
<1>4. CASE i = 0
  <2>1. Carried(mined, i) = << reward >>
    BY <1>1, <1>4 DEF Carried
  <2>2. ~Has(mined, x, i, j)
    BY <2>1 DEF Has
  <2> QED
    BY <1>3, <1>4, <2>2 DEF mined
<1>5. CASE i \in 1..Len(ledger.chain)
  <2>1. Carried(mined, i) = Carried(ledger, i)
    BY <1>3, <1>5 DEF Carried
  <2>2. i \in 0..Len(mined.chain) /\ i \in 0..Len(ledger.chain) /\ i # 0
        /\ i # Len(ledger.chain) + 1
    BY <1>3, <1>5
  <2> QED
    BY <2>1, <2>2 DEF Has, mined
<1>6. CASE i = Len(ledger.chain) + 1
  <2>1. Carried(mined, i) = ledger.pending /\ Carried(ledger, 0) = ledger.pending
    BY <1>1, <1>3, <1>6 DEF Carried
  <2>2. i \in 0..Len(mined.chain) /\ i \notin 0..Len(ledger.chain) /\ 0 \in 0..Len(ledger.chain)
    BY <1>3, <1>6
  <2> QED
    BY <1>6, <2>1, <2>2 DEF Has, mined
<1>7. CASE i # 0 /\ i \notin 1..Len(ledger.chain) /\ i # Len(ledger.chain) + 1
  <2>1. i \notin 0..Len(mined.chain) /\ i \notin 0..Len(ledger.chain)
    BY <1>3, <1>7
  <2> QED
    BY <1>7, <2>1 DEF Has, mined
<1> QED
  BY <1>4, <1>5, <1>6, <1>7

Nowhere(ledger, tx) == \A i, j : ~Has(ledger, tx, i, j)
OnePlace(ledger, tx) == \E i, j : \A k, l : Has(ledger, tx, k, l) <=> k = i /\ l = j

LEMMA OnceHas ==
  ASSUME NEW ledger
  PROVE  Once(ledger) <=> \A t \in Tx : IF Queued(t) THEN OnePlace(ledger, Payment(t))
                                                     ELSE Nowhere(ledger, Payment(t))
BY PlacesAre DEF Once, OnePlace, Nowhere

LEMMA CreateKeeps ==
  ASSUME NEW ledger \in Ledger, NEW tx \in Transaction, NEW x \in Transaction
  PROVE  LET after == CreateTransaction(ledger, tx) IN
         /\ x # tx => /\ Nowhere(ledger, x) => Nowhere(after, x)
                      /\ OnePlace(ledger, x) => OnePlace(after, x)
         /\ Nowhere(ledger, tx) => OnePlace(after, tx)
<1> DEFINE after == CreateTransaction(ledger, tx)
<1>1. ASSUME x # tx, NEW i, NEW j PROVE Has(after, x, i, j) <=> Has(ledger, x, i, j)
  BY <1>1, CreatePlaces
<1>2. ASSUME NEW i, NEW j
      PROVE  Has(after, tx, i, j) <=> Has(ledger, tx, i, j) \/ (i = 0 /\ j = Len(ledger.pending) + 1)
  BY <1>2, CreatePlaces
<1> HIDE DEF after
<1>3. x # tx => /\ Nowhere(ledger, x) => Nowhere(after, x)
                /\ OnePlace(ledger, x) => OnePlace(after, x)
  BY <1>1 DEF Nowhere, OnePlace
<1>4. Nowhere(ledger, tx) => OnePlace(after, tx)
  <2> DEFINE block == 0
             place == Len(ledger.pending) + 1
  <2> SUFFICES ASSUME Nowhere(ledger, tx) PROVE OnePlace(after, tx)
    OBVIOUS
  <2>1. ASSUME NEW k, NEW l PROVE Has(after, tx, k, l) <=> k = block /\ l = place
    BY <1>2, <2>1 DEF Nowhere
  <2> HIDE DEF block, place
  <2> QED
    BY <2>1 DEF OnePlace
<1> QED
  BY <1>3, <1>4 DEF after

LEMMA MineKeeps ==
  ASSUME NEW ledger \in Ledger, GoodChain(ledger.chain),
         NEW ts \in Time, NEW reward \in Transaction, NEW x \in Transaction, x # reward
  PROVE  LET mined == MinePendingTransactions(ledger, ts, reward) IN
         /\ Nowhere(ledger, x) => Nowhere(mined, x)
         /\ OnePlace(ledger, x) => OnePlace(mined, x)
<1> DEFINE mined == MinePendingTransactions(ledger, ts, reward)
           top == Len(ledger.chain) + 1
<1>1. ASSUME NEW i, NEW j
      PROVE  Has(mined, x, i, j) <=> \/ i # 0 /\ Has(ledger, x, i, j)
                                     \/ i = top /\ Has(ledger, x, 0, j)
  BY <1>1, MinedPlaces
<1>2. ~\E j : Has(ledger, x, top, j)
  <2>1. Len(ledger.chain) \in Nat
    BY DEF Ledger
  <2>2. top \notin 0..Len(ledger.chain)
    BY <2>1
  <2> QED
    BY <2>2 DEF Has
<1>3. top # 0
  BY DEF Ledger
<1> HIDE DEF mined, top
<1>4. Nowhere(ledger, x) => Nowhere(mined, x)
  BY <1>1 DEF Nowhere
<1>5. ASSUME NEW i, NEW j, \A k, l : Has(ledger, x, k, l) <=> k = i /\ l = j
      PROVE  OnePlace(mined, x)
  <2>1. CASE i = 0
    <3>1. \A k, l : Has(mined, x, k, l) <=> k = top /\ l = j
      BY <1>1, <1>2, <1>5, <2>1
    <3> QED
      BY <3>1 DEF OnePlace
  <2>2. CASE i # 0
    <3>1. \A k, l : Has(mined, x, k, l) <=> k = i /\ l = j
      BY <1>1, <1>5, <2>2
    <3> QED
      BY <3>1 DEF OnePlace
  <2> QED
    BY <2>1, <2>2
<1>6. OnePlace(ledger, x) => OnePlace(mined, x)
  <2> SUFFICES ASSUME OnePlace(ledger, x) PROVE OnePlace(mined, x)
    OBVIOUS
  <2>1. PICK i, j : \A k, l : Has(ledger, x, k, l) <=> k = i /\ l = j
    BY DEF OnePlace
  <2> QED
    BY <1>5, <2>1
<1> QED
  BY <1>4, <1>6 DEF mined

LEMMA PaymentsStep ==
  ASSUME IInv, MutualExclusion, RInv, SlotKept, PaymentsInv, [Next]_vars
  PROVE  PaymentsInv'
<1> USE DEF chainVars, nodeVars, semVars, ringVars, mainVars, rcfVars, threadVars, netVars
<1>0. /\ pc \in [Tx -> {"idle", "start", "mining", "add", "size", "copy", "check",
                   "length", "last", "install", "share", "done"}]
      /\ newBlockchain \in [Tx -> Ledger] /\ blockchain \in [Node -> Ledger] /\ Miner \in Node
      /\ blockchain[Miner] \in Ledger /\ GoodChain(blockchain[Miner].chain)
  BY OneMiner, ChainTypes DEF IInv, TypeOK
<1>a. \A t, u \in Tx : Payment(t) = Payment(u) => t = u
  BY DEF Payment
<1>b. \A t \in Tx : Payment(t) \in Transaction
  BY TransactionTypes
<1>1. ASSUME \A t \in Tx : Queued(t)' <=> Queued(t), NEW ledger, Once(ledger)
      PROVE  \A t \in Tx : IF Queued(t)' THEN \E place : Places(ledger, Payment(t)) = {place}
                                         ELSE Places(ledger, Payment(t)) = {}
  BY <1>1 DEF Once
\* Steps by which no payment is queued, and nothing else is pending than before.
<1>2. ASSUME \A t \in Tx : Queued(t)' <=> Queued(t),
             blockchain'[Miner] = blockchain[Miner], UNCHANGED newBlockchain,
             \A t \in Tx : pc'[t] \in {"check", "install"} => pc[t] \in {"check", "install"}
      PROVE  PaymentsInv'
  BY <1>1, <1>2 DEF PaymentsInv, Once
<1>3. ASSUME NEW t \in Tx, TransactionReceived(Miner, t) PROVE PaymentsInv'
  <2>1. /\ \/ blockchain' = [blockchain EXCEPT ![Miner] = CreateTransaction(@, Bonus(t))]
           \/ blockchain' = blockchain
        /\ pc[t] = "idle" /\ pc' = [pc EXCEPT ![t] = "start"] /\ UNCHANGED newBlockchain
    BY <1>3 DEF TransactionReceived
  <2>2. \A u \in Tx : /\ Queued(u)' <=> Queued(u)
                      /\ pc'[u] \in {"check", "install"} => pc[u] \in {"check", "install"}
    BY <1>0, <2>1 DEF Queued
  <2>3. CASE blockchain' = blockchain
    BY <1>2, <2>1, <2>2, <2>3
  <2>4. CASE blockchain' = [blockchain EXCEPT ![Miner] = CreateTransaction(@, Bonus(t))]
    <3>1. blockchain'[Miner] = CreateTransaction(blockchain[Miner], Bonus(t))
      BY <1>0, <2>4
    <3>2. \A u \in Tx : Payment(u) # Bonus(t)
      BY DEF Payment, Bonus
    <3>3. Bonus(t) \in Transaction
      BY TransactionTypes
    <3>4. \A u \in Tx : IF Queued(u) THEN OnePlace(blockchain'[Miner], Payment(u))
                                     ELSE Nowhere(blockchain'[Miner], Payment(u))
      <4> TAKE u \in Tx
      <4>1. IF Queued(u) THEN OnePlace(blockchain[Miner], Payment(u))
                         ELSE Nowhere(blockchain[Miner], Payment(u))
        BY OnceHas DEF PaymentsInv
      <4> QED
        BY <1>0, <1>b, <3>1, <3>2, <3>3, <4>1, CreateKeeps
    <3>5. Once(blockchain'[Miner])
      BY <3>4, OnceHas
    <3> QED
      BY <1>1, <2>1, <2>2, <3>5 DEF PaymentsInv, Once
  <2> QED
    BY <2>1, <2>3, <2>4
<1>4. ASSUME NEW t \in Tx, ThreadStep(t), ~ShareBlock(t) PROVE PaymentsInv'
  <2>0. pc[t] # "idle" /\ home[t] = Miner
    <3>1. pc[t] # "idle"
      BY <1>4, MinerStep DEF WaitMining, WaitBlockchain, AddTransaction, CheckPending, MineCopy,
                  CheckMined, Dropped, InstallMined, ShareBlock, PostSemaphores, At
    <3> QED
      BY <3>1, HomeIsMiner
  <2>1. CASE WaitMining(t) \/ WaitBlockchain(t) \/ PostSemaphores(t) \/ CheckPending(t)
    <3>1. /\ UNCHANGED << blockchain, newBlockchain >>
          /\ \A u \in Tx : u # t => pc'[u] = pc[u]
          /\ pc'[t] \in {"size", "copy", "check", "length", "last", "install", "share", "done"} <=>
             pc[t] \in {"size", "copy", "check", "length", "last", "install", "share", "done"}
          /\ pc'[t] \notin {"check", "install"}
      BY <1>0, <2>1 DEF WaitMining, WaitBlockchain, PostSemaphores, CheckPending, At
    <3> QED
      BY <1>2, <3>1 DEF Queued
  <2>2. CASE AddTransaction(t)
    <3>1. /\ arg_mine[Miner][slot[t]] = t /\ pc[t] = "add" /\ Payment(t) \in Transaction
      BY <2>2, TransactionTypes DEF AddTransaction, At, SlotKept
    <3>2. /\ blockchain' = [blockchain EXCEPT ![Miner] = CreateTransaction(@, Payment(t))]
          /\ UNCHANGED newBlockchain /\ pc' = [pc EXCEPT ![t] = "size"]
      BY <2>0, <2>2, <3>1 DEF AddTransaction
    <3>3. blockchain'[Miner] = CreateTransaction(blockchain[Miner], Payment(t))
      BY <1>0, <3>2
    <3>4. Queued(t)' /\ ~Queued(t) /\ \A u \in Tx : u # t => (Queued(u)' <=> Queued(u))
      BY <1>0, <3>1, <3>2 DEF Queued
    <3>5. ASSUME NEW u \in Tx
          PROVE  IF Queued(u)' THEN OnePlace(blockchain'[Miner], Payment(u))
                               ELSE Nowhere(blockchain'[Miner], Payment(u))
      <4>1. IF Queued(u) THEN OnePlace(blockchain[Miner], Payment(u))
                         ELSE Nowhere(blockchain[Miner], Payment(u))
        BY OnceHas DEF PaymentsInv
      <4>2. CASE u = t
        BY <1>0, <3>1, <3>3, <3>4, <4>1, <4>2, CreateKeeps
      <4>3. CASE u # t
        <5>1. Payment(u) # Payment(t) /\ Payment(u) \in Transaction
          BY <1>a, <1>b, <4>3
        <5> QED
          BY <1>0, <3>1, <3>3, <3>4, <4>1, <4>3, <5>1, CreateKeeps
      <4> QED
        BY <4>2, <4>3
    <3>6. ASSUME NEW u \in Tx
          PROVE  IF Queued(u)' THEN \E place : Places(blockchain'[Miner], Payment(u)) = {place}
                               ELSE Places(blockchain'[Miner], Payment(u)) = {}
      BY <3>5, PlacesAre DEF OnePlace, Nowhere
    <3>7. \A u \in Tx : pc'[u] \notin {"check", "install"}
      <4>1. HoldsMining(t) /\ \A u \in Tx : pc[u] \in {"check", "install"} => HoldsMining(u)
        BY <3>1 DEF HoldsMining
      <4>2. \A u \in Tx : pc[u] \notin {"check", "install"}
        BY <3>1, <4>1, OneHolder DEF RInv
      <4> QED
        BY <1>0, <3>2, <4>2
    <3> QED
      BY <3>6, <3>7 DEF PaymentsInv, Once
  <2>3. CASE MineCopy(t)
    <3>1. PICK ts \in Time : newBlockchain' = [newBlockchain EXCEPT ![t] =
                               MinePendingTransactions(blockchain[Miner], ts, Reward(Miner))]
      BY <2>0, <2>3 DEF MineCopy
    <3>2. newBlockchain'[t] = MinePendingTransactions(blockchain[Miner], ts, Reward(Miner))
      BY <1>0, <3>1
    <3>3. Reward(Miner) \in Transaction /\ \A u \in Tx : Payment(u) # Reward(Miner)
      BY <1>0, TransactionTypes DEF Payment, Reward
    <3>4. \A u \in Tx : IF Queued(u) THEN OnePlace(newBlockchain'[t], Payment(u))
                                     ELSE Nowhere(newBlockchain'[t], Payment(u))
      <4> TAKE u \in Tx
      <4>1. IF Queued(u) THEN OnePlace(blockchain[Miner], Payment(u))
                         ELSE Nowhere(blockchain[Miner], Payment(u))
        BY OnceHas DEF PaymentsInv
      <4> QED
        BY <1>0, <1>b, <3>2, <3>3, <4>1, MineKeeps
    <3>5. Once(newBlockchain'[t])
      BY <3>4, OnceHas
    <3>6. UNCHANGED blockchain /\ pc[t] = "copy" /\ pc'[t] = "check"
          /\ \A u \in Tx : u # t => pc'[u] = pc[u] /\ newBlockchain'[u] = newBlockchain[u]
      BY <1>0, <2>3, <3>1 DEF MineCopy, At
    <3>7. \A u \in Tx : Queued(u)' <=> Queued(u)
      BY <3>6 DEF Queued
    <3>8. \A u \in Tx : pc'[u] \in {"check", "install"} => Once(newBlockchain'[u])
      BY <3>5, <3>6 DEF PaymentsInv
    <3> QED
      BY <1>1, <3>6, <3>7, <3>8 DEF PaymentsInv, Once
  <2>4. CASE CheckMined(t)
    <3>1. /\ UNCHANGED << blockchain, newBlockchain >>
          /\ pc[t] = "check" /\ pc' = [pc EXCEPT ![t] = "install"]
      BY <2>4, MinedIsKept DEF CheckMined, At
    <3>2. \A u \in Tx : /\ Queued(u)' <=> Queued(u)
                        /\ pc'[u] \in {"check", "install"} => pc[u] \in {"check", "install"}
      BY <1>0, <3>1 DEF Queued
    <3> QED
      BY <1>2, <3>1, <3>2
  <2>5. CASE InstallMined(t)
    <3>1. HoldsMining(t) /\ pc[t] = "install" /\ pc' = [pc EXCEPT ![t] = "share"]
      BY <2>5 DEF InstallMined, At, HoldsMining
    <3>2. blockchain'[Miner] = newBlockchain[t] /\ Once(newBlockchain[t])
      BY <1>0, <2>0, <2>5, <3>1 DEF InstallMined, PaymentsInv
    <3>3. \A u \in Tx : pc'[u] \notin {"check", "install"} /\ (Queued(u)' <=> Queued(u))
      BY <1>0, <3>1, OneHolder DEF HoldsMining, RInv, Queued
    <3> QED
      BY <1>1, <3>2, <3>3 DEF PaymentsInv, Once
  <2> QED
    BY <1>4, <2>1, <2>2, <2>3, <2>4, <2>5, MinerStep
<1>5. CASE /\ UNCHANGED << pc, home, slot, arg_mine, newBlockchain >>
           /\ blockchain'[Miner] = blockchain[Miner]
  BY <1>2, <1>5 DEF Queued
<1> QED
  BY <1>3, <1>4, <1>5, LedgerSteps

\* As long as no slot of arg_mine is used again before the thread has read it, a
\* payment is on the chain or pending at the node that took it exactly once from
\* the moment it is queued, through every copy and swap of the ledger by the
\* threads of that node (threadMine, createTransaction).
THEOREM PaymentsOnceIfSlotsKept == Safety /\ []SlotKept => []PaymentsOnce
<1>1. Init => PaymentsInv
  <2> SUFFICES ASSUME Init PROVE PaymentsInv
    OBVIOUS
  <2> PICK ts \in Time : Init!(ts)
    BY DEF Init
  <2>1. blockchain[Miner] = NewLedger(ts)
    BY OneMiner
  <2>2. \A i \in 0..Len(NewLedger(ts).chain) : Carried(NewLedger(ts), i) = << >>
    BY DEF NewLedger, Carried, CreateGenesisBlock, NewBlock
  <2>3. \A t \in Tx : Nowhere(blockchain[Miner], Payment(t))
    BY <2>1, <2>2 DEF Nowhere, Has
  <2>4. \A t \in Tx : ~Queued(t) /\ pc[t] \notin {"check", "install"}
    BY DEF Queued
  <2> QED
    BY <2>3, <2>4, OnceHas DEF PaymentsInv
<1>2. IInv /\ RInv /\ PaymentsInv => PaymentsOnce
  <2> SUFFICES ASSUME IInv, RInv, PaymentsInv, NEW t \in Tx, home[t] # Nobody
               PROVE  Times(home[t], Payment(t)) = IF Queued(t) THEN 1 ELSE 0
    BY DEF PaymentsOnce
  <2>1. home[t] = Miner
    BY DEF RInv, Formed
  <2>2. CASE Queued(t)
    <3>1. PICK place : Places(blockchain[Miner], Payment(t)) = {place}
      BY <2>2 DEF PaymentsInv, Once
    <3> QED
      BY <2>1, <2>2, <3>1, FS_Singleton DEF Times
  <2>3. CASE ~Queued(t)
    <3>1. Places(blockchain[Miner], Payment(t)) = {}
      BY <2>3 DEF PaymentsInv, Once
    <3> QED
      BY <2>1, <2>3, <3>1, FS_EmptySet DEF Times
  <2> QED
    BY <2>2, <2>3
<1> QED
  BY <1>1, <1>2, PaymentsStep, RAlways, PTL DEF Safety

\* Hence, as long as no more payments come than there are slots: none is lost,
\* none is taken twice.
THEOREM PaymentsAlwaysOnce ==
  ASSUME EnoughSlots
  PROVE  Safety => []PaymentsOnce
BY PaymentsOnceIfSlotsKept, SlotsSuffice, PTL

\* And each thread sends the block that carries its payment.
THEOREM AlwaysSharesOwnBlock ==
  ASSUME EnoughSlots
  PROVE  Safety => []SharesOwnBlock
BY SharesOwnBlockIfSlotsKept, SlotsSuffice, PTL
=============================================================================
