---------------------------- MODULE FollowerProofs ----------------------------
(***************************************************************************)
(* Proofs about the nodes of any network that take no payments themselves, *)
(* and so have only the RCF handlers to write their pointer: their chains  *)
(* never get shorter, adopting one queues what it lacks of theirs, and     *)
(* their handlers throw at nobody.                                         *)
(***************************************************************************)
EXTENDS NoeudBlocProofs, Recursion

-----------------------------------------------------------------------------
(* Two valid chains.                                                       *)

\* Blocks with the same digest follow blocks with the same digest.
LEMMA SameDigest ==
  ASSUME NEW b \in Block, NEW c \in Block, CalculateHash(b) = CalculateHash(c)
  PROVE  b.previousHash = c.previousHash
<1> DEFINE s == b.previousHash
           t == c.previousHash
           e == ContentOf(b)
           f == ContentOf(c)
<1>1. s \in Seq(Content) /\ t \in Seq(Content) BY DEF Block, Hash
<1>2. e \in Content /\ f \in Content BY DEF Block, ContentOf, Content
<1>3. Append(s, e) = Append(t, f) BY DEF CalculateHash
<1> HIDE DEF s, t, e, f
<1>4. s = t BY <1>1, <1>2, <1>3, AppendInjective
<1> QED BY <1>4 DEF s, t

\* A digest commits to the history: below a common one, all are common.
LEMMA CommonBelow ==
  ASSUME NEW mine \in Seq(Block), NEW theirs \in Seq(Block),
         IsChainValid(mine), IsChainValid(theirs),
         NEW i \in 1..Len(mine), i <= Len(theirs), mine[i].hash = theirs[i].hash
  PROVE  \A j \in 1..i : mine[j].hash = theirs[j].hash
<1> DEFINE T == {d \in Nat : d < i => mine[i - d].hash = theirs[i - d].hash}
<1>1. i \in Nat /\ Len(mine) \in Nat /\ Len(theirs) \in Nat OBVIOUS
<1>2. 0 \in T
  <2>1. i - 0 = i BY <1>1
  <2> QED BY <2>1
<1>3. ASSUME NEW d \in T PROVE d + 1 \in T
  <2>1. d \in Nat /\ d + 1 \in Nat OBVIOUS
  <2>2. ASSUME d + 1 < i PROVE mine[i - (d + 1)].hash = theirs[i - (d + 1)].hash
    <3> DEFINE k == i - d
    <3>1. k \in 2..Len(mine) /\ k \in 2..Len(theirs) /\ k - 1 = i - (d + 1)
      BY <1>1, <2>1, <2>2
    <3>2. mine[k].hash = theirs[k].hash BY <2>1, <2>2, <1>1
    <3> HIDE DEF k
    <3>3. /\ mine[k].hash = CalculateHash(mine[k])
          /\ mine[k].previousHash = mine[k - 1].hash
      BY <3>1 DEF IsChainValid
    <3>4. /\ theirs[k].hash = CalculateHash(theirs[k])
          /\ theirs[k].previousHash = theirs[k - 1].hash
      BY <3>1 DEF IsChainValid
    <3>5. mine[k] \in Block /\ theirs[k] \in Block BY <1>1, <3>1
    <3>6. mine[k].previousHash = theirs[k].previousHash
      <4>1. CalculateHash(mine[k]) = CalculateHash(theirs[k]) BY <3>2, <3>3, <3>4
      <4> QED BY <3>5, <4>1, SameDigest, Zenon
    <3> QED BY <3>1, <3>3, <3>4, <3>6
  <2> QED BY <2>1, <2>2
<1>4. T = Nat
  <2> HIDE DEF T
  <2>1. T \in SUBSET Nat BY DEF T
  <2> QED BY <1>2, <1>3, <2>1, Induction
<1>5. ASSUME NEW j \in 1..i PROVE mine[j].hash = theirs[j].hash
  <2>1. i - j \in Nat /\ i - j < i /\ i - (i - j) = j BY <1>1
  <2>2. i - j \in T BY <1>4, <2>1
  <2> QED BY <2>1, <2>2
<1> QED BY <1>5

\* From the first block that differs on, every block is missing in the other chain.
LEMMA MissingAbove ==
  ASSUME NEW mine \in Seq(Block), NEW theirs \in Seq(Block),
         IsChainValid(mine), IsChainValid(theirs),
         NEW at \in 1..Len(mine), at <= Len(theirs), mine[at].hash # theirs[at].hash
  PROVE  at..Len(mine) \subseteq Missing(mine, theirs)
<1> SUFFICES ASSUME NEW i \in at..Len(mine), i <= Len(theirs), mine[i].hash = theirs[i].hash
             PROVE  FALSE
  BY DEF Missing
<1>1. i \in 1..Len(mine) /\ at \in 1..i OBVIOUS
<1>2. \A j \in 1..i : mine[j].hash = theirs[j].hash BY <1>1, CommonBelow
<1> QED BY <1>1, <1>2

-----------------------------------------------------------------------------
(* The inductive invariant: how far the handler of such a node is.         *)

\* What the blocks of a chain at the places I carry.
TxsAt(chain, I) == UNION {ToSet(chain[i].transactions) : i \in I}

\* What a handler that has looked at both chains knows still holds when it swaps the
\* pointer: its search has passed blocks that are in both chains, and what it has queued
\* is what it has walked over, all of it missing in the other chain.
Scanning(n) ==
  LET mine == blockchain[n].chain
      theirs == newChain[n].chain
      queued == ToSet(newChain[n].pending)
      missing == Missing(mine, theirs)
      at == index[n]
  IN
  /\ handler[n] \in {"chain", "compare", "digest"} => queued = {}
  /\ handler[n] \in {"compare", "digest", "requeue", "walk", "adopt"} => Len(mine) <= Len(theirs)
  /\ handler[n] \in {"compare", "digest", "requeue", "walk"} => at \in 1..(Len(mine) + 1)
  /\ handler[n] \in {"digest", "walk"} => at <= Len(mine)
  /\ handler[n] \in {"compare", "digest"} => \A j \in 1..(at - 1) : mine[j].hash = theirs[j].hash
  /\ handler[n] \in {"requeue", "walk"} =>
       at..Len(mine) \subseteq missing /\ queued = TxsAt(mine, {i \in missing : i < at})
  /\ handler[n] = "adopt" => queued = TxsAt(mine, missing)
  /\ handler[n] \in {"block", "extend"} => Len(theirs) = Len(mine) + 1

FInv ==
  /\ \A t \in Tx : home[t] \in Miners \cup {Nobody}
  /\ \A n \in Node : status[n] = "off" => handler[n] = "idle"
  /\ \A n \in Node : Follows(n) => Scanning(n)

LEMMA InitScanning == ASSUME Init PROVE FInv
BY DEF Init, FInv, Scanning

LEMMA ScanningKept ==
  ASSUME NEW n \in Node, Scanning(n),
         UNCHANGED << blockchain[n], handler[n], newChain[n], index[n] >>
  PROVE  Scanning(n)'
BY DEF Scanning

-----------------------------------------------------------------------------
(* One step of the handler.                                                *)

\* What the proofs about node n need of its state.
LEMMA NodeTypes ==
  ASSUME IInv, NEW n \in Node
  PROVE  /\ blockchain[n].chain \in Seq(Block) /\ blockchain[n].pending \in Seq(Transaction)
         /\ newChain[n].chain \in Seq(Block) /\ newChain[n].pending \in Seq(Transaction)
         /\ index[n] \in Nat
         /\ IsChainValid(blockchain[n].chain)
         /\ handler[n] \notin {"idle", "block"} => IsChainValid(newChain[n].chain)
         /\ n \in DOMAIN handler /\ n \in DOMAIN newChain /\ n \in DOMAIN index
BY DEF IInv, TypeOK, Ledger, ChainsValid, GoodChain

\* A handler that returns is at no line.
LEMMA ReturnScanning ==
  ASSUME IInv, NEW n \in Node, Return(n)
  PROVE  Scanning(n)'
<1>1. handler'[n] = "idle" BY NodeTypes DEF Return
<1> QED BY <1>1 DEF Scanning

\* sendBlockchain and sendBlock: the copy.
LEMMA ReceiveScanning ==
  ASSUME IInv, NEW n \in Node, ReceiveBlockchain(n) \/ ReceiveBlock(n)
  PROVE  Scanning(n)'
<1> USE DEF chainVars
<1>1. CASE ReceiveBlockchain(n)
  <2>1. PICK c \in calls : newChain' = [newChain EXCEPT ![n] = Received(c.chain)]
    BY <1>1 DEF ReceiveBlockchain
  <2>2. ToSet(newChain'[n].pending) = {} BY <2>1, NodeTypes DEF Received, ToSet
  <2>3. handler'[n] = "chain" BY <1>1, NodeTypes DEF ReceiveBlockchain
  <2> QED BY <2>2, <2>3 DEF Scanning
<1>2. CASE ReceiveBlock(n)
  <2>1. PICK c \in calls : /\ c.procedure = "sendBlock"
                           /\ newChain' = [newChain EXCEPT ![n] =
                                [blockchain[n] EXCEPT !.chain = Append(@, c.block)]]
    BY <1>2 DEF ReceiveBlock
  <2>2. newChain'[n].chain = Append(blockchain[n].chain, c.block)
    <3> DEFINE longer == Append(blockchain[n].chain, c.block)
    <3>1. newChain' = [newChain EXCEPT ![n] = [blockchain[n] EXCEPT !.chain = longer]]
      BY <2>1
    <3>2. newChain'[n] = [blockchain[n] EXCEPT !.chain = longer] BY <3>1, NodeTypes
    <3>3. blockchain[n] \in Ledger BY DEF IInv, TypeOK
    <3> HIDE DEF longer
    <3>4. newChain'[n].chain = longer BY <3>2, <3>3 DEF Ledger
    <3> QED BY <3>4 DEF longer
  <2>3. Len(newChain'[n].chain) = Len(blockchain[n].chain) + 1
    <3>1. c.block \in Block BY <2>1 DEF IInv, TypeOK, Call
    <3> QED BY <2>2, <3>1, NodeTypes
  <2>4. handler'[n] = "block" /\ blockchain'[n] = blockchain[n]
    BY <1>2, NodeTypes DEF ReceiveBlock
  <2> QED BY <2>3, <2>4 DEF Scanning
<1> QED BY <1>1, <1>2

\* sendBlockchain: the comparison of the lengths.
LEMMA CheckScanning ==
  ASSUME IInv, NEW n \in Node, Scanning(n), CheckBlockchain(n)
  PROVE  Scanning(n)'
<1> DEFINE mine == blockchain[n].chain
           theirs == newChain[n].chain
<1>1. handler[n] = "chain" BY DEF CheckBlockchain, Handling
<1>2. CASE Return(n) BY <1>2, ReturnScanning
<1>3. CASE ~Return(n)
  <2>1. /\ Len(mine) <= Len(theirs)
        /\ handler'[n] = "compare" /\ index'[n] = 1
        /\ newChain' = newChain /\ blockchain' = blockchain
    BY <1>3, NodeTypes DEF CheckBlockchain, chainVars
  <2>2. ToSet(newChain[n].pending) = {} BY <1>1 DEF Scanning
  <2>3. 1 \in 1..(Len(mine) + 1) /\ 1..(1 - 1) = {} BY NodeTypes
  <2> QED BY <2>1, <2>2, <2>3 DEF Scanning
<1> QED BY <1>2, <1>3

\* The search for the fork: a block that both chains have, or the first that they do
\* not share.
LEMMA CompareScanning ==
  ASSUME IInv, NEW n \in Node, Scanning(n), CompareSize(n) \/ CompareDigest(n)
  PROVE  Scanning(n)'
<1> DEFINE mine == blockchain[n].chain
           theirs == newChain[n].chain
           missing == Missing(mine, theirs)
           at == index[n]
<1>1. /\ ToSet(newChain[n].pending) = {} /\ Len(mine) <= Len(theirs)
      /\ at \in 1..(Len(mine) + 1) /\ \A j \in 1..(at - 1) : mine[j].hash = theirs[j].hash
  BY DEF CompareSize, CompareDigest, Handling, Scanning
<1>2. /\ mine \in Seq(Block) /\ theirs \in Seq(Block)
      /\ at \in Nat /\ Len(mine) \in Nat /\ Len(theirs) \in Nat
  BY NodeTypes
<1>3. {i \in missing : i < at} = {}
  <2>1. ASSUME NEW i \in missing, i < at PROVE FALSE
    <3>1. i \in 1..Len(mine) /\ (i > Len(theirs) \/ mine[i].hash # theirs[i].hash)
      BY <2>1 DEF Missing
    <3>2. i \in 1..(at - 1) BY <1>2, <2>1, <3>1
    <3> QED BY <1>1, <1>2, <3>1, <3>2
  <2> QED BY <2>1
<1>4. TxsAt(mine, {i \in missing : i < at}) = {} BY <1>3 DEF TxsAt
<1>5. newChain' = newChain /\ blockchain' = blockchain
  BY DEF CompareSize, CompareDigest, chainVars
<1>6. CASE CompareSize(n)
  <2>1. handler'[n] = IF at <= Len(mine) THEN "digest" ELSE "requeue"
    BY <1>6, NodeTypes DEF CompareSize
  <2>2. index' = index BY <1>6 DEF CompareSize
  <2>3. CASE at <= Len(mine)
    <3>1. handler'[n] = "digest" BY <2>1, <2>3
    <3> HIDE DEF at
    <3> QED BY <1>1, <1>5, <2>2, <2>3, <3>1 DEF Scanning, at
  <2>4. CASE ~(at <= Len(mine))
    <3>1. handler'[n] = "requeue" /\ at..Len(mine) = {} BY <1>2, <2>1, <2>4
    <3> QED BY <1>1, <1>4, <1>5, <2>2, <3>1 DEF Scanning
  <2> QED BY <2>3, <2>4
<1>7. CASE CompareDigest(n)
  <2>1. at <= Len(mine) BY <1>7 DEF CompareDigest, Handling, Scanning
  <2>2. CASE mine[at].hash = theirs[at].hash
    <3>1. handler'[n] = "compare" /\ index'[n] = at + 1
      BY <1>7, <2>2, NodeTypes DEF CompareDigest
    <3>2. at + 1 \in 1..(Len(mine) + 1) /\ 1..((at + 1) - 1) = 1..(at - 1) \cup {at}
      BY <1>1, <1>2, <2>1
    <3>3. \A j \in 1..((at + 1) - 1) : mine[j].hash = theirs[j].hash
      BY <1>1, <2>2, <3>2
    <3> HIDE DEF at
    <3> QED BY <1>1, <1>5, <3>1, <3>2, <3>3 DEF Scanning
  <2>3. CASE mine[at].hash # theirs[at].hash
    <3>1. handler'[n] = "requeue" /\ index' = index
      BY <1>7, <2>3, NodeTypes DEF CompareDigest
    <3>2. IsChainValid(mine) /\ IsChainValid(theirs)
      BY <1>7, NodeTypes DEF CompareDigest, Handling
    <3>3. at \in 1..Len(mine) /\ at <= Len(theirs) BY <1>1, <1>2, <2>1
    <3>4. at..Len(mine) \subseteq missing
      <4> HIDE DEF mine, theirs, at
      <4> QED BY <1>2, <2>3, <3>2, <3>3, MissingAbove
    <3> QED BY <1>1, <1>4, <1>5, <3>1, <3>4 DEF Scanning
  <2> QED BY <2>2, <2>3
<1> QED BY <1>6, <1>7

\* The walk: its end, and one more block.
LEMMA RequeueScanning ==
  ASSUME IInv, NEW n \in Node, Scanning(n), RequeueSize(n) \/ RequeueBlock(n)
  PROVE  Scanning(n)'
<1> DEFINE mine == blockchain[n].chain
           theirs == newChain[n].chain
           missing == Missing(mine, theirs)
           at == index[n]
           block == mine[at]
<1>1. /\ Len(mine) <= Len(theirs) /\ at \in 1..(Len(mine) + 1)
      /\ at..Len(mine) \subseteq missing
      /\ ToSet(newChain[n].pending) = TxsAt(mine, {i \in missing : i < at})
  BY DEF RequeueSize, RequeueBlock, Handling, Scanning
<1>2. Len(mine) \in Nat /\ at \in Nat BY NodeTypes
<1>m. \A i \in missing : i \in 1..Len(mine) BY DEF Missing
<1>3. CASE RequeueBlock(n)
  <2>1. at <= Len(mine) BY <1>3 DEF RequeueBlock, Handling, Scanning
  <2>2. block \in Block
    <3>1. at \in 1..Len(mine) BY <1>1, <1>2, <2>1
    <3> QED BY <3>1, NodeTypes
  <2>3. newChain' = [newChain EXCEPT ![n] =
                       [newChain[n] EXCEPT !.pending = newChain[n].pending \o block.transactions]]
    BY <1>3 DEF RequeueBlock
  <2>4. newChain'[n].chain = theirs
        /\ newChain'[n].pending = newChain[n].pending \o block.transactions
    <3> DEFINE queued == newChain[n].pending \o block.transactions
    <3>1. newChain'[n] = [newChain[n] EXCEPT !.pending = queued] BY <2>3, NodeTypes
    <3>2. newChain[n] \in Ledger BY DEF IInv, TypeOK
    <3> HIDE DEF queued, block
    <3>3. newChain'[n].chain = newChain[n].chain /\ newChain'[n].pending = queued
      BY <3>1, <3>2 DEF Ledger
    <3> QED BY <3>3 DEF queued
  <2>5. ToSet(newChain'[n].pending) = ToSet(newChain[n].pending) \cup ToSet(block.transactions)
    <3>1. block.transactions \in Seq(Transaction) BY <2>2 DEF Block
    <3>2. newChain[n].pending \in Seq(Transaction) BY NodeTypes
    <3> DEFINE p == newChain[n].pending
               q == block.transactions
    <3>3. p \in Seq(Transaction) /\ q \in Seq(Transaction) BY <3>1, <3>2
    <3> HIDE DEF p, q
    <3>4. Range(p \o q) = Range(p) \cup Range(q) BY <3>3, RangeConcatenation
    <3>5. ToSet(p \o q) = ToSet(p) \cup ToSet(q) BY <3>4 DEF ToSet, Range
    <3> QED BY <2>4, <3>5 DEF p, q
  <2>6. {i \in missing : i < at + 1} = {i \in missing : i < at} \cup {at}
    <3>1. at \in missing BY <1>1, <1>2, <2>1
    <3>2. \A i \in missing : i < at + 1 <=> i < at \/ i = at
      <4> HIDE DEF missing, mine, at
      <4> QED BY <1>2, <1>m
    <3> QED BY <1>2, <3>1, <3>2
  <2>7. TxsAt(mine, {i \in missing : i < at + 1})
          = TxsAt(mine, {i \in missing : i < at}) \cup ToSet(block.transactions)
    BY <2>6 DEF TxsAt
  <2>8. at + 1 \in 1..(Len(mine) + 1) /\ (at + 1)..Len(mine) \subseteq missing
    <3>1. (at + 1)..Len(mine) \subseteq at..Len(mine) BY <1>2
    <3> QED BY <1>1, <1>2, <2>1, <3>1
  <2>9. /\ handler'[n] = "requeue" /\ blockchain' = blockchain /\ index'[n] = at + 1
    BY <1>3, NodeTypes DEF RequeueBlock, chainVars
  <2> HIDE DEF at, block
  <2> QED BY <1>1, <2>4, <2>5, <2>7, <2>8, <2>9 DEF Scanning
<1>4. CASE RequeueSize(n)
  <2>1. handler'[n] = IF at <= Len(mine) THEN "walk" ELSE "adopt"
    BY <1>4, NodeTypes DEF RequeueSize
  <2>2. index' = index /\ blockchain' = blockchain /\ newChain' = newChain
    BY <1>4 DEF RequeueSize, chainVars
  <2>3. CASE at <= Len(mine)
    <3>1. handler'[n] = "walk" BY <2>1, <2>3
    <3> HIDE DEF at
    <3> QED BY <1>1, <2>2, <2>3, <3>1 DEF Scanning, at
  <2>4. CASE ~(at <= Len(mine))
    <3>1. handler'[n] = "adopt" BY <2>1, <2>4
    <3>2. \A i \in missing : i < at
      <4> HIDE DEF missing, mine, at
      <4> QED BY <1>2, <1>m, <2>4
    <3>3. {i \in missing : i < at} = missing BY <3>2
    <3> QED BY <1>1, <2>2, <3>1, <3>3 DEF Scanning
  <2> QED BY <2>3, <2>4
<1> QED BY <1>3, <1>4

\* Every step of the handler.
LEMMA HandlerScanning ==
  ASSUME IInv, NEW n \in Node, Scanning(n), HandlerStep(n)
  PROVE  Scanning(n)'
<1>1. CASE BlockValid(n)
  <2>1. Len(newChain[n].chain) = Len(blockchain[n].chain) + 1
    BY <1>1 DEF BlockValid, Handling, Scanning
  <2>2. handler'[n] = "extend" /\ blockchain' = blockchain /\ newChain' = newChain
    BY <1>1, NodeTypes DEF BlockValid, chainVars
  <2> QED BY <2>1, <2>2 DEF Scanning
<1>2. CASE BlockInvalid(n)
  <2>1. Return(n) \/ UNCHANGED << blockchain, handler, newChain, index >>
    BY <1>2 DEF BlockInvalid, chainVars, rcfVars
  <2> QED BY <2>1, ReturnScanning, ScanningKept
<1>3. CASE AdoptBlockchain(n) \/ InstallBlock(n) \/ OutOfRange(n)
  BY <1>3, ReturnScanning DEF AdoptBlockchain, InstallBlock, OutOfRange
<1> QED BY <1>1, <1>2, <1>3, ReceiveScanning, CheckScanning, CompareScanning, RequeueScanning
           DEF HandlerStep

-----------------------------------------------------------------------------
(* Every other step.                                                       *)

\* The threads of payments run at other nodes.
LEMMA MinersMine ==
  ASSUME IInv, FInv, NEW n \in Node, Follows(n), NEW t \in Tx, ThreadStep(t)
  PROVE  home[t] # n
<1>1. home[t] \in Node
  BY DEF ThreadStep, WaitMining, WaitBlockchain, AddTransaction, CheckPending, MineCopy,
         CheckMined, CompareLengths, CompareLastBlocks, InstallMined, ShareBlock, PostSemaphores,
         At, IInv, Wiring
<1>2. home[t] \in Miners BY <1>1, NodesAndPayments DEF FInv
<1> QED BY <1>2 DEF Follows

\* Its own handler, and its start, are all that touches such a node's pointer and copy.
LEMMA OthersScanning ==
  ASSUME IInv, FInv, [Next]_vars, NEW n \in Node, Follows(n), ~HandlerStep(n)
  PROVE  Scanning(n)'
<1> USE DEF chainVars, nodeVars, semVars, ringVars, mainVars, rcfVars, threadVars, netVars
<1>0. Scanning(n) BY DEF FInv
<1> DEFINE Kept == UNCHANGED << blockchain[n], handler[n], newChain[n], index[n] >>
<1>k. Kept => Scanning(n)' BY <1>0, ScanningKept
<1>1. ASSUME NEW m \in Node, Start(m) PROVE Scanning(n)'
  <2>1. CASE m = n
    <3>1. handler'[n] = "idle" BY <1>1, <2>1 DEF Start, FInv
    <3> QED BY <3>1 DEF Scanning
  <2>2. CASE m # n
    <3>1. Kept BY <1>1, <2>2 DEF Start, IInv, TypeOK
    <3> QED BY <3>1, <1>k
  <2> QED BY <2>1, <2>2
<1>2. ASSUME NEW m \in Node, Stop(m) \/ AskBalance(m) \/ DecayQuality(m) \/ PeerMessage(m) \/ MainStep(m)
      PROVE Scanning(n)'
  <2>1. Kept
    BY <1>2 DEF Stop, AskBalance, DecayQuality, PeerMessage, ConnectReceived,
                ShareServerReceived, AskBlockchainReceived, MainStep, SendBlockchain, AnswerBalance
  <2> QED BY <2>1, <1>k
<1>3. ASSUME NEW m \in Node, HandlerStep(m) PROVE Scanning(n)'
  <2>1. m # n BY <1>3
  <2>2. UNCHANGED << handler[n], newChain[n], index[n] >>
    <3>1. Return(m) => UNCHANGED << handler[n], newChain[n], index[n] >>
      BY <2>1 DEF Return, IInv, TypeOK
    <3>2. CASE ReceiveBlockchain(m)
      BY <2>1, <3>2 DEF ReceiveBlockchain, IInv, TypeOK
    <3>3. CASE RequeueBlock(m)
      BY <2>1, <3>3 DEF RequeueBlock, IInv, TypeOK
    <3>4. CASE CheckBlockchain(m) \/ CompareDigest(m)
      <4>1. \/ Return(m)
            \/ /\ newChain' = newChain
               /\ \E l : handler' = [handler EXCEPT ![m] = l]
               /\ index' = index \/ \E i : index' = [index EXCEPT ![m] = i]
        BY <3>4 DEF CheckBlockchain, CompareDigest
      <4> QED BY <2>1, <3>1, <4>1 DEF IInv, TypeOK
    <3>5. CASE CompareSize(m) \/ RequeueSize(m) \/ ReceiveBlock(m) \/ BlockValid(m)
      BY <2>1, <3>5 DEF CompareSize, RequeueSize, ReceiveBlock, BlockValid, IInv, TypeOK
    <3>6. CASE AdoptBlockchain(m) \/ InstallBlock(m) \/ BlockInvalid(m) \/ OutOfRange(m)
      BY <3>1, <3>6 DEF AdoptBlockchain, InstallBlock, BlockInvalid, OutOfRange
    <3> QED BY <1>3, <3>2, <3>3, <3>4, <3>5, <3>6 DEF HandlerStep
  <2>3. blockchain'[n] = blockchain[n]
    BY <1>3, <2>1 DEF HandlerStep, ReceiveBlockchain, CheckBlockchain, CompareSize, CompareDigest,
              RequeueSize, RequeueBlock, OutOfRange, AdoptBlockchain, ReceiveBlock, BlockValid,
              InstallBlock, BlockInvalid, IInv, TypeOK
  <2> QED BY <2>2, <2>3, <1>k
<1>4. ASSUME NEW m \in Node, NEW t \in Tx, TransactionReceived(m, t) PROVE Scanning(n)'
  <2>1. m # n BY <1>4 DEF TransactionReceived, Follows, Miners
  <2>2. Kept BY <1>4, <2>1 DEF TransactionReceived, IInv, TypeOK
  <2> QED BY <2>2, <1>k
<1>5. ASSUME NEW t \in Tx, ThreadStep(t) PROVE Scanning(n)'
  <2>1. home[t] # n BY <1>5, MinersMine
  <2>2. blockchain'[n] = blockchain[n]
    BY <1>5, <2>1 DEF ThreadStep, WaitMining, WaitBlockchain, AddTransaction, CheckPending, MineCopy,
                      CheckMined, CompareLengths, CompareLastBlocks, InstallMined, ShareBlock,
                      PostSemaphores, IInv, TypeOK
  <2>3. UNCHANGED rcfVars
    BY <1>5 DEF ThreadStep, WaitMining, WaitBlockchain, AddTransaction, CheckPending, MineCopy,
                CheckMined, CompareLengths, CompareLastBlocks, InstallMined, ShareBlock,
                PostSemaphores
  <2> QED BY <2>2, <2>3, <1>k
<1>6. ASSUME NEW c \in calls, CallFails(c) PROVE Scanning(n)'
  <2>1. Kept BY <1>6 DEF CallFails
  <2> QED BY <2>1, <1>k
<1>7. ASSUME NEW m \in udp, LoseDatagram(m) PROVE Scanning(n)'
  <2>1. Kept BY <1>7 DEF LoseDatagram
  <2> QED BY <2>1, <1>k
<1>8. CASE UNCHANGED vars
  <2>1. Kept BY <1>8 DEF vars
  <2> QED BY <2>1, <1>k
<1> HIDE DEF Kept
<1> QED BY <1>1, <1>2, <1>3, <1>4, <1>5, <1>6, <1>7, <1>8 DEF Next

\* While it runs, only two steps of its handler replace its pointer.
LEMMA ChainKept ==
  ASSUME IInv, FInv, Next, NEW n \in Node, Follows(n), Up(n),
         ~AdoptBlockchain(n), ~InstallBlock(n)
  PROVE  blockchain'[n] = blockchain[n]
<1>0. ASSUME NEW t \in Tx, ThreadStep(t) PROVE home[t] # n BY <1>0, MinersMine
<1> USE DEF chainVars, IInv, TypeOK
<1>1. ASSUME NEW m \in Node, Start(m) PROVE blockchain'[n] = blockchain[n]
  <2>1. m # n BY <1>1 DEF Start, Up
  <2> QED BY <1>1, <2>1 DEF Start
<1>2. ASSUME NEW m \in Node, HandlerStep(m) PROVE blockchain'[n] = blockchain[n]
  BY <1>2 DEF HandlerStep, ReceiveBlockchain, CheckBlockchain, CompareSize, CompareDigest,
              RequeueSize, RequeueBlock, OutOfRange, AdoptBlockchain, ReceiveBlock, BlockValid,
              InstallBlock, BlockInvalid
<1>3. ASSUME NEW m \in Node, NEW t \in Tx, TransactionReceived(m, t)
      PROVE  blockchain'[n] = blockchain[n]
  <2>1. m # n BY <1>3 DEF TransactionReceived, Follows, Miners
  <2> QED BY <1>3, <2>1 DEF TransactionReceived
<1>4. ASSUME NEW t \in Tx, ThreadStep(t) PROVE blockchain'[n] = blockchain[n]
  BY <1>4, <1>0 DEF ThreadStep, WaitMining, WaitBlockchain, AddTransaction, CheckPending,
              MineCopy, CheckMined, CompareLengths, CompareLastBlocks, InstallMined, ShareBlock,
              PostSemaphores
<1>5. ASSUME NEW m \in Node, Stop(m) \/ AskBalance(m) \/ DecayQuality(m) \/ PeerMessage(m) \/ MainStep(m)
      PROVE  blockchain' = blockchain
  BY <1>5 DEF Stop, AskBalance, DecayQuality, PeerMessage, ConnectReceived,
              ShareServerReceived, AskBlockchainReceived, MainStep, SendBlockchain, AnswerBalance
<1>6. (\E c \in calls : CallFails(c)) \/ (\E m \in udp : LoseDatagram(m)) => blockchain' = blockchain
  BY DEF CallFails, LoseDatagram
<1> QED BY <1>1, <1>2, <1>3, <1>4, <1>5, <1>6 DEF Next

\* What the steps of main, of a thread, of a handler and of the network leave alone.
LEMMA MainFrame ==
  ASSUME NEW m \in Node,
         Start(m) \/ Stop(m) \/ AskBalance(m) \/ DecayQuality(m) \/ PeerMessage(m) \/ MainStep(m)
  PROVE  UNCHANGED << home, handler >> /\ (Start(m) \/ Stop(m) \/ status' = status)
<1> USE DEF nodeVars, rcfVars, threadVars
<1>1. CASE Start(m) \/ Stop(m) BY <1>1 DEF Start, Stop
<1>2. CASE AskBalance(m) \/ DecayQuality(m) BY <1>2 DEF AskBalance, DecayQuality
<1>3. CASE PeerMessage(m)
  BY <1>3 DEF PeerMessage, ConnectReceived, ShareServerReceived, AskBlockchainReceived
<1>4. CASE MainStep(m) BY <1>4 DEF MainStep, SendBlockchain, AnswerBalance
<1> QED BY <1>1, <1>2, <1>3, <1>4

LEMMA ThreadFrame ==
  ASSUME NEW t \in Tx, ThreadStep(t)
  PROVE  UNCHANGED << home, handler, status >>
<1> USE DEF nodeVars, rcfVars
<1>1. CASE WaitMining(t) \/ WaitBlockchain(t) \/ PostSemaphores(t)
  BY <1>1 DEF WaitMining, WaitBlockchain, PostSemaphores
<1>2. CASE AddTransaction(t) \/ CheckPending(t) \/ MineCopy(t)
  BY <1>2 DEF AddTransaction, CheckPending, MineCopy
<1>3. CASE CheckMined(t) \/ CompareLengths(t) \/ CompareLastBlocks(t)
  BY <1>3 DEF CheckMined, CompareLengths, CompareLastBlocks
<1>4. CASE InstallMined(t) \/ ShareBlock(t)
  BY <1>4 DEF InstallMined, ShareBlock
<1> QED BY <1>1, <1>2, <1>3, <1>4 DEF ThreadStep

LEMMA HandlerFrame ==
  ASSUME NEW m \in Node, HandlerStep(m)
  PROVE  /\ home' = home /\ Up(m)
         /\ BlockInvalid(m) \/ OutOfRange(m) \/ status' = status
         /\ handler' = handler \/ \E l : handler' = [handler EXCEPT ![m] = l]
<1> USE DEF nodeVars, rcfVars, threadVars, Handling, Return
<1>1. CASE ReceiveBlockchain(m) \/ ReceiveBlock(m) BY <1>1 DEF ReceiveBlockchain, ReceiveBlock
<1>2. CASE CheckBlockchain(m) \/ CompareDigest(m) BY <1>2 DEF CheckBlockchain, CompareDigest
<1>3. CASE CompareSize(m) \/ RequeueSize(m) \/ RequeueBlock(m) \/ BlockValid(m)
  BY <1>3 DEF CompareSize, RequeueSize, RequeueBlock, BlockValid
<1>4. CASE AdoptBlockchain(m) \/ InstallBlock(m) \/ BlockInvalid(m) \/ OutOfRange(m)
  BY <1>4 DEF AdoptBlockchain, InstallBlock, BlockInvalid, OutOfRange
<1> QED BY <1>1, <1>2, <1>3, <1>4 DEF HandlerStep

LEMMA NetworkFrame ==
  ASSUME (\E c \in calls : CallFails(c)) \/ (\E m \in udp : LoseDatagram(m)) \/ UNCHANGED vars
  PROVE  UNCHANGED << home, handler >> /\ ((\E c \in calls : CallFails(c)) \/ status' = status)
BY DEF CallFails, LoseDatagram, vars, nodeVars, rcfVars, threadVars

\* Payments go where a participant may send them.
LEMMA HomesStep ==
  ASSUME IInv, FInv, [Next]_vars
  PROVE  \A t \in Tx : home'[t] \in Miners \cup {Nobody}
<1>1. ASSUME NEW n \in Node, NEW t \in Tx, TransactionReceived(n, t)
      PROVE  \A u \in Tx : home'[u] \in Miners \cup {Nobody}
  <2>1. n \in Miners BY <1>1 DEF TransactionReceived, Miners
  <2> QED BY <1>1, <2>1 DEF TransactionReceived, FInv, IInv, TypeOK
<1>2. CASE home' = home BY <1>2 DEF FInv
<1> QED BY <1>1, <1>2, MainFrame, ThreadFrame, HandlerFrame, NetworkFrame DEF Next

\* A node that was not started handles nothing.
LEMMA OffStep ==
  ASSUME IInv, FInv, [Next]_vars, NEW n \in Node, status'[n] = "off"
  PROVE  handler'[n] = "idle"
<1>0. /\ status \in [Node -> {"off", "up", "down"}] /\ DOMAIN handler = Node
      /\ status[n] = "off" => handler[n] = "idle"
  BY DEF IInv, TypeOK, FInv
<1>1. CASE handler' = handler /\ status' = status BY <1>0, <1>1
<1>2. ASSUME NEW m \in Node, Start(m) \/ Stop(m) PROVE handler'[n] = "idle"
  <2>1. status[n] = "off" BY <1>0, <1>2 DEF Start, Stop
  <2> QED BY <1>0, <1>2, <2>1, MainFrame
<1>3. ASSUME NEW c \in calls, CallFails(c) PROVE handler'[n] = "idle"
  <2>1. status[n] = "off" BY <1>0, <1>3 DEF CallFails
  <2> QED BY <1>0, <1>3, <2>1, NetworkFrame
<1>4. ASSUME NEW m \in Node, HandlerStep(m) PROVE handler'[n] = "idle"
  <2>1. status[n] = "off"
    <3>1. CASE BlockInvalid(m) BY <1>0, <3>1 DEF BlockInvalid
    <3>2. CASE OutOfRange(m) BY <1>0, <3>2 DEF OutOfRange
    <3>3. CASE status' = status BY <3>3
    <3> QED BY <1>4, <3>1, <3>2, <3>3, HandlerFrame
  <2>2. m # n BY <1>4, <2>1, HandlerFrame DEF Up
  <2> QED BY <1>0, <1>4, <2>1, <2>2, HandlerFrame
<1>5. ASSUME NEW m \in Node, NEW t \in Tx, TransactionReceived(m, t) PROVE handler'[n] = "idle"
  <2>1. handler' = handler /\ status' = status
    BY <1>5 DEF TransactionReceived, nodeVars, rcfVars
  <2> QED BY <1>1, <2>1
<1> QED BY <1>1, <1>2, <1>3, <1>4, <1>5, MainFrame, ThreadFrame, NetworkFrame DEF Next

LEMMA FStep == IInv /\ FInv /\ [Next]_vars => FInv'
<1> SUFFICES ASSUME IInv, FInv, [Next]_vars PROVE FInv'
  OBVIOUS
<1>1. \A n \in Node : Follows(n) => Scanning(n)'
  <2> TAKE n \in Node
  <2> HAVE Follows(n)
  <2>1. CASE HandlerStep(n) BY <2>1, HandlerScanning DEF FInv
  <2>2. CASE ~HandlerStep(n) BY <2>2, OthersScanning
  <2> QED BY <2>1, <2>2
<1> QED BY <1>1, HomesStep, OffStep DEF FInv, Follows

LEMMA AlwaysScanning == Safety => [](IInv /\ FInv)
<1>1. Init => FInv BY InitScanning
<1> QED BY <1>1, FStep, Invariance, PTL DEF Safety

-----------------------------------------------------------------------------
(* What a step does to the chain.                                          *)

\* The chain of a running node that takes no payments never gets shorter, through the
\* steps of sendBlock and sendBlockchain, for any number of miners (FollowersGrow).
THEOREM FollowersAlwaysGrow == Safety => FollowersGrow
<1> USE DEF chainVars
<1>1. ASSUME IInv, FInv, Next, NEW n \in Node, Follows(n), Up(n)
      PROVE  Len(blockchain[n].chain) <= Len(blockchain'[n].chain)
  <2>0. Scanning(n) /\ Len(blockchain[n].chain) \in Nat BY <1>1, NodeTypes DEF FInv
  <2>1. CASE AdoptBlockchain(n)
    <3>1. blockchain'[n] = newChain[n] BY <1>1, <2>1 DEF AdoptBlockchain, IInv, TypeOK
    <3>2. handler[n] = "adopt" BY <2>1 DEF AdoptBlockchain, Handling
    <3> QED BY <2>0, <3>1, <3>2 DEF Scanning
  <2>2. CASE InstallBlock(n)
    <3>1. blockchain'[n] = newChain[n] BY <1>1, <2>2 DEF InstallBlock, IInv, TypeOK
    <3>2. handler[n] = "extend" BY <2>2 DEF InstallBlock, Handling
    <3> QED BY <2>0, <3>1, <3>2 DEF Scanning
  <2>3. CASE ~AdoptBlockchain(n) /\ ~InstallBlock(n)
    <3>1. blockchain'[n] = blockchain[n] BY <1>1, <2>3, ChainKept
    <3> QED BY <2>0, <3>1
  <2> QED BY <2>1, <2>2, <2>3
<1>2. IInv /\ FInv /\ [Next]_vars
        => [\A n \in Node : Follows(n) /\ Up(n) =>
              Len(blockchain[n].chain) <= Len(blockchain'[n].chain)]_vars
  BY <1>1
<1> QED BY <1>2, AlwaysScanning, PTL DEF Safety, FollowersGrow

\* Adopting a chain queues what was in the blocks it lacks, and nothing else
\* (FollowersRequeue).
THEOREM FollowersAlwaysRequeue == Safety => FollowersRequeue
<1>1. ASSUME IInv, FInv, NEW n \in Node, Follows(n), AdoptBlockchain(n)
      PROVE  ToSet(blockchain'[n].pending) =
               UNION {ToSet(blockchain[n].chain[i].transactions) :
                        i \in Missing(blockchain[n].chain, blockchain'[n].chain)}
  <2> DEFINE mine == blockchain[n].chain
             theirs == newChain[n].chain
  <2>1. blockchain'[n] = newChain[n] BY <1>1 DEF AdoptBlockchain, IInv, TypeOK
  <2>2. handler[n] = "adopt" BY <1>1 DEF AdoptBlockchain, Handling
  <2>3. ToSet(newChain[n].pending) = TxsAt(mine, Missing(mine, theirs))
    BY <1>1, <2>2 DEF FInv, Scanning
  <2> QED BY <2>1, <2>3 DEF TxsAt
<1>2. IInv /\ FInv /\ [Next]_vars
        => [\A n \in Node : Follows(n) /\ AdoptBlockchain(n) =>
              LET mine == blockchain[n].chain IN
              ToSet(blockchain'[n].pending) =
                UNION {ToSet(mine[i].transactions) : i \in Missing(mine, blockchain'[n].chain)}]_vars
  BY <1>1
<1> QED BY <1>2, AlwaysScanning, PTL DEF Safety, FollowersRequeue

\* What the search for the fork and the walk look at is there, at every such node and for
\* any number of miners: vector::at does not throw at those who call it (FollowersServe).
THEOREM FollowersAlwaysServe == Safety => []FollowersServe
<1>1. ASSUME IInv, FInv, NEW n \in Node, Follows(n) PROVE ~Beyond(n)
  <2>1. /\ Scanning(n) /\ index[n] \in Nat
        /\ Len(blockchain[n].chain) \in Nat /\ Len(newChain[n].chain) \in Nat
    BY <1>1, NodeTypes DEF FInv
  <2> QED BY <2>1 DEF Scanning, Beyond
<1>2. IInv /\ FInv => FollowersServe BY <1>1 DEF FollowersServe
<1> QED BY <1>2, AlwaysScanning, PTL
=============================================================================
