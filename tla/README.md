# A TLA+ model of the distributed blockchain

The program (`src/src`, `src/include`) is a small distributed blockchain: *bloc*
nodes (`server.cpp`) hold a chain, queue the payments that *participants*
(`client.cpp`) send them, mine a block when five are pending and send it to
every node they know.  This directory holds TLA+ modules for the parts of it
where things can go wrong in an order nobody tried: the threads of a node and
the pointer they share, the calls and datagrams between nodes, the seconds after
which a silent node is dropped, and the loops whose boundaries are easy to miss.

| file | what it is |
|---|---|
| `Blockchain.tla` | transactions, blocks and chains as values; the methods of `Block` and `Blockchain` as operators |
| `NoeudBloc.tla` | a network of nodes: one action per step of `main`, of `threadMine` and of the RCF handlers |
| `ReplicatedLog.tla`, `Replication.tla` | what a network with one miner promises, and the mapping by which `NoeudBloc` implements it |
| `Accounts.tla` | the amounts on a chain, and `getBalanceOfAddress` |
| `Seconds.tla` | ticks, whole seconds and the limit of two |
| `Membership.tla` | KEEP, CONNECT, SHARE_SERVER, removal of the dead, and a participant's question, in real time |
| `ServerTable.tla`, `PeerMap.tla` | the linked list of connected servers, and the map it implements |
| `Sha256.tla` | the buffering and padding of `SHA256` |
| `MCNoeudBloc.tla`, `MCMesh.tla`, `MCMembership.tla`, `MCServerTable.tla`, `MCSha256.tla`, `*.cfg` | small instances for TLC |
| `NoeudBlocProofs.tla` | proofs for any network: types, valid chains, mutual exclusion, tables without duplicates |
| `FollowerProofs.tla` | proofs for any network, about the nodes that take no payments: their chains never get shorter, nothing mined is lost on adopting one, and their handlers do not throw |
| `ReplicationProofs.tla` | proofs for any network with one miner: it is a replicated log, and payments are kept once |
| `MembershipProofs.tla` | proofs for any number of nodes and participants and any delays within stated bounds |
| `ServerTableProofs.tla` | proofs for any nodes and any length of the list: it is a map |
| `AccountsProofs.tla` | proofs for any network: balances of whole amounts are right |
| `Recursion.tla` | what the last two and `FollowerProofs` rest on: induction and loops, in terms of sets |
| `Sha256Proofs.tla` | proofs for any size of a block and any pieces of a message |
| `PROJECT.json` | components, runs, source map, hazards, findings |

How the modules are composed (indented: uses the one above it):

    Blockchain
      NoeudBloc                    INSTANCE Blockchain
        Accounts                   MCMesh, AccountsProofs
        Replication                implements ReplicatedLog; MCMesh, ReplicationProofs
        NoeudBlocProofs            FollowerProofs, ReplicationProofs, AccountsProofs
        MCNoeudBloc
    Seconds
      PeerMap
      ServerTable                  implements PeerMap; MCServerTable, ServerTableProofs
      Membership                   MCMembership, MembershipProofs
    Sha256                         MCSha256, Sha256Proofs
    Recursion                      FollowerProofs, ServerTableProofs, AccountsProofs

`NoeudBloc` and `Membership` model the same processes: the first with their
chains, at the grain of single accesses, and no clock; the second with a clock,
their tables and datagrams, and no chains.  `ServerTable` is what lets
`Membership` use a map for a table.

## 1. The system

### Components

| component | source | state | operations | who it talks to | what makes it correct |
|---|---|---|---|---|---|
| Blockchain data | `blockchain.cpp`, `block.cpp`, `transaction.cpp` | `chain`, `pendingTransactions` | construct, queue, mine, copy, serialise, validate, balance, print | used by every thread of a node | each block names the digest before it; mining empties what it mines |
| Main loop | `server.cpp` 613-980 | `server_table`, `arg_mine`, `nb_thread`, `client_noeud` | one branch per datagram header | participants and nodes by UDP; calls `sendBlockchain` by RCF; creates mining threads | every payment is queued; every question is answered |
| Mining threads | `threadMine`, 485-539 | `sem_mining`, `sem_blockchain`, the shared pointer | queue, count, copy, mine, check, install, share | calls `sendBlock` of every peer, holding both semaphores | mutual exclusion; full blocks; a valid, growing chain; no deadlock |
| RCF servant | class `NoeudBloc`, 62-133 | the shared pointer, `pas_valide` | `sendBlock`, `sendBlockchain` | called by peers; takes no semaphore; may send `ASK_BLOCKCHAIN` | only valid chains are adopted, none that is shorter; nothing queued is lost; a caller gets an answer |
| Membership | `server.cpp` 817-934, `fthread` 546-605 | `server_table`, `last_keep_alive` | CONNECT, SHARE_SERVER, KEEP, removal after 2 s | UDP between nodes | a full mesh without duplicates; the dead are removed, the living are not |
| Server table | `distributed_server.cpp` | a linked list | insert, look up, touch, remove, free | main, fthread; read by mining threads and the servant without `sem_server` | a set of peers |
| Loyalty | `server.cpp` 764-794, 593-597 | `client_noeud` | count, decay, bonus | main and fthread, no lock | a bonus earned is a bonus paid |
| Shutdown | 161-201, 953-979 | `end_signal` | SIGINT, SIGUSR1 | all threads | a node that leaves does not take others with it |
| Participant | `client.cpp` | none | send a payment, ask a balance and wait 1 s | one node, by UDP | it sees the answer |
| SHA-256, conversions, display | `sha256.cpp`, `addr_and_hash.cpp`, `affichage.cpp` | buffers | pure | | they compute what they should |

RCF and Boost are vendored; `src/src/test.cpp` is a demonstration of RCF;
`src/test.sh` starts a scenario.

### What is hard

* **One pointer, three writers.**  `threadMine`, `sendBlock` and
  `sendBlockchain` all validate a new ledger and then replace `blockchain`.
  `threadMine` holds two semaphores for that; the handlers hold none.
* **Calls while holding semaphores.**  A miner calls every peer before it gives
  its semaphores back, and so does the peer it calls.
* **Two channels.**  Datagrams introduce nodes to each other, calls carry blocks
  and chains; main and the mining threads call independently, so that what was
  sent first may be served last.
* **Losses and stops.**  A datagram is sent once.  A call to a node that is gone
  throws, and so does one whose handler throws; nothing catches it.
* **Time.**  A silent node is dropped after two seconds, counted in whole seconds
  of the receiver's clock; main, which has to read the KEEPs, may be held up for
  as long as a block is mined and sent.
* **Boundaries.**  A list cut while it is walked; an int that accumulates
  doubles; a buffer that a piece of a message fills exactly.

`PROJECT.json` lists these as hazards, each at its line, with the properties
that watch it.

## 2. What is modelled

### `Blockchain`

SHA-256 is taken to be collision free: a digest is everything it commits to.  As
a block's digest covers the previous digest, that is the sequence of the
contents (timestamp and transactions) from the genesis on.  The nonce is a
function of the rest and is dropped, and so is the leading-zeros test, which no
receiver makes.  Two blocks with the same second and the same transactions on
the same parent have the same digest here as in the program.

### `NoeudBloc`

Every variable is a function from nodes (or payments, for what a thread keeps)
and bears the name it has in the source: `blockchain`, `server_table`,
`sem_mining`, `sem_blockchain`, `nb_thread`, `arg_mine`, `client_noeud`,
`pas_valide`, `newChain`, `newBlockchain`, `server`.  `main`, `handler` and `pc`
are program counters; `calls` are the RCF requests not yet answered, `udp` the
datagrams not yet received.

| program | actions |
|---|---|
| start-up, stop | `Start`, `Stop` |
| main: TRANSACTION, ASK_BALANCE | `TransactionReceived`, `AskBalance`, `AnswerBalance` |
| main: CONNECT, SHARE_SERVER, ASK_BLOCKCHAIN | `ConnectReceived`, `ShareServerReceived`, `AskBlockchainReceived`, then `SendBlockchain` |
| `fthread`, once a second | `DecayQuality` |
| `threadMine` | `WaitMining`, `WaitBlockchain`, `AddTransaction`, `CheckPending`, `MineCopy`, `CheckMined`, `CompareLengths`, `CompareLastBlocks`, `InstallMined`, `ShareBlock`, `PostSemaphores` |
| `sendBlockchain` | `ReceiveBlockchain`, `CheckBlockchain`, then for the fork `CompareSize` and `CompareDigest`, for what is queued again `RequeueSize` and `RequeueBlock`, or `OutOfRange`, and `AdoptBlockchain` |
| `sendBlock` | `ReceiveBlock`, `BlockValid`, `InstallBlock`, `BlockInvalid` |
| the network | `CallFails`, `LoseDatagram` |

Grain.  A new action begins wherever another thread of the node, or another
node, can come between two accesses to shared state, and so each time the
pointer `blockchain` is read anew: the size at 499 and the copy at 503 are two
actions, each of the three comparisons of 508-511 is one, and the swap at 514
another; in `sendBlockchain` the length at 74, then for every turn the length and
the digest at 76-77, then the length (82, 84) and the block (86) are actions of
their own.  Two things are one action: an expression or a loop that reads one
object no other thread writes (a validity check, a copy), and lines 82 and 84,
which make the same comparison and do nothing when it fails.

A call is a record in `calls`: its caller makes no step (`Waiting`) until the
handler's `Return` removes it.  A call ends its caller's process in two cases, as
RCF throws at the caller and nothing there catches it: the callee is gone
(`CallFails`), or its handler has thrown.  A handler throws when it reads a block
that is not there (`OutOfRange`), which happens when the pointer was replaced
since it read the length (`Beyond`).

What is assumed of who starts the processes, and not checked by `main`: a command
line names another node than the one it starts (`Deployment`), and one that runs
(the second conjunct of `Start`, in `NoeudBloc` where datagrams are reliable, and
in `Membership`).

A `bloc -d` node, which prints a chain and exits, is a node that stops soon
after it connected (`Stop`).

### `Replication` and `ReplicatedLog`

When all payments go to one node, the network ought to be a replicated log.
`ReplicatedLog` says so in two actions: `Grow`, which needs every copy to be up to
date, and `Deliver`, which is weakly fair.  `Replication` maps the miner's chain
to the log and the other chains to the copies.  Nothing else of `NoeudBloc` is
visible through the mapping: all the steps of threads, handlers and main are
stutters but the swap in `threadMine` (`Grow`) and the swap in `sendBlock`
(`Deliver`).

### `Accounts`

Gives every transaction of `NoeudBloc` a sender, a receiver and an amount, and
`getBalanceOfAddress` as the loop it is, with the truncation of each `+=` into
the `int`.  Amounts are doubles in the program and hundredths here.  The code
adds what the account did *not* send and takes off what it did *not* receive, so
that a foreign transaction adds and takes off the same amount.  `BalanceRight`
compares with received less spent, on every chain a node reaches.

### `Membership` and `Seconds`

One action per branch of main and per critical section of `fthread`: `SendKeeps`
and `RemoveDead` make a round, `KeepReceived`, `ConnectReceived`,
`ShareServerReceived`, `AskBalanceReceived` and `AnswerBalance` are main's,
`Mine` is a mining thread that takes `sem_blockchain`, `GetBalance`,
`AnswerReceived` and `GiveUp` are `get_balance` of the client.

Real time is discrete: `Tick` advances everything by one tick, and does not happen
while something is overdue.  Three constants say what is overdue: a round that
began `MaxPeriod` ticks after the last one ended, a datagram that has waited
`MaxDelay` ticks at a main that receives, an answer when the semaphore is free;
`MaxHold` bounds how long mining threads keep the semaphore.  The program has no
such bounds: they are the assumptions under which its time-outs make sense, and
the properties are checked at the edge of them (section 3).

The program subtracts seconds of `time(NULL)`, so the age of a KEEP depends on
where in a second it came.  `Seconds!Elapsed` computes that difference from the
age in ticks and the place of the present tick in its second; with one tick to a
second it is the age.

### `ServerTable` and `PeerMap`

The list is a sequence with the head first, its functions operators of the same
names.  `suppression_dead_server` walks over the entries there were and
removes, for each dead one, the first entry of that address from what is left:
the pointer to the next entry is taken before the removal, so the walk goes on
through the old list.  `PeerMap` is a map from nodes to ages; `AgeOf` maps the
list to it.

### `Sha256`

`Init`, `Update` and `Final` with `m_block`, `m_len` and `m_tot_len`.  The bytes
given to `transform`, one after the other, stand for what it computes of them, in
`m_h`; a byte of the message is known by its place.

### Mutants

Operators whose comment begins with *mutant of* are wrong versions of the
definition they name (a dropped guard, an off-by-one, a forgotten reset), of the
kind a change to the code could introduce.  No specification uses them: put in the place of the
definition, each makes a property fail, which shows that the property depends on
that line of the program.  `PROJECT.json` says which.

### Not modelled

* the lifetime of the objects behind the pointer and of list entries read
  without `sem_server`: a reader keeps the value it started from, where the
  program may read freed memory;
* data races inside one access (the three fields of an `arg_mine` slot, the
  vector `client_noeud`);
* KEEPs lost between running nodes.  One loss makes a pause of two periods,
  beyond the limit as soon as a period exceeds a second;
* how far the sizes and counts of an `int` can go: the balance would overflow
  at 2^31 points, a message of SHA-256 at 2^29 bytes (`Sizes` excludes it);
* `transform`, the compression of SHA-256: its 32-bit words are beyond the
  integers of TLC;
* the conversions of addresses, the display, the command lines;
* the grain of shutdown: the signals, `pthread_kill` and the joins are followed
  by `exit` whatever happens;
* RCF, Boost and uuid, vendored, but for what a call does to its caller;
  `test.cpp`, a demonstration of RCF.

## 3. What is checked

### Runs that pass

| run | instance | question |
|---|---|---|
| `mesh` | 3 connected nodes, 3 payments of ten points to the first, of one client that earns a bonus; threshold 2 | is a network with one miner a replicated log whose every block is delivered (`ImplementsLog`, `FollowersTrail`, `Agreement`, `SharesOwnBlock`)?  are payments kept once (`PaymentsOnce`), blocks full (`BlocksFull`), and none left unmined (`PendingMined`)?  are the balances right (`BalanceRight`)? |
| `two_miners` | a node joins another; 2 payments, the first to either, the second to the one that joins; threshold 1 | through forks, rejections and crossing chains: `MutualExclusion`, `ChainsValid`; do threads end (`ThreadsEnd`), calls return (`CallsReturn`), questions get answered (`BalanceAnswered`), unless the process ends of a call whose handler throws? |
| `crash` | 3 nodes, lossy datagrams, 2 payments, threshold 1; two nodes mine, one of which never heard of the other; the third joins and only follows; the second may stop at any time | do `TypeOK`, `ChainsValid` and `PeersDistinct` survive?  does the third never throw at a caller (`FollowersServe`), does its chain never get shorter (`FollowersGrow`), and does it queue, when it adopts a chain, what that lacks of its own and no more (`FollowersRequeue`)? |
| `table` | a list over 3 nodes, the owner among them; 2 ticks to a second | does the list do what a map would (`ImplementsMap`), with one entry for a node (`TypeOK`)? |
| `keep_alive` | 2 nodes, one of which may stop, and a participant; 4 ticks to a second | do the living stay (`LivingStay`), are the dead forgotten in time (`DeadForgotten`), and questions answered within the second (`QuestionsAnswered`)? |
| `join` | 3 nodes, each started with the one before it as peer; the last stops and starts again when it is forgotten | do all get to know each other in the end (`FullMesh`), do the living stay (`LivingStay`) and the dead leave (`DeadLeave`)? |
| `sha256` | messages up to 260 bytes, whole or in pieces of any length | is the message handed over once and in order (`NothingLost`), with the padding of FIPS 180-4 (`HashesPadded`)? |

`crash` and `keep_alive` are safety only (`Safety`); `mesh`, `two_miners` and
`join` use `Spec`.  `crash`, `two_miners` and `sha256` do not look for deadlocks:
all processes may end, and a message is final once.

`two_miners` reaches what a handler does when its own node mines: the second node
joins, is sent the first one's chain, and installs a block while it compares that
chain with its own, so that the read at 77 is past the end (`OutOfRange`) and the
first node ends.  The second then calls it and ends too.  Threads of a process that ended
are cut short, and the liveness properties say "or the process ends".  The two nodes
have one genesis, as nodes started in the same second have; with another genesis the
comparison ends at the first block, and the chains have to meet once before they
can come to this.

The bounds of `keep_alive` are the last ones that hold.  Let `HeldUp` be the time
for which main may be held up in all: `MaxHold` for each participant, as each
asks once.  With `MaxPeriod + MaxDelay + HeldUp = Limit * Ticks + 1`, `LivingStay`
fails: one more tick and two living nodes may part.  With
`2 * MaxDelay + HeldUp = Ticks` a participant may give up.  With one tick less
than `Detection`, `DeadForgotten` fails.  In the units of the program: as
fthread's period is a second or a little more, all other delays together have
less than a second.  Section 4 proves that below these bounds the properties hold
for any number of nodes and participants.

The properties of `mesh` are those of a network with a single writer.  `Agreement`
speaks of a network at rest (`Quiet`): a thread cut short in a process that ended is
never done, so that nothing is said of a miner that ended while it was sharing.  With two
writers `BlocksFull` and `PendingMined` fail, and so do others below.

### Runs that find a disagreement

Each checks one property that a sentence of the report
(`src/rapport/rapport.tex`) states, and TLC finds a behaviour of the code against
it.  `PROJECT.json` quotes the sentence.

| run | property | what happens |
|---|---|---|
| `shrinks` | `NeverShrinks` | a thread checks its chain, a block arrives and is installed, the thread (or the handler) then installs a shorter one |
| `pending_dropped` | `PaymentsKept` | a chain is adopted over pending payments |
| `twice` | `CountedOnce` | three nodes: a block replaces a miner's own after a third node has that; the payment is mined again, and the third node, adopting that chain, queues it once more.  With four payments two nodes are enough, when the first has sent its chain in answer to a CONNECT and then replaces it |
| `survives` | `NetworkSurvives` | a node joins another that started in the same second, and takes a payment; it installs the block it mined while its handler compares the chain of the other with its own, reads a block that chain does not have, and throws; the other ends of the exception, and then the first, which calls it |
| `isolated` | `FullMesh` | main waits for a mining thread, reads no KEEP for longer than the limit, and the two nodes drop each other; nothing makes them connect again |

Other disagreements, seen by varying these instances, for which no run is kept:

* with two connected miners, threshold 2 and four payments, a block may have fewer
  than two transactions, because they are replaced between the count at 499 and the
  copy at 503; and a mined block that fails the check at 507 leaves enough
  pending for a block, and nobody to mine it (`BlocksFull`, `PendingMined`);
* a bonus queued by main while a thread mines on a copy is lost at the swap (515);
* the block to share is read again at each call (531): it may be the one the
  receiver has just sent;
* a call to a node that stopped throws, and the caller ends too (531, 875);
* the bonus on five points is half a point, which the `int` of
  `getBalanceOfAddress` (blockchain.cpp:48) cuts off at each addition and
  subtraction, and so takes from accounts it has nothing to do with: `BalanceRight`
  fails in `mesh` with an amount of five points;
* a node given itself as peer on the command line enters its own table
  (722-728), until fthread removes it;
* comments of the program speak of other times than the code has:
  KEEPs every 10 seconds and a check every 20 (server.cpp:542-545), a limit of 30
  (server.cpp:586, distributed_server.cpp:138).  The code makes a round a
  second and its limit is 2 seconds, as the report says;
* a block mined while a node joins may reach it before the chain does, and is
  then missing there;
* of two nodes that connect only the one that was connected to sends its chain;
* `sendBlockchain` adopts a chain of equal length (`<=`, line 74), where the
  report asks for a longer one;
* a chain is asked for at the second rejected block (line 120), where the
  report says the third;
* a slot of `arg_mine` reused before its thread ran replaces one payment by
  another;
* a node whose peer's CONNECT was lost has an empty table, and its process ends
  at the second rejected block;
* a node started again at once is still known to its peers, which ignore its
  CONNECT: `join` with `Downtime` 0 ends with nodes that do not know each other;
* of two nodes that start again, each no sooner than `Detection` ticks after it
  stopped, one may be told by a SHARE_SERVER of the other while that is down; it keeps
  the entry while the other comes back and connects to it, and then removes it
  for its age, although it runs (`LivingStay`, with `MayRestart = {n2, n3}`);
* an answer that comes after the participant's second is lost, and with `-v` the
  client says there is no data for the address (client.cpp:141).

### Bounds

| constant | code | runs | why it is enough |
|---|---|---|---|
| `Node` | any | 1 to 3 | two for a race between a local and a remote writer, three for introductions and blocks that come by a third node |
| `Tx` | any | 1 to 3 | each is one thread; two threads of a node already compete, three fill a block, leave a rest and queue a bonus; one that mines while a chain is received makes the handler throw |
| `Asked` | any node | all; the first in `crash`; none where a violation is looked for | a question only takes `sem_blockchain` for a moment |
| `Slots` | 100 | as many as payments | no slot is reused; section 3 says what reuse does |
| `Threshold` | 5 | 1 or 2 | 1 makes every payment a block, so that forks come early; 2 keeps the count apart from the payment |
| `LoyalAt` | 5 | 0, 1, or 5 where no bonus is wanted | only comes before, or after, a bonus |
| `InvalidLimit` | 2 | 2; 1 in `crash` | the code's; 1 makes one rejected block enough to ask, or to meet an empty table |
| `Time` | seconds | one value | nodes of one mesh have one genesis, as the joins leave it; a node that joins in the run was started in the same second |
| `Mesh` | | all, or the first one or two nodes | all: a network already formed; otherwise the rest start during the run |
| `Reliable` | | mostly TRUE | FALSE loses datagrams |
| `InitialTable` | | full, or one CONNECT lost (`crash`) | the second is how two nodes come to mine apart |
| `AmountOf` | doubles | ten points | a bonus that is whole |
| `Ticks` | real time | 1, 2 or 4 to a second | 4 leaves room for delays within a second; 1 is enough for the order of events, with three nodes |
| `Limit` | 2 | 2 | the code's |
| `MaxPeriod`, `MaxDelay`, `MaxHold` | none | 5, 1, 1 (`keep_alive`); 2, 0, 0 (`join`); `MaxHold` 3 in `isolated` | the largest that hold, see above; 3 seconds are more than the limit |
| `Downtime` | none | `Detection`, or 0 | as long as it takes to be forgotten by everybody |
| `BLOCK_SIZE` | 64 | 64 | the code's |
| `Pieces`, `Longest` | any; the program hashes each message in one piece | any; 260 | every piece at every place in a block; all lengths to four blocks and a rest |

### Fairness

`NoeudBloc!Spec` adds to `Safety`: weak fairness of what `main` does between two
receives, of each handler step and of each thread step, because threads that can
run are scheduled; and strong fairness of receiving a datagram of a peer, because
the socket is a queue although main may answer other datagrams in between
(`ASK_BALANCE` is always possible in the model, so that weak fairness would let
a CONNECT wait forever, which the queue does not); and, for each caller, weak
fairness of the failure of its calls, because a connection to a process that ended is
refused or reset.  Weak fairness of a
`sem_wait` is enough for a thread in the runs because each payment takes the
semaphores once.  No process has to start, no participant has to send, nothing
has to stop.

`Membership!Spec` needs only that the processes and the clock go on
(`WF_vars(Progress)`): as no tick passes before what is overdue is done, nothing
can be put off for ever.  `Start`, `Stop`, `Mine` and `GetBalance` are not in it.

## 4. What is proved

TLAPS checks the proofs; they hold for every value of the constants that meets
the assumptions named in the modules (disjoint sets, positive limits, an initial
mesh whose tables are without duplicates or self) and, where a theorem has
hypotheses, those.  No theorem needs fairness.

### `NoeudBlocProofs`: any network

For any set of nodes and payments, any command lines that do not name the node
itself, any limits, with losses and stops:

| theorem | states | argument |
|---|---|---|
| `TypeCorrect` | `Safety => []TypeOK` | part of `IInv` |
| `ChainsAlwaysValid` | `Safety => []ChainsValid` | part of `IInv` |
| `Mutex` | `Safety => []MutualExclusion` | inductive with `IInv` |
| `PeersAlwaysDistinct` | `Safety => []PeersDistinct` | inductive as `PeersInv`, with `IInv` |

`IInv == TypeOK /\ Wiring /\ ChainsValid`.  Types alone are not inductive: a
thread indexes by its `home` and its slot, main by its `peer`, so `Wiring` says
that these are set whenever they are used; and mining takes the last block of
the chain, which exists because chains are not empty (`ChainsValid`).
`ChainsValid` speaks of the chains in the hands of threads and handlers as well
as the nodes': a handler installs what it validated an instant before, whatever
the pointer has become, so the copy must be known to be valid on its own.  The
lemmas `MiningGood`, `NewBlockType` and `NewLedgerGood` say what
mining and construction preserve.

`PeersInv` adds to `PeersDistinct` that no SHARE_SERVER names its receiver and
that a node that has not started has an empty table: without the first, a
SHARE_SERVER could put a node into its own table; without the second, a start
could insert the peer of the command line twice.

### `FollowerProofs`: any network, the nodes that take no payments

| theorem | states |
|---|---|
| `FollowersAlwaysGrow` | `Safety => FollowersGrow` |
| `FollowersAlwaysRequeue` | `Safety => FollowersRequeue` |
| `FollowersAlwaysServe` | `Safety => []FollowersServe` |

A node to which no participant sends (`Follows`) runs no mining thread, so its
dispatch thread alone writes the pointer once it has started, with any number
of miners elsewhere, losses and stops.  For it the check and the swap might as well be
one step; `shrinks`, `pending_dropped` and `survives` show that for a miner they may
not.  The invariant `FInv` carries what a handler has found from one step to the next
(`Scanning`): the lengths compared, that `index` has passed only blocks that both
chains have, and that what is queued so far is what stood in the blocks from the fork to
`index`.  With it a handler always finds the block it reads (`FollowersServe`).
`FInv` also needs that a node not started has no handler, or a start could replace a
chain under it.  In two valid chains a common digest means a common past
(`CommonBelow`, by induction from `SameDigest`), so that from the first digest that
differs on, every block is one the other chain has not (`MissingAbove`): the blocks
`sendBlockchain` queues are just those that are `Missing`.

### `ReplicationProofs`: one miner

For a network in which all payments go to one node, the joins are over, and the
miner has heard of everybody (`OneMiner`, `FormedNetwork`), with any number of
followers, any of which may stop:

| theorem | states | hypotheses |
|---|---|---|
| `FollowersAlwaysTrail` | `Safety => []FollowersTrail` | |
| `AlwaysAgree` | `Safety => []Agreement` | |
| `ImplementsLogSafely` | `Safety => Log!Safety`, the refinement without fairness | |
| `BlocksAlwaysFull` | `Safety => []BlocksFull` | |
| `PendingAlwaysMined` | `Safety => []PendingMined` | `Threshold > 1` |
| `PaymentsAlwaysOnce` | `Safety => []PaymentsOnce` | `EnoughSlots` |
| `AlwaysSharesOwnBlock` | `Safety => []SharesOwnBlock` | `EnoughSlots` |

The first three rest on `RInv`, six facts that hold only together.  Nothing is in
`udp` and tables do not change (`Formed`); there is at most one call, and it
carries the miner's last block to a follower that lacks it (`OneCall`); who is
still in the caller's list lacks that block, and who lacks it is in the list, is
being called, or was left out because the miner stopped while it was sharing
(`Sharing`); a handler that runs has the miner's blocks in hand (`Serving`); what
was mined stands on top of the miner's last block, so that the first comparison of
lengths is enough to keep it (`OnTop`); and every follower
has all blocks or all but the last (`Trail`).  Mutual exclusion is needed
throughout: it is why the second thread of the miner does not start a block while
the first still has followers to call.

The others add a layer each.  `FullInv`: a thread past the count has enough
pending until it copies them, because only the holder of the semaphores takes
payments off.  `WillMine`: while enough is pending there is a thread before its
last look at it.  With `Threshold = 1` a block could be made of the miner's own
reward, and `WillMine` fails; the program's threshold is 5.
`SlotsInOrder`: with no more payments than slots (`EnoughSlots`), no slot is
given twice, so that each thread finds its own payment (`SlotKept`).  With fewer
slots `PaymentsOnce` is false.  `PaymentFollowed` and `PaymentsInv` say where a
payment is from then on: pending, then in the block its thread has mined on the
copy, then in the chain, in one place each time.  `PaymentsOnceIfSlotsKept` and
`SharesOwnBlockIfSlotsKept` state these results under `[]SlotKept` alone.

### `MembershipProofs`: any number of nodes, any delays within bounds

| theorem | states | hypotheses |
|---|---|---|
| `TypesRight` | `Safety => []TypeOK` | |
| `QuestionsAlwaysAnswered` | `Safety => []QuestionsAnswered` | `2 * MaxDelay + HeldUp < Ticks` |
| `LivingAlwaysStay` | `Safety => LivingStay` | `MaxPeriod + MaxDelay + HeldUp + Late <= Limit * Ticks`; no restarts |
| `DeadAlwaysForgotten` | `Safety => []DeadForgotten` | a network already formed; no restarts |

`Late` is 0 in a network already formed and `MaxDelay + HeldUp` otherwise.  The
instance `keep_alive` meets all of these hypotheses, with equality in the third.
The invariant has five layers:

1. `MInv`: types; who does not run knows nobody and has no datagrams; a
   participant that waits has one question, under way, in main's hands or
   answered.
2. `SpentInv`: how long main may still be held up.  `Budget` counts `MaxHold` for
   each question not yet read and what is left of the present wait; every tick
   main is held up for takes one off, and no step adds to it.  So `Spent`, the
   difference to `HeldUp`, bounds the time for which a datagram waited only
   because main did not read.
3. `WaitInv`: a participant has waited no longer than its question (`InFlight`),
   the wait of main (`Handled`) and the answer (`Returning`) account for.
4. `HeardInv`: of two running nodes of which one knows the other, either the other
   is about to be introduced, or a KEEP is on its way, or the age in the table is
   that of the last KEEP.  `YoungNotStale` turns an age in ticks into the
   whole seconds of the program: no node younger than `Limit * Ticks` is stale,
   wherever the seconds began.
5. `GoneInv`: a dead node is remembered from its last datagram at the latest, and
   `OldestStale` makes the next round remove it.

A node that joins makes `LivingStay` harder, as it inserts its peer before the
peer knows it (`Introduced`): that is what `Late` pays for.  `DeadForgotten` is
false for a network that grows, as a SHARE_SERVER may name a node that stopped
meanwhile; `DeadLeave` is the property that holds there.

### `ServerTableProofs`: any nodes, any length of list

| theorem | states |
|---|---|
| `OneEntryEach` | `Spec => []TypeOK` |
| `ListIsMap` | `Spec => ImplementsMap` |

The loop of `suppression_dead_server` goes on in the list it cuts, so what it
leaves is a statement about all its turns.  The provers cannot instantiate an
induction theorem that takes a predicate; `Recursion` states induction over the
naturals for a set (`Induction`), from the existence of a least counterexample, and
with it that a loop has a value after every turn (`LoopRuns`) and keeps what each
turn keeps (`LoopKeeps`).  `WalkLeaves` is then an induction over the entries: after
`i` of them, the dead among the first `i` are gone, and nothing else is.  It
needs that no node has two entries, as the removal takes the first it meets.
Three lemmas (`InsertFacts`, `KeepFacts`, `DeadFacts`) say what an operation
does to the set of the entries, and `AgeKnown` that the map a list stands for
depends on nothing else; `MapStep` follows, one step of the list for one of the map.

### `AccountsProofs`: any network, whole amounts

| theorem | states | hypotheses |
|---|---|---|
| `BalanceAlwaysRight` | `Safety => []BalanceRight` | `WholeAmounts` |

`WholeAmounts` says that payments are whole points and their tenths as well: the
tenth of five points makes the balance wrong (section 3).  `WholePlus` is one
truncated addition, `CountedRight` one transaction: what is added because the account
did not send it is taken off again if it did not receive it either.
`BalanceIsTotals` is the induction over the transactions of a chain, for any
chain of blocks; the theorem then needs no more of the network than its types.

### `Sha256Proofs`: any block, any pieces

| theorem | states |
|---|---|
| `BufferRight` | `Spec => []TypeOK` |
| `NothingIsLost` | `Spec => []NothingLost` |
| `AlwaysPadded` | `Spec => []HashesPadded` |

For any size of a block above nine bytes, any set of lengths `update` may be
given, and messages shorter than 2^28 bytes (`Sizes`), whose length in bits has
no overflow.
`SInv` says of each place of `m_h` and of the used part of `m_block` which byte
of the message it holds, and that what was handed over is a number of whole
blocks.  `BlockStep` is the loop over the blocks of a piece; `FinalLength`
shows that the one or two blocks of `final` are the fewest that hold the message,
the bit, the length and the zeros of the standard.

### Only model-checked

* Everything about fairness, which the prover does not handle: `ThreadsEnd`,
  `CallsReturn`, `BalanceAnswered`, `FullMesh`, `DeadLeave`, and that
  `ImplementsLog` delivers every block.
* `LivingStay` where one node starts again (`join`).  Where two do it is false,
  as section 3 says.

## 5. Plan

Built so far: the pointer and its writers (`NoeudBloc`), the replicated log, the
accounts, the membership in time, the server table and SHA-256's padding, with
proofs of most of their safety properties.  What is left, in this order:

1. `Membership`: `LivingStay` in a formed network in which one node starts again
   after the others have forgotten it: `HeardInv` and `GoneInv` in one invariant,
   with no datagram left that tells of the node when it comes back.
2. `NoeudBloc`: what the miners of a network with several keep, beyond valid
   chains: which payments a fork may repeat, and which it may lose.
