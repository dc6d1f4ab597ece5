----------------------------- MODULE Blockchain -----------------------------
(***************************************************************************)
(* The data of the program: Transaction, Block and Blockchain              *)
(* (src/src/transaction.cpp, block.cpp, blockchain.cpp) as values, and the *)
(* methods that build, extend and validate a chain as operators.           *)
(*                                                                         *)
(* SHA-256 is taken to be collision free: a block's digest is modelled by  *)
(* everything it commits to.  A digest covers the previous digest, the     *)
(* timestamp and the transactions, hence (through the previous digest) the *)
(* whole history: it is the sequence of the contents from the genesis on.  *)
(* The genesis' previous hash, the string "0", is the empty history.       *)
(*                                                                         *)
(* The nonce is not kept: mineBlock starts it at 0 and stops at the first  *)
(* one whose digest has enough leading zeros, so it is a function of the   *)
(* other fields, and no receiver ever checks the zeros.                    *)
(***************************************************************************)
EXTENDS Naturals, Sequences, FiniteSets, SequencesExt

CONSTANTS
  Transaction,  \* what a block carries: (fromAddress, toAddress, amount)
  Time          \* the values time(nullptr) takes, in seconds

Content == [timestamp : Time, transactions : Seq(Transaction)]

Hash == Seq(Content)

Block == [previousHash : Hash,
          timestamp    : Time,
          transactions : Seq(Transaction),
          hash         : Hash]

\* A Blockchain object; difficulty and miningReward are the same everywhere.
Ledger == [chain : Seq(Block), pending : Seq(Transaction)]

-----------------------------------------------------------------------------

ContentOf(b) == [timestamp |-> b.timestamp, transactions |-> b.transactions]

CalculateHash(b) == Append(b.previousHash, ContentOf(b))

NewBlock(timestamp, transactions, previousHash) ==
  [previousHash |-> previousHash,
   timestamp    |-> timestamp,
   transactions |-> transactions,
   hash         |-> Append(previousHash,
                           [timestamp |-> timestamp, transactions |-> transactions])]

CreateGenesisBlock(timestamp) == NewBlock(timestamp, << >>, << >>)

\* What a constructor followed by no pending transaction gives.
NewLedger(timestamp) ==
  [chain |-> << CreateGenesisBlock(timestamp) >>, pending |-> << >>]

GetLatestBlock(chain) == chain[Len(chain)]

\* Every block but the first has the digest of its own fields, and names the
\* digest of the block before it.  The first block is never looked at.
IsChainValid(chain) ==
  \A i \in 2..Len(chain) :
    /\ chain[i].hash = CalculateHash(chain[i])
    /\ chain[i].previousHash = chain[i - 1].hash

CreateTransaction(ledger, tx) == [ledger EXCEPT !.pending = Append(@, tx)]

\* mutant of MinePendingTransactions: what was mined stays pending.
MineAndKeepPending(ledger, timestamp, reward) ==
  [chain   |-> Append(ledger.chain,
                      NewBlock(timestamp, ledger.pending,
                               GetLatestBlock(ledger.chain).hash)),
   pending |-> Append(ledger.pending, reward)]

\* All that is pending goes into one block on top of the chain; the miner's
\* reward is the first transaction pending for the next one.
MinePendingTransactions(ledger, timestamp, reward) ==
  [chain   |-> Append(ledger.chain,
                      NewBlock(timestamp, ledger.pending,
                               GetLatestBlock(ledger.chain).hash)),
   pending |-> << reward >>]

\* serialize sends the chain and leaves the pending transactions behind.
Received(chain) == [chain |-> chain, pending |-> << >>]
=============================================================================
