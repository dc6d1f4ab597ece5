------------------------------ MODULE Accounts ------------------------------
(***************************************************************************)
(* The amounts on a chain, and the balance that is computed from them      *)
(* (Blockchain::getBalanceOfAddress).  Amounts are doubles, given here in  *)
(* hundredths of a point.  The balance is accumulated in an int.           *)
(***************************************************************************)
EXTENDS NoeudBloc

CONSTANTS
  Account,        \* participants, and the accounts nodes mine for
  NoAccount,      \* the sender of what the network pays, ""
  PayeeOf,        \* PayeeOf[t]: the account payment t goes to
  MinerAccount,   \* MinerAccount[n]: the account on n's command line
  AmountOf        \* AmountOf[t]: in hundredths, a tenth of which is whole

ASSUME AccountsAndAmounts ==
  /\ Client \subseteq Account /\ NoAccount \notin Account
  /\ PayeeOf \in [Tx -> Account]
  /\ MinerAccount \in [Node -> Account]
  /\ AmountOf \in [Tx -> Nat] /\ \A t \in Tx : AmountOf[t] % 10 = 0

MiningReward == 5000

FromAddress(tx) == IF tx.kind = "payment" THEN ClientOf[tx.of] ELSE NoAccount

ToAddress(tx) ==
  CASE tx.kind = "payment" -> PayeeOf[tx.of]
    [] tx.kind = "bonus"   -> ClientOf[tx.of]
    [] tx.kind = "reward"  -> MinerAccount[tx.of]

Amount(tx) ==
  CASE tx.kind = "payment" -> AmountOf[tx.of]
    [] tx.kind = "bonus"   -> AmountOf[tx.of] \div 10
    [] tx.kind = "reward"  -> MiningReward

\* The transactions of a chain, in order.
Mined(chain) == FlattenSeq([i \in 1..Len(chain) |-> chain[i].transactions])

\* Hundredths to an int: towards zero.
Truncated(hundredths) ==
  IF hundredths >= 0 THEN hundredths \div 100 ELSE -((-hundredths) \div 100)

\* An int, plus a double, kept in the int.
Plus(balance, hundredths) == Truncated(100 * balance + hundredths)

\* mutant of Counted: the sender is not looked at.
CountedAlways(balance, tx, address) ==
  LET credited == Plus(balance, Amount(tx))
  IN IF ToAddress(tx) # address THEN Plus(credited, -Amount(tx)) ELSE credited

\* compare is 0 for equal strings: what `address' did not send is added, and what
\* it did not receive is taken off.
Counted(balance, tx, address) ==
  LET credited == IF FromAddress(tx) # address THEN Plus(balance, Amount(tx)) ELSE balance
  IN IF ToAddress(tx) # address THEN Plus(credited, -Amount(tx)) ELSE credited

\* The loops: after each transaction, what was counted so far.
GetBalanceOfAddress(chain, address) ==
  LET mined == Mined(chain)
      balance[i \in 0..Len(mined)] ==
        IF i = 0 THEN 0 ELSE Counted(balance[i - 1], mined[i], address)
  IN balance[Len(mined)]

-----------------------------------------------------------------------------

\* What those of some transactions that are in a set amount to.
Total(transactions, Some) ==
  LET sum[i \in 0..Len(transactions)] ==
        IF i = 0 THEN 0
        ELSE IF transactions[i] \in Some THEN sum[i - 1] + Amount(transactions[i])
        ELSE sum[i - 1]
  IN sum[Len(transactions)]

PaidTo(a) == {tx \in Transaction : ToAddress(tx) = a}
PaidBy(a) == {tx \in Transaction : FromAddress(tx) = a}

\* The balance a node answers with is what the account received less what it spent
\* on the chain of that node, although it is found by adding and taking off the
\* amounts of everybody else's transactions, in an int.
BalanceRight ==
  \A n \in Node, a \in Account :
    LET chain == blockchain[n].chain
    IN 100 * GetBalanceOfAddress(chain, a)
         = Total(Mined(chain), PaidTo(a)) - Total(Mined(chain), PaidBy(a))
=============================================================================
