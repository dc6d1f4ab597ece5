---------------------------- MODULE AccountsProofs ----------------------------
(***************************************************************************)
(* Proofs about Accounts, for any network, any accounts and any whole      *)
(* amounts: the balance is what was received less what was spent.          *)
(***************************************************************************)
EXTENDS Accounts, NoeudBlocProofs, Recursion

\* Payments are whole points, and so are the tenths a loyal client is given.
WholeAmounts == \A t \in Tx : AmountOf[t] % 1000 = 0

-----------------------------------------------------------------------------
(* One transaction.                                                        *)

\* An amount of whole points loses nothing in the int.
LEMMA WholePlus ==
  ASSUME NEW balance \in Int, NEW amount \in Int, amount % 100 = 0
  PROVE  /\ Plus(balance, amount) \in Int
         /\ 100 * Plus(balance, amount) = 100 * balance + amount
<1> DEFINE points == amount \div 100
<1>1. points \in Int /\ amount = 100 * points OBVIOUS
<1> HIDE DEF points
<1>2. 100 * balance + amount = 100 * (balance + points) BY <1>1
<1>3. Plus(balance, amount) = balance + points
  <2>1. CASE balance + points >= 0 BY <1>1, <1>2, <2>1 DEF Plus, Truncated
  <2>2. CASE balance + points < 0 BY <1>1, <1>2, <2>2 DEF Plus, Truncated
  <2> QED BY <1>1, <2>1, <2>2
<1> QED BY <1>1, <1>3

LEMMA AmountWhole ==
  ASSUME WholeAmounts, NEW tx \in Transaction
  PROVE  Amount(tx) \in Nat /\ Amount(tx) % 100 = 0 /\ (-Amount(tx)) % 100 = 0
<1>1. \A t \in Tx : AmountOf[t] \in Nat /\ AmountOf[t] % 1000 = 0
  BY AccountsAndAmounts DEF WholeAmounts
<1>2. CASE tx \in [kind : {"payment"}, of : Tx]
  <2>1. tx.of \in Tx /\ Amount(tx) = AmountOf[tx.of] BY <1>2 DEF Amount
  <2> QED BY <1>1, <2>1
<1>3. CASE tx \in [kind : {"bonus"}, of : Tx]
  <2>1. tx.of \in Tx /\ Amount(tx) = AmountOf[tx.of] \div 10 BY <1>3 DEF Amount
  <2> QED BY <1>1, <2>1
<1>4. CASE tx \in [kind : {"reward"}, of : Node]
  <2>1. Amount(tx) = 5000 BY <1>4 DEF Amount, MiningReward
  <2> QED BY <2>1
<1> QED BY <1>2, <1>3, <1>4 DEF Transaction

\* What is added of a transaction the account did not send, and taken off again of
\* one it did not receive, is nothing for the transactions of others.
LEMMA CountedRight ==
  ASSUME WholeAmounts, NEW balance \in Int, NEW tx \in Transaction, NEW a
  PROVE  LET amount == Amount(tx) IN
         /\ Counted(balance, tx, a) \in Int
         /\ 100 * Counted(balance, tx, a)
              = 100 * balance + (IF tx \in PaidTo(a) THEN amount ELSE 0)
                              - (IF tx \in PaidBy(a) THEN amount ELSE 0)
<1> DEFINE amount == Amount(tx)
           credited == IF FromAddress(tx) # a THEN Plus(balance, amount) ELSE balance
<1>1. amount \in Int /\ -amount \in Int /\ amount % 100 = 0 /\ (-amount) % 100 = 0
  BY AmountWhole
<1> HIDE DEF amount
<1>2. /\ credited \in Int
      /\ 100 * credited = 100 * balance + (IF tx \in PaidBy(a) THEN 0 ELSE amount)
  <2>1. CASE FromAddress(tx) # a
    <3>1. credited = Plus(balance, amount) /\ tx \notin PaidBy(a) BY <2>1 DEF PaidBy
    <3> HIDE DEF credited
    <3> QED BY <1>1, <3>1, WholePlus
  <2>2. CASE FromAddress(tx) = a
    <3>1. credited = balance /\ tx \in PaidBy(a) BY <2>2 DEF PaidBy
    <3> HIDE DEF credited
    <3> QED BY <3>1
  <2> QED BY <2>1, <2>2
<1>3. Counted(balance, tx, a) = IF ToAddress(tx) # a THEN Plus(credited, -amount) ELSE credited
  BY DEF Counted, amount
<1> HIDE DEF credited
<1>4. /\ Counted(balance, tx, a) \in Int
      /\ 100 * Counted(balance, tx, a)
           = 100 * credited - (IF tx \in PaidTo(a) THEN 0 ELSE amount)
  <2>1. CASE ToAddress(tx) # a
    <3>1. Plus(credited, -amount) \in Int
          /\ 100 * Plus(credited, -amount) = 100 * credited + (-amount)
      BY <1>1, <1>2, WholePlus
    <3>2. tx \notin PaidTo(a) BY <2>1 DEF PaidTo
    <3> QED BY <1>1, <1>2, <1>3, <2>1, <3>1, <3>2
  <2>2. CASE ToAddress(tx) = a BY <1>1, <1>2, <1>3, <2>2 DEF PaidTo
  <2> QED BY <2>1, <2>2
<1> QED BY <1>1, <1>2, <1>4 DEF amount

-----------------------------------------------------------------------------
(* The loops.                                                              *)

\* What FlattenSeq makes of sequences over S is one.
LEMMA FlattenType ==
  ASSUME NEW S, NEW seqs \in Seq(Seq(S))
  PROVE  FlattenSeq(seqs) \in Seq(S)
<1> DEFINE last == Len(seqs)
<1>1. last \in Nat /\ \A i \in 1..last : seqs[i] \in Seq(S) OBVIOUS
<1>2. CASE last = 0
  <2>1. FlattenSeq(seqs) = seqs /\ seqs = << >> BY <1>2 DEF FlattenSeq
  <2> QED BY <2>1
<1>3. CASE last # 0
  <2> DEFINE Flat(f) == f = [i \in 1..last |-> IF i = 1 THEN seqs[i] ELSE f[i - 1] \o seqs[i]]
             flatten == CHOOSE f : Flat(f)
             step == [s \in Seq(S) \X (1..last) |-> s[1] \o seqs[s[2]]]
             empty == << >>
  <2>1. FlattenSeq(seqs) = flatten[last] BY <1>3 DEF FlattenSeq
  <2> HIDE DEF last
  <2>2. empty \in Seq(S) /\ \A s \in Seq(S) : empty \o s = s OBVIOUS
  <2>3. IsStep(step, Seq(S), last) BY <1>1 DEF IsStep
  <2>4. \A s \in Seq(S), i \in 1..last : step[<< s, i >>] = s \o seqs[i] OBVIOUS
  <2> HIDE DEF empty, step, Flat
  <2>5. PICK g : IsRun(g, Seq(S), empty, last, step) BY <1>1, <2>2, <2>3, LoopRuns
  <2> DEFINE h == [i \in 1..last |-> g[i]]
  <2>6. ASSUME NEW i \in 1..last
        PROVE  g[i] = IF i = 1 THEN seqs[i] ELSE h[i - 1] \o seqs[i]
    <3>1. i - 1 \in 0..last BY <1>1
    <3>2. g[i] = g[i - 1] \o seqs[i] BY <2>4, <2>5, <3>1 DEF IsRun
    <3>3. CASE i = 1
      <4>1. i - 1 = 0 BY <3>3
      <4>2. g[i] = empty \o seqs[i] BY <2>5, <3>2, <4>1 DEF IsRun
      <4> QED BY <1>1, <2>2, <3>3, <4>2
    <3>4. CASE i # 1
      <4>1. i - 1 \in 1..last BY <1>1, <3>4
      <4> QED BY <3>2, <3>4, <4>1
    <3> QED BY <3>3, <3>4
  <2>7. Flat(h) BY <2>6 DEF Flat
  <2>8. Flat(flatten)
    <3> HIDE DEF h
    <3> QED BY <2>7
  <2> HIDE DEF flatten
  <2>9. /\ flatten[1] \in Seq(S)
        /\ \A i \in 1..last : i # 1 => flatten[i] = flatten[i - 1] \o seqs[i]
    <3>1. 1 \in 1..last BY <1>1, <1>3
    <3> QED BY <1>1, <2>8, <3>1 DEF Flat
  <2> DEFINE from1 == [i \in 0..(last - 1) |-> flatten[i + 1]]
  <2>10. last - 1 \in Nat BY <1>1, <1>3
  <2>11. from1[0] \in Seq(S)
    <3>1. 0 \in 0..(last - 1) /\ 0 + 1 = 1 BY <2>10
    <3> QED BY <2>9, <3>1
  <2>12. ASSUME NEW i \in 1..(last - 1), from1[i - 1] \in Seq(S) PROVE from1[i] \in Seq(S)
    <3>1. i + 1 \in 1..last /\ i + 1 # 1 /\ (i + 1) - 1 = i /\ i - 1 \in 0..(last - 1)
          /\ i \in 0..(last - 1) /\ (i - 1) + 1 = i
      BY <1>1
    <3>2. seqs[i + 1] \in Seq(S) BY <1>1, <3>1
    <3>3. from1[i - 1] = flatten[i] /\ from1[i] = flatten[i + 1] BY <3>1
    <3> HIDE DEF from1
    <3>4. flatten[i + 1] = flatten[i] \o seqs[i + 1] BY <2>9, <3>1
    <3>5. flatten[i] \o seqs[i + 1] \in Seq(S) BY <2>12, <3>2, <3>3
    <3> QED BY <3>3, <3>4, <3>5
  <2>13. from1[last - 1] \in Seq(S)
    <3>1. last - 1 \in 0..(last - 1) BY <2>10
    <3> HIDE DEF from1
    <3>2. \A i \in 0..(last - 1) : from1[i] \in Seq(S) BY <2>10, <2>11, <2>12, LoopKeeps
    <3> QED BY <3>1, <3>2
  <2>14. from1[last - 1] = flatten[last]
    <3>1. last - 1 \in 0..(last - 1) /\ (last - 1) + 1 = last BY <1>1, <2>10
    <3> QED BY <3>1
  <2> QED BY <2>1, <2>13, <2>14
<1> QED BY <1>2, <1>3

LEMMA MinedType ==
  ASSUME NEW chain \in Seq(Block)
  PROVE  Mined(chain) \in Seq(Transaction)
<1> DEFINE seqs == [i \in 1..Len(chain) |-> chain[i].transactions]
<1>1. Len(chain) \in Nat /\ \A i \in 1..Len(chain) : chain[i] \in Block OBVIOUS
<1>2. seqs \in Seq(Seq(Transaction)) BY <1>1 DEF Block
<1>3. Mined(chain) = FlattenSeq(seqs) BY DEF Mined
<1> HIDE DEF seqs
<1> QED BY <1>2, <1>3, FlattenType

\* A sum over transactions is a number, and a transaction more adds its amount.
LEMMA TotalLoop ==
  ASSUME WholeAmounts, NEW mined \in Seq(Transaction), NEW Some
  PROVE  \E sum \in [0..Len(mined) -> Int] :
           /\ Total(mined, Some) = sum[Len(mined)]
           /\ sum[0] = 0
           /\ \A i \in 1..Len(mined) :
                sum[i] = sum[i - 1] + (IF mined[i] \in Some THEN Amount(mined[i]) ELSE 0)
<1> DEFINE last == Len(mined)
           More(before, i) == IF mined[i] \in Some THEN before + Amount(mined[i]) ELSE before
           Sums(f) == f = [i \in 0..last |-> IF i = 0 THEN 0 ELSE More(f[i - 1], i)]
           sum == CHOOSE f : Sums(f)
           step == [s \in Int \X (1..last) |-> More(s[1], s[2])]
<1>1. Total(mined, Some) = sum[last] BY DEF Total
<1>2. last \in Nat OBVIOUS
<1>3. ASSUME NEW i \in 1..last PROVE Amount(mined[i]) \in Int
  <2>1. mined[i] \in Transaction OBVIOUS
  <2> QED BY <2>1, AmountWhole
<1> HIDE DEF last
<1>4. IsStep(step, Int, last) BY <1>3 DEF IsStep
<1>5. \A before \in Int, i \in 1..last : step[<< before, i >>] = More(before, i) OBVIOUS
<1> HIDE DEF step, More
<1>6. PICK g : IsRun(g, Int, 0, last, step)
  <2>1. 0 \in Int OBVIOUS
  <2> QED BY <1>2, <1>4, <2>1, LoopRuns, Zenon
<1>7. ASSUME NEW i \in 0..last PROVE g[i] = IF i = 0 THEN 0 ELSE More(g[i - 1], i)
  <2>1. CASE i # 0
    <3>1. i \in 1..last /\ i - 1 \in 0..last BY <1>2, <2>1
    <3> QED BY <1>5, <1>6, <2>1, <3>1 DEF IsRun
  <2> QED BY <1>6, <2>1 DEF IsRun
<1>8. g = [i \in 0..last |-> g[i]] BY <1>6 DEF IsRun
<1>9. Sums(g) BY <1>7, <1>8
<1> HIDE DEF Sums
<1>10. Sums(sum) BY <1>9
<1> HIDE DEF sum
<1>11. sum[0] = 0 /\ \A i \in 1..last : sum[i] = More(sum[i - 1], i)
  <2>1. 0 \in 0..last /\ \A i \in 1..last : i \in 0..last /\ i # 0 BY <1>2
  <2> QED BY <1>10, <2>1 DEF Sums
<1>12. \A i \in 0..last : sum[i] \in Int
  <2>1. sum[0] \in Int BY <1>11
  <2>2. ASSUME NEW i \in 1..last, sum[i - 1] \in Int PROVE sum[i] \in Int
    BY <1>3, <1>11, <2>2 DEF More
  <2> QED BY <1>2, <2>1, <2>2, LoopKeeps
<1>13. sum \in [0..last -> Int]
  <2>1. sum = [i \in 0..last |-> sum[i]] BY <1>10 DEF Sums
  <2> QED BY <1>12, <2>1
<1>14. ASSUME NEW i \in 1..last
       PROVE  sum[i] = sum[i - 1] + (IF mined[i] \in Some THEN Amount(mined[i]) ELSE 0)
  <2>1. sum[i - 1] \in Int
    <3>1. i - 1 \in 0..last BY <1>2
    <3> QED BY <1>12, <3>1
  <2> QED BY <1>11, <2>1 DEF More
<1> QED BY <1>1, <1>11, <1>13, <1>14 DEF last

\* So does the loop of getBalanceOfAddress count.
LEMMA BalanceLoop ==
  ASSUME WholeAmounts, NEW chain, Mined(chain) \in Seq(Transaction), NEW a
  PROVE  LET mined == Mined(chain) IN
         \E balance \in [0..Len(mined) -> Int] :
           /\ GetBalanceOfAddress(chain, a) = balance[Len(mined)]
           /\ balance[0] = 0
           /\ \A i \in 1..Len(mined) : balance[i] = Counted(balance[i - 1], mined[i], a)
<1> DEFINE mined == Mined(chain)
           last == Len(mined)
           Counts(f) == f = [i \in 0..last |-> IF i = 0 THEN 0 ELSE Counted(f[i - 1], mined[i], a)]
           balance == CHOOSE f : Counts(f)
           step == [s \in Int \X (1..last) |-> Counted(s[1], mined[s[2]], a)]
<1>1. GetBalanceOfAddress(chain, a) = balance[last] BY DEF GetBalanceOfAddress
<1>2. last \in Nat OBVIOUS
<1>3. ASSUME NEW i \in 1..last, NEW before \in Int
      PROVE  Counted(before, mined[i], a) \in Int
  <2>1. mined[i] \in Transaction OBVIOUS
  <2> HIDE DEF mined
  <2> QED BY <2>1, CountedRight
<1> HIDE DEF last, mined
<1>4. IsStep(step, Int, last) BY <1>3 DEF IsStep
<1>5. \A before \in Int, i \in 1..last : step[<< before, i >>] = Counted(before, mined[i], a)
  OBVIOUS
<1> HIDE DEF step
<1>6. PICK g : IsRun(g, Int, 0, last, step)
  <2>1. 0 \in Int OBVIOUS
  <2> QED BY <1>2, <1>4, <2>1, LoopRuns, Zenon
<1>7. ASSUME NEW i \in 0..last
      PROVE  g[i] = IF i = 0 THEN 0 ELSE Counted(g[i - 1], mined[i], a)
  <2>1. CASE i # 0
    <3>1. i \in 1..last /\ i - 1 \in 0..last BY <1>2, <2>1
    <3> QED BY <1>5, <1>6, <2>1, <3>1 DEF IsRun
  <2> QED BY <1>6, <2>1 DEF IsRun
<1>8. g = [i \in 0..last |-> g[i]] BY <1>6 DEF IsRun
<1>9. Counts(g) BY <1>7, <1>8
<1> HIDE DEF Counts
<1>10. Counts(balance) BY <1>9
<1> HIDE DEF balance
<1>11. balance[0] = 0 /\ \A i \in 1..last : balance[i] = Counted(balance[i - 1], mined[i], a)
  <2>1. 0 \in 0..last /\ \A i \in 1..last : i \in 0..last /\ i # 0 BY <1>2
  <2> QED BY <1>10, <2>1 DEF Counts
<1>12. \A i \in 0..last : balance[i] \in Int
  <2>1. balance[0] \in Int BY <1>11
  <2>2. ASSUME NEW i \in 1..last, balance[i - 1] \in Int PROVE balance[i] \in Int
    BY <1>3, <1>11, <2>2
  <2> QED BY <1>2, <2>1, <2>2, LoopKeeps
<1>13. balance \in [0..last -> Int]
  <2>1. balance = [i \in 0..last |-> balance[i]] BY <1>10 DEF Counts
  <2> QED BY <1>12, <2>1
<1> QED BY <1>1, <1>11, <1>13 DEF last, mined

-----------------------------------------------------------------------------
(* The balance.                                                            *)

\* After each transaction, the balance is what came in so far less what went out.
LEMMA BalanceIsTotals ==
  ASSUME WholeAmounts, NEW chain \in Seq(Block), NEW a
  PROVE  100 * GetBalanceOfAddress(chain, a)
           = Total(Mined(chain), PaidTo(a)) - Total(Mined(chain), PaidBy(a))
<1> DEFINE mined == Mined(chain)
           last == Len(mined)
<1>1. mined \in Seq(Transaction) BY MinedType
<1>2. PICK balance \in [0..last -> Int] :
        /\ GetBalanceOfAddress(chain, a) = balance[last]
        /\ balance[0] = 0
        /\ \A i \in 1..last : balance[i] = Counted(balance[i - 1], mined[i], a)
  BY <1>1, BalanceLoop
<1> HIDE DEF mined
<1>3. PICK into \in [0..last -> Int] :
        /\ Total(mined, PaidTo(a)) = into[last]
        /\ into[0] = 0
        /\ \A i \in 1..last :
             into[i] = into[i - 1] + (IF mined[i] \in PaidTo(a) THEN Amount(mined[i]) ELSE 0)
  BY <1>1, TotalLoop
<1>4. PICK out \in [0..last -> Int] :
        /\ Total(mined, PaidBy(a)) = out[last]
        /\ out[0] = 0
        /\ \A i \in 1..last :
             out[i] = out[i - 1] + (IF mined[i] \in PaidBy(a) THEN Amount(mined[i]) ELSE 0)
  BY <1>1, TotalLoop
<1>5. last \in Nat BY <1>1
<1>6. ASSUME NEW i \in 1..last PROVE mined[i] \in Transaction BY <1>1
<1> HIDE DEF last
<1> DEFINE right == {i \in Nat : i <= last => 100 * balance[i] = into[i] - out[i]}
<1>7. 0 \in right BY <1>2, <1>3, <1>4
<1>8. ASSUME NEW n \in right PROVE n + 1 \in right
  <2>1. n \in Nat /\ n + 1 \in Nat OBVIOUS
  <2>2. ASSUME n + 1 <= last PROVE 100 * balance[n + 1] = into[n + 1] - out[n + 1]
    <3> DEFINE i == n + 1
    <3>1. i \in 1..last /\ i - 1 = n /\ n \in 0..last BY <1>5, <2>1, <2>2
    <3>2. 100 * balance[n] = into[n] - out[n] BY <1>5, <2>1, <2>2
    <3> HIDE DEF i
    <3>3. balance[n] \in Int /\ into[n] \in Int /\ out[n] \in Int BY <1>2, <1>3, <1>4, <3>1
    <3>4. mined[i] \in Transaction BY <1>6, <3>1
    <3> DEFINE amount == Amount(mined[i])
               come == IF mined[i] \in PaidTo(a) THEN amount ELSE 0
               gone == IF mined[i] \in PaidBy(a) THEN amount ELSE 0
    <3>5. come \in Int /\ gone \in Int
      <4>1. amount \in Int BY <3>4, AmountWhole
      <4> QED BY <4>1
    <3>6. 100 * Counted(balance[n], mined[i], a)
            = 100 * balance[n] + come - gone
      BY <3>3, <3>4, CountedRight
    <3>7. /\ balance[i] = Counted(balance[n], mined[i], a)
          /\ into[i] = into[n] + come
          /\ out[i] = out[n] + gone
      BY <1>2, <1>3, <1>4, <3>1
    <3> HIDE DEF come, gone
    <3>8. 100 * balance[i] = into[i] - out[i] BY <3>2, <3>3, <3>5, <3>6, <3>7
    <3> QED BY <3>8 DEF i
  <2> QED BY <2>1, <2>2
<1>9. right = Nat
  <2> HIDE DEF right
  <2>1. right \in SUBSET Nat BY DEF right
  <2> QED BY <1>7, <1>8, <2>1, Induction
<1>10. 100 * balance[last] = into[last] - out[last]
  <2>1. last \in right BY <1>5, <1>9
  <2> QED BY <1>5, <2>1
<1> QED BY <1>2, <1>3, <1>4, <1>10 DEF mined

\* When payments are whole points whose tenth is whole, every node of any network, in
\* every state of every interleaving, answers with what an account received less what
\* it spent.
THEOREM BalanceAlwaysRight ==
  ASSUME WholeAmounts
  PROVE  Safety => []BalanceRight
<1>1. TypeOK => BalanceRight
  <2> SUFFICES ASSUME TypeOK, NEW n \in Node, NEW a \in Account
               PROVE  100 * GetBalanceOfAddress(blockchain[n].chain, a)
                        = Total(Mined(blockchain[n].chain), PaidTo(a))
                            - Total(Mined(blockchain[n].chain), PaidBy(a))
    BY DEF BalanceRight
  <2>1. blockchain[n].chain \in Seq(Block) BY DEF TypeOK, Ledger
  <2> QED BY <2>1, BalanceIsTotals
<1> QED BY <1>1, TypeCorrect, PTL

=============================================================================
