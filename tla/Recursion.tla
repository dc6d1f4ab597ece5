------------------------------- MODULE Recursion -------------------------------
(***************************************************************************)
(* What the proofs about loops share: induction over the naturals, and     *)
(* functions that are defined by recursion over them.  Both are stated in  *)
(* terms of sets, with the step of a recursion as a function.              *)
(***************************************************************************)
EXTENDS Integers, WellFoundedInduction, TLAPS

\* A set of naturals that is not empty has a least element.
LEMMA Least ==
  ASSUME NEW T \in SUBSET Nat, T # {}
  PROVE  \E x \in T : \A y \in T : x <= y
<1> DEFINE Less == {s \in Nat \X Nat : s[1] < s[2]}
<1>1. IsWellFoundedOn(Less, Nat) BY NatLessThanWellFounded DEF OpToRel
<1>2. PICK x \in T : \A y \in T : ~(<< y, x >> \in Less) BY <1>1, WFMin
<1>3. ASSUME NEW y \in T PROVE x <= y
  <2>1. x \in Nat /\ y \in Nat OBVIOUS
  <2>2. ~(<< y, x >> \in Less) BY <1>2
  <2> QED BY <2>1, <2>2
<1> QED BY <1>3

\* A set that holds 0, and with each number the next one, holds all.
LEMMA Induction ==
  ASSUME NEW T \in SUBSET Nat, 0 \in T, \A n \in T : n + 1 \in T
  PROVE  T = Nat
<1>1. SUFFICES ASSUME Nat \ T # {} PROVE FALSE OBVIOUS
<1>2. PICK x \in Nat \ T : \A y \in Nat \ T : x <= y BY <1>1, Least
<1>3. x # 0 /\ x - 1 \in Nat BY <1>2
<1>4. x - 1 \in T BY <1>2, <1>3
<1> QED BY <1>2, <1>4

\* A loop of `last' turns over values of S: what turn i makes of a value s is
\* step[<< s, i >>], and what there is after turn i is f[i].
IsStep(step, S, last) == step \in [S \X (1..last) -> S]

IsRun(f, S, base, last, step) ==
  /\ f \in [0..last -> S] /\ f[0] = base
  /\ \A i \in 1..last : f[i] = step[<< f[i - 1], i >>]

\* There is a value after every turn.
LEMMA LoopRuns ==
  ASSUME NEW S, NEW base \in S, NEW last \in Nat, NEW step, IsStep(step, S, last)
  PROVE  \E f : IsRun(f, S, base, last, step)
<1> DEFINE Runs(n, f) == /\ f \in [0..n -> S] /\ f[0] = base
                         /\ \A i \in 1..n : f[i] = step[<< f[i - 1], i >>]
           T == {n \in Nat : n <= last => \E f : Runs(n, f)}
<1>0. step \in [S \X (1..last) -> S] BY DEF IsStep
<1>1. 0 \in T
  <2> DEFINE f == [i \in 0..0 |-> base]
  <2>1. Runs(0, f) OBVIOUS
  <2> QED BY <2>1
<1>2. ASSUME NEW n \in T PROVE n + 1 \in T
  <2>1. n \in Nat /\ n + 1 \in Nat OBVIOUS
  <2>2. ASSUME n + 1 <= last PROVE \E f : Runs(n + 1, f)
    <3>1. PICK f : Runs(n, f) BY <2>1, <2>2
    <3> DEFINE next == step[<< f[n], n + 1 >>]
               g == [i \in 0..(n + 1) |-> IF i = n + 1 THEN next ELSE f[i]]
    <3>2. next \in S
      <4>1. f[n] \in S /\ n + 1 \in 1..last BY <2>1, <2>2, <3>1
      <4> QED BY <1>0, <4>1
    <3>3. \A i \in 0..n : g[i] = f[i] BY <2>1
    <3>4. g[n + 1] = next BY <2>1
    <3>5. g \in [0..(n + 1) -> S]
      <4>1. ASSUME NEW i \in 0..(n + 1) PROVE (IF i = n + 1 THEN next ELSE f[i]) \in S
        <5>1. i # n + 1 => i \in 0..n BY <2>1
        <5> QED BY <3>1, <3>2, <5>1
      <4> HIDE DEF next
      <4> QED BY <4>1
    <3>6. ASSUME NEW i \in 1..(n + 1) PROVE g[i] = step[<< g[i - 1], i >>]
      <4>1. CASE i = n + 1
        <5>1. i - 1 = n /\ n \in 0..n BY <2>1, <4>1
        <5>2. g[i - 1] = f[n] BY <3>3, <5>1
        <5> HIDE DEF g
        <5> QED BY <3>4, <4>1, <5>2
      <4>2. CASE i # n + 1
        <5>1. i \in 1..n /\ i \in 0..n /\ i - 1 \in 0..n BY <2>1, <4>2
        <5>2. g[i] = f[i] /\ g[i - 1] = f[i - 1] BY <3>3, <5>1
        <5> HIDE DEF g
        <5> QED BY <3>1, <5>1, <5>2
      <4> QED BY <4>1, <4>2
    <3>7. g[0] = base
      <4>1. 0 \in 0..n BY <2>1
      <4>2. g[0] = f[0] BY <3>3, <4>1
      <4> QED BY <3>1, <4>2
    <3> HIDE DEF g
    <3> QED BY <3>5, <3>6, <3>7
  <2> QED BY <2>1, <2>2
<1>3. T = Nat
  <2> HIDE DEF T
  <2>1. T \in SUBSET Nat BY DEF T
  <2> QED BY <1>1, <1>2, <2>1, Induction
<1>4. last \in T BY <1>3
<1> QED BY <1>4 DEF IsRun

\* What a loop has at the beginning, and every turn keeps, it always has.
LEMMA LoopKeeps ==
  ASSUME NEW S, NEW last \in Nat, NEW f, f[0] \in S,
         \A i \in 1..last : f[i - 1] \in S => f[i] \in S
  PROVE  \A i \in 0..last : f[i] \in S
<1> DEFINE T == {n \in Nat : n <= last => f[n] \in S}
<1>1. 0 \in T OBVIOUS
<1>2. ASSUME NEW n \in T PROVE n + 1 \in T
  <2>1. n \in Nat /\ n + 1 \in Nat /\ (n + 1) - 1 = n OBVIOUS
  <2>2. ASSUME n + 1 <= last PROVE f[n + 1] \in S
    <3>1. n + 1 \in 1..last /\ f[n] \in S BY <2>1, <2>2
    <3> QED BY <2>1, <3>1
  <2> QED BY <2>1, <2>2
<1>3. T = Nat
  <2> HIDE DEF T
  <2>1. T \in SUBSET Nat BY DEF T
  <2> QED BY <1>1, <1>2, <2>1, Induction
<1> QED BY <1>3

=============================================================================
