--------------------------- MODULE ServerTableProofs ---------------------------
(***************************************************************************)
(* Proofs about ServerTable, for any nodes and any length of the list: it  *)
(* has one entry for a node, and does what a map would.                    *)
(***************************************************************************)
EXTENDS ServerTable, Recursion, TLAPS

-----------------------------------------------------------------------------
(* The functions of the list.                                              *)

Unique(table) ==
  \A i, j \in 1..Len(table) : table[i].node = table[j].node => i = j

Table == {table \in Seq(Entry) : Unique(table)}

\* A walk ends at an entry of the node it looks for, or finds none.
LEMMA PositionFacts ==
  ASSUME NEW table \in Seq(Entry), NEW m
  PROVE  LET p == Position(table, m) IN
         \/ p = 0 /\ \A i \in 1..Len(table) : table[i].node # m
         \/ p \in 1..Len(table) /\ table[p].node = m
<1> DEFINE found == {i \in 1..Len(table) : table[i].node = m}
<1>1. Position(table, m) = IF found # {} THEN Min(found) ELSE 0
  BY DEF Position, SelectInSeq
<1>2. CASE found = {} BY <1>1, <1>2
<1>3. CASE found # {}
  <2>1. found \in SUBSET Nat OBVIOUS
  <2>2. \E x \in found : \A y \in found : x <= y BY <1>3, <2>1, Least
  <2>3. Min(found) \in found BY <2>2 DEF Min
  <2> QED BY <1>1, <1>3, <2>3
<1> QED BY <1>2, <1>3

\* In a list without duplicates, it is the only one.
LEMMA PositionUnique ==
  ASSUME NEW table \in Table, NEW i \in 1..Len(table)
  PROVE  Position(table, table[i].node) = i
<1>1. Position(table, table[i].node) \in 1..Len(table)
      /\ table[Position(table, table[i].node)].node = table[i].node
  BY PositionFacts DEF Table
<1> QED BY <1>1 DEF Table, Unique

\* One list after another.
LEMMA ConcatFacts ==
  ASSUME NEW a \in Seq(Entry), NEW b \in Seq(Entry)
  PROVE  /\ a \o b \in Seq(Entry) /\ Len(a \o b) = Len(a) + Len(b)
         /\ \A k \in 1..Len(a) : (a \o b)[k] = a[k]
         /\ \A k \in (Len(a) + 1)..(Len(a) + Len(b)) : (a \o b)[k] = b[k - Len(a)]
  OBVIOUS

\* A removal takes the entry of that node and leaves the others.
LEMMA RemovedFacts ==
  ASSUME NEW table \in Table, NEW m
  PROVE  LET rest == suppression_server(table, m) IN
         rest \in Table /\ ToSet(rest) = {e \in ToSet(table) : e.node # m}
<1> DEFINE rest == suppression_server(table, m)
           p == Position(table, m)
<1>1. table \in Seq(Entry) /\ Len(table) \in Nat BY DEF Table
<1>2. CASE p = 0
  <2>1. rest = table BY <1>2 DEF suppression_server, is_known
  <2>2. \A i \in 1..Len(table) : table[i].node # m BY <1>1, <1>2, PositionFacts
  <2> QED BY <1>1, <2>1, <2>2 DEF ToSet
<1>3. CASE p # 0
  <2>1. p \in 1..Len(table) /\ table[p].node = m BY <1>1, <1>3, PositionFacts
  <2>2. rest = SubSeq(table, 1, p - 1) \o SubSeq(table, p + 1, Len(table))
    BY <1>3 DEF suppression_server, is_known, RemoveAt
  <2> HIDE DEF p
  <2>3. /\ rest \in Seq(Entry) /\ Len(rest) = Len(table) - 1
        /\ \A k \in 1..(Len(table) - 1) :
             rest[k] = IF k < p THEN table[k] ELSE table[k + 1]
    <3> DEFINE front == SubSeq(table, 1, p - 1)
               back  == SubSeq(table, p + 1, Len(table))
    <3>1. /\ front \in Seq(Entry) /\ Len(front) = p - 1
          /\ \A k \in 1..(p - 1) : front[k] = table[k]
      BY <1>1, <2>1
    <3>2. /\ back \in Seq(Entry) /\ Len(back) = Len(table) - p
          /\ \A k \in 1..(Len(table) - p) : back[k] = table[k + p]
      BY <1>1, <2>1
    <3>3. rest = front \o back BY <2>2
    <3> HIDE DEF rest, front, back
    <3>4. /\ rest \in Seq(Entry) /\ Len(rest) = Len(table) - 1
          /\ \A k \in 1..(p - 1) : rest[k] = front[k]
          /\ \A k \in p..(Len(table) - 1) : rest[k] = back[k - (p - 1)]
      <4>1. /\ front \o back \in Seq(Entry) /\ Len(front \o back) = Len(front) + Len(back)
            /\ \A k \in 1..Len(front) : (front \o back)[k] = front[k]
            /\ \A k \in (Len(front) + 1)..(Len(front) + Len(back)) :
                 (front \o back)[k] = back[k - Len(front)]
        BY <3>1, <3>2, ConcatFacts
      <4>2. /\ Len(front) + 1 = p /\ Len(front) + Len(back) = Len(table) - 1
            /\ Len(front) = p - 1
        BY <1>1, <2>1, <3>1, <3>2
      <4> QED BY <3>3, <4>1, <4>2
    <3>5. ASSUME NEW k \in p..(Len(table) - 1) PROVE rest[k] = table[k + 1]
      <4>1. k - (p - 1) \in 1..(Len(table) - p) /\ (k - (p - 1)) + p = k + 1
        BY <1>1, <2>1
      <4> QED BY <3>2, <3>4, <4>1
    <3>6. ASSUME NEW k \in 1..(Len(table) - 1)
          PROVE  rest[k] = IF k < p THEN table[k] ELSE table[k + 1]
      <4>1. k \in 1..(p - 1) \/ k \in p..(Len(table) - 1) BY <1>1, <2>1
      <4>2. CASE k \in 1..(p - 1) BY <2>1, <3>1, <3>4, <4>2
      <4>3. CASE k \in p..(Len(table) - 1) BY <1>1, <2>1, <3>5, <4>3
      <4> QED BY <4>1, <4>2, <4>3
    <3> QED BY <3>4, <3>6
  <2> HIDE DEF rest
  <2>4. \A i \in 1..Len(table) : i # p => table[i].node # m
    BY <2>1 DEF Table, Unique
  <2>5. Unique(rest)
    <3> SUFFICES ASSUME NEW i \in 1..Len(rest), NEW j \in 1..Len(rest),
                        rest[i].node = rest[j].node
                 PROVE  i = j
      BY DEF Unique
    <3> DEFINE old(k) == IF k < p THEN k ELSE k + 1
    <3>1. ASSUME NEW k \in 1..Len(rest) PROVE old(k) \in 1..Len(table) /\ rest[k] = table[old(k)]
      BY <1>1, <2>1, <2>3
    <3>2. old(i) = old(j) BY <3>1 DEF Table, Unique
    <3> QED BY <1>1, <2>1, <2>3, <3>2
  <2>6. ASSUME NEW e \in ToSet(rest) PROVE e \in ToSet(table) /\ e.node # m
    <3>1. PICK k \in 1..Len(rest) : e = rest[k] BY <2>3 DEF ToSet
    <3>2. \E i \in 1..Len(table) : i # p /\ e = table[i] BY <1>1, <2>1, <2>3, <3>1
    <3> QED BY <1>1, <2>4, <3>2 DEF ToSet
  <2>7. ASSUME NEW e \in ToSet(table), e.node # m PROVE e \in ToSet(rest)
    <3>1. PICK i \in 1..Len(table) : e = table[i] BY <1>1 DEF ToSet
    <3>2. i # p BY <2>1, <2>7, <3>1
    <3>3. \E k \in 1..Len(rest) : e = rest[k]
      <4>1. CASE i < p
        <5>1. i \in 1..Len(rest) /\ rest[i] = table[i] BY <1>1, <2>1, <2>3, <4>1
        <5> QED BY <3>1, <5>1
      <4>2. CASE p < i
        <5>1. i - 1 \in 1..Len(rest) /\ ~(i - 1 < p) /\ (i - 1) + 1 = i
          BY <1>1, <2>1, <2>3, <4>2
        <5>2. rest[i - 1] = table[i] BY <2>3, <5>1
        <5> QED BY <3>1, <5>1, <5>2
      <4> QED BY <2>1, <3>2, <4>1, <4>2
    <3> QED BY <2>3, <3>3 DEF ToSet
  <2> QED BY <2>3, <2>5, <2>6, <2>7 DEF Table, rest
<1> QED BY <1>2, <1>3

-----------------------------------------------------------------------------
(* The walk of suppression_dead_server.                                    *)

\* What the visit of one entry leaves.
Visit(table, left, i) ==
  IF Dead(table[i]) THEN suppression_server(left, table[i].node) ELSE left

IsWalk(table, left, last) ==
  left = [i \in 0..last |-> IF i = 0 THEN table ELSE Visit(table, left[i - 1], i)]

\* The walk is defined, however long the list is.
LEMMA WalkExists ==
  ASSUME NEW table \in Table, NEW last \in Nat
  PROVE  \E left : IsWalk(table, left, last)
<1> DEFINE step == [s \in Table \X (1..last) |-> Visit(table, s[1], s[2])]
<1>1. IsStep(step, Table, last)
  <2>1. ASSUME NEW s \in Table \X (1..last) PROVE Visit(table, s[1], s[2]) \in Table
    BY RemovedFacts DEF Visit
  <2> QED BY <2>1 DEF IsStep
<1>2. ASSUME NEW left \in Table, NEW i \in 1..last
      PROVE  step[<< left, i >>] = Visit(table, left, i)
  OBVIOUS
<1> HIDE DEF step
<1>3. PICK left : IsRun(left, Table, table, last, step) BY <1>1, LoopRuns
<1>4. ASSUME NEW i \in 0..last
      PROVE  left[i] = IF i = 0 THEN table ELSE Visit(table, left[i - 1], i)
  <2>1. CASE i # 0
    <3>1. i \in 1..last /\ i - 1 \in 0..last BY <2>1
    <3> QED BY <1>2, <1>3, <2>1, <3>1 DEF IsRun
  <2> QED BY <1>3, <2>1 DEF IsRun
<1>5. left = [i \in 0..last |-> left[i]] BY <1>3 DEF IsRun
<1> QED BY <1>4, <1>5 DEF IsWalk

\* After i entries, those of them that are dead are gone, and nothing else is.
LEMMA WalkLeaves ==
  ASSUME NEW table \in Table, NEW left, IsWalk(table, left, Len(table))
  PROVE  /\ left[Len(table)] \in Table
         /\ ToSet(left[Len(table)]) = {e \in ToSet(table) : ~Dead(e)}
<1> DEFINE Rest(i) == {e \in ToSet(table) :
                        \E j \in 1..Len(table) : e = table[j] /\ (j <= i => ~Dead(e))}
           T == {i \in Nat : i <= Len(table) => left[i] \in Table /\ ToSet(left[i]) = Rest(i)}
<1>1. table \in Seq(Entry) /\ Len(table) \in Nat
      /\ \A e : e \in ToSet(table) <=> \E j \in 1..Len(table) : e = table[j]
  BY DEF Table, ToSet
<1>2. 0 \in T
  <2>1. left[0] = table BY <1>1 DEF IsWalk
  <2>2. ToSet(table) = Rest(0) BY <1>1
  <2> QED BY <2>1, <2>2
<1>3. ASSUME NEW i \in T PROVE i + 1 \in T
  <2>1. i \in Nat OBVIOUS
  <2>2. ASSUME i + 1 <= Len(table)
        PROVE  left[i + 1] \in Table /\ ToSet(left[i + 1]) = Rest(i + 1)
    <3> DEFINE e0 == table[i + 1]
    <3>1. i <= Len(table) /\ i + 1 \in 1..Len(table) /\ e0 \in ToSet(table)
      BY <1>1, <2>1, <2>2
    <3>2. left[i] \in Table /\ ToSet(left[i]) = Rest(i) BY <3>1
    <3>3. left[i + 1] = Visit(table, left[i], i + 1)
      <4>1. i + 1 \in 0..Len(table) /\ i + 1 # 0 /\ (i + 1) - 1 = i BY <2>1, <3>1
      <4> QED BY <4>1 DEF IsWalk
    <3>4. ASSUME NEW j \in 1..Len(table), table[j].node = e0.node PROVE j = i + 1
      BY <3>1, <3>4 DEF Table, Unique
    <3>5. CASE Dead(e0)
      <4>1. left[i + 1] = suppression_server(left[i], e0.node) BY <3>3, <3>5 DEF Visit
      <4>2. left[i + 1] \in Table /\ ToSet(left[i + 1]) = {e \in Rest(i) : e.node # e0.node}
        BY <3>2, <4>1, RemovedFacts
      <4>3. ASSUME NEW e \in Rest(i), e.node # e0.node PROVE e \in Rest(i + 1)
        <5>1. PICK j \in 1..Len(table) : e = table[j] /\ (j <= i => ~Dead(e)) OBVIOUS
        <5>2. j # i + 1 BY <4>3, <5>1
        <5>3. j <= i + 1 => j <= i BY <2>1, <5>2
        <5> QED BY <5>1, <5>3
      <4>4. ASSUME NEW e \in Rest(i + 1) PROVE e \in Rest(i) /\ e.node # e0.node
        <5>1. PICK j \in 1..Len(table) : e = table[j] /\ (j <= i + 1 => ~Dead(e)) OBVIOUS
        <5>2. j # i + 1 BY <2>1, <3>5, <5>1
        <5>3. e.node # e0.node BY <3>4, <5>1, <5>2
        <5>4. j <= i => ~Dead(e) BY <2>1, <5>1
        <5> QED BY <5>1, <5>3, <5>4
      <4> QED BY <4>2, <4>3, <4>4
    <3>6. CASE ~Dead(e0)
      <4>1. left[i + 1] = left[i] BY <3>3, <3>6 DEF Visit
      <4>2. ASSUME NEW e \in Rest(i) PROVE e \in Rest(i + 1)
        <5>1. PICK j \in 1..Len(table) : e = table[j] /\ (j <= i => ~Dead(e)) OBVIOUS
        <5>2. j <= i + 1 => ~Dead(e) BY <2>1, <3>6, <5>1
        <5> QED BY <5>1, <5>2
      <4>3. ASSUME NEW e \in Rest(i + 1) PROVE e \in Rest(i)
        <5>1. PICK j \in 1..Len(table) : e = table[j] /\ (j <= i + 1 => ~Dead(e)) OBVIOUS
        <5>2. j <= i => ~Dead(e) BY <2>1, <5>1
        <5> QED BY <5>1, <5>2
      <4> QED BY <3>2, <4>1, <4>2, <4>3
    <3> QED BY <3>5, <3>6
  <2> QED BY <2>1, <2>2
<1>4. T = Nat
  <2> HIDE DEF T
  <2>1. T \in SUBSET Nat BY DEF T
  <2> QED BY <1>2, <1>3, <2>1, Induction
<1>5. left[Len(table)] \in Table /\ ToSet(left[Len(table)]) = Rest(Len(table))
  <2>1. Len(table) \in T BY <1>1, <1>4
  <2> QED BY <1>1, <2>1
<1>6. Rest(Len(table)) = {e \in ToSet(table) : ~Dead(e)} BY <1>1
<1> QED BY <1>5, <1>6

\* One pass takes all the dead, and nobody else.
LEMMA DeadFacts ==
  ASSUME NEW table \in Table
  PROVE  LET rest == suppression_dead_server(table) IN
         rest \in Table /\ ToSet(rest) = {e \in ToSet(table) : ~Dead(e)}
<1> DEFINE last == Len(table)
           walk == CHOOSE left : IsWalk(table, left, last)
<1>1. last \in Nat BY DEF Table
<1>2. IsWalk(table, walk, last)
  <2> HIDE DEF last
  <2> QED BY <1>1, WalkExists
<1>3. suppression_dead_server(table) = walk[last]
  BY DEF suppression_dead_server, IsWalk, Visit
<1> HIDE DEF walk
<1> QED BY <1>2, <1>3, WalkLeaves

-----------------------------------------------------------------------------
(* Types.                                                                  *)

LEMMA TypeTable == TypeOK <=> server_table \in Table /\ phase \in Phase
  BY DEF TypeOK, Table, Unique

\* What the map is, from what is in the list.
AgeAt(table, m) == IF is_known(table, m) THEN table[Position(table, m)].age ELSE Absent

LEMMA AgeFacts ==
  ASSUME NEW table \in Table, NEW m
  PROVE  \/ /\ ~is_known(table, m) /\ AgeAt(table, m) = Absent
            /\ \A e \in ToSet(table) : e.node # m
         \/ /\ is_known(table, m) /\ AgeAt(table, m) \in Age
            /\ \E e \in ToSet(table) : e.node = m /\ e.age = AgeAt(table, m)
            /\ \A e \in ToSet(table) : e.node = m => e.age = AgeAt(table, m)
<1> DEFINE p == Position(table, m)
<1>1. table \in Seq(Entry) /\ \A e : e \in ToSet(table) <=> \E i \in 1..Len(table) : e = table[i]
  BY DEF Table, ToSet
<1>2. CASE p = 0 BY <1>1, <1>2, PositionFacts DEF is_known, AgeAt
<1>3. CASE p # 0
  <2>1. p \in 1..Len(table) /\ table[p].node = m BY <1>1, <1>3, PositionFacts
  <2>2. is_known(table, m) /\ AgeAt(table, m) = table[p].age BY <1>3 DEF is_known, AgeAt
  <2>3. table[p].age \in Age
    <3>1. table[p] \in Entry BY <1>1, <2>1
    <3> QED BY <3>1 DEF Entry
  <2>4. ASSUME NEW i \in 1..Len(table), table[i].node = m PROVE i = p
    BY <2>1, <2>4 DEF Table, Unique
  <2> QED BY <1>1, <2>1, <2>2, <2>3, <2>4
<1> QED BY <1>2, <1>3

\* The map that a list stands for is known from its entries.
LEMMA AgeKnown ==
  ASSUME NEW table \in Table, NEW m
  PROVE  /\ \A e \in ToSet(table) : e.node = m => AgeAt(table, m) = e.age
         /\ (\A e \in ToSet(table) : e.node # m) => AgeAt(table, m) = Absent
  BY AgeFacts

\* An insertion.
LEMMA InsertFacts ==
  ASSUME NEW table \in Table, NEW m \in Node, ~is_known(table, m)
  PROVE  LET more == insert_server(table, m) IN
         more \in Table /\ ToSet(more) = {[node |-> m, age |-> 0]} \cup ToSet(table)
<1> DEFINE new == [node |-> m, age |-> 0]
           more == << new >> \o table
<1>1. table \in Seq(Entry) /\ Len(table) \in Nat /\ new \in Entry
  BY Scale DEF Table, Entry, Age, Oldest
<1>2. \A i \in 1..Len(table) : table[i].node # m BY <1>1, PositionFacts DEF is_known
<1> HIDE DEF new
<1>3. /\ more \in Seq(Entry) /\ Len(more) = Len(table) + 1 /\ more[1] = new
      /\ \A k \in 2..(Len(table) + 1) : more[k] = table[k - 1]
  BY <1>1
<1> HIDE DEF more
<1>4. new.node = m BY DEF new
<1>5. \A k \in 2..Len(more) : k - 1 \in 1..Len(table) BY <1>1, <1>3
<1>6. Unique(more)
  <2> SUFFICES ASSUME NEW i \in 1..Len(more), NEW j \in 1..Len(more),
                      more[i].node = more[j].node
               PROVE  i = j
    BY DEF Unique
  <2>1. i = 1 \/ i \in 2..Len(more) BY <1>1, <1>3
  <2>2. j = 1 \/ j \in 2..Len(more) BY <1>1, <1>3
  <2>3. CASE i \in 2..Len(more) /\ j \in 2..Len(more)
    <3>1. table[i - 1].node = table[j - 1].node BY <1>3, <2>3
    <3>2. i - 1 = j - 1 BY <1>5, <2>3, <3>1 DEF Table, Unique
    <3> QED BY <3>2
  <2> QED BY <1>2, <1>3, <1>4, <1>5, <2>1, <2>2, <2>3
<1>7. ToSet(more) = {new} \cup ToSet(table)
  <2>1. ASSUME NEW e \in ToSet(more) PROVE e \in {new} \cup ToSet(table)
    <3>1. PICK k \in 1..Len(more) : e = more[k] BY <1>3 DEF ToSet
    <3>2. k = 1 \/ k \in 2..Len(more) BY <1>1, <1>3
    <3> QED BY <1>1, <1>3, <1>5, <3>1, <3>2 DEF ToSet
  <2>2. ASSUME NEW e \in ToSet(table) PROVE e \in ToSet(more)
    <3>1. PICK i \in 1..Len(table) : e = table[i] BY <1>1 DEF ToSet
    <3>2. i + 1 \in 1..Len(more) /\ i + 1 \in 2..(Len(table) + 1) /\ (i + 1) - 1 = i
      BY <1>1, <1>3
    <3>3. e = more[i + 1] BY <1>3, <3>1, <3>2
    <3> QED BY <1>3, <3>2, <3>3 DEF ToSet
  <2>3. new \in ToSet(more)
    <3>1. 1 \in 1..Len(more) BY <1>1, <1>3
    <3> QED BY <1>3, <3>1 DEF ToSet
  <2> QED BY <2>1, <2>2, <2>3
<1>8. insert_server(table, m) = more BY DEF insert_server, more, new
<1> HIDE DEF more
<1> QED BY <1>3, <1>6, <1>7, <1>8 DEF Table, new

\* A list with other ages is walked in the same way.
LEMMA SameNodes ==
  ASSUME NEW table \in Table, NEW other \in Seq(Entry), Len(other) = Len(table),
         \A i \in 1..Len(table) : other[i].node = table[i].node
  PROVE  other \in Table /\ \A m : Position(other, m) = Position(table, m)
<1>1. table \in Seq(Entry) /\ Unique(table) BY DEF Table
<1>2. other \in Table BY <1>1 DEF Table, Unique
<1>3. ASSUME NEW m PROVE Position(other, m) = Position(table, m)
  <2>1. CASE Position(table, m) = 0
    <3>1. \A i \in 1..Len(other) : other[i].node # m BY <1>1, <2>1, PositionFacts
    <3>2. Position(other, m) = 0 BY <3>1, PositionFacts
    <3> QED BY <2>1, <3>2
  <2>2. CASE Position(table, m) # 0
    <3> DEFINE p == Position(table, m)
    <3>1. p \in 1..Len(table) /\ table[p].node = m BY <1>1, <2>2, PositionFacts
    <3> HIDE DEF p
    <3>2. p \in 1..Len(other) /\ other[p].node = m BY <3>1
    <3>3. Position(other, m) = p BY <1>2, <3>2, PositionUnique
    <3> QED BY <3>3 DEF p
  <2> QED BY <2>1, <2>2
<1> QED BY <1>2, <1>3

\* A sign of life.
LEMMA KeepFacts ==
  ASSUME NEW table \in Table, NEW m
  PROVE  LET kept == keep_alive_server(table, m) IN
         /\ kept \in Table
         /\ \A k : AgeAt(kept, k) = IF k = m /\ AgeAt(table, m) # Absent
                                     THEN 0 ELSE AgeAt(table, k)
<1> DEFINE p == Position(table, m)
           kept == keep_alive_server(table, m)
<1>1. table \in Seq(Entry) /\ Unique(table) BY DEF Table
<1>2. CASE p = 0
  <2>1. kept = table /\ AgeAt(table, m) = Absent
    BY <1>2 DEF keep_alive_server, is_known, AgeAt
  <2> QED BY <2>1
<1>3. CASE p # 0
  <2>1. p \in 1..Len(table) /\ table[p].node = m BY <1>1, <1>3, PositionFacts
  <2>2. kept = [table EXCEPT ![p].age = 0] BY <1>3 DEF keep_alive_server, is_known
  <2>3. AgeAt(table, m) \in Age /\ is_known(table, m)
    BY <1>3, AgeFacts DEF is_known
  <2> HIDE DEF kept
  <2>4. table[p] \in Entry /\ [table[p] EXCEPT !.age = 0] \in Entry
    <3>1. table[p] \in Entry BY <1>1, <2>1
    <3>2. 0 \in Age BY Scale DEF Age, Oldest
    <3> QED BY <3>1, <3>2 DEF Entry
  <2> HIDE DEF p
  <2>5. /\ kept \in Seq(Entry) /\ Len(kept) = Len(table)
        /\ kept[p].age = 0 /\ kept[p].node = table[p].node
        /\ \A i \in 1..Len(table) : i # p => kept[i] = table[i]
    <3>1. kept = [table EXCEPT ![p] = [table[p] EXCEPT !.age = 0]] BY <2>2
    <3> DEFINE new == [table[p] EXCEPT !.age = 0]
    <3>2. new.age = 0 /\ new.node = table[p].node BY <2>4 DEF Entry
    <3>3. new \in Entry BY <2>4
    <3>4. kept = [table EXCEPT ![p] = new] BY <3>1
    <3> HIDE DEF new
    <3> QED BY <1>1, <2>1, <3>2, <3>3, <3>4
  <2>6. \A i \in 1..Len(table) : kept[i].node = table[i].node BY <2>5
  <2>7. kept \in Table /\ \A k : Position(kept, k) = Position(table, k)
    BY <2>5, <2>6, SameNodes
  <2>8. ASSUME NEW k PROVE AgeAt(kept, k) = IF k = m THEN 0 ELSE AgeAt(table, k)
    <3>1. CASE k = m BY <1>3, <2>5, <2>7, <3>1 DEF AgeAt, is_known, p
    <3>2. CASE k # m
      <4>1. CASE Position(table, k) = 0 BY <2>7, <3>2, <4>1 DEF AgeAt, is_known
      <4>2. CASE Position(table, k) # 0
        <5>1. Position(table, k) \in 1..Len(table) /\ Position(table, k) # p
          BY <1>1, <2>1, <3>2, <4>2, PositionFacts
        <5> QED BY <2>5, <2>7, <3>2, <4>2, <5>1 DEF AgeAt, is_known
      <4> QED BY <4>1, <4>2
    <3> QED BY <3>1, <3>2
  <2>9. AgeAt(table, m) # Absent BY <2>3 DEF Age, Absent
  <2> QED BY <2>7, <2>8, <2>9 DEF kept
<1> QED BY <1>2, <1>3

\* A tick.
Aged(table) == [i \in 1..Len(table) |-> [table[i] EXCEPT !.age = Older(@)]]

LEMMA AgedFacts ==
  ASSUME NEW table \in Table
  PROVE  /\ Aged(table) \in Table
         /\ \A m : AgeAt(Aged(table), m) = Older(AgeAt(table, m))
<1>1. table \in Seq(Entry) /\ Len(table) \in Nat /\ Unique(table) BY DEF Table
<1>2. ASSUME NEW i \in 1..Len(table)
      PROVE  /\ Aged(table)[i] \in Entry /\ Aged(table)[i].node = table[i].node
             /\ Aged(table)[i].age = Older(table[i].age)
  <2>1. table[i] \in Entry BY <1>1
  <2>2. table[i].age \in Age BY <2>1 DEF Entry
  <2>3. Older(table[i].age) \in Age BY <2>2, Scale DEF Older, Age, Oldest, Absent
  <2>4. Aged(table)[i] = [table[i] EXCEPT !.age = Older(table[i].age)] BY DEF Aged
  <2> QED BY <2>1, <2>3, <2>4 DEF Entry
<1>3. Aged(table) \in Seq(Entry) /\ Len(Aged(table)) = Len(table)
  <2>1. Aged(table) \in [1..Len(table) -> Entry]
    <3>1. Aged(table) = [i \in 1..Len(table) |-> Aged(table)[i]] BY DEF Aged
    <3> QED BY <1>2, <3>1
  <2> QED BY <1>1, <2>1
<1>4. Aged(table) \in Table /\ \A m : Position(Aged(table), m) = Position(table, m)
  BY <1>2, <1>3, SameNodes
<1>5. ASSUME NEW m PROVE AgeAt(Aged(table), m) = Older(AgeAt(table, m))
  <2>1. CASE Position(table, m) = 0
    BY <1>4, <2>1 DEF AgeAt, is_known, Older
  <2>2. CASE Position(table, m) # 0
    <3>1. Position(table, m) \in 1..Len(table) BY <1>1, <2>2, PositionFacts
    <3> QED BY <1>2, <1>4, <2>2, <3>1 DEF AgeAt, is_known
  <2> QED BY <2>1, <2>2
<1> QED BY <1>4, <1>5

-----------------------------------------------------------------------------
(* The theorems.                                                           *)

LEMMA InitTyped == ASSUME Init PROVE TypeOK
<1>1. << >> \in Table BY DEF Table, Unique
<1> QED BY <1>1, TypeTable DEF Init

LEMMA NextTyped == ASSUME TypeOK, [Next]_vars PROVE TypeOK'
<1>1. server_table \in Table /\ phase \in Phase BY TypeTable
<1>2. server_table' \in Table /\ phase' \in Phase
  <2>1. ASSUME NEW m \in Node, Insert(m) PROVE server_table' \in Table /\ phase' \in Phase
    BY <1>1, <2>1, InsertFacts DEF Insert
  <2>2. ASSUME NEW m \in Node, KeepAlive(m) PROVE server_table' \in Table /\ phase' \in Phase
    BY <1>1, <2>2, KeepFacts DEF KeepAlive
  <2>3. CASE RemoveDead BY <1>1, <2>3, DeadFacts DEF RemoveDead
  <2>4. CASE Tick
    <3>1. server_table' = Aged(server_table) BY <2>4 DEF Tick, Aged
    <3>2. phase' \in Phase BY <1>1, <2>4, Scale DEF Tick, Phase, NextPhase
    <3> QED BY <1>1, <3>1, <3>2, AgedFacts
  <2>5. CASE UNCHANGED vars BY <1>1, <2>5 DEF vars
  <2> QED BY <2>1, <2>2, <2>3, <2>4, <2>5 DEF Next
<1> QED BY <1>2 DEF TypeOK, Table, Unique

\* No node has two entries, though insert_server does not look.
THEOREM OneEntryEach == Spec => []TypeOK
  BY InitTyped, NextTyped, PTL DEF Spec

LEMMA MapInit == ASSUME Init PROVE Map!Init
<1>1. \A m : AgeAt(<< >>, m) = Absent
  <2>1. << >> \in Table BY DEF Table, Unique
  <2>2. \A e \in ToSet(<< >>) : FALSE BY DEF ToSet
  <2> QED BY <2>1, <2>2, AgeKnown
<1> QED BY <1>1 DEF Init, Map!Init, AgeOf, AgeAt, Map!Phase, Phase, Map!Absent, Absent

\* Every function of the list does to the map what it promises.
LEMMA MapStep == ASSUME TypeOK, [Next]_vars PROVE [Map!Next]_(Map!vars)
<1>1. server_table \in Table /\ phase \in Phase BY TypeTable
<1>2. /\ AgeOf = [m \in Node |-> AgeAt(server_table, m)]
      /\ AgeOf' = [m \in Node |-> AgeAt(server_table', m)]
  BY DEF AgeOf, AgeAt
<1>3. ASSUME NEW m \in Node, Insert(m) PROVE Map!Insert(m)
  <2> DEFINE more == insert_server(server_table, m)
  <2>1. server_table' = more /\ phase' = phase /\ ~is_known(server_table, m)
    BY <1>3 DEF Insert
  <2>2. more \in Table /\ ToSet(more) = {[node |-> m, age |-> 0]} \cup ToSet(server_table)
    BY <1>1, <2>1, InsertFacts
  <2> HIDE DEF more
  <2>3. AgeAt(server_table, m) = Absent BY <2>1 DEF AgeAt
  <2>4. AgeAt(more, m) = 0
    <3> DEFINE new == [node |-> m, age |-> 0]
    <3>1. new \in ToSet(more) /\ new.node = m /\ new.age = 0 BY <2>2
    <3> QED BY <2>2, <3>1, AgeKnown
  <2>5. ASSUME NEW k \in Node, k # m PROVE AgeAt(more, k) = AgeAt(server_table, k)
    <3>1. \A e \in ToSet(more) : e.node = k => e \in ToSet(server_table) BY <2>2, <2>5
    <3>2. CASE \A e \in ToSet(server_table) : e.node # k
      BY <1>1, <2>2, <3>1, <3>2, AgeKnown
    <3>3. CASE \E e \in ToSet(server_table) : e.node = k
      <4>1. PICK e \in ToSet(server_table) : e.node = k BY <3>3
      <4>2. e \in ToSet(more) BY <2>2
      <4> QED BY <1>1, <2>2, <4>1, <4>2, AgeKnown
    <3> QED BY <3>2, <3>3
  <2>6. AgeOf[m] = Absent /\ AgeOf' = [AgeOf EXCEPT ![m] = 0]
    BY <1>2, <2>1, <2>3, <2>4, <2>5
  <2> QED BY <2>1, <2>6 DEF Map!Insert, Map!Absent, Absent
<1>4. ASSUME NEW m \in Node, KeepAlive(m) PROVE Map!KeepAlive(m)
  <2>1. server_table' = keep_alive_server(server_table, m) /\ phase' = phase
    BY <1>4 DEF KeepAlive
  <2>2. \A k : AgeAt(server_table', k) = IF k = m /\ AgeAt(server_table, m) # Absent
                                          THEN 0 ELSE AgeAt(server_table, k)
    BY <1>1, <2>1, KeepFacts
  <2>3. AgeOf' = [AgeOf EXCEPT ![m] = IF @ = Absent THEN Absent ELSE 0]
    BY <1>2, <2>2
  <2> QED BY <2>1, <2>3 DEF Map!KeepAlive, Map!Absent, Absent
<1>5. CASE RemoveDead
  <2> DEFINE rest == suppression_dead_server(server_table)
  <2>1. server_table' = rest /\ phase' = phase BY <1>5 DEF RemoveDead
  <2>2. rest \in Table /\ ToSet(rest) = {e \in ToSet(server_table) : ~Dead(e)}
    BY <1>1, DeadFacts
  <2> HIDE DEF rest
  <2>3. ASSUME NEW m \in Node
        PROVE  AgeAt(rest, m) = IF m = Self \/ Stale(AgeAt(server_table, m), phase)
                                  THEN Absent ELSE AgeAt(server_table, m)
    <3>1. CASE \A e \in ToSet(server_table) : e.node # m
      BY <1>1, <2>2, <3>1, AgeKnown
    <3>2. CASE \E e \in ToSet(server_table) : e.node = m
      <4>1. PICK e \in ToSet(server_table) : e.node = m BY <3>2
      <4>2. AgeAt(server_table, m) = e.age BY <1>1, <4>1, AgeKnown
      <4>3. CASE Dead(e)
        <5>1. \A d \in ToSet(server_table) : d.node = m => d = e
          BY <1>1, <4>1 DEF Table, Unique, ToSet
        <5>2. \A d \in ToSet(rest) : d.node # m BY <2>2, <4>3, <5>1
        <5>3. AgeAt(rest, m) = Absent BY <2>2, <5>2, AgeKnown
        <5> QED BY <4>1, <4>2, <4>3, <5>3 DEF Dead
      <4>4. CASE ~Dead(e)
        <5>1. AgeAt(rest, m) = e.age BY <2>2, <4>1, <4>4, AgeKnown
        <5> QED BY <4>1, <4>2, <4>4, <5>1 DEF Dead
      <4> QED BY <4>3, <4>4
    <3> QED BY <3>1, <3>2
  <2>4. AgeOf' = [m \in Node |-> IF m = Self \/ Stale(AgeOf[m], phase) THEN Absent ELSE AgeOf[m]]
    BY <1>2, <2>1, <2>3
  <2>5. Map!RemoveDead
    BY <2>1, <2>4 DEF Map!RemoveDead, Map!Stale, Map!Elapsed, Map!Absent, Stale, Elapsed, Absent
  <2> QED BY <2>5 DEF Map!Next
<1>6. CASE Tick
  <2>1. server_table' = Aged(server_table) /\ phase' = NextPhase(phase) BY <1>6 DEF Tick, Aged
  <2>2. AgeOf' = [m \in Node |-> Older(AgeOf[m])] BY <1>1, <1>2, <2>1, AgedFacts
  <2>3. Map!Tick
    BY <2>1, <2>2 DEF Map!Tick, Map!Older, Map!NextPhase, Map!Absent, Map!Oldest,
                      Older, NextPhase, Absent, Oldest
  <2> QED BY <2>3 DEF Map!Next
<1>7. CASE UNCHANGED vars
  BY <1>7 DEF vars, Map!vars, AgeOf
<1> QED BY <1>3, <1>4, <1>5, <1>6, <1>7 DEF Next, Map!Next

\* Whatever the order of insertions, signs of life and removals, the list does what a
\* map from nodes to ages would do (suppression_dead_server).
THEOREM ListIsMap == Spec => ImplementsMap
  BY OneEntryEach, MapInit, MapStep, PTL DEF Spec, ImplementsMap, Map!Spec
=============================================================================
