----------------------------- MODULE Sha256Proofs -----------------------------
(***************************************************************************)
(* Proofs about Sha256, for any size of a block, messages of any length    *)
(* and any pieces: what is hashed is the message with its padding.         *)
(***************************************************************************)
EXTENDS Sha256, TLAPS

-----------------------------------------------------------------------------
(* Arithmetic.                                                             *)

\* A product grows with its factor.
LEMMA TimesGrows ==
  ASSUME NEW a \in Int, NEW b \in Int, NEW c \in Nat, a <= b
  PROVE  c * a <= c * b
  BY SMT

\* What division and remainder return.
LEMMA Division ==
  ASSUME NEW a \in Int, NEW b \in Nat \ {0}
  PROVE  /\ a \div b \in Int /\ a % b \in 0..(b - 1)
         /\ a = b * (a \div b) + (a % b)
  BY SMT

\* There is only one way to divide.
LEMMA Remainder ==
  ASSUME NEW a \in Int, NEW b \in Nat \ {0}, NEW q \in Int,
         NEW r \in Int, 0 <= r, r < b, a = b * q + r
  PROVE  a % b = r
<1> DEFINE p == a \div b
           s == a % b
<1>1. p \in Int /\ s \in 0..(b - 1) /\ a = b * p + s BY Division
<1> HIDE DEF p, s
<1>2. ASSUME p < q PROVE FALSE
  <2>1. b * (p + 1) <= b * q BY <1>1, <1>2, TimesGrows
  <2>2. b * (p + 1) = b * p + b BY <1>1
  <2>3. b * p \in Int /\ b * q \in Int BY <1>1
  <2> QED BY <1>1, <2>1, <2>2, <2>3
<1>3. ASSUME q < p PROVE FALSE
  <2>1. b * (q + 1) <= b * p BY <1>1, <1>3, TimesGrows
  <2>2. b * (q + 1) = b * q + b BY <1>1
  <2>3. b * p \in Int /\ b * q \in Int BY <1>1
  <2> QED BY <1>1, <2>1, <2>2, <2>3
<1>4. p = q BY <1>1, <1>2, <1>3
<1>5. b * q \in Int OBVIOUS
<1> QED BY <1>1, <1>4, <1>5 DEF s

\* Whole blocks do not change a remainder.
LEMMA WholeBlocks ==
  ASSUME NEW a \in Int, NEW b \in Nat \ {0}, a % b = 0,
         NEW r \in Int, 0 <= r, r < b, NEW c \in Int, c = a + r
  PROVE  c % b = r
<1> DEFINE q == a \div b
<1>1. q \in Int /\ a = b * q BY Division
<1> HIDE DEF q
<1> QED BY <1>1, Remainder

LEMMA MoreBlocks ==
  ASSUME NEW a \in Int, NEW b \in Nat \ {0}, a % b = 0, NEW k \in Int,
         NEW c \in Int, c = a + b * k
  PROVE  c % b = 0
<1> DEFINE q == a \div b
<1>1. q \in Int /\ a = b * q BY Division
<1> HIDE DEF q
<1> DEFINE p == q + k
<1>2. c = b * p + 0 BY <1>1
<1>3. p \in Int /\ 0 \in Int /\ 0 <= 0 /\ 0 < b BY <1>1
<1> HIDE DEF p
<1> QED BY <1>2, <1>3, Remainder, Zenon

LEMMA OneBlock ==
  ASSUME NEW a \in Int, NEW b \in Nat \ {0}, a % b = 0, NEW c \in Int, c = a + b
  PROVE  c % b = 0
<1> DEFINE q == a \div b
<1>1. q \in Int /\ a = b * q BY Division
<1> HIDE DEF q
<1> DEFINE p == q + 1
<1>2. c = b * p + 0 BY <1>1
<1>3. p \in Int /\ 0 \in Int /\ 0 <= 0 /\ 0 < b BY <1>1
<1> HIDE DEF p
<1> QED BY <1>2, <1>3, Remainder, Zenon

-----------------------------------------------------------------------------
(* Bytes and pieces.                                                       *)

LEMMA MessageFacts ==
  ASSUME NEW i \in Nat, NEW len \in Nat
  PROVE  LET piece == Message(i, i + len - 1) IN
         /\ piece \in Seq(Byte) /\ Len(piece) = len
         /\ \A k \in 1..len : piece[k] = Data(i + k - 1)
<1>1. \A k \in 1..len : Data(i + k - 1) \in Byte BY DEF Data, Byte
<1>2. i + len - 1 - i + 1 = len OBVIOUS
<1> QED BY <1>1, <1>2 DEF Message

\* All of it, from the start.
LEMMA WholeMessage ==
  ASSUME NEW length \in Nat
  PROVE  LET all == Message(0, length - 1) IN
         /\ all \in Seq(Byte) /\ Len(all) = length
         /\ \A k \in 1..length : all[k] = Data(k - 1)
<1> DEFINE all  == Message(0, length - 1)
           same == Message(0, 0 + length - 1)
<1>1. length - 1 = 0 + length - 1 OBVIOUS
<1>2. all = same BY <1>1
<1>3. /\ same \in Seq(Byte) /\ Len(same) = length
      /\ \A k \in 1..length : same[k] = Data(0 + k - 1)
  BY MessageFacts
<1> HIDE DEF all, same
<1>4. /\ all \in Seq(Byte) /\ Len(all) = length
      /\ \A k \in 1..length : all[k] = Data(k - 1)
  BY <1>2, <1>3
<1> QED BY <1>4 DEF all

LEMMA ZerosFacts ==
  ASSUME NEW count \in Nat
  PROVE  /\ Zeros(count) \in Seq(Byte) /\ Len(Zeros(count)) = count
         /\ \A k \in 1..count : Zeros(count)[k] = Pad(0)
<1>1. Pad(0) \in Byte BY DEF Pad, Byte
<1> QED BY <1>1 DEF Zeros

LEMMA UnpackFacts ==
  ASSUME NEW v \in Nat
  PROVE  Unpack32(v) \in Seq(Byte) /\ Len(Unpack32(v)) = 4
<1>1. ASSUME NEW a \in Int PROVE Pad(a % 256) \in Byte BY <1>1 DEF Pad, Byte
<1>2. v \div 2^24 \in Int /\ v \div 2^16 \in Int /\ v \div 2^8 \in Int
  OBVIOUS
<1> QED BY <1>1, <1>2 DEF Unpack32

\* A write into the buffer changes what it covers, and nothing else.
Buffer == [1..(2 * BLOCK_SIZE) -> Byte]

LEMMA WrittenFacts ==
  ASSUME NEW buffer \in Buffer, NEW at \in Nat, NEW bytes \in Seq(Byte),
         at + Len(bytes) <= 2 * BLOCK_SIZE
  PROVE  LET w == Written(buffer, at, bytes) IN
         /\ w \in Buffer
         /\ \A k \in 1..(2 * BLOCK_SIZE) :
              w[k] = IF at < k /\ k <= at + Len(bytes) THEN bytes[k - at] ELSE buffer[k]
<1>1. Len(buffer) = 2 * BLOCK_SIZE BY Sizes DEF Buffer
<1> QED BY <1>1, Sizes DEF Written, Buffer

\* What is taken from the start of the buffer.
LEMMA FrontFacts ==
  ASSUME NEW buffer \in Buffer, NEW len \in 0..(2 * BLOCK_SIZE)
  PROVE  LET front == SubSeq(buffer, 1, len) IN
         /\ front \in Seq(Byte) /\ Len(front) = len
         /\ \A k \in 1..len : front[k] = buffer[k]
<1>1. buffer \in Seq(Byte) /\ Len(buffer) = 2 * BLOCK_SIZE BY Sizes DEF Buffer
<1>2. len \in Nat /\ len <= 2 * BLOCK_SIZE BY Sizes
<1> QED BY <1>1, <1>2

\* One sequence after another.
LEMMA ConcatFacts ==
  ASSUME NEW a \in Seq(Byte), NEW b \in Seq(Byte)
  PROVE  /\ a \o b \in Seq(Byte) /\ Len(a \o b) = Len(a) + Len(b)
         /\ \A k \in 1..Len(a) : (a \o b)[k] = a[k]
         /\ \A k \in (Len(a) + 1)..(Len(a) + Len(b)) : (a \o b)[k] = b[k - Len(a)]
  OBVIOUS

-----------------------------------------------------------------------------
(* The invariant: what was handed over and what waits are the message's    *)
(* bytes, each at its place.                                               *)

Handed == \A k \in 1..m_tot_len : m_h[k] = Data(k - 1)
Waiting == \A k \in 1..m_len : m_block[k] = Data(m_tot_len + k - 1)

OpenInv ==
  state = "open" => /\ Len(m_h) = m_tot_len /\ m_tot_len % BLOCK_SIZE = 0
                    /\ given = m_tot_len + m_len
                    /\ Handed /\ Waiting

SInv == TypeOK /\ OpenInv /\ HashesPadded

LEMMA InitInv == ASSUME Init PROVE SInv
<1>1. BLOCK_SIZE \in Nat \ {0} /\ 0 % BLOCK_SIZE = 0
  <2>1. BLOCK_SIZE \in Nat \ {0} /\ 0 = BLOCK_SIZE * 0 + 0 BY Sizes
  <2> QED BY <2>1, Remainder
<1>2. Zeros(2 * BLOCK_SIZE) \in Buffer
  BY Sizes, ZerosFacts DEF Zeros, Buffer, Byte, Pad
<1> QED
  BY <1>1, <1>2, Sizes DEF Init, SInv, TypeOK, OpenInv, Handed, Waiting, HashesPadded, Buffer

\* A piece that does not fill the block.
LEMMA FitsStep ==
  ASSUME SInv, NEW len \in Nat, given + len <= Longest, Update(len), Fits(len)
  PROVE  SInv'
<1> DEFINE piece == Message(given, given + First(len) - 1)
<1>1. /\ m_block \in Buffer /\ m_len \in 0..(BLOCK_SIZE - 1) /\ m_tot_len \in Nat
      /\ m_h \in Seq(Byte) /\ given \in Nat /\ BLOCK_SIZE \in Nat
  BY Sizes DEF SInv, TypeOK, Buffer
<1>2. /\ state = "open" /\ UNCHANGED << m_tot_len, m_h, state >>
      /\ given' = given + len /\ m_len' = m_len + len
      /\ m_block' = Written(m_block, m_len, piece)
  BY DEF Update, Fits
<1>3. First(len) = len /\ m_len + len < BLOCK_SIZE BY <1>1 DEF Fits, First
<1>4. /\ piece \in Seq(Byte) /\ Len(piece) = len
      /\ \A k \in 1..len : piece[k] = Data(given + k - 1)
  BY <1>1, <1>3, MessageFacts
<1> HIDE DEF piece
<1>5. /\ m_block' \in Buffer
      /\ \A k \in 1..(2 * BLOCK_SIZE) :
           m_block'[k] = IF m_len < k /\ k <= m_len + len THEN piece[k - m_len] ELSE m_block[k]
  <2>1. m_len \in Nat /\ m_len + Len(piece) <= 2 * BLOCK_SIZE BY <1>1, <1>3, <1>4
  <2>2. /\ Written(m_block, m_len, piece) \in Buffer
        /\ \A k \in 1..(2 * BLOCK_SIZE) :
             Written(m_block, m_len, piece)[k]
               = IF m_len < k /\ k <= m_len + Len(piece) THEN piece[k - m_len] ELSE m_block[k]
    BY <1>1, <1>4, <2>1, WrittenFacts
  <2> QED BY <1>2, <1>4, <2>2
<1>6. TypeOK'
  BY <1>1, <1>2, <1>3, <1>5, Sizes DEF SInv, TypeOK, Buffer
<1>7. Waiting'
  <2> SUFFICES ASSUME NEW k \in 1..(m_len + len)
               PROVE  m_block'[k] = Data(m_tot_len + k - 1)
    BY <1>2 DEF Waiting
  <2>1. k \in 1..(2 * BLOCK_SIZE) BY <1>1, <1>3
  <2>2. CASE k <= m_len
    <3>1. m_block'[k] = m_block[k] /\ k \in 1..m_len BY <1>1, <1>5, <2>1, <2>2
    <3> QED BY <1>2, <3>1 DEF SInv, OpenInv, Waiting
  <2>3. CASE m_len < k
    <3>1. m_block'[k] = piece[k - m_len] /\ k - m_len \in 1..len BY <1>1, <1>5, <2>1, <2>3
    <3>2. given + (k - m_len) - 1 = m_tot_len + k - 1 BY <1>1, <1>2 DEF SInv, OpenInv
    <3> QED BY <1>4, <3>1, <3>2
  <2> QED BY <1>1, <2>2, <2>3
<1>8. OpenInv'
  BY <1>1, <1>2, <1>7 DEF SInv, OpenInv, Handed
<1> QED BY <1>2, <1>6, <1>8 DEF SInv, HashesPadded

\* A piece that fills the block: that block goes, and the whole blocks of the rest.
LEMMA BlockStep ==
  ASSUME SInv, NEW len \in Nat, given + len <= Longest, Update(len), ~Fits(len)
  PROVE  SInv'
<1> DEFINE rest   == len - First(len)
           block_nb == rest \div BLOCK_SIZE
           bytes  == block_nb * BLOCK_SIZE
           rem_len == rest % BLOCK_SIZE
           shifted == given + First(len)
           after  == shifted + bytes
           piece  == Message(given, given + First(len) - 1)
           filled == Written(m_block, m_len, piece)
           front  == SubSeq(filled, 1, BLOCK_SIZE)
           middle == Message(shifted, after - 1)
           last   == Message(after, after + rem_len - 1)
<1>1. /\ m_block \in Buffer /\ m_len \in 0..(BLOCK_SIZE - 1) /\ m_tot_len \in Nat
      /\ m_h \in Seq(Byte) /\ given \in Nat /\ BLOCK_SIZE \in Nat \ {0}
  BY Sizes DEF SInv, TypeOK, Buffer
<1>2. /\ state = "open" /\ state' = "open" /\ given' = given + len
      /\ m_h' = m_h \o front \o middle
      /\ m_block' = Written(filled, 0, last)
      /\ m_len' = rem_len
      /\ m_tot_len' = m_tot_len + (block_nb + 1) * BLOCK_SIZE
  <2>1. state = "open" /\ state' = state /\ given' = given + len BY DEF Update
  <2>2. m_h' = m_h \o front \o middle BY DEF Update
  <2>3. m_block' = Written(filled, 0, last) BY DEF Update
  <2>4. m_len' = rem_len BY DEF Update
  <2>5. m_tot_len' = m_tot_len + (block_nb + 1) * BLOCK_SIZE BY DEF Update
  <2> QED BY <2>1, <2>2, <2>3, <2>4, <2>5
<1>3. /\ Len(m_h) = m_tot_len /\ m_tot_len % BLOCK_SIZE = 0
      /\ given = m_tot_len + m_len /\ Handed /\ Waiting
  BY <1>2 DEF SInv, OpenInv
<1>4. First(len) = BLOCK_SIZE - m_len /\ First(len) \in Nat /\ rest \in Nat
  BY <1>1 DEF Fits, First
<1>5. /\ block_nb \in Int /\ rem_len \in 0..(BLOCK_SIZE - 1)
      /\ rest = BLOCK_SIZE * block_nb + rem_len
  <2> HIDE DEF rest
  <2> QED BY <1>1, <1>4, Division
<1>6. bytes \in Nat /\ rest = bytes + rem_len
  <2> HIDE DEF rest, block_nb, rem_len
  <2>1. BLOCK_SIZE * block_nb = bytes /\ bytes \in Int BY <1>1, <1>5
  <2>2. ASSUME block_nb <= -1 PROVE FALSE
    <3>1. BLOCK_SIZE * block_nb <= BLOCK_SIZE * (-1) BY <1>1, <1>5, <2>2, TimesGrows
    <3>2. BLOCK_SIZE * (-1) = -BLOCK_SIZE BY <1>1
    <3> HIDE DEF bytes
    <3> QED BY <1>1, <1>4, <1>5, <2>1, <3>1, <3>2
  <2>3. 0 <= block_nb BY <1>5, <2>2
  <2>4. BLOCK_SIZE * 0 <= BLOCK_SIZE * block_nb BY <1>1, <1>5, <2>3, TimesGrows
  <2> HIDE DEF bytes
  <2> QED BY <1>1, <1>5, <2>1, <2>4
<1>7. m_tot_len' = m_tot_len + BLOCK_SIZE + bytes
  <2> HIDE DEF block_nb
  <2> QED BY <1>1, <1>2, <1>5
<1>8. m_tot_len' % BLOCK_SIZE = 0
  <2> DEFINE k == block_nb + 1
  <2>1. k \in Int BY <1>5
  <2>2. m_tot_len' = m_tot_len + k * BLOCK_SIZE BY <1>2
  <2> HIDE DEF k
  <2>3. m_tot_len' = m_tot_len + BLOCK_SIZE * k /\ m_tot_len' \in Int BY <1>1, <2>1, <2>2
  <2>4. m_tot_len \in Int /\ m_tot_len % BLOCK_SIZE = 0 /\ BLOCK_SIZE \in Nat \ {0}
    BY <1>1, <1>3
  <2> QED BY <2>1, <2>3, <2>4, MoreBlocks, Zenon
<1> HIDE DEF rest, block_nb, bytes, rem_len
<1>9. /\ shifted = m_tot_len + BLOCK_SIZE /\ shifted \in Nat
      /\ after = m_tot_len' /\ after \in Nat
  BY <1>1, <1>3, <1>4, <1>6, <1>7
<1>10. /\ piece \in Seq(Byte) /\ Len(piece) = BLOCK_SIZE - m_len
       /\ \A k \in 1..(BLOCK_SIZE - m_len) : piece[k] = Data(given + k - 1)
  BY <1>1, <1>4, MessageFacts
<1>19. after - 1 = shifted + bytes - 1 /\ after = shifted + bytes BY <1>6, <1>9
<1> HIDE DEF shifted, after
<1>11. /\ middle \in Seq(Byte) /\ Len(middle) = bytes
       /\ \A k \in 1..bytes : middle[k] = Data(shifted + k - 1)
  <2> DEFINE same == Message(shifted, shifted + bytes - 1)
  <2>1. middle = same BY <1>19
  <2>2. /\ same \in Seq(Byte) /\ Len(same) = bytes
        /\ \A k \in 1..bytes : same[k] = Data(shifted + k - 1)
    BY <1>6, <1>9, MessageFacts
  <2> HIDE DEF middle, same
  <2> QED BY <2>1, <2>2
<1>12. /\ last \in Seq(Byte) /\ Len(last) = rem_len
       /\ \A k \in 1..rem_len : last[k] = Data(after + k - 1)
  <2>1. rem_len \in Nat BY <1>1, <1>5
  <2> QED BY <1>9, <2>1, MessageFacts
<1> HIDE DEF piece, middle, last
<1>13. /\ filled \in Buffer
       /\ \A k \in 1..BLOCK_SIZE : filled[k] = Data(m_tot_len + k - 1)
  <2>1. m_len \in Nat /\ m_len + Len(piece) <= 2 * BLOCK_SIZE BY <1>1, <1>10
  <2>2. /\ filled \in Buffer
        /\ \A k \in 1..(2 * BLOCK_SIZE) :
             filled[k] = IF m_len < k /\ k <= m_len + Len(piece) THEN piece[k - m_len]
                                                               ELSE m_block[k]
    BY <1>1, <1>10, <2>1, WrittenFacts
  <2> HIDE DEF filled
  <2> SUFFICES ASSUME NEW k \in 1..BLOCK_SIZE PROVE filled[k] = Data(m_tot_len + k - 1)
    BY <2>2
  <2>3. k \in 1..(2 * BLOCK_SIZE) BY <1>1
  <2>4. CASE k <= m_len
    BY <1>1, <1>3, <2>2, <2>3, <2>4 DEF Waiting
  <2>5. CASE m_len < k
    <3>1. filled[k] = piece[k - m_len] /\ k - m_len \in 1..(BLOCK_SIZE - m_len)
      BY <1>1, <1>10, <2>2, <2>3, <2>5
    <3>2. given + (k - m_len) - 1 = m_tot_len + k - 1 BY <1>1, <1>3
    <3> QED BY <1>10, <3>1, <3>2
  <2> QED BY <1>1, <2>4, <2>5
<1> HIDE DEF filled
<1>14. /\ front \in Seq(Byte) /\ Len(front) = BLOCK_SIZE
       /\ \A k \in 1..BLOCK_SIZE : front[k] = Data(m_tot_len + k - 1)
  <2>1. BLOCK_SIZE \in 0..(2 * BLOCK_SIZE) BY <1>1
  <2> QED BY <1>13, <2>1, FrontFacts
<1> HIDE DEF front
<1>15. m_h' \in Seq(Byte) /\ Len(m_h') = m_tot_len' /\ Handed'
  <2>1. /\ m_h \o front \in Seq(Byte) /\ Len(m_h \o front) = m_tot_len + BLOCK_SIZE
        /\ m_h' \in Seq(Byte) /\ Len(m_h') = m_tot_len + BLOCK_SIZE + bytes
    <3>1. m_h \o front \in Seq(Byte) /\ Len(m_h \o front) = m_tot_len + BLOCK_SIZE
      BY <1>1, <1>3, <1>14, ConcatFacts
    <3> DEFINE first == m_h \o front
    <3>2. m_h' = first \o middle BY <1>2
    <3> HIDE DEF first
    <3>3. first \in Seq(Byte) /\ Len(first) = m_tot_len + BLOCK_SIZE BY <3>1 DEF first
    <3>4. /\ first \o middle \in Seq(Byte)
          /\ Len(first \o middle) = m_tot_len + BLOCK_SIZE + bytes
      BY <1>11, <3>3, ConcatFacts
    <3> QED BY <3>1, <3>2, <3>4
  <2> SUFFICES ASSUME NEW k \in 1..(m_tot_len + BLOCK_SIZE + bytes)
               PROVE  m_h'[k] = Data(k - 1)
    BY <1>7, <2>1 DEF Handed
  <2>2. CASE k <= m_tot_len
    <3>1. k \in 1..Len(m_h) /\ k \in 1..Len(m_h \o front) BY <1>1, <1>3, <2>1, <2>2
    <3>2. m_h'[k] = m_h[k] BY <1>1, <1>2, <1>11, <1>14, <2>1, <3>1, ConcatFacts
    <3> QED BY <1>1, <1>3, <3>1, <3>2 DEF Handed
  <2>3. CASE m_tot_len < k /\ k <= m_tot_len + BLOCK_SIZE
    <3>1. /\ k \in 1..Len(m_h \o front) /\ k - m_tot_len \in 1..BLOCK_SIZE
          /\ k \in (Len(m_h) + 1)..(Len(m_h) + Len(front))
      BY <1>1, <1>3, <1>14, <2>1, <2>3
    <3>2. m_h'[k] = front[k - m_tot_len]
      <4>1. m_h'[k] = (m_h \o front)[k] BY <1>2, <1>11, <2>1, <3>1, ConcatFacts
      <4>2. (m_h \o front)[k] = front[k - Len(m_h)] BY <1>1, <1>14, <3>1, ConcatFacts
      <4> QED BY <1>3, <4>1, <4>2
    <3>3. m_tot_len + (k - m_tot_len) - 1 = k - 1 BY <1>1
    <3> QED BY <1>14, <3>1, <3>2, <3>3
  <2>4. CASE m_tot_len + BLOCK_SIZE < k
    <3>1. /\ k - (m_tot_len + BLOCK_SIZE) \in 1..bytes
          /\ k \in (Len(m_h \o front) + 1)..(Len(m_h \o front) + Len(middle))
      BY <1>1, <1>6, <1>11, <2>1, <2>4
    <3>2. m_h'[k] = middle[k - (m_tot_len + BLOCK_SIZE)]
      BY <1>2, <1>11, <2>1, <3>1, ConcatFacts
    <3>3. shifted + (k - (m_tot_len + BLOCK_SIZE)) - 1 = k - 1 BY <1>1, <1>9
    <3> QED BY <1>11, <3>1, <3>2, <3>3
  <2> QED BY <1>1, <2>2, <2>3, <2>4
<1>16. m_block' \in Buffer /\ Waiting'
  <2>1. 0 + Len(last) <= 2 * BLOCK_SIZE /\ 0 \in Nat BY <1>1, <1>5, <1>12
  <2>2. /\ m_block' \in Buffer
        /\ \A k \in 1..(2 * BLOCK_SIZE) :
             m_block'[k] = IF 0 < k /\ k <= 0 + Len(last) THEN last[k - 0] ELSE filled[k]
    BY <1>2, <1>12, <1>13, <2>1, WrittenFacts
  <2> SUFFICES ASSUME NEW k \in 1..rem_len PROVE m_block'[k] = Data(after + k - 1)
    BY <1>2, <1>9, <2>2 DEF Waiting
  <2>3. k \in 1..(2 * BLOCK_SIZE) /\ 0 < k /\ k <= 0 + Len(last) /\ k - 0 = k
    BY <1>1, <1>5, <1>12
  <2> QED BY <1>12, <2>2, <2>3
<1>17. m_tot_len' \in Nat /\ given' = m_tot_len' + m_len'
  BY <1>1, <1>2, <1>3, <1>4, <1>5, <1>6, <1>7 DEF rest
<1>18. TypeOK'
  BY <1>1, <1>2, <1>5, <1>15, <1>16, <1>17, Sizes DEF TypeOK, Buffer
<1> QED
  BY <1>2, <1>8, <1>15, <1>16, <1>17, <1>18 DEF SInv, OpenInv, HashesPadded

-----------------------------------------------------------------------------
(* The padding.                                                            *)

\* Sequences are equal when their elements are.
LEMMA SameElements ==
  ASSUME NEW s \in Seq(Byte), NEW t \in Seq(Byte), Len(s) = Len(t),
         \A k \in 1..Len(s) : s[k] = t[k]
  PROVE  s = t
  OBVIOUS

\* The zeros before the eight bytes of the length.
Fill(length) ==
  LET used == (length + 9) % BLOCK_SIZE
  IN IF used = 0 THEN 0 ELSE BLOCK_SIZE - used

\* What the standard has at each place.
LEMMA PaddedFacts ==
  ASSUME NEW length \in Nat
  PROVE  LET end == length + Fill(length) + 9 IN
         /\ Fill(length) \in Nat
         /\ Padded(length) \in Seq(Byte) /\ Len(Padded(length)) = end
         /\ \A k \in 1..end : Padded(length)[k] =
              IF k <= length THEN Data(k - 1)
              ELSE IF k = length + 1 THEN Pad(128)
              ELSE IF k <= end - 4 THEN Pad(0)
              ELSE Unpack32(length * 8)[k - (end - 4)]
<1> DEFINE fill == Fill(length)
           all  == Message(0, length - 1)
           one  == << Pad(128) >>
           zero == Zeros(fill + 4)
           size == Unpack32(length * 8)
           a == all \o one
           b == a \o zero
<1>1. fill \in Nat
  <2>1. (length + 9) % BLOCK_SIZE \in 0..(BLOCK_SIZE - 1) BY Division, Sizes
  <2> QED BY <2>1, Sizes DEF Fill
<1>2. Padded(length) = b \o size BY DEF Padded, Fill
<1>3. /\ all \in Seq(Byte) /\ Len(all) = length
      /\ \A k \in 1..length : all[k] = Data(k - 1)
  BY WholeMessage
<1>4. one \in Seq(Byte) /\ Len(one) = 1 /\ one[1] = Pad(128) BY DEF Pad, Byte
<1>5. /\ zero \in Seq(Byte) /\ Len(zero) = fill + 4
      /\ \A k \in 1..(fill + 4) : zero[k] = Pad(0)
  <2> HIDE DEF fill
  <2>1. fill + 4 \in Nat BY <1>1
  <2> QED BY <2>1, ZerosFacts
<1>6. size \in Seq(Byte) /\ Len(size) = 4 BY UnpackFacts
<1> HIDE DEF fill, all, one, zero, size
<1>7. /\ a \in Seq(Byte) /\ Len(a) = length + 1
      /\ \A k \in 1..length : a[k] = Data(k - 1)
      /\ a[length + 1] = Pad(128)
  <2>1. /\ a \in Seq(Byte) /\ Len(a) = Len(all) + Len(one)
        /\ \A k \in 1..Len(all) : a[k] = all[k]
        /\ \A k \in (Len(all) + 1)..(Len(all) + Len(one)) : a[k] = one[k - Len(all)]
    BY <1>3, <1>4, ConcatFacts
  <2> HIDE DEF a
  <2>2. a[length + 1] = Pad(128)
    <3>1. /\ length + 1 \in (Len(all) + 1)..(Len(all) + Len(one))
          /\ (length + 1) - Len(all) = 1
      BY <1>3, <1>4
    <3> QED BY <1>4, <2>1, <3>1
  <2> QED BY <1>3, <1>4, <2>1, <2>2
<1> HIDE DEF a
<1>8. /\ b \in Seq(Byte) /\ Len(b) = length + fill + 5
      /\ \A k \in 1..(length + 1) : b[k] = a[k]
      /\ \A k \in (length + 2)..(length + fill + 5) : b[k] = Pad(0)
  <2>1. /\ b \in Seq(Byte) /\ Len(b) = Len(a) + Len(zero)
        /\ \A k \in 1..Len(a) : b[k] = a[k]
        /\ \A k \in (Len(a) + 1)..(Len(a) + Len(zero)) : b[k] = zero[k - Len(a)]
    BY <1>5, <1>7, ConcatFacts
  <2> HIDE DEF b
  <2>2. ASSUME NEW k \in (length + 2)..(length + fill + 5) PROVE b[k] = Pad(0)
    <3>1. /\ k \in (Len(a) + 1)..(Len(a) + Len(zero))
          /\ k - Len(a) \in 1..(fill + 4)
      BY <1>1, <1>5, <1>7
    <3> QED BY <1>5, <2>1, <3>1
  <2> QED BY <1>1, <1>5, <1>7, <2>1, <2>2
<1> HIDE DEF b
<1>9. /\ b \o size \in Seq(Byte) /\ Len(b \o size) = length + fill + 9
      /\ \A k \in 1..(length + fill + 5) : (b \o size)[k] = b[k]
      /\ \A k \in (length + fill + 6)..(length + fill + 9) :
           (b \o size)[k] = size[k - (length + fill + 5)]
  <2>1. /\ b \o size \in Seq(Byte) /\ Len(b \o size) = Len(b) + Len(size)
        /\ \A k \in 1..Len(b) : (b \o size)[k] = b[k]
        /\ \A k \in (Len(b) + 1)..(Len(b) + Len(size)) : (b \o size)[k] = size[k - Len(b)]
    BY <1>6, <1>8, ConcatFacts
  <2>2. Len(b) + 1 = length + fill + 6 /\ Len(b) + Len(size) = length + fill + 9
    BY <1>1, <1>6, <1>8
  <2> QED BY <1>8, <2>1, <2>2
<1> DEFINE end == length + fill + 9
           c == b \o size
<1>10. /\ end \in Nat /\ end - 4 = length + fill + 5
       /\ c \in Seq(Byte) /\ Len(c) = end
       /\ \A k \in 1..(end - 4) : c[k] = b[k]
       /\ \A k \in (end - 4 + 1)..end : c[k] = size[k - (end - 4)]
  <2>1. end - 4 = length + fill + 5 /\ end - 4 + 1 = length + fill + 6 BY <1>1
  <2> QED BY <1>1, <1>9, <2>1
<1> HIDE DEF end, c
<1>11. ASSUME NEW k \in 1..end
       PROVE  c[k] = IF k <= length THEN Data(k - 1)
                     ELSE IF k = length + 1 THEN Pad(128)
                     ELSE IF k <= end - 4 THEN Pad(0)
                     ELSE size[k - (end - 4)]
  <2>1. CASE k <= length + 1
    <3>1. c[k] = a[k] BY <1>1, <1>8, <1>10, <2>1
    <3>2. CASE k <= length BY <1>7, <3>1, <3>2
    <3>3. CASE k = length + 1 BY <1>7, <3>1, <3>3
    <3> QED BY <1>10, <2>1, <3>2, <3>3
  <2>2. CASE length + 1 < k /\ k <= end - 4
    <3>1. c[k] = Pad(0) BY <1>1, <1>8, <1>10, <2>2
    <3> QED BY <1>1, <1>10, <2>2, <3>1
  <2>3. CASE end - 4 < k
    <3>1. c[k] = size[k - (end - 4)] BY <1>10, <2>3
    <3>2. ~(k <= length) /\ k # length + 1 /\ ~(k <= end - 4) BY <1>1, <1>10, <2>3
    <3> QED BY <3>1, <3>2
  <2> QED BY <1>10, <2>1, <2>2, <2>3
<1> QED BY <1>1, <1>2, <1>10, <1>11 DEF fill, size, end, c

\* The room that is left decides on one block or two, and on the zeros.
LEMMA FinalLength ==
  ASSUME SInv, state = "open"
  PROVE  /\ FinalBlocks * BLOCK_SIZE \in Nat
         /\ FinalBlocks * BLOCK_SIZE <= 2 * BLOCK_SIZE
         /\ FinalBlocks * BLOCK_SIZE = m_len + Fill(given) + 9
<1>1. /\ m_len \in 0..(BLOCK_SIZE - 1) /\ BLOCK_SIZE \in Nat \ {0} /\ BLOCK_SIZE > 9
      /\ m_tot_len \in Int /\ m_tot_len % BLOCK_SIZE = 0 /\ given = m_tot_len + m_len
  BY Sizes DEF SInv, TypeOK, OpenInv
<1>2. m_len % BLOCK_SIZE = m_len
  <2>1. m_len = BLOCK_SIZE * 0 + m_len /\ m_len \in Int BY <1>1
  <2> QED BY <1>1, <2>1, Remainder
<1>3. CASE m_len <= BLOCK_SIZE - 9
  <2>1. FinalBlocks = 1 BY <1>1, <1>2, <1>3 DEF FinalBlocks
  <2>2. CASE m_len = BLOCK_SIZE - 9
    <3> DEFINE up == given + 9
    <3>1. up = m_tot_len + BLOCK_SIZE /\ up \in Int BY <1>1, <2>2
    <3>2. up % BLOCK_SIZE = 0
      <4> HIDE DEF up
      <4> QED BY <1>1, <3>1, OneBlock, Zenon
    <3>3. Fill(given) = 0 BY <3>2 DEF Fill
    <3> QED BY <1>1, <2>1, <2>2, <3>3
  <2>3. CASE m_len < BLOCK_SIZE - 9
    <3> DEFINE up == given + 9
               over == m_len + 9
    <3>1. up = m_tot_len + over /\ up \in Int /\ over \in Int /\ over # 0
          /\ 0 <= over /\ over < BLOCK_SIZE
      BY <1>1, <2>3
    <3>2. up % BLOCK_SIZE = over
      <4> HIDE DEF up, over
      <4>1. BLOCK_SIZE \in Nat \ {0} /\ m_tot_len \in Int /\ m_tot_len % BLOCK_SIZE = 0
        BY <1>1
      <4>2. up = m_tot_len + over /\ up \in Int /\ over \in Int /\ 0 <= over /\ over < BLOCK_SIZE
        BY <3>1
      <4> QED BY <4>1, <4>2, WholeBlocks
    <3>3. Fill(given) = BLOCK_SIZE - over BY <3>1, <3>2 DEF Fill
    <3> QED BY <1>1, <2>1, <3>3
  <2> QED BY <1>1, <1>3, <2>2, <2>3
<1>4. CASE m_len > BLOCK_SIZE - 9
  <2>1. FinalBlocks = 2 BY <1>1, <1>2, <1>4 DEF FinalBlocks
  <2> DEFINE up   == given + 9
             more == m_tot_len + BLOCK_SIZE
             over == m_len + 9 - BLOCK_SIZE
  <2>2. more \in Int /\ more % BLOCK_SIZE = 0
    <3>1. more = m_tot_len + BLOCK_SIZE /\ more \in Int BY <1>1
    <3> HIDE DEF more
    <3> QED BY <1>1, <3>1, OneBlock, Zenon
  <2>3. up = more + over /\ up \in Int /\ over \in Int /\ over # 0
          /\ 0 <= over /\ over < BLOCK_SIZE
    BY <1>1, <1>4
  <2>4. up % BLOCK_SIZE = over
    <3> HIDE DEF up, more, over
    <3>1. BLOCK_SIZE \in Nat \ {0} BY <1>1
    <3>2. up = more + over /\ up \in Int /\ over \in Int /\ 0 <= over /\ over < BLOCK_SIZE
      BY <2>3
    <3> QED BY <2>2, <3>1, <3>2, WholeBlocks
  <2>5. Fill(given) = BLOCK_SIZE - over BY <2>3, <2>4 DEF Fill
  <2> QED BY <1>1, <2>1, <2>5
<1> QED BY <1>1, <1>3, <1>4

\* The padding goes into the buffer, and the buffer is handed over.
LEMMA FinalStep == ASSUME SInv, Final PROVE SInv'
<1> DEFINE pm_len  == FinalBlocks * BLOCK_SIZE
           len_b   == (m_tot_len + m_len) * 8
           cleared == Written(m_block, m_len, Zeros(pm_len - m_len))
           marked  == Written(cleared, m_len, << Pad(128) >>)
           size    == Unpack32(len_b)
           padded  == Written(marked, pm_len - 4, size)
           front   == SubSeq(padded, 1, pm_len)
           end     == given + Fill(given) + 9
<1>1. /\ state = "open" /\ state' = "final" /\ UNCHANGED << m_len, m_tot_len, given >>
      /\ m_block' = padded /\ m_h' = m_h \o front
  BY DEF Final
<1>2. /\ m_len \in Nat /\ m_tot_len \in Nat /\ BLOCK_SIZE \in Nat /\ given \in Nat
      /\ given = m_tot_len + m_len
  BY <1>1, Sizes DEF SInv, TypeOK, OpenInv
<1>data. /\ m_block \in Buffer /\ m_h \in Seq(Byte) /\ Len(m_h) = m_tot_len
         /\ Handed /\ Waiting
  BY <1>1 DEF SInv, TypeOK, OpenInv, Buffer
<1>3. /\ pm_len \in Nat /\ pm_len <= 2 * BLOCK_SIZE
      /\ pm_len = m_len + Fill(given) + 9 /\ Fill(given) \in Nat
  BY <1>1, <1>2, FinalLength, PaddedFacts
<1>4. len_b = given * 8 /\ len_b \in Nat BY <1>2
<1> HIDE DEF pm_len, len_b
<1>5. /\ cleared \in Buffer
      /\ \A k \in 1..m_len : cleared[k] = m_block[k]
      /\ \A k \in (m_len + 1)..pm_len : cleared[k] = Pad(0)
  <2> DEFINE zero == Zeros(pm_len - m_len)
  <2>1. pm_len - m_len \in Nat BY <1>2, <1>3
  <2>2. /\ zero \in Seq(Byte) /\ Len(zero) = pm_len - m_len
        /\ \A k \in 1..(pm_len - m_len) : zero[k] = Pad(0)
    BY <2>1, ZerosFacts
  <2> HIDE DEF zero
  <2>3. m_len + Len(zero) = pm_len BY <1>2, <1>3, <2>2
  <2>4. /\ cleared \in Buffer
        /\ \A k \in 1..(2 * BLOCK_SIZE) :
             cleared[k] = IF m_len < k /\ k <= m_len + Len(zero) THEN zero[k - m_len]
                                                               ELSE m_block[k]
    <3>1. m_len + Len(zero) <= 2 * BLOCK_SIZE BY <1>3, <2>3
    <3> QED BY <1>2, <1>data, <2>2, <3>1, WrittenFacts DEF zero
  <2> HIDE DEF cleared
  <2>5. ASSUME NEW k \in (m_len + 1)..pm_len PROVE cleared[k] = Pad(0)
    <3>1. k \in 1..(2 * BLOCK_SIZE) /\ k - m_len \in 1..(pm_len - m_len) BY <1>2, <1>3
    <3>2. m_len < k /\ k <= m_len + Len(zero) BY <1>2, <1>3, <2>3
    <3> QED BY <2>2, <2>4, <3>1, <3>2
  <2>6. ASSUME NEW k \in 1..m_len PROVE cleared[k] = m_block[k]
    <3>1. k \in 1..(2 * BLOCK_SIZE) /\ ~(m_len < k) BY <1>2, <1>3
    <3> QED BY <2>4, <3>1
  <2> QED BY <2>4, <2>5, <2>6
<1> HIDE DEF cleared
<1>6. /\ marked \in Buffer
      /\ \A k \in 1..m_len : marked[k] = m_block[k]
      /\ marked[m_len + 1] = Pad(128)
      /\ \A k \in (m_len + 2)..pm_len : marked[k] = Pad(0)
  <2> DEFINE one == << Pad(128) >>
  <2>1. one \in Seq(Byte) /\ Len(one) = 1 /\ one[1] = Pad(128) BY DEF Pad, Byte
  <2> HIDE DEF one
  <2>2. m_len + Len(one) <= 2 * BLOCK_SIZE BY <1>2, <1>3, <2>1
  <2>3. /\ marked \in Buffer
        /\ \A k \in 1..(2 * BLOCK_SIZE) :
             marked[k] = IF m_len < k /\ k <= m_len + Len(one) THEN one[k - m_len] ELSE cleared[k]
    <3>1. marked = Written(cleared, m_len, one) BY DEF one
    <3> HIDE DEF marked
    <3>2. m_len \in Nat /\ cleared \in Buffer BY <1>2, <1>5
    <3> QED BY <2>1, <2>2, <3>1, <3>2, WrittenFacts
  <2> HIDE DEF marked
  <2>4. marked[m_len + 1] = Pad(128)
    <3>1. m_len + 1 \in 1..(2 * BLOCK_SIZE) /\ (m_len + 1) - m_len = 1 BY <1>2, <1>3
    <3>2. m_len < m_len + 1 /\ m_len + 1 <= m_len + Len(one) BY <1>2, <2>1
    <3> QED BY <2>1, <2>3, <3>1, <3>2
  <2>5. ASSUME NEW k \in (m_len + 2)..pm_len PROVE marked[k] = Pad(0)
    <3>1. k \in 1..(2 * BLOCK_SIZE) /\ k \in (m_len + 1)..pm_len BY <1>2, <1>3
    <3> QED BY <1>2, <1>5, <2>1, <2>3, <3>1
  <2> QED BY <1>2, <1>3, <1>5, <2>3, <2>4, <2>5
<1> HIDE DEF marked
<1>7. /\ padded \in Buffer
      /\ \A k \in 1..(pm_len - 4) : padded[k] = marked[k]
      /\ \A k \in (pm_len - 3)..pm_len : padded[k] = size[k - (pm_len - 4)]
  <2>1. size \in Seq(Byte) /\ Len(size) = 4 BY <1>4, UnpackFacts
  <2> HIDE DEF size
  <2>2. pm_len - 4 \in Nat /\ pm_len - 4 + Len(size) <= 2 * BLOCK_SIZE BY <1>2, <1>3, <2>1
  <2>3. /\ padded \in Buffer
        /\ \A k \in 1..(2 * BLOCK_SIZE) :
             padded[k] = IF pm_len - 4 < k /\ k <= pm_len - 4 + Len(size)
                           THEN size[k - (pm_len - 4)] ELSE marked[k]
    <3> DEFINE at == pm_len - 4
    <3> HIDE DEF at
    <3>1. at \in Nat /\ at + Len(size) <= 2 * BLOCK_SIZE BY <2>2 DEF at
    <3>2. Written(marked, at, size) = padded BY DEF at
    <3> HIDE DEF padded
    <3>3. /\ padded \in Buffer
          /\ \A k \in 1..(2 * BLOCK_SIZE) :
               padded[k] = IF at < k /\ k <= at + Len(size) THEN size[k - at] ELSE marked[k]
      <4>1. marked \in Buffer /\ size \in Seq(Byte) BY <1>6, <2>1
      <4> QED BY <3>1, <3>2, <4>1, WrittenFacts, Zenon
    <3> QED BY <3>3 DEF at
  <2> HIDE DEF padded
  <2>4. ASSUME NEW k \in (pm_len - 3)..pm_len PROVE padded[k] = size[k - (pm_len - 4)]
    <3>1. k \in Int /\ pm_len - 4 < k /\ k <= pm_len /\ 0 < k /\ k <= 2 * BLOCK_SIZE
      BY <1>2, <1>3
    <3>2. k \in 1..(2 * BLOCK_SIZE) BY <1>2, <3>1
    <3>3. pm_len - 4 + Len(size) = pm_len BY <1>3, <2>1
    <3> QED BY <2>3, <3>1, <3>2, <3>3
  <2>5. ASSUME NEW k \in 1..(pm_len - 4) PROVE padded[k] = marked[k]
    <3>1. k \in 1..(2 * BLOCK_SIZE) /\ ~(pm_len - 4 < k) BY <1>2, <1>3
    <3> QED BY <2>3, <3>1
  <2> QED BY <2>3, <2>4, <2>5
<1> HIDE DEF padded
<1>8. /\ front \in Seq(Byte) /\ Len(front) = pm_len
      /\ \A k \in 1..pm_len : front[k] = padded[k]
  <2>1. pm_len \in 0..(2 * BLOCK_SIZE) BY <1>3
  <2> QED BY <1>7, <2>1, FrontFacts
<1> HIDE DEF front
<1>9. /\ m_h' \in Seq(Byte) /\ Len(m_h') = end
      /\ \A k \in 1..m_tot_len : m_h'[k] = m_h[k]
      /\ \A k \in (m_tot_len + 1)..end : m_h'[k] = front[k - m_tot_len]
  <2>1. /\ m_h' \in Seq(Byte) /\ Len(m_h') = Len(m_h) + Len(front)
        /\ \A k \in 1..Len(m_h) : m_h'[k] = m_h[k]
        /\ \A k \in (Len(m_h) + 1)..(Len(m_h) + Len(front)) : m_h'[k] = front[k - Len(m_h)]
    BY <1>1, <1>8, <1>data, ConcatFacts
  <2>2. Len(m_h) + Len(front) = end /\ Len(m_h) = m_tot_len BY <1>2, <1>3, <1>8, <1>data
  <2> QED BY <2>1, <2>2
<1>10. /\ Padded(given) \in Seq(Byte) /\ Len(Padded(given)) = end
       /\ \A k \in 1..end : Padded(given)[k] =
            IF k <= given THEN Data(k - 1)
            ELSE IF k = given + 1 THEN Pad(128)
            ELSE IF k <= end - 4 THEN Pad(0)
            ELSE Unpack32(given * 8)[k - (end - 4)]
  BY <1>2, PaddedFacts
<1>11. end = m_tot_len + pm_len /\ end \in Nat BY <1>2, <1>3
<1> HIDE DEF end
<1>12. ASSUME NEW k \in 1..end PROVE m_h'[k] = Padded(given)[k]
  <2>1. CASE k <= m_tot_len
    <3>1. m_h'[k] = Data(k - 1) BY <1>2, <1>9, <1>11, <1>data, <2>1 DEF Handed
    <3> QED BY <1>2, <1>10, <2>1, <3>1
  <2>2. CASE m_tot_len < k
    <3> DEFINE i == k - m_tot_len
    <3>1. /\ i \in 1..pm_len /\ k = m_tot_len + i
          /\ k \in (m_tot_len + 1)..end
      BY <1>2, <1>3, <1>11, <2>2
    <3>2. m_h'[k] = padded[i] BY <1>8, <1>9, <3>1
    <3> HIDE DEF i
    <3>3. CASE i <= m_len
      <4>1. i \in 1..(pm_len - 4) /\ i \in 1..m_len BY <1>2, <1>3, <3>1, <3>3
      <4>2. m_h'[k] = m_block[i] BY <1>6, <1>7, <3>2, <4>1
      <4>3. m_h'[k] = Data(m_tot_len + i - 1) BY <1>data, <4>1, <4>2 DEF Waiting
      <4>4. m_tot_len + i - 1 = k - 1 /\ k <= given BY <1>2, <3>1, <3>3
      <4> QED BY <1>10, <4>3, <4>4
    <3>4. CASE i = m_len + 1
      <4>1. i \in 1..(pm_len - 4) BY <1>2, <1>3, <3>1, <3>4
      <4>2. m_h'[k] = Pad(128) BY <1>6, <1>7, <3>2, <3>4, <4>1
      <4>3. k = given + 1 /\ ~(k <= given) BY <1>2, <3>1, <3>4
      <4> QED BY <1>10, <4>2, <4>3
    <3>5. CASE m_len + 1 < i /\ i <= pm_len - 4
      <4>1. i \in 1..(pm_len - 4) /\ i \in (m_len + 2)..pm_len BY <1>2, <1>3, <3>1, <3>5
      <4>2. m_h'[k] = Pad(0) BY <1>6, <1>7, <3>2, <4>1
      <4>3. ~(k <= given) /\ k # given + 1 /\ k <= end - 4
        BY <1>2, <1>3, <1>11, <3>1, <3>5
      <4> QED BY <1>10, <4>2, <4>3
    <3>6. CASE pm_len - 4 < i
      <4>1. i \in (pm_len - 3)..pm_len BY <1>2, <1>3, <3>1, <3>6
      <4>2. m_h'[k] = size[i - (pm_len - 4)] BY <1>7, <3>2, <4>1
      <4>3. ~(k <= given) /\ k # given + 1 /\ ~(k <= end - 4)
        BY <1>2, <1>3, <1>11, <3>1, <3>6
      <4>4. i - (pm_len - 4) = k - (end - 4) BY <1>2, <1>3, <1>11, <3>1
      <4>5. size = Unpack32(given * 8) BY <1>4
      <4> HIDE DEF size
      <4> QED BY <1>10, <4>2, <4>3, <4>4, <4>5
    <3> QED BY <1>2, <1>3, <3>1, <3>3, <3>4, <3>5, <3>6
  <2> QED BY <1>2, <2>1, <2>2
<1>13. m_h' = Padded(given)
  BY <1>9, <1>10, <1>12, SameElements
<1>14. TypeOK'
  BY <1>1, <1>7, <1>9 DEF SInv, TypeOK, Buffer
<1> QED BY <1>1, <1>13, <1>14 DEF SInv, OpenInv, HashesPadded

LEMMA NextInv == ASSUME SInv, [Next]_vars PROVE SInv'
<1>1. ASSUME NEW len \in Pieces, given + len <= Longest, Update(len) PROVE SInv'
  <2>1. len \in Nat BY Sizes
  <2> QED BY <1>1, <2>1, FitsStep, BlockStep
<1>2. CASE Final BY <1>2, FinalStep
<1>3. CASE UNCHANGED vars
  BY <1>3 DEF vars, SInv, TypeOK, OpenInv, Handed, Waiting, HashesPadded
<1> QED BY <1>1, <1>2, <1>3 DEF Next

THEOREM AlwaysInv == Spec => []SInv
  BY InitInv, NextInv, PTL DEF Spec

\* The buffer is never overrun nor left full, for any pieces (SHA256::update).
THEOREM BufferRight == Spec => []TypeOK
<1>1. SInv => TypeOK BY DEF SInv
<1> QED BY <1>1, AlwaysInv, PTL

\* Every byte of the message is handed over or waits, once and at its place,
\* however the message was cut (SHA256::update).
THEOREM NothingIsLost == Spec => []NothingLost
<1>1. SInv => NothingLost
  <2> SUFFICES ASSUME SInv, state = "open"
               PROVE  /\ m_h \o SubSeq(m_block, 1, m_len) = Message(0, given - 1)
                      /\ Len(m_h) = m_tot_len
                      /\ m_tot_len % BLOCK_SIZE = 0
    BY DEF NothingLost
  <2> DEFINE front == SubSeq(m_block, 1, m_len)
             all == Message(0, given - 1)
  <2>1. /\ m_block \in Buffer /\ m_len \in Nat /\ m_tot_len \in Nat /\ BLOCK_SIZE \in Nat
        /\ m_h \in Seq(Byte) /\ given \in Nat /\ m_len < BLOCK_SIZE
        /\ Len(m_h) = m_tot_len /\ given = m_tot_len + m_len /\ Handed /\ Waiting
        /\ m_tot_len % BLOCK_SIZE = 0
    BY Sizes DEF SInv, TypeOK, OpenInv, Buffer
  <2>2. /\ front \in Seq(Byte) /\ Len(front) = m_len
        /\ \A k \in 1..m_len : front[k] = m_block[k]
    <3>1. m_len \in 0..(2 * BLOCK_SIZE) BY <2>1
    <3> QED BY <2>1, <3>1, FrontFacts
  <2>3. /\ all \in Seq(Byte) /\ Len(all) = given
        /\ \A k \in 1..given : all[k] = Data(k - 1)
    BY <2>1, WholeMessage
  <2> HIDE DEF front, all
  <2>4. /\ m_h \o front \in Seq(Byte) /\ Len(m_h \o front) = Len(m_h) + Len(front)
        /\ \A k \in 1..Len(m_h) : (m_h \o front)[k] = m_h[k]
        /\ \A k \in (Len(m_h) + 1)..(Len(m_h) + Len(front)) :
             (m_h \o front)[k] = front[k - Len(m_h)]
    BY <2>1, <2>2, ConcatFacts
  <2>5. ASSUME NEW k \in 1..given PROVE (m_h \o front)[k] = all[k]
    <3>1. all[k] = Data(k - 1) BY <2>3
    <3>2. CASE k <= m_tot_len BY <2>1, <2>4, <3>1, <3>2 DEF Handed
    <3>3. CASE m_tot_len < k
      <4>1. /\ k - m_tot_len \in 1..m_len /\ m_tot_len + (k - m_tot_len) - 1 = k - 1
            /\ (m_h \o front)[k] = front[k - m_tot_len]
        BY <2>1, <2>2, <2>4, <3>3
      <4> QED BY <2>1, <2>2, <3>1, <4>1 DEF Waiting
    <3>4. k <= m_tot_len \/ m_tot_len < k BY <2>1
    <3> QED BY <3>2, <3>3, <3>4
  <2>6. m_h \o front = all BY <2>1, <2>2, <2>3, <2>4, <2>5, SameElements
  <2> QED BY <2>1, <2>6 DEF front, all
<1> QED BY <1>1, AlwaysInv, PTL

\* What is hashed is the message with the padding of the standard, for any size of
\* a block with room for the length (SHA256::final).
THEOREM AlwaysPadded == Spec => []HashesPadded
<1>1. SInv => HashesPadded BY DEF SInv
<1> QED BY <1>1, AlwaysInv, PTL
=============================================================================
