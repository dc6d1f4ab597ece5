------------------------------- MODULE Sha256 -------------------------------
(***************************************************************************)
(* The class SHA256 (src/src/sha256.cpp): how a message given in pieces is *)
(* cut into blocks, padded and handed to transform.                        *)
(*                                                                         *)
(* What transform computes is left out: the digest it keeps in m_h is a    *)
(* function of the blocks it was given, so their bytes, one after the      *)
(* other, stand for it.  A byte of the message is known by its place.      *)
(* The program gives a whole message to one `update' (sha256()); the class *)
(* takes any number of pieces.                                             *)
(***************************************************************************)
EXTENDS Integers, Sequences

CONSTANTS
  BLOCK_SIZE,   \* bytes in a block: SHA224_256_BLOCK_SIZE, 64 in the code
  Pieces,       \* the lengths `update' may be given
  Longest       \* bound on the message

ASSUME Sizes ==
  /\ BLOCK_SIZE \in Nat /\ BLOCK_SIZE > 9
  /\ Pieces \subseteq Nat
  /\ Longest \in 0..(2^28 - 1)

VARIABLES
  m_block,     \* the buffer, two blocks long
  m_len,       \* how much of it is used
  m_tot_len,   \* bytes already handed over
  m_h,         \* ... and which
  given,       \* the length of the message so far
  state        \* "open", "final"

vars == << m_block, m_len, m_tot_len, m_h, given, state >>

\* A byte of the message, or one the padding makes.
Data(i) == [kind |-> "data", value |-> i]
Pad(v)  == [kind |-> "pad", value |-> v]

Byte == [kind : {"data", "pad"}, value : Nat]

\* The message from its byte i to its byte j.
Message(i, j) == [k \in 1..(j - i + 1) |-> Data(i + k - 1)]

\* Zeros.
Zeros(count) == [k \in 1..count |-> Pad(0)]

\* A write into the buffer at offset `at' (memcpy).
Written(buffer, at, bytes) ==
  [k \in 1..Len(buffer) |->
     IF k \in (at + 1)..(at + Len(bytes)) THEN bytes[k - at] ELSE buffer[k]]

\* SHA2_UNPACK32: the 32 bits of a length, the most significant byte first.
Unpack32(v) ==
  << Pad((v \div 2^24) % 256), Pad((v \div 2^16) % 256), Pad((v \div 2^8) % 256), Pad(v % 256) >>

Init ==
  /\ m_block = Zeros(2 * BLOCK_SIZE)
  /\ m_len = 0
  /\ m_tot_len = 0
  /\ m_h = << >>
  /\ given = 0
  /\ state = "open"

\* mutant of Fits: a full buffer waits too.
FitsFull(len) == m_len + len <= BLOCK_SIZE

\* The block is not complete yet.
Fits(len) == m_len + len < BLOCK_SIZE

\* mutant of First: what the buffer holds is not counted.
FirstOfEmpty(len) == IF len < BLOCK_SIZE THEN len ELSE BLOCK_SIZE

\* The bytes that go into the buffer: rem_len, the first time it is set.
First(len) == IF len < BLOCK_SIZE - m_len THEN len ELSE BLOCK_SIZE - m_len

\* The next len bytes of the message.  What does not fill a block waits in the
\* buffer; else that block, then the whole blocks of the rest, are handed over.
Update(len) ==
  LET filled   == Written(m_block, m_len, Message(given, given + First(len) - 1))
      new_len  == len - First(len)
      block_nb == new_len \div BLOCK_SIZE
      shifted  == given + First(len)
      after    == shifted + block_nb * BLOCK_SIZE
      rem_len  == new_len % BLOCK_SIZE
  IN
  /\ state = "open"
  /\ given' = given + len
  /\ IF Fits(len)
       THEN /\ m_block' = filled
            /\ m_len' = m_len + len
            /\ UNCHANGED << m_tot_len, m_h >>
       ELSE /\ m_h' = m_h \o SubSeq(filled, 1, BLOCK_SIZE) \o Message(shifted, after - 1)
            /\ m_block' = Written(filled, 0, Message(after, after + rem_len - 1))
            /\ m_len' = rem_len
            /\ m_tot_len' = m_tot_len + (block_nb + 1) * BLOCK_SIZE
  /\ UNCHANGED state

\* mutant of FinalBlocks: the length has no room when 56 bytes are left over.
FinalBlocksLate == 1 + (IF BLOCK_SIZE - 8 < m_len % BLOCK_SIZE THEN 1 ELSE 0)

\* The buffer and its padding take one block, or two.
FinalBlocks == 1 + (IF BLOCK_SIZE - 9 < m_len % BLOCK_SIZE THEN 1 ELSE 0)

\* Zeros, a one bit after the message, and its length in bits.
Final ==
  LET pm_len  == FinalBlocks * BLOCK_SIZE
      len_b   == (m_tot_len + m_len) * 8   \* no overflow: see Sizes
      cleared == Written(m_block, m_len, Zeros(pm_len - m_len))
      marked  == Written(cleared, m_len, << Pad(128) >>)
      padded  == Written(marked, pm_len - 4, Unpack32(len_b))
  IN
  /\ state = "open"
  /\ m_block' = padded
  /\ m_h' = m_h \o SubSeq(padded, 1, pm_len)
  /\ state' = "final"
  /\ UNCHANGED << m_len, m_tot_len, given >>

Next ==
  \/ \E len \in Pieces : given + len <= Longest /\ Update(len)
  \/ Final

Spec == Init /\ [][Next]_vars

-----------------------------------------------------------------------------

TypeOK ==
  /\ m_block \in [1..(2 * BLOCK_SIZE) -> Byte]
  /\ m_len \in 0..(BLOCK_SIZE - 1)
  /\ m_tot_len \in Nat
  /\ m_h \in Seq(Byte)
  /\ given \in 0..Longest
  /\ state \in {"open", "final"}

\* However the message is cut into pieces, what was handed over and what waits in
\* the buffer make the message, none of it twice, and the counts agree with it.
NothingLost ==
  state = "open" =>
    /\ m_h \o SubSeq(m_block, 1, m_len) = Message(0, given - 1)
    /\ Len(m_h) = m_tot_len
    /\ m_tot_len % BLOCK_SIZE = 0

\* FIPS 180-4, 5.1.1: a one bit, the fewest zeros that leave 8 bytes of a block for
\* the length in bits (its upper half is 0 for all messages shorter than 2^29).
Padded(length) ==
  LET used == (length + 9) % BLOCK_SIZE
  IN Message(0, length - 1) \o << Pad(128) >>
       \o Zeros((IF used = 0 THEN 0 ELSE BLOCK_SIZE - used) + 4) \o Unpack32(length * 8)

\* What is hashed is the padded message of the standard, at every length around
\* the end of a block and whatever the buffer held before.
HashesPadded == state = "final" => m_h = Padded(given)
=============================================================================
