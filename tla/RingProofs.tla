----------------------------- MODULE RingProofs -----------------------------
(* The ring behind HarmonyOS' sink, for every capacity, index width, frame *)
(* size and set of callback sizes.                                         *)
EXTENDS MCReceivers, SequenceTheorems, TLAPS

(* What the constructor rounds the capacity up for: slots are the indices  *)
(* modulo the capacity, and an index that wraps must not skip any.         *)
Aligned == Ring!Capacity \in Nat \ {0} /\ IndexMod % Ring!Capacity = 0

-----------------------------------------------------------------------------
(* Remainders.                                                             *)
LEMMA ModSplits ==
  ASSUME NEW m \in Nat \ {0}, NEW a \in Int
  PROVE  a % m \in 0..m - 1 /\ a \div m \in Int /\ a = m * (a \div m) + (a % m)
<1>1. a % m \in 0..m - 1
  OBVIOUS
<1>2. a = m * (a \div m) + (a % m)
  BY Z3
<1> QED
  BY <1>1, <1>2

LEMMA ModIs ==
  ASSUME NEW m \in Nat \ {0}, NEW q \in Int, NEW r \in 0..m - 1
  PROVE  (m * q + r) % m = r
<1> DEFINE p == (m * q + r) \div m
           s == (m * q + r) % m
<1>1. s \in 0..m - 1 /\ p \in Int /\ m * q + r = m * p + s
  BY ModSplits
<1> HIDE DEF p, s
<1>2. q = p
  <2>1. CASE q >= p + 1
    <3>1. m * q >= m * (p + 1)
      BY <1>1, <2>1
    <3> QED
      BY <1>1, <3>1
  <2>2. CASE p >= q + 1
    <3>1. m * p >= m * (q + 1)
      BY <1>1, <2>2
    <3> QED
      BY <1>1, <3>1
  <2> QED
    BY <1>1, <2>1, <2>2
<1> QED
  BY <1>1, <1>2 DEF s

LEMMA ModAdds ==
  ASSUME NEW m \in Nat \ {0}, NEW a \in Int, NEW b \in Int
  PROVE  ((a % m) + b) % m = (a + b) % m
<1> DEFINE q == a \div m
           r == a % m
           p == (r + b) \div m
           s == (r + b) % m
<1>1. q \in Int /\ r \in 0..m - 1 /\ a = m * q + r
  BY ModSplits
<1> HIDE DEF q, r
<1>2. p \in Int /\ s \in 0..m - 1 /\ r + b = m * p + s
  <2> DEFINE y == r + b
  <2>1. y \in Int
    BY <1>1
  <2> HIDE DEF y
  <2>2. y \div m \in Int /\ (y % m) \in 0..m - 1 /\ y = m * (y \div m) + (y % m)
    BY <2>1, ModSplits
  <2> QED
    BY <2>2, Zenon DEF y
<1> HIDE DEF p, s
<1>3. q + p \in Int /\ a + b = m * (q + p) + s
  BY <1>1, <1>2
<1>4. (a + b) % m = s
  BY <1>2, <1>3, ModIs
<1> QED
  BY <1>4 DEF r, s

LEMMA ModSubtracts ==
  ASSUME NEW m \in Nat \ {0}, NEW a \in Int, NEW b \in Int
  PROVE  (b - (a % m)) % m = (b - a) % m
<1> DEFINE q == a \div m
           r == a % m
           p == (b - r) \div m
           s == (b - r) % m
<1>1. q \in Int /\ r \in 0..m - 1 /\ a = m * q + r
  BY ModSplits
<1> HIDE DEF q, r
<1>2. p \in Int /\ s \in 0..m - 1 /\ b - r = m * p + s
  <2> DEFINE y == b - r
  <2>1. y \in Int
    BY <1>1
  <2> HIDE DEF y
  <2>2. y \div m \in Int /\ (y % m) \in 0..m - 1 /\ y = m * (y \div m) + (y % m)
    BY <2>1, ModSplits
  <2> QED
    BY <2>2, Zenon DEF y
<1> HIDE DEF p, s
<1>3. p - q \in Int /\ b - a = m * (p - q) + s
  BY <1>1, <1>2
<1>4. (b - a) % m = s
  BY <1>2, <1>3, ModIs
<1> QED
  BY <1>4 DEF r, s

LEMMA ModOfModulus ==
  ASSUME NEW c \in Nat \ {0}, NEW m \in Nat \ {0}, m % c = 0, NEW x \in Int
  PROVE  (x % m) % c = x % c
<1> DEFINE u == m \div c
           d == x \div m
           r == x % m
           e == r \div c
           s == r % c
<1>1. u \in Int /\ m = c * u
  BY ModSplits
<1>2. d \in Int /\ r \in Int /\ x = m * d + r
  BY ModSplits
<1>3. e \in Int /\ s \in 0..c - 1 /\ r = c * e + s
  BY <1>2, ModSplits
<1> HIDE DEF u, d, r, e, s
<1>4. u * d \in Int /\ m * d = c * (u * d)
  BY <1>1, <1>2
<1>5. (u * d) + e \in Int /\ c * ((u * d) + e) = c * (u * d) + c * e
  BY <1>3, <1>4
<1>6. x = c * ((u * d) + e) + s
  BY <1>2, <1>3, <1>4, <1>5
<1>7. x % c = s
  BY <1>3, <1>5, <1>6, ModIs
<1> QED
  BY <1>7 DEF r, s

LEMMA ModDiffers ==
  ASSUME NEW c \in Nat \ {0}, NEW x \in Int, NEW y \in Int, x < y, y < x + c
  PROVE  x % c # y % c
<1> DEFINE p == x \div c
           q == y \div c
           r == x % c
           s == y % c
<1>1. p \in Int /\ r \in 0..c - 1 /\ x = c * p + r
  BY ModSplits
<1>2. q \in Int /\ s \in 0..c - 1 /\ y = c * q + s
  BY ModSplits
<1> HIDE DEF p, q, r, s
<1>3. SUFFICES ASSUME r = s PROVE FALSE
  BY DEF r, s
<1>4. c * q > c * p /\ c * q < c * p + c
  BY <1>1, <1>2, <1>3
<1>5. CASE q <= p
  <2>1. c * q <= c * p
    BY <1>1, <1>2, <1>5
  <2> QED
    BY <1>1, <1>2, <1>4, <2>1
<1>6. CASE q >= p + 1
  <2>1. c * q >= c * (p + 1)
    BY <1>1, <1>2, <1>6
  <2> QED
    BY <1>1, <1>2, <1>4, <2>1
<1> QED
  BY <1>1, <1>2, <1>5, <1>6
-----------------------------------------------------------------------------
(* Slots and indices.                                                      *)
LEMMA RingConstants ==
  ASSUME Aligned, Ring!RingAssumption
  PROVE  /\ Ring!Capacity \in Nat \ {0} /\ IndexMod \in Nat \ {0}
         /\ Ring!Capacity < IndexMod
         /\ IndexMod % Ring!Capacity = 0
         /\ FrameSamples \in Nat \ {0} /\ Asks \subseteq Nat \ {0}
         /\ SampleNumbers \in Nat \ {0}
BY DEF Aligned, Ring!RingAssumption

LEMMA SlotIs ==
  ASSUME Aligned, Ring!RingAssumption, NEW x \in Int
  PROVE  Ring!Slot(x) = x % Ring!Capacity /\ Ring!Slot(x) \in Ring!Slots
<1>1. Ring!Slot(x) = x % Ring!Capacity
  BY RingConstants, ModOfModulus DEF Ring!Slot, Ring!Wrap
<1>2. x % Ring!Capacity \in 0..Ring!Capacity - 1
  BY RingConstants, ModSplits
<1> QED
  BY <1>1, <1>2 DEF Ring!Slots

\* Fewer than Capacity indices in a row have slots of their own.
LEMMA SlotsDiffer ==
  ASSUME Aligned, Ring!RingAssumption, NEW x \in Int, NEW y \in Int, x < y,
        y < x + Ring!Capacity
  PROVE  Ring!Slot(x) # Ring!Slot(y)
BY RingConstants, SlotIs, ModDiffers

LEMMA SlotWraps ==
  ASSUME Aligned, Ring!RingAssumption, NEW x \in Int, NEW j \in Int
  PROVE  Ring!Slot(Ring!Wrap(x) + j) = Ring!Slot(x + j)
BY RingConstants, ModAdds DEF Ring!Slot, Ring!Wrap

Indices == head \in 0..IndexMod - 1 /\ tail \in 0..IndexMod - 1

LEMMA AvailIs ==
  ASSUME Aligned, Ring!RingAssumption, Indices
  PROVE  Ring!Avail \in 0..IndexMod - 1
<1>1. head - tail \in Int
  BY RingConstants DEF Indices
<1> QED
  BY <1>1, RingConstants, ModSplits DEF Ring!Avail, Ring!Wrap

\* The slots from head on follow those of the queue.
LEMMA HeadFollows ==
  ASSUME Aligned, Ring!RingAssumption, Indices, NEW j \in Int
  PROVE  Ring!Slot(head + j) = Ring!Slot(tail + Ring!Avail + j)
<1>1. head - tail \in Int /\ tail + j \in Int
  BY RingConstants DEF Indices
<1>2. (((head - tail) % IndexMod) + (tail + j)) % IndexMod =
          ((head - tail) + (tail + j)) % IndexMod
  BY <1>1, RingConstants, ModAdds
<1>3. /\ ((head - tail) % IndexMod) + (tail + j) = tail + ((head - tail) % IndexMod) + j
      /\ (head - tail) + (tail + j) = head + j
  BY <1>1, RingConstants, ModSplits DEF Indices
<1> QED
  BY <1>2, <1>3 DEF Ring!Slot, Ring!Wrap, Ring!Avail

LEMMA AvailGrows ==
  ASSUME Aligned, Ring!RingAssumption, Indices, NEW n \in Nat,
        Ring!Avail + n <= Ring!Capacity
  PROVE  Ring!Wrap(Ring!Wrap(head + n) - tail) = Ring!Avail + n
<1>1. head + n \in Int /\ 0 - tail \in Int /\ head - tail \in Int
  BY RingConstants DEF Indices
<1>2. (((head + n) % IndexMod) + (0 - tail)) % IndexMod =
          ((head + n) + (0 - tail)) % IndexMod
  BY <1>1, RingConstants, ModAdds
<1>3. (((head - tail) % IndexMod) + n) % IndexMod = ((head - tail) + n) % IndexMod
  BY <1>1, RingConstants, ModAdds
<1>4. (head + n) + (0 - tail) = (head - tail) + n
  BY RingConstants DEF Indices
<1>5. (head + n) % IndexMod \in 0..IndexMod - 1
  BY <1>1, RingConstants, ModSplits
<1>6. ((head + n) % IndexMod) + (0 - tail) = ((head + n) % IndexMod) - tail
  BY <1>5, RingConstants DEF Indices
<1>7. Ring!Avail + n \in 0..IndexMod - 1
  BY AvailIs, RingConstants
<1>9. (Ring!Avail + n) % IndexMod = Ring!Avail + n
  BY <1>7, RingConstants
<1> QED
  BY <1>2, <1>3, <1>4, <1>6, <1>9 DEF Ring!Wrap, Ring!Avail

LEMMA AvailShrinks ==
  ASSUME Aligned, Ring!RingAssumption, Indices, NEW n \in Nat, n <= Ring!Avail
  PROVE  Ring!Wrap(head - Ring!Wrap(tail + n)) = Ring!Avail - n
<1>1. tail + n \in Int /\ head \in Int /\ head - tail \in Int /\ 0 - n \in Int
  BY RingConstants DEF Indices
<1>2. (head - ((tail + n) % IndexMod)) % IndexMod = (head - (tail + n)) % IndexMod
  BY <1>1, RingConstants, ModSubtracts
<1>3. (((head - tail) % IndexMod) + (0 - n)) % IndexMod =
          ((head - tail) + (0 - n)) % IndexMod
  BY <1>1, RingConstants, ModAdds
<1>4. head - (tail + n) = (head - tail) + (0 - n)
  BY RingConstants DEF Indices
<1>5. Ring!Avail + (0 - n) = Ring!Avail - n /\ Ring!Avail - n \in 0..IndexMod - 1
  BY AvailIs, RingConstants
<1>6. (Ring!Avail - n) % IndexMod = Ring!Avail - n
  BY <1>5, RingConstants
<1> QED
  BY <1>2, <1>3, <1>4, <1>5, <1>6 DEF Ring!Wrap, Ring!Avail
-----------------------------------------------------------------------------
(* While a thread copies, the other one's index may move, but only away    *)
(* from it: the slots it still has to write stay free, and the samples it  *)
(* still has to read stay in the queue.                                    *)
Writing ==
  writer.pc = "copy" =>
    /\ writer.i <= writer.n /\ Ring!Avail + writer.n <= Ring!Capacity
    /\ \A j \in 0..writer.i - 1 : buf[Ring!Slot(head + j)] = Ring!Frame[j + 1]

Reading ==
  /\ reader.out \in Seq(Ring!Samples)
  /\ reader.pc = "copy" =>
       /\ reader.n <= Ring!Avail
       /\ \A j \in 1..Len(reader.out) : reader.out[j] = buf[Ring!Slot(tail + j - 1)]

Readers == [pc : {"idle", "copy"}, n : 0..Ring!Capacity, out : Seq(Ring!Samples)]

RingInv == Ring!TypeOK /\ reader \in Readers /\ Writing /\ Reading

LEMMA FrameIs ==
  ASSUME Aligned, Ring!RingAssumption, next \in Ring!Samples
  PROVE  /\ Ring!Frame \in Seq(Ring!Samples) /\ Len(Ring!Frame) = FrameSamples
         /\ \A i \in 1..FrameSamples :
              Ring!Frame[i] =
                  (next + i - 1) % SampleNumbers /\ Ring!Frame[i] \in Ring!Samples
<1>1. \A i \in 1..FrameSamples : next + i - 1 \in Int /\ (next + i - 1) % SampleNumbers \in 0..SampleNumbers - 1
  <2> TAKE i \in 1..FrameSamples
  <2>1. next + i - 1 \in Int
    BY RingConstants DEF Ring!Samples
  <2> QED
    BY <2>1, RingConstants, ModSplits
<1>2. Ring!Frame \in [1..FrameSamples -> Ring!Samples]
  BY <1>1 DEF Ring!Frame, Ring!Samples
<1>3. \A i \in 1..FrameSamples : Ring!Frame[i] = (next + i - 1) % SampleNumbers
  BY DEF Ring!Frame
<1>4. Ring!Frame \in Seq(Ring!Samples) /\ Len(Ring!Frame) = FrameSamples
  BY <1>2, RingConstants
<1> QED
  BY <1>2, <1>3, <1>4

LEMMA RingStart ==
  ASSUME Aligned, Ring!RingAssumption, Ring!Init
  PROVE  RingInv
<1> USE DEF Ring!Init
<1>1. 0 \in 0..IndexMod - 1 /\ Ring!Avail = 0 /\ 0 \in Ring!Samples /\ Ring!Capacity \in Nat
  <2>1. 0 % IndexMod = 0 /\ head - tail = 0
    BY RingConstants
  <2> QED
    BY <2>1, RingConstants DEF Ring!Avail, Ring!Wrap, Ring!Samples
<1>2. /\ writer \in [pc : {"idle", "copy"}, n : 0..FrameSamples, i : 0..FrameSamples]
      /\ writer.pc = "idle"
  BY RingConstants DEF Ring!Resting
<1>3. reader = [pc |-> "idle", n |-> 0, out |-> <<>>] /\ reader \in Readers
  BY <1>1 DEF Ring!Waiting, Readers
<1>4. buf \in [Ring!Slots -> Ring!Samples]
  BY <1>1
<1>5. Ring!TypeOK
  BY <1>1, <1>2, <1>3, <1>4 DEF Ring!TypeOK
<1> QED
  BY <1>2, <1>3, <1>5 DEF RingInv, Writing, Reading

\* A copied sample goes to a slot of its own, outside the queue.
LEMMA CopyIsOutside ==
  ASSUME Aligned, Ring!RingAssumption, RingInv, Ring!WriteCopies
  PROVE  /\ Ring!Slot(head + writer.i) \in Ring!Slots
         /\ buf' \in [Ring!Slots -> Ring!Samples]
         /\ buf'[Ring!Slot(head + writer.i)] = Ring!Frame[writer.i + 1]
         /\ \A s \in Ring!Slots : s # Ring!Slot(head + writer.i) => buf'[s] = buf[s]
         /\ \A j \in 0..Ring!Avail - 1 : buf'[Ring!Slot(tail + j)] =
                buf[Ring!Slot(tail + j)]
<1> USE DEF RingInv
<1> DEFINE slot == Ring!Slot(head + writer.i)
<1>1. Indices /\ Ring!Avail \in 0..IndexMod - 1 /\ Ring!Avail <= Ring!Capacity
  BY AvailIs DEF Ring!TypeOK, Indices
<1>2. /\ writer.pc = "copy" /\ writer.i \in Nat /\ writer.n \in 0..FrameSamples
      /\ writer.i < writer.n
      /\ Ring!Avail + writer.n <= Ring!Capacity
  BY DEF Ring!WriteCopies, Ring!TypeOK, Writing
<1>3. head \in Int /\ tail \in Int /\ head + writer.i \in Int
  BY <1>1, <1>2, RingConstants DEF Indices
<1>4. slot \in Ring!Slots
  BY <1>3, SlotIs
<1>5. slot = Ring!Slot(tail + Ring!Avail + writer.i)
  BY <1>1, <1>2, HeadFollows
<1> HIDE DEF slot
<1>6. buf' = [buf EXCEPT ![slot] = Ring!Frame[writer.i + 1]]
  BY DEF Ring!WriteCopies, slot
<1>7. Ring!Frame[writer.i + 1] \in Ring!Samples
  BY <1>2, FrameIs, RingConstants DEF Ring!TypeOK
<1>8. /\ buf' \in [Ring!Slots -> Ring!Samples] /\ buf'[slot] = Ring!Frame[writer.i + 1]
      /\ \A s \in Ring!Slots : s # slot => buf'[s] = buf[s]
  BY <1>4, <1>6, <1>7 DEF Ring!TypeOK
<1>9. \A j \in 0..Ring!Avail - 1 : buf'[Ring!Slot(tail + j)] = buf[Ring!Slot(tail + j)]
  <2> TAKE j \in 0..Ring!Avail - 1
  <2>1. /\ tail + j \in Int /\ tail + Ring!Avail + writer.i \in Int
        /\ tail + j < tail + Ring!Avail + writer.i
        /\ tail + Ring!Avail + writer.i < (tail + j) + Ring!Capacity
    BY <1>1, <1>2, <1>3, RingConstants
  <2>2. Ring!Slot(tail + j) # slot /\ Ring!Slot(tail + j) \in Ring!Slots
    BY <1>5, <2>1, SlotsDiffer, SlotIs
  <2> QED
    BY <1>8, <2>2
<1> QED
  BY <1>4, <1>8, <1>9 DEF slot

LEMMA RingWriterKeeps ==
  ASSUME Aligned, Ring!RingAssumption, RingInv,
        Ring!WriteLoads \/ Ring!WriteCopies \/ Ring!WritePublishes
  PROVE  RingInv'
<1> USE DEF RingInv
<1>1. Indices /\ Ring!Avail \in 0..IndexMod - 1 /\ Ring!Avail <= Ring!Capacity
  BY AvailIs DEF Ring!TypeOK, Indices
<1>2. CASE Ring!WriteLoads
  <2>1. UNCHANGED <<buf, head, tail, next, reader, heard>> /\ Ring!Avail' = Ring!Avail
    BY <1>2 DEF Ring!WriteLoads, Ring!Avail, Ring!Wrap
  <2>2. PICK n \in Nat : /\ n <= FrameSamples /\ Ring!Avail + n <= Ring!Capacity
                         /\ writer' = [pc |-> "copy", n |-> n, i |-> 0]
    <3> DEFINE n == Ring!Min2(FrameSamples, Ring!Free)
    <3>1. n \in Nat /\ n <= FrameSamples /\ Ring!Avail + n <= Ring!Capacity
      BY <1>1, RingConstants DEF Ring!Min2, Ring!Free
    <3> QED
      BY <1>2, <3>1 DEF Ring!WriteLoads
  <2>3. writer' \in [pc : {"idle", "copy"}, n : 0..FrameSamples, i : 0..FrameSamples]
    BY <2>2, RingConstants
  <2>4. Ring!TypeOK'
    BY <2>1, <2>3 DEF Ring!TypeOK
  <2>5. Writing'
    BY <2>1, <2>2 DEF Writing
  <2>6. Reading' /\ reader' \in Readers
    BY <2>1 DEF Reading, Ring!Slot, Ring!Wrap
  <2> QED
    BY <2>4, <2>5, <2>6 DEF Ring!Samples, Readers
<1>3. CASE Ring!WriteCopies
  <2> DEFINE slot == Ring!Slot(head + writer.i)
  <2>1. /\ UNCHANGED <<head, tail, next, reader, heard>> /\ Ring!Avail' = Ring!Avail
        /\ Ring!Frame' = Ring!Frame
    BY <1>3 DEF Ring!WriteCopies, Ring!Avail, Ring!Wrap, Ring!Frame
  <2>2. /\ writer.pc = "copy" /\ writer.i \in Nat /\ writer.n \in 0..FrameSamples
        /\ writer.i < writer.n
        /\ Ring!Avail + writer.n <= Ring!Capacity
    BY <1>3 DEF Ring!WriteCopies, Ring!TypeOK, Writing
  <2>3. head \in Int /\ tail \in Int /\ head + writer.i \in Int
    BY <1>1, <2>2, RingConstants DEF Indices
  <2>7. /\ slot \in Ring!Slots /\ buf' \in [Ring!Slots -> Ring!Samples]
        /\ buf'[slot] = Ring!Frame[writer.i + 1]
        /\ \A s \in Ring!Slots : s # slot => buf'[s] = buf[s]
    BY <1>3, CopyIsOutside
  <2> HIDE DEF slot
  <2>8. /\ writer' \in [pc : {"idle", "copy"}, n : 0..FrameSamples, i : 0..FrameSamples]
        /\ writer'.pc = "copy" /\ writer'.n = writer.n /\ writer'.i = writer.i + 1
    <3>1. writer \in [pc : {"idle", "copy"}, n : 0..FrameSamples, i : 0..FrameSamples]
      BY DEF Ring!TypeOK
    <3>2. writer' = [writer EXCEPT !.i = writer.i + 1] /\ writer.i + 1 \in 0..FrameSamples
      BY <1>3, <2>2, RingConstants DEF Ring!WriteCopies
    <3> QED
      BY <2>2, <3>1, <3>2
  <2>9. Ring!TypeOK'
    BY <2>1, <2>7, <2>8 DEF Ring!TypeOK, Ring!Slots, Ring!Samples
  <2>10. \A j \in 0..writer.i : buf'[Ring!Slot(head + j)] = Ring!Frame[j + 1]
    <3> TAKE j \in 0..writer.i
    <3>1. CASE j = writer.i
      BY <2>7, <3>1 DEF slot
    <3>2. CASE j < writer.i
      <4>1. /\ head + j \in Int /\ head + j < head + writer.i
            /\ head + writer.i < (head + j) + Ring!Capacity
        BY <1>1, <2>2, <2>3, <3>2, RingConstants
      <4>2. Ring!Slot(head + j) # slot /\ Ring!Slot(head + j) \in Ring!Slots
        BY <2>3, <4>1, SlotsDiffer, SlotIs DEF slot
      <4> QED
        BY <2>2, <2>7, <3>2, <4>2 DEF Writing
    <3> QED
      BY <2>2, <3>1, <3>2
  <2>11. Writing'
    BY <2>1, <2>2, <2>8, <2>10 DEF Writing, Ring!Slot, Ring!Wrap
  <2>12. \A j \in 0..Ring!Avail - 1 : buf'[Ring!Slot(tail + j)] = buf[Ring!Slot(tail + j)]
    BY <1>3, CopyIsOutside
  <2>13. Reading' /\ reader' \in Readers
    <3>1. reader.out \in Seq(Ring!Samples) /\ Len(reader.out) \in Nat /\ Len(reader.out) <= reader.n
          /\ reader.n \in Nat
      BY RingConstants, LenProperties DEF Reading, Ring!TypeOK
    <3>2. ASSUME reader.pc = "copy", NEW j \in 1..Len(reader.out)
          PROVE  reader.out[j] = buf'[Ring!Slot(tail + j - 1)]
      <4>1. j - 1 \in 0..Ring!Avail - 1 /\ tail + (j - 1) = tail + j - 1
        BY <1>1, <2>3, <3>1, <3>2 DEF Reading
      <4>2. buf'[Ring!Slot(tail + (j - 1))] = buf[Ring!Slot(tail + (j - 1))]
        BY <2>12, <4>1
      <4> QED
        BY <3>2, <4>1, <4>2 DEF Reading
    <3> QED
      BY <2>1, <3>1, <3>2 DEF Reading, Ring!Slot, Ring!Wrap, Ring!Samples
  <2> QED
    BY <2>9, <2>11, <2>13 DEF Readers
<1>4. CASE Ring!WritePublishes
  <2>1. /\ UNCHANGED <<buf, tail, reader, heard>> /\ head' = Ring!Wrap(head + writer.n)
        /\ next' = (next + FrameSamples) % SampleNumbers /\ writer' = Ring!Resting
        /\ writer.n \in Nat /\ Ring!Avail + writer.n <= Ring!Capacity
    BY <1>4 DEF Ring!WritePublishes, Ring!TypeOK, Writing
  <2>2. Ring!Avail' = Ring!Avail + writer.n
    <3>1. Ring!Wrap(Ring!Wrap(head + writer.n) - tail) = Ring!Avail + writer.n
      BY <1>1, <2>1, AvailGrows
    <3> QED
      BY <2>1, <3>1 DEF Ring!Avail, Ring!Wrap
  <2>3. head' \in 0..IndexMod - 1
    <3>1. head + writer.n \in Int
      BY <1>1, <2>1, RingConstants DEF Indices
    <3> QED
      BY <2>1, <3>1, RingConstants, ModSplits DEF Ring!Wrap
  <2>4. next' \in Ring!Samples
    <3>1. next + FrameSamples \in Int
      BY RingConstants DEF Ring!TypeOK, Ring!Samples
    <3> QED
      BY <2>1, <3>1, RingConstants, ModSplits DEF Ring!Samples
  <2>5. /\ writer' \in [pc : {"idle", "copy"}, n : 0..FrameSamples, i : 0..FrameSamples]
        /\ writer'.pc = "idle"
    BY <2>1, RingConstants DEF Ring!Resting
  <2>6. Ring!TypeOK'
    BY <2>1, <2>2, <2>3, <2>4, <2>5 DEF Ring!TypeOK
  <2>7. Reading' /\ reader' \in Readers
    <3>1. reader.n \in Nat
      BY RingConstants DEF Ring!TypeOK
    <3>2. reader.pc = "copy" => reader.n <= Ring!Avail + writer.n
      BY <1>1, <2>1, <3>1, RingConstants DEF Reading
    <3> QED
      BY <2>1, <2>2, <3>2 DEF Reading, Ring!Slot, Ring!Wrap
  <2> QED
    BY <2>5, <2>6, <2>7 DEF Writing
<1> QED
  BY <1>2, <1>3, <1>4

LEMMA RingReaderKeeps ==
  ASSUME Aligned, Ring!RingAssumption, RingInv,
        Ring!ReadLoads \/ Ring!ReadCopies \/ Ring!ReadFrees
  PROVE  RingInv'
<1> USE DEF RingInv
<1>1. Indices /\ Ring!Avail \in 0..IndexMod - 1 /\ Ring!Avail <= Ring!Capacity
  BY AvailIs DEF Ring!TypeOK, Indices
<1>2. CASE Ring!ReadLoads
  <2>1. /\ UNCHANGED <<buf, head, tail, next, writer, heard>>
        /\ Ring!Avail' = Ring!Avail /\ Ring!Frame' = Ring!Frame
    BY <1>2 DEF Ring!ReadLoads, Ring!Avail, Ring!Wrap, Ring!Frame
  <2>2. PICK asked \in Asks : reader' =
                 [pc |-> "copy", n |-> Ring!Min2(asked, Ring!Avail), out |-> <<>>]
    BY <1>2 DEF Ring!ReadLoads
  <2>3. /\ Ring!Min2(asked, Ring!Avail) \in 0..Ring!Capacity
        /\ Ring!Min2(asked, Ring!Avail) <= Ring!Avail
    BY <1>1, RingConstants DEF Ring!Min2
  <2> HIDE DEF Ring!Min2
  <2>4. /\ reader'.pc = "copy" /\ reader'.n \in 0..Ring!Capacity /\ reader'.n <= Ring!Avail
        /\ reader'.out = <<>> /\ reader' \in Readers
    BY <2>2, <2>3 DEF Readers
  <2>5. Ring!TypeOK' /\ Reading'
    BY <2>1, <2>4 DEF Ring!TypeOK, Reading
  <2>6. Writing'
    BY <2>1 DEF Writing, Ring!Slot, Ring!Wrap
  <2> QED
    BY <2>4, <2>5, <2>6 DEF Readers
<1>3. CASE Ring!ReadCopies
  <2>1. /\ UNCHANGED <<buf, head, tail, next, writer, heard>>
        /\ Ring!Avail' = Ring!Avail /\ Ring!Frame' = Ring!Frame
    BY <1>3 DEF Ring!ReadCopies, Ring!Avail, Ring!Wrap, Ring!Frame
  <2> DEFINE sample == buf[Ring!Slot(tail + Len(reader.out))]
  <2>2. /\ reader.pc = "copy" /\ reader \in Readers /\ reader.out \in Seq(Ring!Samples)
        /\ Len(reader.out) \in Nat /\ Len(reader.out) < reader.n
        /\ reader.n \in 0..Ring!Capacity
        /\ reader' = [reader EXCEPT !.out = Append(reader.out, sample)]
    BY <1>3, LenProperties DEF Ring!ReadCopies, Reading, Ring!TypeOK
  <2>3. sample \in Ring!Samples
    <3>1. tail + Len(reader.out) \in Int
      BY <1>1, <2>2, RingConstants DEF Indices
    <3>2. Ring!Slot(tail + Len(reader.out)) \in Ring!Slots
      BY <3>1, SlotIs
    <3> QED
      BY <3>2 DEF Ring!TypeOK
  <2> HIDE DEF sample
  <2>4. /\ Append(reader.out, sample) \in Seq(Ring!Samples)
        /\ Len(Append(reader.out, sample)) = Len(reader.out) + 1
        /\ \A j \in 1..Len(reader.out) : Append(reader.out, sample)[j] = reader.out[j]
        /\ Append(reader.out, sample)[Len(reader.out) + 1] = sample
    BY <2>2, <2>3, AppendProperties
  <2>5. /\ reader' \in Readers /\ reader'.pc = "copy" /\ reader'.n = reader.n
        /\ reader'.out = Append(reader.out, sample)
    BY <2>2, <2>4 DEF Readers
  <2>6. Ring!TypeOK'
    BY <2>1, <2>2, <2>4, <2>5 DEF Ring!TypeOK
  <2>7. \A j \in 1..Len(reader.out) + 1 : reader'.out[j] = buf[Ring!Slot(tail + j - 1)]
    <3> TAKE j \in 1..Len(reader.out) + 1
    <3>1. CASE j = Len(reader.out) + 1
      <4>1. tail + j - 1 = tail + Len(reader.out)
        BY <1>1, <2>2, <3>1, RingConstants DEF Indices
      <4> QED
        BY <2>4, <2>5, <3>1, <4>1 DEF sample
    <3>2. CASE j \in 1..Len(reader.out)
      BY <2>2, <2>4, <2>5, <3>2 DEF Reading
    <3> QED
      BY <2>2, <3>1, <3>2
  <2>8. Reading'
    BY <2>1, <2>2, <2>4, <2>5, <2>7 DEF Reading, Ring!Slot, Ring!Wrap, Ring!Samples
  <2>9. Writing'
    BY <2>1 DEF Writing, Ring!Slot, Ring!Wrap
  <2> QED
    BY <2>5, <2>6, <2>8, <2>9 DEF Readers
<1>4. CASE Ring!ReadFrees
  <2>1. /\ UNCHANGED <<buf, head, next, writer>> /\ tail' = Ring!Wrap(tail + reader.n)
        /\ heard' = reader.out /\ heard' \in Seq(Ring!Samples) /\ reader' = Ring!Waiting
        /\ reader.n \in Nat /\ reader.n <= Ring!Avail
    BY <1>4, RingConstants DEF Ring!ReadFrees, Ring!TypeOK, Reading
  <2>2. Ring!Avail' = Ring!Avail - reader.n
    <3>1. Ring!Wrap(head - Ring!Wrap(tail + reader.n)) = Ring!Avail - reader.n
      BY <1>1, <2>1, AvailShrinks
    <3> QED
      BY <2>1, <3>1 DEF Ring!Avail, Ring!Wrap
  <2>3. tail' \in 0..IndexMod - 1
    <3>1. tail + reader.n \in Int
      BY <1>1, <2>1, RingConstants DEF Indices
    <3> QED
      BY <2>1, <3>1, RingConstants, ModSplits DEF Ring!Wrap
  <2>4. /\ reader'.pc = "idle" /\ reader'.n = 0 /\ reader'.out = <<>>
        /\ 0 \in 0..Ring!Capacity
        /\ reader' \in Readers
    BY <2>1, RingConstants DEF Ring!Waiting, Readers
  <2>5. Ring!Avail - reader.n <= Ring!Capacity
    BY <1>1, <2>1, RingConstants
  <2>6. Ring!TypeOK'
    BY <2>1, <2>2, <2>3, <2>4, <2>5 DEF Ring!TypeOK
  <2>7. Writing'
    <3>1. writer.n \in Nat
      BY DEF Ring!TypeOK
    <3>2. writer.pc = "copy" => (Ring!Avail - reader.n) + writer.n <= Ring!Capacity
      BY <1>1, <2>1, <3>1, RingConstants DEF Writing
    <3> QED
      BY <2>1, <2>2, <3>2 DEF Writing, Ring!Slot, Ring!Wrap, Ring!Frame
  <2> QED
    BY <2>4, <2>6, <2>7 DEF Reading, Readers
<1> QED
  BY <1>2, <1>3, <1>4

LEMMA RingKeeps ==
  ASSUME Aligned, Ring!RingAssumption
  PROVE  RingInv /\ Ring!Next => RingInv'
BY RingWriterKeeps, RingReaderKeeps DEF Ring!Next

-----------------------------------------------------------------------------
(* The queue.  A store of head appends what was copied, a store of tail    *)
(* removes what was read, and nothing else changes the queue.              *)
LEMMA QueueIs ==
  ASSUME Aligned, Ring!RingAssumption, RingInv
  PROVE  /\ Ring!Queue \in Seq(Ring!Samples) /\ Len(Ring!Queue) = Ring!Avail
         /\ \A i \in 1..Ring!Avail : Ring!Queue[i] = buf[Ring!Slot(tail + i - 1)]
<1>1. Indices /\ Ring!Avail \in Nat
  BY AvailIs, RingConstants DEF RingInv, Ring!TypeOK, Indices
<1>2. \A i \in 1..Ring!Avail : buf[Ring!Slot(tail + i - 1)] \in Ring!Samples
  <2> TAKE i \in 1..Ring!Avail
  <2>1. tail + i - 1 \in Int
    BY <1>1, RingConstants DEF Indices
  <2>2. Ring!Slot(tail + i - 1) \in Ring!Slots
    BY <2>1, SlotIs
  <2> QED
    BY <2>2 DEF RingInv, Ring!TypeOK
<1>3. Ring!Queue \in [1..Ring!Avail -> Ring!Samples]
  BY <1>2 DEF Ring!Queue
<1>4. Ring!Queue \in Seq(Ring!Samples) /\ Len(Ring!Queue) = Ring!Avail
  BY <1>1, <1>3
<1> QED
  BY <1>4 DEF Ring!Queue

LEMMA PublishPuts ==
  ASSUME Aligned, Ring!RingAssumption, RingInv, Ring!WritePublishes
  PROVE  Ring!Fifo!Put
<1> DEFINE n == writer.n
           q == Ring!Queue
           p == SubSeq(Ring!Frame, 1, n)
<1>1. Indices /\ Ring!Avail \in Nat /\ head \in Int /\ tail \in Int
  BY AvailIs, RingConstants DEF RingInv, Ring!TypeOK, Indices
<1>2. /\ UNCHANGED <<buf, tail, heard>> /\ head' = Ring!Wrap(head + n)
      /\ next' = (next + FrameSamples) % SampleNumbers
      /\ n \in 0..FrameSamples /\ Ring!Avail + n <= Ring!Capacity
      /\ \A j \in 0..n - 1 : buf[Ring!Slot(head + j)] = Ring!Frame[j + 1]
  BY DEF Ring!WritePublishes, RingInv, Ring!TypeOK, Writing
<1>4. Ring!Avail' = Ring!Avail + n
  <2>1. Ring!Wrap(Ring!Wrap(head + n) - tail) = Ring!Avail + n
    BY <1>1, <1>2, AvailGrows
  <2> QED
    BY <1>2, <2>1 DEF Ring!Avail, Ring!Wrap
<1>5. /\ q \in Seq(Ring!Samples) /\ Len(q) = Ring!Avail
      /\ \A i \in 1..Ring!Avail : q[i] = buf[Ring!Slot(tail + i - 1)]
  BY QueueIs
<1>6. p \in Seq(Ring!Samples) /\ Len(p) = n /\ \A i \in 1..n : p[i] = Ring!Frame[i]
  <2>1. \A i \in 1..n : Ring!Frame[i] \in Ring!Samples
    BY <1>2, FrameIs, RingConstants DEF RingInv, Ring!TypeOK
  <2> QED
    BY <1>2, <2>1, SubSeqProperties
<1>7. q' = [i \in 1..Ring!Avail + n |-> buf[Ring!Slot(tail + i - 1)]]
  BY <1>2, <1>4 DEF Ring!Queue, Ring!Slot, Ring!Wrap
<1> HIDE DEF q, p
<1>8. \A i \in 1..Ring!Avail + n : buf[Ring!Slot(tail + i - 1)] =
          IF i <= Ring!Avail THEN q[i] ELSE p[i - Ring!Avail]
  <2> TAKE i \in 1..Ring!Avail + n
  <2>1. CASE i <= Ring!Avail
    BY <1>1, <1>2, <1>5, <2>1
  <2>2. CASE i > Ring!Avail
    <3> DEFINE j == i - Ring!Avail - 1
    <3>1. /\ j \in 0..n - 1 /\ j + 1 = i - Ring!Avail /\ i - Ring!Avail \in 1..n
          /\ tail + Ring!Avail + j = tail + i - 1
      BY <1>1, <1>2, <2>2
    <3> HIDE DEF j
    <3>2. Ring!Slot(head + j) = Ring!Slot(tail + i - 1)
      BY <1>1, <1>2, <3>1, HeadFollows
    <3> QED
      BY <1>1, <1>2, <1>6, <2>2, <3>1, <3>2
  <2> QED
    BY <1>1, <1>2, <2>1, <2>2
<1>9. q \o p \in Seq(Ring!Samples) /\ Len(q \o p) = Ring!Avail + n
      /\ \A i \in 1..Ring!Avail + n : (q \o p)[i] =
             IF i <= Ring!Avail THEN q[i] ELSE p[i - Ring!Avail]
  <2>1. /\ q \o p \in Seq(Ring!Samples) /\ Len(q \o p) = Len(q) + Len(p)
        /\ \A i \in 1..Len(q) + Len(p) : (q \o p)[i] =
               IF i <= Len(q) THEN q[i] ELSE p[i - Len(q)]
    BY <1>5, <1>6, ConcatProperties
  <2> QED
    BY <1>5, <1>6, <2>1
<1>10. q' = q \o p
  <2>1. q \o p \in [1..Ring!Avail + n -> Ring!Samples]
    BY <1>9, LenProperties
  <2> QED
    BY <1>7, <1>8, <1>9, <2>1
<1> QED
  BY <1>2, <1>5, <1>10 DEF Ring!Fifo!Put, Ring!Fifo!Frame, Ring!Frame, q, p

LEMMA FreeTakes ==
  ASSUME Aligned, Ring!RingAssumption, RingInv, Ring!ReadFrees
  PROVE  Ring!Fifo!Take
<1> DEFINE n == reader.n
           q == Ring!Queue
           p == SubSeq(Ring!Queue, 1, n)
           r == SubSeq(Ring!Queue, n + 1, Len(Ring!Queue))
<1>1. Indices /\ Ring!Avail \in Nat /\ head \in Int /\ tail \in Int
  BY AvailIs, RingConstants DEF RingInv, Ring!TypeOK, Indices
<1>2. /\ UNCHANGED <<buf, head, next>> /\ tail' = Ring!Wrap(tail + n) /\ heard' = reader.out
      /\ n \in 0..Ring!Avail /\ reader.out \in Seq(Ring!Samples) /\ Len(reader.out) = n
      /\ \A j \in 1..n : reader.out[j] = buf[Ring!Slot(tail + j - 1)]
  BY <1>1, RingConstants DEF Ring!ReadFrees, RingInv, Ring!TypeOK, Reading
<1>3. RingInv'
  BY RingReaderKeeps
<1>4. Ring!Avail' = Ring!Avail - n
  <2>1. n \in Nat /\ n <= Ring!Avail
    BY <1>1, <1>2
  <2>2. Ring!Wrap(head - Ring!Wrap(tail + n)) = Ring!Avail - n
    BY <1>1, <2>1, AvailShrinks
  <2> QED
    BY <1>2, <2>2 DEF Ring!Avail, Ring!Wrap
<1>5. /\ q \in Seq(Ring!Samples) /\ Len(q) = Ring!Avail
      /\ \A i \in 1..Ring!Avail : q[i] = buf[Ring!Slot(tail + i - 1)]
  BY QueueIs
<1>6. \A i \in 1..Ring!Avail : q[i] \in Ring!Samples
  BY <1>5
<1>7. p \in Seq(Ring!Samples) /\ Len(p) = n /\ \A i \in 1..n : p[i] = q[i]
  BY <1>1, <1>2, <1>6, SubSeqProperties
<1>8. /\ r \in Seq(Ring!Samples) /\ Len(r) = Ring!Avail - n
      /\ \A i \in 1..Ring!Avail - n : r[i] = q[n + i]
  <2>1. /\ n + 1 \in Int /\ Ring!Avail \in Int
        /\ \A i \in n + 1..Ring!Avail : q[i] \in Ring!Samples
    BY <1>1, <1>2, <1>6
  <2>2. /\ r \in Seq(Ring!Samples)
        /\ Len(r) = IF n + 1 <= Ring!Avail THEN Ring!Avail - (n + 1) + 1 ELSE 0
        /\ \A i \in 1..Ring!Avail - (n + 1) + 1 : r[i] = q[(n + 1) + i - 1]
    BY <1>5, <2>1, SubSeqProperties
  <2> HIDE DEF r, q
  <2>3. Len(r) = Ring!Avail - n /\ Ring!Avail - (n + 1) + 1 = Ring!Avail - n
    BY <1>1, <1>2, <2>2
  <2>4. \A i \in 1..Ring!Avail - n : (n + 1) + i - 1 = n + i
    BY <1>1, <1>2
  <2> QED
    BY <2>2, <2>3, <2>4
<1>9. q' = [i \in 1..Ring!Avail - n |-> buf[Ring!Slot(tail' + i - 1)]]
  BY <1>2, <1>4 DEF Ring!Queue, Ring!Slot, Ring!Wrap
<1> HIDE DEF q, p, r
<1>10. p = reader.out
  <2>1. ASSUME NEW i \in 1..n PROVE p[i] = reader.out[i]
    <3>1. i \in 1..Ring!Avail
      BY <1>1, <1>2
    <3> QED
      BY <1>2, <1>5, <1>7, <3>1
  <2> QED
    BY <1>2, <1>7, <2>1, SeqEqual
<1>11. q' = r
  <2>1. ASSUME NEW i \in 1..Ring!Avail - n PROVE buf[Ring!Slot(tail' + i - 1)] = r[i]
    <3>1. /\ tail + n \in Int /\ i - 1 \in Int /\ tail' + (i - 1) = tail' + i - 1
          /\ (tail + n) + (i - 1) = tail + (n + i) - 1 /\ n + i \in 1..Ring!Avail
      <4>1. tail' \in Int /\ tail \in Int /\ n \in Int /\ i \in Int
        BY <1>1, <1>3, <2>1, RingConstants DEF RingInv, Ring!TypeOK
      <4>2. n + i \in 1..Ring!Avail
        BY <1>1, <1>2, <2>1
      <4> HIDE DEF n
      <4>3. /\ tail + n \in Int /\ i - 1 \in Int /\ tail' + (i - 1) = tail' + i - 1
            /\ (tail + n) + (i - 1) = tail + (n + i) - 1
        BY <4>1
      <4> QED
        BY <4>2, <4>3
    <3>2. Ring!Slot(tail' + i - 1) = Ring!Slot(tail + (n + i) - 1)
      BY <1>2, <3>1, SlotWraps
    <3> QED
      BY <1>5, <1>8, <2>1, <3>1, <3>2
  <2>2. r \in [1..Ring!Avail - n -> Ring!Samples]
    BY <1>8, LenProperties
  <2> QED
    BY <1>9, <2>1, <2>2
<1>12. n \in 0..Len(q)
  BY <1>2, <1>5
<1> QED
  BY <1>2, <1>10, <1>11, <1>12 DEF Ring!Fifo!Take, q, p, r

LEMMA RingImplements ==
  ASSUME Aligned, Ring!RingAssumption, RingInv, Ring!Next
  PROVE  Ring!Fifo!Put \/ Ring!Fifo!Take \/ UNCHANGED <<Ring!Queue, next, heard>>
<1>1. CASE Ring!WriteLoads \/ Ring!ReadLoads \/ Ring!ReadCopies
  BY <1>1
  DEF Ring!WriteLoads, Ring!ReadLoads, Ring!ReadCopies, Ring!Queue, Ring!Avail,
      Ring!Slot, Ring!Wrap
<1>2. CASE Ring!WriteCopies
  <2>1. UNCHANGED <<head, tail, next, heard>> /\ Ring!Avail' = Ring!Avail
    BY <1>2 DEF Ring!WriteCopies, Ring!Avail, Ring!Wrap
  <2>2. \A i \in 1..Ring!Avail : buf'[Ring!Slot(tail + i - 1)] =
            buf[Ring!Slot(tail + i - 1)]
    <3> TAKE i \in 1..Ring!Avail
    <3>1. i - 1 \in 0..Ring!Avail - 1 /\ tail + (i - 1) = tail + i - 1
      BY AvailIs, RingConstants DEF RingInv, Ring!TypeOK, Indices
    <3>2. buf'[Ring!Slot(tail + (i - 1))] = buf[Ring!Slot(tail + (i - 1))]
      BY <1>2, <3>1, CopyIsOutside
    <3> QED
      BY <3>1, <3>2
  <2>3. Ring!Queue' = [i \in 1..Ring!Avail |-> buf'[Ring!Slot(tail + i - 1)]]
    BY <2>1 DEF Ring!Queue, Ring!Slot, Ring!Wrap
  <2> QED
    BY <2>1, <2>2, <2>3 DEF Ring!Queue
<1> QED
  BY <1>1, <1>2, PublishPuts, FreeTakes DEF Ring!Next

-----------------------------------------------------------------------------
(* Left and right.  With whole pairs of samples on every side the queue    *)
(* always begins with a left one.                                          *)
Even(n) == n % 2 = 0

Paired ==
  /\ Even(Ring!Capacity) /\ Even(FrameSamples) /\ Even(SampleNumbers)
  /\ \A asked \in Asks : Even(asked)

InStep ==
  /\ Even(Ring!Avail) /\ Even(next)
  /\ writer.pc = "copy" => Even(writer.n)
  /\ reader.pc = "copy" => Even(reader.n)
  /\ \A j \in 0..Ring!Avail - 1 : buf[Ring!Slot(tail + j)] % 2 = j % 2
  /\ Ring!ChannelsInStep

LEMMA EvenAdds ==
  ASSUME NEW a \in Int, NEW b \in Int, Even(a)
  PROVE  (a + b) % 2 = b % 2 /\ (b - a) % 2 = b % 2
BY DEF Even

LEMMA EvenModulus ==
  ASSUME NEW m \in Nat \ {0}, Even(m), NEW x \in Int
  PROVE  (x % m) % 2 = x % 2
<1>1. 2 \in Nat \ {0} /\ m % 2 = 0
  BY DEF Even
<1> QED
  BY <1>1, ModOfModulus

\* The samples of a frame alternate as their places do.
LEMMA FrameInStep ==
  ASSUME Aligned, Ring!RingAssumption, Paired, next \in Ring!Samples, Even(next),
        NEW j \in 0..FrameSamples - 1
  PROVE  Ring!Frame[j + 1] % 2 = j % 2
<1>1. j + 1 \in 1..FrameSamples /\ next + (j + 1) - 1 = next + j /\ next + j \in Int
  BY RingConstants DEF Ring!Samples
<1>2. Ring!Frame[j + 1] = (next + j) % SampleNumbers
  BY <1>1, FrameIs
<1>3. ((next + j) % SampleNumbers) % 2 = (next + j) % 2
  BY <1>1, RingConstants, EvenModulus DEF Paired
<1>4. (next + j) % 2 = j % 2
  BY RingConstants DEF Even, Ring!Samples
<1> QED
  BY <1>2, <1>3, <1>4

LEMMA InStepStarts ==
  ASSUME Aligned, Ring!RingAssumption, Ring!Init
  PROVE  InStep
<1>1. 0 % IndexMod = 0 /\ head - tail = 0
  BY RingConstants DEF Ring!Init
<1>2. Ring!Avail = 0
  BY <1>1 DEF Ring!Avail, Ring!Wrap
<1> QED
  BY <1>2
  DEF Ring!Init, InStep, Even, Ring!Resting, Ring!Waiting, Ring!ChannelsInStep

LEMMA WriterInStep ==
  ASSUME Aligned, Ring!RingAssumption, Paired, RingInv, InStep,
         Ring!WriteLoads \/ Ring!WriteCopies \/ Ring!WritePublishes
  PROVE  InStep'
<1>1. Indices /\ Ring!Avail \in 0..Ring!Capacity /\ head \in Int /\ tail \in Int
  BY AvailIs, RingConstants DEF RingInv, Ring!TypeOK, Indices
<1>2. CASE Ring!WriteLoads
  <2>1. UNCHANGED <<buf, head, tail, next, reader, heard>> /\ Ring!Avail' = Ring!Avail
        /\ writer'.n = Ring!Min2(FrameSamples, Ring!Free)
    BY <1>2 DEF Ring!WriteLoads, Ring!Avail, Ring!Wrap
  <2>2. Even(Ring!Min2(FrameSamples, Ring!Free))
    BY <1>1, RingConstants DEF Ring!Min2, Ring!Free, Even, Paired, InStep
  <2> QED
    BY <2>1, <2>2 DEF InStep, Even, Ring!Slot, Ring!Wrap, Ring!ChannelsInStep
<1>3. CASE Ring!WriteCopies
  <2>1. UNCHANGED <<head, tail, next, reader, heard>> /\ Ring!Avail' = Ring!Avail
        /\ writer'.n = writer.n /\ writer.pc = "copy"
    BY <1>3 DEF Ring!WriteCopies, Ring!Avail, Ring!Wrap, RingInv, Ring!TypeOK
  <2>2. \A j \in 0..Ring!Avail - 1 : buf'[Ring!Slot(tail + j)] = buf[Ring!Slot(tail + j)]
    BY <1>3, CopyIsOutside
  <2>3. \A j \in 0..Ring!Avail - 1 : buf'[Ring!Slot(tail + j)] % 2 = j % 2
    BY <2>2 DEF InStep
  <2> QED
    BY <2>1, <2>3 DEF InStep, Even, Ring!Slot, Ring!Wrap, Ring!ChannelsInStep
<1>4. CASE Ring!WritePublishes
  <2>1. /\ UNCHANGED <<buf, tail, reader, heard>> /\ head' = Ring!Wrap(head + writer.n)
        /\ next' = (next + FrameSamples) % SampleNumbers /\ writer'.pc = "idle"
        /\ writer.n \in 0..FrameSamples /\ Ring!Avail + writer.n <= Ring!Capacity
        /\ Even(writer.n)
        /\ \A j \in 0..writer.n - 1 : buf[Ring!Slot(head + j)] = Ring!Frame[j + 1]
    BY <1>4
    DEF Ring!WritePublishes, RingInv, Ring!TypeOK, Writing, InStep, Ring!Resting
  <2>2. Ring!Avail' = Ring!Avail + writer.n
    <3>1. Ring!Wrap(Ring!Wrap(head + writer.n) - tail) = Ring!Avail + writer.n
      BY <1>1, <2>1, AvailGrows
    <3> QED
      BY <2>1, <3>1 DEF Ring!Avail, Ring!Wrap
  <2>3. Even(Ring!Avail + writer.n)
    BY <1>1, <2>1, RingConstants DEF InStep, Even
  <2>4. Even(next')
    <3>1. next + FrameSamples \in Int /\ (next + FrameSamples) % 2 = 0
      <4>1. next \in Int /\ FrameSamples \in Int /\ Even(next) /\ FrameSamples % 2 = 0
        BY RingConstants
        DEF RingInv, Ring!TypeOK, Ring!Samples, InStep, Even, Paired
      <4> QED
        BY <4>1, EvenAdds
    <3>2. ((next + FrameSamples) % SampleNumbers) % 2 = (next + FrameSamples) % 2
      BY <3>1, RingConstants, EvenModulus DEF Paired
    <3> QED
      BY <2>1, <3>1, <3>2 DEF Even
  <2>5. \A j \in 0..(Ring!Avail + writer.n) - 1 : buf[Ring!Slot(tail + j)] % 2 = j % 2
    <3> TAKE j \in 0..(Ring!Avail + writer.n) - 1
    <3>1. CASE j < Ring!Avail
      BY <1>1, <3>1 DEF InStep
    <3>2. CASE j >= Ring!Avail
      <4> DEFINE i == j - Ring!Avail
      <4>1. /\ i \in 0..writer.n - 1 /\ i \in 0..FrameSamples - 1
            /\ tail + Ring!Avail + i = tail + j /\ i % 2 = j % 2
        BY <1>1, <2>1, <3>2, RingConstants DEF InStep, Even
      <4> HIDE DEF i
      <4>2. Ring!Slot(head + i) = Ring!Slot(tail + j)
        BY <1>1, <4>1, HeadFollows
      <4>3. Ring!Frame[i + 1] % 2 = i % 2
        BY <4>1, FrameInStep DEF RingInv, Ring!TypeOK, InStep
      <4> QED
        BY <2>1, <4>1, <4>2, <4>3
    <3> QED
      BY <1>1, <2>1, <3>1, <3>2
  <2> QED
    BY <2>1, <2>2, <2>3, <2>4, <2>5
    DEF InStep, Even, Ring!Slot, Ring!Wrap, Ring!ChannelsInStep
<1> QED
  BY <1>2, <1>3, <1>4

LEMMA ReaderInStep ==
  ASSUME Aligned, Ring!RingAssumption, Paired, RingInv, InStep,
         Ring!ReadLoads \/ Ring!ReadCopies \/ Ring!ReadFrees
  PROVE  InStep'
<1>1. Indices /\ Ring!Avail \in 0..Ring!Capacity /\ head \in Int /\ tail \in Int
  BY AvailIs, RingConstants DEF RingInv, Ring!TypeOK, Indices
<1>2. CASE Ring!ReadLoads
  <2>1. UNCHANGED <<buf, head, tail, next, writer, heard>> /\ Ring!Avail' = Ring!Avail
    BY <1>2 DEF Ring!ReadLoads, Ring!Avail, Ring!Wrap
  <2>2. PICK asked \in Asks : reader'.n = Ring!Min2(asked, Ring!Avail)
    BY <1>2 DEF Ring!ReadLoads
  <2>3. Even(Ring!Min2(asked, Ring!Avail))
    BY <1>1, RingConstants DEF Ring!Min2, Even, Paired, InStep
  <2> QED
    BY <2>1, <2>2, <2>3 DEF InStep, Even, Ring!Slot, Ring!Wrap, Ring!ChannelsInStep
<1>3. CASE Ring!ReadCopies
  <2>1. UNCHANGED <<buf, head, tail, next, writer, heard>> /\ Ring!Avail' = Ring!Avail
        /\ reader.pc = "copy" /\ reader'.n = reader.n
    BY <1>3 DEF Ring!ReadCopies, Ring!Avail, Ring!Wrap, RingInv, Readers
  <2> QED
    BY <2>1 DEF InStep, Even, Ring!Slot, Ring!Wrap, Ring!ChannelsInStep
<1>4. CASE Ring!ReadFrees
  <2> DEFINE n == reader.n
  <2>1. /\ UNCHANGED <<buf, head, next, writer>> /\ tail' = Ring!Wrap(tail + n)
        /\ heard' = reader.out /\ reader'.pc = "idle" /\ n \in Nat
        /\ n <= Ring!Avail /\ Even(n)
        /\ Len(reader.out) = n /\ reader.out \in Seq(Ring!Samples)
        /\ \A j \in 1..n : reader.out[j] = buf[Ring!Slot(tail + j - 1)]
    BY <1>4, RingConstants
    DEF Ring!ReadFrees, Ring!Waiting, RingInv, Ring!TypeOK, Reading, InStep
  <2>2. Ring!Avail' = Ring!Avail - n
    <3>1. Ring!Wrap(head - Ring!Wrap(tail + n)) = Ring!Avail - n
      BY <1>1, <2>1, AvailShrinks
    <3> QED
      BY <2>1, <3>1 DEF Ring!Avail, Ring!Wrap
  <2> HIDE DEF n
  <2>3. Even(Ring!Avail - n)
    <3>1. n \in Int /\ Ring!Avail \in Int /\ Even(n) /\ Ring!Avail % 2 = 0
      BY <1>1, <2>1, RingConstants DEF InStep, Even
    <3> QED
      BY <3>1, EvenAdds DEF Even
  <2>4. \A j \in 0..(Ring!Avail - n) - 1 : buf[Ring!Slot(tail' + j)] % 2 = j % 2
    <3> TAKE j \in 0..(Ring!Avail - n) - 1
    <3>ints. n \in Nat /\ n \in Int /\ j \in Int /\ Ring!Avail \in Int /\ Even(n)
      BY <1>1, <2>1, RingConstants
    <3>parity. (n + j) % 2 = j % 2
      BY <3>ints, EvenAdds
    <3>1. /\ n + j \in 0..Ring!Avail - 1 /\ (tail + n) + j = tail + (n + j)
          /\ tail + n \in Int
      BY <1>1, <3>ints
    <3>2. Ring!Slot(tail' + j) = Ring!Slot(tail + (n + j))
      BY <2>1, <3>ints, <3>1, SlotWraps
    <3> QED
      BY <3>parity, <3>1, <3>2 DEF InStep
  <2>5. Ring!ChannelsInStep'
    <3>1. DOMAIN heard' = 1..n
      BY <2>1, LenProperties
    <3>2. ASSUME NEW i \in 1..n PROVE heard'[i] % 2 = (i - 1) % 2
      <4>1. i - 1 \in 0..Ring!Avail - 1 /\ tail + (i - 1) = tail + i - 1
        BY <1>1, <2>1
      <4> QED
        BY <2>1, <4>1 DEF InStep
    <3> QED
      BY <3>1, <3>2 DEF Ring!ChannelsInStep
  <2> QED
    BY <2>1, <2>2, <2>3, <2>4, <2>5 DEF InStep, Even, Ring!Slot, Ring!Wrap
<1> QED
  BY <1>2, <1>3, <1>4

-----------------------------------------------------------------------------
LEMMA RingStarts ==
  ASSUME Aligned
  PROVE  PartsInit => RingInv /\ InStep /\ Ring!Fifo!Init
<1> SUFFICES ASSUME PartsInit PROVE RingInv /\ InStep /\ Ring!Fifo!Init
  OBVIOUS
<1>1. Ring!RingAssumption /\ Ring!Init
  BY PartsAssumption DEF PartsInit
<1>2. RingInv /\ InStep
  BY <1>1, RingStart, InStepStarts
<1>3. Ring!Queue = <<>>
  <2>1. Ring!Queue \in Seq(Ring!Samples) /\ Len(Ring!Queue) = Ring!Avail
    BY <1>1, <1>2, QueueIs
  <2>2. 0 % IndexMod = 0 /\ head - tail = 0
    BY <1>1, RingConstants DEF Ring!Init
  <2> QED
    BY <2>1, <2>2 DEF Ring!Avail, Ring!Wrap
<1> QED
  BY <1>1, <1>2, <1>3 DEF Ring!Fifo!Init, Ring!Init

\* No other part touches the ring.
LEMMA RingSteps ==
  ASSUME [PartsNext]_parts
  PROVE  Ring!Next \/ UNCHANGED ring
BY DEF PartsNext, parts

LEMMA RingRests ==
  ASSUME UNCHANGED ring
  PROVE  /\ RingInv => RingInv'
         /\ InStep => InStep'
         /\ UNCHANGED <<Ring!Queue, next, heard>>
<1> USE DEF ring, Ring!Avail, Ring!Slot, Ring!Wrap
<1>1. RingInv => RingInv'
  BY DEF RingInv, Ring!TypeOK, Readers, Writing, Reading, Ring!Frame, Ring!Samples,
         Ring!Slots
<1>2. InStep => InStep'
  BY DEF InStep, Even, Ring!ChannelsInStep
<1>3. UNCHANGED <<Ring!Queue, next, heard>>
  BY DEF Ring!Queue
<1> QED
  BY <1>1, <1>2, <1>3

(* For every capacity the constructor can choose, every frame and callback *)
(* size and any wrap-around, the two threads, one sample or store at a     *)
(* time, implement one queue: nothing is lost, repeated, reordered or read *)
(* before it is written.                                                   *)
THEOREM RingIsAQueue ==
  ASSUME Aligned
  PROVE  PartsSpec => RingRefinesFifo
<1>1. PartsInit => RingInv /\ Ring!Fifo!Init
  BY RingStarts
<1>2. RingInv /\ [PartsNext]_parts => RingInv'
  BY PartsAssumption, RingSteps, RingRests, RingKeeps
<1>3. RingInv /\ [PartsNext]_parts
        => [Ring!Fifo!Put \/ Ring!Fifo!Take]_<<Ring!Queue, next, heard>>
  BY PartsAssumption, RingSteps, RingRests, RingImplements
<1> QED
  BY <1>1, <1>2, <1>3, PTL
  DEF PartsSpec, RingRefinesFifo, Ring!RefinesFifo, Ring!Fifo!Spec

(* While frames, callbacks and the capacity are whole pairs of samples,    *)
(* left and right are never swapped, however often the ring is full.       *)
THEOREM RingKeepsChannels ==
  ASSUME Aligned, Paired
  PROVE  PartsSpec => []RingChannelsInStep
<1>1. PartsInit => RingInv /\ InStep
  BY RingStarts
<1>2. RingInv /\ InStep /\ [PartsNext]_parts => RingInv' /\ InStep'
  <2> SUFFICES ASSUME RingInv, InStep, [PartsNext]_parts PROVE RingInv' /\ InStep'
    OBVIOUS
  <2>1. CASE UNCHANGED ring
    BY <2>1, RingRests
  <2>2. CASE Ring!Next
    BY <2>2, PartsAssumption, RingKeeps, WriterInStep, ReaderInStep DEF Ring!Next
  <2> QED
    BY <2>1, <2>2, RingSteps
<1>3. InStep => RingChannelsInStep
  BY DEF InStep, RingChannelsInStep
<1> QED
  BY <1>1, <1>2, <1>3, PTL DEF PartsSpec
=============================================================================
