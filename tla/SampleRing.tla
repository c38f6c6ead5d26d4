----------------------------- MODULE SampleRing -----------------------------
(* The ring between the receive thread (OHAudioSink::SubmitPcm) and the    *)
(* audio callback (OHAudioSink::WriteCallback), one load, sample copy or   *)
(* store per step.  head and tail are size_t counters that wrap.  A sample *)
(* is its number in the submitted stream, modulo SampleNumbers; even ones  *)
(* are left, odd ones right.                                               *)
EXTENDS Integers, Sequences

CONSTANTS
  Requested,      \* kRingCapacitySamples, before it is rounded up
  IndexMod,       \* 2^w for the w bits of size_t
  FrameSamples,   \* samples of one PCM frame, both channels
  Asks,           \* the numbers of samples a callback may ask for
  SampleNumbers   \* the bound on the numbers that name samples

\* Mutant of the constructor: the capacity is not rounded up.
ExactCapacity(v) == v

\* The constructor asks for a power of two because slots are taken with
\* "& mask_", which is "modulo capacity_" for powers of two only.
NextPowerOfTwo(v) ==
  CHOOSE p \in {2^k : k \in 0..v} : v <= p /\ \A k \in 0..v : v <= 2^k => p <= 2^k

Capacity == NextPowerOfTwo(IF Requested < 2 THEN 2 ELSE Requested)

RingAssumption ==
  /\ Requested \in Nat /\ IndexMod \in Nat /\ Capacity < IndexMod
  /\ FrameSamples \in Nat \ {0} /\ Asks \subseteq Nat \ {0}
  /\ SampleNumbers \in Nat /\ SampleNumbers >= Capacity + FrameSamples

VARIABLES
  buf, head, tail,
  next,     \* the number of the first sample of the frame to submit next
  writer,   \* Write: its step, the samples to copy and those copied
  reader,   \* Read: its step, the samples to copy and what it copied
  heard     \* what the last finished callback took from the ring

vars == <<buf, head, tail, next, writer, reader, heard>>

Slots == 0..Capacity - 1
Samples == 0..SampleNumbers - 1
Wrap(i) == i % IndexMod                 \* size_t arithmetic
Slot(i) == Wrap(i) % Capacity           \* i & mask_
Min2(a, b) == IF a <= b THEN a ELSE b
Frame == [i \in 1..FrameSamples |-> (next + i - 1) % SampleNumbers]
Resting == [pc |-> "idle", n |-> 0, i |-> 0]
Waiting == [pc |-> "idle", n |-> 0, out |-> <<>>]

Init ==
  /\ buf = [s \in Slots |-> 0] /\ head = 0 /\ tail = 0 /\ next = 0
  /\ writer = Resting /\ reader = Waiting /\ heard = <<>>

\* Avail: what Read and Available compute.
Avail == Wrap(head - tail)

\* Mutant: one slot stays empty to tell a full ring from an empty one.
FreeButOne == Capacity - 1 - Avail

Free == Capacity - Avail

\* Write loads both indices; from here on it goes by this value of tail.
WriteLoads ==
  /\ writer.pc = "idle"
  /\ writer' = [pc |-> "copy", n |-> Min2(FrameSamples, Free), i |-> 0]
  /\ UNCHANGED <<buf, head, tail, next, reader, heard>>

WriteCopies ==
  /\ writer.pc = "copy" /\ writer.i < writer.n
  /\ buf' = [buf EXCEPT ![Slot(head + writer.i)] = Frame[writer.i + 1]]
  /\ writer' = [writer EXCEPT !.i = @ + 1]
  /\ UNCHANGED <<head, tail, next, reader, heard>>

\* The release store.  SubmitPcm reports a frame that did not fit as
\* refused; the part that did fit stays, the rest is gone.
WritePublishes ==
  /\ writer.pc = "copy" /\ writer.i = writer.n
  /\ head' = Wrap(head + writer.n)
  /\ next' = (next + FrameSamples) % SampleNumbers
  /\ writer' = Resting
  /\ UNCHANGED <<buf, tail, reader, heard>>

\* WriteCallback asks for what the device wants; Read loads both indices.
ReadLoads ==
  /\ reader.pc = "idle"
  /\ \E asked \in Asks :
       reader' = [pc |-> "copy", n |-> Min2(asked, Avail), out |-> <<>>]
  /\ UNCHANGED <<buf, head, tail, next, writer, heard>>

ReadCopies ==
  /\ reader.pc = "copy" /\ Len(reader.out) < reader.n
  /\ reader' = [reader EXCEPT !.out = Append(@, buf[Slot(tail + Len(@))])]
  /\ UNCHANGED <<buf, head, tail, next, writer, heard>>

\* The release store; the rest of the device's buffer is zeroed.
ReadFrees ==
  /\ reader.pc = "copy" /\ Len(reader.out) = reader.n
  /\ tail' = Wrap(tail + reader.n)
  /\ heard' = reader.out
  /\ reader' = Waiting
  /\ UNCHANGED <<buf, head, next, writer>>

Next ==
  \/ WriteLoads \/ WriteCopies \/ WritePublishes
  \/ ReadLoads \/ ReadCopies \/ ReadFrees

Spec == Init /\ [][Next]_vars
-----------------------------------------------------------------------------
(* Type correctness of the ring's fields and of both threads' locals.      *)
TypeOK ==
  /\ buf \in [Slots -> Samples]
  /\ head \in 0..IndexMod - 1 /\ tail \in 0..IndexMod - 1 /\ Avail <= Capacity
  /\ next \in Samples
  /\ writer \in [pc : {"idle", "copy"}, n : 0..FrameSamples, i : 0..FrameSamples]
  /\ reader.pc \in {"idle", "copy"} /\ reader.n \in 0..Capacity
  /\ Len(reader.out) <= reader.n
  /\ heard \in Seq(Samples)

(* Every interleaving of the loads, copies and stores of the two threads   *)
(* implements the queue: no sample is lost, repeated, reordered or read    *)
(* before it is written, across wrap-around and partial writes.            *)
Queue == [i \in 1..Avail |-> buf[Slot(tail + i - 1)]]
Fifo == INSTANCE SampleFifo WITH queue <- Queue
RefinesFifo == Fifo!Spec

(* A frame that only fits in part is cut, but never between the two        *)
(* channels: every callback starts with a left sample, so a full ring does *)
(* not swap left and right (SubmitPcm, WriteCallback).                     *)
ChannelsInStep ==
  \A i \in DOMAIN heard : heard[i] % 2 = (i - 1) % 2
=============================================================================
