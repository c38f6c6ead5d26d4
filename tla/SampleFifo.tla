----------------------------- MODULE SampleFifo -----------------------------
(* What SpscRingBuffer promises its two threads: a bounded first-in        *)
(* first-out queue of samples.  A write appends a prefix of the frame it   *)
(* was given, a read removes a prefix of the queue, each at one instant.   *)
EXTENDS Integers, Sequences

CONSTANTS Capacity, FrameSamples, SampleNumbers

VARIABLES queue, next, heard

Frame == [i \in 1..FrameSamples |-> (next + i - 1) % SampleNumbers]

Init == queue = <<>> /\ next = 0 /\ heard = <<>>

Put ==
  \E n \in 0..FrameSamples :
    /\ Len(queue) + n <= Capacity
    /\ queue' = queue \o SubSeq(Frame, 1, n)
    /\ next' = (next + FrameSamples) % SampleNumbers
    /\ UNCHANGED heard

Take ==
  \E n \in 0..Len(queue) :
    /\ heard' = SubSeq(queue, 1, n)
    /\ queue' = SubSeq(queue, n + 1, Len(queue))
    /\ UNCHANGED next

Spec == Init /\ [][Put \/ Take]_<<queue, next, heard>>
=============================================================================
