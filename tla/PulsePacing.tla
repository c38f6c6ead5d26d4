---------------------------- MODULE PulsePacing ------------------------------
(* ReadFrame of the PulseAudio capture in time: the server sends fragments *)
(* of the sound, ReadFrame waits without a deadline until a frame is there *)
(* and sleeps until next_tick_.  All times are relative to now.            *)
EXTENDS Integers, Sequences, FiniteSetsExt

CONSTANTS
  Frame,     \* kFrameDuration, in ticks; sound is counted in ticks too
  Fragment,  \* the sound in a fragment
  Ahead,     \* assumed: at most so much sound came before Start set next_tick_
  Jitter,    \* assumed: a fragment is at most this many ticks late
  Late,      \* assumed: ticks the thread is kept from running, in all, from
             \* one moment at which it has nothing to do to the next
  Gaps       \* whether the server leaves sound out: a hole, a suspended sink

PulsePacingAssumption ==
  /\ {Frame, Fragment} \subseteq Nat \ {0}
  /\ {Ahead, Jitter, Late} \subseteq Nat /\ Gaps \in BOOLEAN

VARIABLES
  phase,     \* ticks since the last fragment was complete
  due,       \* ages of the fragments on their way
  readable,  \* the sound the stream holds, in fragments
  pending,   \* pending_
  left,      \* next_tick_ - now
  pc,        \* "read", or "pace" when a frame is complete
  late,      \* the delay of the thread since it last waited or slept
  since      \* ticks since a frame was returned, up to Frame

vars == <<phase, due, readable, pending, left, pc, late, since>>

\* The server sends from when the stream is ready, a little before next_tick_.
Init ==
  /\ phase \in 0..Fragment - 1 /\ readable \in 0..Ahead
  /\ readable * Fragment + phase <= Ahead
  /\ due = <<>> /\ pending = 0 /\ left = 0
  /\ pc = "read" /\ late = 0 /\ since = Frame

Take == pending' = pending - Frame

\* Mutant: the schedule starts anew at each frame.
PacesFromNow == left' = Frame

Paces == left' = left + Frame

ReadFrame ==
  /\ pc = "read"
  /\ \/ /\ pending >= Frame /\ Take
        /\ pc' = "pace" /\ Paces /\ UNCHANGED readable
     \/ /\ pending < Frame /\ readable > 0
        /\ readable' = readable - 1 /\ pending' = pending + Fragment
        /\ UNCHANGED <<pc, left>>
  /\ UNCHANGED <<phase, due, late, since>>

Return ==
  /\ pc = "pace" /\ left <= 0 /\ pc' = "read" /\ since' = 0
  /\ UNCHANGED <<phase, due, readable, pending, left, late>>

\* Neither waiting for sound nor sleeping is a delay of the thread.
Runnable ==
  \/ pc = "read" /\ (pending >= Frame \/ readable > 0)
  \/ pc = "pace" /\ left <= 0

Tick ==
  /\ \A i \in DOMAIN due : due[i] < Jitter
  /\ late' = (IF Runnable THEN late + 1 ELSE 0)
  /\ late' <= Late
  /\ phase' = (phase + 1) % Fragment /\ left' = left - 1 /\ since' = Min({since + 1, Frame})
  /\ LET aged == [i \in DOMAIN due |-> due[i] + 1]
     IN  \/ phase' = 0 /\ due' = Append(aged, 0)
         \/ (phase' = 0 => Gaps) /\ due' = aged
  /\ UNCHANGED <<readable, pending, pc>>

Arrive ==
  /\ due # <<>> /\ due' = Tail(due) /\ readable' = readable + 1
  /\ UNCHANGED <<phase, pending, left, pc, late, since>>

Next == ReadFrame \/ Return \/ Tick \/ Arrive

Spec == Init /\ [][Next]_vars
-----------------------------------------------------------------------------
(* From a server that leaves nothing out, frames are never later than its  *)
(* fragments and the thread's last delay make them, and never early: the   *)
(* delays of a thread that is late again and again do not add up.          *)
OnTime == left \in -(Frame + Fragment + Jitter + Late) .. Frame

(* And the sound waiting here and in the stream stays below such a bound   *)
(* and what was there at the start: what arrives is sent on, at its rate.  *)
BacklogBounded ==
  pending + readable * Fragment <= Ahead + Frame + Fragment + Jitter + Late

(* "Maintain a steady 10 ms frame cadence" (pulse_monitor_capture.cpp:245):*)
(* a thread that is never late does not return two frames at once.         *)
(* The code does otherwise where Gaps is TRUE.                            *)
SteadyCadence == [][Return => since > 0]_vars
=============================================================================
