---------------------------- MODULE WasapiPacing -----------------------------
(* ReadFrame of the WASAPI capture in time: the engine hands over a packet *)
(* every device period while something plays and none otherwise, possibly  *)
(* late; the thread may be scheduled late; the packets are resampled; and  *)
(* one frame leaves every 10 ms, filled up with silence when audio is      *)
(* missing.  All times are relative to now, so time is not bounded.        *)
EXTENDS Integers, Sequences, FiniteSetsExt

CONSTANTS
  Frame,       \* kFrameDuration, in ticks
  Period,      \* the device period, in ticks
  In, Out,     \* samples in 10 ms at the device's rate and at the output's
  Jitter,      \* assumed: a packet is at most this many ticks late
  Late         \* assumed: ticks the thread is kept from running, in all, from
               \* one moment at which it has nothing to do to the next

PacingAssumption ==
  /\ {Frame, Period, In, Out} \subseteq Nat \ {0}
  /\ {Jitter, Late} \subseteq Nat /\ (Period * In) % Frame = 0

VARIABLES
  phase,       \* ticks since the last period began
  due,         \* ages of the packets the engine has not handed over yet
  queue,       \* packets in the endpoint's buffer
  source, pos, \* source_stereo, and source_position in 1/Out of a sample
  pending,     \* pending_output
  left,        \* next_tick - now
  pc,          \* where ReadFrame is: "read", "check", "poll", "pace", "failed"
  timer, late, \* what is left of Sleep; the delay since the thread last slept
  gap          \* silence filled in since the engine last skipped a period

vars == <<phase, due, queue, source, pos, pending, left, pc, timer, late, gap>>
device == <<phase, due, queue>>

Packet == (Period * In) \div Frame      \* samples in a packet
wait_ms == Max({1, Period \div 2})

Init ==
  /\ phase = 0 /\ due = <<>> /\ queue = 0 /\ source = 0 /\ pos = 0 /\ pending = 0
  /\ left = 0 /\ pc = "read" /\ timer = 0 /\ late = 0 /\ gap = 0

\* One output sample per In of position, while the position is inside; then
\* the samples before the position are dropped.
Generated(src) ==
  IF pos >= src * Out THEN 0 ELSE (src * Out - pos + In - 1) \div In

\* Mutant: what is left of the position is forgotten with each packet.
GenerateRestarts(src) ==
  /\ pending' = pending + Generated(src)
  /\ source' = 0 /\ pos' = 0

GeneratePendingOutput(src) ==
  LET at == pos + Generated(src) * In
      drop == Min({at \div Out, src})
  IN  /\ pending' = pending + Generated(src)
      /\ source' = src - drop /\ pos' = at - drop * Out

PumpCaptureClient ==
  GeneratePendingOutput(source + queue * Packet) /\ queue' = 0

\* Mutant: the schedule starts anew at each frame.
PacesFromNow == left' = Frame

Paces == left' = left + Frame

\* The frame is complete or filled up, and the thread sleeps until next_tick.
Emit(have) ==
  /\ pending' = Max({have, Out}) - Out
  /\ gap' = gap + Max({have, Out}) - have
  /\ pc' = "pace" /\ Paces

\* The loop of ReadFrame: enough is pending, or the client is pumped.
Read ==
  /\ pc = "read" /\ UNCHANGED <<phase, due, timer, late>>
  /\ IF pending >= Out
     THEN Emit(pending) /\ UNCHANGED <<queue, source, pos>>
     ELSE \/ PumpCaptureClient /\ pc' = "check" /\ UNCHANGED <<left, gap>>
          \/ pc' = "failed" /\ UNCHANGED <<queue, source, pos, pending, left, gap>>

Overdue == left <= -Frame

Check ==
  /\ pc = "check" /\ UNCHANGED late
  /\ IF pending >= Out \/ Overdue
     THEN Emit(pending) /\ UNCHANGED timer
     ELSE pc' = "poll" /\ timer' = wait_ms /\ UNCHANGED <<pending, left, gap>>
  /\ UNCHANGED <<device, source, pos>>

Sleeps(at) == pc = at /\ IF at = "poll" THEN timer > 0 ELSE left > 0

WakesFrom(at) ==
  /\ pc = at /\ ~Sleeps(at) /\ pc' = "read"
  /\ UNCHANGED <<device, source, pos, pending, left, timer, late, gap>>

Poll == WakesFrom("poll")

\* sleep_until is over: ReadFrame returns, and is called again.
Return == WakesFrom("pace")

Runnable == pc # "failed" /\ ~Sleeps("poll") /\ ~Sleeps("pace")

\* The engine ends a period: with a packet, or with none when nothing plays.
PeriodEnds(aged) ==
  \/ due' = Append(aged, 0) /\ UNCHANGED gap
  \/ due' = aged /\ gap' = 0

Tick ==
  /\ pc # "failed" /\ \A i \in DOMAIN due : due[i] < Jitter
  /\ late' = (IF Runnable THEN late + 1 ELSE 0)
  /\ late' <= Late
  /\ phase' = (phase + 1) % Period /\ left' = left - 1
  /\ timer' = Max({timer - 1, 0})
  /\ LET aged == [i \in DOMAIN due |-> due[i] + 1]
     IN  IF phase' = 0 THEN PeriodEnds(aged) ELSE due' = aged /\ UNCHANGED gap
  /\ UNCHANGED <<queue, source, pos, pending, pc>>

Deliver ==
  /\ due # <<>> /\ due' = Tail(due) /\ queue' = queue + 1
  /\ UNCHANGED <<phase, source, pos, pending, left, pc, timer, late, gap>>

Next == Read \/ Check \/ Poll \/ Return \/ Tick \/ Deliver

Spec == Init /\ [][Next]_vars
-----------------------------------------------------------------------------
(* A frame is never later than its deadline by more than one poll and the  *)
(* last delay of the thread, and never early, whether the device plays or  *)
(* is silent: the delays of a thread that is late again do not add up.     *)
OnTime == left \in -(Frame + wait_ms + Late) .. Frame

\* Two frames and a packet, and what lateness adds to them, in output samples.
Margin == Out * (2 * Frame + Period + wait_ms + Jitter + Late)

(* The audio waiting here, which is latency, stays below a bound set by    *)
(* the jitter of the device and of the thread, however long the stream     *)
(* runs and at whatever sampling rate: nothing accumulates.  Samples are   *)
(* whole, so that one more may be begun.                                   *)
BacklogBounded == Frame * (pending - 1) <= Margin

(* An endpoint buffer that holds the margin is emptied before it is full,  *)
(* although ReadFrame does not pump while a whole frame is pending.        *)
DeviceNotOverrun == Out * Period * queue - Frame <= Margin

(* While the engine keeps producing, silence is filled in until the stream *)
(* has gained its margin, and then never again.                            *)
SilenceSettles == Frame * (gap - 1) <= Margin
=============================================================================
