--------------------------- MODULE AdaptiveTarget ----------------------------
(* The adaptive depth of the jitter buffer: PushPacket's statistics of the *)
(* arrivals and the timers DrainReady keeps on them, at the times the      *)
(* worker's loop gives them.  PlayerPipeline lets this target change at    *)
(* will; here time is modelled and the packets are not.                    *)
EXTENDS Integers, Sequences, FiniteSetsExt, SequencesExt

CONSTANTS
  Window,         \* kVarianceWindowSize
  High, Low,      \* kHighVarianceUs, kLowVarianceUs
  Second,         \* the least time between two increases
  LowTime,        \* how long the variance is low before the target shrinks
  MinSteady, SteadyTarget, MaxSteady, \* min_, _target_ and max_steady_packets
  Poll,           \* poll_timeout
  MaxInterval     \* bound: a longer interval is counted as one of this length

TargetAssumption ==
  /\ {Window, Low, Second, LowTime, Poll, MaxInterval} \subseteq Nat \ {0}
  /\ {High, MinSteady, SteadyTarget, MaxSteady} \subseteq Nat
  /\ Window >= 2 /\ Low <= High /\ Second <= LowTime

VARIABLES
  steady,     \* state_ = PipelineState::Steady
  target,     \* effective_target_
  intervals,  \* arrival_intervals_, the newest first
  since,      \* now - last_arrival_us_; Never before the first arrival
  lowFor,     \* now - low_variance_start_us_; Never if that is 0
  raised,     \* now - last_target_increase_us_; Never if that is 0
  calm        \* history: time since a drain last saw the variance not low

vars == <<steady, target, intervals, since, lowFor, raised, calm>>

Never == -1
Later(age, d, cap) == IF age = Never THEN Never ELSE Min({age + d, cap})

Variance(w) ==
  LET mean == FoldFunction(+, 0, w) \div Len(w)
  IN  FoldFunction(+, 0, [i \in DOMAIN w |-> (w[i] - mean) * (w[i] - mean)])
        \div Len(w)

InitStream ==
  /\ target = SteadyTarget /\ intervals = <<>> /\ steady = FALSE
  /\ since = Never /\ lowFor = Never /\ raised = Never /\ calm = 0

(* Raise, hold, track or shrink; low and up are the ages of the two timers *)
(* at this drain.                                                          *)
\* Mutant: only the first increase is made.
RaisesOnce(up) == up = Never

MayRaise(up) == up = Never \/ up > Second

\* Mutant: an increase leaves the low-variance timer running.
RaiseKeepsTimer(v, low, up) ==
  /\ v > High /\ target < MaxSteady /\ lowFor' = low
  /\ \/ MayRaise(up) /\ target' = target + 1 /\ raised' = 0
     \/ ~MayRaise(up) /\ target' = target /\ raised' = up

Raise(v, low, up) ==
  /\ v > High /\ target < MaxSteady
  /\ \/ MayRaise(up) /\ target' = target + 1 /\ raised' = 0 /\ lowFor' = Never
     \/ ~MayRaise(up) /\ target' = target /\ raised' = up /\ lowFor' = low

Track(v, low, up) ==
  /\ v < Low
  /\ IF low >= LowTime /\ target > MinSteady
     THEN target' = target - 1 /\ lowFor' = Never
     ELSE target' = target /\ lowFor' = Max({low, 0})
  /\ raised' = up

Hold(v, up) ==
  /\ v >= Low /\ (v <= High \/ target >= MaxSteady)
  /\ target' = target /\ lowFor' = Never /\ raised' = up

AdaptTarget(w, d) ==
  LET low == Later(lowFor, d, LowTime)
      up == Later(raised, d, Second + 1)
      v == Variance(w)
  IN  IF steady /\ Len(w) >= 2
      THEN /\ Raise(v, low, up) \/ Track(v, low, up) \/ Hold(v, up)
           /\ calm' = IF v < Low THEN Later(calm, d, LowTime) ELSE 0
      ELSE /\ lowFor' = low /\ raised' = up /\ UNCHANGED target
           /\ calm' = Later(calm, d, LowTime)

\* Enough packets in a row were played at the end of this drain.
MayBecomeSteady == steady' \in {steady, TRUE}

(* One round of the loop that takes d: with a packet of the stream, or     *)
(* without one (time ran out, or it was no packet, or it was stale).       *)
Arrival(d) ==
  LET gap == Later(since, d, MaxInterval)
      w == IF since = Never THEN intervals
           ELSE SubSeq(<<gap>> \o intervals, 1, Min({Window, Len(intervals) + 1}))
  IN  /\ intervals' = w /\ since' = 0
      /\ AdaptTarget(w, d) /\ MayBecomeSteady

Nothing(d) ==
  /\ since' = Later(since, d, MaxInterval) /\ UNCHANGED intervals
  /\ AdaptTarget(intervals, d) /\ MayBecomeSteady

\* A first packet of another stream; a stale one does not count as arrival.
ResetForStream ==
  /\ target' = SteadyTarget /\ intervals' = <<>> /\ steady' = FALSE
  /\ lowFor' = Never /\ raised' = Never /\ calm' = 0
  /\ since' \in {0, Never}

Run(d) == Arrival(d) \/ Nothing(d) \/ ResetForStream

Init == InitStream
Next == \E d \in 0..Poll : Run(d)

\* Time does not stand still.
Fairness == WF_vars(\E d \in 1..Poll : Run(d))

Spec == Init /\ [][Next]_vars /\ Fairness
-----------------------------------------------------------------------------
(* The target shrinks (DrainReady) only when the variance has been low     *)
(* during the last ten seconds but for one: what the rate limit of the     *)
(* increases lets slip cannot be older than the increase that set it.      *)
ShrinksWhenCalm ==
  [][target' < target /\ steady' => calm' >= LowTime - Second]_vars

(* What the comment in DrainReady says: it shrinks after ten seconds of    *)
(* low variance.                                                           *)
(* The code does otherwise.                                                *)
ShrinksAfterTenSeconds ==
  [][target' < target /\ steady' => calm' >= LowTime]_vars

(* A stream whose arrivals stay irregular gets the deepest buffer, and one *)
(* whose arrivals stay regular the shallowest, whatever came before.       *)
Settles(v) == steady /\ Len(intervals) >= 2 /\ v
AdaptsUp ==
  <>[]Settles(Variance(intervals) > High) => <>[](target = MaxSteady)
AdaptsDown ==
  <>[]Settles(Variance(intervals) < Low) => <>[](target = MinSteady)
=============================================================================
