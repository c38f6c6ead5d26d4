------------------------ MODULE PlayerPipelineProofs ------------------------
(***************************************************************************)
(* Theorems about PlayerPipeline, for every value of its constants.        *)
(*                                                                         *)
(* The inductive invariant IInv adds two facts to what the theorems state: *)
(* Ahead, the part of Window that the size bound follows from, and         *)
(* Settling, which bounds the run of successes that ends the FastLock      *)
(* state.                                                                  *)
(***************************************************************************)
EXTENDS PlayerPipeline, WellFoundedInduction, FiniteSetTheorems, TLAPS

Ahead == \A s \in buffer : expected <= s /\ s <= expected + MaxWindow

Settling == state = "FastLock" => consecutive < SteadyAfter

IInv == TypeOK /\ Ahead /\ Accounting /\ Settling

-----------------------------------------------------------------------------
(* Every non-empty set of naturals has a least element.                    *)
LEMMA LeastExists ==
  ASSUME NEW S \in SUBSET Nat, S # {}
  PROVE  \E x \in S : \A y \in S : x <= y
<1> DEFINE R == OpToRel(<, Nat)
<1>1. IsWellFoundedOn(R, Nat)
  BY NatLessThanWellFounded
<1>2. \A x, y \in S : y < x => <<y, x>> \in R
  BY DEF OpToRel
<1> HIDE DEF R
<1>3. PICK x \in S : \A y \in S : ~ (<<y, x>> \in R)
  BY <1>1, WFMin
<1>4. \A y \in S : ~ (y < x)
  BY <1>2, <1>3, Zenon
<1>5. \A y \in S : x <= y
  BY <1>4
<1> QED
  BY <1>5

(* Every non-empty bounded set of naturals has a greatest element.         *)
LEMMA GreatestExists ==
  ASSUME NEW S \in SUBSET Nat, S # {}, NEW n \in Nat, \A x \in S : x <= n
  PROVE  \E x \in S : \A y \in S : y <= x
<1> DEFINE T == {n - x : x \in S}
<1>1. T \in SUBSET Nat
  OBVIOUS
<1>2. T # {}
  OBVIOUS
<1> HIDE DEF T
<1>3. PICK t \in T : \A y \in T : t <= y
  BY <1>1, <1>2, LeastExists
<1>4. PICK x \in S : t = n - x
  BY DEF T
<1>5. \A y \in S : n - x <= n - y
  BY <1>3, <1>4 DEF T
<1> QED
  BY <1>5

(* OldestSequence and NewestSequence are the ends of a non-empty buffer.   *)
LEMMA OldestIsLeast ==
  ASSUME NEW S \in SUBSET Seqs, S # {}
  PROVE  /\ OldestSequence(S) \in S
         /\ \A t \in S : OldestSequence(S) <= t
<1>1. S \in SUBSET Nat
  BY JitterAssumption DEF Seqs
<1>2. \E x \in S : \A y \in S : x <= y
  BY <1>1, LeastExists
<1> QED
  BY <1>2 DEF OldestSequence

LEMMA NewestIsGreatest ==
  ASSUME NEW S \in SUBSET Seqs, S # {}
  PROVE  /\ NewestSequence(S) \in S
         /\ \A t \in S : t <= NewestSequence(S)
<1>1. S \in SUBSET Nat /\ \A x \in S : x <= MaxSeq
  BY JitterAssumption DEF Seqs
<1>2. \E x \in S : \A y \in S : y <= x
  BY <1>1, JitterAssumption, GreatestExists
<1> QED
  BY <1>2 DEF NewestSequence

(* A buffer confined to an interval has at most the interval's size.       *)
LEMMA SizeInInterval ==
  ASSUME NEW S, NEW a \in Nat, NEW b \in Nat, S \subseteq a .. b, a <= b
  PROVE  /\ IsFiniteSet(S)
         /\ Size(S) \in Nat
         /\ Size(S) <= b - a + 1
<1>1. IsFiniteSet(a .. b) /\ Cardinality(a .. b) = b - a + 1
  BY FS_Interval
<1>2. IsFiniteSet(S) /\ Cardinality(S) <= Cardinality(a .. b)
  BY <1>1, FS_Subset
<1>3. Cardinality(S) \in Nat
  BY <1>2, FS_CardinalityType
<1> QED
  BY <1>1, <1>2, <1>3 DEF Size

(* The window bounds the number of buffered packets.                       *)
LEMMA WindowBoundsSize ==
  ASSUME TypeOK, Ahead
  PROVE  IsFiniteSet(buffer) /\ Size(buffer) \in Nat /\ Size(buffer) <= MaxWindow + 1
<1>1. /\ expected \in Nat /\ expected + MaxWindow \in Nat
      /\ expected <= expected + MaxWindow
      /\ buffer \subseteq expected .. (expected + MaxWindow)
  BY JitterAssumption DEF TypeOK, NumbersOK, Ahead, Seqs
<1>2. /\ IsFiniteSet(buffer) /\ Size(buffer) \in Nat
      /\ Size(buffer) <= (expected + MaxWindow) - expected + 1
  BY <1>1, SizeInInterval
<1> QED
  BY <1>1, <1>2, JitterAssumption

(* A buffer with at least one packet's worth of Cardinality is not empty.  *)
LEMMA DeepNotEmpty ==
  ASSUME NEW S, NEW n \in Nat \ {0}, Size(S) >= n
  PROVE  S # {}
BY FS_EmptySet DEF Size

(* FastLock moves the playhead forward or leaves it: since more packets    *)
(* are buffered than StartupLead, the newest is at least StartupLead ahead *)
(* of the playhead, and neither the sum nor the difference wraps.          *)
LEMMA FastLockForward ==
  ASSUME TypeOK, Ahead, FastLock
  PROVE  /\ expected' \in Seqs
         /\ expected <= expected'
         /\ skipped' = skipped + (expected' - expected)
<1> DEFINE newest == NewestSequence(buffer)
<1>1. buffer \in SUBSET Seqs /\ buffer # {}
  BY DeepNotEmpty, PipelineAssumption DEF TypeOK, NumbersOK, FastLock, FastLockReady
<1>2. newest \in buffer /\ \A t \in buffer : t <= newest
  BY <1>1, NewestIsGreatest
<1> HIDE DEF newest
<1>3. newest \in Nat /\ newest <= MaxSeq /\ expected \in Nat /\ expected <= newest
  BY <1>1, <1>2, JitterAssumption DEF TypeOK, NumbersOK, Seqs, Ahead
<1>4. buffer \subseteq expected .. newest
  BY <1>1, <1>2, <1>3 DEF Ahead, Seqs
<1>5. Size(buffer) <= newest - expected + 1 /\ Size(buffer) \in Nat
  BY <1>3, <1>4, SizeInInterval
<1>6. expected + StartupLead <= newest
  BY <1>3, <1>5, PipelineAssumption DEF FastLock, FastLockReady
<1>7. Plus(expected, StartupLead) = expected + StartupLead
  BY <1>3, <1>6, PipelineAssumption, JitterAssumption DEF Plus
<1>8. Minus(newest, StartupLead) = newest - StartupLead
  BY <1>3, <1>6, PipelineAssumption DEF Minus
<1>9. /\ expected' = IF newest > Plus(expected, StartupLead)
                     THEN Minus(newest, StartupLead) ELSE expected
      /\ skipped' = skipped + Minus(expected', expected)
  BY Zenon DEF FastLock, newest
<1>10. expected' \in Nat /\ expected <= expected' /\ expected' <= MaxSeq
  BY <1>3, <1>7, <1>8, <1>9, PipelineAssumption, JitterAssumption
<1>11. Minus(expected', expected) = expected' - expected
  BY <1>3, <1>10 DEF Minus
<1> QED
  BY <1>9, <1>10, <1>11, JitterAssumption DEF Seqs

-----------------------------------------------------------------------------
(* The configured depth lies within the bounds of the adaptive one.        *)
LEMMA SteadyTargetInRange == SteadyTarget \in LowTarget .. HighTarget
BY PipelineAssumption DEF LowTarget, HighTarget

LEMMA InitIInv == Init => IInv
<1> SUFFICES ASSUME Init PROVE IInv
  OBVIOUS
<1> USE JitterAssumption, PipelineAssumption DEF Init
<1>1. FlagsOK
  BY DEF FlagsOK
<1>2. NumbersOK
  BY SteadyTargetInRange DEF NumbersOK, Seqs
<1>3. Ahead /\ Accounting /\ Settling
  BY DEF Ahead, Accounting, Settling
<1> QED
  BY <1>1, <1>2, <1>3 DEF IInv, TypeOK

LEMMA PushIInv ==
  ASSUME IInv, NEW id \in Streams, NEW s \in Seqs, NEW stale \in StaleOptions,
         PushPacket(id, s, stale)
  PROVE  IInv'
<1> USE JitterAssumption, PipelineAssumption DEF IInv
<1>1. stale \in BOOLEAN
  BY DEF StaleOptions
<1>2. CASE stream # id
  <2>1. /\ ResetForStream(id, s)
        /\ buffer' = {} \/ buffer' = {s}
        /\ arrivals' \in 0 .. 3
        /\ received' = received + 1
        /\ UNCHANGED <<late, pc, catchup, lost, failures, skipped>>
    BY <1>2, <1>1 DEF PushPacket, Push, Accepts, counters
  <2>2. FlagsOK' /\ NumbersOK'
    <3>1. FlagsOK'
      BY <2>1 DEF TypeOK, FlagsOK, ResetForStream
    <3>2. NumbersOK'
      BY <2>1, SteadyTargetInRange DEF TypeOK, NumbersOK, ResetForStream
    <3> QED
      BY <3>1, <3>2
  <2>3. Ahead'
    BY <2>1 DEF Ahead, ResetForStream, Seqs
  <2>4. Accounting'
    BY <2>1 DEF Accounting, ResetForStream, TypeOK, NumbersOK, Seqs
  <2>5. Settling'
    BY <2>1 DEF Settling, ResetForStream
  <2> QED
    BY <2>2, <2>3, <2>4, <2>5 DEF TypeOK
<1>3. CASE stream = id
  <2>1. /\ UNCHANGED <<stream, expected, primed, state, consecutive, target,
                       origin, baseline, played, wrapped>>
        /\ buffer' = buffer \/ buffer' = Push(buffer, s, expected)
        /\ arrivals' \in {arrivals, arrivals + 1}
        /\ arrivals < 3 \/ arrivals' = arrivals
        /\ received' = received + 1
        /\ UNCHANGED <<late, pc, catchup, lost, failures, skipped>>
    BY <1>3, <1>1 DEF PushPacket, KeepStream, counters, history
  <2>2. /\ buffer' \in SUBSET Seqs
        /\ \A t \in buffer' : t \in buffer \/ (expected <= t /\ t <= expected + MaxWindow)
    BY <2>1 DEF Push, Accepts, TypeOK, NumbersOK
  <2>3. TypeOK'
    <3>1. FlagsOK'
      BY <2>1 DEF TypeOK, FlagsOK
    <3>2. NumbersOK'
      BY <2>1, <2>2 DEF TypeOK, NumbersOK
    <3> QED
      BY <3>1, <3>2 DEF TypeOK
  <2>4. Ahead'
    BY <2>1, <2>2 DEF Ahead
  <2>5. Accounting' /\ Settling'
    BY <2>1 DEF Accounting, Settling
  <2> QED
    BY <2>3, <2>4, <2>5
<1> QED
  BY <1>2, <1>3

(* Arithmetic on a pair of named integers.                                 *)
LEMMA ForwardIsNat ==
  ASSUME NEW a \in Int, NEW b \in Int, a <= b
  PROVE  b - a \in Nat
OBVIOUS

(* The playhead and the counters move by the same amount: that is all      *)
(* Accounting needs.                                                       *)
LEMMA AccountingMoves ==
  ASSUME TypeOK, Accounting, NEW n \in Int,
         expected' \in Int, wrapped' \in Int, played' \in Int,
         lost' + failures' + skipped' \in Int,
         expected' + wrapped' = expected + wrapped + n,
         played' + (lost' + failures' + skipped') = played + (lost + failures + skipped) + n,
         origin' = origin, baseline' = baseline
  PROVE  Accounting'
<1> DEFINE c  == lost + failures + skipped
           e1 == expected'
           w1 == wrapped'
           p1 == played'
           c1 == lost' + failures' + skipped'
<1>1. /\ expected \in Int /\ wrapped \in Int /\ origin \in Int /\ baseline \in Int
      /\ played \in Int /\ c \in Int
  BY JitterAssumption DEF TypeOK, NumbersOK, Seqs
<1>2. e1 \in Int /\ w1 \in Int /\ p1 \in Int /\ c1 \in Int
  OBVIOUS
<1>3. expected + wrapped + baseline = origin + played + c
  BY DEF Accounting
<1>4. e1 + w1 = expected + wrapped + n /\ p1 + c1 = played + c + n
  OBVIOUS
<1> HIDE DEF c, e1, w1, p1, c1
<1>5. e1 + w1 + baseline = origin + p1 + c1
  BY <1>1, <1>2, <1>3, <1>4
<1> QED
  BY <1>5 DEF Accounting, e1, w1, p1, c1

LEMMA StartDrainIInv ==
  ASSUME IInv, StartDrain
  PROVE  IInv'
<1> USE JitterAssumption, PipelineAssumption DEF IInv
<1>1. /\ UNCHANGED <<stream, state, consecutive, arrivals, late, catchup, received,
                     lost, failures, origin, baseline, played, wrapped>>
      /\ pc' = "loop"
      /\ primed' \in BOOLEAN
  BY DEF StartDrain, FastLock, PrimeSteady, AlreadyPrimed, history, TypeOK, FlagsOK
<1>2. /\ expected' \in Seqs
      /\ expected <= expected'
      /\ skipped' = skipped + (expected' - expected)
  <2>1. CASE FastLock
    BY <2>1, FastLockForward
  <2>2. CASE PrimeSteady \/ AlreadyPrimed
    BY <2>2 DEF PrimeSteady, AlreadyPrimed, TypeOK, NumbersOK, Seqs
  <2> QED
    BY <2>1, <2>2 DEF StartDrain
<1>3. buffer' \in SUBSET buffer /\ \A t \in buffer' : expected' <= t
  <2>1. CASE FastLock
    BY <2>1 DEF FastLock, DiscardBefore
  <2>2. CASE PrimeSteady \/ AlreadyPrimed
    BY <2>2 DEF PrimeSteady, AlreadyPrimed, Ahead
  <2> QED
    BY <2>1, <2>2 DEF StartDrain
<1>4. target' \in LowTarget .. HighTarget
  BY DEF StartDrain, AdaptTarget, TypeOK, NumbersOK, LowTarget, HighTarget
<1>5. FlagsOK'
  BY <1>1 DEF TypeOK, FlagsOK
<1>6. NumbersOK'
  <2>1. skipped' \in Nat
    <3>1. expected \in Int /\ expected' \in Int
      BY <1>2 DEF TypeOK, NumbersOK, Seqs
    <3>2. expected' - expected \in Nat
      BY <1>2, <3>1, ForwardIsNat
    <3> QED
      BY <1>2, <3>2 DEF TypeOK, NumbersOK
  <2>2. buffer' \in SUBSET Seqs
    BY <1>3 DEF TypeOK, NumbersOK
  <2> QED
    BY <1>1, <1>2, <1>4, <2>1, <2>2 DEF TypeOK, NumbersOK
<1>7. Ahead'
  <2>1. /\ expected \in Nat /\ expected' \in Nat /\ MaxWindow \in Nat
        /\ \A t \in buffer : t \in Nat
    BY <1>2 DEF TypeOK, NumbersOK, Seqs
  <2>2. \A t \in buffer : t <= expected + MaxWindow
    BY DEF Ahead
  <2>3. \A t \in buffer : t <= expected' + MaxWindow
    BY <1>2, <2>1, <2>2
  <2> QED
    BY <1>3, <2>3 DEF Ahead
<1>8. Settling'
  BY <1>1 DEF Settling
<1>9. Accounting'
  <2> DEFINE n == expected' - expected
  <2>1. n \in Int /\ expected' + wrapped' = expected + wrapped + n
    BY <1>1, <1>2 DEF TypeOK, NumbersOK, Seqs
  <2>2. skipped' = skipped + n
    BY <1>2
  <2> HIDE DEF n
  <2>3. /\ played' + (lost' + failures' + skipped') = played + (lost + failures + skipped) + n
        /\ lost' + failures' + skipped' \in Int
    BY <1>1, <2>1, <2>2 DEF TypeOK, NumbersOK
  <2> QED
    BY <1>1, <1>6, <2>1, <2>3, AccountingMoves DEF NumbersOK, Seqs
<1> QED
  BY <1>5, <1>6, <1>7, <1>8, <1>9 DEF TypeOK

-----------------------------------------------------------------------------
(* Taking the next packet and moving past it keeps the window, also when   *)
(* the playhead wraps: then that packet was the only one.                  *)
LEMMA AdvanceKeepsWindow ==
  ASSUME TypeOK, Ahead, Advance, buffer' = PopNext(buffer, expected)
  PROVE  /\ expected' \in Seqs /\ wrapped' \in Nat
         /\ expected' + wrapped' = expected + wrapped + 1
         /\ buffer' \in SUBSET Seqs
         /\ Ahead'
<1> USE JitterAssumption
<1>1. expected \in 0 .. MaxSeq /\ wrapped \in Nat /\ buffer \subseteq 0 .. MaxSeq
  BY DEF TypeOK, NumbersOK, Seqs
<1>2. /\ expected' \in 0 .. MaxSeq /\ wrapped' \in Nat
      /\ expected' + wrapped' = expected + wrapped + 1
  BY <1>1 DEF Advance, Plus, Modulus
<1>3. Ahead'
  <2>1. CASE expected = MaxSeq
    <3>1. buffer' = {}
      BY <1>1, <2>1 DEF PopNext, Ahead
    <3> QED
      BY <3>1 DEF Ahead
  <2>2. CASE expected # MaxSeq
    <3>1. expected' = expected + 1
      BY <1>1, <2>2 DEF Advance, Plus
    <3> QED
      BY <1>1, <3>1 DEF PopNext, Ahead
  <2> QED
    BY <2>1, <2>2
<1> QED
  BY <1>1, <1>2, <1>3 DEF PopNext, Seqs

LEMMA LoopIInv ==
  ASSUME IInv, DrainLoop
  PROVE  IInv'
<1> USE JitterAssumption, PipelineAssumption DEF IInv
<1>1. CASE CatchUp
  <2>1. /\ UNCHANGED <<stream, primed, state, consecutive, target, arrivals, late, pc,
                       received, failures, skipped, origin, baseline, played>>
        /\ catchup' = catchup + 1 /\ catchup < MaxCatchup
        /\ lost' = lost + 1
        /\ Advance /\ buffer' = PopNext(buffer, expected)
    BY <1>1 DEF CatchUp, CatchUpDue, control
  <2>2. /\ expected' \in Seqs /\ wrapped' \in Nat
        /\ expected' + wrapped' = expected + wrapped + 1
        /\ buffer' \in SUBSET Seqs
        /\ Ahead'
    BY <2>1, AdvanceKeepsWindow
  <2>3. FlagsOK'
    BY <2>1 DEF TypeOK, FlagsOK
  <2>4. NumbersOK'
    BY <2>1, <2>2 DEF TypeOK, NumbersOK
  <2>5. Settling'
    BY <2>1 DEF Settling
  <2>6. Accounting'
    <3>1. /\ played' + (lost' + failures' + skipped') = played + (lost + failures + skipped) + 1
          /\ lost' + failures' + skipped' \in Int
      BY <2>1 DEF TypeOK, NumbersOK
    <3> QED
      BY <2>1, <2>2, <2>4, <3>1, AccountingMoves DEF NumbersOK, Seqs
  <2> QED
    BY <2>2, <2>3, <2>4, <2>5, <2>6 DEF TypeOK
<1>2. CASE CatchUpGivesUp
  <2>1. /\ UNCHANGED <<stream, primed, state, consecutive, target, arrivals, late, pc,
                       expected, buffer, received, lost, failures, skipped,
                       origin, baseline, played, wrapped>>
        /\ catchup' = MaxCatchup
    BY <1>2 DEF CatchUpGivesUp, control, counters, history
  <2> QED
    <3>1. FlagsOK'
      BY <2>1 DEF TypeOK, FlagsOK
    <3>2. NumbersOK'
      BY <2>1 DEF TypeOK, NumbersOK
    <3>3. Ahead' /\ Accounting' /\ Settling'
      BY <2>1 DEF Ahead, Accounting, Settling
    <3> QED
      BY <3>1, <3>2, <3>3 DEF TypeOK
<1>3. CASE SkipGap
  <2>1. /\ UNCHANGED <<stream, primed, state, consecutive, target, arrivals, late, pc,
                       catchup, buffer, received, failures, skipped,
                       origin, baseline, played, wrapped>>
        /\ expected' = OldestSequence(buffer)
        /\ lost' = lost + (OldestSequence(buffer) - expected)
        /\ buffer # {} /\ OldestSequence(buffer) > expected
    BY <1>3 DEF SkipGap, GapCanBeSkipped, control, history
  <2>2. /\ OldestSequence(buffer) \in Seqs
        /\ \A t \in buffer : OldestSequence(buffer) <= t
    BY <2>1, OldestIsLeast DEF TypeOK, NumbersOK
  <2>3. FlagsOK'
    BY <2>1 DEF TypeOK, FlagsOK
  <2>4. NumbersOK'
    BY <2>1, <2>2 DEF TypeOK, NumbersOK, Seqs
  <2>5. Ahead'
    BY <2>1, <2>2 DEF Ahead, TypeOK, NumbersOK, Seqs
  <2>6. Settling'
    BY <2>1 DEF Settling
  <2>7. Accounting'
    <3> DEFINE n == OldestSequence(buffer) - expected
    <3>1. n \in Int /\ expected' + wrapped' = expected + wrapped + n
      BY <2>1, <2>2 DEF TypeOK, NumbersOK, Seqs
    <3>2. lost' = lost + n
      BY <2>1
    <3> HIDE DEF n
    <3>3. /\ played' + (lost' + failures' + skipped') = played + (lost + failures + skipped) + n
          /\ lost' + failures' + skipped' \in Int
      BY <2>1, <3>1, <3>2 DEF TypeOK, NumbersOK
    <3> QED
      BY <2>1, <2>4, <3>1, <3>3, AccountingMoves DEF NumbersOK, Seqs
  <2> QED
    BY <2>3, <2>4, <2>5, <2>6, <2>7 DEF TypeOK
<1>4. CASE DrainDry \/ SinkRefuses
  <2>1. /\ UNCHANGED <<stream, primed, state, consecutive, target, arrivals, late,
                       expected, received, lost, failures, skipped,
                       origin, baseline, played, wrapped>>
        /\ pc' = "idle" /\ catchup' = 0
        /\ buffer' \in SUBSET buffer
    BY <1>4 DEF DrainDry, SinkRefuses, ReturnFromDrain, PopNext, control, counters, history
  <2>2. FlagsOK'
    BY <2>1 DEF TypeOK, FlagsOK
  <2>3. NumbersOK'
    BY <2>1 DEF TypeOK, NumbersOK
  <2>4. Ahead' /\ Accounting' /\ Settling'
    BY <2>1 DEF Ahead, Accounting, Settling
  <2> QED
    BY <2>2, <2>3, <2>4 DEF TypeOK
<1>5. CASE DecodeFails
  <2>1. /\ UNCHANGED <<stream, primed, state, consecutive, target, arrivals, late, pc,
                       catchup, received, lost, skipped, origin, baseline, played>>
        /\ failures' = failures + 1
        /\ Advance /\ buffer' = PopNext(buffer, expected)
    BY <1>5 DEF DecodeFails, control
  <2>2. /\ expected' \in Seqs /\ wrapped' \in Nat
        /\ expected' + wrapped' = expected + wrapped + 1
        /\ buffer' \in SUBSET Seqs
        /\ Ahead'
    BY <2>1, AdvanceKeepsWindow
  <2>3. FlagsOK'
    BY <2>1 DEF TypeOK, FlagsOK
  <2>4. NumbersOK'
    BY <2>1, <2>2 DEF TypeOK, NumbersOK
  <2>5. Settling'
    BY <2>1 DEF Settling
  <2>6. Accounting'
    <3>1. /\ played' + (lost' + failures' + skipped') = played + (lost + failures + skipped) + 1
          /\ lost' + failures' + skipped' \in Int
      BY <2>1 DEF TypeOK, NumbersOK
    <3> QED
      BY <2>1, <2>2, <2>4, <3>1, AccountingMoves DEF NumbersOK, Seqs
  <2> QED
    BY <2>2, <2>3, <2>4, <2>5, <2>6 DEF TypeOK
<1>6. ASSUME NEW isLate \in BOOLEAN, Submit(isLate) PROVE IInv'
  <2>1. /\ UNCHANGED <<stream, primed, target, arrivals, pc, catchup, received,
                       lost, failures, skipped, origin, baseline>>
        /\ late' = isLate
        /\ played' = played + 1
        /\ Advance /\ buffer' = PopNext(buffer, expected)
    BY <1>6 DEF Submit, counters
  <2>2. /\ expected' \in Seqs /\ wrapped' \in Nat
        /\ expected' + wrapped' = expected + wrapped + 1
        /\ buffer' \in SUBSET Seqs
        /\ Ahead'
    BY <2>1, AdvanceKeepsWindow
  <2>3. /\ consecutive' \in 0 .. SteadyAfter
        /\ state' \in {"FastLock", "Steady"}
        /\ Settling'
    BY <1>6 DEF Submit, Settling, TypeOK, FlagsOK, NumbersOK
  <2>4. FlagsOK'
    BY <2>1, <2>3 DEF TypeOK, FlagsOK
  <2>5. NumbersOK'
    BY <2>1, <2>2, <2>3 DEF TypeOK, NumbersOK
  <2>6. Accounting'
    <3>1. /\ played' + (lost' + failures' + skipped') = played + (lost + failures + skipped) + 1
          /\ lost' + failures' + skipped' \in Int
      BY <2>1 DEF TypeOK, NumbersOK
    <3> QED
      BY <2>1, <2>2, <2>5, <3>1, AccountingMoves DEF NumbersOK, Seqs
  <2> QED
    BY <2>2, <2>3, <2>4, <2>5, <2>6 DEF TypeOK
<1> QED
  BY <1>1, <1>2, <1>3, <1>4, <1>5, <1>6 DEF DrainLoop

(* IInv is inductive. *)
LEMMA StepIInv ==
  ASSUME IInv, [Next]_vars
  PROVE  IInv'
<1>1. ASSUME NEW id \in Streams, NEW s \in Seqs, NEW stale \in StaleOptions,
             PushPacket(id, s, stale)
      PROVE  IInv'
  BY <1>1, PushIInv
<1>2. CASE StartDrain
  BY <1>2, StartDrainIInv
<1>3. CASE DrainLoop
  BY <1>3, LoopIInv
<1>4. CASE UNCHANGED vars
  <2>1. FlagsOK' /\ NumbersOK'
    BY <1>4 DEF vars, IInv, TypeOK, FlagsOK, NumbersOK
  <2>2. Ahead' /\ Accounting' /\ Settling'
    BY <1>4 DEF vars, IInv, Ahead, Accounting, Settling
  <2> QED
    BY <2>1, <2>2 DEF IInv, TypeOK
<1>5. CASE DrainUnprimed
  BY <1>4, <1>5 DEF DrainUnprimed
<1> QED
  BY <1>1, <1>2, <1>3, <1>4, <1>5 DEF Next

(* The strengthened invariant holds in every reachable state.              *)
THEOREM Invariance == Spec => []IInv
BY InitIInv, StepIInv, PTL DEF Spec

-----------------------------------------------------------------------------
(* Every variable of the pipeline keeps its type, the adaptive target and  *)
(* the catch-up counter their bounds.                                      *)
THEOREM TypeCorrect == Spec => []TypeOK
<1>1. IInv => TypeOK
  BY DEF IInv
<1> QED
  BY <1>1, Invariance, PTL

(* Whatever is pushed, lost, refused or skipped, the buffer lies between   *)
(* the playhead and the window's end and so never exceeds MaxWindow + 1.   *)
THEOREM WindowHolds == Spec => []Window
<1>1. IInv => Window
  BY WindowBoundsSize DEF IInv, Window, Ahead
<1> QED
  BY <1>1, Invariance, PTL

(* Every position the playhead passed is counted exactly once, across      *)
(* gaps, catch-up, decoding failures, start-up jumps and 32-bit wraps.     *)
THEOREM AccountingHolds == Spec => []Accounting
<1>1. IInv => Accounting
  BY DEF IInv
<1> QED
  BY <1>1, Invariance, PTL

-----------------------------------------------------------------------------
(* A drain that returns by itself leaves neither a playable frame nor a    *)
(* gap that it was allowed to skip.                                        *)
THEOREM DrainExhaustsHolds == Spec => DrainExhausts
<1> DEFINE A == pc = "loop" /\ pc' = "idle" =>
                  /\ expected' = expected
                  /\ expected' \notin buffer'
                  /\ \/ Cardinality(buffer') < target'
                     \/ buffer' = {}
                     \/ buffer' # buffer
<1>1. ASSUME IInv, [Next]_vars, pc = "loop", pc' = "idle"
      PROVE  A
  <2>1. DrainDry \/ SinkRefuses
    BY <1>1 DEF Next, PushPacket, StartDrain, DrainUnprimed, DrainLoop, CatchUp, CatchUpGivesUp,
                SkipGap, DecodeFails, Submit, vars
  <2>2. CASE DrainDry
    <3>1. /\ expected \notin buffer /\ ~GapCanBeSkipped
          /\ expected' = expected /\ buffer' = buffer /\ target' = target
      BY <2>2 DEF DrainDry, Missing, HasNext, control
    <3>2. CASE buffer = {}
      BY <3>1, <3>2
    <3>3. CASE buffer # {}
      <4>1. OldestSequence(buffer) \in buffer
        BY <1>1, <3>3, OldestIsLeast DEF IInv, TypeOK, NumbersOK
      <4>2. OldestSequence(buffer) \in Int /\ expected \in Int
        <5>1. OldestSequence(buffer) \in Seqs /\ expected \in Seqs
          BY <1>1, <4>1 DEF IInv, TypeOK, NumbersOK
        <5> QED
          BY <5>1, JitterAssumption DEF Seqs
      <4>3. OldestSequence(buffer) > expected
        BY <1>1, <3>1, <4>1, <4>2 DEF IInv, Ahead
      <4>4. ~(Size(buffer) >= target)
        BY <3>1, <3>3, <4>3 DEF GapCanBeSkipped
      <4>5. Size(buffer) \in Nat /\ target \in Int
        BY <1>1, WindowBoundsSize, PipelineAssumption
           DEF IInv, TypeOK, NumbersOK, LowTarget, HighTarget
      <4>6. Size(buffer) < target
        BY <4>4, <4>5
      <4> QED
        BY <3>1, <4>6 DEF Size
    <3> QED
      BY <3>2, <3>3
  <2>3. CASE SinkRefuses
    BY <2>3 DEF SinkRefuses, Playable, HasNext, PopNext
  <2> QED
    BY <2>1, <2>2, <2>3
<1>2. IInv /\ [Next]_vars => [A]_vars
  BY <1>1
<1> QED
  BY <1>2, Invariance, PTL DEF Spec, DrainExhausts

-----------------------------------------------------------------------------
(* The refinement of OrderedPlayout.  One lemma per way the abstract       *)
(* play-out is moved by a step of the pipeline.                            *)

LEMMA InitRefines == Init => Abstract!Init
BY DEF Init, Abstract!Init

LEMMA PushRefines ==
  ASSUME IInv, NEW id \in Streams, NEW s \in Seqs, NEW stale \in StaleOptions,
         PushPacket(id, s, stale)
  PROVE  Abstract!Next \/ UNCHANGED Abstract!vars
<1>1. CASE stream # id
  <2>1. /\ stream' = id /\ expected' = s /\ played' = 0
        /\ buffer' \in {{}, {s}}
    BY <1>1 DEF PushPacket, Push, ResetForStream
  <2>2. Abstract!Switch(id, s)
    BY <1>1, <2>1 DEF Abstract!Switch
  <2> QED
    BY <2>2 DEF Abstract!Next, Seqs
<1>2. CASE stream = id
  <2>1. UNCHANGED <<stream, expected, played>>
    BY <1>2 DEF PushPacket, KeepStream, history
  <2>2. CASE buffer' = buffer
    BY <2>1, <2>2 DEF Abstract!vars
  <2>3. CASE buffer' # buffer
    <3>1. buffer' = buffer \cup {s} /\ s >= expected
      BY <1>2, <2>3 DEF PushPacket, Push, Accepts
    <3>2. s > expected - 1
      BY <3>1, JitterAssumption DEF IInv, TypeOK, NumbersOK, Seqs
    <3>3. Abstract!Arrive(s)
      BY <2>1, <3>1, <3>2 DEF Abstract!Arrive
    <3> QED
      BY <3>3 DEF Abstract!Next, Seqs
  <2> QED
    BY <2>2, <2>3
<1> QED
  BY <1>1, <1>2

(* A playhead that jumps forward within the sequence space, dropping what  *)
(* it jumps over, passes over everything before its new position.          *)
LEMMA JumpRefines ==
  ASSUME IInv, UNCHANGED <<stream, played>>,
         expected' \in Seqs, expected <= expected',
         buffer' = {t \in buffer : t >= expected'}
  PROVE  Abstract!Next \/ UNCHANGED Abstract!vars
<1> DEFINE e == expected'
<1>1. /\ expected \in Nat /\ e \in Nat /\ e <= MaxSeq /\ expected <= e /\ MaxSeq \in Nat
      /\ \A t \in buffer : t \in Nat
  BY JitterAssumption DEF IInv, TypeOK, NumbersOK, Seqs
<1>2. CASE e = expected
  <2>1. buffer' = buffer
    BY <1>2 DEF IInv, Ahead
  <2> QED
    BY <1>2, <2>1 DEF Abstract!vars
<1>3. CASE e # expected
  <2> HIDE DEF e
  <2>1. e - 1 \in 0 .. MaxSeq /\ e - 1 > expected - 1 /\ e - 1 # MaxSeq
    BY <1>1, <1>3
  <2>2. \A t \in buffer : t > e - 1 <=> t >= e
    BY <1>1
  <2>3. buffer' = {t \in buffer : t > e - 1} /\ e = expected'
    BY <2>2 DEF e
  <2>4. Abstract!PassOver(e - 1)
    BY <2>1, <2>3 DEF Abstract!PassOver, Abstract!MovePast
  <2> QED
    BY <2>1, <2>4 DEF Abstract!Next
<1> QED
  BY <1>2, <1>3

(* Consuming the next packet moves the play-out past it.                   *)
LEMMA ConsumeRefines ==
  ASSUME IInv, UNCHANGED stream, Advance, buffer' = PopNext(buffer, expected)
  PROVE  Abstract!MovePast(expected)
<1>1. /\ expected \in Nat /\ MaxSeq \in Nat /\ expected <= MaxSeq
      /\ \A t \in buffer : t \in Nat /\ expected <= t
  BY JitterAssumption DEF IInv, TypeOK, NumbersOK, Seqs, Ahead
<1>2. expected > expected - 1
  BY <1>1
<1>3. expected' - 1 = IF expected = MaxSeq THEN -1 ELSE expected
  <2>1. CASE expected = MaxSeq
    BY <1>1, <2>1 DEF Advance, Plus, Modulus
  <2>2. CASE expected # MaxSeq
    BY <1>1, <2>2 DEF Advance, Plus
  <2> QED
    BY <2>1, <2>2
<1>4. buffer' = {t \in buffer : t > expected}
  BY <1>1 DEF PopNext
<1> QED
  BY <1>2, <1>3, <1>4 DEF Abstract!MovePast

LEMMA StepRefines ==
  ASSUME IInv, [Next]_vars
  PROVE  Abstract!Next \/ UNCHANGED Abstract!vars
<1>1. expected \in 0 .. MaxSeq
  BY DEF IInv, TypeOK, NumbersOK, Seqs
<1>2. ASSUME NEW id \in Streams, NEW s \in Seqs, NEW stale \in StaleOptions,
             PushPacket(id, s, stale)
      PROVE  Abstract!Next \/ UNCHANGED Abstract!vars
  BY <1>2, PushRefines
<1>3. CASE StartDrain
  <2>1. UNCHANGED <<stream, played>>
    BY <1>3 DEF StartDrain, history
  <2>2. CASE FastLock
    <3>1. expected' \in Seqs /\ expected <= expected'
      BY <2>2, FastLockForward DEF IInv
    <3>2. buffer' = {t \in buffer : t >= expected'}
      BY <2>2, Zenon DEF FastLock, DiscardBefore
    <3> QED
      BY <2>1, <3>1, <3>2, JumpRefines
  <2>3. CASE PrimeSteady \/ AlreadyPrimed
    BY <2>1, <2>3 DEF PrimeSteady, AlreadyPrimed, Abstract!vars
  <2> QED
    BY <1>3, <2>2, <2>3 DEF StartDrain
<1>4. CASE CatchUp \/ DecodeFails
  <2>1. UNCHANGED <<stream, played>> /\ Advance /\ buffer' = PopNext(buffer, expected)
    BY <1>4 DEF CatchUp, DecodeFails, control
  <2>2. Abstract!PassOver(expected)
    BY <2>1, ConsumeRefines DEF Abstract!PassOver
  <2> QED
    BY <1>1, <2>2 DEF Abstract!Next
<1>5. CASE SkipGap
  <2>1. /\ UNCHANGED <<stream, played, buffer>>
        /\ expected' = OldestSequence(buffer)
        /\ buffer # {} /\ OldestSequence(buffer) > expected
    BY <1>5 DEF SkipGap, GapCanBeSkipped, control, history
  <2>2. /\ OldestSequence(buffer) \in Seqs
        /\ \A t \in buffer : OldestSequence(buffer) <= t
    BY <2>1, OldestIsLeast DEF IInv, TypeOK, NumbersOK
  <2>3. expected' \in Seqs /\ expected <= expected'
    BY <2>1, <2>2, JitterAssumption DEF IInv, TypeOK, NumbersOK, Seqs
  <2>4. \A t \in buffer : t >= expected'
    BY <2>1, <2>2, <2>3, JitterAssumption DEF IInv, TypeOK, NumbersOK, Seqs
  <2>5. buffer' = {t \in buffer : t >= expected'}
    BY <2>1, <2>4
  <2> QED
    BY <2>1, <2>3, <2>5, JumpRefines
<1>6. CASE SinkRefuses
  <2>1. Abstract!Lose(expected)
    BY <1>6 DEF SinkRefuses, Abstract!Lose, PopNext, control, history
  <2> QED
    BY <1>1, <2>1 DEF Abstract!Next
<1>7. CASE CatchUpGivesUp \/ DrainDry \/ DrainUnprimed \/ UNCHANGED vars
  BY <1>7 DEF CatchUpGivesUp, DrainDry, DrainUnprimed, vars, control, history, Abstract!vars
<1>8. ASSUME NEW isLate \in BOOLEAN, Submit(isLate)
      PROVE  Abstract!Next
  <2>1. /\ UNCHANGED stream /\ Advance /\ buffer' = PopNext(buffer, expected)
        /\ expected \in buffer /\ played' = played + 1
    BY <1>8 DEF Submit, Playable, HasNext
  <2>2. Abstract!Play(expected)
    BY <2>1, ConsumeRefines DEF Abstract!Play
  <2> QED
    BY <1>1, <2>2 DEF Abstract!Next
<1> QED
  BY <1>2, <1>3, <1>4, <1>5, <1>6, <1>7, <1>8 DEF Next, DrainLoop

(* The pipeline implements the ordered play-out: what reaches the sink is  *)
(* in increasing order within a stream, nothing is played that was not     *)
(* pending, and nothing at or before the playhead ever comes back.         *)
THEOREM Refinement == Spec => RefinesOrderedPlayout
<1>1. Init => Abstract!Init
  BY InitRefines
<1>2. IInv /\ [Next]_vars => [Abstract!Next]_(Abstract!vars)
  BY StepRefines
<1> QED
  BY <1>1, <1>2, Invariance, PTL DEF Spec, RefinesOrderedPlayout, Abstract!Spec
=============================================================================
