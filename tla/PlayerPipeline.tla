--------------------------- MODULE PlayerPipeline ---------------------------
(***************************************************************************)
(* nspeaker::client::PlayerPipeline (client/core): the reordering, loss    *)
(* recovery and play-out state machine between the UDP receiver and the    *)
(* audio sink.                                                             *)
(*                                                                         *)
(* PushPacket is one action.  DrainReady is entered by StartDrain, which   *)
(* does the priming and the adaptive-target step, and then runs one action *)
(* per iteration of its loop until one of them leaves the loop; pc tells   *)
(* where control is.  The caller is arbitrary here: it may push and drain  *)
(* in any order, but not push in the middle of a drain (one thread owns    *)
(* the pipeline).  AudioPath adds the real caller.                         *)
(*                                                                         *)
(* Data that no property tells apart is abstracted: payloads and PCM, the  *)
(* clock (a packet is pushed as stale or not, a submitted frame is late or *)
(* not), the arrival-time statistics behind the adaptive target (it moves  *)
(* by at most one per drain, within the configured bounds) and the         *)
(* counters that feed no decision.                                         *)
(***************************************************************************)
EXTENDS Integers, FiniteSets, JitterBuffer

CONSTANTS
    Streams,         \* stream ids a sender may use
    NoStream,        \* !has_stream_
    FastLockOn,      \* startup_fast_lock_enabled
    StartupBuffer,   \* startup_buffer_packets
    StartupLead,     \* startup_lead_packets
    SteadyTarget,    \* steady_target_packets
    SteadyAfter,     \* steady_consecutive_threshold
    LateDropOn,      \* late_frame_drop_threshold_ms > 0
    MaxCatchup,      \* max_catchup_per_drain
    StaleDropOn,     \* stale_packet_threshold_ms > 0
    MinTarget,       \* min_steady_packets
    MaxTarget,       \* max_steady_packets
    MaxReceived      \* bound of the model: packets pushed in one behaviour

ASSUME PipelineAssumption ==
    /\ NoStream \notin Streams
    /\ FastLockOn \in BOOLEAN /\ LateDropOn \in BOOLEAN /\ StaleDropOn \in BOOLEAN
    /\ StartupBuffer \in Nat \ {0}
    /\ StartupLead \in Nat
    /\ StartupLead < StartupBuffer \* true of every configuration in the code
    /\ StartupLead <= MaxWindow /\ StartupLead <= MaxSeq
    /\ SteadyTarget \in Nat \ {0}
    /\ SteadyAfter \in Nat \ {0}
    /\ MaxCatchup \in Nat
    /\ MinTarget \in Nat \ {0}
    /\ MaxTarget \in Nat
    /\ MaxReceived \in Nat

VARIABLES
    stream,       \* current_stream_id_, or NoStream
    expected,     \* expected_sequence_: the playhead
    primed,       \* primed_
    state,        \* state_
    consecutive,  \* steady_consecutive_
    target,       \* effective_target_
    arrivals,     \* has_first_arrival_ and arrival_count_, counted up to 3
    buffer,       \* jitter_.packets_: the buffered sequence numbers
    late,         \* stats_.e2e_latency_ms > late_frame_drop_threshold_ms
    pc,           \* "idle" between calls, "loop" inside DrainReady
    catchup,      \* catchup_this_drain
    received,     \* stats_.packets_received
    lost,         \* stats_.packets_lost
    failures,     \* stats_.decode_failures
    skipped       \* stats_.startup_skipped_packets

(* History variables: they record what happened and no guard reads them.   *)
VARIABLES
    origin,       \* sequence number the stream was locked at
    baseline,     \* lost + failures + skipped at that moment
    played,       \* frames the sink took since then
    wrapped       \* sum of what the 32-bit playhead lost by wrapping since then

control == <<stream, primed, state, consecutive, target, arrivals, late>>
counters == <<lost, failures, skipped>>
history == <<origin, baseline, played, wrapped>>
vars == <<stream, expected, primed, state, consecutive, target, arrivals,
          buffer, late, pc, catchup, received, lost, failures, skipped,
          origin, baseline, played, wrapped>>

-----------------------------------------------------------------------------
(* std::uint32_t arithmetic on the playhead. *)
Modulus == MaxSeq + 1
Plus(s, d)  == IF s + d <= MaxSeq THEN s + d ELSE s + d - Modulus
Minus(s, d) == IF s >= d THEN s - d ELSE s - d + Modulus

Init ==
    /\ stream = NoStream
    /\ expected = 0
    /\ primed = FALSE
    /\ state = "FastLock"
    /\ consecutive = 0
    /\ target = SteadyTarget
    /\ arrivals = 0
    /\ buffer = {}
    /\ late = FALSE
    /\ pc = "idle"
    /\ catchup = 0
    /\ received = 0
    /\ lost = 0 /\ failures = 0 /\ skipped = 0
    /\ origin = 0 /\ baseline = 0 /\ played = 0 /\ wrapped = 0

-----------------------------------------------------------------------------
(* Mutant of ResetForStream: expected_sequence_ is not reset. *)
ResetKeepsPlayhead(id, s) ==
    /\ stream' = id
    /\ primed' = FALSE
    /\ state' = "FastLock"
    /\ consecutive' = 0
    /\ target' = SteadyTarget
    /\ origin' = expected
    /\ baseline' = lost + failures + skipped
    /\ played' = 0
    /\ wrapped' = 0
    /\ UNCHANGED expected

(* A packet of a stream other than the current one resets the pipeline,    *)
(* whatever its sequence number and even when it is then dropped as stale. *)
(* The counters and the latency estimate survive the reset.                *)
ResetForStream(id, s) ==
    /\ stream' = id
    /\ expected' = s
    /\ primed' = FALSE
    /\ state' = "FastLock"
    /\ consecutive' = 0
    /\ target' = SteadyTarget
    /\ origin' = s
    /\ baseline' = lost + failures + skipped
    /\ played' = 0
    /\ wrapped' = 0

KeepStream == UNCHANGED <<stream, expected, primed, state, consecutive, target, history>>

PushPacket(id, s, stale) ==
    LET fresh == stream # id
        kept  == IF fresh THEN {} ELSE buffer
        seen  == IF fresh THEN 0 ELSE arrivals
    IN  /\ pc = "idle"
        /\ received < MaxReceived
        /\ received' = received + 1
        /\ IF fresh THEN ResetForStream(id, s) ELSE KeepStream
        /\ IF stale
             THEN buffer' = kept /\ arrivals' = seen
             ELSE /\ buffer' = Push(kept, s, IF fresh THEN s ELSE expected)
                  /\ arrivals' = IF seen < 3 THEN seen + 1 ELSE seen
        /\ UNCHANGED <<late, pc, catchup, counters>>

-----------------------------------------------------------------------------
(* DrainReady before its loop.                                             *)
FastLockReady ==
    FastLockOn /\ state = "FastLock" /\ Size(buffer) >= StartupBuffer

(* Start close to the newest packet: move the playhead to StartupLead      *)
(* behind it and drop what is now in the past.  Sum, difference and count  *)
(* are 32-bit.                                                             *)
FastLock ==
    LET newest  == NewestSequence(buffer)
        jump    == newest > Plus(expected, StartupLead)
        start   == IF jump THEN Minus(newest, StartupLead) ELSE expected
    IN  /\ ~primed /\ FastLockReady
        /\ expected' = start
        /\ skipped' = skipped + Minus(start, expected)
        /\ buffer' = DiscardBefore(buffer, start)
        /\ primed' = TRUE

PrimeSteady ==
    /\ ~primed /\ ~FastLockReady
    /\ Primed(buffer, SteadyTarget)
    /\ primed' = TRUE
    /\ UNCHANGED <<expected, skipped, buffer>>

AlreadyPrimed == primed /\ UNCHANGED <<primed, expected, skipped, buffer>>

(* The adaptive depth moves by at most one per drain, never out of the     *)
(* configured bounds, and only once the stream is steady.  Which way is    *)
(* decided by arrival statistics and timers that are left out.             *)
MayAdapt == state = "Steady" /\ arrivals >= 3

(* Mutant of AdaptTarget: max_steady_packets is not honoured. *)
AdaptTargetUnbounded ==
    \/ target' = target
    \/ MayAdapt /\ target' = target + 1
    \/ MayAdapt /\ target > MinTarget /\ target' = target - 1

AdaptTarget ==
    \/ target' = target
    \/ MayAdapt /\ target < MaxTarget /\ target' = target + 1
    \/ MayAdapt /\ target > MinTarget /\ target' = target - 1

StartDrain ==
    /\ pc = "idle"
    /\ FastLock \/ PrimeSteady \/ AlreadyPrimed
    /\ AdaptTarget
    /\ pc' = "loop"
    /\ UNCHANGED <<stream, state, consecutive, arrivals, late, catchup, received,
                   lost, failures, history>>

(* Too little buffered to start: DrainReady returns 0 and changes nothing. *)
DrainUnprimed ==
    /\ pc = "idle"
    /\ ~primed /\ ~FastLockReady /\ ~Primed(buffer, SteadyTarget)
    /\ UNCHANGED vars

-----------------------------------------------------------------------------
(* One iteration of the loop of DrainReady.                                *)
Advance ==
    /\ expected' = Plus(expected, 1)
    /\ wrapped' = IF expected = MaxSeq THEN wrapped + Modulus ELSE wrapped

CatchUpDue ==
    state = "Steady" /\ LateDropOn /\ late /\ catchup < MaxCatchup

(* Soft catch-up: latency is high, discard the next frame unplayed.        *)
CatchUp ==
    /\ pc = "loop" /\ CatchUpDue
    /\ HasNext(buffer, expected)
    /\ buffer' = PopNext(buffer, expected)
    /\ lost' = lost + 1
    /\ Advance
    /\ catchup' = catchup + 1
    /\ UNCHANGED <<control, pc, received, failures, skipped, origin, baseline, played>>

(* Nothing to discard: no more catch-up in this drain. *)
CatchUpGivesUp ==
    /\ pc = "loop" /\ CatchUpDue
    /\ ~HasNext(buffer, expected)
    /\ catchup' = MaxCatchup
    /\ UNCHANGED <<control, expected, buffer, pc, received, counters, history>>

Playable == pc = "loop" /\ ~CatchUpDue /\ HasNext(buffer, expected)
Missing  == pc = "loop" /\ ~CatchUpDue /\ ~HasNext(buffer, expected)

(* Mutant of GapCanBeSkipped: one packet more than the target is asked for. *)
GapSkippedAboveTarget ==
    /\ buffer # {}
    /\ OldestSequence(buffer) > expected
    /\ Size(buffer) > target

GapCanBeSkipped ==
    /\ buffer # {}
    /\ OldestSequence(buffer) > expected
    /\ Size(buffer) >= target

(* Mutant of SkipGap: a gap counts as one lost packet. *)
SkipGapCountsOne ==
    LET oldest == OldestSequence(buffer)
    IN  /\ Missing /\ GapCanBeSkipped
        /\ lost' = lost + 1
        /\ expected' = oldest
        /\ UNCHANGED <<control, buffer, pc, catchup, received, failures, skipped, history>>

SkipGap ==
    LET oldest == OldestSequence(buffer)
    IN  /\ Missing /\ GapCanBeSkipped
        /\ lost' = lost + (oldest - expected)
        /\ expected' = oldest
        /\ UNCHANGED <<control, buffer, pc, catchup, received, failures, skipped, history>>

ReturnFromDrain == pc' = "idle" /\ catchup' = 0

(* Underrun, or simply nothing left. *)
DrainDry ==
    /\ Missing /\ ~GapCanBeSkipped
    /\ ReturnFromDrain
    /\ UNCHANGED <<control, expected, buffer, received, counters, history>>

DecodeFails ==
    /\ Playable
    /\ buffer' = PopNext(buffer, expected)
    /\ failures' = failures + 1
    /\ Advance
    /\ UNCHANGED <<control, pc, catchup, received, lost, skipped, origin, baseline, played>>

(* Mutant of SinkRefuses: the refused packet stays in the buffer. *)
SinkRefusesKeepsPacket ==
    /\ Playable
    /\ ReturnFromDrain
    /\ UNCHANGED <<control, expected, buffer, received, counters, history>>

(* The sink refuses the frame: the drain ends with the packet already      *)
(* taken out of the buffer and the playhead still on it.                   *)
SinkRefuses ==
    /\ Playable
    /\ buffer' = PopNext(buffer, expected)
    /\ ReturnFromDrain
    /\ UNCHANGED <<control, expected, received, counters, history>>

(* The sink takes the frame.  isLate is the new latency estimate.          *)
Submit(isLate) ==
    /\ Playable
    /\ buffer' = PopNext(buffer, expected)
    /\ late' = isLate
    /\ IF state = "FastLock"
         THEN /\ consecutive' = consecutive + 1
              /\ state' = IF consecutive + 1 >= SteadyAfter THEN "Steady" ELSE state
         ELSE UNCHANGED <<consecutive, state>>
    /\ Advance
    /\ played' = played + 1
    /\ UNCHANGED <<stream, primed, target, arrivals, pc, catchup, received,
                   counters, origin, baseline>>

StaleOptions == IF StaleDropOn THEN BOOLEAN ELSE {FALSE}

DrainLoop ==
    \/ CatchUp
    \/ CatchUpGivesUp
    \/ SkipGap
    \/ DrainDry
    \/ DecodeFails
    \/ SinkRefuses
    \/ \E isLate \in BOOLEAN : Submit(isLate)

Next ==
    \/ \E id \in Streams, s \in Seqs, stale \in StaleOptions : PushPacket(id, s, stale)
    \/ StartDrain
    \/ DrainUnprimed
    \/ DrainLoop

Spec == Init /\ [][Next]_vars

-----------------------------------------------------------------------------
(* Type invariant: every variable of the pipeline, the bounds of the       *)
(* adaptive target and of the catch-up counter included.                   *)
LowTarget  == IF MinTarget < SteadyTarget THEN MinTarget ELSE SteadyTarget
HighTarget == IF MaxTarget > SteadyTarget THEN MaxTarget ELSE SteadyTarget

FlagsOK ==
    /\ stream \in Streams \cup {NoStream}
    /\ primed \in BOOLEAN
    /\ state \in {"FastLock", "Steady"}
    /\ late \in BOOLEAN
    /\ pc \in {"idle", "loop"}

NumbersOK ==
    /\ expected \in Seqs
    /\ buffer \in SUBSET Seqs
    /\ consecutive \in 0 .. SteadyAfter
    /\ target \in LowTarget .. HighTarget
    /\ arrivals \in 0 .. 3
    /\ catchup \in 0 .. MaxCatchup
    /\ received \in Nat
    /\ lost \in Nat /\ failures \in Nat /\ skipped \in Nat
    /\ origin \in Seqs
    /\ baseline \in Nat /\ played \in Nat /\ wrapped \in Nat

TypeOK == FlagsOK /\ NumbersOK

(* The buffer never holds a packet the playhead has passed, nor one more   *)
(* than the window ahead of it, whatever the jumps, catch-ups, refusals,   *)
(* stream changes and wraps; so it holds at most MaxWindow + 1 packets.    *)
(* Push alone enforces this only at the moment of the push: everything     *)
(* that moves the playhead must preserve it.                               *)
Window ==
    /\ \A s \in buffer : expected <= s /\ s <= expected + MaxWindow
    /\ Size(buffer) <= MaxWindow + 1

(* The playhead is accounted for: every sequence number it passed since    *)
(* the stream was locked was played, counted lost, failed to decode or was *)
(* skipped at start-up, exactly once (stats_ of PlayerPipeline).           *)
Accounting ==
    expected + wrapped + baseline = origin + played + (lost + failures + skipped)

(* When a drain returns by itself, nothing is left that it should have     *)
(* handled: the next frame is not in the buffer, and what lies behind a    *)
(* gap is too little to give the gap up.  A refusal by the sink is the     *)
(* only other way out, and it keeps the playhead where it was.             *)
DrainExhausts ==
    [][pc = "loop" /\ pc' = "idle" =>
          /\ expected' = expected
          /\ expected' \notin buffer'
          /\ \/ Cardinality(buffer') < target'
             \/ buffer' = {}
             \/ buffer' # buffer]_vars

(* The abstract specification: an ordered play-out of accepted packets.    *)
Abstract == INSTANCE OrderedPlayout WITH
    pending <- buffer, last <- expected - 1

RefinesOrderedPlayout == Abstract!Spec
=============================================================================
