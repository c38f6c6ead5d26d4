-------------------------- MODULE AudioPathProofs --------------------------
(***************************************************************************)
(* Theorems about AudioPath, for every value of its constants: what the    *)
(* worker thread does is a behaviour of PlayerPipeline, so its theorems    *)
(* carry over, and polling and draining in turn bounds the backlog by the  *)
(* jitter target and keeps the start-up jump from ever happening.          *)
(*                                                                         *)
(* Draining and Depth are what the inductive invariant adds: when control  *)
(* may be inside DrainReady, and how deep the buffer may be before, during *)
(* and after a drain, also before the pipeline is primed.                  *)
(***************************************************************************)
EXTENDS AudioPath, PlayerPipelineProofs

(* hostd and the network only produce datagrams of its streams. *)
Sending ==
    /\ src \in 0 .. NumStreams
    /\ sent \in 0 .. NumFrames
    /\ net \subseteq Datagrams

Draining ==
    /\ phase \in {"poll", "drain"}
    /\ pc = "loop" => phase = "drain" /\ primed

Depth ==
    /\ Size(buffer) <= HighTarget
    /\ phase = "poll" => Size(buffer) < HighTarget
    /\ ~primed => Size(buffer) <= SteadyTarget
    /\ ~primed /\ phase = "poll" => Size(buffer) < SteadyTarget

PathIInv == IInv /\ Sending /\ Draining /\ Depth /\ FastLockNeverJumps

-----------------------------------------------------------------------------
(* How the size of a finite set changes with its elements.                 *)
LEMMA SubsetSize ==
  ASSUME NEW T, IsFiniteSet(T), NEW S \in SUBSET T
  PROVE  IsFiniteSet(S) /\ Size(S) \in Nat /\ Size(T) \in Nat /\ Size(S) <= Size(T)
<1>1. IsFiniteSet(S) /\ Cardinality(S) <= Cardinality(T)
  BY FS_Subset
<1> QED
  BY <1>1, FS_CardinalityType DEF Size

LEMMA AddSize ==
  ASSUME NEW T, IsFiniteSet(T), NEW x
  PROVE  Size(T \cup {x}) \in Nat /\ Size(T) \in Nat /\ Size(T \cup {x}) <= Size(T) + 1
<1>1. /\ IsFiniteSet(T \cup {x})
      /\ Cardinality(T \cup {x}) = IF x \in T THEN Cardinality(T) ELSE Cardinality(T) + 1
  BY FS_AddElement
<1>2. Cardinality(T) \in Nat /\ Cardinality(T \cup {x}) \in Nat
  BY <1>1, FS_CardinalityType
<1> QED
  BY <1>1, <1>2 DEF Size

LEMMA PopSize ==
  ASSUME NEW T, IsFiniteSet(T), NEW x \in T
  PROVE  Size(T \ {x}) \in Nat /\ Size(T) \in Nat /\ Size(T \ {x}) = Size(T) - 1
<1>1. /\ IsFiniteSet(T \ {x})
      /\ Cardinality(T \ {x}) = IF x \in T THEN Cardinality(T) - 1 ELSE Cardinality(T)
  BY FS_RemoveElement
<1>2. Cardinality(T) \in Nat /\ Cardinality(T \ {x}) \in Nat
  BY <1>1, FS_CardinalityType
<1> QED
  BY <1>1, <1>2 DEF Size

LEMMA SingletonSize == Size({}) = 0 /\ \A x : Size({x}) = 1
BY FS_EmptySet, FS_Singleton DEF Size

LEMMA TargetsPositive ==
  /\ HighTarget \in Nat /\ SteadyTarget \in Nat
  /\ 1 <= SteadyTarget /\ SteadyTarget <= HighTarget
BY PipelineAssumption DEF HighTarget

LEMMA BufferFinite ==
  ASSUME IInv
  PROVE  IsFiniteSet(buffer) /\ Size(buffer) \in Nat
BY WindowBoundsSize DEF IInv

-----------------------------------------------------------------------------
(* Every step of the composition is one of the pipeline, or leaves it be.  *)
LEMMA PathStepIsStep ==
  ASSUME Sending, [PathNext]_pathVars
  PROVE  [Next]_vars
<1>1. ASSUME NEW p \in net, PollPacket(p)
      PROVE  Next
  <2>1. p.id \in Streams /\ p.seq \in 0 .. NumFrames - 1
    BY DEF Sending, Datagrams
  <2>2. p.seq \in Seqs
    BY <2>1, PathAssumption, JitterAssumption DEF Seqs
  <2>3. \E stale \in StaleOptions : PushPacket(p.id, p.seq, stale)
    BY <1>1 DEF PollPacket
  <2> QED
    BY <2>1, <2>2, <2>3 DEF Next
<1>2. CASE Drain
  BY <1>2 DEF Drain, DrainStep, Next, DrainLoop
<1>3. CASE RestartHostd \/ SendFrame \/ SendLost \/ PollNothing \/ UNCHANGED pathVars
  BY <1>3 DEF RestartHostd, SendFrame, SendLost, PollNothing, pathVars
<1> QED
  BY <1>1, <1>2, <1>3 DEF PathNext

LEMMA PathInitHolds == PathInit => PathIInv
<1> SUFFICES ASSUME PathInit PROVE PathIInv
  OBVIOUS
<1>1. IInv
  BY InitIInv DEF PathInit
<1>2. Sending
  BY PathAssumption DEF PathInit, Sending
<1>3. Draining
  BY DEF PathInit, Init, Draining
<1>4. Size(buffer) = 0 /\ skipped = 0
  BY SingletonSize DEF PathInit, Init
<1>5. Depth /\ FastLockNeverJumps
  BY <1>4, TargetsPositive DEF Depth, FastLockNeverJumps
<1> QED
  BY <1>1, <1>2, <1>3, <1>5 DEF PathIInv

-----------------------------------------------------------------------------
(* Preservation of the invariant.  One lemma per kind of step.             *)

(* hostd and the network leave the client alone. *)
LEMMA SenderStep ==
  ASSUME PathIInv, RestartHostd \/ SendFrame \/ SendLost
  PROVE  Sending' /\ Draining' /\ Depth' /\ FastLockNeverJumps'
<1>1. UNCHANGED <<buffer, pc, primed, skipped, phase, target>>
  BY DEF RestartHostd, SendFrame, SendLost, vars
<1>2. Sending'
  <2>1. CASE RestartHostd
    BY <2>1, PathAssumption DEF RestartHostd, PathIInv, Sending
  <2>2. CASE SendFrame
    BY <2>2, PathAssumption DEF SendFrame, CanSend, PathIInv, Sending, Datagrams
  <2>3. CASE SendLost
    BY <2>3, PathAssumption DEF SendLost, CanSend, PathIInv, Sending
  <2> QED
    BY <2>1, <2>2, <2>3
<1>3. Draining' /\ Depth' /\ FastLockNeverJumps'
  BY <1>1 DEF PathIInv, Draining, Depth, FastLockNeverJumps
<1> QED
  BY <1>2, <1>3

(* A poll adds at most one packet, or starts over with at most one. *)
LEMMA PollStep ==
  ASSUME PathIInv, NEW p \in net, PollPacket(p)
  PROVE  Sending' /\ Draining' /\ Depth' /\ FastLockNeverJumps'
<1>1. PICK stale \in StaleOptions : PushPacket(p.id, p.seq, stale)
  BY DEF PollPacket
<1>2. phase = "poll" /\ phase' = "drain" /\ UNCHANGED <<src, sent>> /\ net' \in SUBSET net
  BY DEF PollPacket
<1>3. pc' = pc /\ pc = "idle" /\ skipped' = skipped
  BY <1>1 DEF PushPacket, counters
<1>4. \/ Size(buffer') <= 1 /\ Size(buffer') \in Nat
      \/ primed' = primed /\ Size(buffer') <= Size(buffer) + 1 /\ Size(buffer') \in Nat
  <2> DEFINE q == p.seq
  <2>1. CASE stream # p.id
    <3>1. buffer' = {} \/ buffer' = {q}
      BY <1>1, <2>1 DEF PushPacket, Push
    <3> HIDE DEF q
    <3>2. Size({}) = 0 /\ Size({q}) = 1
      BY SingletonSize
    <3>3. Size(buffer') = 0 \/ Size(buffer') = 1
      BY <3>1, <3>2 DEF Size
    <3> QED
      BY <3>3
  <2>2. CASE stream = p.id
    <3>1. primed' = primed
      BY <1>1, <2>2 DEF PushPacket, KeepStream
    <3>2. buffer' = buffer \/ buffer' = buffer \cup {q}
      BY <1>1, <2>2 DEF PushPacket, Push
    <3> HIDE DEF q
    <3>3. IsFiniteSet(buffer) /\ Size(buffer) \in Nat
      BY BufferFinite DEF PathIInv
    <3>4. Size(buffer \cup {q}) \in Nat /\ Size(buffer \cup {q}) <= Size(buffer) + 1
      BY <3>3, AddSize
    <3>5. Size(buffer') = Size(buffer) \/ Size(buffer') = Size(buffer \cup {q})
      BY <3>2 DEF Size
    <3>6. Size(buffer') <= Size(buffer) + 1 /\ Size(buffer') \in Nat
      BY <3>3, <3>4, <3>5
    <3> QED
      BY <3>1, <3>6
  <2> QED
    BY <2>1, <2>2
<1>5. Size(buffer') <= HighTarget /\ (~primed' => Size(buffer') <= SteadyTarget)
  <2>1. Size(buffer) \in Nat /\ Size(buffer) < HighTarget
        /\ (~primed => Size(buffer) < SteadyTarget)
    BY <1>2, BufferFinite DEF PathIInv, Depth
  <2>2. CASE Size(buffer') <= 1 /\ Size(buffer') \in Nat
    BY <2>2, TargetsPositive
  <2>3. CASE primed' = primed /\ Size(buffer') <= Size(buffer) + 1 /\ Size(buffer') \in Nat
    BY <2>1, <2>3, TargetsPositive
  <2> QED
    BY <1>4, <2>2, <2>3
<1>6. Depth'
  BY <1>2, <1>5 DEF Depth, Size
<1>7. Sending' /\ Draining' /\ FastLockNeverJumps'
  BY <1>2, <1>3 DEF PathIInv, Sending, Draining, FastLockNeverJumps
<1> QED
  BY <1>6, <1>7

(* Priming: below the start-up threshold the steady target is met first,   *)
(* so a FastLock contradicts the depth before priming.                     *)
LEMMA StartDrainStep ==
  ASSUME PathIInv, StartDrain, phase = "drain", phase' = "drain"
  PROVE  Draining' /\ Depth' /\ FastLockNeverJumps'
<1>1. IsFiniteSet(buffer) /\ Size(buffer) \in Nat
  BY BufferFinite DEF PathIInv
<1>2. pc' = "loop" /\ pc = "idle"
  BY DEF StartDrain
<1>3. primed' /\ buffer' \in SUBSET buffer
  <2>1. CASE FastLock
    BY <2>1 DEF FastLock, DiscardBefore
  <2>2. CASE PrimeSteady \/ AlreadyPrimed
    BY <2>2 DEF PrimeSteady, AlreadyPrimed
  <2> QED
    BY <2>1, <2>2 DEF StartDrain
<1>4. Size(buffer') \in Nat /\ Size(buffer') <= Size(buffer)
  BY <1>1, <1>3, SubsetSize
<1>5. Size(buffer') <= HighTarget
  BY <1>1, <1>4, TargetsPositive DEF PathIInv, Depth
<1>6. FastLockNeverJumps'
  <2>1. CASE FastLock
    <3>1. ~primed /\ Size(buffer) >= StartupBuffer
      BY <2>1 DEF FastLock, FastLockReady
    <3>2. Size(buffer) <= SteadyTarget
      BY <3>1 DEF PathIInv, Depth
    <3>3. ~(SteadyTarget < StartupBuffer)
      BY <1>1, <3>1, <3>2, PipelineAssumption
    <3> QED
      BY <3>3 DEF FastLockNeverJumps
  <2>2. CASE PrimeSteady \/ AlreadyPrimed
    BY <2>2 DEF PrimeSteady, AlreadyPrimed, PathIInv, FastLockNeverJumps
  <2> QED
    BY <2>1, <2>2 DEF StartDrain
<1> QED
  BY <1>2, <1>3, <1>5, <1>6 DEF Draining, Depth, Size

(* Leaving the drain unprimed means too little was buffered to prime. *)
LEMMA UnprimedStep ==
  ASSUME PathIInv, DrainUnprimed
  PROVE  Size(buffer) < SteadyTarget /\ Size(buffer) < HighTarget
<1>1. Size(buffer) \in Nat
  BY BufferFinite DEF PathIInv
<1>2. ~(Size(buffer) >= SteadyTarget)
  BY DEF DrainUnprimed, Primed
<1> QED
  BY <1>1, <1>2, TargetsPositive

(* A drain that runs dry found neither the next frame nor a gap that it    *)
(* may skip, so fewer packets than the target are left.                    *)
LEMMA DryBelowTarget ==
  ASSUME IInv, DrainDry
  PROVE  Size(buffer) < HighTarget
<1>1. Size(buffer) \in Nat
  BY BufferFinite
<1>2. CASE buffer = {}
  BY <1>2, SingletonSize, TargetsPositive
<1>3. CASE buffer # {}
  <2>1. OldestSequence(buffer) \in buffer
    BY <1>3, OldestIsLeast DEF IInv, TypeOK, NumbersOK
  <2>2. OldestSequence(buffer) \in Int /\ expected \in Int
    <3>1. OldestSequence(buffer) \in Seqs /\ expected \in Seqs
      BY <2>1 DEF IInv, TypeOK, NumbersOK
    <3> QED
      BY <3>1, JitterAssumption DEF Seqs
  <2>3. OldestSequence(buffer) # expected /\ expected <= OldestSequence(buffer)
    BY <2>1 DEF IInv, Ahead, DrainDry, Missing, HasNext
  <2>4. ~(Size(buffer) >= target)
    BY <1>3, <2>2, <2>3 DEF DrainDry, GapCanBeSkipped
  <2>5. target \in Nat /\ target <= HighTarget
    BY PipelineAssumption DEF IInv, TypeOK, NumbersOK, LowTarget, HighTarget
  <2> QED
    BY <1>1, <2>4, <2>5, TargetsPositive
<1> QED
  BY <1>2, <1>3

(* Inside the loop packets only leave the buffer; a refusal by the sink    *)
(* takes one out before it returns.                                        *)
LEMMA LoopStep ==
  ASSUME PathIInv, DrainLoop, phase = "drain", phase' = IF pc' = "idle" THEN "poll" ELSE "drain"
  PROVE  Draining' /\ Depth' /\ FastLockNeverJumps'
<1>1. IsFiniteSet(buffer) /\ Size(buffer) \in Nat /\ Size(buffer) <= HighTarget
  BY BufferFinite DEF PathIInv, Depth
<1>2. pc = "loop" /\ primed
  <2>1. pc = "loop"
    BY DEF DrainLoop, CatchUp, CatchUpGivesUp, SkipGap, Missing, Playable,
           DrainDry, DecodeFails, SinkRefuses, Submit
  <2> QED
    BY <2>1 DEF PathIInv, Draining
<1>3. /\ primed' = primed /\ skipped' = skipped
      /\ buffer' = buffer \/ buffer' = PopNext(buffer, expected)
  BY DEF DrainLoop, CatchUp, CatchUpGivesUp, SkipGap, DrainDry, DecodeFails, SinkRefuses,
         Submit, control, counters
<1>4. pc' = "loop" \/ (pc' = "idle" /\ (DrainDry \/ SinkRefuses))
  BY <1>2 DEF DrainLoop, CatchUp, CatchUpGivesUp, SkipGap, DrainDry, DecodeFails, SinkRefuses,
              Submit, ReturnFromDrain
<1>5. buffer' \in SUBSET buffer
  BY <1>3 DEF PopNext
<1>6. Size(buffer') \in Nat /\ Size(buffer') <= Size(buffer)
  BY <1>1, <1>5, SubsetSize
<1>7. CASE pc' = "loop"
  <2>1. phase' = "drain"
    BY <1>7
  <2>2. Size(buffer') <= HighTarget
    BY <1>1, <1>6, TargetsPositive
  <2> QED
    BY <1>2, <1>3, <2>1, <2>2 DEF Draining, Depth, FastLockNeverJumps, PathIInv, Size
<1>8. CASE DrainDry
  <2>1. pc' = "idle" /\ buffer' = buffer
    BY <1>8 DEF DrainDry, ReturnFromDrain
  <2>2. Size(buffer) < HighTarget
    BY <1>8, DryBelowTarget DEF PathIInv
  <2>3. Size(buffer') < HighTarget /\ Size(buffer') <= HighTarget
    BY <1>1, <2>1, <2>2, TargetsPositive DEF Size
  <2> QED
    BY <1>2, <1>3, <2>1, <2>3 DEF Draining, Depth, FastLockNeverJumps, PathIInv, Size
<1>9. CASE SinkRefuses
  <2>1. pc' = "idle" /\ expected \in buffer /\ buffer' = buffer \ {expected}
    BY <1>9 DEF SinkRefuses, ReturnFromDrain, Playable, HasNext, PopNext
  <2>2. Size(buffer \ {expected}) = Size(buffer) - 1
    BY <1>1, <2>1, PopSize
  <2>3. Size(buffer') = Size(buffer) - 1
    BY <2>1, <2>2 DEF Size
  <2>4. Size(buffer') < HighTarget /\ Size(buffer') <= HighTarget
    BY <1>1, <2>3, TargetsPositive
  <2> QED
    BY <1>2, <1>3, <2>1, <2>4 DEF Draining, Depth, FastLockNeverJumps, PathIInv, Size
<1> QED
  BY <1>4, <1>7, <1>8, <1>9

LEMMA WorkerStep ==
  ASSUME PathIInv, Drain \/ PollNothing
  PROVE  Sending' /\ Draining' /\ Depth' /\ FastLockNeverJumps'
<1>1. Sending'
  BY DEF Drain, PollNothing, PathIInv, Sending
<1>2. CASE PollNothing
  BY <1>1, <1>2 DEF PollNothing, vars, PathIInv, Draining, Depth, FastLockNeverJumps
<1>3. CASE Drain
  <2>1. phase = "drain" /\ phase' = IF pc' = "idle" THEN "poll" ELSE "drain"
    BY <1>3 DEF Drain
  <2>2. CASE DrainLoop
    BY <1>1, <2>1, <2>2, LoopStep
  <2>3. CASE StartDrain
    <3>1. phase' = "drain"
      BY <2>1, <2>3 DEF StartDrain
    <3> QED
      BY <1>1, <2>1, <2>3, <3>1, StartDrainStep
  <2>4. CASE DrainUnprimed
    <3>1. UNCHANGED <<buffer, pc, primed, skipped>> /\ pc = "idle" /\ ~primed
      BY <2>4 DEF DrainUnprimed, vars
    <3>2. Size(buffer) < SteadyTarget /\ Size(buffer) < HighTarget
      BY <2>4, UnprimedStep
    <3> QED
      BY <1>1, <2>1, <3>1, <3>2 DEF PathIInv, Draining, Depth, FastLockNeverJumps
  <2> QED
    BY <1>3, <2>2, <2>3, <2>4 DEF Drain, DrainStep, DrainLoop
<1> QED
  BY <1>1, <1>2, <1>3

LEMMA PathStepHolds ==
  ASSUME PathIInv, [PathNext]_pathVars
  PROVE  PathIInv'
<1>1. IInv'
  BY PathStepIsStep, StepIInv DEF PathIInv
<1>2. Sending' /\ Draining' /\ Depth' /\ FastLockNeverJumps'
  <2>1. CASE RestartHostd \/ SendFrame \/ SendLost
    BY <2>1, SenderStep
  <2>2. ASSUME NEW p \in net, PollPacket(p)
        PROVE  Sending' /\ Draining' /\ Depth' /\ FastLockNeverJumps'
    BY <2>2, PollStep
  <2>3. CASE Drain \/ PollNothing
    BY <2>3, WorkerStep
  <2>4. CASE UNCHANGED pathVars
    BY <2>4 DEF pathVars, vars, PathIInv, Sending, Draining, Depth, FastLockNeverJumps
  <2> QED
    BY <2>1, <2>2, <2>3, <2>4 DEF PathNext
<1> QED
  BY <1>1, <1>2 DEF PathIInv

(* The inductive invariant of the composition. *)
THEOREM PathInvariance == PathSpec => []PathIInv
BY PathInitHolds, PathStepHolds, PTL DEF PathSpec

-----------------------------------------------------------------------------
(* The worker thread of ClientSession, hostd and the network together do   *)
(* to the pipeline only what PlayerPipeline's arbitrary caller may do: the *)
(* theorems about its Spec hold on the whole path.                         *)
THEOREM PathImplementsPipeline == PathSpec => Spec
<1>1. PathInit => Init
  BY DEF PathInit
<1>2. PathIInv /\ [PathNext]_pathVars => [Next]_vars
  BY PathStepIsStep DEF PathIInv
<1> QED
  BY <1>1, <1>2, PathInvariance, PTL DEF PathSpec, Spec

(* Polling at most one packet per drain keeps the backlog below the        *)
(* largest jitter target whenever the worker waits for the network,        *)
(* whatever is lost, delayed, refused or undecodable.                      *)
THEOREM BacklogBoundHolds == PathSpec => []BacklogBounded
<1>1. PathIInv => BacklogBounded
  BY DEF PathIInv, Depth, BacklogBounded
<1> QED
  BY <1>1, PathInvariance, PTL

(* With a steady target below the start-up threshold, as by default, the   *)
(* start-up jump of FastLock never skips a packet.                         *)
THEOREM FastLockJumpUnreachable == PathSpec => []FastLockNeverJumps
<1>1. PathIInv => FastLockNeverJumps
  BY DEF PathIInv
<1> QED
  BY <1>1, PathInvariance, PTL

(* What the listener hears of the stream being played is an ordered        *)
(* play-out of the packets that arrived.                                   *)
THEOREM PathIsOrderedPlayout == PathSpec => RefinesOrderedPlayout
BY PathImplementsPipeline, Refinement, PTL

-----------------------------------------------------------------------------
(* What the types of the histories need: only frames hostd has sent are    *)
(* ever buffered, so only those are heard.                                 *)
Recording ==
    /\ burst \in 0 .. MaxBurst
    /\ buffer \subseteq 0 .. NumFrames - 1
    /\ heard \in [id : 0 .. NumStreams, seq : 0 .. NumFrames]
    /\ skips \in Nat

LEMMA RecordingStarts == PathInit => Recording
BY PathAssumption DEF PathInit, Init, Recording

LEMMA RecordingPolls ==
  ASSUME PathIInv, Recording, NEW p \in net, PollPacket(p)
  PROVE  Recording'
<1>1. p.id \in Streams /\ p.seq \in 0 .. NumFrames - 1
  BY DEF PathIInv, Sending, Datagrams
<1>2. PICK stale \in StaleOptions : PushPacket(p.id, p.seq, stale)
  BY DEF PollPacket
<1>3. buffer' \subseteq buffer \cup {p.seq}
  <2>1. CASE stale
    BY <1>2, <2>1 DEF PushPacket
  <2>2. CASE ~stale
    BY <1>2, <2>2 DEF PushPacket, Push
  <2> QED
    BY <2>1, <2>2
<1>4. UNCHANGED <<burst, heard, skips>>
  BY DEF PollPacket
<1> QED
  BY <1>1, <1>3, <1>4 DEF Recording

LEMMA RecordingDrains ==
  ASSUME PathIInv, Recording, Drain
  PROVE  Recording'
<1>1. burst' = burst
  BY DEF Drain
<1>2. buffer' \subseteq buffer
  <2>1. CASE StartDrain
    BY <2>1 DEF StartDrain, FastLock, DiscardBefore, PrimeSteady, AlreadyPrimed
  <2>2. CASE DrainUnprimed \/ CatchUpGivesUp \/ SkipGap \/ DrainDry
    BY <2>2 DEF DrainUnprimed, CatchUpGivesUp, SkipGap, DrainDry, vars
  <2>3. CASE CatchUp \/ DecodeFails \/ SinkRefuses \/ \E isLate \in BOOLEAN : Submit(isLate)
    BY <2>3 DEF CatchUp, DecodeFails, SinkRefuses, Submit, PopNext
  <2> QED
    BY <2>1, <2>2, <2>3 DEF Drain, DrainStep
<1>3. heard' \in [id : 0 .. NumStreams, seq : 0 .. NumFrames] /\ skips' \in Nat
  <2>1. CASE UNCHANGED heard /\ (UNCHANGED skips \/ skips' = skips + 1)
    BY <2>1 DEF Recording
  <2>2. ASSUME NEW isLate \in BOOLEAN, Submit(isLate),
               heard' = [id |-> stream, seq |-> expected], skips' = 0
        PROVE  heard' \in [id : 0 .. NumStreams, seq : 0 .. NumFrames] /\ skips' \in Nat
    <3>1. expected \in 0 .. NumFrames
      BY <2>2, PathAssumption DEF Submit, Playable, HasNext, Recording
    <3>2. stream \in 0 .. NumStreams
      BY PathAssumption DEF PathIInv, IInv, TypeOK, FlagsOK
    <3> QED
      BY <2>2, <3>1, <3>2
  <2> QED
    BY <2>1, <2>2 DEF Drain, DrainStep
<1> QED
  BY <1>1, <1>2, <1>3 DEF Recording

LEMMA RecordingHolds ==
  ASSUME PathIInv, Recording, [PathNext]_pathVars
  PROVE  Recording'
<1>1. CASE RestartHostd \/ SendFrame \/ SendLost \/ PollNothing \/ UNCHANGED pathVars
  <2>1. UNCHANGED <<buffer, heard, skips>>
    BY <1>1 DEF RestartHostd, SendFrame, SendLost, PollNothing, pathVars, vars
  <2>2. burst' \in 0 .. MaxBurst
    BY <1>1, PathAssumption DEF RestartHostd, SendFrame, SendLost, PollNothing,
                                pathVars, Recording
  <2> QED
    BY <2>1, <2>2 DEF Recording
<1>2. ASSUME NEW p \in net, PollPacket(p) PROVE Recording'
  BY <1>2, RecordingPolls
<1>3. CASE Drain
  BY <1>3, RecordingDrains
<1> QED
  BY <1>1, <1>2, <1>3 DEF PathNext

(* Every variable of the composition keeps its type: the worker never      *)
(* plays a frame that hostd did not send.                                  *)
THEOREM PathTypes == PathSpec => []PathTypeOK
<1>1. PathIInv /\ Recording => PathTypeOK
  BY DEF PathIInv, IInv, Sending, Draining, Recording, PathTypeOK
<1>2. PathSpec => []Recording
  <2>1. PathIInv /\ Recording /\ [PathNext]_pathVars => Recording'
    BY RecordingHolds
  <2> QED
    BY <2>1, RecordingStarts, PathInvariance, PTL DEF PathSpec
<1> QED
  BY <1>1, <1>2, PathInvariance, PTL
=============================================================================
