----------------------------- MODULE AudioPath -----------------------------
(***************************************************************************)
(* The audio path from hostd to the play-out: the send loop of hostd, the  *)
(* datagram network, and ClientSession's worker thread driving the player  *)
(* pipeline.                                                               *)
(*                                                                         *)
(* hostd numbers its frames from 0 and stops when it is told to; each run  *)
(* of it uses another stream id.  The network loses at most MaxBurst       *)
(* frames in a row, none of the last CleanTail of a stream, and delays a   *)
(* datagram past fewer than MaxDelay later frames of the sender, so it     *)
(* also reorders; datagrams of an earlier run of hostd may still arrive    *)
(* after those of a later one.  The worker polls for one datagram, pushes  *)
(* it, and drains, forever.                                                *)
(*                                                                         *)
(* Stream ids are numbered in the order in which hostd used them; the      *)
(* pipeline only compares them for equality.                               *)
(***************************************************************************)
EXTENDS PlayerPipeline

CONSTANTS
    NumStreams,   \* bound of the model: how often hostd is started
    NumFrames,    \* bound of the model: frames of one run of hostd
    MaxDelay,     \* how many frames a datagram may be delayed by
    MaxBurst,     \* how many frames in a row the network may lose
    CleanTail,    \* how many frames at the end of a stream meet no fault
    Faults        \* may the decoder and the sink fail before that

ASSUME PathAssumption ==
    /\ NumStreams \in Nat
    /\ Streams = 1 .. NumStreams
    /\ NoStream = 0
    /\ NumFrames \in 1 .. MaxSeq
    /\ MaxDelay \in Nat \ {0}
    /\ MaxBurst \in Nat
    /\ CleanTail \in 0 .. NumFrames
    /\ Faults \in BOOLEAN
    /\ MaxReceived >= NumStreams * NumFrames  \* so that it never binds

VARIABLES
    src,      \* hostd: MakeStreamId() of the run in progress, 0 before the first
    sent,     \* hostd: its local variable sequence
    net,      \* datagrams in flight: records [id, seq]
    burst,    \* how many frames the network has just lost in a row
    phase,    \* the worker: "poll" before PollOne, "drain" before or in DrainReady
    heard,    \* history: the frame last accepted by the sink
    skips     \* history: frames discarded by catch-up since then

pathVars == <<vars, src, sent, net, burst, phase, heard, skips>>

Datagrams == [id : Streams, seq : 0 .. NumFrames - 1]

InTail(s) == s >= NumFrames - CleanTail

PathInit ==
    /\ Init
    /\ src = 0 /\ sent = 0
    /\ net = {} /\ burst = 0
    /\ phase = "poll"
    /\ heard = [id |-> 0, seq |-> 0]
    /\ skips = 0

-----------------------------------------------------------------------------
(* hostd and the network *)

(* hostd is started again, after its previous run stopped or was killed. *)
RestartHostd ==
    /\ src < NumStreams
    /\ src' = src + 1
    /\ sent' = 0
    /\ burst' = 0
    /\ UNCHANGED <<vars, net, phase, heard, skips>>

(* How many frames hostd has sent since datagram p, those of p's own run   *)
(* left out if hostd was restarted since.                                  *)
Age(p) == IF p.id = src THEN sent - p.seq ELSE sent

(* Mutant of CanSend: the send loop runs once too often. *)
CanSendOneMore ==
    /\ src # 0 /\ sent <= NumFrames
    /\ \A p \in net : Age(p) < MaxDelay

CanSend ==
    /\ src # 0 /\ sent < NumFrames
    /\ \A p \in net : Age(p) < MaxDelay

SendFrame ==
    /\ CanSend
    /\ net' = net \cup {[id |-> src, seq |-> sent]}
    /\ sent' = sent + 1
    /\ burst' = 0
    /\ UNCHANGED <<vars, src, phase, heard, skips>>

(* Send succeeds, and the network loses the datagram. *)
SendLost ==
    /\ CanSend
    /\ burst < MaxBurst /\ ~InTail(sent)
    /\ sent' = sent + 1
    /\ burst' = burst + 1
    /\ UNCHANGED <<vars, src, net, phase, heard, skips>>

-----------------------------------------------------------------------------
(* ClientSession::Run *)

(* PollOne returns a datagram; the worker pushes it. *)
PollPacket(p) ==
    /\ phase = "poll"
    /\ p \in net
    /\ \E stale \in StaleOptions :
          (stale => ~InTail(p.seq)) /\ PushPacket(p.id, p.seq, stale)
    /\ net' = net \ {p}
    /\ phase' = "drain"
    /\ UNCHANGED <<src, sent, burst, heard, skips>>

(* PollOne times out, or its datagram is not from the allowed sender or    *)
(* not an audio packet.                                                    *)
PollNothing ==
    /\ phase = "poll"
    /\ phase' = "drain"
    /\ UNCHANGED <<vars, src, sent, net, burst, heard, skips>>

(* One step of DrainReady, with what it lets the listener hear. *)
DrainStep ==
    \/ /\ StartDrain \/ DrainUnprimed \/ CatchUpGivesUp \/ SkipGap \/ DrainDry
       /\ UNCHANGED <<heard, skips>>
    \/ CatchUp /\ skips' = skips + 1 /\ UNCHANGED heard
    \/ /\ Faults /\ ~InTail(expected)
       /\ DecodeFails \/ SinkRefuses
       /\ UNCHANGED <<heard, skips>>
    \/ /\ \E isLate \in BOOLEAN : Submit(isLate)
       /\ heard' = [id |-> stream, seq |-> expected]
       /\ skips' = 0

(* The drain is over when DrainReady is left; then the worker polls again. *)
Drain ==
    /\ phase = "drain"
    /\ DrainStep
    /\ phase' = IF pc' = "idle" THEN "poll" ELSE "drain"
    /\ UNCHANGED <<src, sent, net, burst>>

PathNext ==
    \/ RestartHostd
    \/ SendFrame
    \/ SendLost
    \/ \E p \in net : PollPacket(p)
    \/ PollNothing
    \/ Drain

PathSpec == PathInit /\ [][PathNext]_pathVars

(* The worker thread keeps running, and while datagrams are on their way   *)
(* or queued in the socket, PollOne sometimes returns one: it may time out *)
(* in between, but not forever.  Nothing is assumed of hostd.              *)
FairPathSpec ==
    /\ PathSpec
    /\ WF_pathVars(Drain)
    /\ SF_pathVars(\E p \in net : PollPacket(p))

-----------------------------------------------------------------------------
(* Type invariant of the composition. *)
PathTypeOK ==
    /\ TypeOK
    /\ src \in 0 .. NumStreams
    /\ sent \in 0 .. NumFrames
    /\ net \subseteq Datagrams
    /\ burst \in 0 .. MaxBurst
    /\ phase \in {"poll", "drain"}
    /\ heard \in [id : 0 .. NumStreams, seq : 0 .. NumFrames]
    /\ skips \in Nat

(* Between two drains the worker never holds as many packets as the        *)
(* largest jitter target: the buffer, and the delay it adds, stay bounded  *)
(* by the configured depth and not by the far larger window, whatever the  *)
(* network, the decoder and the sink do.                                   *)
BacklogBounded == phase = "poll" => Size(buffer) < HighTarget

(* With the worker draining after every packet, a steady target below the  *)
(* start-up threshold always primes first: the FastLock jump, although     *)
(* enabled by default, never skips anything.                               *)
FastLockNeverJumps == SteadyTarget < StartupBuffer => skipped = 0

(* No lasting silence: the stream hostd stays with is heard to its last    *)
(* frame, whatever was lost, reordered, refused or left over of an earlier *)
(* stream before its clean tail (DESIGN.md: no permanent silence after a   *)
(* loss, nor after a restart of the sender).                               *)
TailHeard ==
    \A id \in Streams :
        <>[](src = id /\ sent = NumFrames)
            => <>(heard = [id |-> id, seq |-> NumFrames - 1])

(* Catch-up takes small steps: it never discards more than                 *)
(* max_catchup_per_drain frames in a row without one being heard.          *)
SmallCatchUp == skips <= MaxCatchup

(* The pipeline is reset by a stream that starts, not by one that ended:   *)
(* it never goes back to an earlier run of hostd.                          *)
(* The code does otherwise.                                                *)
OnlyNewStreamResets == [][stream' # stream => stream' > stream]_pathVars
=============================================================================
