--------------------------- MODULE ReceiversProofs ---------------------------
(* The programs that own a ClientSession, and the session under any owner: *)
(* what the runs check on small instances, for any number of calls, taps   *)
(* and ticks.                                                              *)
EXTENDS RingProofs

\* Two sequences written out are one.
LEMMA ConcatIs ==
  ASSUME NEW S, NEW a \in Seq(S), NEW b \in Seq(S), NEW c \in Seq(S),
         Len(c) = Len(a) + Len(b),
         \A i \in 1..Len(a) : c[i] = a[i],
         \A i \in 1..Len(b) : c[Len(a) + i] = b[i]
  PROVE  a \o b = c
<1>1. a \o b \in Seq(S) /\ Len(a \o b) = Len(c)
  BY ConcatProperties
<1>2. \A i \in 1..Len(c) : (a \o b)[i] = c[i]
  <2> TAKE i \in 1..Len(c)
  <2>1. CASE i <= Len(a)
    BY <2>1, ConcatProperties
  <2>2. CASE i > Len(a)
    <3>1. i - Len(a) \in 1..Len(b) /\ Len(a) + (i - Len(a)) = i
      BY <2>2
    <3> QED
      BY <3>1, <2>2, ConcatProperties
  <2> QED
    BY <2>1, <2>2
<1> QED
  BY <1>1, <1>2, SeqEqual

-----------------------------------------------------------------------------
(* The session.                                                            *)

(* NeverAborts is not inductive: what keeps Start from replacing the       *)
(* thread object is that whoever has one also has the port.                *)
ThreadHasPort == worker # "none" => socket = "bound"

SessionInv == TypeOK /\ ThreadHasPort /\ NeverAborts

LEMMA SessionStart == Init => SessionInv
<1> SUFFICES ASSUME Init PROVE SessionInv
  OBVIOUS
<1>1. calls \in 0..MaxCalls
  BY CallsAssumption DEF Init
<1> QED
  BY <1>1
  DEF Init, NewSession, SessionInv, TypeOK, Alive, ThreadHasPort, NeverAborts

LEMMA SessionStartKeeps == SessionInv /\ OwnerStarts => SessionInv'
<1> SUFFICES ASSUME SessionInv, OwnerStarts PROVE SessionInv'
  OBVIOUS
<1> USE DEF SessionInv, TypeOK, Alive, ThreadHasPort, NeverAborts, Call
<1>1. calls' \in 0..MaxCalls /\ owner' \in {"idle", "joining"}
  BY CallsAssumption DEF OwnerStarts
<1>2. CASE StartRunning /\ started' = TRUE /\ UNCHANGED aborted
  BY <1>1, <1>2 DEF StartRunning, session
<1>3. CASE StartFails /\ started' = FALSE /\ UNCHANGED aborted
  BY <1>1, <1>3 DEF StartFails, BindFails
<1>4. CASE StartWorker /\ started' = TRUE /\ aborted' = (worker # "none")
  <2>1. worker = "none" /\ socket' = "bound" /\ worker' = "boot" /\ running' = TRUE
    BY <1>4 DEF StartWorker, BindSucceeds
  <2>2. ~aborted'
    BY <1>4, <2>1
  <2> QED
    BY <1>1, <1>4, <2>1, <2>2
<1> QED
  BY <1>2, <1>3, <1>4 DEF OwnerStarts

LEMMA SessionStopKeeps == SessionInv /\ (OwnerStops \/ OwnerJoins) => SessionInv'
<1> USE DEF SessionInv, TypeOK, Alive, ThreadHasPort, NeverAborts
<1>1. SessionInv /\ OwnerStops => SessionInv'
  <2> SUFFICES ASSUME SessionInv, OwnerStops PROVE SessionInv'
    OBVIOUS
  <2>1. calls' \in 0..MaxCalls
    BY CallsAssumption DEF OwnerStops, Call
  <2> QED
    BY <2>1 DEF OwnerStops, StopSignals
<1>2. SessionInv /\ OwnerJoins => SessionInv'
  BY DEF OwnerJoins, Joined
<1> QED
  BY <1>1, <1>2

LEMMA SessionWorkerKeeps == SessionInv /\ Worker => SessionInv'
<1> SUFFICES ASSUME SessionInv, Worker PROVE SessionInv'
  OBVIOUS
<1> USE DEF SessionInv, TypeOK, Alive, ThreadHasPort, NeverAborts
<1>1. UNCHANGED <<owner, started, aborted, calls, socket>> /\ socket = "bound"
  BY DEF Worker, WorkerBoots, WorkerHasNoDecoder, WorkerChecks, WorkerPolls,
         WorkerDrains
<1>2. CASE WorkerBoots
  BY <1>1, <1>2 DEF WorkerBoots
<1>3. CASE WorkerHasNoDecoder
  BY <1>1, <1>3 DEF WorkerHasNoDecoder
<1>4. CASE WorkerChecks
  BY <1>1, <1>4 DEF WorkerChecks
<1>5. CASE WorkerPolls \/ WorkerDrains
  BY <1>1, <1>5 DEF WorkerPolls, WorkerDrains
<1> QED
  BY <1>2, <1>3, <1>4, <1>5 DEF Worker

LEMMA SessionKeeps == SessionInv /\ [Next]_vars => SessionInv'
<1>1. SessionInv /\ UNCHANGED vars => SessionInv'
  BY DEF vars, SessionInv, TypeOK, Alive, ThreadHasPort, NeverAborts
<1> QED
  BY <1>1, SessionStartKeeps, SessionStopKeeps, SessionWorkerKeeps DEF Next

(* Start and Stop in any order and number, and a worker that may end by    *)
(* itself at once or later: a running session has its port, and Start      *)
(* never assigns to a thread that is still joinable (std::terminate).      *)
THEOREM SessionSafe == Spec => [](TypeOK /\ NeverAborts)
<1>1. SessionInv => TypeOK /\ NeverAborts
  BY DEF SessionInv
<1> QED
  BY <1>1, SessionStart, SessionKeeps, PTL DEF Spec

-----------------------------------------------------------------------------
(* The HarmonyOS bridge.  The invariant follows the calls that are still   *)
(* to be made: from the join on there is no session, from freeSink on no   *)
(* sink, until they are made anew.                                         *)
NoSession == Harmony!S!NewSession

HarmonyPoint ==
  \/ todo = <<>> /\ (state # "running" => NoSession /\ sink = Harmony!NoSink)
  \/ \E last \in {"open", "idle"} :
       \/ todo = <<"signal", "join", "stopSink", "freeSink", last>>
       \/ todo = <<"join", "stopSink", "freeSink", last>>
       \/ todo = <<"stopSink", "freeSink", last>> /\ NoSession
       \/ todo = <<"freeSink", last>> /\ NoSession
       \/ todo = <<last>> /\ NoSession /\ sink = Harmony!NoSink
  \/ todo = <<"session">> /\ NoSession /\ sink.renderer
  \/ todo = <<"freeSink", "failed">> /\ NoSession
  \/ todo = <<"failed">> /\ NoSession /\ sink = Harmony!NoSink
  \/ todo = <<"startSink", "running">> /\ sink.renderer
  \/ todo = <<"running">>

Sinks == [live : BOOLEAN, builder : BOOLEAN, renderer : BOOLEAN, started : BOOLEAN]

HarmonyInv == Harmony!TypeOK /\ sink \in Sinks /\ HarmonyPoint

LEMMA HarmonyStart == Harmony!Init => HarmonyInv
<1> SUFFICES ASSUME Harmony!Init PROVE HarmonyInv
  OBVIOUS
<1>1. HarmonyPoint
  BY DEF Harmony!Init, HarmonyPoint, NoSession
<1>2. calls \in 0..MaxCalls
  BY CallsAssumption DEF Harmony!Init
<1> QED
  BY <1>1, <1>2 DEF Harmony!Init, HarmonyInv, Harmony!TypeOK, Harmony!NoSink, Sinks

LEMMA HarmonyCalls ==
  ASSUME NEW last \in {"open", "idle"}
  PROVE  Harmony!StopCalls \o <<last>> = <<"signal", "join", "stopSink", "freeSink", last>>
<1> DEFINE Step == {"signal", "join", "stopSink", "freeSink", last}
           s == <<"signal", "join", "stopSink", "freeSink">>
           t == <<"signal", "join", "stopSink", "freeSink", last>>
<1>1. s \in Seq(Step) /\ <<last>> \in Seq(Step) /\ t \in Seq(Step)
  OBVIOUS
<1>2. /\ Len(s \o <<last>>) = 5
      /\ \A i \in 1..5 : (s \o <<last>>)[i] = IF i <= 4 THEN s[i] ELSE last
  BY <1>1, ConcatProperties
<1>3. \A i \in 1..5 : (s \o <<last>>)[i] = t[i]
  BY <1>2
<1>4. s \o <<last>> = t
  BY <1>1, <1>2, <1>3, ConcatProperties, SeqEqual
<1> QED
  BY <1>4 DEF Harmony!StopCalls

LEMMA HarmonyCallKeeps == HarmonyInv /\ Harmony!Call => HarmonyInv'
<1> SUFFICES ASSUME HarmonyInv, Harmony!Call PROVE HarmonyInv'
  OBVIOUS
<1>1. PICK last \in {"open", "idle"} : todo' =
               <<"signal", "join", "stopSink", "freeSink", last>>
  BY HarmonyCalls DEF Harmony!Call
<1>2. HarmonyPoint'
  BY <1>1 DEF HarmonyPoint
<1> QED
  BY <1>2, CallsAssumption
  DEF HarmonyInv, Harmony!TypeOK, Harmony!Call, Harmony!system

LEMMA HarmonyStopKeeps ==
  HarmonyInv /\ (Harmony!Signal \/ Harmony!Join \/ Harmony!StopSink \/ Harmony!FreeSink)
    => HarmonyInv'
<1>1. HarmonyInv /\ Harmony!Signal => HarmonyInv'
  <2> SUFFICES ASSUME HarmonyInv, Harmony!Signal PROVE HarmonyInv'
    OBVIOUS
  <2>1. PICK last \in {"open", "idle"} : todo =
                 <<"signal", "join", "stopSink", "freeSink", last>>
    BY DEF HarmonyInv, HarmonyPoint, Harmony!Signal, Harmony!Does
  <2>tail. todo' = <<"join", "stopSink", "freeSink", last>>
    BY <2>1 DEF Harmony!Signal
  <2>2. HarmonyPoint'
    BY <2>1, <2>tail DEF HarmonyPoint
  <2> QED
    BY <2>2 DEF HarmonyInv, Harmony!TypeOK, Harmony!Signal, Harmony!system
<1>2. HarmonyInv /\ Harmony!Join => HarmonyInv'
  <2> SUFFICES ASSUME HarmonyInv, Harmony!Join PROVE HarmonyInv'
    OBVIOUS
  <2>1. PICK last \in {"open", "idle"} : todo = <<"join", "stopSink", "freeSink", last>>
    BY DEF HarmonyInv, HarmonyPoint, Harmony!Join, Harmony!Does
  <2>tail. todo' = <<"stopSink", "freeSink", last>>
    BY <2>1 DEF Harmony!Join
  <2>2. NoSession'
    BY DEF Harmony!Join, NoSession, Harmony!S!NewSession
  <2>3. HarmonyPoint'
    BY <2>1, <2>2, <2>tail DEF HarmonyPoint
  <2> QED
    BY <2>3 DEF HarmonyInv, Harmony!TypeOK, Harmony!Join, Harmony!system
<1>3. HarmonyInv /\ Harmony!StopSink => HarmonyInv'
  <2> SUFFICES ASSUME HarmonyInv, Harmony!StopSink PROVE HarmonyInv'
    OBVIOUS
  <2>1. PICK last \in {"open", "idle"} : todo =
                 <<"stopSink", "freeSink", last>> /\ NoSession
    BY DEF HarmonyInv, HarmonyPoint, Harmony!StopSink, Harmony!Does
  <2>tail. todo' = <<"freeSink", last>>
    BY <2>1 DEF Harmony!StopSink
  <2>2. NoSession'
    BY <2>1 DEF Harmony!StopSink, Harmony!sess, NoSession, Harmony!S!NewSession
  <2>3. HarmonyPoint'
    BY <2>1, <2>2, <2>tail DEF HarmonyPoint
  <2>4. /\ sink' \in Sinks /\ ~sink'.started /\ sink'.builder = sink.builder
        /\ sink'.renderer = sink.renderer
    BY DEF HarmonyInv, Harmony!StopSink, Sinks
  <2>5. sounding' = FALSE
    BY DEF HarmonyInv, Harmony!TypeOK, Harmony!StopSink
  <2> QED
    BY <2>3, <2>4, <2>5 DEF HarmonyInv, Harmony!TypeOK, Harmony!StopSink, Sinks
<1>4. HarmonyInv /\ Harmony!FreeSink => HarmonyInv'
  <2> SUFFICES ASSUME HarmonyInv, Harmony!FreeSink PROVE HarmonyInv'
    OBVIOUS
  <2>1. PICK last \in {"open", "idle", "failed"} : todo = <<"freeSink", last>> /\ NoSession
    BY DEF HarmonyInv, HarmonyPoint, Harmony!FreeSink, Harmony!Does
  <2>tail. todo' = <<last>>
    BY <2>1 DEF Harmony!FreeSink
  <2>2. NoSession' /\ sink' = Harmony!NoSink
    BY <2>1
    DEF Harmony!FreeSink, Harmony!Frees, Harmony!sess, NoSession,
        Harmony!S!NewSession
  <2>3. HarmonyPoint'
    BY <2>1, <2>2, <2>tail DEF HarmonyPoint
  <2>4. builders' = 0 /\ renderers' = 0
    BY DEF HarmonyInv, Harmony!TypeOK, Harmony!FreeSink, Harmony!Frees
  <2>5. sounding' = FALSE
    <3>1. ~(sounding /\ ~sink.renderer)
      BY DEF HarmonyInv, Harmony!TypeOK
    <3> QED
      BY <3>1 DEF Harmony!FreeSink, Harmony!Frees
  <2> QED
    BY <2>2, <2>3, <2>4, <2>5
    DEF HarmonyInv, Harmony!TypeOK, Harmony!FreeSink, Harmony!NoSink, Sinks
<1> QED
  BY <1>1, <1>2, <1>3, <1>4

LEMMA HarmonyOpenKeeps == HarmonyInv /\ Harmony!Open => HarmonyInv'
<1> SUFFICES ASSUME HarmonyInv, Harmony!Open PROVE HarmonyInv'
  OBVIOUS
<1>1. NoSession /\ sink = Harmony!NoSink
  BY DEF HarmonyInv, HarmonyPoint, Harmony!Open, Harmony!Does
<1>2. NoSession'
  BY <1>1 DEF Harmony!Open, Harmony!sess, NoSession, Harmony!S!NewSession
<1>3. builders = 0 /\ renderers = 0 /\ sounding' = FALSE
  BY <1>1 DEF HarmonyInv, Harmony!TypeOK, Harmony!NoSink, Harmony!Open
<1>4. PICK made \in 0..2 :
        /\ sink' =
               [live |-> TRUE, builder |-> made > 0, renderer |-> made = 2, started |-> FALSE]
        /\ builders' = IF made > 0 THEN builders + 1 ELSE builders
        /\ renderers' = IF made = 2 THEN renderers + 1 ELSE renderers
        /\ todo' = IF made = 2 THEN <<"session">> ELSE <<"freeSink", "failed">>
  BY DEF Harmony!Open
<1>5. sink' \in Sinks /\ sink'.started = FALSE
  BY <1>4 DEF Sinks
<1>made. (sink'.builder <=> made > 0) /\ (sink'.renderer <=> made = 2)
  BY <1>4, Zenon
<1>6. HarmonyPoint'
  BY <1>2, <1>4, <1>made DEF HarmonyPoint
<1>7. /\ builders' = (IF sink'.builder THEN 1 ELSE 0)
      /\ renderers' = (IF sink'.renderer THEN 1 ELSE 0)
  <2>1. CASE made > 0
    BY <2>1, <1>3, <1>4, <1>made
  <2>2. CASE made = 0
    BY <2>2, <1>3, <1>4, <1>made
  <2> QED
    BY <2>1, <2>2
<1> QED
  BY <1>3, <1>5, <1>6, <1>7 DEF HarmonyInv, Harmony!TypeOK, Harmony!Open

LEMMA HarmonyStartKeeps ==
  HarmonyInv /\ (Harmony!StartSession \/ Harmony!StartSink \/ Harmony!SetState)
    => HarmonyInv'
<1>1. HarmonyInv /\ Harmony!StartSession => HarmonyInv'
  <2> SUFFICES ASSUME HarmonyInv, Harmony!StartSession PROVE HarmonyInv'
    OBVIOUS
  <2>1. /\ NoSession /\ sink.renderer
        /\ UNCHANGED <<sink, builders, renderers, sounding, state, calls>>
    BY DEF HarmonyInv, HarmonyPoint, Harmony!StartSession, Harmony!Does,
           Harmony!system
  <2>2. CASE todo' = <<"startSink", "running">>
    BY <2>1, <2>2 DEF HarmonyInv, HarmonyPoint, Harmony!TypeOK
  <2>3. CASE UNCHANGED Harmony!sess /\ todo' = <<"freeSink", "failed">>
    <3>1. NoSession'
      BY <2>1, <2>3 DEF Harmony!sess, NoSession, Harmony!S!NewSession
    <3> QED
      BY <2>1, <2>3, <3>1 DEF HarmonyInv, HarmonyPoint, Harmony!TypeOK
  <2> QED
    BY <2>2, <2>3 DEF Harmony!StartSession
<1>2. HarmonyInv /\ Harmony!StartSink => HarmonyInv'
  <2> SUFFICES ASSUME HarmonyInv, Harmony!StartSink PROVE HarmonyInv'
    OBVIOUS
  <2>1. todo = <<"startSink", "running">> /\ sink.renderer
    BY DEF HarmonyInv, HarmonyPoint, Harmony!StartSink, Harmony!Does
  <2>tail. todo' = <<"running">>
    BY <2>1 DEF Harmony!StartSink
  <2>2. /\ sink' \in Sinks /\ sink'.builder = sink.builder /\ sink'.renderer = sink.renderer
        /\ sounding' = sink'.started
    BY DEF HarmonyInv, Harmony!TypeOK, Harmony!StartSink, Sinks
  <2>3. HarmonyPoint'
    BY <2>1, <2>tail DEF HarmonyPoint
  <2> QED
    BY <2>1, <2>2, <2>3 DEF HarmonyInv, Harmony!TypeOK, Harmony!StartSink
<1>3. HarmonyInv /\ Harmony!SetState => HarmonyInv'
  <2> SUFFICES ASSUME HarmonyInv, Harmony!SetState PROVE HarmonyInv'
    OBVIOUS
  <2>1. PICK s \in {"idle", "running", "failed"} : 
             todo # <<>> /\ Head(todo) = s /\ state' = s
    BY DEF Harmony!SetState, Harmony!Does
  <2>2. todo' = <<>> /\ (s # "running" => NoSession /\ sink = Harmony!NoSink)
    BY <2>1 DEF HarmonyInv, HarmonyPoint, Harmony!SetState
  <2>3. UNCHANGED <<socket, running, worker, sink, builders, renderers, sounding, calls>>
    BY DEF Harmony!SetState, Harmony!sess, Harmony!system
  <2>4. s # "running" => NoSession' /\ sink' = Harmony!NoSink
    BY <2>2, <2>3 DEF NoSession, Harmony!S!NewSession
  <2> QED
    BY <2>1, <2>2, <2>3, <2>4 DEF HarmonyInv, HarmonyPoint, Harmony!TypeOK
<1> QED
  BY <1>1, <1>2, <1>3

LEMMA HarmonyWorkerKeeps == HarmonyInv /\ Harmony!WorkerStep => HarmonyInv'
<1> SUFFICES ASSUME HarmonyInv, Harmony!WorkerStep PROVE HarmonyInv'
  OBVIOUS
<1>1. ~NoSession
  BY DEF Harmony!WorkerStep, NoSession, Harmony!S!NewSession, Harmony!S!WorkerBoots,
         Harmony!S!WorkerHasNoDecoder, Harmony!S!WorkerChecks,
         Harmony!S!WorkerPolls, Harmony!S!WorkerDrains
<1>2. UNCHANGED <<todo, sink, builders, renderers, sounding, state, calls>>
  BY DEF Harmony!WorkerStep, Harmony!system
<1> QED
  BY <1>1, <1>2 DEF HarmonyInv, Harmony!TypeOK, HarmonyPoint

-----------------------------------------------------------------------------
(* The Android service.  Between its join and the next nativeStart there   *)
(* is no session, and after the pause that follows the join the track is   *)
(* silent, because only a worker would start it.                           *)
NoOpenSession == Android!S!NewSession

Silent == NoOpenSession /\ ~playing

\* What the main thread may still have to do before its join,
BeforeJoin ==
  { <<"starting", "signal", "join", "pause", "signal", "join", "create">>,
    <<"signal", "join", "pause", "signal", "join", "create">>,
    <<"signal", "join", "pause", "stopped", "stopSelf">>,
    <<"signal", "join", "pause", "stopped", "stopSelf", "gone">>,
    <<"join", "pause", "signal", "join", "create">>,
    <<"join", "pause", "stopped", "stopSelf">>,
    <<"join", "pause", "stopped", "stopSelf", "gone">>,
    <<"play", "listening">>, <<"listening">> }

\* between the join and the pause,
BeforePause ==
  { <<"pause", "signal", "join", "create">>,
    <<"pause", "stopped", "stopSelf">>,
    <<"pause", "stopped", "stopSelf", "gone">> }

\* and from the pause on.
AfterPause ==
  { <<"signal", "join", "create">>, <<"join", "create">>, <<"create">>,
    <<"failed", "signal", "join", "pause", "stopSelf">>,
    <<"signal", "join", "pause", "stopSelf">>, <<"join", "pause", "stopSelf">>,
    <<"pause", "stopSelf">>, <<"stopSelf">>,
    <<"stopped", "stopSelf">>, <<"stopped", "stopSelf", "gone">>,
    <<"stopSelf", "gone">>, <<"gone">> }

AndroidPoint ==
  \/ todo = <<>> /\ (status # "listening" => Silent)
  \/ todo \in BeforeJoin
  \/ todo \in BeforePause /\ NoOpenSession
  \/ todo \in AfterPause /\ Silent

AndroidInv == Android!TypeOK /\ AndroidPoint

\* The calls of each message, written out.
LEMMA AndroidCalls ==
  /\ \A m \in {"start", "stop", "destroy"} : Android!Handler(m) \in BeforeJoin
  /\ <<"failed">> \o Android!StopCalls \o <<"stopSelf">> =
       <<"failed", "signal", "join", "pause", "stopSelf">>
<1> DEFINE Words == {"starting", "failed", "signal", "join", "pause", "create", "stopped",
          "stopSelf", "gone"}
<1>1. <<"starting">> \o <<"signal", "join", "pause">> =
          <<"starting", "signal", "join", "pause">>
  <2> DEFINE a == <<"starting">>
             b == <<"signal", "join", "pause">>
             c == <<"starting", "signal", "join", "pause">>
  <2>1. a \in Seq(Words) /\ b \in Seq(Words) /\ c \in Seq(Words)
    OBVIOUS
  <2>2. Len(c) = Len(a) + Len(b) /\ \A i \in 1..Len(a) : c[i] = a[i]
    OBVIOUS
  <2>3. \A i \in 1..Len(b) : c[Len(a) + i] = b[i]
    OBVIOUS
  <2> HIDE DEF a, b, c, Words
  <2>4. a \o b = c
    BY <2>1, <2>2, <2>3, ConcatIs
  <2> QED
    BY <2>4 DEF a, b, c
<1>2. <<"failed">> \o <<"signal", "join", "pause">> =
          <<"failed", "signal", "join", "pause">>
  <2> DEFINE a == <<"failed">>
             b == <<"signal", "join", "pause">>
             c == <<"failed", "signal", "join", "pause">>
  <2>1. a \in Seq(Words) /\ b \in Seq(Words) /\ c \in Seq(Words)
    OBVIOUS
  <2>2. Len(c) = Len(a) + Len(b) /\ \A i \in 1..Len(a) : c[i] = a[i]
    OBVIOUS
  <2>3. \A i \in 1..Len(b) : c[Len(a) + i] = b[i]
    OBVIOUS
  <2> HIDE DEF a, b, c, Words
  <2>4. a \o b = c
    BY <2>1, <2>2, <2>3, ConcatIs
  <2> QED
    BY <2>4 DEF a, b, c
<1>3. <<"starting", "signal", "join", "pause">> \o <<"signal", "join", "create">> =
          <<"starting", "signal", "join", "pause", "signal", "join", "create">>
  <2> DEFINE a == <<"starting", "signal", "join", "pause">>
             b == <<"signal", "join", "create">>
             c == <<"starting", "signal", "join", "pause", "signal", "join", "create">>
  <2>1. a \in Seq(Words) /\ b \in Seq(Words) /\ c \in Seq(Words)
    OBVIOUS
  <2>2. Len(c) = Len(a) + Len(b) /\ \A i \in 1..Len(a) : c[i] = a[i]
    OBVIOUS
  <2>3. \A i \in 1..Len(b) : c[Len(a) + i] = b[i]
    OBVIOUS
  <2> HIDE DEF a, b, c, Words
  <2>4. a \o b = c
    BY <2>1, <2>2, <2>3, ConcatIs
  <2> QED
    BY <2>4 DEF a, b, c
<1>4. <<"signal", "join", "pause">> \o <<"stopped", "stopSelf">> =
          <<"signal", "join", "pause", "stopped", "stopSelf">>
  <2> DEFINE a == <<"signal", "join", "pause">>
             b == <<"stopped", "stopSelf">>
             c == <<"signal", "join", "pause", "stopped", "stopSelf">>
  <2>1. a \in Seq(Words) /\ b \in Seq(Words) /\ c \in Seq(Words)
    OBVIOUS
  <2>2. Len(c) = Len(a) + Len(b) /\ \A i \in 1..Len(a) : c[i] = a[i]
    OBVIOUS
  <2>3. \A i \in 1..Len(b) : c[Len(a) + i] = b[i]
    OBVIOUS
  <2> HIDE DEF a, b, c, Words
  <2>4. a \o b = c
    BY <2>1, <2>2, <2>3, ConcatIs
  <2> QED
    BY <2>4 DEF a, b, c
<1>5. <<"signal", "join", "pause">> \o <<"stopped", "stopSelf", "gone">> =
          <<"signal", "join", "pause", "stopped", "stopSelf", "gone">>
  <2> DEFINE a == <<"signal", "join", "pause">>
             b == <<"stopped", "stopSelf", "gone">>
             c == <<"signal", "join", "pause", "stopped", "stopSelf", "gone">>
  <2>1. a \in Seq(Words) /\ b \in Seq(Words) /\ c \in Seq(Words)
    OBVIOUS
  <2>2. Len(c) = Len(a) + Len(b) /\ \A i \in 1..Len(a) : c[i] = a[i]
    OBVIOUS
  <2>3. \A i \in 1..Len(b) : c[Len(a) + i] = b[i]
    OBVIOUS
  <2> HIDE DEF a, b, c, Words
  <2>4. a \o b = c
    BY <2>1, <2>2, <2>3, ConcatIs
  <2> QED
    BY <2>4 DEF a, b, c
<1>6. <<"failed", "signal", "join", "pause">> \o <<"stopSelf">> =
          <<"failed", "signal", "join", "pause", "stopSelf">>
  <2> DEFINE a == <<"failed", "signal", "join", "pause">>
             b == <<"stopSelf">>
             c == <<"failed", "signal", "join", "pause", "stopSelf">>
  <2>1. a \in Seq(Words) /\ b \in Seq(Words) /\ c \in Seq(Words)
    OBVIOUS
  <2>2. Len(c) = Len(a) + Len(b) /\ \A i \in 1..Len(a) : c[i] = a[i]
    OBVIOUS
  <2>3. \A i \in 1..Len(b) : c[Len(a) + i] = b[i]
    OBVIOUS
  <2> HIDE DEF a, b, c, Words
  <2>4. a \o b = c
    BY <2>1, <2>2, <2>3, ConcatIs
  <2> QED
    BY <2>4 DEF a, b, c
<1>7. Android!StopCalls = <<"signal", "join", "pause">>
  BY DEF Android!StopCalls
<1>8. Android!Handler("start") \in BeforeJoin
  BY <1>1, <1>3, <1>7 DEF Android!Handler, BeforeJoin
<1>9. Android!Handler("stop") \in BeforeJoin /\ Android!Handler("destroy") \in BeforeJoin
  BY <1>4, <1>5, <1>7 DEF Android!Handler, BeforeJoin
<1> QED
  BY <1>2, <1>6, <1>7, <1>8, <1>9

\* What is left after a call, by the call.
LEMMA AndroidTails ==
  ASSUME todo # <<>>
  PROVE  /\ todo \in BeforeJoin /\ Head(todo) \in {"starting", "signal", "play"}
              => Tail(todo) \in BeforeJoin
         /\ todo \in BeforeJoin /\ Head(todo) = "join" => Tail(todo) \in BeforePause
         /\ todo \in BeforeJoin /\ Head(todo) = "listening" => Tail(todo) = <<>>
         /\ todo \in BeforeJoin
              => Head(todo) \in {"starting", "signal", "play", "join", "listening"}
         /\ todo \in BeforePause => Head(todo) = "pause" /\ Tail(todo) \in AfterPause
         /\ todo \in AfterPause /\ Head(todo) \in {"signal", "join", "failed", "stopped", "pause"}
              => Tail(todo) \in AfterPause
         /\ todo \in AfterPause /\ Head(todo) = "stopSelf"
              => Tail(todo) = <<>> \/ Tail(todo) \in AfterPause
         /\ todo \in AfterPause /\ Head(todo) = "gone" => Tail(todo) = <<>>
         /\ todo \in AfterPause /\ Head(todo) = "create" => todo = <<"create">>
         /\ todo \in AfterPause
              => Head(todo) \in {"signal", "join", "failed", "stopped", "pause", "stopSelf",
                                 "gone", "create"}
<1>1. /\ Head(<<"starting", "signal", "join", "pause", "signal", "join", "create">>) =
             "starting"
      /\ Tail(<<"starting", "signal", "join", "pause", "signal", "join", "create">>) =
             <<"signal", "join", "pause", "signal", "join", "create">>
      /\ Head(<<"signal", "join", "pause", "signal", "join", "create">>) = "signal"
      /\ Tail(<<"signal", "join", "pause", "signal", "join", "create">>) =
             <<"join", "pause", "signal", "join", "create">>
      /\ Head(<<"signal", "join", "pause", "stopped", "stopSelf">>) = "signal"
      /\ Tail(<<"signal", "join", "pause", "stopped", "stopSelf">>) =
             <<"join", "pause", "stopped", "stopSelf">>
      /\ Head(<<"signal", "join", "pause", "stopped", "stopSelf", "gone">>) = "signal"
      /\ Tail(<<"signal", "join", "pause", "stopped", "stopSelf", "gone">>) =
             <<"join", "pause", "stopped", "stopSelf", "gone">>
      /\ Head(<<"join", "pause", "signal", "join", "create">>) = "join"
      /\ Tail(<<"join", "pause", "signal", "join", "create">>) =
             <<"pause", "signal", "join", "create">>
      /\ Head(<<"join", "pause", "stopped", "stopSelf">>) = "join"
      /\ Tail(<<"join", "pause", "stopped", "stopSelf">>) =
             <<"pause", "stopped", "stopSelf">>
      /\ Head(<<"join", "pause", "stopped", "stopSelf", "gone">>) = "join"
      /\ Tail(<<"join", "pause", "stopped", "stopSelf", "gone">>) =
             <<"pause", "stopped", "stopSelf", "gone">>
      /\ Head(<<"play", "listening">>) = "play"
      /\ Tail(<<"play", "listening">>) = <<"listening">>
      /\ Head(<<"listening">>) = "listening" /\ Tail(<<"listening">>) = <<>>
  OBVIOUS
<1>2. /\ Head(<<"pause", "signal", "join", "create">>) = "pause"
      /\ Tail(<<"pause", "signal", "join", "create">>) = <<"signal", "join", "create">>
      /\ Head(<<"pause", "stopped", "stopSelf">>) = "pause"
      /\ Tail(<<"pause", "stopped", "stopSelf">>) = <<"stopped", "stopSelf">>
      /\ Head(<<"pause", "stopped", "stopSelf", "gone">>) = "pause"
      /\ Tail(<<"pause", "stopped", "stopSelf", "gone">>) =
             <<"stopped", "stopSelf", "gone">>
  OBVIOUS
<1>3. /\ Head(<<"signal", "join", "create">>) = "signal"
      /\ Tail(<<"signal", "join", "create">>) = <<"join", "create">>
      /\ Head(<<"join", "create">>) = "join" /\ Tail(<<"join", "create">>) = <<"create">>
      /\ Head(<<"create">>) = "create" /\ Tail(<<"create">>) = <<>>
      /\ Head(<<"failed", "signal", "join", "pause", "stopSelf">>) = "failed"
      /\ Tail(<<"failed", "signal", "join", "pause", "stopSelf">>) =
             <<"signal", "join", "pause", "stopSelf">>
      /\ Head(<<"signal", "join", "pause", "stopSelf">>) = "signal"
      /\ Tail(<<"signal", "join", "pause", "stopSelf">>) = <<"join", "pause", "stopSelf">>
      /\ Head(<<"join", "pause", "stopSelf">>) = "join"
      /\ Tail(<<"join", "pause", "stopSelf">>) = <<"pause", "stopSelf">>
      /\ Head(<<"pause", "stopSelf">>) = "pause"
      /\ Tail(<<"pause", "stopSelf">>) = <<"stopSelf">>
      /\ Head(<<"stopSelf">>) = "stopSelf" /\ Tail(<<"stopSelf">>) = <<>>
      /\ Head(<<"stopped", "stopSelf">>) = "stopped"
      /\ Tail(<<"stopped", "stopSelf">>) = <<"stopSelf">>
      /\ Head(<<"stopped", "stopSelf", "gone">>) = "stopped"
      /\ Tail(<<"stopped", "stopSelf", "gone">>) = <<"stopSelf", "gone">>
      /\ Head(<<"stopSelf", "gone">>) = "stopSelf"
      /\ Tail(<<"stopSelf", "gone">>) = <<"gone">>
      /\ Head(<<"gone">>) = "gone" /\ Tail(<<"gone">>) = <<>>
  OBVIOUS
<1>4. todo \in BeforeJoin /\ Head(todo) \in {"starting", "signal", "play"}
        => Tail(todo) \in BeforeJoin
  BY <1>1 DEF BeforeJoin, BeforePause, AfterPause
<1>5. todo \in BeforeJoin /\ Head(todo) = "join" => Tail(todo) \in BeforePause
  BY <1>1 DEF BeforeJoin, BeforePause, AfterPause
<1>6. todo \in BeforeJoin /\ Head(todo) = "listening" => Tail(todo) = <<>>
  BY <1>1 DEF BeforeJoin, BeforePause, AfterPause
<1>7. todo \in BeforeJoin
        => Head(todo) \in {"starting", "signal", "play", "join", "listening"}
  BY <1>1 DEF BeforeJoin, BeforePause, AfterPause
<1>8. todo \in BeforePause => Head(todo) = "pause" /\ Tail(todo) \in AfterPause
  BY <1>2 DEF BeforeJoin, BeforePause, AfterPause
<1>9. todo \in AfterPause /\ Head(todo) \in {"signal", "join", "failed", "stopped", "pause"}
        => Tail(todo) \in AfterPause
  BY <1>3 DEF BeforeJoin, BeforePause, AfterPause
<1>10. todo \in AfterPause /\ Head(todo) = "stopSelf"
         => Tail(todo) = <<>> \/ Tail(todo) \in AfterPause
  BY <1>3 DEF BeforeJoin, BeforePause, AfterPause
<1>11. todo \in AfterPause /\ Head(todo) = "gone" => Tail(todo) = <<>>
  BY <1>3 DEF BeforeJoin, BeforePause, AfterPause
<1>12. todo \in AfterPause /\ Head(todo) = "create" => todo = <<"create">>
  BY <1>3 DEF BeforeJoin, BeforePause, AfterPause
<1>13. todo \in AfterPause
         => Head(todo) \in {"signal", "join", "failed", "stopped", "pause", "stopSelf",
                                 "gone", "create"}
  BY <1>3 DEF BeforeJoin, BeforePause, AfterPause
<1> QED
  BY <1>4, <1>5, <1>6, <1>7, <1>8, <1>9, <1>10, <1>11, <1>12, <1>13

LEMMA AndroidStart == Android!Init => AndroidInv
<1>1. <<>> \in Seq({"start", "stop", "destroy"})
  OBVIOUS
<1> QED
  BY <1>1
  DEF Android!Init, AndroidInv, Android!TypeOK, AndroidPoint, Silent, NoOpenSession,
      Android!S!NewSession

\* Without a session nothing that leaves the session alone makes one.
LEMMA SilentStays ==
  ASSUME UNCHANGED <<socket, running, worker>>
  PROVE  (NoOpenSession => NoOpenSession') /\ (Silent /\ (playing' => playing) => Silent')
BY DEF NoOpenSession, Silent, Android!S!NewSession

LEMMA AndroidTapKeeps == AndroidInv /\ (Android!Tap \/ Android!Receive) => AndroidInv'
<1>1. AndroidInv /\ Android!Tap => AndroidInv'
  <2> SUFFICES ASSUME AndroidInv, Android!Tap PROVE AndroidInv'
    OBVIOUS
  <2>1. UNCHANGED <<socket, running, worker, todo, leaving, monitor, playing, status>>
    BY DEF Android!Tap, Android!sess, Android!audio
  <2>2. inbox' \in Seq({"start", "stop", "destroy"})
    BY DEF AndroidInv, Android!TypeOK, Android!Tap
  <2>3. AndroidPoint'
    BY <2>1, SilentStays DEF AndroidInv, AndroidPoint
  <2> QED
    BY <2>1, <2>2, <2>3 DEF AndroidInv, Android!TypeOK
<1>2. AndroidInv /\ Android!Receive => AndroidInv'
  <2> SUFFICES ASSUME AndroidInv, Android!Receive PROVE AndroidInv'
    OBVIOUS
  <2>1. UNCHANGED <<socket, running, worker, leaving, monitor, playing, status>>
    BY DEF Android!Receive, Android!sess, Android!audio
  <2>2. /\ Head(inbox) \in {"start", "stop", "destroy"}
        /\ inbox' \in Seq({"start", "stop", "destroy"})
    BY HeadTailProperties DEF AndroidInv, Android!TypeOK, Android!Receive
  <2>3. todo' \in BeforeJoin
    BY <2>2, AndroidCalls DEF Android!Receive
  <2> QED
    BY <2>1, <2>2, <2>3 DEF AndroidInv, Android!TypeOK, AndroidPoint
<1> QED
  BY <1>1, <1>2

LEMMA AndroidStopKeeps ==
  AndroidInv /\ (Android!Signal \/ Android!Join \/ Android!Pause) => AndroidInv'
<1>1. AndroidInv /\ Android!Signal => AndroidInv'
  <2> SUFFICES ASSUME AndroidInv, Android!Signal PROVE AndroidInv'
    OBVIOUS
  <2>1. /\ UNCHANGED <<socket, worker, inbox, leaving, monitor, playing, status>>
        /\ running' = FALSE
        /\ todo # <<>> /\ Head(todo) = "signal" /\ todo' = Tail(todo)
    BY DEF Android!Signal, Android!Does, Android!S!StopSignals, Android!audio
  <2>2. NoOpenSession => NoOpenSession'
    BY <2>1 DEF NoOpenSession, Android!S!NewSession
  <2>3. AndroidPoint'
    BY <2>1, <2>2, AndroidTails DEF AndroidInv, AndroidPoint, Silent
  <2> QED
    BY <2>1, <2>3 DEF AndroidInv, Android!TypeOK
<1>2. AndroidInv /\ Android!Join => AndroidInv'
  <2> SUFFICES ASSUME AndroidInv, Android!Join PROVE AndroidInv'
    OBVIOUS
  <2>1. /\ UNCHANGED <<inbox, leaving, monitor, playing, status>>
        /\ worker \in {"none", "ended"} /\ NoOpenSession'
        /\ todo # <<>> /\ Head(todo) = "join" /\ todo' = Tail(todo)
    BY DEF Android!Join, Android!Does, Android!audio, NoOpenSession,
           Android!S!NewSession
  <2>2. AndroidPoint'
    BY <2>1, AndroidTails DEF AndroidInv, AndroidPoint, Silent
  <2> QED
    BY <2>1, <2>2
    DEF AndroidInv, Android!TypeOK, NoOpenSession, Android!S!NewSession
<1>3. AndroidInv /\ Android!Pause => AndroidInv'
  <2> SUFFICES ASSUME AndroidInv, Android!Pause PROVE AndroidInv'
    OBVIOUS
  <2>1. /\ UNCHANGED <<socket, running, worker, inbox, leaving, monitor, status>>
        /\ playing' = FALSE
        /\ todo # <<>> /\ Head(todo) = "pause" /\ todo' = Tail(todo)
    BY DEF Android!Pause, Android!Does, Android!sess
  <2>2. NoOpenSession => Silent'
    BY <2>1 DEF NoOpenSession, Silent, Android!S!NewSession
  <2>3. AndroidPoint'
    BY <2>1, <2>2, AndroidTails DEF AndroidInv, AndroidPoint, Silent
  <2> QED
    BY <2>1, <2>3 DEF AndroidInv, Android!TypeOK
<1> QED
  BY <1>1, <1>2, <1>3

LEMMA AndroidStartKeeps == AndroidInv /\ (Android!Play \/ Android!Create) => AndroidInv'
<1>1. AndroidInv /\ Android!Play => AndroidInv'
  <2> SUFFICES ASSUME AndroidInv, Android!Play PROVE AndroidInv'
    OBVIOUS
  <2>1. /\ UNCHANGED <<socket, running, worker, inbox, leaving, monitor, status>>
        /\ playing' = TRUE
        /\ todo # <<>> /\ Head(todo) = "play" /\ todo' = Tail(todo)
    BY DEF Android!Play, Android!Does, Android!sess
  <2>2. AndroidPoint'
    BY <2>1, AndroidTails DEF AndroidInv, AndroidPoint
  <2> QED
    BY <2>1, <2>2 DEF AndroidInv, Android!TypeOK
<1>2. AndroidInv /\ Android!Create => AndroidInv'
  <2> SUFFICES ASSUME AndroidInv, Android!Create PROVE AndroidInv'
    OBVIOUS
  <2>1. /\ UNCHANGED <<inbox, leaving, monitor, playing, status>>
        /\ todo # <<>> /\ Head(todo) = "create"
    BY DEF Android!Create, Android!Does, Android!audio
  <2>2. todo \in AfterPause /\ Silent
    BY <2>1, AndroidTails DEF AndroidInv, AndroidPoint
  <2>3. monitor = "free"
    BY <2>2
    DEF AndroidInv, Android!TypeOK, Silent, NoOpenSession, Android!S!NewSession
  <2>4. CASE Android!S!StartWorker /\ todo' = <<"play", "listening">>
    <3>1. socket' = "bound" /\ running' = TRUE /\ worker' = "boot"
      BY <2>4 DEF Android!S!StartWorker, Android!S!BindSucceeds
    <3>2. AndroidPoint'
      BY <2>4 DEF AndroidPoint, BeforeJoin
    <3> QED
      BY <2>1, <2>3, <3>1, <3>2 DEF AndroidInv, Android!TypeOK
  <2>5. CASE /\ UNCHANGED Android!sess
             /\ todo' = <<"failed">> \o Android!StopCalls \o <<"stopSelf">>
    <3>1. todo' \in AfterPause
      BY <2>5, AndroidCalls DEF AfterPause
    <3>2. Silent' /\ UNCHANGED <<socket, running, worker>>
      BY <2>1, <2>2, <2>5, SilentStays DEF Android!sess
    <3> QED
      BY <2>1, <3>1, <3>2 DEF AndroidInv, Android!TypeOK, AndroidPoint
  <2> QED
    BY <2>4, <2>5 DEF Android!Create
<1> QED
  BY <1>1, <1>2

LEMMA AndroidEndKeeps ==
  AndroidInv /\ (Android!Publish \/ Android!StopSelf \/ Android!Gone) => AndroidInv'
<1>1. AndroidInv /\ Android!Publish => AndroidInv'
  <2> SUFFICES ASSUME AndroidInv, Android!Publish PROVE AndroidInv'
    OBVIOUS
  <2>1. /\ UNCHANGED <<socket, running, worker, inbox, leaving, monitor, playing>>
        /\ todo # <<>> /\ Head(todo) \in {"starting", "listening", "failed", "stopped"}
        /\ todo' = Tail(todo) /\ status' = Head(todo)
    BY DEF Android!Publish, Android!Does, Android!sess, Android!audio
  <2>2. Silent => Silent'
    BY <2>1, SilentStays
  <2>3. AndroidPoint'
    <3>1. CASE todo \in BeforeJoin
      BY <2>1, <3>1, AndroidTails DEF AndroidPoint
    <3>2. CASE todo \in AfterPause /\ Silent
      BY <2>1, <2>2, <3>2, AndroidTails DEF AndroidPoint
    <3> QED
      BY <2>1, <3>1, <3>2, AndroidTails DEF AndroidInv, AndroidPoint
  <2> QED
    BY <2>1, <2>3 DEF AndroidInv, Android!TypeOK
<1>2. AndroidInv /\ Android!StopSelf => AndroidInv'
  <2> SUFFICES ASSUME AndroidInv, Android!StopSelf PROVE AndroidInv'
    OBVIOUS
  <2>1. /\ UNCHANGED <<socket, running, worker, monitor, playing, status>>
        /\ leaving' = TRUE
        /\ todo # <<>> /\ Head(todo) = "stopSelf" /\ todo' = Tail(todo)
    BY DEF Android!StopSelf, Android!Does, Android!sess, Android!audio
  <2>2. inbox' \in Seq({"start", "stop", "destroy"})
    BY DEF AndroidInv, Android!TypeOK, Android!StopSelf
  <2>3. Silent => Silent'
    BY <2>1, SilentStays
  <2>4. AndroidPoint'
    BY <2>1, <2>3, AndroidTails DEF AndroidInv, AndroidPoint
  <2> QED
    BY <2>1, <2>2, <2>4 DEF AndroidInv, Android!TypeOK
<1>3. AndroidInv /\ Android!Gone => AndroidInv'
  <2> SUFFICES ASSUME AndroidInv, Android!Gone PROVE AndroidInv'
    OBVIOUS
  <2>1. /\ UNCHANGED <<socket, running, worker, inbox, monitor, playing, status>>
        /\ leaving' = FALSE
        /\ todo # <<>> /\ Head(todo) = "gone" /\ todo' = Tail(todo)
    BY DEF Android!Gone, Android!Does, Android!sess, Android!audio
  <2>2. Silent => Silent'
    BY <2>1, SilentStays
  <2>3. AndroidPoint'
    BY <2>1, <2>2, AndroidTails DEF AndroidInv, AndroidPoint
  <2> QED
    BY <2>1, <2>3 DEF AndroidInv, Android!TypeOK
<1> QED
  BY <1>1, <1>2, <1>3

\* The worker: without a session it is not there.
LEMMA AndroidWorkerKeeps == AndroidInv /\ Android!WorkerStep => AndroidInv'
<1> SUFFICES ASSUME AndroidInv, Android!WorkerStep PROVE AndroidInv'
  OBVIOUS
<1>1. UNCHANGED <<inbox, todo, leaving, status>>
  BY DEF Android!WorkerStep
<1>2. ~NoOpenSession
  BY DEF AndroidInv, Android!TypeOK, Android!WorkerStep, NoOpenSession,
         Android!S!NewSession, Android!WorkerWrites, Android!WorkerWritten,
         Android!S!WorkerBoots, Android!S!WorkerHasNoDecoder,
         Android!S!WorkerChecks, Android!S!WorkerPolls, Android!S!WorkerDrains
<1>3. AndroidPoint'
  BY <1>1, <1>2 DEF AndroidInv, AndroidPoint, Silent
<1>4. Android!TypeOK'
  <2>1. CASE Android!S!WorkerBoots /\ UNCHANGED Android!audio
    BY <1>1, <2>1
    DEF AndroidInv, Android!TypeOK, Android!audio, Android!S!WorkerBoots
  <2>2. CASE Android!S!WorkerHasNoDecoder /\ UNCHANGED Android!audio
    BY <1>1, <2>2
    DEF AndroidInv, Android!TypeOK, Android!audio, Android!S!WorkerHasNoDecoder
  <2>3. CASE Android!S!WorkerChecks /\ UNCHANGED Android!audio
    BY <1>1, <2>3
    DEF AndroidInv, Android!TypeOK, Android!audio, Android!S!WorkerChecks
  <2>4. CASE Android!S!WorkerPolls /\ UNCHANGED Android!audio
    BY <1>1, <2>4
    DEF AndroidInv, Android!TypeOK, Android!audio, Android!S!WorkerPolls
  <2>5. CASE Android!S!WorkerDrains /\ monitor # "worker" /\ UNCHANGED Android!audio
    BY <1>1, <2>5
    DEF AndroidInv, Android!TypeOK, Android!audio, Android!S!WorkerDrains
  <2>6. CASE Android!WorkerWrites
    BY <1>1, <2>6 DEF AndroidInv, Android!TypeOK, Android!WorkerWrites, Android!sess
  <2>7. CASE Android!WorkerWritten
    BY <1>1, <2>7
    DEF AndroidInv, Android!TypeOK, Android!WorkerWritten, Android!sess
  <2> QED
    BY <2>1, <2>2, <2>3, <2>4, <2>5, <2>6, <2>7 DEF Android!WorkerStep
<1> QED
  BY <1>3, <1>4 DEF AndroidInv

LEMMA AndroidSilent == AndroidInv => Android!StoppedIsSilent
<1> SUFFICES ASSUME AndroidInv, todo = <<>>, status # "listening"
             PROVE  ~Android!S!Alive /\ socket = "none" /\ ~playing
  BY DEF Android!StoppedIsSilent
<1>1. todo \notin BeforeJoin \cup BeforePause \cup AfterPause
  BY DEF BeforeJoin, BeforePause, AfterPause
<1>2. Silent
  BY <1>1 DEF AndroidInv, AndroidPoint
<1> QED
  BY <1>2 DEF Silent, NoOpenSession, Android!S!NewSession, Android!S!Alive

-----------------------------------------------------------------------------
(* clientd.  Time and the timers move together: main sleeps until Seconds, *)
(* a poll begun before that ends by Seconds + Poll, and the statistics     *)
(* thread wakes at multiples of Interval, the last of them the first one   *)
(* after Seconds.                                                          *)
Wakes == {"main", "stats", "worker"}

\* The k-th waking of the statistics thread, while main may still sleep.
Due(k) == k \in Nat /\ (k = 0 \/ (k - 1) * Interval <= Seconds)

ClientdTypes ==
  /\ pc \in {"start", "spawn", "sleep", "quiet", "stop", "join", "joinStats", "report",
           "ended"}
  /\ stats \in {"none", "check", "sleep", "ended"}
  /\ worker \in {"none", "boot", "check", "poll", "drain", "ended"}
  /\ running \in BOOLEAN /\ printing \in BOOLEAN
  /\ elapsed \in Nat /\ timer \in [Wakes -> Nat]

\* Who may still be there, by the step of main.
ClientdOrder ==
  /\ running => pc \in {"spawn", "sleep", "quiet", "stop"}
  /\ pc \in {"start", "joinStats", "report", "ended"} => worker = "none"
  /\ pc \in {"start", "spawn"} => stats = "none"
  /\ stats # "none" /\ printing => pc \in {"sleep", "quiet"}
  /\ stats # "none" => Interval > 0
  /\ pc \in {"report", "ended"} => stats \in {"none", "ended"}
  /\ pc \in {"start", "ended"} => reported = frames

ClientdTime ==
  /\ pc \in {"start", "spawn"} => elapsed = 0
  /\ pc = "sleep" => elapsed + timer["main"] = Seconds
  /\ pc \in {"quiet", "stop"} => elapsed = Seconds
  /\ worker = "poll" => elapsed + timer["worker"] <= Seconds + Poll
  /\ stats = "check" => \E k \in Nat : Due(k) /\ elapsed = k * Interval
  /\ stats = "sleep" => \E k \in Nat : Due(k) /\ elapsed + timer["stats"] = k * Interval
  /\ Clientd!EndsInTime

ClientdInv == ClientdTypes /\ ClientdOrder /\ ClientdTime

LEMMA MinOfTwo ==
  ASSUME NEW a \in Int, NEW b \in Int
  PROVE  Clientd!Min({a, b}) = IF a <= b THEN a ELSE b
<1>1. CASE a <= b
  <2>1. \A x \in {a, b} : (\A y \in {a, b} : x <= y) => x = a
    BY <1>1
  <2> QED
    BY <1>1, <2>1 DEF Clientd!Min
<1>2. CASE ~(a <= b)
  <2>1. \A x \in {a, b} : (\A y \in {a, b} : x <= y) => x = b
    BY <1>2
  <2> QED
    BY <1>2, <2>1 DEF Clientd!Min
<1> QED
  BY <1>1, <1>2

LEMMA MaxOfTwo ==
  ASSUME NEW a \in Int, NEW b \in Int
  PROVE  Clientd!Max({a, b}) = IF a >= b THEN a ELSE b
<1>1. CASE a >= b
  <2>1. \A x \in {a, b} : (\A y \in {a, b} : x >= y) => x = a
    BY <1>1
  <2> QED
    BY <1>1, <2>1 DEF Clientd!Max
<1>2. CASE ~(a >= b)
  <2>1. \A x \in {a, b} : (\A y \in {a, b} : x >= y) => x = b
    BY <1>2
  <2> QED
    BY <1>2, <2>1 DEF Clientd!Max
<1> QED
  BY <1>1, <1>2

LastWake == IF Interval = 0 THEN 0 ELSE (Seconds \div Interval + 1) * Interval

LEMMA ClientdConstants ==
  ASSUME Clientd!ClientdAssumption
  PROVE  {Seconds, Interval, Poll, MaxFrames} \subseteq Nat /\ LastWake \in Nat
<1>1. {Seconds, Interval, Poll, MaxFrames} \subseteq Nat
  BY DEF Clientd!ClientdAssumption
<1>2. CASE Interval = 0
  BY <1>1, <1>2 DEF LastWake
<1>3. CASE Interval # 0
  <2>1. Seconds \div Interval \in Nat
    BY <1>1, <1>3
  <2> QED
    BY <1>1, <1>3, <2>1 DEF LastWake
<1> QED
  BY <1>1, <1>2, <1>3

LEMMA ClientdLimit ==
  ASSUME Clientd!ClientdAssumption, NEW t \in Nat
  PROVE  t <= Clientd!Max({Seconds + Poll, LastWake})
           <=> t <= Seconds + Poll \/ t <= LastWake
<1>1. Seconds + Poll \in Int /\ LastWake \in Int
  BY ClientdConstants
<1> QED
  BY <1>1, MaxOfTwo

\* The wakings end with the first one after Seconds.
LEMMA DueEnds ==
  ASSUME Clientd!ClientdAssumption, Interval > 0, NEW k \in Nat, Due(k)
  PROVE  /\ k * Interval \in Nat /\ k * Interval <= LastWake
         /\ k * Interval <= Seconds + Interval
<1>1. Seconds \in Nat /\ Interval \in Nat \ {0}
  BY ClientdConstants
<1> DEFINE d == Seconds \div Interval
<1>2. d \in Nat /\ Seconds < (d + 1) * Interval
  BY <1>1
<1>3. CASE k = 0
  BY <1>1, <1>2, <1>3 DEF LastWake
<1>4. CASE k # 0
  <2>1. k - 1 \in Nat /\ (k - 1) * Interval <= Seconds
    BY <1>4 DEF Due
  <2>2. k - 1 < d + 1
    <3> SUFFICES ASSUME k - 1 >= d + 1 PROVE FALSE
      BY <1>2, <2>1
    <3>1. (k - 1) * Interval >= (d + 1) * Interval
      BY <1>1, <1>2, <2>1
    <3> QED
      BY <1>1, <1>2, <2>1, <3>1
  <2>3. k <= d + 1 /\ k * Interval = (k - 1) * Interval + Interval
    BY <1>1, <1>2, <2>1, <2>2
  <2>4. k * Interval <= (d + 1) * Interval
    BY <1>1, <1>2, <2>3
  <2> QED
    BY <1>1, <2>1, <2>3, <2>4 DEF LastWake
<1> QED
  BY <1>3, <1>4

LEMMA ClientdStart == Clientd!ClientdAssumption /\ Clientd!Init => ClientdInv
<1> SUFFICES ASSUME Clientd!ClientdAssumption, Clientd!Init PROVE ClientdInv
  OBVIOUS
<1> USE DEF Clientd!Init, Clientd!S!NewSession
<1>1. ClientdTypes
  <2>1. timer \in [Wakes -> Nat]
    BY DEF Wakes
  <2>2. printing \in BOOLEAN
    OBVIOUS
  <2> QED
    BY <2>1, <2>2 DEF ClientdTypes
<1>2. ClientdOrder
  BY DEF ClientdOrder
<1>3. Clientd!EndsInTime
  BY ClientdLimit, ClientdConstants DEF Clientd!EndsInTime, LastWake
<1> QED
  BY <1>1, <1>2, <1>3 DEF ClientdInv, ClientdTime

LEMMA ClientdMainKeeps ==
  Clientd!ClientdAssumption /\ ClientdInv /\ Clientd!MainStep => ClientdInv'
<1> SUFFICES ASSUME Clientd!ClientdAssumption, ClientdInv, Clientd!MainStep
             PROVE  ClientdInv'
  OBVIOUS
<1>1. elapsed' = elapsed
  BY DEF Clientd!MainStep, Clientd!Start, Clientd!Spawn, Clientd!Wake,
         Clientd!Quiet, Clientd!Stop, Clientd!Join, Clientd!JoinStats,
         Clientd!Report
<1>2. Clientd!EndsInTime'
  BY <1>1 DEF ClientdInv, ClientdTime, Clientd!EndsInTime
<1> USE DEF ClientdInv
<1>3. CASE Clientd!Start
  <2>1. CASE Clientd!S!StartWorker /\ pc' = "spawn"
    <3> USE DEF Clientd!S!StartWorker, Clientd!S!BindSucceeds
    <3>1. ClientdTypes'
      BY <1>3, <2>1 DEF Clientd!Start, ClientdTypes
    <3>2. ClientdOrder'
      BY <1>3, <2>1 DEF Clientd!Start, ClientdOrder
    <3>3. ClientdTime'
      BY <1>2, <1>3, <2>1 DEF Clientd!Start, ClientdOrder, ClientdTime
    <3> QED
      BY <3>1, <3>2, <3>3
  <2>2. CASE Clientd!S!StartFails /\ pc' = "ended"
    <3> USE DEF Clientd!S!StartFails
    <3>1. ClientdTypes'
      BY <1>3, <2>2 DEF Clientd!Start, ClientdTypes
    <3>2. ClientdOrder'
      BY <1>3, <2>2 DEF Clientd!Start, ClientdOrder
    <3>3. ClientdTime'
      BY <1>2, <1>3, <2>2 DEF Clientd!Start, ClientdOrder, ClientdTime
    <3> QED
      BY <3>1, <3>2, <3>3
  <2> QED
    BY <1>3, <2>1, <2>2 DEF Clientd!Start
<1>4. CASE Clientd!Spawn
  <2>1. UNCHANGED <<socket, running, worker, printing, frames, reported, elapsed>>
    BY <1>4 DEF Clientd!Spawn, Clientd!sess
  <2>2. /\ timer' \in [Wakes -> Nat] /\ timer'["main"] = Seconds
        /\ timer'["worker"] = timer["worker"]
    BY <1>4, ClientdConstants DEF Clientd!Spawn, ClientdTypes, Wakes
  <2>3. ClientdTypes'
    BY <1>4, <2>1, <2>2 DEF Clientd!Spawn, ClientdTypes
  <2>4. ClientdOrder'
    BY <1>4, <2>1 DEF Clientd!Spawn, ClientdOrder, ClientdTypes
  <2>5. elapsed = 0 /\ Due(0) /\ 0 * Interval = 0
    BY <1>4, ClientdConstants DEF Clientd!Spawn, ClientdTime, Due
  <2>6. ClientdTime'
    BY <1>2, <1>4, <2>1, <2>2, <2>5, ClientdConstants DEF Clientd!Spawn, ClientdTime
  <2> QED
    BY <2>3, <2>4, <2>6
<1>5. CASE Clientd!Wake
  <2>1. UNCHANGED <<socket, running, worker, printing, stats, frames, reported, timer,
              elapsed>>
    BY <1>5 DEF Clientd!Wake, Clientd!sess
  <2>2. ClientdTypes' /\ ClientdOrder'
    BY <1>5, <2>1 DEF Clientd!Wake, ClientdTypes, ClientdOrder
  <2>3. elapsed = Seconds
    BY <1>5 DEF Clientd!Wake, ClientdTime, ClientdTypes
  <2> QED
    BY <1>2, <1>5, <2>1, <2>2, <2>3 DEF Clientd!Wake, ClientdTime
<1>6. CASE Clientd!Quiet
  <2>1. UNCHANGED <<socket, running, worker, stats, frames, reported, timer, elapsed>>
    BY <1>6 DEF Clientd!Quiet, Clientd!sess
  <2>2. ClientdTypes' /\ ClientdOrder'
    BY <1>6, <2>1 DEF Clientd!Quiet, ClientdTypes, ClientdOrder
  <2> QED
    BY <1>2, <1>6, <2>1, <2>2 DEF Clientd!Quiet, ClientdTime
<1>7. CASE Clientd!Stop
  <2>1. /\ UNCHANGED <<socket, worker, printing, stats, frames, reported, timer, elapsed>>
        /\ running' = FALSE
    BY <1>7 DEF Clientd!Stop, Clientd!S!StopSignals
  <2>2. ClientdTypes' /\ ClientdOrder'
    <3>1. pc = "stop" /\ pc' = "join"
      BY <1>7 DEF Clientd!Stop
    <3>2. ClientdTypes'
      BY <2>1, <3>1 DEF ClientdTypes
    <3> QED
      BY <2>1, <3>1, <3>2 DEF ClientdOrder
  <2> QED
    BY <1>2, <1>7, <2>1, <2>2 DEF Clientd!Stop, ClientdTime
<1>8. CASE Clientd!Join
  <2>1. /\ UNCHANGED <<socket, running, printing, stats, frames, reported, timer, elapsed>>
        /\ worker' = "none"
    BY <1>8 DEF Clientd!Join, Clientd!S!Joined
  <2>2. ClientdTypes' /\ ClientdOrder'
    BY <1>8, <2>1 DEF Clientd!Join, ClientdTypes, ClientdOrder
  <2> QED
    BY <1>2, <1>8, <2>1, <2>2 DEF Clientd!Join, ClientdTime
<1>9. CASE Clientd!JoinStats
  <2>1. UNCHANGED <<socket, running, worker, printing, stats, frames, reported, timer,
              elapsed>>
    BY <1>9 DEF Clientd!JoinStats, Clientd!sess
  <2>2. ClientdTypes' /\ ClientdOrder'
    BY <1>9, <2>1 DEF Clientd!JoinStats, ClientdTypes, ClientdOrder
  <2> QED
    BY <1>2, <1>9, <2>1, <2>2 DEF Clientd!JoinStats, ClientdTime
<1>10. CASE Clientd!Report
  <2>1. /\ UNCHANGED <<socket, running, worker, printing, stats, frames, timer, elapsed>>
        /\ reported' = frames
    BY <1>10 DEF Clientd!Report, Clientd!sess
  <2>2. ClientdTypes' /\ ClientdOrder'
    BY <1>10, <2>1 DEF Clientd!Report, ClientdTypes, ClientdOrder
  <2> QED
    BY <1>2, <1>10, <2>1, <2>2 DEF Clientd!Report, ClientdTime
<1> QED
  BY <1>3, <1>4, <1>5, <1>6, <1>7, <1>8, <1>9, <1>10 DEF Clientd!MainStep

\* The statistics thread, at k * Interval, waits for (k + 1) * Interval.
LEMMA ClientdStatsKeeps ==
  Clientd!ClientdAssumption /\ ClientdInv /\ Clientd!StatsStep => ClientdInv'
<1> SUFFICES ASSUME Clientd!ClientdAssumption, ClientdInv, Clientd!StatsStep
             PROVE  ClientdInv'
  OBVIOUS
<1> USE DEF ClientdInv
<1>1. UNCHANGED <<socket, running, worker, pc, printing, frames, reported, elapsed>>
  BY DEF Clientd!StatsStep, Clientd!sess
<1>2. Clientd!EndsInTime'
  BY <1>1 DEF ClientdTime, Clientd!EndsInTime
<1>3. CASE Clientd!StatsChecks /\ printing
  <2>1. stats = "check" /\ stats' = "sleep" /\ pc \in {"sleep", "quiet"} /\ Interval > 0
    BY <1>3 DEF Clientd!StatsChecks, ClientdOrder
  <2>2. /\ timer' \in [Wakes -> Nat] /\ timer'["stats"] = Interval
        /\ timer'["main"] = timer["main"] /\ timer'["worker"] = timer["worker"]
    BY <1>3, ClientdConstants DEF Clientd!StatsChecks, ClientdTypes, Wakes
  <2>3. PICK k \in Nat : Due(k) /\ elapsed = k * Interval
    BY <2>1 DEF ClientdTime
  <2>4. elapsed <= Seconds
    BY <2>1, ClientdConstants DEF ClientdTime, ClientdTypes, Wakes
  <2>5. k + 1 \in Nat /\ Due(k + 1) /\ elapsed' + timer'["stats"] = (k + 1) * Interval
    BY <1>1, <2>2, <2>3, <2>4, ClientdConstants DEF Due
  <2>6. ClientdTypes' /\ ClientdOrder'
    BY <1>1, <2>1, <2>2 DEF ClientdTypes, ClientdOrder
  <2> QED
    BY <1>1, <1>2, <2>1, <2>2, <2>5, <2>6 DEF ClientdTime
<1>4. CASE Clientd!StatsChecks /\ ~printing
  <2>1. stats = "check" /\ stats' = "ended" /\ UNCHANGED timer
    BY <1>4 DEF Clientd!StatsChecks
  <2>2. ClientdTypes' /\ ClientdOrder'
    BY <1>1, <2>1 DEF ClientdTypes, ClientdOrder
  <2> QED
    BY <1>1, <1>2, <2>1, <2>2 DEF ClientdTime
<1>5. CASE Clientd!StatsWakes
  <2>1. /\ stats = "sleep" /\ timer["stats"] = 0 /\ UNCHANGED timer
        /\ stats' = IF printing THEN "check" ELSE "ended"
    BY <1>5 DEF Clientd!StatsWakes
  <2>2. PICK k \in Nat : Due(k) /\ elapsed = k * Interval
    BY <2>1 DEF ClientdTime, ClientdTypes
  <2>3. ClientdTypes' /\ ClientdOrder'
    BY <1>1, <2>1 DEF ClientdTypes, ClientdOrder
  <2> QED
    BY <1>1, <1>2, <2>1, <2>2, <2>3 DEF ClientdTime
<1> QED
  BY <1>3, <1>4, <1>5 DEF Clientd!StatsStep

\* A poll begins only while the session runs, and lasts at most Poll.
LEMMA ClientdWorkerKeeps ==
  Clientd!ClientdAssumption /\ ClientdInv /\ Clientd!WorkerStep => ClientdInv'
<1> SUFFICES ASSUME Clientd!ClientdAssumption, ClientdInv, Clientd!WorkerStep
             PROVE  ClientdInv'
  OBVIOUS
<1> USE DEF ClientdInv
<1>1. UNCHANGED <<pc, printing, stats, reported, elapsed>>
  BY DEF Clientd!WorkerStep
<1>2. Clientd!EndsInTime'
  BY <1>1 DEF ClientdTime, Clientd!EndsInTime
<1>3. CASE /\ \/ Clientd!S!WorkerBoots \/ Clientd!S!WorkerHasNoDecoder
              \/ (Clientd!S!WorkerPolls /\ timer["worker"] = 0)
           /\ UNCHANGED <<frames, timer>>
  <2>1. /\ worker \in {"boot", "poll"} /\ worker' \in {"check", "ended", "drain"}
        /\ running' \in {running, FALSE}
    BY <1>3
    DEF Clientd!S!WorkerBoots, Clientd!S!WorkerHasNoDecoder, Clientd!S!WorkerPolls
  <2>2. ClientdTypes' /\ ClientdOrder'
    <3>1. ClientdTypes'
      BY <1>1, <1>3, <2>1 DEF ClientdTypes
    <3>2. running' => running
      BY <2>1
    <3>3. frames' = frames /\ worker # "none"
      BY <1>3, <2>1
    <3> QED
      BY <1>1, <3>1, <3>2, <3>3 DEF ClientdOrder
  <2> QED
    BY <1>1, <1>2, <1>3, <2>1, <2>2 DEF ClientdTime
<1>4. CASE Clientd!WorkerWaits
  <2>1. /\ worker = "check" /\ worker' = (IF running THEN "poll" ELSE "ended")
        /\ running' = running /\ frames' = frames
    BY <1>4 DEF Clientd!WorkerWaits, Clientd!S!WorkerChecks
  <2>2. PICK d \in 1..Poll : timer' = [timer EXCEPT !["worker"] = d]
    BY <1>4 DEF Clientd!WorkerWaits
  <2>3. /\ timer' \in [Wakes -> Nat] /\ timer'["worker"] = d /\ d \in Nat /\ d <= Poll
        /\ timer'["main"] = timer["main"] /\ timer'["stats"] = timer["stats"]
    BY <2>2, ClientdConstants DEF ClientdTypes, Wakes
  <2>4. ClientdTypes' /\ ClientdOrder'
    BY <1>1, <2>1, <2>3 DEF ClientdTypes, ClientdOrder
  <2>5. running => elapsed <= Seconds
    BY ClientdConstants DEF ClientdTime, ClientdTypes, ClientdOrder, Wakes
  <2>6. worker' = "poll" => elapsed' + timer'["worker"] <= Seconds + Poll
    BY <1>1, <2>1, <2>3, <2>5, ClientdConstants DEF ClientdTypes
  <2> QED
    BY <1>1, <1>2, <2>1, <2>3, <2>4, <2>6 DEF ClientdTime
<1>5. CASE Clientd!CountFrames
  <2>1. worker = "drain" /\ worker' = "check" /\ UNCHANGED <<running, timer>>
    BY <1>5 DEF Clientd!CountFrames, Clientd!S!WorkerDrains
  <2>2. ClientdTypes' /\ ClientdOrder'
    BY <1>1, <2>1 DEF ClientdTypes, ClientdOrder
  <2> QED
    BY <1>1, <1>2, <2>1, <2>2 DEF ClientdTime
<1> QED
  BY <1>3, <1>4, <1>5 DEF Clientd!WorkerStep

\* While time goes on, someone waits for an instant within the limit.
LEMMA ClientdTickKeeps ==
  Clientd!ClientdAssumption /\ ClientdInv /\ Clientd!Tick => ClientdInv'
<1> SUFFICES ASSUME Clientd!ClientdAssumption, ClientdInv, Clientd!Tick PROVE ClientdInv'
  OBVIOUS
<1> USE DEF ClientdInv
<1>1. UNCHANGED <<socket, running, worker, pc, printing, stats, frames, reported>>
  BY DEF Clientd!Tick, Clientd!sess
<1>2. /\ pc \in {"sleep", "join", "joinStats"} /\ (pc = "sleep" => timer["main"] > 0)
      /\ pc = "join" => worker = "poll"
      /\ pc = "joinStats" => stats = "sleep"
      /\ stats # "check" /\ (stats = "sleep" => timer["stats"] > 0)
      /\ worker = "poll" => timer["worker"] > 0
  BY DEF Clientd!Tick, Clientd!Waiting, ClientdTypes, Clientd!S!Alive
<1>3. /\ timer' \in [Wakes -> Nat]
      /\ \A t \in Wakes : timer[t] > 0 => timer'[t] = timer[t] - 1
  <2>1. DOMAIN timer = Wakes /\ \A t \in Wakes : timer[t] \in Nat
    BY DEF ClientdTypes
  <2>2. timer' = [t \in Wakes |-> Clientd!Max({0, timer[t] - 1})]
    BY <2>1 DEF Clientd!Tick
  <2>3. \A t \in Wakes : Clientd!Max({0, timer[t] - 1}) =
            IF timer[t] > 0 THEN timer[t] - 1 ELSE 0
    BY <2>1, MaxOfTwo
  <2> QED
    BY <2>1, <2>2, <2>3
<1>4. \/ elapsed + 1 <= Seconds + Poll
      \/ (elapsed + 1 <= LastWake /\ elapsed + 1 <= Seconds + Interval)
  <2>1. CASE pc = "sleep"
    BY <1>2, <2>1, ClientdConstants DEF ClientdTime, ClientdTypes, Wakes
  <2>2. CASE pc = "join"
    <3>1. elapsed + timer["worker"] <= Seconds + Poll /\ timer["worker"] > 0
      BY <1>2, <2>2 DEF ClientdTime
    <3>2. timer["worker"] \in Nat /\ elapsed \in Nat
      BY DEF ClientdTypes, Wakes
    <3>3. Seconds \in Nat /\ Poll \in Nat
      BY ClientdConstants
    <3>4. elapsed + 1 <= Seconds + Poll
      BY <3>1, <3>2, <3>3
    <3> QED
      BY <3>4
  <2>3. CASE pc = "joinStats"
    <3>1. PICK k \in Nat : Due(k) /\ elapsed + timer["stats"] = k * Interval
      BY <1>2, <2>3 DEF ClientdTime
    <3>2. timer["stats"] \in Nat /\ timer["stats"] > 0 /\ Interval > 0
      BY <1>2, <2>3 DEF ClientdOrder, ClientdTypes, Wakes
    <3>3. /\ k * Interval \in Nat /\ k * Interval <= LastWake
          /\ k * Interval <= Seconds + Interval
      BY <3>1, <3>2, DueEnds
    <3> QED
      BY <3>1, <3>2, <3>3, ClientdConstants DEF ClientdTypes
  <2> QED
    BY <1>2, <2>1, <2>2, <2>3
<1>5. elapsed' = elapsed + 1
  <2>1. Clientd!MaxTime \in Nat /\ elapsed + 1 \in Nat /\ elapsed + 1 <= Clientd!MaxTime
    BY <1>4, ClientdConstants DEF Clientd!MaxTime, ClientdTypes
  <2> QED
    BY <2>1, MinOfTwo DEF Clientd!Tick
<1>6. Clientd!EndsInTime'
  <2>1. elapsed + 1 \in Nat
    BY DEF ClientdTypes
  <2>2. elapsed + 1 <= Clientd!Max({Seconds + Poll, LastWake})
    BY <1>4, <2>1, ClientdLimit
  <2> QED
    BY <1>5, <2>2 DEF Clientd!EndsInTime, LastWake
<1>7. ClientdTypes' /\ ClientdOrder'
  BY <1>1, <1>3, <1>5 DEF ClientdTypes, ClientdOrder
<1>8. stats = "sleep" => \E k \in Nat : Due(k) /\ elapsed' + timer'["stats"] = k * Interval
  <2> SUFFICES ASSUME stats = "sleep"
               PROVE  \E k \in Nat : Due(k) /\ elapsed' + timer'["stats"] = k * Interval
    OBVIOUS
  <2>1. PICK k \in Nat : Due(k) /\ elapsed + timer["stats"] = k * Interval
    BY DEF ClientdTime
  <2>2. elapsed' + timer'["stats"] = elapsed + timer["stats"]
    BY <1>2, <1>3, <1>5 DEF ClientdTypes, Wakes
  <2> QED
    BY <2>1, <2>2
<1>9. /\ pc = "sleep" => elapsed' + timer'["main"] = Seconds
      /\ worker = "poll" => elapsed' + timer'["worker"] <= Seconds + Poll
  BY <1>2, <1>3, <1>5, ClientdConstants DEF ClientdTypes, ClientdTime, Wakes
<1> QED
  BY <1>1, <1>2, <1>6, <1>7, <1>8, <1>9 DEF ClientdTime

LEMMA ClientdEnding == ClientdInv => Clientd!ReportIsFinal /\ Clientd!EndsInTime
BY DEF ClientdInv, ClientdOrder, ClientdTime, Clientd!ReportIsFinal, Clientd!S!Alive

-----------------------------------------------------------------------------
(* The parts together.                                                     *)
LEMMA HarmonyKeeps == HarmonyInv /\ Harmony!Next => HarmonyInv'
BY HarmonyCallKeeps, HarmonyStopKeeps, HarmonyOpenKeeps, HarmonyStartKeeps,
   HarmonyWorkerKeeps DEF Harmony!Next, Harmony!ScriptStep

LEMMA AndroidKeeps == AndroidInv /\ Android!Next => AndroidInv'
BY AndroidTapKeeps, AndroidStopKeeps, AndroidStartKeeps, AndroidEndKeeps,
   AndroidWorkerKeeps DEF Android!Next, Android!MainStep

LEMMA ClientdKeeps == ClientdInv /\ Clientd!Next => ClientdInv'
BY PartsAssumption, ClientdMainKeeps, ClientdStatsKeeps, ClientdWorkerKeeps,
   ClientdTickKeeps DEF Clientd!Next

PartsInv ==
  /\ part = "session" => SessionInv
  /\ part = "android" => AndroidInv
  /\ part = "harmony" => HarmonyInv
  /\ part = "clientd" => ClientdInv

LEMMA PartsStart == PartsInit => PartsInv
BY PartsAssumption, SessionStart, AndroidStart, HarmonyStart, ClientdStart
DEF PartsInit, PartsInv

\* While nothing moves, every part keeps its invariant.
LEMMA PartsRest ==
  ASSUME UNCHANGED parts
  PROVE  PartsInv => PartsInv'
<1> USE DEF parts, session, owners, android, harmony, clientd
<1>1. SessionInv => SessionInv'
  BY DEF SessionInv, TypeOK, Alive, ThreadHasPort, NeverAborts
<1>2. AndroidInv => AndroidInv'
  BY DEF AndroidInv, Android!TypeOK, AndroidPoint, Silent, NoOpenSession,
         Android!S!NewSession
<1>3. HarmonyInv => HarmonyInv'
  BY DEF HarmonyInv, Harmony!TypeOK, HarmonyPoint, NoSession, Harmony!S!NewSession
<1>4. ClientdInv => ClientdInv'
  BY DEF ClientdInv, ClientdTypes, ClientdOrder, ClientdTime, Clientd!EndsInTime
<1> QED
  BY <1>1, <1>2, <1>3, <1>4 DEF PartsInv

LEMMA PartsKeep == PartsInv /\ [PartsNext]_parts => PartsInv'
<1> SUFFICES ASSUME PartsInv, [PartsNext]_parts PROVE PartsInv'
  OBVIOUS
<1>1. CASE UNCHANGED parts
  BY <1>1, PartsRest
<1>2. CASE part = "session" /\ Next /\ UNCHANGED part
  BY <1>2, SessionKeeps DEF PartsInv
<1>3. CASE part = "android" /\ Android!Next /\ UNCHANGED part
  BY <1>3, AndroidKeeps DEF PartsInv
<1>4. CASE part = "harmony" /\ Harmony!Next /\ UNCHANGED part
  BY <1>4, HarmonyKeeps DEF PartsInv
<1>5. CASE part = "clientd" /\ Clientd!Next /\ UNCHANGED part
  BY <1>5, ClientdKeeps DEF PartsInv
<1>6. CASE part = "ring" /\ UNCHANGED part
  BY <1>6 DEF PartsInv
<1> QED
  BY <1>1, <1>2, <1>3, <1>4, <1>5, <1>6 DEF PartsNext

(* A stopped or failed receiver holds nothing: whatever is tapped and      *)
(* whatever fails, when the Android service's main thread is idle and it   *)
(* does not say that it listens, no worker runs, the port is free and the  *)
(* track is paused; when HarmonyOS' bridge is idle and not running, its    *)
(* session, sink and both of the system's audio objects are gone.          *)
THEOREM StoppedReceiversHoldNothing == PartsSpec => []StoppedHoldsNothing
<1>1. PartsInv => StoppedHoldsNothing
  <2>1. HarmonyInv => Harmony!IdleHoldsNothing
    <3> SUFFICES ASSUME HarmonyInv, todo = <<>>, state # "running"
                 PROVE  /\ Harmony!S!NewSession /\ sink = Harmony!NoSink
                        /\ builders = 0 /\ ~sounding
      BY DEF Harmony!IdleHoldsNothing
    <3>1. NoSession /\ sink = Harmony!NoSink
      BY DEF HarmonyInv, HarmonyPoint
    <3> QED
      BY <3>1 DEF NoSession, HarmonyInv, Harmony!TypeOK, Harmony!NoSink
  <2> QED
    BY <2>1, AndroidSilent DEF PartsInv, StoppedHoldsNothing
<1> QED
  BY <1>1, PartsStart, PartsKeep, PTL DEF PartsSpec

(* clientd prints its report when no other thread is left, and its clock   *)
(* never passes the later of one poll after its time and the first waking  *)
(* of the statistics thread after its time.                                *)
THEOREM ClientdEndsWell == PartsSpec => []ClientdEndsCleanly
<1>1. PartsInv => ClientdEndsCleanly
  BY ClientdEnding DEF PartsInv, ClientdEndsCleanly
<1> QED
  BY <1>1, PartsStart, PartsKeep, PTL DEF PartsSpec

(* The fields of every part stay in their types; the worker of a session   *)
(* has its port, and HarmonyOS' sink says what the system holds for it.    *)
THEOREM ReceiversTyped ==
  ASSUME Aligned
  PROVE  PartsSpec => []ReceiverTypes
<1>1. PartsInv /\ RingInv => ReceiverTypes
  BY DEF PartsInv, RingInv, ReceiverTypes, SessionInv, AndroidInv, HarmonyInv
<1>2. PartsInit => RingInv
  BY RingStarts
<1>3. RingInv /\ [PartsNext]_parts => RingInv'
  BY PartsAssumption, RingSteps, RingRests, RingKeeps
<1> QED
  BY <1>1, <1>2, <1>3, PartsStart, PartsKeep, PTL DEF PartsSpec
=============================================================================
