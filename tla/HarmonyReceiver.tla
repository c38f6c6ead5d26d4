--------------------------- MODULE HarmonyReceiver ---------------------------
(* The HarmonyOS bridge: nativeStart and nativeStop on the script thread,  *)
(* the ClientSession and the OHAudioSink they own, the system's audio      *)
(* objects behind the sink, and the state the page may ask for.            *)
EXTENDS Naturals, Sequences

CONSTANT MaxCalls          \* bound: calls of nativeStart and nativeStop

VARIABLES
  socket, running, worker,   \* the session, see ClientSession
  todo,       \* the steps the current call still has to make
  sink,       \* g_audio_sink: builder_, renderer_ and started_, or NoSink
  builders, renderers, sounding,  \* the system: live objects, callbacks on
  state, calls

S == INSTANCE ClientSession WITH
       owner <- "idle", started <- FALSE, aborted <- FALSE

sess == <<socket, running, worker>>
system == <<builders, renderers, sounding>>
vars == <<sess, todo, sink, system, state, calls>>

NoSink == [live |-> FALSE, builder |-> FALSE, renderer |-> FALSE, started |-> FALSE]

Init ==
  /\ S!NewSession
  /\ todo = <<>> /\ sink = NoSink
  /\ builders = 0 /\ renderers = 0 /\ sounding = FALSE
  /\ state = "idle" /\ calls = 0

\* The common beginning: stop and free the session, then the sink.
StopCalls == <<"signal", "join", "stopSink", "freeSink">>

Call ==
  /\ todo = <<>> /\ calls < MaxCalls /\ calls' = calls + 1
  /\ \E last \in {"open", "idle"} : todo' = StopCalls \o <<last>>
  /\ UNCHANGED <<sess, sink, system, state>>

Does(step) == todo # <<>> /\ Head(todo) = step

Signal == Does("signal") /\ S!StopSignals /\ todo' = Tail(todo)
          /\ UNCHANGED <<sink, system, state, calls>>

Join ==
  /\ Does("join") /\ worker \in {"none", "ended"} /\ todo' = Tail(todo)
  /\ socket' = "none" /\ running' = FALSE /\ worker' = "none"
  /\ UNCHANGED <<sink, system, state, calls>>

\* OHAudioSink::Stop
StopSink ==
  /\ Does("stopSink") /\ todo' = Tail(todo)
  /\ sounding' = (sounding /\ ~sink.started)
  /\ sink' = [sink EXCEPT !.started = FALSE]
  /\ UNCHANGED <<sess, builders, renderers, state, calls>>

\* Mutant: a failed Open leaves the builder behind.
FreesRenderer ==
  /\ sink' = NoSink
  /\ renderers' = IF sink.renderer THEN renderers - 1 ELSE renderers
  /\ builders' = IF sink.renderer THEN builders - 1 ELSE builders
  /\ sounding' = (sounding /\ ~sink.renderer)

\* ~OHAudioSink: Stop, then both objects are given back if they are there.
Frees ==
  /\ sink' = NoSink
  /\ renderers' = IF sink.renderer THEN renderers - 1 ELSE renderers
  /\ builders' = IF sink.builder THEN builders - 1 ELSE builders
  /\ sounding' = (sounding /\ ~sink.renderer)

FreeSink == Does("freeSink") /\ Frees /\ todo' = Tail(todo)
            /\ UNCHANGED <<sess, state, calls>>

\* Open makes the builder, then the renderer; either may fail.
Open ==
  /\ Does("open")
  /\ \E made \in 0..2 :
       /\ sink' = [live |-> TRUE, builder |-> made > 0, renderer |-> made = 2, started |-> FALSE]
       /\ builders' = IF made > 0 THEN builders + 1 ELSE builders
       /\ renderers' = IF made = 2 THEN renderers + 1 ELSE renderers
       /\ todo' = IF made = 2 THEN <<"session">> ELSE <<"freeSink", "failed">>
  /\ UNCHANGED <<sess, sounding, state, calls>>

\* Mutant: a session that cannot start keeps the sink.
StartSessionKeepsSink ==
  /\ Does("session")
  /\ \/ S!StartWorker /\ todo' = <<"startSink", "running">>
     \/ UNCHANGED sess /\ todo' = <<"failed">>
  /\ UNCHANGED <<sink, system, state, calls>>

StartSession ==
  /\ Does("session")
  /\ \/ S!StartWorker /\ todo' = <<"startSink", "running">>
     \/ UNCHANGED sess /\ todo' = <<"freeSink", "failed">>      \* the port is taken
  /\ UNCHANGED <<sink, system, state, calls>>

\* OHAudioSink::Start; NativeStart does not learn whether it worked.
StartSink ==
  /\ Does("startSink") /\ todo' = Tail(todo)
  /\ \/ sink' = [sink EXCEPT !.started = TRUE] /\ sounding' = TRUE
     \/ UNCHANGED <<sink, sounding>>
  /\ UNCHANGED <<sess, builders, renderers, state, calls>>

SetState ==
  /\ \E s \in {"idle", "running", "failed"} : Does(s) /\ state' = s
  /\ todo' = Tail(todo)
  /\ UNCHANGED <<sess, sink, system, calls>>

ScriptStep ==
  \/ Signal \/ Join \/ StopSink \/ FreeSink \/ Open
  \/ StartSession \/ StartSink \/ SetState

\* SubmitPcm, inside a drain, never waits; it refuses until the sink is started.
WorkerStep ==
  /\ \/ S!WorkerBoots \/ S!WorkerHasNoDecoder \/ S!WorkerChecks
     \/ S!WorkerPolls \/ S!WorkerDrains
  /\ UNCHANGED <<todo, sink, system, state, calls>>

Next == Call \/ ScriptStep \/ WorkerStep

\* Both threads are scheduled.
Fairness == WF_vars(ScriptStep) /\ WF_vars(WorkerStep)

Spec == Init /\ [][Next]_vars /\ Fairness
-----------------------------------------------------------------------------
(* Types, and the sink's fields say what the system holds for it: every    *)
(* builder and renderer is given back exactly once, on every failure path. *)
TypeOK ==
  /\ state \in {"idle", "running", "failed"} /\ calls \in 0..MaxCalls
  /\ builders = (IF sink.builder THEN 1 ELSE 0)
  /\ renderers = (IF sink.renderer THEN 1 ELSE 0)
  /\ sounding = sink.started /\ (sink.started => sink.renderer)

(* Between calls, a bridge that is not running holds nothing: no port, no  *)
(* thread, no audio object, no callbacks.                                  *)
IdleHoldsNothing ==
  todo = <<>> /\ state # "running" =>
    S!NewSession /\ sink = NoSink /\ builders = 0 /\ ~sounding

(* Every call of the page returns.                                         *)
CallsReturn == todo # <<>> ~> todo = <<>>

(* "1 = running" (napi_init.cpp:20): between calls, a bridge that reports  *)
(* running receives and plays.                                             *)
(* The code does otherwise.                                                *)
RunningIsTrue ==
  todo = <<>> /\ state = "running" => running /\ S!Alive /\ sink.started
=============================================================================
