--------------------------- MODULE AndroidReceiver ---------------------------
(* The Android client: SpeakerService on the main thread, the JNI bridge   *)
(* with the one ClientSession it owns, the worker that calls back into     *)
(* AudioOutput, and the messages of the system.  Only the main thread      *)
(* takes g_mutex, so it never waits for it.                                *)
EXTENDS Naturals, Sequences

CONSTANT MaxTaps       \* bound: taps on the start and stop buttons

VARIABLES
  socket, running, worker,   \* the session, see ClientSession
  inbox,      \* messages of the system to the main thread
  todo,       \* the calls the current message still has to make
  leaving,    \* the system has taken down the instance of the service
  monitor,    \* the thread inside a synchronized method of AudioOutput
  playing,    \* the AudioTrack's playState is PLAYING
  status,     \* the last status broadcast
  lastTap, opened, taps   \* the last button, what nativeStart returned, count

S == INSTANCE ClientSession WITH
       MaxCalls <- 0, owner <- "idle", started <- FALSE, aborted <- FALSE, calls <- 0

sess == <<socket, running, worker>>
audio == <<monitor, playing>>
ghost == <<lastTap, opened, taps>>
vars == <<sess, inbox, todo, leaving, audio, status, ghost>>

Init ==
  /\ S!NewSession
  /\ inbox = <<>> /\ todo = <<>> /\ leaving = FALSE
  /\ monitor = "free" /\ playing = FALSE /\ status = "stopped"
  /\ lastTap = "stop" /\ opened = FALSE /\ taps = 0

\* The buttons and the notification start the service with an action.  A
\* service taken down in the meantime is created anew after its destroy.
Tap ==
  /\ taps < MaxTaps
  /\ \E button \in {"start", "stop"} :
       /\ inbox' = Append(inbox, button)
       /\ lastTap' = button
  /\ taps' = taps + 1
  /\ UNCHANGED <<sess, todo, leaving, audio, status, opened>>

\* The calls of stopReceiver: nativeStop, then AudioOutput.stop.
StopCalls == <<"signal", "join", "pause">>

\* onStartCommand and onDestroy: the calls each message makes.
Handler(message) ==
  CASE message = "start"   -> <<"starting">> \o StopCalls \o <<"signal", "join", "create">>
    [] message = "stop"    -> StopCalls \o <<"stopped", "stopSelf">>
    [] message = "destroy" -> StopCalls \o <<"stopped", "stopSelf", "gone">>

Receive ==
  /\ todo = <<>> /\ inbox # <<>>
  /\ inbox' = Tail(inbox) /\ todo' = Handler(Head(inbox))
  /\ UNCHANGED <<sess, leaving, audio, status, ghost>>

Does(call) == todo # <<>> /\ Head(todo) = call

\* ClientSession::Stop clears the flag, joins, and the session is freed.
Signal == Does("signal") /\ S!StopSignals /\ todo' = Tail(todo)
          /\ UNCHANGED <<inbox, leaving, audio, status, ghost>>

Join ==
  /\ Does("join") /\ worker \in {"none", "ended"} /\ todo' = Tail(todo)
  /\ socket' = "none" /\ running' = FALSE /\ worker' = "none"
  /\ UNCHANGED <<inbox, leaving, audio, status, ghost>>

\* AudioOutput.stop and start wait while the worker is inside write.
Pause == Does("pause") /\ monitor = "free" /\ playing' = FALSE /\ todo' = Tail(todo)
         /\ UNCHANGED <<sess, inbox, leaving, monitor, status, ghost>>

Play == Does("play") /\ monitor = "free" /\ playing' = TRUE /\ todo' = Tail(todo)
        /\ UNCHANGED <<sess, inbox, leaving, monitor, status, ghost>>

\* nativeStart's new session, and what the service does with the answer.
Create ==
  /\ Does("create")
  /\ \/ /\ S!StartWorker
        /\ opened' = TRUE /\ todo' = <<"play", "listening">>
     \/ /\ UNCHANGED sess                     \* the port is taken
        /\ opened' = FALSE
        /\ todo' = <<"failed">> \o StopCalls \o <<"stopSelf">>
  /\ UNCHANGED <<inbox, leaving, audio, status, lastTap, taps>>

Publish ==
  /\ \E s \in {"starting", "listening", "failed", "stopped"} : Does(s) /\ status' = s
  /\ todo' = Tail(todo)
  /\ UNCHANGED <<sess, inbox, leaving, audio, ghost>>

\* stopSelf() without a start id: the system takes the instance down and
\* posts its destroy behind the messages already under way.
StopSelf ==
  /\ Does("stopSelf") /\ todo' = Tail(todo)
  /\ leaving' = TRUE
  /\ inbox' = IF leaving THEN inbox ELSE Append(inbox, "destroy")
  /\ UNCHANGED <<sess, audio, status, ghost>>

Gone == Does("gone") /\ leaving' = FALSE /\ todo' = Tail(todo)
        /\ UNCHANGED <<sess, inbox, audio, status, ghost>>

MainStep ==
  \/ Receive \/ Signal \/ Join \/ Pause \/ Play \/ Create \/ Publish \/ StopSelf \/ Gone

\* SubmitToJava: onPcmReady enters AudioOutput.write, which starts a track
\* that does not play, and blocks until the device has taken the samples.
WorkerWrites ==
  /\ worker = "drain" /\ monitor = "free"
  /\ monitor' = "worker" /\ playing' = TRUE
  /\ UNCHANGED sess

WorkerWritten ==
  /\ monitor = "worker" /\ playing /\ monitor' = "free"
  /\ UNCHANGED <<sess, playing>>

WorkerStep ==
  /\ \/ S!WorkerBoots /\ UNCHANGED audio
     \/ S!WorkerHasNoDecoder /\ UNCHANGED audio
     \/ S!WorkerChecks /\ UNCHANGED audio
     \/ S!WorkerPolls /\ UNCHANGED audio
     \/ S!WorkerDrains /\ monitor # "worker" /\ UNCHANGED audio
     \/ WorkerWrites
     \/ WorkerWritten
  /\ UNCHANGED <<inbox, todo, leaving, status, ghost>>

Next == Tap \/ MainStep \/ WorkerStep

\* Both threads are scheduled, and a drain writes finitely many frames.
Fairness ==
  /\ WF_vars(MainStep) /\ WF_vars(WorkerStep)
  /\ SF_vars(S!WorkerDrains /\ monitor # "worker" /\ UNCHANGED <<inbox, todo, leaving, audio, status, ghost>>)
  /\ SF_vars(Pause) /\ SF_vars(Play)

Spec == Init /\ [][Next]_vars /\ Fairness
-----------------------------------------------------------------------------
(* Types; the callback runs only in a worker that is draining, and a       *)
(* session that is not bound has no worker.                                *)
TypeOK ==
  /\ socket \in {"none", "open", "bound"} /\ running \in BOOLEAN
  /\ worker \in {"none", "boot", "check", "poll", "drain", "ended"}
  /\ inbox \in Seq({"start", "stop", "destroy"}) /\ leaving \in BOOLEAN
  /\ monitor \in {"free", "worker"} /\ playing \in BOOLEAN
  /\ status \in {"starting", "listening", "failed", "stopped"}
  /\ monitor = "worker" => worker = "drain"
  /\ worker # "none" => socket = "bound"

(* When the service has said that it stopped or failed and its main thread *)
(* is idle, the port is free, no worker runs and the track is paused: the  *)
(* worker, which starts the track by itself, is joined first.              *)
StoppedIsSilent ==
  todo = <<>> /\ status # "listening" => ~S!Alive /\ socket = "none" /\ ~playing

(* Every message is handled to its end: the main thread never stays        *)
(* blocked on the join or on AudioOutput (no deadlock of worker and main). *)
CommandsEnd == todo # <<>> ~> todo = <<>>

Quiet == todo = <<>> /\ inbox = <<>>

(* A start that fails is shown as failed (progress.md, section 19): the    *)
(* service passes publishStopped = false in order to leave it so.          *)
(* The code does otherwise.                                                *)
FailureStaysShown ==
  Quiet /\ lastTap = "start" /\ ~opened => status = "failed"

(* Once the start button was the last one pressed and the port could be    *)
(* bound, the receiver listens (README, quick start, step 3).              *)
(* The code does otherwise.                                                *)
StartSticks ==
  Quiet /\ lastTap = "start" /\ opened => socket = "bound" /\ status = "listening"
=============================================================================
