---------------------------- MODULE PulseCapture -----------------------------
(* PulseMonitorCapture: the caller's thread in Start, ReadFrame and the    *)
(* destructor, the threaded main loop that runs the callbacks, the lock    *)
(* and the condition between them, and the server at the other end.        *)
EXTENDS Naturals, Sequences

CONSTANTS
  FrameSize,   \* kTargetFloats, in some unit
  Fragments,   \* sizes of the fragments the server sends, in that unit
  MaxReadable  \* bound: fragments the server has sent ahead

VARIABLES
  pc,          \* the next step of the caller
  record,      \* what is recorded: "monitor", or the server's "default"
  mainloop, context, stream,  \* "none", or the state of the object
  lock,        \* who holds the main loop's lock: "caller", "loop" or "free"
  waiting,     \* the caller is in pa_threaded_mainloop_wait, not yet woken
  readable,    \* the fragments the stream holds; 0 is a hole
  pending      \* pending_, in units

vars == <<pc, record, mainloop, context, stream, lock, waiting, readable, pending>>
objects == <<mainloop, context, stream>>

Init ==
  /\ pc = "new" /\ record = "default" /\ mainloop = "none" /\ context = "none"
  /\ stream = "none" /\ lock = "free" /\ waiting = FALSE
  /\ readable = <<>> /\ pending = 0
-----------------------------------------------------------------------------
\* The source given or found by PulseLookup; an empty name connects to the
\* server's default source.  Then the objects, up to the main loop's thread.
Resolve ==
  /\ pc = "new" /\ record' \in {"monitor", "default"} /\ pc' = "mainloop"
  /\ UNCHANGED <<objects, lock, waiting, readable, pending>>

Build(at, to, made) ==
  /\ pc = at
  /\ \/ pc' = to /\ made
     \/ pc' = "failed" /\ mainloop' = "none" /\ context' = "none"
  /\ UNCHANGED <<record, stream, lock, waiting, readable, pending>>

Builds ==
  \/ Build("mainloop", "context", mainloop' = "stopped" /\ UNCHANGED context)
  \/ Build("context", "thread", context' = "new" /\ UNCHANGED mainloop)
  \/ Build("thread", "lock", mainloop' = "running" /\ UNCHANGED context)

Lock(at, to) ==
  /\ pc = at /\ lock = "free" /\ lock' = "caller" /\ pc' = to
  /\ UNCHANGED <<record, objects, waiting, readable, pending>>

\* Mutant: a failure path returns with the lock.
FailsLocked(undo) == pc' = "failed" /\ UNCHANGED lock /\ undo

\* A failure under the lock; what is there stays for the destructor.
Fails(undo) == pc' = "failed" /\ lock' = "free" /\ undo

\* pa_threaded_mainloop_wait gives the lock up while it waits.
Wait == lock' = "free" /\ waiting' = TRUE

Wakes ==
  /\ pc \in {"awaitContext", "awaitStream", "read"} /\ ~waiting /\ lock = "free"
  /\ lock' = "caller"
  /\ UNCHANGED <<pc, record, objects, waiting, readable, pending>>

Held(at) == pc = at /\ lock = "caller"

Connect ==
  /\ Held("connect")
  /\ \/ context' = "connecting" /\ pc' = "awaitContext" /\ UNCHANGED lock
     \/ Fails(UNCHANGED context)
  /\ UNCHANGED <<record, mainloop, stream, waiting, readable, pending>>

AwaitContext ==
  /\ Held("awaitContext")
  /\ CASE context = "ready"  -> pc' = "stream" /\ UNCHANGED <<lock, waiting>>
       [] context = "failed" -> Fails(UNCHANGED waiting)
       [] OTHER              -> Wait /\ UNCHANGED pc
  /\ UNCHANGED <<record, objects, readable, pending>>

ConnectStream ==
  /\ Held("stream")
  /\ \/ stream' = "connecting" /\ pc' = "awaitStream" /\ UNCHANGED lock
     \/ Fails(UNCHANGED stream)
  /\ UNCHANGED <<record, mainloop, context, waiting, readable, pending>>

AwaitStream ==
  /\ Held("awaitStream")
  /\ CASE stream = "ready"  -> pc' = "started" /\ lock' = "free" /\ UNCHANGED <<stream, waiting>>
       [] stream = "failed" -> Fails(stream' = "none" /\ UNCHANGED waiting)
       [] OTHER             -> Wait /\ UNCHANGED <<pc, stream>>
  /\ UNCHANGED <<record, mainloop, context, readable, pending>>
-----------------------------------------------------------------------------
Drop == Tail(readable)

\* One turn of ReadFrame's loop; the frame itself is paced in PulsePacing.
Read ==
  /\ Held("read")
  /\ \/ /\ pending >= FrameSize /\ pending' = pending - FrameSize
        /\ pc' = "started" /\ lock' = "free" /\ UNCHANGED <<waiting, readable>>
     \/ /\ pending < FrameSize /\ stream # "ready"
        /\ Fails(UNCHANGED <<waiting, readable, pending>>)
     \/ /\ pending < FrameSize /\ stream = "ready" /\ readable = <<>>
        /\ Wait /\ UNCHANGED <<pc, readable, pending>>
     \/ /\ pending < FrameSize /\ stream = "ready" /\ readable # <<>>
        /\ pending' = pending + Head(readable) /\ readable' = Drop
        /\ UNCHANGED <<pc, lock, waiting>>
  /\ UNCHANGED <<record, objects>>

PeekFails ==
  /\ Held("read") /\ pending < FrameSize /\ stream = "ready"
  /\ Fails(UNCHANGED <<record, objects, waiting, readable, pending>>)

\* The destructor stops the main loop, which waits for its callback, before
\* it gives back the stream, the context and the main loop.
Destroy ==
  /\ pc \in {"started", "failed"} /\ pc' = "stop"
  /\ UNCHANGED <<record, objects, lock, waiting, readable, pending>>

Stop ==
  /\ pc = "stop" /\ pc' = "free"
  /\ mainloop = "running" => lock = "free"
  /\ mainloop' = (IF mainloop = "running" THEN "stopped" ELSE mainloop)
  /\ UNCHANGED <<record, context, stream, lock, waiting, readable, pending>>

Free ==
  /\ pc = "free" /\ pc' = "gone"
  /\ stream' = "none" /\ context' = "none" /\ mainloop' = "none"
  /\ UNCHANGED <<record, lock, waiting, readable, pending>>

Caller ==
  \/ Resolve \/ Builds \/ Lock("lock", "connect") \/ Wakes \/ Connect \/ AwaitContext
  \/ ConnectStream \/ AwaitStream \/ Lock("started", "read") \/ Read
  \/ Stop \/ Free
-----------------------------------------------------------------------------
\* The server, through the main loop's thread: it takes the lock, changes
\* what the caller will see, and signals from a callback.
LoopLocks ==
  /\ mainloop = "running" /\ lock = "free" /\ lock' = "loop"
  /\ UNCHANGED <<pc, record, objects, waiting, readable, pending>>

\* Mutant: the state callback of the context does not signal.
SignalsStream(callback) == waiting' = (waiting /\ callback = "context")

\* OnContextStateChanged, OnStreamStateChanged and OnStreamReadable.
Signals(callback) == waiting' = FALSE

Told(callback) == lock' = "free" /\ Signals(callback) /\ UNCHANGED <<pc, record, mainloop, pending>>

ContextAnswers ==
  /\ lock = "loop" /\ context = "connecting" /\ context' \in {"ready", "failed"}
  /\ Told("context") /\ UNCHANGED <<stream, readable>>

StreamAnswers ==
  /\ lock = "loop" /\ stream = "connecting" /\ stream' \in {"ready", "failed"}
  /\ Told("stream") /\ UNCHANGED <<context, readable>>

ConnectionLost ==
  /\ lock = "loop" /\ context = "ready" /\ context' = "failed"
  /\ stream' = (IF stream = "none" THEN stream ELSE "failed")
  /\ Told("stream") /\ UNCHANGED readable

FragmentArrives(f) ==
  /\ lock = "loop" /\ stream = "ready" /\ Len(readable) < MaxReadable
  /\ readable' = Append(readable, f) /\ Told("readable") /\ UNCHANGED <<context, stream>>

NothingNew ==
  /\ lock = "loop" /\ lock' = "free"
  /\ UNCHANGED <<pc, record, objects, waiting, readable, pending>>

Loop ==
  \/ LoopLocks \/ ContextAnswers \/ StreamAnswers \/ ConnectionLost
  \/ (\E f \in Fragments \cup {0} : FragmentArrives(f)) \/ NothingNew

Next == Caller \/ PeekFails \/ Destroy \/ Loop

\* The caller runs whenever it can (it may find the lock taken, but not for
\* ever), the loop returns from every callback, and the server answers and
\* sends sound.
Fairness ==
  /\ SF_vars(Caller)
  /\ WF_vars(LoopLocks) /\ WF_vars(lock = "loop" /\ Loop)
  /\ SF_vars(ContextAnswers) /\ SF_vars(StreamAnswers)
  /\ \A f \in Fragments : SF_vars(FragmentArrives(f))

Spec == Init /\ [][Next]_vars /\ Fairness
-----------------------------------------------------------------------------
(* The caller holds the lock only inside a call, the loop only while its   *)
(* thread runs, and an object is there as long as a callback may use it.   *)
LockAndObjects ==
  /\ pc \in {"started", "failed", "stop", "free", "gone"} => lock # "caller"
  /\ lock = "loop" => mainloop = "running"
  /\ mainloop = "running" => context # "none"
  /\ pc = "gone" => mainloop = "none" /\ context = "none" /\ stream = "none"

(* Start returns, with success or without: no change of state is missed    *)
(* between looking at it and waiting for the next one.                     *)
StartReturns == pc = "mainloop" ~> pc \in {"started", "failed"}

(* ReadFrame returns a frame or fails as long as the server sends sound,   *)
(* holes and partial fragments between it or not.                          *)
ReadReturns == pc = "read" ~> pc \in {"started", "failed"}

(* DESIGN.md:53-54, "pulse: Linux PulseAudio monitor source": what is sent *)
(* is what the computer plays.                                             *)
(* The code does otherwise.                                                *)
RecordsMonitor == pc = "started" => record = "monitor"
=============================================================================
