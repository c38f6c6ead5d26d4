---------------------------- MODULE ClientSession ----------------------------
(* ClientSession: the receiver socket, the running flag and the worker     *)
(* thread, driven by one owner thread that may call Start and Stop in any  *)
(* order.  What the worker does with packets is AudioPath's subject; here  *)
(* only the points where it looks at the flag, waits and ends matter.      *)
EXTENDS Naturals

CONSTANT MaxCalls       \* bound: calls of the owner

ASSUME CallsAssumption == MaxCalls \in Nat

VARIABLES
  socket,     \* receiver_: "none", "open" (bind failed) or "bound"
  running,    \* running_
  worker,     \* "none" (worker_ not joinable) or what the thread is at
  owner,      \* "idle", or "joining" in Stop
  started,    \* what the last Start returned
  aborted,    \* std::terminate: a joinable thread object was assigned
  calls

session == <<socket, running, worker>>
vars == <<socket, running, worker, owner, started, aborted, calls>>

Alive == worker \in {"boot", "check", "poll", "drain"}

NewSession == socket = "none" /\ running = FALSE /\ worker = "none"

\* Receiver::Bind: a bound UDP socket cannot be bound again; another
\* process may hold the port.
BindFails == socket' = IF socket = "bound" THEN "bound" ELSE "open"

\* Mutant: Bind answers true on a socket that is bound already.
BindsAgain == socket' = "bound"

BindSucceeds == socket # "bound" /\ socket' = "bound"

StartRunning == running /\ UNCHANGED session

StartFails == ~running /\ BindFails /\ UNCHANGED <<running, worker>>

StartWorker == ~running /\ BindSucceeds /\ running' = TRUE /\ worker' = "boot"

\* Mutant: Stop waits without telling the worker.
StopSilently == UNCHANGED session

StopSignals == running' = FALSE /\ UNCHANGED <<socket, worker>>

Joined ==
  /\ worker \in {"none", "ended"} /\ worker' = "none"
  /\ UNCHANGED <<socket, running>>

WorkerBoots ==
  /\ worker = "boot"
  /\ worker' = "check"
  /\ UNCHANGED <<socket, running>>

\* The decoder cannot be created: Run returns, long after Start said true.
WorkerHasNoDecoder ==
  /\ worker = "boot"
  /\ running' = FALSE /\ worker' = "ended"
  /\ UNCHANGED socket

WorkerChecks ==
  /\ worker = "check"
  /\ worker' = IF running THEN "poll" ELSE "ended"
  /\ UNCHANGED <<socket, running>>

\* PollOne returns after at most poll_timeout, with or without a packet.
WorkerPolls ==
  /\ worker = "poll"
  /\ worker' = "drain"
  /\ UNCHANGED <<socket, running>>

WorkerDrains ==
  /\ worker = "drain"
  /\ worker' = "check"
  /\ UNCHANGED <<socket, running>>
-----------------------------------------------------------------------------
Init ==
  /\ NewSession
  /\ owner = "idle" /\ started = FALSE /\ aborted = FALSE /\ calls = 0

Call == owner = "idle" /\ ~aborted /\ calls < MaxCalls /\ calls' = calls + 1

OwnerStarts ==
  /\ Call
  /\ \/ StartRunning /\ started' = TRUE /\ UNCHANGED aborted
     \/ StartFails /\ started' = FALSE /\ UNCHANGED aborted
     \/ StartWorker /\ started' = TRUE /\ aborted' = (worker # "none")
  /\ UNCHANGED owner

OwnerStops == Call /\ StopSignals /\ owner' = "joining" /\ UNCHANGED <<started, aborted>>

OwnerJoins ==
  /\ owner = "joining" /\ Joined /\ owner' = "idle"
  /\ UNCHANGED <<started, aborted, calls>>

Worker ==
  /\ ~aborted
  /\ \/ WorkerBoots \/ WorkerHasNoDecoder \/ WorkerChecks
     \/ WorkerPolls \/ WorkerDrains
  /\ UNCHANGED <<owner, started, aborted, calls>>

Next == OwnerStarts \/ OwnerStops \/ OwnerJoins \/ Worker

\* Both threads are scheduled and poll_timeout is finite.
Fairness == WF_vars(Worker) /\ WF_vars(OwnerJoins)

Spec == Init /\ [][Next]_vars /\ Fairness
-----------------------------------------------------------------------------
(* Types, and that a session only runs on a bound socket.                  *)
TypeOK ==
  /\ socket \in {"none", "open", "bound"} /\ running \in BOOLEAN
  /\ worker \in {"none", "boot", "check", "poll", "drain", "ended"}
  /\ owner \in {"idle", "joining"} /\ started \in BOOLEAN /\ calls \in 0..MaxCalls
  /\ (running \/ Alive) => socket = "bound"

(* Start never replaces a thread object that is still joinable, although   *)
(* a worker that ended by itself leaves one behind and clears running_:    *)
(* the socket, bound for good, refuses the second Bind first.              *)
NeverAborts == ~aborted

(* Stop returns: the worker sees the cleared flag within one poll.         *)
StopReturns == owner = "joining" ~> owner = "idle"
=============================================================================
