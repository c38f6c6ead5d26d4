---------------------------- MODULE HostdProcess ----------------------------
(***************************************************************************)
(* HostdProcessManager of the desktop application (src-tauri): the life    *)
(* cycle of the hostd child process under concurrent start and stop        *)
(* commands of the window and the tray, and under exits of hostd itself.   *)
(*                                                                         *)
(* Every call of start or stop is a task, and so is the background wait    *)
(* for the exit of each child; all of them share ProcessInner through an   *)
(* async mutex.  A task step here is what happens between two awaits that  *)
(* give up the mutex, so the steps of different tasks interleave as they   *)
(* do on the multi-threaded runtime.                                       *)
(*                                                                         *)
(* The child spawned by call c of start is called c.  The oneshot sender   *)
(* that can kill it travels from that call to ProcessInner and on to a     *)
(* call of stop.  The wait task selects on the receiver with the pattern   *)
(* `_`, so the child is killed when the sender is used and also when it is *)
(* merely dropped; signalled is the set of children whose sender is gone.  *)
(*                                                                         *)
(* Time is left out: the five seconds stop sleeps end at any moment.       *)
(***************************************************************************)
EXTENDS Naturals, FiniteSets

CONSTANTS
    Starts,        \* bound of the model: the calls of start
    Stops,         \* bound of the model: the calls of stop
    None,          \* no sender
    SpawnMayFail   \* may Command::spawn fail

ASSUME ManagerAssumption ==
    /\ None \notin Starts
    /\ SpawnMayFail \in BOOLEAN

StartTask(c) == <<"start", c>>
WaitTask(c)  == <<"wait", c>>
StopTask(p)  == <<"stop", p>>
Tasks == ({"start", "wait"} \X Starts) \cup ({"stop"} \X Stops)

States == {"Stopped", "Starting", "Running", "Stopping", "Faulted"}
Busy == {"Starting", "Running", "Stopping"}

VARIABLES
    state,          \* ProcessInner.state
    stopRequested,  \* ProcessInner.stop_requested
    killTx,         \* ProcessInner.child_kill_tx: the child it kills, or None
    pc,             \* where each task is
    report,         \* the status a task owes: "none", "unread", or the one read
    held,           \* the sender each call of stop has taken, or None
    wasStop,        \* was_stop_requested of each wait task
    child,          \* the child processes: "none", "alive" or how they ended
    signalled,      \* the children whose kill receiver is ready
    view            \* the status last emitted to the window and the tray

inner == <<state, stopRequested, killTx>>
procs == <<child, signalled>>
vars == <<inner, pc, report, held, wasStop, procs, view>>

Init ==
    /\ state = "Stopped" /\ stopRequested = FALSE /\ killTx = None
    /\ pc = [t \in Tasks |-> IF t[1] = "wait" THEN "none" ELSE "idle"]
    /\ report = [t \in Tasks |-> "none"]
    /\ held = [p \in Stops |-> None]
    /\ wasStop = [c \in Starts |-> FALSE]
    /\ child = [c \in Starts |-> "none"]
    /\ signalled = {}
    /\ view = "Stopped"

(* Task t goes on, once it has reported what it owed, and owes r.          *)
Go(t, from, to, r) ==
    /\ pc[t] = from /\ report[t] = "none"
    /\ pc' = [pc EXCEPT ![t] = to]
    /\ report' = [report EXCEPT ![t] = r]

(* A sender that is used, or dropped, makes its receiver ready.            *)
Used(tx) == {tx} \ {None}
DroppedUnnoticed(tx) == {}   \* mutant: select! would match Ok(_) only
Dropped(tx) == {tx} \ {None}

-----------------------------------------------------------------------------
(* emit_state_changed: the status is read under the mutex and emitted      *)
(* after the mutex was given up.                                           *)
ReadStatus(t) ==
    /\ report[t] = "unread"
    /\ report' = [report EXCEPT ![t] = state]
    /\ UNCHANGED <<inner, pc, held, wasStop, procs, view>>

EmitStatus(t) ==
    /\ report[t] \in States
    /\ view' = report[t]
    /\ report' = [report EXCEPT ![t] = "none"]
    /\ UNCHANGED <<inner, pc, held, wasStop, procs>>

Report(t) == ReadStatus(t) \/ EmitStatus(t)

-----------------------------------------------------------------------------
(* start                                                                   *)

StartRefused(c) ==
    /\ Go(StartTask(c), "idle", "refused", "none")
    /\ state \in Busy
    /\ UNCHANGED <<inner, held, wasStop, procs, view>>

StartAdmitted(c) ==
    /\ Go(StartTask(c), "idle", "admitted", "none")
    /\ state \notin Busy
    /\ UNCHANGED <<inner, held, wasStop, procs, view>>

BeginStarting(c) ==
    /\ Go(StartTask(c), "admitted", "starting", "unread")
    /\ state' = "Starting"
    /\ UNCHANGED <<stopRequested, killTx, held, wasStop, procs, view>>

SpawnHostd(c) ==
    /\ Go(StartTask(c), "starting", "spawned", "none")
    /\ child' = [child EXCEPT ![c] = "alive"]
    /\ UNCHANGED <<inner, held, wasStop, signalled, view>>

(* start returns the error and leaves the state as it is.                  *)
SpawnFails(c) ==
    /\ SpawnMayFail
    /\ Go(StartTask(c), "starting", "failed", "none")
    /\ UNCHANGED <<inner, held, wasStop, procs, view>>

(* An older sender is dropped by the assignment.                           *)
RegisterChild(c) ==
    /\ Go(StartTask(c), "spawned", "registered", "unread")
    /\ state' = "Running" /\ stopRequested' = FALSE
    /\ killTx' = c
    /\ signalled' = signalled \cup Dropped(killTx)
    /\ UNCHANGED <<held, wasStop, child, view>>

(* start returns; the task that waits for the exit runs.                   *)
WatchChild(c) ==
    /\ pc[StartTask(c)] = "registered" /\ report[StartTask(c)] = "none"
    /\ pc' = [pc EXCEPT ![StartTask(c)] = "done", ![WaitTask(c)] = "waiting"]
    /\ UNCHANGED <<inner, report, held, wasStop, procs, view>>

StartStep(c) ==
    \/ BeginStarting(c) \/ SpawnHostd(c) \/ SpawnFails(c)
    \/ RegisterChild(c) \/ WatchChild(c)

-----------------------------------------------------------------------------
(* stop                                                                    *)

(* With nothing to stop the state is tidied, and nothing is emitted.       *)
StopIdle(p) ==
    /\ Go(StopTask(p), "idle", "done", "none")
    /\ state \notin {"Starting", "Running"}
    /\ state' = IF state = "Faulted" THEN "Faulted" ELSE "Stopped"
    /\ UNCHANGED <<stopRequested, killTx, held, wasStop, procs, view>>

(* Mutant: the sender is shared instead of taken.                          *)
StopClonesSender(p) ==
    /\ Go(StopTask(p), "idle", "stopping", "unread")
    /\ state \in {"Starting", "Running"}
    /\ state' = "Stopping" /\ stopRequested' = TRUE
    /\ held' = [held EXCEPT ![p] = killTx]
    /\ UNCHANGED <<killTx, wasStop, procs, view>>

(* Mutant: the sender is left where it is.                                 *)
StopKeepsSender(p) ==
    /\ Go(StopTask(p), "idle", "stopping", "unread")
    /\ state \in {"Starting", "Running"}
    /\ state' = "Stopping" /\ stopRequested' = TRUE
    /\ UNCHANGED <<killTx, held, wasStop, procs, view>>

StopBegins(p) ==
    /\ Go(StopTask(p), "idle", "stopping", "unread")
    /\ state \in {"Starting", "Running"}
    /\ state' = "Stopping" /\ stopRequested' = TRUE
    /\ held' = [held EXCEPT ![p] = killTx]
    /\ killTx' = None
    /\ UNCHANGED <<wasStop, procs, view>>

SendKill(p) ==
    /\ Go(StopTask(p), "stopping", "sleeping", "none")
    /\ signalled' = signalled \cup Used(held[p])
    /\ held' = [held EXCEPT ![p] = None]
    /\ UNCHANGED <<inner, wasStop, child, view>>

(* Mutant: stop returns after its sleep and leaves the state as it is.     *)
StopTimesOutQuietly(p) ==
    /\ state = "Stopping"
    /\ Go(StopTask(p), "sleeping", "done", "none")
    /\ UNCHANGED <<inner, held, wasStop, procs, view>>

(* After five seconds.                                                     *)
StopTimesOut(p) ==
    /\ state = "Stopping"
    /\ Go(StopTask(p), "sleeping", "done", "unread")
    /\ state' = "Faulted"
    /\ UNCHANGED <<stopRequested, killTx, held, wasStop, procs, view>>

StopReturns(p) ==
    /\ state # "Stopping"
    /\ Go(StopTask(p), "sleeping", "done", "none")
    /\ UNCHANGED <<inner, held, wasStop, procs, view>>

StopStep(p) == SendKill(p) \/ StopTimesOut(p) \/ StopReturns(p)

-----------------------------------------------------------------------------
(* hostd and the task that waits for it                                    *)

ExitsByItself(c) ==
    /\ child[c] = "alive"
    /\ \E code \in {"zero", "nonzero"} : child' = [child EXCEPT ![c] = code]
    /\ UNCHANGED <<inner, pc, report, held, wasStop, signalled, view>>

(* The second arm of select!: a killed child has no exit code, or not 0.   *)
KillChild(c) ==
    /\ pc[WaitTask(c)] = "waiting"
    /\ c \in signalled /\ child[c] = "alive"
    /\ child' = [child EXCEPT ![c] = "nonzero"]
    /\ UNCHANGED <<inner, pc, report, held, wasStop, signalled, view>>

WaitReturns(c) ==
    /\ child[c] # "alive"
    /\ Go(WaitTask(c), "waiting", "exited", "none")
    /\ UNCHANGED <<inner, held, wasStop, procs, view>>

(* on_process_exited takes the mutex three times.                          *)
ReadStopRequested(c) ==
    /\ Go(WaitTask(c), "exited", "judged", "none")
    /\ wasStop' = [wasStop EXCEPT ![c] = stopRequested]
    /\ UNCHANGED <<inner, held, procs, view>>

ReportExit(c) ==
    /\ Go(WaitTask(c), "judged", "reported", "unread")
    /\ state' = IF wasStop[c] \/ child[c] = "zero" THEN "Stopped" ELSE "Faulted"
    /\ wasStop' = [wasStop EXCEPT ![c] = FALSE] \* out of scope
    /\ UNCHANGED <<stopRequested, killTx, held, procs, view>>

(* Mutant: only the flag is cleaned up, not the sender.                    *)
CleanupKeepsSender(c) ==
    /\ Go(WaitTask(c), "reported", "done", "none")
    /\ stopRequested' = FALSE
    /\ UNCHANGED <<state, killTx, held, wasStop, procs, view>>

Cleanup(c) ==
    /\ Go(WaitTask(c), "reported", "done", "none")
    /\ killTx' = None /\ stopRequested' = FALSE
    /\ signalled' = signalled \cup Dropped(killTx)
    /\ UNCHANGED <<state, held, wasStop, child, view>>

WaitStep(c) ==
    \/ KillChild(c) \/ WaitReturns(c)
    \/ ReadStopRequested(c) \/ ReportExit(c) \/ Cleanup(c)

-----------------------------------------------------------------------------
Next ==
    \/ \E t \in Tasks : Report(t)
    \/ \E c \in Starts :
          \/ StartRefused(c) \/ StartAdmitted(c) \/ StartStep(c)
          \/ ExitsByItself(c) \/ WaitStep(c)
    \/ \E p \in Stops : StopIdle(p) \/ StopBegins(p) \/ StopStep(p)

Spec == Init /\ [][Next]_vars

(* The runtime polls every ready task and a killed process ends.  Nobody   *)
(* has to call start or stop, and hostd need not exit.                     *)
FairSpec ==
    /\ Spec
    /\ \A c \in Starts : WF_vars(Report(StartTask(c)) \/ StartStep(c))
    /\ \A c \in Starts : WF_vars(Report(WaitTask(c)) \/ WaitStep(c))
    /\ \A p \in Stops : WF_vars(Report(StopTask(p)) \/ StopStep(p))

-----------------------------------------------------------------------------
Registered(c) == pc[StartTask(c)] \in {"registered", "done"}
Alive == {c \in Starts : child[c] = "alive"}

Points == {"none", "idle", "refused", "admitted", "starting", "failed",
           "spawned", "registered", "stopping", "sleeping", "waiting",
           "exited", "judged", "reported", "done"}

Types ==
    /\ state \in States /\ view \in States
    /\ stopRequested \in BOOLEAN
    /\ killTx \in Starts \cup {None}
    /\ pc \in [Tasks -> Points]
    /\ report \in [Tasks -> {"none", "unread"} \cup States]
    /\ held \in [Stops -> Starts \cup {None}]
    /\ wasStop \in [Starts -> BOOLEAN]
    /\ child \in [Starts -> {"none", "alive", "zero", "nonzero"}]
    /\ signalled \subseteq Starts

OneOwner ==
    /\ \A c \in signalled : Registered(c)
    /\ killTx # None => Registered(killTx) /\ killTx \notin signalled
    /\ \A p \in Stops :
          held[p] # None =>
             /\ Registered(held[p]) /\ held[p] \notin signalled
             /\ held[p] # killTx
             /\ \A q \in Stops \ {p} : held[q] # held[p]

(* The type invariant, with the type of a sender: it is in one place only, *)
(* it belongs to a child that start has registered, and it is gone from    *)
(* wherever it was once its receiver is ready.                             *)
TypeOK == Types /\ OneOwner

(* No hostd is out of reach: whatever the order of starts, stops and       *)
(* exits, a hostd that start has registered can still be stopped, or is    *)
(* already being killed (child_kill_tx, stop's kill_tx and the drop of a   *)
(* sender in hostd_process.rs).                                            *)
ChildReachable ==
    \A c \in Alive :
        Registered(c) =>
            \/ c = killTx
            \/ c \in signalled
            \/ \E p \in Stops : held[p] = c

AtRest(t) ==
    /\ report[t] = "none"
    /\ pc[t] \in {"none", "idle", "refused", "failed", "done", "waiting"}

(* Nothing is left to do until the user or hostd does something.           *)
Settled ==
    /\ \A t \in Tasks : AtRest(t)
    /\ \A c \in Starts :
          pc[WaitTask(c)] = "waiting" => c \in Alive \ signalled

(* However calls and exits overlapped, once everything has settled the     *)
(* state tells the truth: Running exactly when a hostd runs, and then one  *)
(* only, the one the next stop would kill; never Starting or Stopping.     *)
SettledStateIsTrue ==
    Settled =>
        /\ state \notin {"Starting", "Stopping"}
        /\ state = "Running" <=> Alive # {}
        /\ Alive = Used(killTx)

(* A stop that finds a registered hostd ends it, whatever else is started  *)
(* or stopped meanwhile.                                                   *)
StopKills ==
    \A c \in Starts :
        (state = "Stopping" /\ c \in Alive /\ Registered(c)) ~> c \notin Alive

(* The state never stays Stopping: hostd exits, or stop gives up.          *)
StoppingEnds == state = "Stopping" ~> state # "Stopping"

(* What the comment in start says of a spawn that failed: the caller takes *)
(* the manager to Faulted.  No caller does.                                *)
SpawnFailureIsReported ==
    \A c \in Starts : pc[StartTask(c)] = "failed" ~> state # "Starting"

(* What the user's guide promises of Stop: it ends the streaming, also     *)
(* when it was pressed while hostd was still starting.                     *)
StopEndsStreaming ==
    \A c \in Starts : (state = "Stopping" /\ c \in Alive) ~> c \notin Alive

(* The window and the tray show the state: once everything has settled the *)
(* status last emitted is the manager's.                                   *)
(* The code does otherwise.                                                *)
SettledViewIsTrue == Settled => view = state

=============================================================================
