--------------------------- MODULE HostdController ---------------------------
(* HostdProcessController of the Windows launcher: StartAsync and          *)
(* StopAsync on the window's thread, where StopAsync waits without holding *)
(* the thread, and OnExited on a thread of the pool.  State is written     *)
(* outside the lock.                                                       *)
EXTENDS Naturals

CONSTANTS
  MaxStarts,   \* bound: processes created
  Kills        \* what Kill may do: hostd is "dead" at once, "dying" for longer
               \* than the 5 seconds, or still "alive" (Kill has thrown)

ControllerAssumption ==
  MaxStarts \in Nat /\ Kills # {} /\ Kills \subseteq {"dead", "dying", "alive"}

VARIABLES
  State,
  activeProcess,         \* 0 for null
  exitCompletionSource,  \* the process whose exit it stands for, 0 for null
  completed,             \* the processes whose completion source is set
  stopRequested,
  ui,        \* the window's thread: "idle", or the next step of StartAsync
  starts,    \* processes created so far; the last one is the newest
  life,      \* process -> "none", "created", "alive", "dying", "dead", external
  exited,    \* process -> how far its Exited event is
  waits,     \* processes a StopAsync waits for
  timedOut   \* and those whose wait is over without an exit

fields == <<activeProcess, exitCompletionSource, stopRequested>>
vars == <<State, fields, completed, ui, starts, life, exited, waits, timedOut>>

Procs == 1..MaxStarts
IsRunning == State \in {"Starting", "Running", "Stopping"}

Init ==
  /\ State = "Stopped" /\ activeProcess = 0 /\ exitCompletionSource = 0
  /\ completed = {} /\ stopRequested = FALSE /\ ui = "idle" /\ starts = 0
  /\ life = [p \in Procs |-> "none"] /\ exited = [p \in Procs |-> "no"]
  /\ waits = {} /\ timedOut = {}

CleanupActiveProcess(p) ==
  IF activeProcess = p
  THEN activeProcess' = 0 /\ exitCompletionSource' = 0 /\ stopRequested' = FALSE
  ELSE UNCHANGED fields
-----------------------------------------------------------------------------
\* Mutant: a start is accepted in any state.
AcceptsAlways == TRUE

Accepts == ~IsRunning

\* The locked part; a start that is not accepted changes nothing.
StartAsync ==
  /\ ui = "idle" /\ Accepts /\ starts < MaxStarts
  /\ starts' = starts + 1 /\ activeProcess' = starts' /\ exitCompletionSource' = starts'
  /\ stopRequested' = FALSE /\ State' = "Starting" /\ ui' = "launch"
  /\ life' = [life EXCEPT ![starts'] = "created"]
  /\ UNCHANGED <<completed, exited, waits, timedOut>>

\* The catch clause.
StartFails ==
  /\ CleanupActiveProcess(starts) /\ State' = "Faulted" /\ ui' = "idle"

Launch ==
  /\ ui = "launch"
  /\ \/ life' = [life EXCEPT ![starts] = "alive"] /\ ui' = "read" /\ UNCHANGED <<State, fields>>
     \/ StartFails /\ UNCHANGED life
  /\ UNCHANGED <<completed, starts, exited, waits, timedOut>>

\* BeginOutputReadLine throws once OnExited has disposed of the process.
BeginReads ==
  /\ ui = "read"
  /\ IF exited[starts] = "handled" THEN StartFails
     ELSE ui' = "running" /\ UNCHANGED <<State, fields>>
  /\ UNCHANGED <<completed, starts, life, exited, waits, timedOut>>

ReportRunning ==
  /\ ui = "running" /\ State' = "Running" /\ ui' = "idle"
  /\ UNCHANGED <<fields, completed, starts, life, exited, waits, timedOut>>
-----------------------------------------------------------------------------
\* The locked part of StopAsync, and Kill.
StopAsync ==
  /\ ui = "idle"
  /\ \/ /\ activeProcess = 0 /\ State' = (IF State = "Faulted" THEN State ELSE "Stopped")
        /\ UNCHANGED <<stopRequested, life, waits>>
     \/ /\ activeProcess # 0 /\ life[activeProcess] \in {"alive", "dying"}
        /\ stopRequested' = TRUE /\ State' = "Stopping" /\ waits' = waits \cup {activeProcess}
        /\ \E k \in Kills : life' = [life EXCEPT ![activeProcess] = k]
  /\ UNCHANGED <<activeProcess, exitCompletionSource, completed, ui, starts, exited, timedOut>>

\* Task.Delay wins; the event of an exit is assumed not to take that long.
TimesOut(p) ==
  /\ life[p] # "dead" /\ p \in waits \ completed /\ timedOut' = timedOut \cup {p} /\ waits' = waits \ {p}
  /\ UNCHANGED <<State, fields, completed, ui, starts, life, exited>>

\* Back on the window's thread, after the exit or after the timeout.
StopReturns(p) ==
  /\ ui = "idle" /\ p \in waits \cap completed /\ waits' = waits \ {p}
  /\ UNCHANGED <<State, fields, completed, ui, starts, life, exited, timedOut>>

StopGivesUp(p) ==
  /\ ui = "idle" /\ p \in timedOut /\ timedOut' = timedOut \ {p} /\ State' = "Faulted"
  /\ UNCHANGED <<fields, completed, ui, starts, life, exited, waits>>
-----------------------------------------------------------------------------
\* hostd ends on its own, or a kill takes effect late.
Exits(p) ==
  /\ life[p] \in {"alive", "dying"} /\ life' = [life EXCEPT ![p] = "dead"]
  /\ UNCHANGED <<State, fields, completed, ui, starts, exited, waits, timedOut>>

\* The locked part of OnExited, whose result the event keeps.
OnExited(p) ==
  /\ life[p] = "dead" /\ exited[p] = "no"
  /\ exited' = [exited EXCEPT ![p] = IF stopRequested THEN "stopped" ELSE "ended"]
  /\ completed' = (IF exitCompletionSource = 0 THEN completed
                   ELSE completed \cup {exitCompletionSource})
  /\ UNCHANGED <<State, fields, ui, starts, life, waits, timedOut>>

\* Mutant: the state after a requested stop is left to StopAsync.
ReportsUnlessStopped(p) == State' = (IF exited[p] = "stopped" THEN State ELSE "Faulted")

\* A code of 0 and a requested stop are Stopped, the rest Faulted.
Reports(p) ==
  \/ exited[p] = "stopped" /\ State' = "Stopped"
  \/ exited[p] = "ended" /\ State' \in {"Stopped", "Faulted"}

ReportExit(p) ==
  /\ exited[p] \in {"stopped", "ended"} /\ Reports(p)
  /\ exited' = [exited EXCEPT ![p] = "reported"]
  /\ UNCHANGED <<fields, completed, ui, starts, life, waits, timedOut>>

CleansUp(p) == CleanupActiveProcess(p)

CleanupExited(p) ==
  /\ exited[p] = "reported" /\ exited' = [exited EXCEPT ![p] = "handled"] /\ CleansUp(p)
  /\ UNCHANGED <<State, completed, ui, starts, life, waits, timedOut>>

Window ==
  \/ Launch \/ BeginReads \/ ReportRunning
  \/ \E p \in Procs : StopReturns(p) \/ StopGivesUp(p)

Pool == \E p \in Procs : TimesOut(p) \/ OnExited(p) \/ ReportExit(p) \/ CleanupExited(p)

Next == StartAsync \/ StopAsync \/ Window \/ Pool \/ \E p \in Procs : Exits(p)

\* Both threads run, the timer fires, and a hostd that is dying ends.
Fairness ==
  /\ WF_vars(Window)
  /\ \A p \in Procs :
       /\ WF_vars(life[p] = "dying" /\ Exits(p)) /\ WF_vars(TimesOut(p)) /\ WF_vars(OnExited(p))
       /\ WF_vars(ReportExit(p)) /\ WF_vars(CleanupExited(p))

Spec == Init /\ [][Next]_vars /\ Fairness
-----------------------------------------------------------------------------
(* As long as a killed hostd ends within the 5 seconds, every hostd that   *)
(* lives is the one the controller can stop, whenever the others ended and *)
(* whenever their events arrive.                                           *)
(* Not so where Kills has "dying", although plan-1.md:150 asks for "no      *)
(* zombie processes ... after several Start/Stop".                         *)
OnlyActiveLives == \A p \in Procs : life[p] \in {"alive", "dying"} => p = activeProcess

(* The controller does not stay in Stopping, even if hostd ends late.      *)
StoppingEnds == State = "Stopping" ~> State # "Stopping"

(* plan-1.md:150, "nor a confused state": Running, once StartAsync has     *)
(* returned and the event of the exit is handled, means that hostd runs.   *)
(* The code does otherwise.                                                *)
RunningHasProcess ==
  State = "Running" /\ ui = "idle" => activeProcess # 0
=============================================================================
