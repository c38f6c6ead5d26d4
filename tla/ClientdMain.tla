----------------------------- MODULE ClientdMain -----------------------------
(* clientd: main starts a session, sleeps, stops it and reports; the       *)
(* worker counts frames into the CountingSink; a third thread prints       *)
(* statistics at an interval.  Time passes only while all of them wait.    *)
EXTENDS Integers, FiniteSetsExt

CONSTANTS
  Seconds,     \* --seconds, in ticks
  Interval,    \* --stats-interval, in ticks; 0 for no statistics
  Poll,        \* poll_timeout, in ticks
  MaxFrames    \* bound: frames the session decodes

ClientdAssumption == {Seconds, Interval, Poll, MaxFrames} \subseteq Nat

VARIABLES
  socket, running, worker,   \* the session, see ClientSession
  pc,          \* the next step of main
  printing,
  stats,       \* "none" (no thread), "check", "sleep", "woken" or "ended"
  frames,      \* CountingSink::frames_, a plain size_t
  reported,    \* what main has printed
  timer,       \* thread -> ticks it still waits
  elapsed      \* ticks since the session was started

S == INSTANCE ClientSession WITH
       MaxCalls <- 0, owner <- "idle", started <- FALSE, aborted <- FALSE, calls <- 0

MaxTime == 3 * (Seconds + Interval + Poll)   \* bound of elapsed
sess == <<socket, running, worker>>
vars == <<sess, pc, printing, stats, frames, reported, timer, elapsed>>

Init ==
  /\ S!NewSession /\ pc = "start" /\ printing = (Interval > 0) /\ stats = "none"
  /\ frames = 0 /\ reported = 0 /\ elapsed = 0
  /\ timer = [t \in {"main", "stats", "worker"} |-> 0]

Start ==
  /\ pc = "start"
  /\ \/ S!StartWorker /\ pc' = "spawn"
     \/ S!StartFails /\ pc' = "ended"
  /\ UNCHANGED <<printing, stats, frames, reported, timer, elapsed>>

\* The statistics thread, if it is wanted, and then main sleeps.
Spawn ==
  /\ pc = "spawn" /\ pc' = "sleep" /\ timer' = [timer EXCEPT !["main"] = Seconds]
  /\ stats' = (IF Interval > 0 THEN "check" ELSE "none")
  /\ UNCHANGED <<sess, printing, frames, reported, elapsed>>

Wake ==
  /\ pc = "sleep" /\ timer["main"] = 0 /\ pc' = "quiet"
  /\ UNCHANGED <<sess, printing, stats, frames, reported, timer, elapsed>>

\* Mutant: the statistics thread is not told to end.
QuietsNothing ==
  /\ pc = "quiet" /\ pc' = "stop"
  /\ UNCHANGED <<sess, printing, stats, frames, reported, timer, elapsed>>

Quiet ==
  /\ pc = "quiet" /\ printing' = FALSE /\ pc' = "stop"
  /\ UNCHANGED <<sess, stats, frames, reported, timer, elapsed>>

Stop ==
  /\ pc = "stop" /\ S!StopSignals /\ pc' = "join"
  /\ UNCHANGED <<printing, stats, frames, reported, timer, elapsed>>

Join ==
  /\ pc = "join" /\ S!Joined /\ pc' = "joinStats"
  /\ UNCHANGED <<printing, stats, frames, reported, timer, elapsed>>

JoinStats ==
  /\ pc = "joinStats" /\ stats \in {"none", "ended"} /\ pc' = "report"
  /\ UNCHANGED <<sess, printing, stats, frames, reported, timer, elapsed>>

\* The counters are read without a lock; ~ClientSession has nothing to do.
Report ==
  /\ pc = "report" /\ reported' = frames /\ pc' = "ended"
  /\ UNCHANGED <<sess, printing, stats, frames, timer, elapsed>>

MainStep == Start \/ Spawn \/ Wake \/ Quiet \/ Stop \/ Join \/ JoinStats \/ Report

StatsChecks ==
  /\ stats = "check"
  /\ IF printing THEN stats' = "sleep" /\ timer' = [timer EXCEPT !["stats"] = Interval]
     ELSE stats' = "ended" /\ UNCHANGED timer

\* The flag is looked at again before the line is printed.
StatsWakes ==
  /\ stats = "sleep" /\ timer["stats"] = 0 /\ UNCHANGED timer
  /\ stats' = IF printing THEN "check" ELSE "ended"

StatsStep ==
  /\ StatsChecks \/ StatsWakes
  /\ UNCHANGED <<sess, pc, printing, frames, reported, elapsed>>

\* A poll lasts up to poll_timeout; packets that are there at once count
\* as part of the drain.
WorkerWaits ==
  /\ S!WorkerChecks /\ UNCHANGED frames
  /\ timer' \in {[timer EXCEPT !["worker"] = d] : d \in 1..Poll}

CountFrames ==
  /\ S!WorkerDrains /\ UNCHANGED timer
  /\ frames' \in frames..Min({frames + 1, MaxFrames})

WorkerStep ==
  /\ \/ S!WorkerBoots /\ UNCHANGED <<frames, timer>>
     \/ S!WorkerHasNoDecoder /\ UNCHANGED <<frames, timer>>
     \/ WorkerWaits
     \/ S!WorkerPolls /\ timer["worker"] = 0 /\ UNCHANGED <<frames, timer>>
     \/ CountFrames
  /\ UNCHANGED <<pc, printing, stats, reported, elapsed>>

\* A thread that has something to do does it before time goes on.
Waiting ==
  /\ pc = "sleep" => timer["main"] > 0
  /\ pc \notin {"start", "spawn", "quiet", "stop", "report", "ended"}
  /\ pc = "join" => S!Alive
  /\ pc = "joinStats" => stats \notin {"none", "ended"}
  /\ stats # "check" /\ (stats = "sleep" => timer["stats"] > 0)
  /\ worker \notin {"boot", "check", "drain"} /\ (worker = "poll" => timer["worker"] > 0)

Tick ==
  /\ Waiting /\ elapsed' = Min({elapsed + 1, MaxTime})
  /\ timer' = [t \in DOMAIN timer |-> Max({0, timer[t] - 1})]
  /\ UNCHANGED <<sess, pc, printing, stats, frames, reported>>

Next == MainStep \/ StatsStep \/ WorkerStep \/ Tick

\* All threads run.
Fairness ==
  WF_vars(MainStep) /\ WF_vars(StatsStep) /\ WF_vars(WorkerStep) /\ WF_vars(Tick)

Spec == Init /\ [][Next]_vars /\ Fairness
-----------------------------------------------------------------------------
(* The report is final: no thread that uses the session, the flag or the   *)
(* plain counters of the sink is left when main has read them.             *)
ReportIsFinal ==
  pc = "ended" => ~S!Alive /\ stats \in {"none", "ended"} /\ reported = frames

(* clientd ends, whatever it receives and whichever thread is waiting: not *)
(* later than one poll or one interval after its time is over.             *)
ClientdEnds == <>(pc = "ended")

EndsInTime ==
  elapsed <= Max({Seconds + Poll, IF Interval = 0 THEN 0 ELSE (Seconds \div Interval + 1) * Interval})

(* "Run for N seconds" (main.cpp:34), up to the poll that is under way.    *)
(* The code does otherwise.                                                *)
RunsForSeconds == elapsed <= Seconds + Poll
=============================================================================
