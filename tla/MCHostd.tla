------------------------------- MODULE MCHostd -------------------------------
(* hostd on Linux - its main program, the search for the monitor source,   *)
(* the PulseAudio capture call by call and in time - and the controller    *)
(* that starts and stops hostd on Windows.  Each is checked by itself: the *)
(* first state says which, and the others stay where they begin.           *)
EXTENDS Naturals

CONSTANTS
  IntMod, PerSecond, Asked,           \* HostdMain
  Sinks,                               \* PulseLookup
  FrameSize, Fragments, MaxReadable,   \* PulseCapture
  Frame, Fragment, Ahead, Jitter, Late, \* PulsePacing
  MaxStarts                            \* HostdController

VARIABLES
  part,
  pc, seconds, capture, handled, stop, announced, total, sequence, code, \* main
  kind, stage, objects, state, requested, lookup, answers, offered, broken, \* lookup
  step, record, mainloop, context, stream, lock, waiting, readable, pending, \* capture
  phase, due, fragments, sound, left, paced, late, since,                \* pacing
  State, activeProcess, exitCompletionSource, completed, stopRequested,
  ui, starts, life, exited, waits, timedOut                              \* controller

Main == INSTANCE HostdMain WITH Platform <- "linux", MayStall <- FALSE
Lookup == INSTANCE PulseLookup
Capture == INSTANCE PulseCapture WITH pc <- step
Pacing == INSTANCE PulsePacing WITH
  Gaps <- FALSE, readable <- fragments, pending <- sound, pc <- paced
\* A hostd that is killed is dead at once, or may take its time.
Prompt == INSTANCE HostdController WITH Kills <- {"dead"}
Slow == INSTANCE HostdController WITH Kills <- {"dead", "dying"}

ASSUME PartsAssumption ==
  /\ Main!HostdAssumption /\ Lookup!LookupAssumption /\ Pacing!PulsePacingAssumption
  /\ Prompt!ControllerAssumption /\ Slow!ControllerAssumption

main == <<pc, seconds, capture, handled, stop, announced, total, sequence, code>>
search == <<kind, stage, objects, state, requested, lookup, answers, offered, broken>>
source == <<step, record, mainloop, context, stream, lock, waiting, readable, pending>>
pace == <<phase, due, fragments, sound, left, paced, late, since>>
controller == <<State, activeProcess, exitCompletionSource, completed, stopRequested,
                ui, starts, life, exited, waits, timedOut>>
parts == <<part, main, search, source, pace, controller>>

Init ==
  /\ part \in {"main", "lookup", "capture", "pacing", "prompt", "slow"}
  /\ Main!Init /\ Lookup!Init /\ Capture!Init /\ Pacing!Init /\ Prompt!Init
  /\ part = "lookup" \/ kind = "resolve"
  /\ part = "pacing" \/ (phase = 0 /\ fragments = 0)

Next ==
  /\ UNCHANGED part
  /\ \/ part = "main" /\ Main!Next /\ UNCHANGED <<search, source, pace, controller>>
     \/ part = "lookup" /\ Lookup!Next /\ UNCHANGED <<main, source, pace, controller>>
     \/ part = "capture" /\ Capture!Next /\ UNCHANGED <<main, search, pace, controller>>
     \/ part = "pacing" /\ Pacing!Next /\ UNCHANGED <<main, search, source, controller>>
     \/ part = "prompt" /\ Prompt!Next /\ UNCHANGED <<main, search, source, pace>>
     \/ part = "slow" /\ Slow!Next /\ UNCHANGED <<main, search, source, pace>>

Spec ==
  /\ Init /\ [][Next]_parts
  /\ \/ part = "main" /\ Main!Fairness
     \/ part = "lookup" /\ Lookup!Fairness
     \/ part = "capture" /\ Capture!Fairness
     \/ part = "slow" /\ Slow!Fairness
     \/ part \in {"pacing", "prompt"}
-----------------------------------------------------------------------------
(* hostd that has announced its stream is never killed by a signal, and    *)
(* its exit code is 0 only when all was sent that was asked for, or a stop. *)
HostdEndsTruly == part = "main" => Main!AnnouncedStopsCleanly /\ Main!SuccessIsTrue

(* What is told to stop does: hostd by a signal, as long as its capture    *)
(* returns; the controller, even where hostd takes more than five seconds. *)
StopsEnd ==
  /\ part = "main" => Main!SignalEnds
  /\ part = "slow" => Slow!StoppingEnds

(* PulseLookup: the conversation is not left before its answer is there,   *)
(* unless it is broken off, and then with the beginning of it.             *)
LookupReturnsTheAnswer == part = "lookup" => Lookup!ReturnsTheAnswer

(* No call to the sound server waits for good: the lookup ends whatever is *)
(* answered or broken off, and no wake-up is lost between Start or         *)
(* ReadFrame and the main loop.                                            *)
PulseCallsReturn ==
  /\ part = "lookup" => Lookup!LookupEnds
  /\ part = "capture" => Capture!StartReturns /\ Capture!ReadReturns

(* PulseCapture: nobody holds the lock, and nothing is freed, too long.    *)
LockAndObjects == part = "capture" => Capture!LockAndObjects

(* PulsePacing: lateness does not add up, and sound does not either.       *)
PulseKeepsPace == part = "pacing" => Pacing!OnTime /\ Pacing!BacklogBounded

(* HostdController: where kills take effect at once, what lives is what    *)
(* the controller can stop.                                                *)
OnlyActiveLives == part = "prompt" => Prompt!OnlyActiveLives
=============================================================================
