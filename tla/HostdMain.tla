------------------------------ MODULE HostdMain ------------------------------
(* hostd from its command line to its exit code: the handlers of SIGINT    *)
(* and SIGTERM, the set-up that may fail at every step, and the loop that  *)
(* reads, encodes and sends a frame.  A signal may come at any moment.     *)
EXTENDS Integers

CONSTANTS
  Platform,     \* "linux" or "windows"
  IntMod,       \* 2^w for the w bits of int and of uint32_t
  PerSecond,    \* frames in a second, 100 in the code
  Asked,        \* the values of --seconds
  MayStall      \* whether PulseAudio may stop sending sound for good

HostdAssumption ==
  /\ Platform \in {"linux", "windows"} /\ MayStall \in BOOLEAN
  /\ {IntMod, PerSecond} \subseteq Nat \ {0} /\ Asked \subseteq Int

VARIABLES
  pc,          \* the next step of main, "ended" after it
  seconds,     \* --seconds, or Unlimited
  capture,     \* the capture made, or "none"
  handled,     \* signals with a handler
  stop,        \* g_stop_requested
  announced,   \* "Streaming to ..." has been printed
  total,       \* total_frames, or Unlimited
  sequence,
  code         \* the exit code, or "killed", "aborted", or "none" yet

vars == <<pc, seconds, capture, handled, stop, announced, total, sequence, code>>

Unlimited == 0      \* no value of --seconds that main accepts
Signals == {"SIGINT", "SIGTERM"}
Signed(i) == ((i + IntMod \div 2) % IntMod) - IntMod \div 2   \* int
Unsigned(i) == i % IntMod                                     \* uint32_t

Init ==
  /\ pc = "arguments" /\ seconds = Unlimited /\ capture = "none" /\ handled = {}
  /\ stop = FALSE /\ announced = FALSE /\ total = Unlimited /\ sequence = 0 /\ code = "none"

Exit(c) == pc' = "ended" /\ code' = c
Continue(to) == pc' = to /\ UNCHANGED code

\* An unknown option or no positive number of seconds; a text that is no
\* number, which std::stoi throws at; --list-devices; or the way to stream.
ReadArguments ==
  /\ pc = "arguments"
  /\ \/ Exit("failure") /\ UNCHANGED seconds
     \/ Exit("aborted") /\ UNCHANGED seconds
     \/ Continue("list") /\ UNCHANGED seconds
     \/ Continue("handlers") /\ UNCHANGED seconds
     \/ \E s \in Asked :
          IF s <= 0 THEN Exit("failure") /\ UNCHANGED seconds
          ELSE Continue("handlers") /\ seconds' = s
  /\ UNCHANGED <<capture, handled, stop, announced, total, sequence>>

ListDevices ==
  /\ pc = "list" /\ Exit("listed")
  /\ UNCHANGED <<seconds, capture, handled, stop, announced, total, sequence>>

\* std::signal, once for each.
InstallHandlers ==
  /\ \/ pc = "handlers" /\ handled' = {"SIGINT"} /\ Continue("second")
     \/ pc = "second" /\ handled' = handled \cup {"SIGTERM"} /\ Continue("capture")
  /\ UNCHANGED <<seconds, capture, stop, announced, total, sequence>>

\* The source and, for WASAPI, the role are names that may be unknown.
CreateCapture ==
  /\ pc = "capture"
  /\ \/ Exit("failure") /\ UNCHANGED capture
     \/ /\ capture' \in {"sine", IF Platform = "linux" THEN "pulse" ELSE "wasapi"}
        /\ Continue("start")
  /\ UNCHANGED <<seconds, handled, stop, announced, total, sequence>>

\* A step of main that goes on, or ends with EXIT_FAILURE.
SetUp(at, to, mayFail) ==
  /\ pc = at
  /\ Continue(to) \/ (mayFail /\ Exit("failure"))
  /\ UNCHANGED <<seconds, capture, handled, stop, announced, total, sequence>>

StartCapture == SetUp("start", "encoder", capture # "sine")
MakeEncoder == SetUp("encoder", "sender", TRUE)
OpenSender == SetUp("sender", "announce", TRUE)

\* The product is an int: its overflow is undefined, and the builds wrap.
Announce ==
  /\ pc = "announce" /\ announced' = TRUE /\ Continue("loop")
  /\ total' = (IF seconds = Unlimited THEN Unlimited ELSE Signed(seconds * PerSecond))
  /\ UNCHANGED <<seconds, capture, handled, stop, sequence>>

GoesOn == ~stop /\ (seconds = Unlimited \/ sequence < Unsigned(total))

Loop ==
  /\ pc = "loop"
  /\ IF GoesOn THEN Continue("read") ELSE Exit("success")
  /\ UNCHANGED <<seconds, capture, handled, stop, announced, total, sequence>>

\* Mutant: a failed read leaves the loop, as the end of the sound would.
ReadFrameBreaks ==
  /\ pc = "read"
  /\ Continue("encode") \/ Exit("success")
  /\ UNCHANGED <<seconds, capture, handled, stop, announced, total, sequence>>

ReadFrame == SetUp("read", "encode", capture # "sine")
EncodeFrame == SetUp("encode", "send", TRUE)

\* sequence++ is evaluated whether or not the datagram could be sent.
SendFrame ==
  /\ pc = "send" /\ sequence' = Unsigned(sequence + 1)
  /\ Continue("loop") \/ Exit("failure")
  /\ UNCHANGED <<seconds, capture, handled, stop, announced, total>>

\* The default of both signals ends the process.  On Windows a delivery
\* takes the handler away; on Linux it stays.
OnSignal(signal) ==
  /\ pc # "ended"
  /\ IF signal \in handled THEN stop' = TRUE /\ UNCHANGED <<pc, code>>
     ELSE Exit("killed") /\ UNCHANGED stop
  /\ handled' = (IF Platform = "windows" THEN handled \ {signal} ELSE handled)
  /\ UNCHANGED <<seconds, capture, announced, total, sequence>>

Main ==
  \/ ReadArguments \/ ListDevices \/ InstallHandlers \/ CreateCapture \/ StartCapture
  \/ MakeEncoder \/ OpenSender \/ Announce \/ Loop \/ ReadFrame \/ EncodeFrame \/ SendFrame

Next == Main \/ \E signal \in Signals : OnSignal(signal)

\* main runs, and a capture whose sound has not stalled returns frames.
Fairness ==
  WF_vars(Main /\ ~(MayStall /\ capture = "pulse" /\ pc = "read"))

Spec == Init /\ [][Next]_vars /\ Fairness
-----------------------------------------------------------------------------
(* A hostd that has said that it streams "until interrupted" is never      *)
(* killed by SIGINT or SIGTERM: it always gets to leave its loop.          *)
AnnouncedStopsCleanly == announced => code # "killed"

(* The exit code 0 means that the frames asked for were sent, or that the  *)
(* user stopped hostd: a failure on the way is never hidden.               *)
SuccessIsTrue ==
  code = "success" => stop \/ (seconds # Unlimited /\ sequence = seconds * PerSecond)

(* "until a signal is received: SIGINT, SIGTERM" (progress.md:174-178): a  *)
(* signal that is handled ends hostd.                                      *)
SignalEnds == stop ~> pc = "ended"
=============================================================================
