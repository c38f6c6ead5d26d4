----------------------------- MODULE MCReceivers -----------------------------
(* The three programs that own a ClientSession - the Android service, the  *)
(* HarmonyOS bridge and clientd -, the session itself under any owner, and *)
(* the ring behind HarmonyOS' sink.  Each is checked by itself: the first  *)
(* state says which, and the others stay where they begin.                 *)
EXTENDS ClientSession, Sequences

CONSTANTS
  MaxTaps,                                                \* AndroidReceiver
  Seconds, Interval, Poll, MaxFrames,                     \* ClientdMain
  Requested, IndexMod, FrameSamples, Asks, SampleNumbers  \* SampleRing

VARIABLES
  part,
  todo,                                                        \* both bridges
  inbox, leaving, monitor, playing, status, lastTap, opened, taps, \* Android
  sink, builders, renderers, sounding, state,                  \* HarmonyOS
  pc, printing, stats, frames, reported, timer, elapsed,       \* clientd
  buf, head, tail, next, writer, reader, heard                 \* the ring

Android == INSTANCE AndroidReceiver
Harmony == INSTANCE HarmonyReceiver
Clientd == INSTANCE ClientdMain
Ring == INSTANCE SampleRing

ASSUME PartsAssumption ==
  MaxTaps \in Nat /\ Clientd!ClientdAssumption /\ Ring!RingAssumption

owners == <<owner, started, aborted>>
android == <<inbox, leaving, monitor, playing, status, lastTap, opened, taps>>
harmony == <<sink, builders, renderers, sounding, state>>
clientd == <<pc, printing, stats, frames, reported, timer, elapsed>>
ring == <<buf, head, tail, next, writer, reader, heard>>
parts == <<part, session, calls, todo, owners, android, harmony, clientd, ring>>

PartsInit ==
  /\ part \in {"session", "android", "harmony", "clientd", "ring"}
  /\ Init /\ Android!Init /\ Harmony!Init /\ Clientd!Init /\ Ring!Init

PartsNext ==
  /\ UNCHANGED part
  /\ \/ part = "session" /\ Next /\ UNCHANGED <<todo, android, harmony, clientd, ring>>
     \/ part = "android" /\ Android!Next /\ UNCHANGED <<calls, owners, harmony, clientd, ring>>
     \/ part = "harmony" /\ Harmony!Next /\ UNCHANGED <<owners, android, clientd, ring>>
     \/ part = "clientd" /\ Clientd!Next /\ UNCHANGED <<calls, todo, owners, android, harmony, ring>>
     \/ part = "ring" /\ Ring!Next /\ UNCHANGED <<session, calls, todo, owners, android, harmony, clientd>>

PartsSpec ==
  /\ PartsInit
  /\ [][PartsNext]_parts
  /\ \/ part = "session" /\ Fairness
     \/ part = "android" /\ Android!Fairness
     \/ part = "harmony" /\ Harmony!Fairness
     \/ part = "clientd" /\ Clientd!Fairness
     \/ part = "ring"
-----------------------------------------------------------------------------
(* Types of every part; a session that is not bound has no worker, and the *)
(* fields of HarmonyOS' sink say what the system holds for it.             *)
ReceiverTypes ==
  /\ part = "session" => TypeOK
  /\ part = "android" => Android!TypeOK
  /\ part = "harmony" => Harmony!TypeOK
  /\ part = "ring" => Ring!TypeOK

(* When the Android service says that it stopped or failed, or a call of   *)
(* HarmonyOS' bridge has left it not running, no worker runs, the port is  *)
(* free, and the track is paused or the sink and its renderer are gone.    *)
StoppedHoldsNothing ==
  /\ part = "android" => Android!StoppedIsSilent
  /\ part = "harmony" => Harmony!IdleHoldsNothing

(* Every call ends: Stop under any owner, every message to the service's   *)
(* main thread, nativeStart and nativeStop - and so does clientd.          *)
CallsReturn ==
  /\ part = "session" => StopReturns
  /\ part = "android" => Android!CommandsEnd
  /\ part = "harmony" => Harmony!CallsReturn
  /\ part = "clientd" => Clientd!ClientdEnds

(* clientd reads its counters when no other thread is left, and ends       *)
(* within the longest wait of its threads.                                 *)
ClientdEndsCleanly == part = "clientd" => Clientd!ReportIsFinal /\ Clientd!EndsInTime

(* The ring never swaps left and right.                                    *)
RingChannelsInStep == part = "ring" => Ring!ChannelsInStep

(* The ring is a bounded queue of samples.                                 *)
RingRefinesFifo == Ring!RefinesFifo
=============================================================================
