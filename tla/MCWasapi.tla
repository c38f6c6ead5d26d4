------------------------------- MODULE MCWasapi ------------------------------
(* Audio capture on Windows - the life of WasapiLoopbackCapture, its pace, *)
(* its conversion of samples - and the list of devices.  Each is checked   *)
(* by itself: the first state says which, and the others stay where they   *)
(* begin.                                                                  *)
EXTENDS WasapiLifecycle

CONSTANTS
  Endpoints,                            \* devices
  ByteBits,                             \* format
  Frame, Period, In, Out, Jitter, Late  \* pacing

VARIABLES
  part,
  default, visit, uses, should_uninitialize, default_id, answer,
  collection, unreadable, snapshot, devices,                     \* devices
  task, mix, signal, out,                                        \* format
  phase, due, queue, source, pos, pending, left, pc, timer, late, gap \* pacing

\* Channel masks of devices: none, mono, stereo, quad, surround, 5.1 with
\* back and with side speakers, 7.1 wide and surround, two with height.
DeviceMasks ==
  {{}, {"FC"}, {"FL", "FR"}, {"FL", "FR", "BL", "BR"}, {"FL", "FR", "FC", "BC"},
   {"FL", "FR", "FC", "LFE", "BL", "BR"}, {"FL", "FR", "FC", "LFE", "SL", "SR"},
   {"FL", "FR", "FC", "LFE", "BL", "BR", "FLC", "FRC"},
   {"FL", "FR", "FC", "LFE", "BL", "BR", "SL", "SR"},
   {"FL", "FR", "SL", "SR", "TFL", "TFR", "TC"},
   {"FL", "FR", "TFC", "TBL", "TBC", "TBR"}}

\* And devices with more channels than their mask has bits.
DeviceLayouts ==
  [mask : DeviceMasks, more : {0}] \cup [mask : {{}, {"FL", "FR"}}, more : {1, 2, 6}] \cup
  [mask : {{"FL", "FR", "BL", "BR"}, {"FL", "FR", "FC", "LFE", "SL", "SR"}}, more : {1, 2}]

Devices == INSTANCE WasapiDevices WITH stage <- visit, inits <- uses, asked <- answer
Format == INSTANCE WasapiFormat WITH Layouts <- DeviceLayouts, format <- mix
Pacing == INSTANCE WasapiPacing
ASSUME PartsAssumption ==
  Devices!DevicesAssumption /\ Format!FormatAssumption /\ Pacing!PacingAssumption

list == <<default, visit, uses, should_uninitialize, default_id, answer,
          collection, unreadable, snapshot, devices>>
conversion == <<task, mix, signal, out>>
pace == <<phase, due, queue, source, pos, pending, left, pc, timer, late, gap>>
parts == <<part, vars, list, conversion, pace>>

\* A part that is not checked begins in one state only.
PartsInit ==
  /\ part \in {"life", "devices", "format", "pacing"}
  /\ Init /\ (part = "life" \/ asked = "id")
  /\ Devices!Init /\ (part = "devices" \/ default = "none")
  /\ IF part = "format" THEN Format!Init
     ELSE task = "frame" /\ mix = {} /\ signal = <<>> /\ out = <<>>
  /\ Pacing!Init

PartsNext ==
  /\ UNCHANGED part
  /\ \/ part = "life" /\ Next /\ UNCHANGED <<list, conversion, pace>>
     \/ part = "devices" /\ Devices!Next /\ UNCHANGED <<vars, conversion, pace>>
     \/ part = "format" /\ Format!Next /\ UNCHANGED <<vars, list, pace>>
     \/ part = "pacing" /\ Pacing!Next /\ UNCHANGED <<vars, list, conversion>>

PartsSpec == PartsInit /\ [][PartsNext]_parts
-----------------------------------------------------------------------------
(* WasapiDevices: the list is the endpoints that had an id, with the       *)
(* default marked, and every way out leaves COM as often as it was entered. *)
ListIsTrue == part = "devices" => Devices!ListIsTrue /\ Devices!ComBalanced

(* WasapiFormat: a PCM sample of any width keeps its value, and every      *)
(* channel is mixed to the sides it stands on.                             *)
ConversionKeepsSound == part = "format" => Format!PcmKeepsSignal /\ Format!MixKeepsSides

(* WasapiPacing: lateness does not add up, nor does sound that waits, here *)
(* or in the endpoint's buffer, nor the silence that is filled in.         *)
WasapiKeepsPace ==
  part = "pacing" =>
    Pacing!OnTime /\ Pacing!BacklogBounded /\ Pacing!DeviceNotOverrun /\ Pacing!SilenceSettles
=============================================================================
