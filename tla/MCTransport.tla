----------------------------- MODULE MCTransport -----------------------------
(* The way of a packet: the sockets, the bytes of a datagram and the depth *)
(* of the buffer it arrives in.  Each is checked by itself: the first      *)
(* state says which, and the others stay where they begin.                 *)
EXTENDS UdpSocket, Sequences

CONSTANTS
  Base, MaxDatagram, ReceiveBuffer, Samples, MaxPayload, Filtered,  \* AudioPacket
  Window, High, Low, Second, LowTime,                               \* AdaptiveTarget
  MinSteady, SteadyTarget, MaxSteady, Poll, MaxInterval

VARIABLES
  part,
  sent, from, bytes, polled, got,                          \* the datagram
  steady, target, intervals, since, lowFor, raised, calm   \* the target

Packet == INSTANCE AudioPacket
Target == INSTANCE AdaptiveTarget

ASSUME PartsAssumption == Packet!PacketAssumption /\ Target!TargetAssumption

datagram == <<sent, from, bytes, polled, got>>
depth == <<steady, target, intervals, since, lowFor, raised, calm>>
parts == <<part, vars, datagram, depth>>

PartsInit ==
  /\ part \in {"socket", "packet", "target"}
  /\ Init /\ Packet!Init /\ Target!Init

PartsNext ==
  /\ UNCHANGED part
  /\ \/ part = "socket" /\ Next /\ UNCHANGED <<datagram, depth>>
     \/ part = "packet" /\ Packet!Next /\ UNCHANGED <<vars, depth>>
     \/ part = "target" /\ Target!Next /\ UNCHANGED <<vars, datagram>>

PartsSpec ==
  /\ PartsInit /\ [][PartsNext]_parts
  /\ \/ part = "target" /\ Target!Fairness
     \/ part # "target"
-----------------------------------------------------------------------------
(* AudioPacket: what fits is received as it was sent, the rest not at all, *)
(* and accepted are exactly the bytes SerializePacket writes.              *)
PacketIsExact == part = "packet" => Packet!HeardAsSent /\ Packet!ParseIsExact

(* AdaptiveTarget: the depth shrinks only when the variance was low for    *)
(* long enough.                                                            *)
ShrinksWhenCalm == Target!ShrinksWhenCalm

(* It settles at either end of its band when the arrivals do.              *)
Adapts == part = "target" => Target!AdaptsUp /\ Target!AdaptsDown
=============================================================================
