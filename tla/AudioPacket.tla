----------------------------- MODULE AudioPacket -----------------------------
(* The packet of the protocol as bytes: SerializePacket and TryParsePacket *)
(* around a datagram that may be too long for the receive buffer, or come  *)
(* from somebody else.  Neither keeps any state, so a behaviour is the way *)
(* of one datagram.  A byte has Base values instead of 256; fields keep    *)
(* their widths in bytes.                                                  *)
EXTENDS Integers, Sequences, SequencesExt

CONSTANTS
  Base,           \* values of a byte
  MaxDatagram,    \* the longest datagram the network takes
  ReceiveBuffer,  \* bytes Receive has room for
  Samples,        \* bound: the numbers that fields and payloads are filled from
  MaxPayload,     \* bound: bytes of payload
  Filtered        \* allowed_sender_ipv4 is hostd's address, not empty

HeaderSize == 28     \* kAudioPacketHeaderSize
U16 == Base * Base   \* how many values two bytes have,
U32 == U16 * U16     \* and four

(* No datagram is so long that its length could be confused with a shorter *)
(* one's in the 16 bits of payload_size.                                   *)
PacketAssumption ==
  /\ {Base, MaxDatagram, ReceiveBuffer, MaxPayload} \subseteq Nat
  /\ Base >= 2 /\ MaxDatagram < HeaderSize + U16
  /\ Samples \subseteq 0..(Base - 1) /\ Filtered \in BOOLEAN

VARIABLES
  sent,      \* the packet hostd last handed to the socket, in <<>>
  from, bytes, \* the datagram in the client's socket and its sender
  polled,    \* PollOne has answered for it,
  got        \* with a packet in <<>>, or with Nothing

vars == <<sent, from, bytes, polled, got>>

Nothing == <<>>
Magic == Base + 1   \* kPacketMagic
Version == 1

\* Most significant byte first.
WriteU16(value) == <<(value \div Base) % Base, value % Base>>

WriteU32(value) == WriteU16(value \div U16) \o WriteU16(value)
WriteU64(value) == WriteU32(value \div U32) \o WriteU32(value)

ReadU16(buffer, offset) == buffer[offset + 1] * Base + buffer[offset + 2]
ReadU32(buffer, offset) == ReadU16(buffer, offset) * U16 + ReadU16(buffer, offset + 2)
ReadU64(buffer, offset) == ReadU32(buffer, offset) * U32 + ReadU32(buffer, offset + 4)

SerializePacket(p) ==
  WriteU32(p.header.magic) \o WriteU16(p.header.version) \o WriteU16(p.header.flags)
    \o WriteU32(p.header.stream_id) \o WriteU32(p.header.sequence)
    \o WriteU64(p.header.capture_ts_us) \o WriteU16(p.header.frame_samples)
    \o WriteU16(Len(p.payload)) \o p.payload

ReadHeader(buffer) ==
  [magic |-> ReadU32(buffer, 0), version |-> ReadU16(buffer, 4),
   flags |-> ReadU16(buffer, 6), stream_id |-> ReadU32(buffer, 8),
   sequence |-> ReadU32(buffer, 12), capture_ts_us |-> ReadU64(buffer, 16),
   frame_samples |-> ReadU16(buffer, 24), payload_size |-> ReadU16(buffer, 26)]

IsPacket(header) == header.magic = Magic /\ header.version = Version

Parsed(buffer) ==
  << [header |-> ReadHeader(buffer),
      payload |-> SubSeq(buffer, HeaderSize + 1, Len(buffer))] >>

\* Mutant: a datagram may be longer than its packet.
ParsesPrefix(buffer) ==
  IF \/ Len(buffer) < HeaderSize
     \/ ~IsPacket(ReadHeader(buffer))
     \/ Len(buffer) < HeaderSize + ReadHeader(buffer).payload_size
  THEN Nothing ELSE Parsed(buffer)

TryParsePacket(buffer) ==
  IF \/ Len(buffer) < HeaderSize
     \/ ~IsPacket(ReadHeader(buffer))
     \/ Len(buffer) # HeaderSize + ReadHeader(buffer).payload_size
  THEN Nothing ELSE Parsed(buffer)

\* What recvfrom leaves of a datagram: its beginning, or an error (Windows).
Received(b) ==
  IF Len(b) > ReceiveBuffer THEN {SubSeq(b, 1, ReceiveBuffer), Nothing} ELSE {b}

Headers == [magic : {Magic}, version : {Version}, flags : {0},
            stream_id : {1, U32 - 1}, sequence : {0, U16 * Base, U32 - 1},
            capture_ts_us : {U32 * U32 - 2}, frame_samples : {Base}, payload_size : {0}]
-----------------------------------------------------------------------------
Init ==
  /\ sent = Nothing /\ from = "nobody" /\ bytes = <<>>
  /\ polled = FALSE /\ got = Nothing

\* UdpAudioSender::Send; sendto refuses what is too long.
Send ==
  /\ from = "nobody"
  /\ \E h \in Headers, p \in BoundedSeq(Samples, MaxPayload) :
       LET packet == [header |-> h, payload |-> p]
           b == SerializePacket(packet)
       IN  /\ Len(b) <= MaxDatagram
           /\ sent' = <<packet>> /\ from' = "hostd" /\ bytes' = b
  /\ UNCHANGED <<polled, got>>

\* Somebody else's datagram: much like a packet, but cut, drawn out or changed.
Altered(b) ==
  {SubSeq(b, 1, n) : n \in 0..Len(b)} \cup {b \o <<x>> : x \in Samples}
    \cup {[b EXCEPT ![i] = x] : i \in DOMAIN b, x \in Samples}

SendOther ==
  /\ from = "nobody"
  /\ \E h \in Headers, p \in BoundedSeq(Samples, MaxPayload) :
       \E b \in Altered(SerializePacket([header |-> h, payload |-> p])) :
         Len(b) <= MaxDatagram /\ from' = "other" /\ bytes' = b
  /\ UNCHANGED <<sent, polled, got>>

(* Receiver::PollOne with a datagram at hand: it is received, dropped when *)
(* its sender is not the one selected, and parsed.                         *)
PollOne ==
  /\ from # "nobody" /\ ~polled
  /\ \E b \in Received(bytes) :
       got' = IF b = Nothing \/ (Filtered /\ from # "hostd")
              THEN Nothing ELSE TryParsePacket(b)
  /\ polled' = TRUE /\ UNCHANGED <<sent, from, bytes>>

Next == Send \/ SendOther \/ PollOne

Spec == Init /\ [][Next]_vars
-----------------------------------------------------------------------------
(* A packet of hostd (UdpAudioSender::Send) is received as it was sent if  *)
(* it fits into the receive buffer, and otherwise not at all; nothing that *)
(* Receive cut off is taken for a shorter packet.                          *)
HeardAsSent ==
  polled /\ from = "hostd" =>
    LET size == Len(sent[1].payload)
    IN  got = IF HeaderSize + size > ReceiveBuffer THEN Nothing
              ELSE <<[sent[1] EXCEPT !.header.payload_size = size]>>

(* Whatever TryParsePacket accepts, from anybody, are exactly the bytes    *)
(* SerializePacket writes for it: none of those that Receive kept of the   *)
(* datagram is ignored and none made up.                                   *)
ParseIsExact == got # Nothing => SerializePacket(got[1]) \in Received(bytes)
=============================================================================
