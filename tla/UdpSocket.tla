------------------------------ MODULE UdpSocket ------------------------------
(* UdpSocket objects, which move but do not copy, over the descriptors of  *)
(* the operating system.  An object opens its descriptor when it is first  *)
(* needed; what is sent and received is the subject of AudioPath.          *)
EXTENDS Naturals, FiniteSets

CONSTANTS
  Objects,   \* places where a UdpSocket can live
  Fds,       \* descriptors the system can give out
  Ports,     \* the system's ports; Bind(0) asks for any of them
  Invalid    \* kInvalidFd

ASSUME SocketAssumption == Invalid \notin Fds /\ Ports \subseteq Nat \ {0}

VARIABLES
  live,        \* the objects that are constructed
  fd_,         \* object -> descriptor or Invalid
  bound_port_, \* object -> port or 0
  open,        \* external: the descriptors in use
  local,       \* external: descriptor -> local port, 0 before it has one
  connected    \* external: the descriptors with a peer

vars == <<live, fd_, bound_port_, open, local, connected>>
system == <<open, local, connected>>

Init ==
  /\ live = {} /\ open = {} /\ connected = {}
  /\ fd_ = [o \in Objects |-> Invalid] /\ bound_port_ = [o \in Objects |-> 0]
  /\ local = [f \in Fds |-> 0]

Construct(o) == o \notin live /\ live' = live \cup {o} /\ UNCHANGED <<fd_, bound_port_, system>>

\* Close, and then fields as the operation leaves them.
Close(o) ==
  /\ open' = open \ {fd_[o]} /\ connected' = connected \ {fd_[o]}
  /\ local' = [f \in Fds |-> IF f = fd_[o] THEN 0 ELSE local[f]]

Destroy(o) ==
  /\ o \in live /\ live' = live \ {o} /\ Close(o)
  /\ fd_' = [fd_ EXCEPT ![o] = Invalid] /\ bound_port_' = [bound_port_ EXCEPT ![o] = 0]

\* Mutant: the other object keeps its descriptor.
TakesShared(o, other) ==
  /\ fd_' = [fd_ EXCEPT ![o] = fd_[other]]
  /\ bound_port_' = [bound_port_ EXCEPT ![o] = bound_port_[other], ![other] = 0]

\* Mutant: the other object keeps its port.
TakesFd(o, other) ==
  /\ fd_' = [fd_ EXCEPT ![o] = fd_[other], ![other] = Invalid]
  /\ bound_port_' = [bound_port_ EXCEPT ![o] = bound_port_[other]]

Takes(o, other) ==
  /\ fd_' = [fd_ EXCEPT ![o] = fd_[other], ![other] = Invalid]
  /\ bound_port_' = [bound_port_ EXCEPT ![o] = bound_port_[other], ![other] = 0]

MoveConstruct(o, other) ==
  /\ o \notin live /\ other \in live /\ live' = live \cup {o}
  /\ Takes(o, other) /\ UNCHANGED system

\* An object moved to itself stays as it is.
MoveAssign(o, other) ==
  /\ {o, other} \subseteq live /\ o # other /\ Close(o) /\ Takes(o, other)
  /\ UNCHANGED live

\* EnsureOpen makes f the object's descriptor, unless it has one.
EnsureOpen(o, f) ==
  /\ o \in live /\ UNCHANGED live
  /\ IF fd_[o] # Invalid THEN f = fd_[o] /\ UNCHANGED <<fd_, open>>
     ELSE f \notin open /\ open' = open \cup {f} /\ fd_' = [fd_ EXCEPT ![o] = f]

\* Open, and any operation that fails after EnsureOpen.
Open(o, f) == EnsureOpen(o, f) /\ UNCHANGED <<bound_port_, local, connected>>

\* A descriptor is bound once.  With SO_REUSEADDR the port may be in use;
\* getsockname may fail, and then the port is not known.
Bind(o, f, port) ==
  /\ EnsureOpen(o, f) /\ local[f] = 0 /\ UNCHANGED connected
  /\ \E p \in (IF port = 0 THEN Ports ELSE {port}) :
       /\ local' = [local EXCEPT ![f] = p]
       /\ bound_port_' \in {bound_port_, [bound_port_ EXCEPT ![o] = p]}

\* The system chooses a local port for what has none.
AutoBind(f) ==
  \E p \in Ports : local' = [local EXCEPT ![f] = IF @ = 0 THEN p ELSE @]

Connect(o, f) ==
  /\ EnsureOpen(o, f) /\ AutoBind(f)
  /\ connected' = connected \cup {f} /\ UNCHANGED bound_port_

SendTo(o, f) == EnsureOpen(o, f) /\ AutoBind(f) /\ UNCHANGED <<bound_port_, connected>>

Send(o, f) == f \in connected /\ SendTo(o, f)

\* Whether a datagram comes in time or not, of the socket nothing changes.
Receive(o, f) == Open(o, f)

Next ==
  \E o \in Objects :
    \/ Construct(o) \/ Destroy(o)
    \/ \E other \in Objects : MoveConstruct(o, other) \/ MoveAssign(o, other)
    \/ \E f \in Fds :
         \/ Open(o, f) \/ Connect(o, f) \/ SendTo(o, f) \/ Send(o, f) \/ Receive(o, f)
         \/ \E port \in Ports \cup {0} : Bind(o, f, port)

Spec == Init /\ [][Next]_vars
-----------------------------------------------------------------------------
(* Through any constructions, moves, uses and destructions, the open       *)
(* descriptors are those of the live objects, and no two objects have the  *)
(* same: none is leaked, closed twice or closed under its owner.           *)
OneOwner ==
  /\ open = {fd_[o] : o \in live} \ {Invalid}
  /\ \A o, p \in live : o # p /\ fd_[o] = fd_[p] => fd_[o] = Invalid
  /\ \A o \in Objects \ live : fd_[o] = Invalid

(* bound_port() never names a port that the object's own descriptor does   *)
(* not have, after a failed Bind or a move as well.                        *)
PortIsOwn ==
  \A o \in live : bound_port_[o] # 0 => fd_[o] # Invalid /\ local[fd_[o]] = bound_port_[o]
=============================================================================
