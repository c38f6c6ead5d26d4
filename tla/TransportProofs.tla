--------------------------- MODULE TransportProofs ---------------------------
(* UdpSocket owns its descriptors, for any number of objects, descriptors  *)
(* and ports; the depth of the jitter buffer shrinks only in a calm        *)
(* network, for any window, thresholds and periods; and TryParsePacket     *)
(* accepts what SerializePacket writes and nothing else, for any values of *)
(* a byte, any payload and any receive buffer.                             *)
EXTENDS MCTransport, Integers, SequenceTheorems, TLAPS

-----------------------------------------------------------------------------
(* The sockets.                                                            *)
\* Objects hold descriptors and ports; a port that is not known is 0.
SocketTypes ==
  /\ live \subseteq Objects /\ open \subseteq Fds
  /\ fd_ \in [Objects -> Fds \cup {Invalid}]
  /\ bound_port_ \in [Objects -> Nat]
  /\ local \in [Fds -> Nat]

\* The open descriptors are the live objects' own, one by one.
Owned == \A f \in Fds : f \in open <=> \E o \in live : fd_[o] = f
Unshared == \A o, p \in live : o # p /\ fd_[o] = fd_[p] => fd_[o] = Invalid

\* What is not constructed, or was moved from or destroyed, is empty.
Empty == \A o \in Objects \ live : fd_[o] = Invalid /\ bound_port_[o] = 0

SocketInv == SocketTypes /\ Owned /\ Unshared /\ Empty /\ PortIsOwn

(* The strengthened invariant gives both properties of the runs.           *)
LEMMA SocketInvIsEnough == SocketInv => OneOwner /\ PortIsOwn
<1> SUFFICES ASSUME SocketInv PROVE OneOwner /\ PortIsOwn
  OBVIOUS
<1>1. open = {fd_[o] : o \in live} \ {Invalid}
  <2>1. ASSUME NEW f \in open PROVE f \in {fd_[o] : o \in live} \ {Invalid}
    BY <2>1, SocketAssumption DEF SocketInv, SocketTypes, Owned
  <2>2. ASSUME NEW f \in {fd_[o] : o \in live} \ {Invalid} PROVE f \in open
    <3>1. PICK o \in live : f = fd_[o]
      OBVIOUS
    <3>2. f \in Fds
      BY <3>1 DEF SocketInv, SocketTypes
    <3> QED
      BY <3>1, <3>2 DEF SocketInv, Owned
  <2> QED
    BY <2>1, <2>2
<1> QED
  BY <1>1 DEF SocketInv, OneOwner, Unshared, Empty

(* Nothing is constructed at first.                                        *)
LEMMA SocketInvInit == Init => SocketInv
BY SocketAssumption
DEF Init, SocketInv, SocketTypes, Owned, Unshared, Empty, PortIsOwn

(* A constructor makes an empty object.                                    *)
LEMMA ConstructKeeps ==
  ASSUME SocketInv, NEW o \in Objects, Construct(o) PROVE SocketInv'
<1> USE DEF SocketInv, Construct, system
<1>1. SocketTypes'
  BY DEF SocketTypes
<1>2. fd_[o] = Invalid /\ bound_port_[o] = 0
  BY DEF Empty
<1>3. Owned'
  BY <1>2, SocketAssumption DEF Owned
<1>4. Unshared'
  BY <1>2 DEF Unshared
<1>5. Empty' /\ PortIsOwn'
  BY <1>2 DEF Empty, PortIsOwn
<1> QED
  BY <1>1, <1>3, <1>4, <1>5

(* A destructor closes the object's descriptor and no other.               *)
LEMMA DestroyKeeps ==
  ASSUME SocketInv, NEW o \in Objects, Destroy(o) PROVE SocketInv'
<1> USE DEF SocketInv, Destroy, Close
<1>1. SocketTypes'
  BY DEF SocketTypes
<1>2. \A p \in Objects : p # o => fd_'[p] = fd_[p] /\ bound_port_'[p] = bound_port_[p]
  BY DEF SocketTypes
<1>3. fd_'[o] = Invalid /\ bound_port_'[o] = 0
  BY DEF SocketTypes
<1>4. Owned'
  <2> SUFFICES ASSUME NEW f \in Fds
               PROVE f \in open' <=> \E p \in live' : fd_'[p] = f
    BY DEF Owned
  <2>1. CASE f = fd_[o]
    <3>1. ~\E p \in live' : fd_'[p] = f
      BY <2>1, <1>2, SocketAssumption DEF Unshared, SocketTypes
    <3> QED
      BY <2>1, <3>1
  <2>2. CASE f # fd_[o]
    BY <2>2, <1>2, <1>3, SocketAssumption DEF Owned, SocketTypes
  <2> QED
    BY <2>1, <2>2
<1>5. Unshared'
  BY <1>2 DEF Unshared, SocketTypes
<1>6. Empty'
  BY <1>2, <1>3 DEF Empty, SocketTypes
<1>7. PortIsOwn'
  BY <1>2, SocketAssumption DEF PortIsOwn, Unshared, SocketTypes
<1> QED
  BY <1>1, <1>4, <1>5, <1>6, <1>7

(* What both moves do: the descriptor and its port change hands, and what  *)
(* o had has been closed.                                                  *)
LEMMA TakesKeeps ==
  ASSUME SocketInv, NEW o \in Objects, NEW other \in live, o # other,
         open' = open \ {fd_[o]},
         local' = [f \in Fds |-> IF f = fd_[o] THEN 0 ELSE local[f]],
         Takes(o, other), live' = live \cup {o}
  PROVE  SocketInv'
<1> USE DEF SocketInv, Takes
<1>1. SocketTypes'
  BY DEF SocketTypes
<1>2. \A p \in Objects : p \notin {o, other} =>
        fd_'[p] = fd_[p] /\ bound_port_'[p] = bound_port_[p]
  BY DEF SocketTypes
<1>3. /\ fd_'[o] = fd_[other] /\ bound_port_'[o] = bound_port_[other]
      /\ fd_'[other] = Invalid /\ bound_port_'[other] = 0
  BY DEF SocketTypes
<1>4. \A p \in live \ {o} : fd_[p] = fd_[o] => fd_[p] = Invalid
  BY DEF Unshared, Empty, SocketTypes
<1>5. Owned'
  <2> SUFFICES ASSUME NEW f \in Fds
               PROVE f \in open' <=> \E p \in live' : fd_'[p] = f
    BY DEF Owned
  <2>1. f # Invalid
    BY SocketAssumption
  <2>2. CASE f = fd_[o]
    <3>1. ~\E p \in live' : fd_'[p] = f
      BY <2>1, <2>2, <1>2, <1>3, <1>4 DEF SocketTypes
    <3> QED
      BY <2>2, <3>1
  <2>3. CASE f # fd_[o]
    <3>1. f \in open' <=> \E p \in live : fd_[p] = f
      BY <2>3 DEF Owned
    <3>2. ASSUME NEW p \in live, fd_[p] = f PROVE \E q \in live' : fd_'[q] = f
      BY <3>2, <2>3, <1>2, <1>3 DEF SocketTypes
    <3>3. ASSUME NEW q \in live', fd_'[q] = f PROVE \E p \in live : fd_[p] = f
      BY <3>3, <2>1, <1>2, <1>3 DEF SocketTypes
    <3> QED
      BY <3>1, <3>2, <3>3
  <2> QED
    BY <2>2, <2>3
<1>6. Unshared'
  BY <1>2, <1>3, <1>4 DEF Unshared, SocketTypes
<1>7. Empty'
  BY <1>2, <1>3 DEF Empty, SocketTypes
<1>8. PortIsOwn'
  <2> SUFFICES ASSUME NEW p \in live', bound_port_'[p] # 0
               PROVE fd_'[p] # Invalid /\ local'[fd_'[p]] = bound_port_'[p]
    BY DEF PortIsOwn
  <2>1. PICK q \in live \ {o} : fd_'[p] = fd_[q] /\ bound_port_'[p] = bound_port_[q]
    BY <1>2, <1>3 DEF SocketTypes
  <2>2. fd_[q] # Invalid /\ local[fd_[q]] = bound_port_[q] /\ fd_[q] # fd_[o]
    BY <2>1, <1>4 DEF PortIsOwn
  <2> QED
    BY <2>1, <2>2 DEF SocketTypes
<1> QED
  BY <1>1, <1>5, <1>6, <1>7, <1>8

(* A move constructor has nothing to close.                                *)
LEMMA MoveConstructKeeps ==
  ASSUME SocketInv, NEW o \in Objects, NEW other \in Objects, MoveConstruct(o, other)
  PROVE  SocketInv'
<1>1. fd_[o] = Invalid
  BY DEF SocketInv, Empty, MoveConstruct
<1>2. live' = live \cup {o} /\ other \in live /\ o # other /\ Takes(o, other)
  BY DEF MoveConstruct
<1>3. open' = open \ {fd_[o]}
  BY <1>1, SocketAssumption DEF MoveConstruct, system, SocketInv, SocketTypes
<1>4. local' = [f \in Fds |-> IF f = fd_[o] THEN 0 ELSE local[f]]
  BY <1>1, SocketAssumption DEF MoveConstruct, system, SocketInv, SocketTypes
<1> QED
  BY <1>2, <1>3, <1>4, TakesKeeps

(* A move assignment closes first.                                         *)
LEMMA MoveAssignKeeps ==
  ASSUME SocketInv, NEW o \in Objects, NEW other \in Objects, MoveAssign(o, other)
  PROVE  SocketInv'
<1>1. other \in live /\ o # other /\ Takes(o, other) /\ live' = live \cup {o}
  BY DEF MoveAssign
<1>2. /\ open' = open \ {fd_[o]}
      /\ local' = [f \in Fds |-> IF f = fd_[o] THEN 0 ELSE local[f]]
  BY DEF MoveAssign, Close
<1> QED
  BY <1>1, <1>2, TakesKeeps

(* Every use of a socket: the descriptor becomes the object's own if it    *)
(* had none, it gets a local port if it had none, and bound_port_ changes  *)
(* only to that port.                                                      *)
LEMMA UseKeeps ==
  ASSUME SocketInv, NEW o \in Objects, NEW f \in Fds, EnsureOpen(o, f),
         local' \in [Fds -> Nat],
         \A g \in Fds : g # f \/ local[g] # 0 => local'[g] = local[g],
         \/ bound_port_' = bound_port_
         \/ /\ local[f] = 0 /\ local'[f] # 0
            /\ bound_port_' = [bound_port_ EXCEPT ![o] = local'[f]]
  PROVE  SocketInv'
<1> USE DEF SocketInv, EnsureOpen
<1>1. f # Invalid /\ o \in live /\ live' = live
  BY SocketAssumption
<1>2. fd_'[o] = f /\ \A p \in Objects : p # o => fd_'[p] = fd_[p]
  BY DEF SocketTypes
<1>3. \A p \in Objects : p # o => bound_port_'[p] = bound_port_[p]
  BY DEF SocketTypes
<1>4. \A p \in live : p # o => fd_[p] # f
  BY <1>1 DEF Owned, Unshared
<1>5. SocketTypes'
  BY DEF SocketTypes
<1>6. Owned'
  <2>1. CASE fd_[o] = f
    <3>1. open' = open /\ fd_' = fd_
      BY <2>1, <1>1
    <3> QED
      BY <3>1, <1>1 DEF Owned
  <2>2. CASE fd_[o] # f
    <3>1. fd_[o] = Invalid /\ open' = open \cup {f}
      BY <2>2
    <3> QED
      BY <3>1, <1>1, <1>2, SocketAssumption DEF Owned, SocketTypes
  <2> QED
    BY <2>1, <2>2
<1>7. Unshared'
  BY <1>1, <1>2, <1>4 DEF Unshared, SocketTypes
<1>8. Empty'
  BY <1>1, <1>2, <1>3 DEF Empty, SocketTypes
<1>9. PortIsOwn'
  <2> SUFFICES ASSUME NEW p \in live, bound_port_'[p] # 0
               PROVE fd_'[p] # Invalid /\ local'[fd_'[p]] = bound_port_'[p]
    BY <1>1 DEF PortIsOwn
  <2>1. CASE p # o
    <3>1. fd_[p] # Invalid /\ local[fd_[p]] = bound_port_[p] /\ fd_[p] \in Fds
      BY <2>1, <1>3 DEF PortIsOwn, SocketTypes
    <3> QED
      BY <2>1, <3>1, <1>2, <1>3, <1>4 DEF SocketTypes
  <2>2. CASE p = o /\ bound_port_' = bound_port_
    <3>1. fd_[o] = f /\ local[f] = bound_port_[o] /\ local[f] # 0
      BY <2>2 DEF PortIsOwn
    <3> QED
      BY <2>2, <3>1, <1>1, <1>2
  <2>3. CASE p = o /\ bound_port_' = [bound_port_ EXCEPT ![o] = local'[f]]
    BY <2>3, <1>1, <1>2 DEF SocketTypes
  <2> QED
    BY <2>1, <2>2, <2>3
<1> QED
  BY <1>5, <1>6, <1>7, <1>8, <1>9

(* The operations that use a socket are such uses.                         *)
LEMMA OperationKeeps ==
  ASSUME SocketInv, NEW o \in Objects, NEW f \in Fds,
         \/ Open(o, f) \/ Connect(o, f) \/ SendTo(o, f) \/ Send(o, f)
         \/ Receive(o, f) \/ \E port \in Ports \cup {0} : Bind(o, f, port)
  PROVE  SocketInv'
<1>1. local \in [Fds -> Nat] /\ bound_port_ \in [Objects -> Nat]
  BY DEF SocketInv, SocketTypes
<1>2. CASE Open(o, f) \/ Receive(o, f)
  BY <1>1, <1>2, UseKeeps DEF Open, Receive
<1>3. CASE Connect(o, f) \/ SendTo(o, f) \/ Send(o, f)
  <2>1. EnsureOpen(o, f) /\ AutoBind(f) /\ bound_port_' = bound_port_
    BY <1>3 DEF Connect, SendTo, Send
  <2>2. PICK p \in Ports : local' = [local EXCEPT ![f] = IF @ = 0 THEN p ELSE @]
    BY <2>1 DEF AutoBind
  <2>3. local' \in [Fds -> Nat]
    BY <1>1, <2>2, SocketAssumption
  <2>4. \A g \in Fds : g # f \/ local[g] # 0 => local'[g] = local[g]
    BY <1>1, <2>2
  <2> QED
    BY <2>1, <2>3, <2>4, UseKeeps
<1>4. ASSUME NEW port \in Ports \cup {0}, Bind(o, f, port) PROVE SocketInv'
  <2>1. EnsureOpen(o, f) /\ local[f] = 0
    BY <1>4 DEF Bind
  <2>2. PICK p \in Ports :
          /\ local' = [local EXCEPT ![f] = p]
          /\ bound_port_' \in {bound_port_, [bound_port_ EXCEPT ![o] = p]}
    BY <1>4 DEF Bind
  <2>3. local' \in [Fds -> Nat] /\ local'[f] = p /\ p # 0
    BY <1>1, <2>2, SocketAssumption
  <2>4. \A g \in Fds : g # f \/ local[g] # 0 => local'[g] = local[g]
    BY <1>1, <2>1, <2>2
  <2> QED
    BY <2>1, <2>2, <2>3, <2>4, UseKeeps
<1> QED
  BY <1>2, <1>3, <1>4

(* Every step keeps the strengthened invariant.                            *)
LEMMA SocketStepKeeps == SocketInv /\ [Next]_vars => SocketInv'
<1> SUFFICES ASSUME SocketInv, [Next]_vars PROVE SocketInv'
  OBVIOUS
<1>1. CASE UNCHANGED vars
  BY <1>1
  DEF vars, system, SocketInv, SocketTypes, Owned, Unshared, Empty, PortIsOwn
<1>2. CASE Next
  <2>1. PICK o \in Objects :
          \/ Construct(o) \/ Destroy(o)
          \/ \E other \in Objects : MoveConstruct(o, other) \/ MoveAssign(o, other)
          \/ \E f \in Fds :
               \/ Open(o, f) \/ Connect(o, f) \/ SendTo(o, f) \/ Send(o, f)
               \/ Receive(o, f) \/ \E port \in Ports \cup {0} : Bind(o, f, port)
    BY <1>2 DEF Next
  <2>2. CASE Construct(o)
    BY <2>2, ConstructKeeps
  <2>3. CASE Destroy(o)
    BY <2>3, DestroyKeeps
  <2>4. CASE \E other \in Objects : MoveConstruct(o, other) \/ MoveAssign(o, other)
    BY <2>4, MoveConstructKeeps, MoveAssignKeeps
  <2>5. ASSUME NEW f \in Fds,
               \/ Open(o, f) \/ Connect(o, f) \/ SendTo(o, f) \/ Send(o, f)
               \/ Receive(o, f) \/ \E port \in Ports \cup {0} : Bind(o, f, port)
        PROVE  SocketInv'
    BY <2>5, OperationKeeps
  <2> QED
    BY <2>1, <2>2, <2>3, <2>4, <2>5
<1> QED
  BY <1>1, <1>2

(* The parts of the run that are not about sockets leave them alone.       *)
LEMMA SocketsStayOwned == PartsSpec => []SocketInv
<1>1. PartsInit => SocketInv
  BY SocketInvInit DEF PartsInit
<1>2. SocketInv /\ [PartsNext]_parts => SocketInv'
  <2>1. [PartsNext]_parts => [Next]_vars
    BY DEF PartsNext, parts
  <2> QED
    BY <2>1, SocketStepKeeps
<1> QED
  BY <1>1, <1>2, PTL DEF PartsSpec

(* However many sockets are constructed, moved, used and destroyed in any  *)
(* order, the open descriptors are the live objects' own and no two        *)
(* objects share one: none is leaked, closed twice or closed under its     *)
(* owner (Close, both moves and the destructor).                           *)
THEOREM SocketOwnership == PartsSpec => []OneOwner
<1> QED
  BY SocketsStayOwned, SocketInvIsEnough, PTL

(* bound_port() names a port of the object's own descriptor or none, after *)
(* a Bind that failed halfway and after a move as well.                    *)
THEOREM SocketPorts == PartsSpec => []PortIsOwn
<1> QED
  BY SocketsStayOwned, SocketInvIsEnough, PTL

-----------------------------------------------------------------------------
(* The depth.  What the variance is does not matter: only that the same    *)
(* value decides what happens to the two timers.                           *)
Age == Nat \cup {Target!Never}

DepthTypes == lowFor \in Age /\ raised \in Age /\ calm \in Nat

\* The timer of low variance is younger than the last increase, which has
\* stopped it, as far back as the rate limit of the increases looks.
StartsAfterRaise ==
  lowFor # Target!Never /\ raised # Target!Never /\ raised <= Second => lowFor <= raised

\* A drain that sees high variance and lets the timer run is inside the
\* rate limit, so it cannot make the timer wrong by more than that.
TimerNearlyCalm == lowFor # Target!Never => lowFor <= calm + Second

DepthInv == DepthTypes /\ StartsAfterRaise /\ TimerNearlyCalm

(* The lesser and the greater of two numbers, as the timers use them.      *)
LEMMA MinOfTwo ==
  ASSUME NEW a \in Int, NEW b \in Int
  PROVE  Target!Min({a, b}) = IF a <= b THEN a ELSE b
<1>1. CASE a <= b
  <2>1. \A x \in {a, b} : (\A y \in {a, b} : x <= y) => x = a
    BY <1>1
  <2> QED
    BY <1>1, <2>1 DEF Target!Min
<1>2. CASE ~(a <= b)
  <2>1. \A x \in {a, b} : (\A y \in {a, b} : x <= y) => x = b
    BY <1>2
  <2> QED
    BY <1>2, <2>1 DEF Target!Min
<1> QED
  BY <1>1, <1>2

LEMMA MaxWithZero ==
  ASSUME NEW a \in Age
  PROVE  Target!Max({a, 0}) = IF a = Target!Never THEN 0 ELSE a
<1>1. CASE a = Target!Never
  <2>1. \A x \in {a, 0} : (\A y \in {a, 0} : x >= y) => x = 0
    BY <1>1 DEF Target!Never
  <2> QED
    BY <1>1, <2>1 DEF Target!Max, Target!Never
<1>2. CASE a # Target!Never
  <2>1. \A x \in {a, 0} : (\A y \in {a, 0} : x >= y) => x = a
    BY <1>2 DEF Age
  <2> QED
    BY <1>2, <2>1 DEF Target!Max, Age
<1> QED
  BY <1>1, <1>2

(* An age grows by what has passed, up to its cap.                         *)
LEMMA Grows ==
  ASSUME NEW age \in Age, NEW d \in Nat, NEW cap \in Nat
  PROVE  /\ Target!Later(age, d, cap) \in Age
         /\ Target!Later(age, d, cap) = Target!Never <=> age = Target!Never
         /\ age # Target!Never =>
              Target!Later(age, d, cap) = IF age + d <= cap THEN age + d ELSE cap
  BY MinOfTwo DEF Target!Later, Age, Target!Never

(* One drain keeps the invariant, and what it makes of the depth is right. *)
LEMMA DrainKeeps ==
  ASSUME Target!TargetAssumption, DepthInv, NEW w, NEW d \in Nat,
         Target!AdaptTarget(w, d), target \in Int
  PROVE  DepthInv' /\ (target' < target => calm' >= LowTime - Second)
<1> DEFINE low == Target!Later(lowFor, d, LowTime)
           up == Target!Later(raised, d, Second + 1)
           v == Target!Variance(w)
<1>1. Second \in Nat /\ LowTime \in Nat /\ Second <= LowTime
  BY DEF Target!TargetAssumption
<1>2. /\ low \in Age /\ (low = Target!Never <=> lowFor = Target!Never)
      /\ lowFor # Target!Never
           => low = IF lowFor + d <= LowTime THEN lowFor + d ELSE LowTime
  BY <1>1, Grows DEF DepthInv, DepthTypes
<1>3. /\ up \in Age /\ (up = Target!Never <=> raised = Target!Never)
      /\ raised # Target!Never
           => up = IF raised + d <= Second + 1 THEN raised + d ELSE Second + 1
  BY <1>1, Grows DEF DepthInv, DepthTypes
<1>4. Target!Later(calm, d, LowTime) = IF calm + d <= LowTime THEN calm + d ELSE LowTime
  <2>1. calm \in Age /\ calm # Target!Never
    BY DEF DepthInv, DepthTypes, Age, Target!Never
  <2> QED
    BY <1>1, <2>1, Grows
<1>5. low # Target!Never /\ up # Target!Never /\ up <= Second => low <= up
  BY <1>1, <1>2, <1>3 DEF DepthInv, DepthTypes, StartsAfterRaise, Age, Target!Never
<1>6. low # Target!Never => low <= Target!Later(calm, d, LowTime) + Second
  BY <1>1, <1>2, <1>4 DEF DepthInv, DepthTypes, TimerNearlyCalm, Age, Target!Never
<1> HIDE DEF low, up, v
<1>7. CASE ~(steady /\ Len(w) >= 2)
  <2>1. /\ lowFor' = low /\ raised' = up /\ target' = target
        /\ calm' = Target!Later(calm, d, LowTime)
    BY <1>7 DEF Target!AdaptTarget, low, up
  <2>2. DepthTypes'
    BY <2>1, <1>1, <1>2, <1>3, <1>4 DEF DepthInv, DepthTypes
  <2>3. StartsAfterRaise'
    BY <2>1, <1>5 DEF StartsAfterRaise
  <2>4. TimerNearlyCalm'
    BY <2>1, <1>6 DEF TimerNearlyCalm
  <2>5. ~(target' < target)
    BY <2>1
  <2> QED
    BY <2>2, <2>3, <2>4, <2>5 DEF DepthInv
<1>8. CASE steady /\ Len(w) >= 2
  <2>1. /\ Target!Raise(v, low, up) \/ Target!Track(v, low, up) \/ Target!Hold(v, up)
        /\ calm' = IF v < Low THEN Target!Later(calm, d, LowTime) ELSE 0
    BY <1>8 DEF Target!AdaptTarget, low, up, v
  <2>2. calm' \in Nat
    BY <2>1, <1>1, <1>4 DEF DepthInv, DepthTypes
  <2>3. CASE Target!Raise(v, low, up)
    <3>1. CASE /\ Target!MayRaise(up) /\ target' = target + 1 /\ raised' = 0
               /\ lowFor' = Target!Never
      BY <3>1, <2>2, <1>1
      DEF DepthInv, DepthTypes, StartsAfterRaise, TimerNearlyCalm, Age, Target!Never
    <3>2. CASE ~Target!MayRaise(up) /\ target' = target /\ raised' = up /\ lowFor' = low
      <4>1. up # Target!Never /\ up <= Second
        BY <3>2, <1>1, <1>3 DEF Target!MayRaise, Age, Target!Never
      <4>2. low # Target!Never => low <= Second
        BY <4>1, <1>1, <1>2, <1>3, <1>5 DEF Age, Target!Never
      <4>3. DepthTypes'
        BY <3>2, <2>2, <1>2, <1>3 DEF DepthTypes
      <4>4. StartsAfterRaise'
        BY <3>2, <1>5 DEF StartsAfterRaise
      <4>5. TimerNearlyCalm'
        <5>1. PICK c \in Nat : calm' = c
          BY <2>2
        <5>2. low # Target!Never => low <= c + Second
          BY <4>2, <1>1, <1>2 DEF Age, Target!Never
        <5> QED
          BY <3>2, <5>1, <5>2 DEF TimerNearlyCalm
      <4>6. ~(target' < target)
        BY <3>2
      <4> QED
        BY <4>3, <4>4, <4>5, <4>6 DEF DepthInv
    <3> QED
      BY <2>3, <3>1, <3>2 DEF Target!Raise
  <2>4. CASE Target!Track(v, low, up)
    <3>1. calm' = Target!Later(calm, d, LowTime)
      BY <2>1, <2>4 DEF Target!Track
    <3>2. CASE low >= LowTime /\ target > MinSteady
      <4>1. target' = target - 1 /\ lowFor' = Target!Never /\ raised' = up
        BY <2>4, <3>2 DEF Target!Track
      <4>2. low # Target!Never
        BY <3>2, <1>1 DEF Target!Never
      <4> QED
        BY <4>1, <4>2, <3>1, <3>2, <2>2, <1>1, <1>2, <1>3, <1>6
        DEF DepthInv, DepthTypes, StartsAfterRaise, TimerNearlyCalm, Age,
            Target!Never
    <3>3. CASE ~(low >= LowTime /\ target > MinSteady)
      <4>1. target' = target /\ raised' = up
        BY <2>4, <3>3 DEF Target!Track
      <4>2. lowFor' = IF low = Target!Never THEN 0 ELSE low
        BY <2>4, <3>3, <1>2, MaxWithZero DEF Target!Track
      <4> QED
        BY <4>1, <4>2, <3>1, <2>2, <1>1, <1>2, <1>3, <1>5, <1>6
        DEF DepthInv, DepthTypes, StartsAfterRaise, TimerNearlyCalm, Age,
            Target!Never
    <3> QED
      BY <3>2, <3>3
  <2>5. CASE Target!Hold(v, up)
    BY <2>5, <2>2, <1>3
    DEF Target!Hold, DepthInv, DepthTypes, StartsAfterRaise, TimerNearlyCalm, Age,
        Target!Never
  <2> QED
    BY <2>1, <2>3, <2>4, <2>5
<1> QED
  BY <1>7, <1>8

(* The counters start anew with a stream.                                  *)
LEMMA ResetKeeps ==
  ASSUME lowFor' = Target!Never, raised' = Target!Never, calm' = 0
  PROVE  DepthInv'
  BY DEF DepthInv, DepthTypes, StartsAfterRaise, TimerNearlyCalm, Age, Target!Never

LEMMA DepthStepKeeps ==
  ASSUME Target!TargetAssumption, DepthInv, [Target!Next]_Target!vars, target \in Int
  PROVE  /\ DepthInv' /\ target' \in Int
         /\ target' < target /\ steady' => calm' >= LowTime - Second
<1>1. CASE UNCHANGED Target!vars
  BY <1>1 DEF Target!vars, DepthInv, DepthTypes, StartsAfterRaise, TimerNearlyCalm
<1>2. ASSUME NEW d \in 0..Poll, Target!Arrival(d) \/ Target!Nothing(d)
      PROVE  /\ DepthInv' /\ target' \in Int
             /\ target' < target /\ steady' => calm' >= LowTime - Second
  <2>1. PICK w : Target!AdaptTarget(w, d)
    BY <1>2 DEF Target!Arrival, Target!Nothing
  <2>2. target' \in Int
    BY <2>1 DEF Target!AdaptTarget, Target!Raise, Target!Track, Target!Hold
  <2> QED
    BY <2>1, <2>2, DrainKeeps
<1>3. CASE Target!ResetForStream
  <2>1. DepthInv' /\ steady' = FALSE
    BY <1>3, ResetKeeps DEF Target!ResetForStream
  <2>2. target' = SteadyTarget /\ SteadyTarget \in Int
    BY <1>3 DEF Target!ResetForStream, Target!TargetAssumption
  <2> QED
    BY <2>1, <2>2
<1> QED
  BY <1>1, <1>2, <1>3 DEF Target!Next, Target!Run

(* The depth shrinks (DrainReady) only when the variance has been low for  *)
(* the last ten seconds but for one, whatever the arrivals were, in every  *)
(* configuration in which an increase is rate-limited to less than the     *)
(* time a decrease takes.                                                  *)
THEOREM ShrinksOnlyWhenCalm == PartsSpec => ShrinksWhenCalm
<1> DEFINE Inv == DepthInv /\ target \in Int
<1>1. PartsInit => Inv
  BY PartsAssumption
  DEF PartsInit, Target!Init, Target!InitStream, DepthInv, DepthTypes,
      StartsAfterRaise, TimerNearlyCalm, Age, Target!Never, Target!TargetAssumption
<1>2. Inv /\ [PartsNext]_parts =>
        Inv' /\ [target' < target /\ steady' => calm' >= LowTime - Second]_Target!vars
  <2>1. [PartsNext]_parts => [Target!Next]_Target!vars
    BY DEF PartsNext, parts, depth, Target!vars
  <2> QED
    BY <2>1, DepthStepKeeps, PartsAssumption
<1> QED
  BY <1>1, <1>2, PTL DEF PartsSpec, ShrinksWhenCalm, Target!ShrinksWhenCalm

\* What PlayerPipeline counts as three packets of the stream (its arrivals).
ThreeArrived == since # Target!Never /\ Len(intervals) >= 2

\* What PlayerPipeline lets a drain do to the depth (its AdaptTarget), or a
\* first packet of another stream (its ResetForStream).
DepthMove ==
  \/ target' = target
  \/ steady /\ ThreeArrived' /\ target < MaxSteady /\ target' = target + 1
  \/ steady /\ ThreeArrived' /\ target > MinSteady /\ target' = target - 1
  \/ ~steady' /\ intervals' = <<>> /\ target' = SteadyTarget

CountedInv == since \in Age /\ (since = Target!Never => intervals = <<>>) /\ target \in Int

LEMMA DepthMoves ==
  ASSUME Target!TargetAssumption, CountedInv, [Target!Next]_Target!vars
  PROVE  CountedInv' /\ DepthMove
<1>1. CASE UNCHANGED Target!vars
  BY <1>1 DEF Target!vars, CountedInv, DepthMove
<1>2. ASSUME NEW d \in 0..Poll, NEW w, Target!AdaptTarget(w, d), intervals' = w,
             since' \in Age, since' = Target!Never => w = <<>>
      PROVE  CountedInv' /\ DepthMove
  <2>1. CASE ~(steady /\ Len(w) >= 2)
    <3>1. target' = target
      BY <2>1, <1>2 DEF Target!AdaptTarget
    <3> QED
      BY <1>2, <3>1 DEF CountedInv, DepthMove
  <2>2. CASE steady /\ Len(w) >= 2
    <3>1. PICK v, low, up :
            Target!Raise(v, low, up) \/ Target!Track(v, low, up) \/ Target!Hold(v, up)
      BY <2>2, <1>2 DEF Target!AdaptTarget
    <3>2. \/ target' = target
          \/ target < MaxSteady /\ target' = target + 1
          \/ target > MinSteady /\ target' = target - 1
      BY <3>1 DEF Target!Raise, Target!Track, Target!Hold
    <3>3. w # <<>>
      BY <2>2
    <3>4. ThreeArrived'
      BY <1>2, <2>2, <3>3 DEF ThreeArrived
    <3>5. CountedInv'
      BY <1>2, <3>2 DEF CountedInv
    <3> QED
      BY <2>2, <3>2, <3>4, <3>5 DEF DepthMove
  <2> QED
    BY <2>1, <2>2
<1>3. ASSUME NEW d \in 0..Poll, Target!Arrival(d) PROVE CountedInv' /\ DepthMove
  <2>1. PICK w : intervals' = w /\ since' = 0 /\ Target!AdaptTarget(w, d)
    BY <1>3 DEF Target!Arrival
  <2>2. since' \in Age /\ since' # Target!Never
    BY <2>1 DEF Age, Target!Never
  <2> QED
    BY <1>2, <2>1, <2>2
<1>4. ASSUME NEW d \in 0..Poll, Target!Nothing(d) PROVE CountedInv' /\ DepthMove
  <2>1. /\ since' = Target!Later(since, d, MaxInterval) /\ intervals' = intervals
        /\ Target!AdaptTarget(intervals, d)
    BY <1>4 DEF Target!Nothing
  <2>2. since' \in Age /\ (since' = Target!Never <=> since = Target!Never)
    <3>1. MaxInterval \in Nat /\ d \in Nat /\ since \in Age
      BY DEF Target!TargetAssumption, CountedInv
    <3> QED
      BY <2>1, <3>1, Grows
  <2> QED
    BY <1>2, <2>1, <2>2 DEF CountedInv
<1>5. CASE Target!ResetForStream
  <2>1. SteadyTarget \in Int
    BY DEF Target!TargetAssumption
  <2> QED
    BY <1>5, <2>1 DEF Target!ResetForStream, CountedInv, DepthMove, Age, Target!Never
<1> QED
  BY <1>1, <1>3, <1>4, <1>5 DEF Target!Next, Target!Run

(* The statistics and timers of DrainReady move the depth only as          *)
(* PlayerPipeline, which leaves them out, allows: by one, in the steady    *)
(* state, after three packets of the stream, and within the band.  So what *)
(* is proved of the pipeline holds of the one with the statistics.         *)
THEOREM DepthMovesAsAllowed == PartsSpec => [][DepthMove]_Target!vars
<1>1. PartsInit => CountedInv
  BY PartsAssumption
  DEF PartsInit, Target!Init, Target!InitStream, CountedInv, Age, Target!Never,
      Target!TargetAssumption
<1>2. CountedInv /\ [PartsNext]_parts => CountedInv' /\ [DepthMove]_Target!vars
  <2>1. [PartsNext]_parts => [Target!Next]_Target!vars
    BY DEF PartsNext, parts, depth, Target!vars
  <2> QED
    BY <2>1, DepthMoves, PartsAssumption
<1> QED
  BY <1>1, <1>2, PTL DEF PartsSpec

-----------------------------------------------------------------------------
(* The datagram.  A field is two digits to the base of half its width: a   *)
(* number is read back as it was written (Reads), and bytes that are read  *)
(* as the same number are the same bytes (Same).  The first gives that     *)
(* what was sent is heard, the second that nothing else is.                *)
Byte == 0..Base - 1
U16 == Packet!U16
U32 == Packet!U32

LEMMA Splits ==
  ASSUME NEW m \in Nat \ {0}, NEW n \in Int
  PROVE  n \div m \in Int /\ n % m \in 0..m - 1 /\ n = m * (n \div m) + (n % m)
<1>1. n % m \in 0..m - 1
  OBVIOUS
<1>2. n = m * (n \div m) + (n % m)
  BY Z3
<1> QED
  BY <1>1, <1>2

(* A number of two digits is its digits.                                   *)
LEMMA TwoDigits ==
  ASSUME NEW m \in Nat \ {0}, NEW q \in Int, NEW r \in 0..m - 1
  PROVE  (q * m + r) \div m = q /\ (q * m + r) % m = r
<1> DEFINE n == q * m + r
<1>1. n \in Int
  OBVIOUS
<1>2. n = m * (n \div m) + (n % m) /\ n % m \in 0..m - 1 /\ n \div m \in Int
  BY <1>1, Splits
<1> HIDE DEF n
<1>3. PICK d \in Int, e \in 0..m - 1 : d = n \div m /\ e = n % m
  BY <1>2
<1>4. m * (d - q) = r - e
  BY <1>2, <1>3 DEF n
<1>5. d - q < 1
  <2> SUFFICES ASSUME d - q >= 1 PROVE FALSE
    OBVIOUS
  <2>1. m * (d - q) >= m
    OBVIOUS
  <2> QED
    BY <2>1, <1>4
<1>6. d - q > -1
  <2> SUFFICES ASSUME d - q <= -1 PROVE FALSE
    OBVIOUS
  <2>1. m * (d - q) <= -m
    OBVIOUS
  <2> QED
    BY <2>1, <1>4
<1>7. d = q
  BY <1>5, <1>6
<1> QED
  BY <1>3, <1>4, <1>7 DEF n

LEMMA Digits ==
  ASSUME NEW m \in Nat \ {0}, NEW n \in Nat
  PROVE  /\ n \div m \in Nat /\ n % m \in 0..m - 1
         /\ (n \div m) * m + (n % m) = n
<1>1. n = m * (n \div m) + (n % m) /\ n % m \in 0..m - 1 /\ n \div m \in Int
  BY Splits
<1>2. PICK d \in Int, e \in 0..m - 1 : d = n \div m /\ e = n % m
  BY <1>1
<1>3. d >= 0
  <2> SUFFICES ASSUME d <= -1 PROVE FALSE
    BY <1>2
  <2>1. m * d <= -m
    BY <1>2
  <2> QED
    BY <2>1, <1>1, <1>2
<1> QED
  BY <1>1, <1>2, <1>3

(* The number of values of two and of four bytes.                          *)
LEMMA Widths ==
  /\ Base \in Nat /\ Base >= 2 /\ Base \in Nat \ {0}
  /\ U16 \in Nat /\ U16 \in Nat \ {0} /\ U32 \in Nat \ {0} /\ U16 = Base * Base /\ U16 > Base + 1
  /\ U32 \in Nat /\ U32 = U16 * U16 /\ U32 > U16 * Base
<1>1. Base \in Nat /\ Base >= 2
  BY PartsAssumption DEF Packet!PacketAssumption
<1>2. U16 = Base * Base /\ U16 \in Nat
  BY <1>1 DEF U16, Packet!U16
<1>3. Base * Base >= 2 * Base
  BY <1>1
<1>4. U32 = U16 * U16 /\ U32 \in Nat
  BY <1>2 DEF U32, Packet!U32, U16
<1>5. U16 * U16 > U16 * Base
  <2>1. U16 >= Base + 1
    BY <1>1, <1>2, <1>3
  <2>2. U16 * U16 >= U16 * (Base + 1)
    BY <2>1, <1>2, <1>1
  <2>3. U16 * (Base + 1) = U16 * Base + U16 /\ U16 > 0
    BY <1>1, <1>2, <1>3
  <2> QED
    BY <2>2, <2>3, <1>1, <1>2
<1> QED
  BY <1>1, <1>2, <1>3, <1>4, <1>5

\* The bytes t stand in the bytes b from offset on.
At(b, offset, t) == \A i \in 1..Len(t) : b[offset + i] = t[i]

LEMMA Written16 ==
  ASSUME NEW v \in Nat
  PROVE  /\ Packet!WriteU16(v) \in Seq(Byte) /\ Len(Packet!WriteU16(v)) = 2
         /\ Packet!WriteU16(v)[1] = (v \div Base) % Base
         /\ Packet!WriteU16(v)[2] = v % Base
<1>1. \A n \in Nat : n \div Base \in Nat /\ n % Base \in Byte
  <2>1. Base \in Nat \ {0}
    BY Widths
  <2> QED
    BY <2>1, Digits DEF Byte
<1>2. (v \div Base) % Base \in Byte
  BY <1>1
<1> QED
  BY <1>1, <1>2 DEF Packet!WriteU16

\* Two digits of two digits.
LEMMA Nested ==
  ASSUME NEW m \in Nat \ {0}, NEW v \in Nat
  PROVE  ((v \div m) % m) * m + (v % m) = v % (m * m)
<1>1. /\ v \div m \in Nat /\ v % m \in 0..m - 1 /\ (v \div m) * m + (v % m) = v
  BY Digits
<1>2. PICK d \in Nat, e \in 0..m - 1 : d = v \div m /\ e = v % m
  BY <1>1
<1>3. d \div m \in Nat /\ d % m \in 0..m - 1 /\ (d \div m) * m + (d % m) = d
  BY <1>2, Digits
<1>4. PICK q \in Nat, r \in 0..m - 1 : q = d \div m /\ r = d % m
  BY <1>3
<1>5. v = q * (m * m) + (r * m + e)
  <2>1. v = d * m + e /\ d = q * m + r
    BY <1>1, <1>2, <1>3, <1>4
  <2>2. (q * m + r) * m = q * (m * m) + r * m
    OBVIOUS
  <2> QED
    BY <2>1, <2>2
<1>6. r * m + e \in 0..m * m - 1 /\ m * m \in Nat \ {0}
  <2>1. r * m <= (m - 1) * m /\ (m - 1) * m = m * m - m /\ r * m >= 0
    OBVIOUS
  <2>2. m * m \in Nat /\ m * m > 0
    OBVIOUS
  <2> QED
    BY <2>1, <2>2
<1> DEFINE M == m * m
           R == r * m + e
<1>7. v = q * M + R /\ R \in 0..M - 1 /\ M \in Nat \ {0}
  BY <1>5, <1>6
<1> HIDE DEF M, R
<1>8. v % M = R
  BY <1>7, TwoDigits
<1> QED
  BY <1>8, <1>2, <1>4 DEF M, R

\* What stands where a number was written is read as that number.
LEMMA Reads16 ==
  ASSUME NEW v \in Nat, NEW b, NEW o \in Nat, At(b, o, Packet!WriteU16(v))
  PROVE  Packet!ReadU16(b, o) = v % U16
<1>1. b[o + 1] = (v \div Base) % Base /\ b[o + 2] = v % Base
  BY Written16 DEF At
<1>2. ((v \div Base) % Base) * Base + (v % Base) = v % U16
  BY Widths, Nested
<1> QED
  BY <1>1, <1>2 DEF Packet!ReadU16

LEMMA Joined ==
  ASSUME NEW s \in Seq(Byte), NEW t \in Seq(Byte)
  PROVE  /\ s \o t \in Seq(Byte) /\ Len(s \o t) = Len(s) + Len(t)
         /\ Len(s) \in Nat /\ Len(t) \in Nat
         /\ At(s \o t, 0, s) /\ At(s \o t, Len(s), t)
<1>1. /\ s \o t \in Seq(Byte) /\ Len(s \o t) = Len(s) + Len(t)
      /\ \A i \in 1..Len(s) + Len(t) :
           (s \o t)[i] = IF i <= Len(s) THEN s[i] ELSE t[i - Len(s)]
  BY ConcatProperties
<1>2. Len(s) \in Nat /\ Len(t) \in Nat
  OBVIOUS
<1>3. At(s \o t, 0, s)
  BY <1>1, <1>2 DEF At
<1>4. At(s \o t, Len(s), t)
  <2> SUFFICES ASSUME NEW i \in 1..Len(t) PROVE (s \o t)[Len(s) + i] = t[i]
    BY DEF At
  <2>1. Len(s) + i \in 1..Len(s) + Len(t) /\ ~(Len(s) + i <= Len(s)) /\ Len(s) + i - Len(s) = i
    BY <1>2
  <2> QED
    BY <2>1, <1>1
<1> QED
  BY <1>1, <1>2, <1>3, <1>4

\* What stands in a part of the bytes stands in them.
LEMMA AtPart ==
  ASSUME NEW b, NEW o \in Nat, NEW t \in Seq(Byte), NEW k \in Nat, NEW u \in Seq(Byte),
         At(b, o, t), At(t, k, u), k + Len(u) <= Len(t)
  PROVE  At(b, o + k, u)
<1> SUFFICES ASSUME NEW i \in 1..Len(u) PROVE b[o + k + i] = u[i]
  BY DEF At
<1>1. Len(u) \in Nat /\ Len(t) \in Nat /\ k + i \in 1..Len(t)
  OBVIOUS
<1>2. b[o + (k + i)] = t[k + i] /\ t[k + i] = u[i]
  BY <1>1 DEF At
<1> QED
  BY <1>1, <1>2

\* Two parts next to each other.
LEMMA AtBoth ==
  ASSUME NEW b, NEW o \in Nat, NEW s \in Seq(Byte), NEW t \in Seq(Byte), At(b, o, s \o t)
  PROVE  At(b, o, s) /\ At(b, o + Len(s), t)
<1>1. /\ s \o t \in Seq(Byte) /\ Len(s \o t) = Len(s) + Len(t)
      /\ Len(s) \in Nat /\ Len(t) \in Nat
      /\ At(s \o t, 0, s) /\ At(s \o t, Len(s), t)
  BY Joined
<1>2. 0 \in Nat /\ 0 + Len(s) <= Len(s \o t) /\ Len(s) + Len(t) <= Len(s \o t)
  BY <1>1
<1>3. At(b, o + 0, s)
  BY <1>1, <1>2, AtPart
<1>4. At(b, o + Len(s), t)
  BY <1>1, <1>2, AtPart
<1> QED
  BY <1>3, <1>4

LEMMA Written32 ==
  ASSUME NEW v \in Nat
  PROVE  /\ v \div U16 \in Nat
         /\ Packet!WriteU32(v) = Packet!WriteU16(v \div U16) \o Packet!WriteU16(v)
         /\ Packet!WriteU32(v) \in Seq(Byte) /\ Len(Packet!WriteU32(v)) = 4
<1> DEFINE high == Packet!WriteU16(v \div U16)
           low == Packet!WriteU16(v)
<1>1. v \div U16 \in Nat
  BY Widths, Digits
<1>2. high \in Seq(Byte) /\ Len(high) = 2 /\ low \in Seq(Byte) /\ Len(low) = 2
  BY <1>1, Written16
<1>3. Packet!WriteU32(v) = high \o low
  BY DEF Packet!WriteU32, U16
<1> HIDE DEF high, low
<1>4. high \o low \in Seq(Byte) /\ Len(high \o low) = 4
  <2>1. high \in Seq(Byte) /\ low \in Seq(Byte)
    BY <1>2
  <2>2. high \o low \in Seq(Byte) /\ Len(high \o low) = Len(high) + Len(low)
    BY <2>1, ConcatProperties
  <2> QED
    BY <2>2, <1>2
<1> QED
  BY <1>1, <1>3, <1>4 DEF high, low

LEMMA Written64 ==
  ASSUME NEW v \in Nat
  PROVE  /\ v \div U32 \in Nat
         /\ Packet!WriteU64(v) = Packet!WriteU32(v \div U32) \o Packet!WriteU32(v)
         /\ Packet!WriteU64(v) \in Seq(Byte) /\ Len(Packet!WriteU64(v)) = 8
<1> DEFINE high == Packet!WriteU32(v \div U32)
           low == Packet!WriteU32(v)
<1>1. v \div U32 \in Nat
  BY Widths, Digits
<1>2. high \in Seq(Byte) /\ Len(high) = 4 /\ low \in Seq(Byte) /\ Len(low) = 4
  BY <1>1, Written32
<1>3. Packet!WriteU64(v) = high \o low
  BY DEF Packet!WriteU64, U32
<1> HIDE DEF high, low
<1>4. high \o low \in Seq(Byte) /\ Len(high \o low) = 8
  <2>1. high \in Seq(Byte) /\ low \in Seq(Byte)
    BY <1>2
  <2>2. high \o low \in Seq(Byte) /\ Len(high \o low) = Len(high) + Len(low)
    BY <2>1, ConcatProperties
  <2> QED
    BY <2>2, <1>2
<1> QED
  BY <1>1, <1>3, <1>4 DEF high, low

LEMMA Reads32 ==
  ASSUME NEW v \in Nat, NEW b, NEW o \in Nat, At(b, o, Packet!WriteU32(v))
  PROVE  Packet!ReadU32(b, o) = v % U32
<1> DEFINE high == Packet!WriteU16(v \div U16)
           low == Packet!WriteU16(v)
<1>1. /\ v \div U16 \in Nat /\ Packet!WriteU32(v) = high \o low
      /\ high \in Seq(Byte) /\ Len(high) = 2 /\ low \in Seq(Byte)
  BY Written16, Written32
<1>2. At(b, o, high) /\ At(b, o + 2, low)
  <2> HIDE DEF high, low
  <2> QED
    BY <1>1, AtBoth
<1>3. Packet!ReadU16(b, o) = (v \div U16) % U16 /\ Packet!ReadU16(b, o + 2) = v % U16
  BY <1>1, <1>2, Reads16
<1>4. ((v \div U16) % U16) * U16 + (v % U16) = v % U32
  BY Widths, Nested
<1> QED
  BY <1>3, <1>4 DEF Packet!ReadU32, U16

LEMMA Reads64 ==
  ASSUME NEW v \in Nat, NEW b, NEW o \in Nat, At(b, o, Packet!WriteU64(v))
  PROVE  Packet!ReadU64(b, o) = v % (U32 * U32)
<1> DEFINE high == Packet!WriteU32(v \div U32)
           low == Packet!WriteU32(v)
<1>1. /\ v \div U32 \in Nat /\ Packet!WriteU64(v) = high \o low
      /\ high \in Seq(Byte) /\ Len(high) = 4 /\ low \in Seq(Byte)
  BY Written32, Written64
<1>2. At(b, o, high) /\ At(b, o + 4, low)
  <2> HIDE DEF high, low
  <2> QED
    BY <1>1, AtBoth
<1>3. Packet!ReadU32(b, o) = (v \div U32) % U32 /\ Packet!ReadU32(b, o + 4) = v % U32
  BY <1>1, <1>2, Reads32
<1>4. ((v \div U32) % U32) * U32 + (v % U32) = v % (U32 * U32)
  BY Widths, Nested
<1> QED
  BY <1>3, <1>4 DEF Packet!ReadU64, U32

\* Two parts that are read as the same number are the same.
LEMMA SameDigits ==
  ASSUME NEW m \in Nat \ {0}, NEW p \in Nat, NEW q \in 0..m - 1, NEW r \in Nat, NEW s \in 0..m - 1,
         p * m + q = r * m + s
  PROVE  p = r /\ q = s
<1>1. (p * m + q) \div m = p /\ (p * m + q) % m = q
  BY TwoDigits
<1>2. (r * m + s) \div m = r /\ (r * m + s) % m = s
  BY TwoDigits
<1> QED
  BY <1>1, <1>2

LEMMA TwoDigitsFit ==
  ASSUME NEW m \in Nat \ {0}, NEW p \in 0..m - 1, NEW q \in 0..m - 1
  PROVE  p * m + q \in 0..m * m - 1
<1>1. p * m <= (m - 1) * m /\ (m - 1) * m = m * m - m /\ p * m >= 0 /\ p * m \in Int
  OBVIOUS
<1>2. m * m \in Nat
  OBVIOUS
<1> QED
  BY <1>1, <1>2

\* The n bytes from offset on are the same.
Same(b, c, offset, n) == \A i \in offset + 1..offset + n : b[i] = c[i]

LEMMA Same16 ==
  ASSUME NEW b \in Seq(Byte), NEW c \in Seq(Byte), NEW o \in Nat,
         o + 2 <= Len(b), o + 2 <= Len(c)
  PROVE  /\ Packet!ReadU16(b, o) \in 0..U16 - 1
         /\ Packet!ReadU16(b, o) = Packet!ReadU16(c, o)
              => Same(b, c, o, 2)
<1>1. /\ o + 1 \in 1..Len(b) /\ o + 2 \in 1..Len(b)
      /\ o + 1 \in 1..Len(c) /\ o + 2 \in 1..Len(c)
  OBVIOUS
<1>2. /\ b[o + 1] \in 0..Base - 1 /\ b[o + 2] \in 0..Base - 1
      /\ c[o + 1] \in 0..Base - 1 /\ c[o + 2] \in 0..Base - 1
  BY <1>1, ElementOfSeq DEF Byte
<1>3. Packet!ReadU16(b, o) \in 0..U16 - 1
  BY <1>2, Widths, TwoDigitsFit DEF Packet!ReadU16
<1>4. ASSUME Packet!ReadU16(b, o) = Packet!ReadU16(c, o)
      PROVE  b[o + 1] = c[o + 1] /\ b[o + 2] = c[o + 2]
  <2>1. PICK p \in 0..Base - 1, q \in 0..Base - 1, r \in 0..Base - 1, s \in 0..Base - 1 :
          p = b[o + 1] /\ q = b[o + 2] /\ r = c[o + 1] /\ s = c[o + 2]
    BY <1>2
  <2>2. p * Base + q = r * Base + s
    BY <2>1, <1>4 DEF Packet!ReadU16
  <2>3. Base \in Nat \ {0} /\ p \in Nat /\ r \in Nat
    BY Widths
  <2>4. p = r /\ q = s
    BY <2>2, <2>3, SameDigits
  <2> QED
    BY <2>1, <2>4
<1> QED
  BY <1>3, <1>4 DEF Same

LEMMA Same32 ==
  ASSUME NEW b \in Seq(Byte), NEW c \in Seq(Byte), NEW o \in Nat,
         o + 4 <= Len(b), o + 4 <= Len(c)
  PROVE  /\ Packet!ReadU32(b, o) \in 0..U32 - 1
         /\ Packet!ReadU32(b, o) = Packet!ReadU32(c, o)
              => Same(b, c, o, 4)
<1>1. /\ Packet!ReadU16(b, o) \in 0..U16 - 1 /\ Packet!ReadU16(b, o + 2) \in 0..U16 - 1
      /\ Packet!ReadU16(c, o) \in 0..U16 - 1 /\ Packet!ReadU16(c, o + 2) \in 0..U16 - 1
  BY Same16
<1>2. Packet!ReadU32(b, o) \in 0..U32 - 1
  BY <1>1, Widths, TwoDigitsFit DEF Packet!ReadU32, U16
<1>3. ASSUME Packet!ReadU32(b, o) = Packet!ReadU32(c, o)
      PROVE  Packet!ReadU16(b, o) = Packet!ReadU16(c, o) /\ Packet!ReadU16(b, o + 2) = Packet!ReadU16(c, o + 2)
  <2>1. PICK p \in 0..U16 - 1, q \in 0..U16 - 1, r \in 0..U16 - 1, s \in 0..U16 - 1 :
          p = Packet!ReadU16(b, o) /\ q = Packet!ReadU16(b, o + 2) /\ r = Packet!ReadU16(c, o) /\ s = Packet!ReadU16(c, o + 2)
    BY <1>1
  <2>2. p * U16 + q = r * U16 + s
    BY <2>1, <1>3 DEF Packet!ReadU32, U16
  <2>3. U16 \in Nat \ {0} /\ p \in Nat /\ r \in Nat
    BY Widths
  <2>4. p = r /\ q = s
    BY <2>2, <2>3, SameDigits
  <2> QED
    BY <2>1, <2>4
<1>4. ASSUME Packet!ReadU32(b, o) = Packet!ReadU32(c, o)
      PROVE  Same(b, c, o, 4)
  <2>1. Same(b, c, o, 2)
    BY <1>3, <1>4, Same16
  <2>2. Same(b, c, o + 2, 2)
    BY <1>3, <1>4, Same16
  <2> QED
    BY <2>1, <2>2 DEF Same
<1> QED
  BY <1>2, <1>4

LEMMA Same64 ==
  ASSUME NEW b \in Seq(Byte), NEW c \in Seq(Byte), NEW o \in Nat,
         o + 8 <= Len(b), o + 8 <= Len(c)
  PROVE  /\ Packet!ReadU64(b, o) \in 0..U32 * U32 - 1
         /\ Packet!ReadU64(b, o) = Packet!ReadU64(c, o)
              => Same(b, c, o, 8)
<1>1. /\ Packet!ReadU32(b, o) \in 0..U32 - 1 /\ Packet!ReadU32(b, o + 4) \in 0..U32 - 1
      /\ Packet!ReadU32(c, o) \in 0..U32 - 1 /\ Packet!ReadU32(c, o + 4) \in 0..U32 - 1
  BY Same32
<1>2. Packet!ReadU64(b, o) \in 0..U32 * U32 - 1
  BY <1>1, Widths, TwoDigitsFit DEF Packet!ReadU64, U32
<1>3. ASSUME Packet!ReadU64(b, o) = Packet!ReadU64(c, o)
      PROVE  Packet!ReadU32(b, o) = Packet!ReadU32(c, o) /\ Packet!ReadU32(b, o + 4) = Packet!ReadU32(c, o + 4)
  <2>1. PICK p \in 0..U32 - 1, q \in 0..U32 - 1, r \in 0..U32 - 1, s \in 0..U32 - 1 :
          p = Packet!ReadU32(b, o) /\ q = Packet!ReadU32(b, o + 4) /\ r = Packet!ReadU32(c, o) /\ s = Packet!ReadU32(c, o + 4)
    BY <1>1
  <2>2. p * U32 + q = r * U32 + s
    BY <2>1, <1>3 DEF Packet!ReadU64, U32
  <2>3. U32 \in Nat \ {0} /\ p \in Nat /\ r \in Nat
    BY Widths
  <2>4. p = r /\ q = s
    BY <2>2, <2>3, SameDigits
  <2> QED
    BY <2>1, <2>4
<1>4. ASSUME Packet!ReadU64(b, o) = Packet!ReadU64(c, o)
      PROVE  Same(b, c, o, 8)
  <2>1. Same(b, c, o, 4)
    BY <1>3, <1>4, Same32
  <2>2. Same(b, c, o + 4, 4)
    BY <1>3, <1>4, Same32
  <2> QED
    BY <2>1, <2>2 DEF Same
<1> QED
  BY <1>2, <1>4

LEMMA Appended ==
  ASSUME NEW s \in Seq(Byte), NEW t \in Seq(Byte)
  PROVE  s \o t \in Seq(Byte) /\ Len(s \o t) = Len(s) + Len(t)
  BY ConcatProperties

\* What SerializePacket is called with: numbers of the fields' widths.
HeaderTypes ==
  [magic : 0..U32 - 1, version : 0..U16 - 1, flags : 0..U16 - 1,
   stream_id : 0..U32 - 1, sequence : 0..U32 - 1, capture_ts_us : 0..U32 * U32 - 1,
   frame_samples : 0..U16 - 1, payload_size : 0..U16 - 1]

Serialized(h, p) == Packet!SerializePacket([header |-> h, payload |-> p])

\* Every field stands at its offset.
LEMMA SerializedIs ==
  ASSUME NEW h \in HeaderTypes, NEW p \in Seq(Byte)
  PROVE  /\ Serialized(h, p) \in Seq(Byte) /\ Len(Serialized(h, p)) = 28 + Len(p)
         /\ At(Serialized(h, p), 0, Packet!WriteU32(h.magic))
         /\ At(Serialized(h, p), 4, Packet!WriteU16(h.version))
         /\ At(Serialized(h, p), 6, Packet!WriteU16(h.flags))
         /\ At(Serialized(h, p), 8, Packet!WriteU32(h.stream_id))
         /\ At(Serialized(h, p), 12, Packet!WriteU32(h.sequence))
         /\ At(Serialized(h, p), 16, Packet!WriteU64(h.capture_ts_us))
         /\ At(Serialized(h, p), 24, Packet!WriteU16(h.frame_samples))
         /\ At(Serialized(h, p), 26, Packet!WriteU16(Len(p)))
         /\ At(Serialized(h, p), 28, p)
<1> DEFINE t1 == Packet!WriteU32(h.magic)
           t2 == Packet!WriteU16(h.version)
           t3 == Packet!WriteU16(h.flags)
           t4 == Packet!WriteU32(h.stream_id)
           t5 == Packet!WriteU32(h.sequence)
           t6 == Packet!WriteU64(h.capture_ts_us)
           t7 == Packet!WriteU16(h.frame_samples)
           t8 == Packet!WriteU16(Len(p))
           s2 == t1 \o t2
           s3 == s2 \o t3
           s4 == s3 \o t4
           s5 == s4 \o t5
           s6 == s5 \o t6
           s7 == s6 \o t7
           s8 == s7 \o t8
           c == s8 \o p
<1>1. /\ t1 \in Seq(Byte) /\ Len(t1) = 4
      /\ t2 \in Seq(Byte) /\ Len(t2) = 2
      /\ t3 \in Seq(Byte) /\ Len(t3) = 2
      /\ t4 \in Seq(Byte) /\ Len(t4) = 4
      /\ t5 \in Seq(Byte) /\ Len(t5) = 4
      /\ t6 \in Seq(Byte) /\ Len(t6) = 8
      /\ t7 \in Seq(Byte) /\ Len(t7) = 2
      /\ t8 \in Seq(Byte) /\ Len(t8) = 2
  <2>1. /\ h.magic \in Nat /\ h.version \in Nat /\ h.flags \in Nat /\ h.stream_id \in Nat
        /\ h.sequence \in Nat /\ h.capture_ts_us \in Nat /\ h.frame_samples \in Nat
        /\ Len(p) \in Nat
    BY Widths DEF HeaderTypes
  <2> QED
    BY <2>1, Written16, Written32, Written64
<1>2. Serialized(h, p) = c
  BY DEF Serialized, Packet!SerializePacket
<1> HIDE DEF t1, t2, t3, t4, t5, t6, t7, t8
<1>3. s2 \in Seq(Byte) /\ Len(s2) = 6
  <2>1. t1 \in Seq(Byte) /\ t2 \in Seq(Byte)
    BY <1>1
  <2>2. t1 \o t2 \in Seq(Byte) /\ Len(t1 \o t2) = Len(t1) + Len(t2)
    BY <2>1, Appended
  <2> QED
    BY <2>2, <1>1
<1>4. s3 \in Seq(Byte) /\ Len(s3) = 8
  <2> HIDE DEF s2
  <2>1. s2 \in Seq(Byte) /\ t3 \in Seq(Byte)
    BY <1>1, <1>3
  <2>2. s2 \o t3 \in Seq(Byte) /\ Len(s2 \o t3) = Len(s2) + Len(t3)
    BY <2>1, Appended
  <2> QED
    BY <2>2, <1>1, <1>3
<1>5. s4 \in Seq(Byte) /\ Len(s4) = 12
  <2> HIDE DEF s3
  <2>1. s3 \in Seq(Byte) /\ t4 \in Seq(Byte)
    BY <1>1, <1>4
  <2>2. s3 \o t4 \in Seq(Byte) /\ Len(s3 \o t4) = Len(s3) + Len(t4)
    BY <2>1, Appended
  <2> QED
    BY <2>2, <1>1, <1>4
<1>6. s5 \in Seq(Byte) /\ Len(s5) = 16
  <2> HIDE DEF s4
  <2>1. s4 \in Seq(Byte) /\ t5 \in Seq(Byte)
    BY <1>1, <1>5
  <2>2. s4 \o t5 \in Seq(Byte) /\ Len(s4 \o t5) = Len(s4) + Len(t5)
    BY <2>1, Appended
  <2> QED
    BY <2>2, <1>1, <1>5
<1>7. s6 \in Seq(Byte) /\ Len(s6) = 24
  <2> HIDE DEF s5
  <2>1. s5 \in Seq(Byte) /\ t6 \in Seq(Byte)
    BY <1>1, <1>6
  <2>2. s5 \o t6 \in Seq(Byte) /\ Len(s5 \o t6) = Len(s5) + Len(t6)
    BY <2>1, Appended
  <2> QED
    BY <2>2, <1>1, <1>6
<1>8. s7 \in Seq(Byte) /\ Len(s7) = 26
  <2> HIDE DEF s6
  <2>1. s6 \in Seq(Byte) /\ t7 \in Seq(Byte)
    BY <1>1, <1>7
  <2>2. s6 \o t7 \in Seq(Byte) /\ Len(s6 \o t7) = Len(s6) + Len(t7)
    BY <2>1, Appended
  <2> QED
    BY <2>2, <1>1, <1>7
<1>9. s8 \in Seq(Byte) /\ Len(s8) = 28
  <2> HIDE DEF s7
  <2>1. s7 \in Seq(Byte) /\ t8 \in Seq(Byte)
    BY <1>1, <1>8
  <2>2. s7 \o t8 \in Seq(Byte) /\ Len(s7 \o t8) = Len(s7) + Len(t8)
    BY <2>1, Appended
  <2> QED
    BY <2>2, <1>1, <1>8
<1>10. c \in Seq(Byte) /\ Len(c) = 28 + Len(p)
  <2> HIDE DEF s8
  <2> QED
    BY <1>9, Appended
<1>11. At(c, 0, s8) /\ At(c, 28, p)
  <2> HIDE DEF s8
  <2> QED
    BY <1>9, Joined
<1>12. At(c, 0, s7) /\ At(c, 26, t8)
  <2>1. At(c, 0, s7 \o t8)
    BY <1>11
  <2> HIDE DEF c, s7
  <2>2. At(c, 0, s7) /\ At(c, 0 + Len(s7), t8)
    BY <1>1, <1>8, <2>1, AtBoth
  <2> QED
    BY <1>1, <1>8, <2>2
<1>13. At(c, 0, s6) /\ At(c, 24, t7)
  <2>1. At(c, 0, s6 \o t7)
    BY <1>12
  <2> HIDE DEF c, s6
  <2>2. At(c, 0, s6) /\ At(c, 0 + Len(s6), t7)
    BY <1>1, <1>7, <2>1, AtBoth
  <2> QED
    BY <1>1, <1>7, <2>2
<1>14. At(c, 0, s5) /\ At(c, 16, t6)
  <2>1. At(c, 0, s5 \o t6)
    BY <1>13
  <2> HIDE DEF c, s5
  <2>2. At(c, 0, s5) /\ At(c, 0 + Len(s5), t6)
    BY <1>1, <1>6, <2>1, AtBoth
  <2> QED
    BY <1>1, <1>6, <2>2
<1>15. At(c, 0, s4) /\ At(c, 12, t5)
  <2>1. At(c, 0, s4 \o t5)
    BY <1>14
  <2> HIDE DEF c, s4
  <2>2. At(c, 0, s4) /\ At(c, 0 + Len(s4), t5)
    BY <1>1, <1>5, <2>1, AtBoth
  <2> QED
    BY <1>1, <1>5, <2>2
<1>16. At(c, 0, s3) /\ At(c, 8, t4)
  <2>1. At(c, 0, s3 \o t4)
    BY <1>15
  <2> HIDE DEF c, s3
  <2>2. At(c, 0, s3) /\ At(c, 0 + Len(s3), t4)
    BY <1>1, <1>4, <2>1, AtBoth
  <2> QED
    BY <1>1, <1>4, <2>2
<1>17. At(c, 0, s2) /\ At(c, 6, t3)
  <2>1. At(c, 0, s2 \o t3)
    BY <1>16
  <2> HIDE DEF c, s2
  <2>2. At(c, 0, s2) /\ At(c, 0 + Len(s2), t3)
    BY <1>1, <1>3, <2>1, AtBoth
  <2> QED
    BY <1>1, <1>3, <2>2
<1>18. At(c, 0, t1) /\ At(c, 4, t2)
  <2>1. At(c, 0, t1 \o t2)
    BY <1>17
  <2> HIDE DEF c
  <2>2. At(c, 0, t1) /\ At(c, 0 + Len(t1), t2)
    BY <1>1, <2>1, AtBoth
  <2> QED
    BY <1>1, <2>2
<1> HIDE DEF c
<1> QED
  BY <1>2, <1>10, <1>11, <1>12, <1>13, <1>14, <1>15, <1>16, <1>17, <1>18
  DEF t1, t2, t3, t4, t5, t6, t7, t8

LEMMA SmallRest ==
  ASSUME NEW m \in Nat \ {0}, NEW n \in 0..m - 1
  PROVE  n % m = n
  OBVIOUS

\* The header is read as it was written, with the size of the payload.
LEMMA HeaderIsRead ==
  ASSUME NEW h \in HeaderTypes, NEW p \in Seq(Byte), Len(p) < U16
  PROVE  Packet!ReadHeader(Serialized(h, p)) = [h EXCEPT !.payload_size = Len(p)]
<1> DEFINE b == Serialized(h, p)
<1>1. /\ h.magic \in 0..U32 - 1 /\ h.version \in 0..U16 - 1 /\ h.flags \in 0..U16 - 1
      /\ h.stream_id \in 0..U32 - 1 /\ h.sequence \in 0..U32 - 1
      /\ h.capture_ts_us \in 0..U32 * U32 - 1 /\ h.frame_samples \in 0..U16 - 1
      /\ Len(p) \in 0..U16 - 1
  BY Widths DEF HeaderTypes
<1>2. U16 \in Nat \ {0} /\ U32 \in Nat \ {0} /\ U32 * U32 \in Nat \ {0}
  <2>1. \A n \in Nat \ {0} : n * n \in Nat \ {0}
    OBVIOUS
  <2> QED
    BY <2>1, Widths
<1>3. /\ \A n \in 0..U16 - 1 : n \in Nat /\ n % U16 = n
      /\ \A n \in 0..U32 - 1 : n \in Nat /\ n % U32 = n
      /\ \A n \in 0..U32 * U32 - 1 : n \in Nat /\ n % (U32 * U32) = n
  <2>1. \A n \in 0..U16 - 1 : n \in Nat /\ n % U16 = n
    BY <1>2, SmallRest
  <2>2. \A n \in 0..U32 - 1 : n \in Nat /\ n % U32 = n
    BY <1>2, SmallRest
  <2> DEFINE M == U32 * U32
  <2>3. M \in Nat \ {0}
    BY <1>2
  <2> HIDE DEF M
  <2>4. \A n \in 0..M - 1 : n \in Nat /\ n % M = n
    BY <2>3, SmallRest
  <2> QED
    BY <2>1, <2>2, <2>4 DEF M
<1>4. /\ At(b, 0, Packet!WriteU32(h.magic)) /\ At(b, 4, Packet!WriteU16(h.version))
      /\ At(b, 6, Packet!WriteU16(h.flags)) /\ At(b, 8, Packet!WriteU32(h.stream_id))
      /\ At(b, 12, Packet!WriteU32(h.sequence))
      /\ At(b, 16, Packet!WriteU64(h.capture_ts_us))
      /\ At(b, 24, Packet!WriteU16(h.frame_samples)) /\ At(b, 26, Packet!WriteU16(Len(p)))
  BY SerializedIs
<1> HIDE DEF b
<1>5. Packet!ReadU32(b, 0) = h.magic /\ Packet!ReadU16(b, 4) = h.version
  BY <1>1, <1>3, <1>4, Reads16, Reads32
<1>6. Packet!ReadU16(b, 6) = h.flags /\ Packet!ReadU32(b, 8) = h.stream_id
  BY <1>1, <1>3, <1>4, Reads16, Reads32
<1>7. Packet!ReadU32(b, 12) = h.sequence /\ Packet!ReadU64(b, 16) = h.capture_ts_us
  BY <1>1, <1>3, <1>4, Reads32, Reads64
<1>8. Packet!ReadU16(b, 24) = h.frame_samples /\ Packet!ReadU16(b, 26) = Len(p)
  BY <1>1, <1>3, <1>4, Reads16
<1>9. Packet!ReadHeader(b) =
        [magic |-> h.magic, version |-> h.version, flags |-> h.flags,
         stream_id |-> h.stream_id, sequence |-> h.sequence,
         capture_ts_us |-> h.capture_ts_us, frame_samples |-> h.frame_samples,
         payload_size |-> Len(p)]
  BY <1>5, <1>6, <1>7, <1>8 DEF Packet!ReadHeader
<1> QED
  BY <1>9 DEF HeaderTypes, b

\* The header is read from the first 28 bytes.
LEMMA HeaderOfPrefix ==
  ASSUME NEW b \in Seq(Byte), NEW n \in 28..Len(b)
  PROVE  Packet!ReadHeader(SubSeq(b, 1, n)) = Packet!ReadHeader(b)
<1> DEFINE c == SubSeq(b, 1, n)
<1>1. \A i \in 1..28 : c[i] = b[i]
  BY SubSeqProperties
<1> HIDE DEF c
<1>2. \A o \in 0..26 : Packet!ReadU16(c, o) = Packet!ReadU16(b, o)
  <2> TAKE o \in 0..26
  <2>1. o + 1 \in 1..28 /\ o + 2 \in 1..28
    OBVIOUS
  <2>2. c[o + 1] = b[o + 1] /\ c[o + 2] = b[o + 2]
    BY <1>1, <2>1
  <2> QED
    BY <2>2 DEF Packet!ReadU16
<1>3. \A o \in 0..24 : Packet!ReadU32(c, o) = Packet!ReadU32(b, o)
  <2> TAKE o \in 0..24
  <2>1. o \in 0..26 /\ o + 2 \in 0..26
    OBVIOUS
  <2>2. Packet!ReadU16(c, o) = Packet!ReadU16(b, o)
        /\ Packet!ReadU16(c, o + 2) = Packet!ReadU16(b, o + 2)
    BY <1>2, <2>1
  <2> QED
    BY <2>2 DEF Packet!ReadU32
<1>4. Packet!ReadU64(c, 16) = Packet!ReadU64(b, 16)
  <2>1. Packet!ReadU32(c, 16) = Packet!ReadU32(b, 16)
        /\ Packet!ReadU32(c, 16 + 4) = Packet!ReadU32(b, 16 + 4)
    BY <1>3
  <2> QED
    BY <2>1 DEF Packet!ReadU64
<1>5. /\ Packet!ReadU32(c, 0) = Packet!ReadU32(b, 0)
      /\ Packet!ReadU16(c, 4) = Packet!ReadU16(b, 4)
      /\ Packet!ReadU16(c, 6) = Packet!ReadU16(b, 6)
      /\ Packet!ReadU32(c, 8) = Packet!ReadU32(b, 8)
      /\ Packet!ReadU32(c, 12) = Packet!ReadU32(b, 12)
      /\ Packet!ReadU16(c, 24) = Packet!ReadU16(b, 24)
      /\ Packet!ReadU16(c, 26) = Packet!ReadU16(b, 26)
  BY <1>2, <1>3
<1> QED
  BY <1>4, <1>5 DEF Packet!ReadHeader, c

LEMMA HeaderType ==
  ASSUME NEW b \in Seq(Byte), Len(b) >= 28
  PROVE  Packet!ReadHeader(b) \in HeaderTypes
<1>1. /\ Packet!ReadU32(b, 0) \in 0..U32 - 1 /\ Packet!ReadU16(b, 4) \in 0..U16 - 1
      /\ Packet!ReadU16(b, 6) \in 0..U16 - 1 /\ Packet!ReadU32(b, 8) \in 0..U32 - 1
      /\ Packet!ReadU32(b, 12) \in 0..U32 - 1 /\ Packet!ReadU64(b, 16) \in 0..U32 * U32 - 1
      /\ Packet!ReadU16(b, 24) \in 0..U16 - 1 /\ Packet!ReadU16(b, 26) \in 0..U16 - 1
  BY Same16, Same32, Same64
<1> QED
  BY <1>1 DEF HeaderTypes, Packet!ReadHeader

\* The fields cover the header.
LEMMA FieldsCover ==
  ASSUME NEW b, NEW c,
         Same(b, c, 0, 4), Same(b, c, 4, 2), Same(b, c, 6, 2), Same(b, c, 8, 4),
         Same(b, c, 12, 4), Same(b, c, 16, 8), Same(b, c, 24, 2), Same(b, c, 26, 2)
  PROVE  \A i \in 1..28 : b[i] = c[i]
<1> TAKE i \in 1..28
<1>1. \/ i \in 0 + 1..0 + 4 \/ i \in 4 + 1..4 + 2 \/ i \in 6 + 1..6 + 2
      \/ i \in 8 + 1..8 + 4 \/ i \in 12 + 1..12 + 4 \/ i \in 16 + 1..16 + 8
      \/ i \in 24 + 1..24 + 2 \/ i \in 26 + 1..26 + 2
  OBVIOUS
<1> QED
  BY <1>1, Zenon DEF Same

\* Two buffers with one header and one payload are one.
LEMMA SameHeader ==
  ASSUME NEW b \in Seq(Byte), NEW c \in Seq(Byte), Len(b) >= 28, Len(c) >= 28,
         Packet!ReadHeader(b) = Packet!ReadHeader(c)
  PROVE  \A i \in 1..28 : b[i] = c[i]
<1>1. /\ Packet!ReadU32(b, 0) = Packet!ReadU32(c, 0)
      /\ Packet!ReadU16(b, 4) = Packet!ReadU16(c, 4)
      /\ Packet!ReadU16(b, 6) = Packet!ReadU16(c, 6)
      /\ Packet!ReadU32(b, 8) = Packet!ReadU32(c, 8)
      /\ Packet!ReadU32(b, 12) = Packet!ReadU32(c, 12)
      /\ Packet!ReadU64(b, 16) = Packet!ReadU64(c, 16)
      /\ Packet!ReadU16(b, 24) = Packet!ReadU16(c, 24)
      /\ Packet!ReadU16(b, 26) = Packet!ReadU16(c, 26)
  BY DEF Packet!ReadHeader
<1>2. \A o \in 0..26 : Packet!ReadU16(b, o) = Packet!ReadU16(c, o) => Same(b, c, o, 2)
  <2> TAKE o \in 0..26
  <2>1. o \in Nat /\ o + 2 <= Len(b) /\ o + 2 <= Len(c)
    OBVIOUS
  <2> QED
    BY <2>1, Same16
<1>3. \A o \in 0..24 : Packet!ReadU32(b, o) = Packet!ReadU32(c, o) => Same(b, c, o, 4)
  <2> TAKE o \in 0..24
  <2>1. o \in Nat /\ o + 4 <= Len(b) /\ o + 4 <= Len(c)
    OBVIOUS
  <2> QED
    BY <2>1, Same32
<1>4. \A o \in 0..20 : Packet!ReadU64(b, o) = Packet!ReadU64(c, o) => Same(b, c, o, 8)
  <2> TAKE o \in 0..20
  <2>1. o \in Nat /\ o + 8 <= Len(b) /\ o + 8 <= Len(c)
    OBVIOUS
  <2> QED
    BY <2>1, Same64
<1>5. Same(b, c, 0, 4) /\ Same(b, c, 4, 2) /\ Same(b, c, 6, 2) /\ Same(b, c, 8, 4)
  BY <1>1, <1>2, <1>3
<1>6. Same(b, c, 12, 4) /\ Same(b, c, 16, 8) /\ Same(b, c, 24, 2) /\ Same(b, c, 26, 2)
  BY <1>1, <1>2, <1>3, <1>4
<1> QED
  BY <1>5, <1>6, FieldsCover

\* What TryParsePacket does, in numbers.
LEMMA ParseCases ==
  ASSUME NEW b
  PROVE  /\ Packet!TryParsePacket(b) # Packet!Nothing
              => /\ ~(Len(b) < 28) /\ Len(b) = 28 + Packet!ReadHeader(b).payload_size
                 /\ Packet!TryParsePacket(b)
                      = <<[header |-> Packet!ReadHeader(b), payload |-> SubSeq(b, 29, Len(b))]>>
         /\ ~(Len(b) < 28) /\ Packet!IsPacket(Packet!ReadHeader(b))
              /\ Len(b) = 28 + Packet!ReadHeader(b).payload_size
              => Packet!TryParsePacket(b)
                   = <<[header |-> Packet!ReadHeader(b), payload |-> SubSeq(b, 29, Len(b))]>>
<1>1. Packet!HeaderSize = 28 /\ Packet!HeaderSize + 1 = 29
  BY DEF Packet!HeaderSize
<1>2. Packet!Parsed(b) = <<[header |-> Packet!ReadHeader(b), payload |-> SubSeq(b, 29, Len(b))]>>
  BY <1>1, Zenon DEF Packet!Parsed
<1>3. Packet!TryParsePacket(b) =
        IF \/ Len(b) < 28 \/ ~Packet!IsPacket(Packet!ReadHeader(b))
           \/ Len(b) # 28 + Packet!ReadHeader(b).payload_size
        THEN Packet!Nothing ELSE Packet!Parsed(b)
  BY <1>1, Zenon DEF Packet!TryParsePacket
<1> QED
  BY <1>2, <1>3, Zenon

(* What follows a header of 28 bytes has the size that the header states.  *)
LEMMA FillsTheRest ==
  ASSUME NEW u \in Nat, NEW n \in Nat, NEW m \in 0..u - 1, NEW l,
         n = 28 + m, l = n - 28
  PROVE  l = m /\ l < u /\ l \in Nat
<1>1. m \in Nat /\ m < u
  OBVIOUS
<1> QED
  BY <1>1

\* What is accepted is what is written for it.
LEMMA AcceptedIsWritten ==
  ASSUME NEW b \in Seq(Byte), Packet!TryParsePacket(b) # Packet!Nothing
  PROVE  Packet!SerializePacket(Packet!TryParsePacket(b)[1]) = b
<1> DEFINE h == Packet!ReadHeader(b)
           p == SubSeq(b, 29, Len(b))
           c == Serialized(h, p)
<1>1. /\ Len(b) \in Nat /\ ~(Len(b) < 28) /\ Len(b) = 28 + h.payload_size
      /\ Packet!TryParsePacket(b) = <<[header |-> h, payload |-> p]>>
  BY ParseCases, LenProperties
<1>2. Packet!SerializePacket(Packet!TryParsePacket(b)[1]) = c
  BY <1>1 DEF Serialized
<1>3. h \in HeaderTypes
  BY <1>1, HeaderType
<1> HIDE DEF h
<1>4. p \in Seq(Byte) /\ Len(p) = Len(b) - 28 /\ \A i \in 1..Len(p) : p[i] = b[28 + i]
  <2>1. Len(b) <= Len(b) /\ 29 \in 1..Len(b) + 1
    BY <1>1
  <2> QED
    BY <1>1, <2>1, SubSeqProperties
<1> HIDE DEF p
<1>5. Len(p) = h.payload_size /\ Len(p) < U16 /\ Len(p) \in Nat
  <2>1. h.payload_size \in 0..U16 - 1
    BY <1>3, Zenon DEF HeaderTypes
  <2>2. U16 \in Nat /\ Len(b) \in Nat /\ Len(b) = 28 + h.payload_size /\ Len(p) = Len(b) - 28
    BY <1>1, <1>4, Widths, Zenon
  <2> QED
    BY <2>1, <2>2, FillsTheRest, Zenon
<1>6. Packet!ReadHeader(c) = h
  <2>1. Packet!ReadHeader(c) = [h EXCEPT !.payload_size = Len(p)]
    BY <1>3, <1>4, <1>5, HeaderIsRead
  <2> QED
    BY <2>1, <1>3, <1>5 DEF HeaderTypes
<1>7. c \in Seq(Byte) /\ Len(c) = Len(b) /\ At(c, 28, p)
  BY <1>1, <1>3, <1>4, <1>5, SerializedIs
<1> HIDE DEF c
<1>8. \A i \in 1..28 : c[i] = b[i]
  <2>1. c \in Seq(Byte) /\ Len(b) >= 28 /\ Len(c) >= 28
    BY <1>1, <1>7
  <2>2. Packet!ReadHeader(c) = Packet!ReadHeader(b)
    BY <1>6 DEF h
  <2> QED
    BY <2>1, <2>2, SameHeader
<1>9. ASSUME NEW i \in 1..Len(b) PROVE c[i] = b[i]
  <2>1. CASE i <= 28
    <3>1. i \in 1..28
      BY <1>1, <2>1
    <3> QED
      BY <3>1, <1>8
  <2>2. CASE i > 28
    <3>1. PICK k \in 1..Len(p) : i = 28 + k
      <4>1. i - 28 \in 1..Len(p) /\ i = 28 + (i - 28)
        BY <2>2, <1>1, <1>4
      <4> QED
        BY <4>1
    <3> QED
      BY <3>1, <1>4, <1>7 DEF At
  <2> QED
    BY <2>1, <2>2
<1> QED
  BY <1>2, <1>7, <1>9, SeqEqual

\* What is written is accepted, whole and with the size of its payload,
LEMMA WrittenIsAccepted ==
  ASSUME NEW h \in HeaderTypes, Packet!IsPacket(h), NEW p \in Seq(Byte), Len(p) < U16
  PROVE  Packet!TryParsePacket(Serialized(h, p))
           = <<[header |-> [h EXCEPT !.payload_size = Len(p)], payload |-> p]>>
<1> DEFINE b == Serialized(h, p)
           g == [h EXCEPT !.payload_size = Len(p)]
<1>1. Packet!ReadHeader(b) = g
  BY HeaderIsRead
<1>2. /\ b \in Seq(Byte) /\ Len(b) = 28 + Len(p) /\ At(b, 28, p) /\ Len(p) \in Nat
  BY SerializedIs
<1>3. Packet!IsPacket(g) /\ g.payload_size = Len(p)
  BY DEF HeaderTypes, Packet!IsPacket
<1> HIDE DEF b, g
<1>4. SubSeq(b, 29, Len(b)) = p
  <2> DEFINE q == SubSeq(b, 29, Len(b))
  <2>1. q \in Seq(Byte) /\ Len(q) = Len(b) - 28 /\ \A i \in 1..Len(q) : q[i] = b[28 + i]
    <3>1. Len(b) <= Len(b) /\ 29 \in 1..Len(b) + 1 /\ Len(b) \in Nat
      BY <1>2
    <3> QED
      BY <1>2, <3>1, SubSeqProperties
  <2> HIDE DEF q
  <2>2. Len(q) = Len(p) /\ \A i \in 1..Len(p) : q[i] = p[i]
    BY <1>2, <2>1 DEF At
  <2> QED
    BY <2>1, <2>2, SeqEqual DEF q
<1>5. ~(Len(b) < 28)
  BY <1>2
<1>6. Packet!TryParsePacket(b) = <<[header |-> g, payload |-> p]>>
  <2>1. Len(b) = 28 + Packet!ReadHeader(b).payload_size
    BY <1>1, <1>2, <1>3
  <2>2. Packet!IsPacket(Packet!ReadHeader(b))
    BY <1>1, <1>3
  <2> QED
    BY <1>1, <1>4, <1>5, <2>1, <2>2, ParseCases
<1> QED
  BY <1>6 DEF b, g

\* but no beginning of it is.
LEMMA CutIsRefused ==
  ASSUME NEW h \in HeaderTypes, NEW p \in Seq(Byte), Len(p) < U16,
         NEW n \in 0..27 + Len(p)
  PROVE  Packet!TryParsePacket(SubSeq(Serialized(h, p), 1, n)) = Packet!Nothing
<1> DEFINE b == Serialized(h, p)
           c == SubSeq(b, 1, n)
<1>1. b \in Seq(Byte) /\ Len(b) = 28 + Len(p) /\ Len(p) \in Nat
  BY SerializedIs
<1>2. Packet!ReadHeader(b).payload_size = Len(p)
  BY HeaderIsRead DEF HeaderTypes
<1> HIDE DEF b
<1>3. Len(c) = n
  BY <1>1, SubSeqProperties
<1>4. n < 28 \/ Packet!ReadHeader(c) = Packet!ReadHeader(b)
  BY <1>1, HeaderOfPrefix
<1> HIDE DEF c
<1>5. \/ Len(c) < 28
      \/ Len(c) # 28 + Packet!ReadHeader(c).payload_size
  BY <1>1, <1>2, <1>3, <1>4
<1>6. Packet!TryParsePacket(c) = Packet!Nothing
  BY <1>5 DEF Packet!TryParsePacket, Packet!HeaderSize
<1> QED
  BY <1>6 DEF b, c

\* The network took hostd's packet as it was written, and PollOne answers
\* for what Receive kept of a datagram.
Kept(b) ==
  IF b = Packet!Nothing \/ (Filtered /\ from # "hostd")
  THEN Packet!Nothing ELSE Packet!TryParsePacket(b)

DatagramInv ==
  /\ bytes \in Seq(Byte)
  /\ from = "hostd" =>
       \E h \in HeaderTypes, p \in Seq(Byte) :
         /\ Packet!IsPacket(h) /\ Len(p) < U16
         /\ sent = <<[header |-> h, payload |-> p]>> /\ bytes = Serialized(h, p)
  /\ polled => \E b \in Packet!Received(bytes) : got = Kept(b)
  /\ polled = FALSE => got = Packet!Nothing
  /\ polled \in BOOLEAN /\ (from = "nobody" => polled = FALSE)

(* It gives what the run checks. *)
LEMMA DatagramInvIsEnough ==
  ASSUME DatagramInv PROVE Packet!HeardAsSent /\ Packet!ParseIsExact
<1>1. ReceiveBuffer \in Nat
  BY PartsAssumption DEF Packet!PacketAssumption
<1>2. Packet!HeardAsSent
  <2> SUFFICES ASSUME polled, from = "hostd"
      PROVE  got = IF 28 + Len(sent[1].payload) > ReceiveBuffer THEN Packet!Nothing
                   ELSE <<[sent[1] EXCEPT !.header.payload_size = Len(sent[1].payload)]>>
    BY Zenon DEF Packet!HeardAsSent, Packet!HeaderSize
  <2>1. PICK h \in HeaderTypes, p \in Seq(Byte) :
          /\ Packet!IsPacket(h) /\ Len(p) < U16
          /\ sent = <<[header |-> h, payload |-> p]>> /\ bytes = Serialized(h, p)
    BY DEF DatagramInv
  <2>2. PICK b \in Packet!Received(bytes) : got = Kept(b)
    BY DEF DatagramInv
  <2>3. bytes \in Seq(Byte) /\ Len(bytes) = 28 + Len(p) /\ Len(p) \in Nat
    BY <2>1, SerializedIs
  <2>4. sent[1].payload = p /\ sent[1].header = h
    BY <2>1
  <2>5. CASE 28 + Len(p) > ReceiveBuffer
    <3>1. ReceiveBuffer \in 0..27 + Len(p)
      BY <2>3, <2>5, <1>1
    <3>2. Packet!TryParsePacket(SubSeq(bytes, 1, ReceiveBuffer)) = Packet!Nothing
      BY <2>1, <3>1, CutIsRefused
    <3>3. b \in {SubSeq(bytes, 1, ReceiveBuffer), Packet!Nothing}
      BY <2>2, <2>3, <2>5 DEF Packet!Received
    <3>4. got = Packet!Nothing
      BY <2>2, <3>2, <3>3 DEF Kept
    <3> QED
      BY <2>4, <2>5, <3>4
  <2>6. CASE ~(28 + Len(p) > ReceiveBuffer)
    <3>1. b = bytes
      BY <2>2, <2>3, <2>6 DEF Packet!Received
    <3>2. bytes # Packet!Nothing
      BY <2>3 DEF Packet!Nothing
    <3>3. got = Packet!TryParsePacket(bytes)
      BY <2>2, <3>1, <3>2 DEF Kept
    <3>4. got = <<[header |-> [h EXCEPT !.payload_size = Len(p)], payload |-> p]>>
      BY <3>3, <2>1, WrittenIsAccepted
    <3>5. [sent[1] EXCEPT !.header.payload_size = Len(p)]
            = [header |-> [h EXCEPT !.payload_size = Len(p)], payload |-> p]
      BY <2>1
    <3> QED
      BY <2>4, <2>6, <3>4, <3>5
  <2> QED
    BY <2>5, <2>6
<1>3. Packet!ParseIsExact
  <2> SUFFICES ASSUME got # Packet!Nothing
      PROVE  Packet!SerializePacket(got[1]) \in Packet!Received(bytes)
    BY DEF Packet!ParseIsExact
  <2>1. PICK b \in Packet!Received(bytes) : got = Kept(b)
    BY DEF DatagramInv
  <2>2. b # Packet!Nothing /\ got = Packet!TryParsePacket(b)
    BY <2>1 DEF Kept
  <2>3. b \in Seq(Byte)
    <3>1. CASE Len(bytes) > ReceiveBuffer
      <4>1. b = SubSeq(bytes, 1, ReceiveBuffer)
        BY <2>1, <2>2, <3>1 DEF Packet!Received
      <4>2. bytes \in Seq(Byte) /\ Len(bytes) \in Nat
        BY DEF DatagramInv
      <4> QED
        BY <1>1, <3>1, <4>1, <4>2, SubSeqProperties
    <3>2. CASE ~(Len(bytes) > ReceiveBuffer)
      BY <2>1, <3>2 DEF Packet!Received, DatagramInv
    <3> QED
      BY <3>1, <3>2
  <2> QED
    BY <2>1, <2>2, <2>3, AcceptedIsWritten
<1> QED
  BY <1>2, <1>3

LEMMA PayloadsAreBytes ==
  ASSUME NEW p \in Packet!BoundedSeq(Samples, MaxPayload) PROVE p \in Seq(Byte)
<1>1. Samples \subseteq Byte
  BY PartsAssumption DEF Packet!PacketAssumption, Byte
<1>2. PICK m \in 0..MaxPayload : p \in [1..m -> Samples]
  BY DEF Packet!BoundedSeq, Packet!SeqOf
<1>3. m \in Nat /\ p \in [1..m -> Byte]
  BY <1>1, <1>2
<1> QED
  BY <1>3

LEMMA HeadersFit ==
  ASSUME NEW h \in Packet!Headers PROVE h \in HeaderTypes /\ Packet!IsPacket(h)
<1>1. /\ Base \in Nat /\ Base >= 2 /\ U16 \in Nat /\ U16 > Base + 1
      /\ U32 \in Nat /\ U32 = U16 * U16 /\ U32 > U16 * Base
  BY Widths
<1>2. U16 * Base \in 0..U32 - 1 /\ U16 * Base >= U16
  <2>1. U16 * Base >= U16 * 1
    BY <1>1
  <2> QED
    BY <2>1, <1>1
<1>3. U32 > U16 /\ U32 * U32 - 2 \in 0..U32 * U32 - 1
  <2>1. U32 > U16 /\ U32 >= 2
    BY <1>1, <1>2
  <2>2. U32 * U32 >= U32 * 1 /\ U32 * U32 \in Nat
    BY <1>1, <2>1
  <2> QED
    BY <2>1, <2>2, <1>1
<1>4. /\ Packet!Magic \in 0..U32 - 1 /\ Packet!Version \in 0..U16 - 1 /\ 0 \in 0..U16 - 1
      /\ 1 \in 0..U32 - 1 /\ U32 - 1 \in 0..U32 - 1 /\ 0 \in 0..U32 - 1
      /\ Base \in 0..U16 - 1
  BY <1>1, <1>3 DEF Packet!Magic, Packet!Version
<1>5. /\ h \in [magic : {Packet!Magic}, version : {Packet!Version}, flags : {0},
            stream_id : {1, U32 - 1}, sequence : {0, U16 * Base, U32 - 1},
            capture_ts_us : {U32 * U32 - 2}, frame_samples : {Base}, payload_size : {0}]
  BY DEF Packet!Headers, U16, U32
<1> QED
  BY <1>2, <1>3, <1>4, <1>5 DEF HeaderTypes, Packet!IsPacket

(* A stranger's datagram is cut, drawn out or changed in one byte.         *)
LEMMA AlteredIs ==
  ASSUME NEW c, NEW y \in Packet!Altered(c)
  PROVE  \/ \E n \in 0..Len(c) : y = SubSeq(c, 1, n)
         \/ \E x \in Samples : y = c \o <<x>>
         \/ \E i \in DOMAIN c, x \in Samples : y = [c EXCEPT ![i] = x]
<1> DEFINE S == {SubSeq(c, 1, n) : n \in 0..Len(c)}
           T == {c \o <<x>> : x \in Samples}
           U == {[c EXCEPT ![i] = x] : i \in DOMAIN c, x \in Samples}
<1>1. Packet!Altered(c) = S \cup T \cup U
  BY DEF Packet!Altered
<1>2. y \in S => \E n \in 0..Len(c) : y = SubSeq(c, 1, n)
  OBVIOUS
<1>3. y \in T => \E x \in Samples : y = c \o <<x>>
  OBVIOUS
<1>4. y \in U => \E i \in DOMAIN c, x \in Samples : y = [c EXCEPT ![i] = x]
  OBVIOUS
<1> HIDE DEF S, T, U
<1>5. y \in S \/ y \in T \/ y \in U
  BY <1>1
<1> QED
  BY <1>2, <1>3, <1>4, <1>5, Zenon

(* Sending, a stranger's datagram and receiving keep it.                   *)
LEMMA PacketStepKeeps ==
  ASSUME DatagramInv, Packet!Next PROVE DatagramInv'
<1>1. CASE Packet!Send
  <2>1. PICK h \in Packet!Headers, p \in Packet!BoundedSeq(Samples, MaxPayload) :
          /\ Len(Serialized(h, p)) <= MaxDatagram
          /\ sent' = <<[header |-> h, payload |-> p]>>
          /\ from' = "hostd" /\ bytes' = Serialized(h, p)
    BY <1>1 DEF Packet!Send, Serialized
  <2>2. h \in HeaderTypes /\ Packet!IsPacket(h) /\ p \in Seq(Byte)
    BY HeadersFit, PayloadsAreBytes
  <2>3. Serialized(h, p) \in Seq(Byte) /\ Len(p) < U16
    <3>1. /\ Serialized(h, p) \in Seq(Byte)
          /\ Len(Serialized(h, p)) = 28 + Len(p) /\ Len(p) \in Nat
      BY <2>2, SerializedIs
    <3>2. MaxDatagram \in Nat /\ MaxDatagram < 28 + U16
      BY PartsAssumption DEF Packet!PacketAssumption, Packet!HeaderSize, U16
    <3> QED
      BY <2>1, <3>1, <3>2, Widths
  <2>4. UNCHANGED <<polled, got>> /\ polled = FALSE
    BY <1>1 DEF Packet!Send, DatagramInv
  <2> QED
    BY <2>1, <2>2, <2>3, <2>4 DEF DatagramInv
<1>2. CASE Packet!SendOther
  <2>1. PICK h \in Packet!Headers, p \in Packet!BoundedSeq(Samples, MaxPayload) :
          \E b \in Packet!Altered(Serialized(h, p)) : from' = "other" /\ bytes' = b
    BY <1>2 DEF Packet!SendOther, Serialized
  <2>2. h \in HeaderTypes /\ p \in Seq(Byte)
    BY HeadersFit, PayloadsAreBytes
  <2> DEFINE c == Serialized(h, p)
  <2>3. c \in Seq(Byte) /\ Len(c) \in Nat
    BY <2>2, SerializedIs
  <2>4. bytes' \in Packet!Altered(c)
    BY <2>1
  <2> HIDE DEF c
  <2>5. Samples \subseteq Byte
    BY PartsAssumption DEF Packet!PacketAssumption, Byte
  <2>6. \A n \in 0..Len(c) : SubSeq(c, 1, n) \in Seq(Byte)
    BY <2>3, SubSeqProperties
  <2>7. \A x \in Samples : c \o <<x>> \in Seq(Byte)
    BY <2>3, <2>5
  <2>8. \A i \in DOMAIN c, x \in Samples : [c EXCEPT ![i] = x] \in Seq(Byte)
    BY <2>3, <2>5, ExceptSeq
  <2>9. bytes' \in Seq(Byte)
    <3>1. \/ \E n \in 0..Len(c) : bytes' = SubSeq(c, 1, n)
          \/ \E x \in Samples : bytes' = c \o <<x>>
          \/ \E i \in DOMAIN c, x \in Samples : bytes' = [c EXCEPT ![i] = x]
      BY <2>4, AlteredIs
    <3> QED
      BY <3>1, <2>6, <2>7, <2>8, Zenon
  <2>10. UNCHANGED <<polled, got>> /\ polled = FALSE /\ from' = "other"
    BY <1>2, <2>1 DEF Packet!SendOther, DatagramInv
  <2> QED
    BY <2>9, <2>10 DEF DatagramInv
<1>3. CASE Packet!PollOne
  <2>1. PICK b \in Packet!Received(bytes) : got' = Kept(b)
    BY <1>3 DEF Packet!PollOne, Kept
  <2>2. from # "nobody" /\ polled' = TRUE /\ UNCHANGED <<sent, from, bytes>>
    BY <1>3 DEF Packet!PollOne
  <2> QED
    BY <2>1, <2>2 DEF DatagramInv, Kept
<1> QED
  BY <1>1, <1>2, <1>3 DEF Packet!Next

(* What SerializePacket writes is what TryParsePacket reads.               *)
THEOREM PacketsAreExact == PartsSpec => []PacketIsExact
<1>1. PartsInit => DatagramInv
  BY EmptySeq DEF PartsInit, Packet!Init, DatagramInv
<1>2. DatagramInv /\ [PartsNext]_parts => DatagramInv'
  <2> SUFFICES ASSUME DatagramInv, [PartsNext]_parts PROVE DatagramInv'
    OBVIOUS
  <2>1. CASE UNCHANGED datagram
    BY <2>1 DEF datagram, DatagramInv, Kept
  <2>2. CASE Packet!Next
    BY <2>2, PacketStepKeeps
  <2> QED
    BY <2>1, <2>2 DEF PartsNext, parts
<1>3. DatagramInv => PacketIsExact
  BY DatagramInvIsEnough DEF PacketIsExact
<1> QED
  BY <1>1, <1>2, <1>3, PTL DEF PartsSpec
=============================================================================
