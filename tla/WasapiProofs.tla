----------------------------- MODULE WasapiProofs ----------------------------
(* The capture and the device list on Windows, for any number of Starts,   *)
(* any endpoints, any timing and any width of a byte.  Each part keeps an  *)
(* invariant of its own on its own variables; a step of another part does  *)
(* not touch them.                                                         *)
EXTENDS MCWasapi, SequenceTheorems, FiniteSetTheorems, TLAPS

-----------------------------------------------------------------------------
(* What Start takes and Shutdown gives back.  The invariant follows        *)
(* Start's progress: what must be held at each of its steps, and that      *)
(* nothing was held when it began.                                         *)
Acquiring == {"format", "configure", "initialize", "service", "run"}
Stages == {"com", "enumerator", "device", "activate", "out", "gone"} \cup Acquiring

TypeOK ==
  /\ asked \in Asked /\ stage \in Stages /\ roles \in Seq(Asked)
  /\ uninit \in BOOLEAN /\ format \in BOOLEAN /\ capture \in BOOLEAN
  /\ started \in BOOLEAN

\* What was found is what was asked for.
Suits(e) == e = asked \/ (asked = "auto" /\ e \in Roles)

Cleared == endpoint = NoClient /\ ~format /\ ~capture /\ ~started

Candidates ==
  stage \in {"device", "activate"} =>
    roles # <<>> /\ \A i \in 1..Len(roles) : Suits(roles[i])

Taken ==
  /\ stage \in Acquiring => Suits(endpoint)
  /\ stage \in Acquiring \ {"format"} => format
  /\ stage = "run" => capture

Idle ==
  /\ stage = "com" \/ (stage \in {"out", "gone"} /\ ~started) => ~uninit /\ Cleared
  /\ started => stage = "out"

LifeInv == TypeOK /\ ComBalanced /\ Candidates /\ Taken /\ Idle /\ StartedIsComplete

LEMMA LifeInit == Init => LifeInv
<1> SUFFICES ASSUME Init PROVE LifeInv
  OBVIOUS
<1>1. roles \in Seq(Asked) /\ stage = "out" /\ asked \in Asked
  BY DEF Init
<1>2. ~uninit /\ Cleared /\ inits = 0
  BY DEF Init, Cleared
<1>3. TypeOK
  BY <1>1 DEF Init, TypeOK, Stages
<1>4. ComBalanced
  BY <1>2 DEF ComBalanced
<1> QED
  BY <1>1, <1>2, <1>3, <1>4
     DEF LifeInv, Candidates, Taken, Acquiring, Idle, Cleared, StartedIsComplete

(* Shutdown, on whichever path, gives back everything.                     *)
LEMMA ShutdownClears ==
  ASSUME LifeInv, Shutdown, stage' \in {"com", "out", "gone"}, asked' = asked,
         roles' \in Seq(Asked)
  PROVE  LifeInv'
<1>1. ComBalanced'
  <2>1. inits' = 0
    BY DEF Shutdown, LifeInv, ComBalanced, TypeOK
  <2> QED
    BY <2>1 DEF Shutdown, ComBalanced
<1>2. ~uninit' /\ Cleared'
  BY DEF Shutdown, Cleared
<1> QED
  BY <1>1, <1>2
  DEF Shutdown, LifeInv, TypeOK, Stages, Candidates, Taken, Acquiring, Idle,
      Cleared, StartedIsComplete

LEMMA FailKeeps == ASSUME LifeInv, Fails, asked' = asked PROVE LifeInv'
<1>1. <<>> \in Seq(Asked)
  OBVIOUS
<1> QED
  BY <1>1, ShutdownClears DEF Fails

LEMMA BeginKeeps ==
  ASSUME LifeInv, Start \/ Destroy \/ InitCom \/ MakeEnumerator PROVE LifeInv'
<1> USE DEF LifeInv
<1>1. CASE Start \/ Destroy
  BY <1>1, ShutdownClears DEF Start, Destroy, TypeOK
<1>2. CASE InitCom
  <2>1. /\ stage = "com" /\ ~uninit /\ Cleared /\ inits = 0
        /\ UNCHANGED <<asked, roles, endpoint, format, capture, started>>
        /\ stage' \in {"enumerator", "out"} /\ (stage' = "out" => ~uninit')
    BY <1>2 DEF InitCom, Idle, ComBalanced
  <2>2. ComBalanced' /\ uninit' \in BOOLEAN
    <3>1. CASE inits' = inits + 1 /\ uninit' = TRUE
      <4>1. inits' = 1
        BY <2>1, <3>1
      <4> QED
        BY <3>1, <4>1 DEF ComBalanced
    <3>2. CASE uninit' = FALSE /\ inits' = inits
      BY <2>1, <3>2 DEF ComBalanced
    <3>3. CASE uninit' = uninit /\ inits' = inits
      BY <2>1, <3>3 DEF ComBalanced, TypeOK
    <3> QED
      BY <1>2, <3>1, <3>2, <3>3 DEF InitCom
  <2> QED
    BY <2>1, <2>2 DEF TypeOK, Stages, Candidates, Taken, Acquiring, Idle, Cleared,
                      StartedIsComplete
<1>3. CASE MakeEnumerator
  <2>1. CASE Fails
    BY <1>3, <2>1, FailKeeps DEF MakeEnumerator, Attempt
  <2>2. CASE ~Fails
    <3>1. /\ stage' = "device" /\ UNCHANGED held /\ asked' = asked
          /\ roles' = (IF asked = "id" THEN <<"id">> ELSE CandidateRoles(asked))
      BY <1>3, <2>2 DEF MakeEnumerator, Attempt
    <3>2. /\ roles' \in Seq(Asked) /\ roles' # <<>>
          /\ \A i \in 1..Len(roles') : Suits(roles'[i])
      <4>1. CASE asked = "id"
        BY <3>1, <4>1 DEF Asked, Suits
      <4>2. CASE asked = "auto"
        <5>1. roles' = <<"multimedia", "console", "communications">>
          BY <3>1, <4>2 DEF CandidateRoles
        <5> QED
          BY <4>2, <5>1 DEF Asked, Roles, Suits
      <4>3. CASE asked \in Roles
        <5>1. roles' = <<asked>>
          BY <3>1, <4>3 DEF CandidateRoles, Roles
        <5> QED
          BY <4>3, <5>1 DEF Asked, Suits
      <4> QED
        BY <4>1, <4>2, <4>3 DEF TypeOK, Asked
    <3>3. stage = "enumerator"
      BY <1>3 DEF MakeEnumerator, Attempt
    <3> QED
      BY <3>1, <3>2, <3>3
      DEF held, TypeOK, Stages, ComBalanced, Candidates, Suits, Taken, Acquiring,
          Idle, Cleared, StartedIsComplete
  <2> QED
    BY <2>1, <2>2
<1> QED
  BY <1>1, <1>2, <1>3

LEMMA FindKeeps == ASSUME LifeInv, FindDevice PROVE LifeInv'
<1> USE DEF LifeInv
<1>1. stage = "device" /\ asked' = asked
  BY DEF FindDevice
<1>2. CASE Fails
  BY <1>1, <1>2, FailKeeps
<1>3. CASE stage' = "activate" /\ UNCHANGED <<roles, held>>
  BY <1>1, <1>3 DEF held, TypeOK, Stages, ComBalanced, Candidates, Suits, Taken,
                    Acquiring, Idle, Cleared, StartedIsComplete
<1>4. CASE Len(roles) > 1 /\ roles' = Tail(roles) /\ UNCHANGED <<stage, held>>
  <2>1. /\ roles' \in Seq(Asked) /\ roles' # <<>> /\ Len(roles') = Len(roles) - 1
        /\ \A i \in 1..Len(roles') : roles'[i] = roles[i + 1]
    <3>1. roles \in Seq(Asked) /\ roles # <<>> /\ Len(roles) \in Nat
      BY <1>1 DEF TypeOK, Candidates
    <3>2. /\ roles' \in Seq(Asked) /\ Len(roles') = Len(roles) - 1
          /\ \A i \in 1..Len(roles') : roles'[i] = roles[i + 1]
      BY <1>4, <3>1, HeadTailProperties
    <3>3. Len(roles') # 0
      <4>1. Len(roles) > 1
        BY <1>4
      <4>2. \A n \in Nat : n > 1 => n - 1 # 0
        OBVIOUS
      <4> QED
        BY <3>1, <3>2, <4>1, <4>2
    <3>4. roles' # <<>>
      BY <3>3
    <3> QED
      BY <3>2, <3>4
  <2>2. \A i \in 1..Len(roles') : Suits(roles'[i])
    <3> TAKE i \in 1..Len(roles')
    <3>1. i + 1 \in 1..Len(roles)
      BY <2>1, <1>4 DEF TypeOK
    <3> QED
      BY <1>1, <2>1, <3>1 DEF Candidates
  <2> QED
    BY <1>1, <1>4, <2>1, <2>2
    DEF held, TypeOK, ComBalanced, Candidates, Suits, Taken, Acquiring, Idle,
        Cleared, StartedIsComplete
<1> QED
  BY <1>2, <1>3, <1>4 DEF FindDevice

LEMMA AcquireKeeps ==
  ASSUME LifeInv,
         \/ Activate \/ TakeFormat \/ ConfigureMixFormat \/ Initialize
         \/ GetService \/ Run
  PROVE  LifeInv'
<1> USE DEF LifeInv
<1>1. asked' = asked
  BY DEF Activate, TakeFormat, ConfigureMixFormat, Initialize, GetService, Run,
         Attempt
<1>2. CASE Fails
  BY <1>1, <1>2, FailKeeps
<1>3. CASE ~Fails
  <2>1. CASE Activate
    <3>1. /\ stage = "activate" /\ stage' = "format" /\ endpoint' = Head(roles)
          /\ UNCHANGED <<roles, inits, uninit, engine, format, capture, started>>
      BY <1>3, <2>1 DEF Activate, Attempt
    <3>2. Suits(Head(roles))
      BY <3>1 DEF Candidates, TypeOK
    <3> QED
      BY <1>1, <3>1, <3>2 DEF TypeOK, Stages, ComBalanced, Candidates, Suits, Taken,
                              Acquiring, Idle, Cleared, StartedIsComplete
  <2>2. CASE TakeFormat \/ ConfigureMixFormat \/ Initialize \/ GetService
    <3>1. /\ UNCHANGED <<roles, inits, uninit, endpoint, started>>
          /\ stage \in Acquiring /\ stage' \in Acquiring \ {"format"}
          /\ format' = TRUE /\ capture' \in BOOLEAN
          /\ stage' = "run" => capture'
      BY <1>3, <2>2
      DEF TakeFormat, ConfigureMixFormat, Initialize, GetService, Attempt, held,
          TypeOK, Taken, Acquiring
    <3>2. TypeOK' /\ ComBalanced'
      BY <1>1, <3>1 DEF TypeOK, Stages, ComBalanced
    <3>3. Candidates' /\ Taken'
      BY <1>1, <3>1 DEF Candidates, Taken, Suits, Acquiring
    <3>4. ~started'
      BY <3>1 DEF Idle, Acquiring
    <3> QED
      BY <3>1, <3>2, <3>3, <3>4 DEF Idle, StartedIsComplete, Acquiring
  <2>3. CASE Run
    <3>1. /\ UNCHANGED <<inits, uninit, endpoint, format, capture>>
          /\ stage = "run" /\ stage' = "out" /\ engine' = "running"
          /\ started' = TRUE /\ roles' = <<>>
      BY <1>3, <2>3 DEF Run, Attempt
    <3>2. Suits(endpoint) /\ format /\ capture
      BY <3>1 DEF Taken, Acquiring
    <3>3. TypeOK'
      BY <1>1, <3>1 DEF TypeOK, Stages
    <3>4. ComBalanced'
      BY <3>1 DEF ComBalanced
    <3>5. Candidates' /\ Taken' /\ Idle'
      BY <3>1 DEF Candidates, Taken, Idle, Acquiring
    <3>6. StartedIsComplete'
      BY <1>1, <3>1, <3>2 DEF StartedIsComplete, Suits
    <3> QED
      BY <3>3, <3>4, <3>5, <3>6
  <2> QED
    BY <2>1, <2>2, <2>3
<1> QED
  BY <1>2, <1>3

LEMMA LifeKeeps == LifeInv /\ [Next]_vars => LifeInv'
<1>1. LifeInv /\ UNCHANGED vars => LifeInv'
  BY DEF vars, LifeInv, TypeOK, ComBalanced, Candidates, Suits, Taken, Idle,
         Cleared, StartedIsComplete
<1> QED
  BY <1>1, BeginKeeps, FindKeeps, AcquireKeeps DEF Next

(* The other parts leave the capture as it is.                             *)
LEMMA LifeAlways == PartsSpec => []LifeInv
<1>1. PartsInit => LifeInv
  BY LifeInit DEF PartsInit
<1>2. LifeInv /\ [PartsNext]_parts => LifeInv'
  <2>1. [PartsNext]_parts => [Next]_vars
    BY DEF PartsNext, parts
  <2> QED
    BY <2>1, LifeKeeps
<1> QED
  BY <1>1, <1>2, PTL DEF PartsSpec

(* However often Start is called and wherever it fails, COM is left as     *)
(* often as it was entered.                                                *)
THEOREM ComIsBalanced == PartsSpec => []ComBalanced
<1>1. LifeInv => ComBalanced
  BY DEF LifeInv
<1> QED
  BY <1>1, LifeAlways, PTL

(* A failed Start and the destructor leave nothing held.                   *)
THEOREM FailureLeavesNothing == PartsSpec => []FailureHoldsNothing
<1>1. LifeInv => FailureHoldsNothing
  BY DEF LifeInv, Idle, Cleared, ComBalanced, FailureHoldsNothing
<1> QED
  BY <1>1, LifeAlways, PTL

(* A started capture has everything ReadFrame uses, of the device that was *)
(* asked for, also when roles were tried in turn or Start was repeated.    *)
THEOREM StartedHasEverything == PartsSpec => []StartedIsComplete
<1>1. LifeInv => StartedIsComplete
  BY DEF LifeInv
<1> QED
  BY <1>1, LifeAlways, PTL
-----------------------------------------------------------------------------
(* The list of devices.  Each endpoint of the snapshot is listed, waits to *)
(* be visited or had no id, is only one of these, and is it once.          *)
Entry(id) == [id |-> id, is_default |-> id = default_id]

Listed(e) == \E i \in 1..Len(devices) : devices[i] = Entry(e)
Waiting(e) == \E i \in 1..Len(collection) : collection[i] = e

DeviceTypes ==
  /\ devices \in Seq([id : Endpoints, is_default : BOOLEAN])
  /\ collection \in Seq(Endpoints) /\ snapshot \in SUBSET Endpoints
  /\ unreadable \in SUBSET snapshot

Sorted ==
  \A e \in Endpoints :
    /\ e \in snapshot <=> Listed(e) \/ Waiting(e) \/ e \in unreadable
    /\ ~(Listed(e) /\ Waiting(e))
    /\ e \in unreadable => ~Listed(e) /\ ~Waiting(e)

Once ==
  /\ \A i \in 1..Len(devices) : devices[i] = Entry(devices[i].id)
  /\ \A i, j \in 1..Len(devices) : devices[i].id = devices[j].id => i = j
  /\ \A i, j \in 1..Len(collection) : collection[i] = collection[j] => i = j

Listing ==
  /\ DeviceTypes /\ Sorted /\ Once /\ default_id \in {answer, Devices!Empty}
  /\ visit = "visit" \/ (visit = "out" /\ collection = <<>>)

\* Before the visits begin, and when they do not begin at all.
Unlisted ==
  /\ devices = <<>> /\ unreadable = {} /\ collection = <<>> /\ visit # "visit"
  /\ visit = "collection" => default_id \in {answer, Devices!Empty}

ListInv == Unlisted \/ Listing

DeviceStages == {"com", "enumerator", "default", "collection", "visit", "out"}

UsesInv ==
  /\ visit \in DeviceStages /\ should_uninitialize \in BOOLEAN
  /\ visit = "com" => should_uninitialize = FALSE
  /\ uses = (IF should_uninitialize /\ visit # "out" THEN 1 ELSE 0)

(* COM is used while it is to be left, and not after that.                 *)
LEMMA UsesKept == UsesInv /\ [Devices!Next]_Devices!vars => UsesInv'
<1> SUFFICES ASSUME UsesInv, [Devices!Next]_Devices!vars PROVE UsesInv'
  OBVIOUS
<1>1. CASE UNCHANGED <<visit, should_uninitialize, uses>>
  BY <1>1 DEF UsesInv
<1>2. CASE Devices!Leave /\ visit \in {"enumerator", "collection", "visit"}
  <2>1. visit' = "out" /\ should_uninitialize' = should_uninitialize /\ uses' = 0
    BY <1>2 DEF Devices!Leave, UsesInv
  <2> QED
    BY <2>1 DEF UsesInv, DeviceStages
<1>3. CASE Devices!InitCom
  <2>1. visit = "com" /\ uses = 0 /\ should_uninitialize = FALSE
    BY <1>3 DEF Devices!InitCom, UsesInv
  <2>2. CASE uses' = uses + 1 /\ should_uninitialize' = TRUE /\ visit' = "enumerator"
    BY <2>1, <2>2 DEF UsesInv, DeviceStages
  <2>3. CASE visit' \in {"enumerator", "out"} /\ UNCHANGED <<uses, should_uninitialize>>
    BY <2>1, <2>3 DEF UsesInv, DeviceStages
  <2> QED
    BY <1>3, <2>2, <2>3 DEF Devices!InitCom
<1>4. CASE /\ UNCHANGED <<should_uninitialize, uses>>
           /\ \/ visit = "enumerator" /\ visit' = "default"
              \/ visit = "default" /\ visit' = "collection"
              \/ visit = "collection" /\ visit' = "visit"
  BY <1>4 DEF UsesInv, DeviceStages
<1> QED
  BY <1>1, <1>2, <1>3, <1>4
  DEF Devices!vars, Devices!Next, Devices!UserChangesDefault,
      Devices!MakeEnumerator, Devices!AskDefault, Devices!TakeCollection,
      Devices!Visit, Devices!Return

(* A way to visit the endpoints of a set.                                  *)
LEMMA VisitsAll ==
  ASSUME NEW S, IsFiniteSet(S), NEW f \in Devices!SetToSeqs(S)
  PROVE  /\ f \in Seq(S)
         /\ \A i, j \in 1..Len(f) : f[i] = f[j] => i = j
         /\ \A e \in S : \E i \in 1..Len(f) : f[i] = e
<1>1. Devices!Cardinality(S) = Cardinality(S)
  BY DEF Devices!Cardinality, Cardinality
<1>2. Cardinality(S) \in Nat
  BY FS_CardinalityType
<1>3. /\ f \in [1..Cardinality(S) -> S]
      /\ \A i, j \in 1..Cardinality(S) : i # j => f[i] # f[j]
  BY <1>1 DEF Devices!SetToSeqs
<1>4. f \in Seq(S) /\ Len(f) = Cardinality(S)
  BY <1>2, <1>3
<1>5. f \in Injection(1..Cardinality(S), S)
  BY <1>3 DEF Injection, IsInjective
<1>6. Cardinality(1..Cardinality(S)) = Cardinality(S)
  BY <1>2, FS_Interval
<1>7. f \in Surjection(1..Cardinality(S), S)
  BY <1>5, <1>6, FS_Injection
<1> QED
  BY <1>3, <1>4, <1>7 DEF Surjection

(* The list has not begun, or does not change.                             *)
LEMMA UnlistedKeeps ==
  ASSUME ListInv,
         \/ UNCHANGED Devices!vars \/ Devices!UserChangesDefault \/ Devices!InitCom
         \/ Devices!MakeEnumerator \/ Devices!AskDefault
  PROVE  ListInv'
<1>1. CASE UNCHANGED <<visit, default_id, answer, collection, unreadable, snapshot,
                 devices>>
  <2>1. DeviceTypes' = DeviceTypes /\ \A e : Entry(e)' = Entry(e)
    BY <1>1 DEF Entry, DeviceTypes
  <2> QED
    BY <1>1, <2>1
    DEF ListInv, Unlisted, Listing, DeviceTypes, Sorted, Once, Listed, Waiting
<1>2. CASE /\ Devices!InitCom \/ Devices!MakeEnumerator \/ Devices!AskDefault
  <2>1. /\ visit \in {"com", "enumerator", "default"} /\ visit' # "visit"
        /\ UNCHANGED <<devices, unreadable, collection>>
        /\ visit' = "collection" => default_id' \in {answer', Devices!Empty}
    BY <1>2
    DEF Devices!InitCom, Devices!MakeEnumerator, Devices!AskDefault, Devices!Leave
  <2>2. Unlisted
    BY <2>1 DEF ListInv, Listing
  <2> QED
    BY <2>1, <2>2 DEF ListInv, Unlisted
<1> QED
  BY <1>1, <1>2 DEF Devices!vars, Devices!UserChangesDefault

LEMMA TakeCollectionKeeps ==
  ASSUME Devices!DevicesAssumption, ListInv, Devices!TakeCollection PROVE ListInv'
<1>1. /\ devices = <<>> /\ unreadable = {} /\ collection = <<>> /\ visit = "collection"
      /\ default_id' \in {answer', Devices!Empty} /\ devices' = <<>> /\ unreadable' = {}
  BY DEF ListInv, Unlisted, Listing, Devices!TakeCollection
<1>2. CASE visit' = "out" /\ UNCHANGED collection
  BY <1>1, <1>2 DEF ListInv, Unlisted
<1>3. CASE \E active \in SUBSET Endpoints :
             /\ collection' \in Devices!SetToSeqs(active) /\ snapshot' = active
             /\ visit' = "visit"
  <2>1. PICK active \in SUBSET Endpoints :
          /\ collection' \in Devices!SetToSeqs(active) /\ snapshot' = active
          /\ visit' = "visit"
    BY <1>3
  <2>2. IsFiniteSet(active)
    <3>1. IsFiniteSet(Endpoints)
      BY DEF Devices!DevicesAssumption, Devices!IsFiniteSet, IsFiniteSet
    <3> QED
      BY <3>1, FS_Subset
  <2>3. /\ collection' \in Seq(active)
        /\ \A i, j \in 1..Len(collection') : collection'[i] = collection'[j] => i = j
        /\ \A e \in active : \E i \in 1..Len(collection') : collection'[i] = e
    BY <2>1, <2>2, VisitsAll
  <2>4. DeviceTypes'
    BY <1>1, <2>1, <2>3 DEF DeviceTypes
  <2>5. \A e \in Endpoints : (e \in active <=> Waiting(e)') /\ ~Listed(e)'
    BY <1>1, <2>3 DEF Waiting, Listed
  <2>6. Sorted'
    BY <1>1, <2>1, <2>5 DEF Sorted
  <2>7. Once'
    BY <1>1, <2>3 DEF Once
  <2> QED
    BY <1>1, <2>1, <2>4, <2>6, <2>7 DEF ListInv, Listing
<1> QED
  BY <1>2, <1>3 DEF Devices!TakeCollection, Devices!Leave

LEMMA ReturnKeeps == ASSUME ListInv, Devices!Return PROVE ListInv'
<1>1. /\ UNCHANGED <<default_id, answer, collection, unreadable, snapshot, devices>>
      /\ visit = "visit" /\ visit' = "out" /\ collection = <<>>
  BY DEF Devices!Return, Devices!Leave
<1>2. Listing
  BY <1>1 DEF ListInv, Unlisted
<1>3. \A e : Entry(e)' = Entry(e)
  BY <1>1 DEF Entry
<1> QED
  BY <1>1, <1>2, <1>3
  DEF ListInv, Listing, DeviceTypes, Sorted, Once, Listed, Waiting
(* Sequences taken apart and put together.                                 *)
LEMMA HeadAndTail ==
  ASSUME NEW S, NEW s \in Seq(S), s # <<>>
  PROVE  /\ Len(s) \in Nat \ {0} /\ Head(s) = s[1] /\ s[1] \in S
         /\ Tail(s) \in Seq(S) /\ Len(Tail(s)) = Len(s) - 1
         /\ \A i \in 1..Len(s) - 1 : Tail(s)[i] = s[i + 1]
  BY HeadTailProperties, EmptySeq

LEMMA OneMoreMember ==
  ASSUME NEW S, NEW s \in Seq(S), NEW x \in S
  PROVE  /\ Len(s) \in Nat /\ Append(s, x) \in Seq(S) /\ Len(Append(s, x)) = Len(s) + 1
         /\ \A i \in 1..Len(s) : Append(s, x)[i] = s[i]
         /\ Append(s, x)[Len(s) + 1] = x
  BY AppendProperties

\* The endpoint that is visited waits no longer, the others as before.
LEMMA VisitedWaitsNoLonger ==
  ASSUME DeviceTypes, Once, collection # <<>>, collection' = Tail(collection)
  PROVE  /\ Head(collection) \in Endpoints /\ Waiting(Head(collection))
         /\ \A e \in Endpoints : Waiting(e)' <=> Waiting(e) /\ e # Head(collection)
         /\ collection' \in Seq(Endpoints)
         /\ \A i, j \in 1..Len(collection') : collection'[i] = collection'[j] => i = j
<1>1. /\ Len(collection) \in Nat \ {0} /\ Head(collection) = collection[1]
      /\ collection[1] \in Endpoints
      /\ collection' \in Seq(Endpoints) /\ Len(collection') = Len(collection) - 1
      /\ \A i \in 1..Len(collection) - 1 : collection'[i] = collection[i + 1]
  BY HeadAndTail DEF DeviceTypes
<1>2. 1 \in 1..Len(collection)
  BY <1>1
<1>3. Waiting(Head(collection))
  BY <1>1, <1>2 DEF Waiting
<1>4. ASSUME NEW e \in Endpoints PROVE Waiting(e)' <=> Waiting(e) /\ e # Head(collection)
  <2>1. ASSUME Waiting(e)' PROVE Waiting(e) /\ e # Head(collection)
    <3>1. PICK i \in 1..Len(collection') : collection'[i] = e
      BY <2>1 DEF Waiting
    <3>2. i + 1 \in 1..Len(collection) /\ i + 1 # 1 /\ collection[i + 1] = e
      BY <1>1, <3>1
    <3> QED
      BY <1>1, <1>2, <3>2 DEF Waiting, Once
  <2>2. ASSUME Waiting(e), e # Head(collection) PROVE Waiting(e)'
    <3>1. PICK i \in 1..Len(collection) : collection[i] = e
      BY <2>2 DEF Waiting
    <3>2. i # 1
      BY <1>1, <2>2, <3>1
    <3>3. i - 1 \in 1..Len(collection') /\ (i - 1) + 1 = i
      BY <1>1, <3>1, <3>2
    <3>4. collection'[i - 1] = e
      BY <1>1, <3>1, <3>3
    <3> QED
      BY <3>3, <3>4 DEF Waiting
  <2> QED
    BY <2>1, <2>2
<1>5. \A i, j \in 1..Len(collection') : collection'[i] = collection'[j] => i = j
  <2> SUFFICES ASSUME NEW i \in 1..Len(collection'), NEW j \in 1..Len(collection'),
                      collection'[i] = collection'[j]
               PROVE  i = j
    OBVIOUS
  <2>1. i + 1 \in 1..Len(collection) /\ j + 1 \in 1..Len(collection)
    BY <1>1
  <2>2. collection[i + 1] = collection[j + 1]
    BY <1>1
  <2>3. i + 1 = j + 1
    BY <2>1, <2>2 DEF Once
  <2> QED
    BY <2>3
<1> QED
  BY <1>1, <1>3, <1>4, <1>5

\* An endpoint that is listed joins those that were.
LEMMA TakenIsListed ==
  ASSUME DeviceTypes, Once, NEW e \in Endpoints, ~Listed(e), default_id' = default_id,
         devices' = Append(devices, Entry(e))
  PROVE  /\ devices' \in Seq([id : Endpoints, is_default : BOOLEAN])
         /\ \A d \in Endpoints : Listed(d)' <=> Listed(d) \/ d = e
         /\ (\A i \in 1..Len(devices) : devices[i] = Entry(devices[i].id))'
         /\ \A i, j \in 1..Len(devices') : devices'[i].id = devices'[j].id => i = j
<1>1. Entry(e) \in [id : Endpoints, is_default : BOOLEAN] /\ Entry(e).id = e
  BY DEF Entry
<1>2. /\ Len(devices) \in Nat /\ devices' \in Seq([id : Endpoints, is_default : BOOLEAN])
      /\ Len(devices') = Len(devices) + 1
      /\ \A i \in 1..Len(devices) : devices'[i] = devices[i]
      /\ devices'[Len(devices) + 1] = Entry(e)
  BY <1>1, OneMoreMember DEF DeviceTypes
<1>3. \A d : Entry(d)' = Entry(d)
  BY DEF Entry
<1>4. \A d : Entry(d).id = d
  BY DEF Entry
<1>5. \A i \in 1..Len(devices') : i \in 1..Len(devices) \/ i = Len(devices) + 1
  BY <1>2
<1>6. /\ Len(devices) + 1 \in 1..Len(devices')
      /\ \A i \in 1..Len(devices) : i \in 1..Len(devices')
  BY <1>2
<1>7. \A d \in Endpoints : Listed(d)' <=> Listed(d) \/ d = e
  BY <1>2, <1>3, <1>4, <1>5, <1>6 DEF Listed
<1>8. (\A i \in 1..Len(devices) : devices[i] = Entry(devices[i].id))'
  <2> SUFFICES ASSUME NEW i \in 1..Len(devices') PROVE (devices[i] = Entry(devices[i].id))'
    OBVIOUS
  <2>1. CASE i \in 1..Len(devices)
    <3>1. devices[i] = Entry(devices[i].id)
      BY <2>1 DEF Once
    <3>2. devices'[i] = devices[i]
      BY <1>2, <2>1
    <3> QED
      BY <1>3, <3>1, <3>2
  <2>2. CASE i = Len(devices) + 1
    <3>1. devices'[i] = Entry(e)
      BY <1>2, <2>2
    <3> QED
      BY <1>1, <1>3, <3>1
  <2> QED
    BY <1>5, <2>1, <2>2
<1>9. \A i \in 1..Len(devices) : devices[i].id # e
  BY DEF Once, Listed
<1>10. \A i, j \in 1..Len(devices') : devices'[i].id = devices'[j].id => i = j
  BY <1>1, <1>2, <1>5, <1>9 DEF Once
<1> QED
  BY <1>2, <1>7, <1>8, <1>10

LEMMA VisitKeeps == ASSUME Devices!DevicesAssumption, ListInv, Devices!Visit PROVE ListInv'
<1>1. /\ UNCHANGED <<visit, default_id, answer, snapshot>> /\ visit = "visit"
      /\ collection # <<>> /\ collection' = Tail(collection)
  BY DEF Devices!Visit
<1>2. Listing
  BY <1>1 DEF ListInv, Unlisted
<1> DEFINE e == Head(collection)
<1>3. /\ e \in Endpoints /\ Waiting(e)
      /\ \A d \in Endpoints : Waiting(d)' <=> Waiting(d) /\ d # e
      /\ collection' \in Seq(Endpoints)
      /\ \A i, j \in 1..Len(collection') : collection'[i] = collection'[j] => i = j
  BY <1>1, <1>2, VisitedWaitsNoLonger DEF Listing
<1>4. e # Devices!Empty /\ e \in snapshot /\ ~Listed(e) /\ e \notin unreadable
  BY <1>2, <1>3 DEF Devices!DevicesAssumption, Listing, Sorted
<1>5. \/ devices' = Append(devices, Entry(e)) /\ unreadable' = unreadable
      \/ devices' = devices /\ unreadable' = unreadable \cup {e}
  BY <1>4 DEF Devices!Visit, Devices!Take, Entry
<1> HIDE DEF e
<1>6. CASE devices' = Append(devices, Entry(e)) /\ unreadable' = unreadable
  <2>1. /\ devices' \in Seq([id : Endpoints, is_default : BOOLEAN])
        /\ \A d \in Endpoints : Listed(d)' <=> Listed(d) \/ d = e
        /\ (\A i \in 1..Len(devices) : devices[i] = Entry(devices[i].id))'
        /\ \A i, j \in 1..Len(devices') : devices'[i].id = devices'[j].id => i = j
    BY <1>1, <1>2, <1>3, <1>4, <1>6, TakenIsListed DEF Listing
  <2>2. DeviceTypes' /\ Once'
    <3>1. snapshot \in SUBSET Endpoints /\ unreadable \in SUBSET snapshot
      BY <1>2 DEF Listing, DeviceTypes
    <3>2. DeviceTypes'
      BY <1>1, <1>3, <1>6, <2>1, <3>1 DEF DeviceTypes
    <3> QED
      BY <1>3, <2>1, <3>2 DEF Once
  <2>3. Sorted'
    BY <1>1, <1>2, <1>3, <1>4, <1>6, <2>1 DEF Listing, Sorted
  <2> QED
    BY <1>1, <1>2, <2>2, <2>3 DEF ListInv, Listing
<1>7. CASE devices' = devices /\ unreadable' = unreadable \cup {e}
  <2>1. \A d : Entry(d)' = Entry(d)
    BY <1>1 DEF Entry
  <2>2. \A d : Listed(d)' <=> Listed(d)
    BY <1>7, <2>1 DEF Listed
  <2>3. DeviceTypes' /\ Once'
    BY <1>1, <1>2, <1>3, <1>4, <1>7, <2>1 DEF Listing, DeviceTypes, Once
  <2>4. Sorted'
    BY <1>1, <1>2, <1>3, <1>4, <1>7, <2>2 DEF Listing, Sorted
  <2> QED
    BY <1>1, <1>2, <2>3, <2>4 DEF ListInv, Listing
<1> QED
  BY <1>5, <1>6, <1>7

LEMMA ListKept ==
  Devices!DevicesAssumption /\ ListInv /\ [Devices!Next]_Devices!vars => ListInv'
  BY UnlistedKeeps, TakeCollectionKeeps, VisitKeeps, ReturnKeeps DEF Devices!Next

\* An entry is marked when its endpoint is the default one.
LEMMA MarkOf ==
  ASSUME NEW x, NEW y, y = Entry(x)
  PROVE  y.is_default = (x = default_id)
<1>1. PICK b : b = (x = default_id)
  BY Zenon
<1>2. Entry(x) = [id |-> x, is_default |-> b]
  BY <1>1, Zenon DEF Entry
<1>3. y.is_default = b
  BY <1>2
<1> QED
  BY <1>1, <1>3, Zenon

(* The endpoints that were listed are as many as the list is long.         *)
LEMMA ListIsComplete ==
  ASSUME Devices!DevicesAssumption, Listing, collection = <<>>
  PROVE  /\ {devices[i].id : i \in DOMAIN devices} = snapshot \ unreadable
         /\ Len(devices) = Devices!Cardinality(snapshot \ unreadable)
         /\ \A i \in DOMAIN devices : devices[i].is_default => devices[i].id = answer
<1> DEFINE ids == [i \in 1..Len(devices) |-> devices[i].id]
           readable == snapshot \ unreadable
<1>1. /\ Len(devices) \in Nat /\ DOMAIN devices = 1..Len(devices)
      /\ \A i \in 1..Len(devices) : devices[i].id \in Endpoints
      /\ snapshot \subseteq Endpoints
  <2>1. DeviceTypes
    BY DEF Listing
  <2>2. /\ devices \in Seq([id : Endpoints, is_default : BOOLEAN])
        /\ snapshot \subseteq Endpoints
    BY <2>1 DEF DeviceTypes
  <2>3. /\ Len(devices) \in Nat /\ DOMAIN devices = 1..Len(devices)
        /\ \A i \in 1..Len(devices) : devices[i] \in [id : Endpoints, is_default : BOOLEAN]
    BY <2>2, LenProperties, ElementOfSeq
  <2> QED
    BY <2>2, <2>3
<1>2. \A e \in Endpoints : e \in readable <=> Listed(e)
  BY <1>1 DEF Listing, Sorted, Waiting
<1>3. \A e : Entry(e).id = e
  BY DEF Entry
<1>4. \A e \in Endpoints : Listed(e) <=> \E i \in 1..Len(devices) : devices[i].id = e
  BY <1>3 DEF Listed, Listing, Once
<1>5. {devices[i].id : i \in DOMAIN devices} = readable
  BY <1>1, <1>2, <1>4
<1>6. ids \in Bijection(1..Len(devices), readable)
  <2>1. ids \in [1..Len(devices) -> readable]
    BY <1>1, <1>2, <1>4
  <2>2. \A i, j \in 1..Len(devices) : ids[i] = ids[j] => i = j
    BY DEF Listing, Once
  <2>3. \A e \in readable : \E i \in 1..Len(devices) : ids[i] = e
    BY <1>1, <1>2, <1>4
  <2> QED
    BY <2>1, <2>2, <2>3 DEF Bijection, Injection, IsInjective, Surjection
<1>7. Cardinality(readable) = Len(devices)
  <2>1. IsFiniteSet(1..Len(devices)) /\ Cardinality(1..Len(devices)) = Len(devices)
    BY <1>1, FS_Interval
  <2>2. ExistsBijection(1..Len(devices), readable)
    BY <1>6 DEF ExistsBijection
  <2> QED
    BY <2>1, <2>2, FS_Bijection
<1>8. Devices!Cardinality(readable) = Cardinality(readable)
  BY DEF Devices!Cardinality, Cardinality
<1>9. ASSUME NEW i \in DOMAIN devices, devices[i].is_default PROVE devices[i].id = answer
  <2>1. devices[i] = Entry(devices[i].id) /\ devices[i].id \in Endpoints
    BY <1>1 DEF Listing, Once
  <2>2. devices[i].is_default = (devices[i].id = default_id)
    BY <2>1, MarkOf
  <2>3. devices[i].id = default_id
    BY <1>9, <2>2, Zenon
  <2> QED
    BY <2>1, <2>3 DEF Listing, Devices!DevicesAssumption
<1> QED
  BY <1>5, <1>7, <1>8, <1>9

(* EnumerateAudioRenderDevices returns each endpoint that had an id, once, *)
(* and marks none but the one that was the default when it was asked for:  *)
(* for any endpoints, changes of the default and refusals.                 *)
THEOREM ListIsTrueAlways == PartsSpec => []ListIsTrue
<1> DEFINE Inv == part = "devices" => UsesInv /\ ListInv
<1>1. PartsInit => Inv
  BY DEF PartsInit, Devices!Init, UsesInv, DeviceStages, ListInv, Unlisted
<1>2. Inv /\ [PartsNext]_parts => Inv'
  <2> SUFFICES ASSUME Inv, [PartsNext]_parts PROVE Inv'
    OBVIOUS
  <2>1. part' = part
    BY DEF PartsNext, parts
  <2>2. part = "devices" => [Devices!Next]_Devices!vars
    BY DEF PartsNext, parts, list, Devices!vars
  <2> QED
    BY <2>1, <2>2, UsesKept, ListKept, PartsAssumption
<1>3. Inv => ListIsTrue
  <2> SUFFICES ASSUME UsesInv, ListInv PROVE Devices!ListIsTrue /\ Devices!ComBalanced
    BY DEF ListIsTrue
  <2>1. Devices!ComBalanced
    BY DEF UsesInv, Devices!ComBalanced
  <2>2. visit = "out" /\ devices # <<>> => Listing /\ collection = <<>>
    BY DEF ListInv, Unlisted, Listing
  <2> QED
    BY <2>1, <2>2, ListIsComplete, PartsAssumption DEF Devices!ListIsTrue
<1> QED
  BY <1>1, <1>2, <1>3, PTL DEF PartsSpec
-----------------------------------------------------------------------------
(* ReadFrame in time.  Sound is measured in units so small that a tick is  *)
(* worth In * Out of them and a sample of output Frame * In, both whole;   *)
(* what is under way, pending or owed to the schedule is added up in them. *)
Wait == Pacing!wait_ms
Rate == In * Out
Sample == Frame * In

\* Ticks of sound that have begun at the device and were not pumped.
Underway == (queue + Len(due)) * Period + phase

Sound == Sample * pending - Frame * pos + Rate * (Underway + left)

LEMMA MaxOfTwo ==
  ASSUME NEW a \in Int, NEW b \in Int
  PROVE  Pacing!Max({a, b}) = IF a >= b THEN a ELSE b
  BY DEF Pacing!Max

LEMMA MinOfTwo ==
  ASSUME NEW a \in Int, NEW b \in Int
  PROVE  Pacing!Min({a, b}) = IF a <= b THEN a ELSE b
  BY DEF Pacing!Min

LEMMA Division ==
  ASSUME NEW n \in Nat, NEW d \in Nat \ {0}
  PROVE  n \div d \in Nat /\ (n \div d) * d <= n /\ n < (n \div d) * d + d
  OBVIOUS

LEMMA AtMostTimes ==
  ASSUME NEW k \in Nat, NEW a \in Int, NEW b \in Int, a <= b
  PROVE  k * a <= k * b /\ k * a \in Int /\ k * b \in Int
  OBVIOUS

LEMMA LessFromTimes ==
  ASSUME NEW k \in Nat \ {0}, NEW a \in Int, NEW b \in Int, k * a <= k * b
  PROVE  a <= b
  OBVIOUS

LEMMA PaceConstants ==
  /\ Frame \in Nat \ {0} /\ Period \in Nat \ {0} /\ In \in Nat \ {0} /\ Out \in Nat \ {0}
  /\ Jitter \in Nat /\ Late \in Nat /\ Wait \in Nat \ {0}
  /\ Rate \in Nat \ {0} /\ Sample \in Nat \ {0} /\ Sample * Out = Rate * Frame
  /\ Pacing!Packet \in Nat /\ Frame * Pacing!Packet = Period * In
<1>1. /\ {Frame, Period, In, Out} \subseteq Nat \ {0}
      /\ {Jitter, Late} \subseteq Nat /\ (Period * In) % Frame = 0
  BY PartsAssumption DEF Pacing!PacingAssumption
<1>2. /\ Frame \in Nat \ {0} /\ Period \in Nat \ {0} /\ In \in Nat \ {0}
      /\ Out \in Nat \ {0}
      /\ Jitter \in Nat /\ Late \in Nat
  BY <1>1
<1>3. Wait \in Nat \ {0}
  <2>1. Period \div 2 \in Nat
    BY <1>2
  <2> QED
    BY <2>1, MaxOfTwo DEF Wait, Pacing!wait_ms
<1>4. Rate \in Nat \ {0} /\ Sample \in Nat \ {0} /\ Sample * Out = Rate * Frame
  BY <1>2 DEF Rate, Sample
<1>5. Pacing!Packet \in Nat /\ Frame * Pacing!Packet = Period * In
  <2>1. Period * In \in Nat
    BY <1>2
  <2> QED
    BY <1>1, <1>2, <2>1 DEF Pacing!Packet
<1> QED
  BY <1>2, <1>3, <1>4, <1>5

\* Resampling leaves less than a sample of output behind and loses nothing.
LEMMA PumpKeepsSound ==
  ASSUME source = 0, pos \in 0..In - 1, queue \in Nat, pending \in Nat,
         Pacing!PumpCaptureClient
  PROVE  /\ source' = 0 /\ pos' \in 0..In - 1 /\ queue' = 0 /\ pending' \in Nat
         /\ Sample * pending' - Frame * pos'
              = Sample * pending - Frame * pos + Rate * (queue * Period)
<1> DEFINE src == queue * Pacing!Packet
           g == Pacing!Generated(src)
           at == pos + g * In
<1>1. src \in Nat /\ src * Out \in Nat
  BY PaceConstants
<1>2. /\ pending' = pending + g /\ queue' = 0
      /\ source' = src - Pacing!Min({at \div Out, src})
      /\ pos' = at - Pacing!Min({at \div Out, src}) * Out
  BY PaceConstants, <1>1 DEF Pacing!PumpCaptureClient, Pacing!GeneratePendingOutput
<1>3. g \in Nat /\ src * Out <= at /\ at < src * Out + In
  <2>1. CASE pos >= src * Out
    <3>1. g = 0
      BY <2>1 DEF Pacing!Generated
    <3> QED
      BY PaceConstants, <1>1, <2>1, <3>1
  <2>2. CASE ~(pos >= src * Out)
    <3> DEFINE n == src * Out - pos + In - 1
    <3>1. n \in Nat
      BY PaceConstants, <1>1, <2>2
    <3>2. g = n \div In
      BY <2>2 DEF Pacing!Generated
    <3>3. g \in Nat /\ g * In <= n /\ n < g * In + In
      <4> HIDE DEF n, g
      <4> QED
        BY PaceConstants, <3>1, <3>2, Division
    <3>4. g * In \in Nat
      BY PaceConstants, <3>3
    <3> QED
      BY PaceConstants, <1>1, <3>3, <3>4
  <2> QED
    BY <2>1, <2>2
<1> HIDE DEF g
<1>4. at \in Nat
  BY PaceConstants, <1>3
<1>5. Pacing!Min({at \div Out, src}) = src
  <2> HIDE DEF at, src
  <2>1. /\ at \div Out \in Nat /\ (at \div Out) * Out <= at
        /\ at < (at \div Out) * Out + Out
    BY <1>4, PaceConstants, Division
  <2>2. at \div Out >= src
    <3>1. PICK d \in Nat : d = at \div Out
      BY <2>1
    <3>2. Out * src <= Out * d + Out - 1
      BY PaceConstants, <1>1, <1>3, <1>4, <2>1, <3>1
    <3>3. src < d + 1
      BY PaceConstants, <1>1, <3>1, <3>2
    <3> QED
      BY <1>1, <3>1, <3>3
  <2> QED
    BY <1>1, <2>1, <2>2, MinOfTwo
<1>6. source' = 0 /\ pos' = pos + g * In - src * Out
  <2> HIDE DEF src
  <2> QED
    BY PaceConstants, <1>1, <1>2, <1>3, <1>4, <1>5
<1>7. pos' \in 0..In - 1
  BY PaceConstants, <1>1, <1>3, <1>4, <1>6
<1>8. Frame * (src * Out) = Rate * (queue * Period)
  <2>1. Frame * (src * Out) = (Frame * Pacing!Packet) * (queue * Out)
    BY PaceConstants
  <2>2. (Period * In) * (queue * Out) = Rate * (queue * Period)
    BY PaceConstants DEF Rate
  <2> QED
    BY PaceConstants, <2>1, <2>2
<1>9. Frame * pos' = Frame * pos + Sample * g - Frame * (src * Out)
  <2> HIDE DEF src
  <2> QED
    BY PaceConstants, <1>1, <1>3, <1>6 DEF Sample
<1>10. Sample * pending' = Sample * pending + Sample * g
  BY PaceConstants, <1>2, <1>3
<1>11. /\ Sample * pending \in Int /\ Sample * g \in Int /\ Frame * pos \in Int
       /\ Rate * (queue * Period) \in Int
  BY PaceConstants, <1>3
<1>12. Sample * pending' - Frame * pos'
         = Sample * pending - Frame * pos + Rate * (queue * Period)
  BY <1>8, <1>9, <1>10, <1>11
<1>13. pending' \in Nat
  BY <1>2, <1>3
<1> QED
  BY <1>2, <1>6, <1>7, <1>12, <1>13
MarginTicks == 2 * Frame + Period + Wait + Jitter + Late

PaceTypes ==
  /\ phase \in 0..Period - 1 /\ due \in Seq(Nat) /\ queue \in Nat
  /\ source = 0 /\ pos \in 0..In - 1 /\ pending \in Nat
  /\ left \in Int /\ timer \in 0..Wait /\ late \in 0..Late /\ gap \in Nat
  /\ pc \in {"read", "check", "poll", "pace", "failed"}

\* The packets that are late lie a period apart, and none is too late.
Ages ==
  \A i \in 1..Len(due) : due[i] <= Jitter /\ (Len(due) - i) * Period + phase <= due[i]

\* A thread that sleeps is about to forget its delay.
Delay == IF pc = "poll" /\ timer > 0 THEN 0 ELSE late

Timed ==
  /\ pc # "pace" => left <= 0 /\ left >= -(Frame + Wait + late)
  /\ pc = "poll" => left > -(Frame + Wait - timer + Delay)
  /\ pc = "pace" => left <= Frame /\ left >= -(Wait + late)

\* What gathers at the device while the thread waits or is kept waiting.
Gathered ==
  /\ pc = "check"
       => Underway + left <= Jitter + Period /\ Underway <= Jitter + Period + late
  /\ pc = "poll"
       => pending < Out /\ Underway <= Jitter + Period + Frame + (Wait - timer) + Delay
  /\ pc \in {"read", "failed"} =>
       \/ left >= -(Wait + late)
       \/ pending < Out /\ Underway <= Jitter + Period + Frame + Wait + late

Balanced ==
  /\ Sound <= Rate * (Jitter + Period + Frame)
  /\ Sample * gap <= Sound + Sample + Rate * (Frame + Wait + Late)
  /\ Sample * pending <= Rate * MarginTicks + Sample

PaceInv == PaceTypes /\ Ages /\ Timed /\ Gathered /\ Balanced

LEMMA NextPhase ==
  ASSUME NEW d \in Nat \ {0}, NEW n \in 0..d - 1
  PROVE  (n + 1) % d = IF n + 1 = d THEN 0 ELSE n + 1
  OBVIOUS

\* What is late at most when the endpoint's buffer is empty.
LEMMA LateAtMost ==
  ASSUME PaceTypes, Ages
  PROVE  /\ Len(due) \in Nat /\ Len(due) * Period \in Nat
         /\ Len(due) * Period + phase <= Jitter + Period
<1>1. Len(due) \in Nat /\ Len(due) * Period \in Nat /\ phase \in 0..Period - 1
  BY PaceConstants DEF PaceTypes
<1>2. CASE Len(due) = 0
  BY PaceConstants, <1>1, <1>2
<1>3. CASE Len(due) # 0
  <2>1. due[1] <= Jitter /\ (Len(due) - 1) * Period + phase <= due[1] /\ due[1] \in Nat
    BY <1>1, <1>3, ElementOfSeq DEF Ages, PaceTypes
  <2>2. (Len(due) - 1) * Period = Len(due) * Period - Period
    BY PaceConstants, <1>1
  <2> QED
    BY PaceConstants, <1>1, <2>1, <2>2
<1> QED
  BY <1>1, <1>2, <1>3

\* A tick adds one to the sound under way, or the engine skips a period.
LEMMA TickAdds ==
  ASSUME PaceTypes, Ages, Pacing!Tick
  PROVE  /\ phase' \in 0..Period - 1 /\ due' \in Seq(Nat) /\ Ages'
         /\ \/ Underway' = Underway + 1 /\ gap' = gap
            \/ Underway' = Underway + 1 - Period /\ gap' = 0
<1> DEFINE aged == [i \in DOMAIN due |-> due[i] + 1]
<1>1. /\ phase \in 0..Period - 1 /\ due \in Seq(Nat) /\ Len(due) \in Nat /\ queue \in Nat
      /\ DOMAIN due = 1..Len(due) /\ \A i \in 1..Len(due) : due[i] \in Nat
  BY ElementOfSeq, LenProperties DEF PaceTypes
<1>2. phase' = IF phase + 1 = Period THEN 0 ELSE phase + 1
  BY <1>1, NextPhase, PaceConstants DEF Pacing!Tick
<1>3. /\ aged \in Seq(Nat) /\ Len(aged) = Len(due)
      /\ \A i \in 1..Len(due) : aged[i] = due[i] + 1 /\ aged[i] \in Nat
  BY <1>1, IsASeq
<1>4. \A i \in 1..Len(due) : aged[i] <= Jitter
  <2>1. \A i \in DOMAIN due : due[i] < Jitter
    BY DEF Pacing!Tick
  <2> HIDE DEF aged
  <2> TAKE i \in 1..Len(due)
  <2>2. due[i] < Jitter /\ due[i] \in Nat /\ aged[i] = due[i] + 1
    BY <1>1, <1>3, <2>1
  <2> QED
    BY <2>2, PaceConstants
<1>5. queue' = queue /\ UNCHANGED <<pos, pending>>
  BY DEF Pacing!Tick
<1>6. \/ phase' # 0 /\ due' = aged /\ gap' = gap
      \/ phase' = 0 /\ due' = Append(aged, 0) /\ gap' = gap
      \/ phase' = 0 /\ due' = aged /\ gap' = 0
  BY DEF Pacing!Tick, Pacing!PeriodEnds
<1>7. \A i \in 1..Len(due) : (Len(due) - i) * Period + phase + 1 <= aged[i]
  BY <1>1, <1>3, PaceConstants DEF Ages
<1>8. queue * Period \in Nat /\ Len(due) * Period \in Nat
  BY <1>1, PaceConstants
<1>9. /\ (queue + Len(due)) * Period = queue * Period + Len(due) * Period
      /\ (queue + (Len(due) + 1)) * Period = queue * Period + Len(due) * Period + Period
  BY <1>1, <1>8, PaceConstants
<1> HIDE DEF aged
<1>10. CASE due' = aged
  <2>1. phase' <= phase + 1 /\ phase' \in 0..Period - 1
    BY <1>1, <1>2, PaceConstants
  <2>2. Ages'
    <3> SUFFICES ASSUME NEW i \in 1..Len(due)
                 PROVE  aged[i] <= Jitter /\ (Len(due) - i) * Period + phase' <= aged[i]
      BY <1>3, <1>10 DEF Ages
    <3>1. (Len(due) - i) * Period \in Int /\ aged[i] \in Nat
      BY <1>1, <1>3, PaceConstants
    <3>2. aged[i] <= Jitter /\ (Len(due) - i) * Period + phase + 1 <= aged[i]
      BY <1>4, <1>7
    <3> QED
      BY <1>1, <2>1, <3>1, <3>2
  <2>3. Len(due') = Len(due)
    BY <1>3, <1>10
  <2>4. Underway' = (queue + Len(due)) * Period + phase'
    BY <1>5, <2>3 DEF Underway
  <2>5. \/ phase' = phase + 1 /\ gap' = gap
        \/ phase' = phase + 1 - Period /\ gap' = 0
    <3>1. CASE due' = Append(aged, 0)
      <4>1. Len(due') = Len(aged) + 1
        BY <1>3, <3>1, AppendProperties
      <4> QED
        BY <1>1, <1>3, <2>3, <4>1
    <3> QED
      BY <1>1, <1>2, <1>6, <3>1, PaceConstants
  <2>6. Underway = (queue + Len(due)) * Period + phase
    BY DEF Underway
  <2>7. (queue + Len(due)) * Period \in Nat
    BY <1>8, <1>9
  <2>8. \/ Underway' = Underway + 1 /\ gap' = gap
        \/ Underway' = Underway + 1 - Period /\ gap' = 0
    BY <1>1, <2>4, <2>5, <2>6, <2>7, PaceConstants
  <2> QED
    BY <1>3, <1>10, <2>1, <2>2, <2>8
<1>11. CASE phase' = 0 /\ due' = Append(aged, 0) /\ gap' = gap
  <2>1. phase + 1 = Period
    BY <1>1, <1>2, <1>11, PaceConstants
  <2>2. /\ due' \in Seq(Nat) /\ Len(due') = Len(due) + 1
        /\ \A i \in 1..Len(due) : due'[i] = aged[i]
        /\ due'[Len(due) + 1] = 0
    BY <1>3, <1>11, AppendProperties
  <2>3. Ages'
    <3> SUFFICES ASSUME NEW i \in 1..Len(due) + 1
                 PROVE  due'[i] <= Jitter /\ (Len(due) + 1 - i) * Period + 0 <= due'[i]
      BY <1>11, <2>2 DEF Ages
    <3>1. CASE i \in 1..Len(due)
      <4>1. (Len(due) + 1 - i) * Period = (Len(due) - i) * Period + Period
        BY <1>1, PaceConstants
      <4>2. (Len(due) - i) * Period \in Int /\ aged[i] \in Nat
        BY <1>1, <1>3, <3>1, PaceConstants
      <4>3. aged[i] <= Jitter /\ (Len(due) - i) * Period + phase + 1 <= aged[i]
        BY <1>4, <1>7, <3>1
      <4>4. due'[i] = aged[i]
        BY <2>2, <3>1
      <4> QED
        BY <1>1, <2>1, <4>1, <4>2, <4>3, <4>4, PaceConstants
    <3>2. CASE i = Len(due) + 1
      BY <1>1, <2>2, <3>2, PaceConstants
    <3> QED
      BY <1>1, <3>1, <3>2
  <2>4. Underway' = (queue + (Len(due) + 1)) * Period + 0
    BY <1>5, <1>11, <2>2 DEF Underway
  <2>5. Underway = (queue + Len(due)) * Period + phase
    BY DEF Underway
  <2>6. Underway' = Underway + 1
    BY <1>1, <1>8, <1>9, <2>1, <2>4, <2>5, PaceConstants
  <2> QED
    BY <1>11, <2>2, <2>3, <2>6, PaceConstants
<1> QED
  BY <1>6, <1>10, <1>11

\* A packet that is handed over stays under way.
LEMMA DeliveryKeeps ==
  ASSUME PaceTypes, Ages, Pacing!Deliver
  PROVE  due' \in Seq(Nat) /\ queue' \in Nat /\ Ages' /\ Underway' = Underway
<1>1. /\ due \in Seq(Nat) /\ due # <<>> /\ due' = Tail(due) /\ queue' = queue + 1
      /\ queue \in Nat /\ phase' = phase /\ phase \in 0..Period - 1
  BY DEF Pacing!Deliver, PaceTypes
<1>2. /\ Len(due) \in Nat \ {0} /\ due' \in Seq(Nat) /\ Len(due') = Len(due) - 1
      /\ \A i \in 1..Len(due) - 1 : due'[i] = due[i + 1]
  BY <1>1, HeadAndTail
<1>3. Ages'
  <2> SUFFICES ASSUME NEW i \in 1..Len(due) - 1
               PROVE  due'[i] <= Jitter /\ (Len(due) - 1 - i) * Period + phase <= due'[i]
    BY <1>1, <1>2 DEF Ages
  <2>1. i + 1 \in 1..Len(due) /\ Len(due) - (i + 1) = Len(due) - 1 - i
    BY <1>2
  <2> QED
    BY <1>2, <2>1 DEF Ages
<1>4. queue' + Len(due') = queue + Len(due)
  BY <1>1, <1>2
<1> QED
  BY <1>1, <1>2, <1>3, <1>4 DEF Underway

\* What the steps need of the constants, without the products.
LEMMA PaceNumbers ==
  /\ Frame \in Nat /\ Period \in Nat /\ In \in Nat /\ Out \in Nat /\ Jitter \in Nat
  /\ Late \in Nat /\ Wait \in Nat /\ Rate \in Nat /\ Sample \in Nat
  /\ 1 <= Frame /\ 1 <= Period /\ 1 <= In /\ 1 <= Out /\ 1 <= Wait
  BY PaceConstants

LEMMA NumbersStay ==
  Rate' = Rate /\ Sample' = Sample /\ Wait' = Wait /\ MarginTicks' = MarginTicks
  BY DEF Rate, Sample, Wait, MarginTicks, Pacing!wait_ms

LEMMA OneMoreTick ==
  ASSUME NEW u \in Int, NEW v \in Int, NEW l \in Int, u <= v + 1
  PROVE  v + l \in Int /\ u + (l - 1) \in Int /\ u + (l - 1) <= v + l
  OBVIOUS

LEMMA SoundTypes ==
  ASSUME PaceTypes
  PROVE  /\ Underway \in Nat /\ queue * Period \in Nat /\ queue * Period <= Underway
         /\ Sample * pending \in Nat /\ Sample * gap \in Nat
         /\ Frame * pos \in Nat /\ Frame * pos <= Sample
         /\ Rate * (Underway + left) \in Int /\ Sound \in Int
<1>1. /\ Len(due) \in Nat /\ queue \in Nat /\ phase \in Nat /\ pending \in Nat
      /\ gap \in Nat /\ pos \in 0..In - 1 /\ left \in Int
  BY PaceConstants, LenProperties DEF PaceTypes
<1>2. queue * Period \in Nat /\ Len(due) * Period \in Nat
  BY <1>1, PaceConstants
<1>3. (queue + Len(due)) * Period = queue * Period + Len(due) * Period
  BY <1>1, PaceConstants
<1>4. Underway \in Nat /\ queue * Period <= Underway
  BY <1>1, <1>2, <1>3 DEF Underway
<1>5. Sample * pending \in Nat /\ Sample * gap \in Nat
  BY <1>1, PaceConstants
<1>6. Frame * pos \in Nat /\ Frame * pos <= Sample
  <2>1. pos \in Nat /\ pos <= In /\ Frame \in Nat /\ In \in Nat
    BY <1>1, PaceConstants
  <2> QED
    BY <2>1, AtMostTimes DEF Sample
<1>7. Rate * (Underway + left) \in Int
  BY <1>1, <1>4, PaceConstants
<1> QED
  BY <1>2, <1>4, <1>5, <1>6, <1>7 DEF Sound

\* A frame and a packet of sound are owed at least, and no more than this.
LEMMA SoundAtLeast ==
  ASSUME NEW p \in Nat, NEW x \in 0..In - 1, NEW u \in Nat, NEW l \in Int,
         l >= -(Frame + Wait + Late)
  PROVE  0 <= Sample * p - Frame * x + Rate * (u + l) + Sample
                + Rate * (Frame + Wait + Late)
<1>1. Sample * p \in Nat
  BY PaceConstants
<1>2. Frame * x \in Nat /\ Frame * x <= Sample
  <2>1. x \in Nat /\ x <= In /\ Frame \in Nat /\ In \in Nat
    BY PaceConstants
  <2> QED
    BY <2>1, AtMostTimes DEF Sample
<1>3. /\ Rate * (-(Frame + Wait + Late)) <= Rate * (u + l)
      /\ Rate * (-(Frame + Wait + Late)) \in Int /\ Rate * (u + l) \in Int
  <2>1. /\ -(Frame + Wait + Late) \in Int /\ u + l \in Int
        /\ -(Frame + Wait + Late) <= u + l /\ Rate \in Nat
    BY PaceConstants
  <2> QED
    BY <2>1, AtMostTimes
<1>4. Rate * (-(Frame + Wait + Late)) = -(Rate * (Frame + Wait + Late))
  BY PaceConstants
<1>5. Rate * (Frame + Wait + Late) \in Nat
  BY PaceConstants
<1> QED
  BY <1>1, <1>2, <1>3, <1>4, <1>5, PaceConstants

LEMMA PaceBegins == Pacing!Init => PaceInv
<1> SUFFICES ASSUME Pacing!Init PROVE PaceInv
  OBVIOUS
<1>1. /\ phase = 0 /\ due = <<>> /\ queue = 0 /\ source = 0 /\ pos = 0 /\ pending = 0
      /\ left = 0 /\ pc = "read" /\ timer = 0 /\ late = 0 /\ gap = 0
  BY DEF Pacing!Init
<1>2. PaceTypes
  BY <1>1, PaceConstants, EmptySeq DEF PaceTypes
<1>3. Len(due) = 0
  BY <1>1, EmptySeq
<1>4. Underway = 0
  BY <1>1, <1>3, PaceConstants DEF Underway
<1>5. Sound = 0
  BY <1>1, <1>4, PaceConstants DEF Sound
<1>6. Ages /\ Timed /\ Gathered
  BY <1>1, <1>3, PaceConstants DEF Ages, Timed, Gathered
<1>7. /\ Rate * (Jitter + Period + Frame) \in Nat /\ Rate * (Frame + Wait + Late) \in Nat
      /\ Rate * MarginTicks \in Nat
  BY PaceConstants DEF MarginTicks
<1>8. Balanced
  BY <1>1, <1>5, <1>7, PaceConstants DEF Balanced
<1> QED
  BY <1>2, <1>6, <1>8 DEF PaceInv

LEMMA TickKeeps == ASSUME PaceInv, Pacing!Tick PROVE PaceInv'
<1>1. PaceTypes /\ Ages /\ Timed /\ Gathered /\ Balanced
  BY DEF PaceInv
<1>2. /\ UNCHANGED <<queue, source, pos, pending, pc>> /\ left' = left - 1
      /\ pc # "failed" /\ late' <= Late
  BY DEF Pacing!Tick
<1>3. /\ phase' \in 0..Period - 1 /\ due' \in Seq(Nat) /\ Ages'
      /\ \/ Underway' = Underway + 1 /\ gap' = gap
         \/ Underway' = Underway + 1 - Period /\ gap' = 0
  BY <1>1, TickAdds
<1>4. timer' = IF timer = 0 THEN 0 ELSE timer - 1
  <2>1. timer \in Nat
    BY <1>1, PaceConstants DEF PaceTypes
  <2>2. timer' = Pacing!Max({timer - 1, 0})
    BY DEF Pacing!Tick
  <2> QED
    BY <2>1, <2>2, MaxOfTwo
<1>5. /\ pc \in {"read", "check"} => late' = late + 1
      /\ pc = "poll" => late' = IF timer = 0 THEN late + 1 ELSE 0
      /\ pc = "pace" => late' = IF left > 0 THEN 0 ELSE late + 1
  <2>1. timer > 0 <=> timer # 0
    BY <1>1, PaceConstants DEF PaceTypes
  <2> QED
    BY <2>1 DEF Pacing!Tick, Pacing!Runnable, Pacing!Sleeps
<1>6. PaceTypes'
  BY <1>1, <1>2, <1>3, <1>4, <1>5, PaceNumbers, NumbersStay DEF PaceTypes
<1>7. PICK u \in Int : u = Underway' /\ Underway \in Nat /\ u <= Underway + 1
                     /\ (u = Underway + 1 \/ gap' = 0)
  <2>1. Underway \in Nat
    BY <1>1, SoundTypes
  <2>2. Underway + 1 \in Int /\ Underway + 1 - Period \in Int /\ Period \in Nat
    BY <2>1, PaceNumbers
  <2>3. CASE Underway' = Underway + 1
    BY <2>1, <2>2, <2>3
  <2>4. CASE Underway' = Underway + 1 - Period /\ gap' = 0
    <3>1. Underway + 1 - Period <= Underway + 1
      BY <2>1, <2>2
    <3> QED
      BY <2>1, <2>2, <2>4, <3>1
  <2> QED
    BY <1>3, <2>3, <2>4
<1>8. Underway \in Nat /\ u <= Underway + 1
  BY <1>7
<1>9. Timed'
  <2>1. /\ pc # "pace" => left <= 0 /\ left >= -(Frame + Wait + late)
        /\ pc = "pace" => left <= Frame /\ left >= -(Wait + late)
    BY <1>1 DEF Timed
  <2>2. /\ left \in Int /\ timer \in 0..Wait /\ timer \in Nat /\ late \in Nat
        /\ pc \in {"read", "check", "poll", "pace", "failed"}
    BY <1>1, PaceNumbers DEF PaceTypes
  <2>3. CASE pc = "poll"
    <3>1. left > -(Frame + Wait - timer + IF timer > 0 THEN 0 ELSE late) /\ left <= 0
      BY <1>1, <2>3 DEF Timed, Delay
    <3>2. CASE timer = 0
      <4>1. left - 1 > -(Frame + Wait - 0 + (late + 1)) /\ left - 1 <= 0
        BY <2>2, <3>1, <3>2, PaceNumbers
      <4>2. timer' = 0 /\ late' = late + 1 /\ left' = left - 1 /\ pc' = "poll"
        BY <1>2, <1>4, <1>5, <2>3, <3>2
      <4>3. left - 1 >= -(Frame + Wait + (late + 1))
        BY <2>2, <4>1, PaceNumbers
      <4> QED
        BY <4>1, <4>2, <4>3, NumbersStay DEF Timed, Delay
    <3>3. CASE timer # 0
      <4>1. /\ timer' = timer - 1 /\ late' = 0 /\ left' = left - 1 /\ pc' = "poll"
            /\ Delay' = 0
        BY <1>2, <1>4, <1>5, <2>3, <3>3 DEF Delay
      <4>2. left > -(Frame + Wait - timer + 0)
        BY <2>2, <3>1, <3>3
      <4>3. /\ left - 1 > -(Frame + Wait - (timer - 1) + 0) /\ left - 1 <= 0
            /\ left - 1 >= -(Frame + Wait + 0)
        BY <2>2, <3>1, <3>3, <4>2, PaceNumbers
      <4> QED
        BY <4>1, <4>3, NumbersStay DEF Timed
    <3> QED
      BY <3>2, <3>3
  <2> QED
    BY <1>2, <1>4, <1>5, <2>1, <2>2, <2>3, PaceNumbers, NumbersStay DEF Timed
<1>10. Gathered'
  <2>1. left \in Int /\ timer \in Nat /\ late \in Nat /\ pending \in Nat
    BY <1>1, PaceNumbers DEF PaceTypes
  <2>2. CASE pc = "check"
    <3>1. Underway + left <= Jitter + Period /\ Underway <= Jitter + Period + late
      BY <1>1, <2>2 DEF Gathered
    <3>2. /\ u + (left - 1) \in Int /\ Underway + left \in Int
          /\ u + (left - 1) <= Underway + left
      BY <1>8, <2>1, OneMoreTick
    <3>3. u + (left - 1) <= Jitter + Period
      BY <3>1, <3>2, PaceNumbers
    <3>4. u <= Jitter + Period + (late + 1)
      BY <1>8, <2>1, <3>1, PaceNumbers
    <3> QED
      BY <1>2, <1>5, <1>7, <2>2, <3>3, <3>4 DEF Gathered
  <2>3. CASE pc = "poll"
    <3>1. /\ pending < Out
          /\ Underway <= Jitter + Period + Frame + (Wait - timer)
                           + IF timer > 0 THEN 0 ELSE late
      BY <1>1, <2>3 DEF Gathered, Delay
    <3>2. /\ timer = 0 => u <= Jitter + Period + Frame + (Wait - 0) + (late + 1)
          /\ timer # 0 => u <= Jitter + Period + Frame + (Wait - (timer - 1)) + 0
      BY <1>8, <2>1, <3>1, PaceNumbers
    <3>3. /\ timer = 0 => timer' = 0 /\ Delay' = late + 1
          /\ timer # 0 => timer' = timer - 1 /\ Delay' = 0
      BY <1>2, <1>4, <1>5, <2>3 DEF Delay
    <3> QED
      BY <1>2, <1>7, <2>3, <3>1, <3>2, <3>3, NumbersStay DEF Gathered
  <2>4. CASE pc = "read"
    <3>1. \/ left >= -(Wait + late)
          \/ pending < Out /\ Underway <= Jitter + Period + Frame + Wait + late
      BY <1>1, <2>4 DEF Gathered
    <3>2. \/ left - 1 >= -(Wait + (late + 1))
          \/ pending < Out /\ u <= Jitter + Period + Frame + Wait + (late + 1)
      BY <1>8, <2>1, <3>1, PaceNumbers
    <3> QED
      BY <1>2, <1>5, <1>7, <2>4, <3>2, NumbersStay DEF Gathered
  <2>5. CASE pc = "pace"
    BY <1>2, <2>5 DEF Gathered
  <2> QED
    BY <1>1, <1>2, <2>2, <2>3, <2>4, <2>5 DEF PaceTypes
<1>11. u \in Nat
  <2>1. Len(due') \in Nat /\ queue' \in Nat /\ phase' \in Nat
    BY <1>3, <1>6, PaceNumbers, LenProperties DEF PaceTypes
  <2>2. \A a, b, c \in Nat : (a + b) * Period + c \in Nat
    BY PaceNumbers
  <2> QED
    BY <1>7, <2>1, <2>2 DEF Underway
<1>12. /\ Sound' = Sample * pending - Frame * pos + Rate * (u + (left - 1))
       /\ Sound = Sample * pending - Frame * pos + Rate * (Underway + left)
  BY <1>2, <1>7, NumbersStay DEF Sound
<1>13. /\ Rate * (u + (left - 1)) <= Rate * (Underway + left)
       /\ Rate * (u + (left - 1)) \in Int
  <2>1. /\ Underway + left \in Int /\ u + (left - 1) \in Int
        /\ u + (left - 1) <= Underway + left /\ Rate \in Nat
    <3>1. left \in Int
      BY <1>1 DEF PaceTypes
    <3> QED
      BY <1>8, <3>1, OneMoreTick, PaceNumbers
  <2> QED
    BY <2>1, AtMostTimes
<1>14. Sound' <= Sound
  BY <1>1, <1>12, <1>13, SoundTypes
<1>15. Sample * gap' <= Sound' + Sample + Rate * (Frame + Wait + Late)
  <2>1. CASE u = Underway + 1 /\ gap' = gap
    <3>1. left \in Int
      BY <1>1 DEF PaceTypes
    <3>2. u + (left - 1) = Underway + left
      BY <1>7, <2>1, <3>1
    <3> QED
      BY <1>1, <1>12, <2>1, <3>2 DEF Balanced
  <2>2. CASE gap' = 0
    <3>1. PICK l \in Int, d \in 0..Late, t \in 0..Wait :
            l = left - 1 /\ l = left' /\ d = late' /\ t = timer'
      BY <1>2, <1>6, NumbersStay DEF PaceTypes
    <3>2. l >= -(Frame + Wait + d) \/ l >= -(Wait + d)
      BY <1>9, <3>1, NumbersStay DEF Timed
    <3>3. l >= -(Frame + Wait + Late)
      BY <3>2, PaceNumbers
    <3>4. 0 <= Sample * pending - Frame * pos + Rate * (u + l) + Sample
                 + Rate * (Frame + Wait + Late)
      BY <1>1, <1>11, <3>3, SoundAtLeast DEF PaceTypes
    <3>5. Sample * 0 = 0
      BY PaceNumbers
    <3> QED
      BY <1>12, <2>2, <3>1, <3>4, <3>5
  <2> QED
    BY <1>3, <1>7, <2>1, <2>2
<1>16. Balanced'
  <2>1. Rate * (Jitter + Period + Frame) \in Int /\ Sound \in Int /\ Sound' \in Int
    BY <1>1, <1>12, <1>13, SoundTypes, PaceConstants
  <2>2. Sound' <= Rate * (Jitter + Period + Frame)
    BY <1>1, <1>14, <2>1 DEF Balanced
  <2> QED
    BY <1>1, <1>2, <1>15, <2>2, NumbersStay DEF Balanced
<1> QED
  BY <1>3, <1>6, <1>9, <1>10, <1>16 DEF PaceInv

LEMMA FrameOfSound ==
  ASSUME NEW p \in Int, NEW k \in Int
  PROVE  /\ Sample * (p - Out) = Sample * p - Rate * Frame
         /\ Rate * (k + Frame) = Rate * k + Rate * Frame
         /\ Rate * k \in Int /\ Rate * Frame \in Int /\ Sample * p \in Int
  BY PaceConstants

LEMMA WhereSoundIs ==
  ASSUME PaceTypes, UNCHANGED <<phase, due, queue>>
  PROVE  Underway' = Underway
  BY DEF Underway

\* A frame of sound leaves: the schedule moves on as the sound that is pending
\* does.
LEMMA FrameLeaves ==
  ASSUME PaceInv, pc \in {"read", "check"}, pending >= Out, Pacing!Emit(pending),
         UNCHANGED <<phase, due, queue, source, pos, timer, late>>
  PROVE  PaceInv'
<1>1. PaceTypes /\ Ages /\ Timed /\ Gathered /\ Balanced
  BY DEF PaceInv
<1>2. left \in Int /\ pending \in Nat /\ gap \in Nat /\ late \in Nat
  BY <1>1, PaceNumbers DEF PaceTypes
<1>3. /\ pending' = pending - Out /\ gap' = gap /\ pc' = "pace" /\ left' = left + Frame
  <2>1. Pacing!Max({pending, Out}) = pending
    BY <1>2, PaceNumbers, MaxOfTwo
  <2>2. gap' = gap + pending - pending
    BY <2>1 DEF Pacing!Emit
  <2> QED
    BY <1>2, <2>1, <2>2 DEF Pacing!Emit, Pacing!Paces
<1>4. PaceTypes'
  <2>1. pending - Out \in Nat /\ left + Frame \in Int
    BY <1>2, PaceNumbers
  <2> QED
    BY <1>1, <1>3, <2>1, NumbersStay DEF PaceTypes
<1>5. Ages'
  BY <1>1 DEF Ages
<1>6. Timed' /\ Gathered'
  <2>1. left <= 0 /\ left >= -(Frame + Wait + late)
    BY <1>1 DEF Timed
  <2>2. left + Frame <= Frame /\ left + Frame >= -(Wait + late)
    BY <1>2, <2>1, PaceNumbers
  <2> QED
    BY <1>3, <2>2, NumbersStay DEF Timed, Gathered
<1>7. Underway' = Underway /\ Underway \in Nat
  BY <1>1, WhereSoundIs, SoundTypes
<1>8. /\ Sound' =
             Sample * (pending - Out) - Frame * pos + Rate * (Underway + (left + Frame))
      /\ Sound = Sample * pending - Frame * pos + Rate * (Underway + left)
  BY <1>3, <1>7, NumbersStay DEF Sound
<1>9. /\ Underway + (left + Frame) = (Underway + left) + Frame /\ Underway + left \in Int
  BY <1>2, <1>7, PaceNumbers
<1>10. /\ Sample * (pending - Out) = Sample * pending - Rate * Frame
       /\ Rate * ((Underway + left) + Frame) = Rate * (Underway + left) + Rate * Frame
       /\ Rate * (Underway + left) \in Int /\ Rate * Frame \in Int
       /\ Sample * pending \in Int
  BY <1>2, <1>9, FrameOfSound
<1>11. Frame * pos \in Int
  BY <1>1, SoundTypes
<1>12. Sound' = Sound
  BY <1>8, <1>9, <1>10, <1>11
<1>13. Sample * (pending - Out) <= Sample * pending
  <2>1. Sample \in Nat /\ pending - Out \in Int /\ pending - Out <= pending
    BY <1>2, PaceNumbers
  <2> QED
    BY <1>2, <2>1, AtMostTimes
<1>14. Sample * (pending - Out) <= Rate * MarginTicks + Sample
  <2>1. Sample * pending <= Rate * MarginTicks + Sample
    BY <1>1 DEF Balanced
  <2>2. Sample * (pending - Out) \in Int
    BY <1>10
  <2>3. Rate * MarginTicks + Sample \in Int
    BY PaceNumbers DEF MarginTicks
  <2> QED
    BY <1>10, <1>13, <2>1, <2>2, <2>3
<1>15. Balanced'
  BY <1>1, <1>3, <1>12, <1>14, NumbersStay DEF Balanced
<1> QED
  BY <1>4, <1>5, <1>6, <1>15 DEF PaceInv

\* A frame is filled up: what was pending is spent, and what gathered since
\* the client was pumped is all that is left.
LEMMA SilenceFills ==
  ASSUME PaceInv, pc = "check", pending < Out, left <= -Frame, Pacing!Emit(pending),
         UNCHANGED <<phase, due, queue, source, pos, timer, late>>
  PROVE  PaceInv'
<1>1. PaceTypes /\ Ages /\ Timed /\ Gathered /\ Balanced
  BY DEF PaceInv
<1>2. left \in Int /\ pending \in Nat /\ gap \in Nat /\ late \in Nat
  BY <1>1, PaceNumbers DEF PaceTypes
<1>3. pending' = 0 /\ gap' = gap - (pending - Out) /\ pc' = "pace" /\ left' = left + Frame
  <2>1. Pacing!Max({pending, Out}) = Out
    BY <1>2, PaceNumbers, MaxOfTwo
  <2>2. gap' = gap + Out - pending /\ pending' = Out - Out
    BY <2>1 DEF Pacing!Emit
  <2> QED
    BY <1>2, <2>2, PaceNumbers DEF Pacing!Emit, Pacing!Paces
<1>4. PaceTypes'
  <2>1. gap - (pending - Out) \in Nat /\ left + Frame \in Int
    BY <1>2, PaceNumbers
  <2> QED
    BY <1>1, <1>3, <2>1, NumbersStay DEF PaceTypes
<1>5. Ages'
  BY <1>1 DEF Ages
<1>6. Timed' /\ Gathered'
  <2>1. left <= 0 /\ left >= -(Frame + Wait + late)
    BY <1>1 DEF Timed
  <2>2. left + Frame <= Frame /\ left + Frame >= -(Wait + late)
    BY <1>2, <2>1, PaceNumbers
  <2> QED
    BY <1>3, <2>2, NumbersStay DEF Timed, Gathered
<1>7. Underway' = Underway /\ Underway \in Nat
  BY <1>1, WhereSoundIs, SoundTypes
<1>8. /\ Sound' = Sample * 0 - Frame * pos + Rate * (Underway + (left + Frame))
      /\ Sound = Sample * pending - Frame * pos + Rate * (Underway + left)
  BY <1>3, <1>7, NumbersStay DEF Sound
<1>9. /\ Underway + (left + Frame) = (Underway + left) + Frame /\ Underway + left \in Int
  BY <1>2, <1>7, PaceNumbers
<1>10. /\ Sample * (pending - Out) = Sample * pending - Rate * Frame
       /\ Rate * ((Underway + left) + Frame) = Rate * (Underway + left) + Rate * Frame
       /\ Rate * (Underway + left) \in Int /\ Rate * Frame \in Int
       /\ Sample * pending \in Int
  BY <1>2, <1>9, FrameOfSound
<1>11. Frame * pos \in Nat /\ Sample * 0 = 0 /\ Sample \in Nat
  BY <1>1, SoundTypes, PaceNumbers
<1>12. Sound' = Sound - Sample * (pending - Out)
  BY <1>8, <1>9, <1>10, <1>11
<1>13. Sound' <= Rate * (Jitter + Period + Frame)
  <2>1. Underway + left <= Jitter + Period
    BY <1>1 DEF Gathered
  <2>2. /\ (Underway + left) + Frame <= Jitter + Period + Frame
        /\ (Underway + left) + Frame \in Int /\ Jitter + Period + Frame \in Int
        /\ Rate \in Nat
    BY <1>9, <2>1, PaceNumbers
  <2>3. /\ Rate * ((Underway + left) + Frame) <= Rate * (Jitter + Period + Frame)
        /\ Rate * ((Underway + left) + Frame) \in Int
        /\ Rate * (Jitter + Period + Frame) \in Int
    BY <2>2, AtMostTimes
  <2> QED
    BY <1>8, <1>9, <1>11, <2>3
<1>14. Sample * gap' <= Sound' + Sample + Rate * (Frame + Wait + Late)
  <2>1. Sample * gap <= Sound + Sample + Rate * (Frame + Wait + Late)
    BY <1>1 DEF Balanced
  <2>2. /\ Sample * (gap - (pending - Out)) = Sample * gap - Sample * (pending - Out)
        /\ Sample * gap \in Int /\ Sample * (pending - Out) \in Int
    BY <1>2, PaceNumbers
  <2>3. Rate * (Frame + Wait + Late) \in Int /\ Sound \in Int
    BY <1>1, SoundTypes, PaceNumbers
  <2> QED
    BY <1>3, <1>11, <1>12, <2>1, <2>2, <2>3
<1>15. Sample * 0 <= Rate * MarginTicks + Sample
  <2>1. MarginTicks \in Nat
    BY PaceNumbers DEF MarginTicks
  <2>2. Rate * MarginTicks \in Nat
    BY <2>1, PaceNumbers
  <2> QED
    BY <1>11, <2>2
<1>16. Balanced'
  BY <1>3, <1>13, <1>14, <1>15, NumbersStay DEF Balanced
<1> QED
  BY <1>4, <1>5, <1>6, <1>16 DEF PaceInv

\* What a pump adds is bounded by what gathered, or by what is owed.
LEMMA PumpKeeps ==
  ASSUME PaceInv, pc = "read", pending < Out, Pacing!PumpCaptureClient, pc' = "check",
         UNCHANGED <<phase, due, left, timer, late, gap>>
  PROVE  PaceInv'
<1>1. PaceTypes /\ Ages /\ Timed /\ Gathered /\ Balanced
  BY DEF PaceInv
<1>2. /\ left \in Int /\ pending \in Nat /\ gap \in Nat /\ late \in 0..Late /\ queue \in Nat
      /\ source = 0 /\ pos \in 0..In - 1 /\ phase \in Nat /\ Len(due) \in Nat
  BY <1>1, PaceNumbers, LenProperties DEF PaceTypes
<1>3. /\ source' = 0 /\ pos' \in 0..In - 1 /\ queue' = 0 /\ pending' \in Nat
      /\ Sample * pending' - Frame * pos'
           = Sample * pending - Frame * pos + Rate * (queue * Period)
  BY <1>2, PumpKeepsSound
<1>4. PICK p \in Nat, x \in 0..In - 1, u \in Nat :
        /\ p = pending' /\ x = pos' /\ u = Underway'
        /\ u = Len(due) * Period + phase
  <2>1. Underway' = (0 + Len(due)) * Period + phase
    BY <1>3 DEF Underway
  <2>2. (0 + Len(due)) * Period = Len(due) * Period /\ Len(due) * Period \in Nat
    BY <1>2, PaceNumbers
  <2>3. Len(due) * Period + phase \in Nat
    BY <1>2, <2>2
  <2>4. Underway' = Len(due) * Period + phase
    BY <2>1, <2>2
  <2> QED
    BY <1>3, <2>3, <2>4
<1>5. Sample * p - Frame * x = Sample * pending - Frame * pos + Rate * (queue * Period)
  BY <1>3, <1>4
<1>6. PaceTypes'
  BY <1>1, <1>3, NumbersStay DEF PaceTypes
<1>7. Ages'
  BY <1>1 DEF Ages
<1>8. u <= Jitter + Period
  BY <1>1, <1>4, LateAtMost
<1>9. Underway = u + queue * Period /\ queue * Period \in Nat
  BY <1>2, <1>4, PaceNumbers DEF Underway
<1>10. left <= 0
  BY <1>1 DEF Timed
<1>11. Timed' /\ Gathered'
  <2>1. u + left <= Jitter + Period /\ u <= Jitter + Period + late
    BY <1>2, <1>8, <1>10, PaceNumbers
  <2> QED
    BY <1>1, <1>4, <2>1, NumbersStay DEF Timed, Gathered
<1>12. /\ Rate * (Underway + left) = Rate * (u + left) + Rate * (queue * Period)
       /\ Rate * (u + left) \in Int /\ Rate * (queue * Period) \in Int
       /\ Rate * (Underway + left) \in Int
  <2>1. PICK a \in Int, b \in Int : a = u + left /\ b = queue * Period
    BY <1>2, <1>9
  <2>2. Underway + left = a + b
    <3>1. \A k, m, n \in Int : (k + m) + n = (k + n) + m
      OBVIOUS
    <3> QED
      BY <1>2, <1>9, <2>1, <3>1
  <2>3. /\ Rate * (a + b) = Rate * a + Rate * b
        /\ Rate * a \in Int /\ Rate * b \in Int /\ Rate * (a + b) \in Int
    BY PaceNumbers
  <2> QED
    BY <2>1, <2>2, <2>3
<1>13. /\ Sample * pending \in Nat /\ Frame * pos \in Nat
       /\ Sample * p \in Nat /\ Frame * x \in Nat /\ Frame * x <= Sample /\ Sample \in Nat
  <2>1. x <= In /\ x \in Nat /\ In \in Nat /\ Frame \in Nat
    BY PaceNumbers
  <2>2. Frame * x <= Frame * In
    BY <2>1, AtMostTimes
  <2>3. Sample * p \in Nat /\ Frame * x \in Nat
    BY <2>1, PaceNumbers
  <2> QED
    BY <1>1, <2>2, <2>3, SoundTypes, PaceNumbers DEF Sample
<1>14. /\ Sound' = Sample * p - Frame * x + Rate * (u + left)
       /\ Sound = Sample * pending - Frame * pos + Rate * (Underway + left)
  BY <1>4, NumbersStay DEF Sound
<1>15. Sound' = Sound
  BY <1>5, <1>12, <1>13, <1>14
<1>16. Sample * p <= Rate * MarginTicks + Sample
  <2>1. MarginTicks = 2 * Frame + Period + Wait + Jitter + Late /\ MarginTicks \in Nat
    BY PaceNumbers DEF MarginTicks
  <2>2. CASE left >= -(Wait + late)
    <3>1. /\ Jitter + Period + Frame \in Int /\ -(Wait + Late) \in Int
          /\ u + left \in Int /\ -(Wait + Late) <= u + left /\ Rate \in Nat
      BY <1>2, <2>2, PaceNumbers
    <3>2. Rate * (-(Wait + Late)) <= Rate * (u + left) /\ Rate * (-(Wait + Late)) \in Int
      BY <3>1, AtMostTimes
    <3>3. /\ Rate * (Jitter + Period + Frame) - Rate * (-(Wait + Late))
               <= Rate * MarginTicks
          /\ Rate * (Jitter + Period + Frame) \in Int /\ Rate * MarginTicks \in Int
      <4>1. PICK a \in Int, b \in Int : a = Jitter + Period + Frame /\ b = -(Wait + Late)
        BY <3>1
      <4>2. MarginTicks = a - b + Frame
        BY <2>1, <4>1, PaceNumbers
      <4>3. /\ Rate * (a - b + Frame) = Rate * a - Rate * b + Rate * Frame
            /\ Rate * a \in Int /\ Rate * b \in Int /\ Rate * Frame \in Nat
            /\ Rate * (a - b + Frame) \in Int
        BY PaceNumbers
      <4> QED
        BY <4>1, <4>2, <4>3
    <3>4. Sample * p - Frame * x + Rate * (u + left) <= Rate * (Jitter + Period + Frame)
      BY <1>1, <1>14, <1>15 DEF Balanced
    <3> QED
      BY <1>12, <1>13, <3>2, <3>3, <3>4
  <2>3. CASE Underway <= Jitter + Period + Frame + Wait + late
    <3>1. Sample * pending <= Rate * Frame - Sample /\ Rate * Frame \in Int
      <4>1. pending <= Out - 1 /\ pending \in Int /\ Out - 1 \in Int /\ Sample \in Nat
        BY <1>2, PaceNumbers
      <4>2. Sample * pending <= Sample * (Out - 1)
        BY <4>1, AtMostTimes
      <4>3. Sample * (Out - 1) = Sample * Out - Sample
        BY PaceNumbers
      <4> QED
        BY <4>2, <4>3, PaceConstants
    <3>2. Rate * (queue * Period) <= Rate * (MarginTicks - Frame)
      <4>1. /\ queue * Period <= MarginTicks - Frame /\ queue * Period \in Int
            /\ MarginTicks - Frame \in Int /\ Rate \in Nat
        BY <1>2, <1>9, <2>1, <2>3, PaceNumbers
      <4> QED
        BY <4>1, AtMostTimes
    <3>3. /\ Rate * (MarginTicks - Frame) = Rate * MarginTicks - Rate * Frame
          /\ Rate * MarginTicks \in Int
      BY <2>1, PaceNumbers
    <3> QED
      BY <1>5, <1>12, <1>13, <3>1, <3>2, <3>3
  <2> QED
    BY <1>1, <2>2, <2>3 DEF Gathered
<1>17. Balanced'
  BY <1>1, <1>4, <1>15, <1>16, NumbersStay DEF Balanced
<1> QED
  BY <1>6, <1>7, <1>11, <1>17 DEF PaceInv

\* The thread goes on, or ReadFrame fails, or a packet is handed over.
LEMMA MovesKeep ==
  ASSUME PaceInv, UNCHANGED <<phase, source, pos, pending, left, late, gap>>,
         \/ /\ UNCHANGED <<due, queue>>
            /\ \/ pc = "read" /\ pc' = "failed" /\ timer' = timer
               \/ pc = "check" /\ pc' = "poll" /\ timer' = Wait /\ pending < Out
                    /\ left > -Frame
               \/ pc = "poll" /\ pc' = "read" /\ timer' = timer /\ ~(timer > 0)
               \/ pc = "pace" /\ pc' = "read" /\ timer' = timer /\ ~(left > 0)
               \/ pc' = pc /\ timer' = timer
         \/ Pacing!Deliver
  PROVE  PaceInv'
<1>1. PaceTypes /\ Ages /\ Timed /\ Gathered /\ Balanced
  BY DEF PaceInv
<1>2. /\ left \in Int /\ late \in 0..Late /\ timer \in 0..Wait /\ Underway \in Nat
      /\ pending \in Nat
  BY <1>1, SoundTypes DEF PaceTypes
<1>3. Underway' = Underway /\ Ages' /\ due' \in Seq(Nat) /\ queue' \in Nat
  <2>1. CASE UNCHANGED <<due, queue>>
    BY <1>1, <2>1, WhereSoundIs DEF Ages, PaceTypes
  <2> QED
    BY <1>1, <2>1, DeliveryKeeps
<1>4. Balanced'
  <2>1. Sound' = Sound
    BY <1>3, NumbersStay DEF Sound
  <2> QED
    BY <1>1, <2>1, NumbersStay DEF Balanced
<1>5. CASE pc' = pc /\ timer' = timer
  BY <1>1, <1>3, <1>4, <1>5, NumbersStay DEF PaceInv, PaceTypes, Timed, Gathered, Delay
<1>6. CASE pc = "read" /\ pc' = "failed" /\ timer' = timer
  BY <1>1, <1>3, <1>4, <1>6, NumbersStay DEF PaceInv, PaceTypes, Timed, Gathered, Delay
<1>7. CASE pc = "check" /\ pc' = "poll" /\ timer' = Wait /\ pending < Out /\ left > -Frame
  <2>1. /\ left <= 0 /\ left >= -(Frame + Wait + late)
        /\ Underway + left <= Jitter + Period
    BY <1>1, <1>7 DEF Timed, Gathered
  <2>2. /\ left > -(Frame + Wait - Wait + 0) /\ Wait \in 0..Wait /\ Wait > 0
        /\ Underway <= Jitter + Period + Frame + (Wait - Wait) + 0
    BY <1>2, <1>7, <2>1, PaceNumbers
  <2>3. PaceTypes'
    BY <1>1, <1>3, <1>7, <2>2, NumbersStay DEF PaceTypes
  <2>4. Timed' /\ Gathered'
    <3>1. Delay' = 0
      BY <1>7, <2>2 DEF Delay
    <3> QED
      BY <1>3, <1>7, <2>1, <2>2, <3>1, NumbersStay DEF Timed, Gathered
  <2> QED
    BY <1>3, <1>4, <2>3, <2>4 DEF PaceInv
<1>8. CASE pc = "poll" /\ pc' = "read" /\ timer' = timer /\ ~(timer > 0)
  <2>1. timer = 0
    BY <1>2, <1>8, PaceNumbers
  <2>2. /\ left <= 0 /\ left > -(Frame + Wait - timer + late) /\ pending < Out
        /\ Underway <= Jitter + Period + Frame + (Wait - timer) + late
    BY <1>1, <1>8 DEF Timed, Gathered, Delay
  <2>3. left >= -(Frame + Wait + late) /\ Underway <= Jitter + Period + Frame + Wait + late
    BY <1>2, <2>1, <2>2, PaceNumbers
  <2>4. PaceTypes'
    BY <1>1, <1>3, <1>8, NumbersStay DEF PaceTypes
  <2>5. Timed' /\ Gathered'
    BY <1>3, <1>8, <2>2, <2>3, NumbersStay DEF Timed, Gathered
  <2> QED
    BY <1>3, <1>4, <2>4, <2>5 DEF PaceInv
<1>9. CASE pc = "pace" /\ pc' = "read" /\ timer' = timer /\ ~(left > 0)
  <2>1. left >= -(Wait + late)
    BY <1>1, <1>9 DEF Timed
  <2>2. left <= 0 /\ left >= -(Frame + Wait + late)
    BY <1>2, <1>9, <2>1, PaceNumbers
  <2>3. PaceTypes'
    BY <1>1, <1>3, <1>9, NumbersStay DEF PaceTypes
  <2>4. Timed' /\ Gathered'
    BY <1>3, <1>9, <2>1, <2>2, NumbersStay DEF Timed, Gathered
  <2> QED
    BY <1>3, <1>4, <2>3, <2>4 DEF PaceInv
<1> QED
  BY <1>5, <1>6, <1>7, <1>8, <1>9 DEF Pacing!Deliver

LEMMA PaceKept == PaceInv /\ [Pacing!Next]_Pacing!vars => PaceInv'
<1> SUFFICES ASSUME PaceInv, [Pacing!Next]_Pacing!vars PROVE PaceInv'
  OBVIOUS
<1> DEFINE Still == UNCHANGED <<phase, source, pos, pending, left, late, gap>>
<1>1. PaceTypes
  BY DEF PaceInv
<1>2. left \in Int /\ pending \in Nat /\ timer \in 0..Wait
  BY <1>1 DEF PaceTypes
<1>3. CASE UNCHANGED Pacing!vars
  <2>1. Still /\ UNCHANGED <<due, queue, pc, timer>>
    BY <1>3 DEF Pacing!vars
  <2> QED
    BY <2>1, MovesKeep
<1>4. CASE Pacing!Read
  <2>1. CASE pending >= Out
    <3>1. /\ pc = "read" /\ Pacing!Emit(pending)
          /\ UNCHANGED <<phase, due, queue, source, pos, timer, late>>
      BY <1>4, <2>1 DEF Pacing!Read
    <3> QED
      BY <2>1, <3>1, FrameLeaves
  <2>2. CASE ~(pending >= Out)
    <3>1. pending < Out
      BY <1>2, <2>2, PaceNumbers
    <3>2. /\ pc = "read" /\ UNCHANGED <<phase, due, timer, late>>
          /\ \/ Pacing!PumpCaptureClient /\ pc' = "check" /\ UNCHANGED <<left, gap>>
             \/ pc' = "failed" /\ UNCHANGED <<queue, source, pos, pending, left, gap>>
      BY <1>4, <2>2 DEF Pacing!Read
    <3>3. CASE Pacing!PumpCaptureClient /\ pc' = "check" /\ UNCHANGED <<left, gap>>
      BY <3>1, <3>2, <3>3, PumpKeeps
    <3>4. CASE pc' = "failed" /\ UNCHANGED <<queue, source, pos, pending, left, gap>>
      BY <3>2, <3>4, MovesKeep
    <3> QED
      BY <3>2, <3>3, <3>4
  <2> QED
    BY <2>1, <2>2
<1>5. CASE Pacing!Check
  <2>1. pc = "check" /\ UNCHANGED <<phase, due, queue, source, pos, late>>
    BY <1>5 DEF Pacing!Check, Pacing!device
  <2>2. CASE pending >= Out
    BY <1>5, <2>1, <2>2, FrameLeaves DEF Pacing!Check
  <2>3. CASE ~(pending >= Out) /\ left <= -Frame
    <3>1. pending < Out
      BY <1>2, <2>3, PaceNumbers
    <3>2. Pacing!Emit(pending) /\ UNCHANGED timer
      BY <1>5, <2>3 DEF Pacing!Check, Pacing!Overdue
    <3> QED
      BY <2>1, <2>3, <3>1, <3>2, SilenceFills
  <2>4. CASE ~(pending >= Out) /\ ~(left <= -Frame)
    <3>1. pending < Out /\ left > -Frame
      BY <1>2, <2>4, PaceNumbers
    <3>2. pc' = "poll" /\ timer' = Wait /\ UNCHANGED <<pending, left, gap>>
      BY <1>5, <2>4 DEF Pacing!Check, Pacing!Overdue, Wait
    <3> QED
      BY <2>1, <3>1, <3>2, MovesKeep
  <2> QED
    BY <2>2, <2>3, <2>4
<1>6. CASE Pacing!Poll
  <2>1. /\ pc = "poll" /\ pc' = "read" /\ ~(timer > 0) /\ timer' = timer
        /\ Still /\ UNCHANGED <<due, queue>>
    BY <1>6 DEF Pacing!Poll, Pacing!WakesFrom, Pacing!Sleeps, Pacing!device
  <2> QED
    BY <2>1, MovesKeep
<1>7. CASE Pacing!Return
  <2>1. /\ pc = "pace" /\ pc' = "read" /\ ~(left > 0) /\ timer' = timer
        /\ Still /\ UNCHANGED <<due, queue>>
    BY <1>7 DEF Pacing!Return, Pacing!WakesFrom, Pacing!Sleeps, Pacing!device
  <2> QED
    BY <2>1, MovesKeep
<1>8. CASE Pacing!Tick
  BY <1>8, TickKeeps
<1>9. CASE Pacing!Deliver
  <2>1. Still
    BY <1>9 DEF Pacing!Deliver
  <2> QED
    BY <1>9, <2>1, MovesKeep
<1> QED
  BY <1>3, <1>4, <1>5, <1>6, <1>7, <1>8, <1>9 DEF Pacing!Next

LEMMA TimeHolds == PaceInv => Pacing!OnTime
<1> SUFFICES ASSUME PaceInv PROVE Pacing!OnTime
  OBVIOUS
<1>1. left \in Int /\ late \in 0..Late /\ timer \in 0..Wait
  BY DEF PaceInv, PaceTypes
<1>2. \/ left <= 0 /\ left >= -(Frame + Wait + late)
      \/ left <= Frame /\ left >= -(Wait + late)
  BY DEF PaceInv, Timed
<1>3. left <= Frame /\ left >= -(Frame + Wait + Late)
  BY <1>1, <1>2, PaceNumbers
<1>4. -(Frame + Wait + Late) \in Int /\ Frame \in Int
  BY PaceNumbers
<1> QED
  BY <1>1, <1>3, <1>4 DEF Pacing!OnTime, Wait

\* The units are put aside: what is a multiple of In is compared without it.
LEMMA MarginInUnits ==
  /\ Pacing!Margin = Out * MarginTicks /\ Pacing!Margin \in Nat
  /\ In * Pacing!Margin = Rate * MarginTicks /\ MarginTicks \in Nat
<1>1. MarginTicks \in Nat
  BY PaceNumbers DEF MarginTicks
<1>2. Pacing!Margin = Out * MarginTicks
  BY DEF Pacing!Margin, MarginTicks, Wait
<1> QED
  BY <1>1, <1>2, PaceNumbers DEF Rate

LEMMA BacklogHolds == PaceInv => Pacing!BacklogBounded
<1> SUFFICES ASSUME PaceInv PROVE Pacing!BacklogBounded
  OBVIOUS
<1>1. pending \in Nat /\ Sample * pending <= Rate * MarginTicks + Sample
  BY DEF PaceInv, PaceTypes, Balanced
<1>2. Frame * (pending - 1) \in Int /\ Sample * pending \in Int /\ Sample \in Int
  BY <1>1, PaceNumbers
<1>3. In * (Frame * (pending - 1)) = Sample * pending - Sample
  BY <1>1, PaceNumbers DEF Sample
<1>4. In * (Frame * (pending - 1)) <= In * Pacing!Margin
  <2>1. In * Pacing!Margin = Rate * MarginTicks /\ Rate * MarginTicks \in Int
    BY MarginInUnits, PaceNumbers
  <2> QED
    BY <1>1, <1>2, <1>3, <2>1
<1>5. In \in Nat \ {0} /\ Pacing!Margin \in Int
  BY PaceConstants, MarginInUnits
<1> QED
  BY <1>2, <1>4, <1>5, LessFromTimes DEF Pacing!BacklogBounded

LEMMA SilenceSettlesAlways == PaceInv => Pacing!SilenceSettles
<1> SUFFICES ASSUME PaceInv PROVE Pacing!SilenceSettles
  OBVIOUS
<1>1. /\ gap \in Nat /\ Sample * gap <= Sound + Sample + Rate * (Frame + Wait + Late)
      /\ Sound <= Rate * (Jitter + Period + Frame)
  BY DEF PaceInv, PaceTypes, Balanced
<1>2. /\ Frame * (gap - 1) \in Int /\ Sample * gap \in Int /\ Sample \in Int
      /\ Rate * (Frame + Wait + Late) \in Int /\ Rate * (Jitter + Period + Frame) \in Int
      /\ Rate * MarginTicks \in Int /\ Rate * Frame \in Int /\ Sound \in Int
  BY <1>1, PaceNumbers, MarginInUnits, SoundTypes DEF PaceInv
<1>3. In * (Frame * (gap - 1)) = Sample * gap - Sample
  BY <1>1, PaceNumbers DEF Sample
<1>4. Rate * (Jitter + Period + Frame) + Rate * (Frame + Wait + Late)
        = Rate * MarginTicks
  BY PaceNumbers DEF MarginTicks
<1>5. In * Pacing!Margin = Rate * MarginTicks
  BY MarginInUnits
<1>6. In * (Frame * (gap - 1)) <= In * Pacing!Margin
  BY <1>1, <1>2, <1>3, <1>4, <1>5
<1>7. In \in Nat \ {0} /\ Pacing!Margin \in Int
  BY PaceConstants, MarginInUnits
<1> QED
  BY <1>2, <1>6, <1>7, LessFromTimes DEF Pacing!SilenceSettles

LEMMA DeviceHolds == PaceInv => Pacing!DeviceNotOverrun
<1> SUFFICES ASSUME PaceInv PROVE Pacing!DeviceNotOverrun
  OBVIOUS
<1>1. PaceTypes /\ Timed /\ Gathered /\ Balanced
  BY DEF PaceInv
<1>2. /\ left \in Int /\ late \in 0..Late /\ timer \in 0..Wait /\ queue \in Nat
      /\ pc \in {"read", "check", "poll", "pace", "failed"}
  BY <1>1 DEF PaceTypes
<1>3. /\ Underway \in Nat /\ queue * Period \in Nat /\ queue * Period <= Underway
      /\ Sample * pending \in Nat /\ Frame * pos \in Nat /\ Frame * pos <= Sample
      /\ Rate * (Underway + left) \in Int /\ Sound \in Int /\ Sample \in Nat
  BY <1>1, SoundTypes, PaceNumbers
<1>4. MarginTicks = 2 * Frame + Period + Wait + Jitter + Late /\ MarginTicks \in Nat
  BY PaceNumbers DEF MarginTicks
<1>5. Rate * Underway <= Rate * MarginTicks + Sample /\ Rate * Underway \in Int
  <2>1. Rate * Underway \in Int /\ Rate * MarginTicks \in Int /\ Rate \in Nat
    BY <1>3, <1>4, PaceNumbers
  <2>2. CASE Underway <= Jitter + Period + Frame + Wait + Late
    <3>1. Underway <= MarginTicks
      BY <1>3, <1>4, <2>2, PaceNumbers
    <3>2. Rate * Underway <= Rate * MarginTicks
      BY <1>3, <1>4, <2>1, <3>1, AtMostTimes
    <3> QED
      BY <1>3, <2>1, <3>2
  <2>3. CASE left >= -(Wait + late)
    <3>1. /\ Underway - (Wait + Late) <= Underway + left /\ Underway - (Wait + Late) \in Int
          /\ Underway + left \in Int
      BY <1>2, <1>3, <2>3, PaceNumbers
    <3>2. /\ Rate * (Underway - (Wait + Late)) <= Rate * (Underway + left)
          /\ Rate * (Underway - (Wait + Late)) \in Int
      BY <2>1, <3>1, AtMostTimes
    <3>3. Rate * (Underway - (Wait + Late)) = Rate * Underway - Rate * (Wait + Late)
      BY <1>3, PaceNumbers
    <3>4. /\ Rate * (Jitter + Period + Frame) + Rate * (Wait + Late) <= Rate * MarginTicks
          /\ Rate * (Jitter + Period + Frame) \in Int /\ Rate * (Wait + Late) \in Int
      BY PaceNumbers DEF MarginTicks
    <3>5. Rate * (Underway + left) = Sound - Sample * pending + Frame * pos
      BY <1>3 DEF Sound
    <3>6. Sound <= Rate * (Jitter + Period + Frame)
      BY <1>1 DEF Balanced
    <3> QED
      BY <1>3, <2>1, <3>2, <3>3, <3>4, <3>5, <3>6
  <2>4. CASE pc \in {"check", "poll"}
    <3>1. \/ Underway <= Jitter + Period + late
          \/ Underway <= Jitter + Period + Frame + (Wait - timer) + late
          \/ Underway <= Jitter + Period + Frame + (Wait - timer) + 0
      BY <1>1, <2>4 DEF Gathered, Delay
    <3>2. Underway <= Jitter + Period + Frame + Wait + Late
      BY <1>2, <1>3, <3>1, PaceNumbers
    <3> QED
      BY <2>2, <3>2
  <2>5. CASE Underway <= Jitter + Period + Frame + Wait + late
    <3>1. Underway <= Jitter + Period + Frame + Wait + Late
      BY <1>2, <1>3, <2>5, PaceNumbers
    <3> QED
      BY <2>2, <3>1
  <2> QED
    BY <1>1, <1>2, <2>3, <2>4, <2>5 DEF Timed, Gathered
<1>6. Rate * (queue * Period) <= Rate * Underway /\ Rate * (queue * Period) \in Int
  <2>1. Rate \in Nat
    BY PaceNumbers
  <2> QED
    BY <1>3, <2>1, AtMostTimes
<1>7. In * (Out * Period * queue - Frame) = Rate * (queue * Period) - Sample
  BY <1>2, PaceNumbers DEF Rate, Sample
<1>8. In * (Out * Period * queue - Frame) <= In * Pacing!Margin
  <2>1. In * Pacing!Margin = Rate * MarginTicks /\ Rate * MarginTicks \in Int
    BY MarginInUnits, PaceNumbers
  <2> QED
    BY <1>3, <1>5, <1>6, <1>7, <2>1
<1>9. /\ In \in Nat \ {0} /\ Pacing!Margin \in Int /\ Out * Period * queue - Frame \in Int
  BY <1>2, PaceConstants, MarginInUnits
<1> QED
  BY <1>8, <1>9, LessFromTimes DEF Pacing!DeviceNotOverrun

(* Whatever the period, the rates, the jitter and the delays, frames are   *)
(* on time, and neither the audio that waits in ReadFrame or at the device *)
(* nor the silence that is filled in grows with the length of the stream.  *)
THEOREM WasapiKeepsPaceAlways == PartsSpec => []WasapiKeepsPace
<1> DEFINE Inv == part = "pacing" => PaceInv
<1>1. PartsInit => Inv
  BY PaceBegins DEF PartsInit
<1>2. Inv /\ [PartsNext]_parts => Inv'
  <2> SUFFICES ASSUME Inv, [PartsNext]_parts PROVE Inv'
    OBVIOUS
  <2>1. part' = part
    BY DEF PartsNext, parts
  <2>2. part = "pacing" => [Pacing!Next]_Pacing!vars
    BY DEF PartsNext, parts, pace, Pacing!vars
  <2> QED
    BY <2>1, <2>2, PaceKept
<1>3. Inv => WasapiKeepsPace
  BY TimeHolds, BacklogHolds, SilenceSettlesAlways, DeviceHolds DEF WasapiKeepsPace
<1> QED
  BY <1>1, <1>2, <1>3, PTL DEF PartsSpec

-----------------------------------------------------------------------------
(* Induction, over sets instead of predicates: what is not in the set has  *)
(* a least member.                                                         *)
Below == {ij \in Nat \X Nat : ij[1] < ij[2]}

LEMMA SetInduction ==
  ASSUME NEW S \in SUBSET Nat, 0 \in S, \A n \in S : n + 1 \in S
  PROVE  S = Nat
<1> SUFFICES ASSUME S # Nat PROVE FALSE
  OBVIOUS
<1> DEFINE T == Nat \ S
<1>1. PICK x \in T : \A y \in T : ~(<<y, x>> \in Below)
  <2>1. T \subseteq Nat /\ T # {}
    OBVIOUS
  <2>2. IsWellFoundedOn(Below, Nat)
    BY NatLessThanWellFounded DEF Below, OpToRel
  <2> HIDE DEF T
  <2> QED
    BY <2>1, <2>2, WFMin
<1>2. x - 1 \in S
  <2>1. x # 0 /\ x \in Nat
    OBVIOUS
  <2>2. x - 1 \in Nat /\ x - 1 < x
    BY <2>1
  <2>3. <<x - 1, x>> \in Below
    BY <2>1, <2>2 DEF Below
  <2> QED
    BY <1>1, <2>2, <2>3
<1>3. (x - 1) + 1 \in S /\ (x - 1) + 1 = x
  BY <1>2
<1> QED
  BY <1>3

-----------------------------------------------------------------------------
(* The powers of two: there is such a function, built from ever longer     *)
(* beginnings of it, and it turns sums into products.                      *)
\* g is the powers of two up to n.
Powers(g, n) ==
  g \in [0..n -> Nat] /\ g[0] = 1 /\ \A i \in 1..n : g[i] = 2 * g[i - 1]

LEMMA PowersReach ==
  ASSUME NEW n \in Nat PROVE \E g \in [0..n -> Nat] : Powers(g, n)
<1> DEFINE S == {m \in Nat : \E g \in [0..m -> Nat] : Powers(g, m)}
<1>1. 0 \in S
  <2>1. Powers([i \in 0..0 |-> 1], 0)
    BY DEF Powers
  <2> QED
    BY <2>1 DEF Powers
<1>2. ASSUME NEW m \in S PROVE m + 1 \in S
  <2>1. PICK g \in [0..m -> Nat] : Powers(g, m)
    OBVIOUS
  <2> DEFINE h == [i \in 0..m + 1 |-> IF i <= m THEN g[i] ELSE 2 * g[m]]
  <2>2. h \in [0..m + 1 -> Nat]
    <3>1. \A i \in 0..m : g[i] \in Nat
      OBVIOUS
    <3>2. ASSUME NEW i \in 0..m + 1
          PROVE  (IF i <= m THEN g[i] ELSE 2 * g[m]) \in Nat
      <4>1. CASE i <= m
        <5>1. i \in 0..m
          BY <4>1
        <5> QED
          BY <3>1, <4>1, <5>1
      <4>2. CASE ~(i <= m)
        <5>1. m \in 0..m
          OBVIOUS
        <5>2. g[m] \in Nat
          BY <3>1, <5>1
        <5> QED
          BY <4>2, <5>2
      <4> QED
        BY <4>1, <4>2
    <3> QED
      BY <3>2
  <2>3. h[0] = 1
    BY <2>1 DEF Powers
  <2>4. ASSUME NEW i \in 1..m + 1 PROVE h[i] = 2 * h[i - 1]
    <3>1. i - 1 \in 0..m /\ i - 1 <= m /\ i \in 0..m + 1 /\ i - 1 \in 0..m + 1
      OBVIOUS
    <3>2. h[i - 1] = g[i - 1]
      BY <3>1
    <3>3. CASE i <= m
      <4>1. i \in 1..m /\ h[i] = g[i]
        BY <3>1, <3>3
      <4> QED
        BY <2>1, <3>2, <4>1 DEF Powers
    <3>4. CASE ~(i <= m)
      <4>1. h[i] = 2 * g[m] /\ i - 1 = m
        BY <3>1, <3>4
      <4> QED
        BY <3>2, <4>1
    <3> QED
      BY <3>3, <3>4
  <2> HIDE DEF h
  <2>5. Powers(h, m + 1)
    BY <2>2, <2>3, <2>4 DEF Powers
  <2> QED
    BY <2>2, <2>5
<1> HIDE DEF S
<1>3. S = Nat
  <2>1. S \in SUBSET Nat
    BY DEF S
  <2> QED
    BY <1>1, <1>2, <2>1, SetInduction
<1> QED
  BY <1>3 DEF S

LEMMA PowersAgree ==
  ASSUME NEW m \in Nat, NEW n \in Nat, NEW g, NEW h,
         Powers(g, m), Powers(h, n), NEW i \in Nat, i <= m, i <= n
  PROVE  g[i] = h[i]
<1> DEFINE S == {j \in Nat : j <= m /\ j <= n => g[j] = h[j]}
<1>1. 0 \in S
  BY DEF Powers
<1>2. ASSUME NEW j \in S PROVE j + 1 \in S
  <2> SUFFICES ASSUME j + 1 <= m, j + 1 <= n PROVE g[j + 1] = h[j + 1]
    OBVIOUS
  <2>1. j + 1 \in 1..m /\ j + 1 \in 1..n /\ (j + 1) - 1 = j /\ g[j] = h[j]
    OBVIOUS
  <2>2. g[j + 1] = 2 * g[(j + 1) - 1] /\ h[j + 1] = 2 * h[(j + 1) - 1]
    BY <2>1 DEF Powers
  <2> QED
    BY <2>1, <2>2
<1> HIDE DEF S
<1>3. S = Nat
  <2>1. S \in SUBSET Nat
    BY DEF S
  <2> QED
    BY <1>1, <1>2, <2>1, SetInduction
<1> QED
  BY <1>3 DEF S

LEMMA Pow2Exists ==
  \E f : f = [n \in Nat |-> IF n = 0 THEN 1 ELSE 2 * f[n - 1]]
<1> DEFINE up == [n \in Nat |-> CHOOSE g \in [0..n -> Nat] : Powers(g, n)]
           f == [n \in Nat |-> up[n][n]]
<1>1. \A n \in Nat : Powers(up[n], n)
  BY PowersReach
<1>2. \A n \in Nat : f[n] = up[n][n]
  OBVIOUS
<1> HIDE DEF up
<1>3. ASSUME NEW n \in Nat PROVE f[n] = IF n = 0 THEN 1 ELSE 2 * f[n - 1]
  <2>1. CASE n = 0
    BY <1>1, <1>2, <2>1 DEF Powers
  <2>2. CASE n # 0
    <3>1. n - 1 \in Nat /\ n \in 1..n /\ n - 1 <= n /\ n - 1 <= n - 1
      BY <2>2
    <3>2. up[n][n] = 2 * up[n][n - 1]
      BY <1>1, <3>1 DEF Powers
    <3>3. up[n][n - 1] = up[n - 1][n - 1]
      BY <1>1, <3>1, PowersAgree
    <3> QED
      BY <1>2, <2>2, <3>1, <3>2, <3>3
  <2> QED
    BY <2>1, <2>2
<1>4. f = [n \in Nat |-> IF n = 0 THEN 1 ELSE 2 * f[n - 1]]
  <2>1. f = [n \in Nat |-> f[n]]
    OBVIOUS
  <2> HIDE DEF f
  <2> QED
    BY <1>3, <2>1
<1> QED
  BY <1>4

LEMMA Pow2Step ==
  /\ Format!Pow2[0] = 1
  /\ \A n \in Nat : Format!Pow2[n + 1] = 2 * Format!Pow2[n]
<1>1. Format!Pow2 = [n \in Nat |-> IF n = 0 THEN 1 ELSE 2 * Format!Pow2[n - 1]]
  BY Pow2Exists, Zenon DEF Format!Pow2
<1>2. \A n \in Nat : Format!Pow2[n] = IF n = 0 THEN 1 ELSE 2 * Format!Pow2[n - 1]
  BY <1>1, Zenon
<1>3. Format!Pow2[0] = 1
  BY <1>2
<1>4. ASSUME NEW n \in Nat PROVE Format!Pow2[n + 1] = 2 * Format!Pow2[n]
  <2>1. n + 1 \in Nat /\ n + 1 # 0 /\ (n + 1) - 1 = n
    OBVIOUS
  <2>2. Format!Pow2[n + 1] = 2 * Format!Pow2[(n + 1) - 1]
    BY <1>2, <2>1
  <2> QED
    BY <2>1, <2>2
<1> QED
  BY <1>3, <1>4

LEMMA Pow2Type == \A n \in Nat : Format!Pow2[n] \in Nat \ {0}
<1> DEFINE S == {n \in Nat : Format!Pow2[n] \in Nat \ {0}}
<1>1. 0 \in S
  BY Pow2Step
<1>2. ASSUME NEW n \in S PROVE n + 1 \in S
  <2>1. Format!Pow2[n + 1] = 2 * Format!Pow2[n] /\ Format!Pow2[n] \in Nat \ {0}
    BY Pow2Step
  <2> QED
    BY <2>1
<1> HIDE DEF S
<1>3. S = Nat
  <2>1. S \in SUBSET Nat
    BY DEF S
  <2> QED
    BY <1>1, <1>2, <2>1, SetInduction
<1> QED
  BY <1>3 DEF S

LEMMA Pow2Sum ==
  ASSUME NEW m \in Nat, NEW n \in Nat
  PROVE  Format!Pow2[m + n] = Format!Pow2[m] * Format!Pow2[n]
<1> DEFINE S == {k \in Nat : Format!Pow2[m + k] = Format!Pow2[m] * Format!Pow2[k]}
<1>1. 0 \in S
  <2>1. Format!Pow2[m] \in Nat /\ m + 0 = m
    BY Pow2Type
  <2> QED
    BY <2>1, Pow2Step
<1>2. ASSUME NEW k \in S PROVE k + 1 \in S
  <2>1. PICK a \in Nat, b \in Nat : a = Format!Pow2[m] /\ b = Format!Pow2[k]
    BY Pow2Type
  <2>2. m + (k + 1) = (m + k) + 1 /\ m + k \in Nat
    OBVIOUS
  <2>3. Format!Pow2[m + (k + 1)] = 2 * (a * b)
    BY <2>1, <2>2, Pow2Step
  <2>4. 2 * (a * b) = a * (2 * b)
    OBVIOUS
  <2> QED
    BY <2>1, <2>3, <2>4, Pow2Step
<1> HIDE DEF S
<1>3. S = Nat
  <2>1. S \in SUBSET Nat
    BY DEF S
  <2> QED
    BY <1>1, <1>2, <2>1, SetInduction
<1> QED
  BY <1>3 DEF S

-----------------------------------------------------------------------------
(* Division with remainder, of negative numbers too.                       *)
LEMMA Splits ==
  ASSUME NEW m \in Nat \ {0}, NEW n \in Int
  PROVE  n \div m \in Int /\ n % m \in 0..m - 1 /\ n = m * (n \div m) + (n % m)
<1>1. n % m \in 0..m - 1
  OBVIOUS
<1>2. n = m * (n \div m) + (n % m)
  BY Z3
<1> QED
  BY <1>1, <1>2

LEMMA SplitIs ==
  ASSUME NEW m \in Nat \ {0}, NEW n \in Int, NEW q \in Int, NEW r \in 0..m - 1,
         n = m * q + r
  PROVE  n \div m = q /\ n % m = r
<1>1. PICK d \in Int, e \in 0..m - 1 : d = n \div m /\ e = n % m /\ n = m * d + e
  BY Splits
<1>2. m * (d - q) = r - e
  BY <1>1
<1>3. d - q < 1
  <2> SUFFICES ASSUME d - q >= 1 PROVE FALSE
    OBVIOUS
  <2>1. m * (d - q) >= m
    OBVIOUS
  <2> QED
    BY <2>1, <1>2
<1>4. d - q > -1
  <2> SUFFICES ASSUME d - q <= -1 PROVE FALSE
    OBVIOUS
  <2>1. m * (d - q) <= -m
    OBVIOUS
  <2> QED
    BY <2>1, <1>2
<1>5. d = q
  BY <1>3, <1>4
<1> QED
  BY <1>1, <1>2, <1>5

\* Dividing twice.
LEMMA DivideTwice ==
  ASSUME NEW x \in Int, NEW a \in Nat \ {0}, NEW b \in Nat \ {0}
  PROVE  (x \div a) \div b = x \div (a * b)
<1>1. PICK y \in Int, r \in 0..a - 1 : y = x \div a /\ x = a * y + r
  BY Splits
<1>2. PICK q \in Int, s \in 0..b - 1 : q = y \div b /\ y = b * q + s
  BY Splits
<1>3. a * b \in Nat \ {0}
  OBVIOUS
<1>4. a * s + r \in 0..a * b - 1
  <2>1. a * s <= a * (b - 1) /\ a * (b - 1) = a * b - a /\ a * s >= 0 /\ a * s \in Int
    OBVIOUS
  <2> QED
    BY <1>3, <2>1
<1>5. x = (a * b) * q + (a * s + r)
  <2>1. a * (b * q + s) = (a * b) * q + a * s
    OBVIOUS
  <2>2. a * y = a * (b * q + s)
    BY <1>2
  <2>3. a * y = (a * b) * q + a * s
    BY <2>1, <2>2, Zenon
  <2>4. a * s \in Int /\ (a * b) * q \in Int /\ a * y \in Int
    OBVIOUS
  <2> QED
    BY <1>1, <2>3, <2>4
<1> DEFINE c == a * b
           t == a * s + r
<1>6. c \in Nat \ {0} /\ t \in 0..c - 1 /\ x = c * q + t
  BY <1>3, <1>4, <1>5
<1> HIDE DEF c, t
<1>7. x \div c = q
  BY <1>6, SplitIs
<1> QED
  BY <1>1, <1>2, <1>7 DEF c

\* A quotient has the bounds of what is divided.
LEMMA QuotientBounds ==
  ASSUME NEW m \in Nat \ {0}, NEW k \in Nat \ {0}, NEW x \in Int, -(m * k) <= x, x < m * k
  PROVE  x \div m \in -k..k - 1
<1>1. PICK q \in Int, r \in 0..m - 1 : q = x \div m /\ x = m * q + r
  BY Splits
<1>2. q >= -k
  <2> SUFFICES ASSUME q <= -k - 1 PROVE FALSE
    OBVIOUS
  <2>1. m * q <= m * (-k - 1) /\ m * (-k - 1) = -(m * k) - m
    OBVIOUS
  <2> QED
    BY <1>1, <2>1
<1>3. q < k
  <2> SUFFICES ASSUME q >= k PROVE FALSE
    OBVIOUS
  <2>1. m * q >= m * k
    OBVIOUS
  <2> QED
    BY <1>1, <2>1
<1> QED
  BY <1>1, <1>2, <1>3

\* A digit at the place p, to the base b.
LEMMA OneDigit ==
  ASSUME NEW u \in Int, NEW p \in Nat \ {0}, NEW b \in Nat \ {0}
  PROVE  ((u \div p) % b) * p = p * (u \div p) - (p * b) * (u \div (p * b))
<1>1. PICK y \in Int : y = u \div p
  BY Splits
<1>2. PICK q \in Int, r \in 0..b - 1 : q = y \div b /\ r = y % b /\ y = b * q + r
  BY Splits
<1>3. u \div (p * b) = q
  BY <1>1, <1>2, DivideTwice
<1>4. p * (b * q + r) = (p * b) * q + r * p
  OBVIOUS
<1>5. p * y = (p * b) * q + r * p
  BY <1>2, <1>4
<1>6. p * y \in Int /\ (p * b) * q \in Int /\ r * p \in Int
  OBVIOUS
<1>7. r * p = p * y - (p * b) * q
  BY <1>5, <1>6
<1> QED
  BY <1>1, <1>2, <1>3, <1>7

-----------------------------------------------------------------------------
(* Samples.                                                                *)
Bits(n) == Format!Pow2[n]

\* The i-th byte of u as it stands in the container.
Bytes(u, width) == [i \in 1..width |-> (u \div Bits((i - 1) * ByteBits)) % Bits(ByteBits)]

\* What u has left of it from the place p on.
Above(u, p) == p * (u \div p)

LEMMA UnsignedIs ==
  ASSUME NEW width \in 1..4, NEW u \in Nat, u < Bits(width * ByteBits)
  PROVE  Format!Unsigned(Bytes(u, width)) = u
<1> DEFINE b == Bits(ByteBits)
           place(i) == Bits(i * ByteBits)
           bytes == Bytes(u, width)
<1>1. ByteBits \in Nat \ {0}
  BY PartsAssumption DEF Format!FormatAssumption
<1>2. b \in Nat \ {0}
  BY <1>1, Pow2Type DEF Bits
<1>3. \A i \in 0..4 : place(i) \in Nat \ {0} /\ u \div place(i) \in Int
  <2> TAKE i \in 0..4
  <2>1. i * ByteBits \in Nat
    BY <1>1
  <2>2. place(i) \in Nat \ {0}
    BY <2>1, Pow2Type DEF Bits
  <2> HIDE DEF place
  <2> QED
    BY <2>2, Splits
<1>4. \A i \in 0..3 : place(i + 1) = place(i) * b
  <2> TAKE i \in 0..3
  <2>1. i * ByteBits \in Nat /\ (i + 1) * ByteBits = i * ByteBits + ByteBits
    BY <1>1
  <2> QED
    BY <1>1, <2>1, Pow2Sum DEF Bits
<1>5. place(0) = 1
  <2>1. 0 * ByteBits = 0
    BY <1>1
  <2> QED
    BY <2>1, Pow2Step DEF Bits
<1> HIDE DEF b, place
<1>6. \A i \in 0..4 : Above(u, place(i)) \in Int
  BY <1>3 DEF Above
<1>7. Above(u, place(0)) = u
  <2>1. u \div 1 = u
    OBVIOUS
  <2> QED
    BY <1>5, <2>1 DEF Above
<1>8. Above(u, place(width)) = 0
  <2>1. PICK p \in Nat \ {0} : p = place(width) /\ u < p
    BY <1>3 DEF place
  <2>2. u \in 0..p - 1 /\ u = p * 0 + u
    BY <2>1
  <2>3. u \div p = 0
    BY <2>2, SplitIs
  <2> QED
    BY <2>1, <2>3 DEF Above
<1>9. bytes = [i \in 1..width |-> (u \div place(i - 1)) % b] /\ Len(bytes) = width
  BY DEF Bytes, place, b
<1>10. \A i \in 1..4 :
         Format!Digit(bytes, i) =
           IF i <= width THEN Above(u, place(i - 1)) - Above(u, place(i)) ELSE 0
  <2> TAKE i \in 1..4
  <2>1. CASE i <= width
    <3>1. PICK j \in 0..3 : j = i - 1 /\ j + 1 = i
      OBVIOUS
    <3>2. bytes[i] = (u \div place(j)) % b
      <4>1. i \in 1..width
        BY <2>1
      <4> QED
        BY <1>9, <3>1, <4>1
    <3>3. Format!Digit(bytes, i) = ((u \div place(j)) % b) * place(j)
      BY <1>9, <2>1, <3>1, <3>2, Zenon DEF Format!Digit, place, Bits
    <3>4. place(j) \in Nat \ {0} /\ place(i) = place(j) * b
      BY <1>3, <1>4, <3>1
    <3>5. u \in Int
      OBVIOUS
    <3>6. ((u \div place(j)) % b) * place(j)
            = place(j) * (u \div place(j)) - (place(j) * b) * (u \div (place(j) * b))
      BY <1>2, <3>4, <3>5, OneDigit
    <3>7. Format!Digit(bytes, i) = Above(u, place(j)) - Above(u, place(i))
      BY <3>3, <3>4, <3>6, Zenon DEF Above
    <3> QED
      BY <2>1, <3>1, <3>7, Zenon
  <2>2. CASE ~(i <= width)
    BY <1>9, <2>2 DEF Format!Digit
  <2> QED
    BY <2>1, <2>2
<1> DEFINE a(i) == Above(u, place(i))
<1>11. /\ a(0) = u /\ a(width) = 0 /\ \A i \in 0..4 : a(i) \in Int
       /\ \A i \in 1..4 :
            Format!Digit(bytes, i) = IF i <= width THEN a(i - 1) - a(i) ELSE 0
  BY <1>6, <1>7, <1>8, <1>10
<1> HIDE DEF a, bytes
<1>12. /\ Format!Digit(bytes, 1) = a(0) - a(1)
       /\ Format!Digit(bytes, 2) = IF 2 <= width THEN a(1) - a(2) ELSE 0
       /\ Format!Digit(bytes, 3) = IF 3 <= width THEN a(2) - a(3) ELSE 0
       /\ Format!Digit(bytes, 4) = IF 4 <= width THEN a(3) - a(4) ELSE 0
  <2>1. 1 <= width /\ 1 - 1 = 0 /\ 2 - 1 = 1 /\ 3 - 1 = 2 /\ 4 - 1 = 3
    OBVIOUS
  <2> QED
    BY <1>11, <2>1
<1>13. /\ a(0) \in Int /\ a(1) \in Int /\ a(2) \in Int /\ a(3) \in Int /\ a(4) \in Int
  BY <1>11
<1>14. CASE width = 1
  BY <1>11, <1>12, <1>13, <1>14 DEF Format!Unsigned, bytes
<1>15. CASE width = 2
  BY <1>11, <1>12, <1>13, <1>15 DEF Format!Unsigned, bytes
<1>16. CASE width = 3
  BY <1>11, <1>12, <1>13, <1>16 DEF Format!Unsigned, bytes
<1>17. CASE width = 4
  BY <1>11, <1>12, <1>13, <1>17 DEF Format!Unsigned, bytes
<1> QED
  BY <1>14, <1>15, <1>16, <1>17

\* The signal in a container: the top bits q, and ones below them.
LEMMA ContainerHolds ==
  ASSUME NEW D \in Nat \ {0}, NEW P \in Nat \ {0}, NEW K \in Nat \ {0}, NEW x \in Int,
         -((D * P) * K) <= x, x < (D * P) * K
  PROVE  /\ (x \div D) \div P = x \div (D * P)
         /\ x \div (D * P) \in -K..K - 1
         /\ (x \div (D * P)) * P + P - 1 \in -(P * K)..P * K - 1
         /\ ((x \div (D * P)) * P + P - 1) \div P = x \div (D * P)
<1>1. (x \div D) \div P = x \div (D * P)
  BY DivideTwice
<1>2. x \div (D * P) \in -K..K - 1
  <2>1. D * P \in Nat \ {0}
    OBVIOUS
  <2> DEFINE c == D * P
  <2>2. c \in Nat \ {0} /\ -(c * K) <= x /\ x < c * K
    BY <2>1
  <2> HIDE DEF c
  <2>3. x \div c \in -K..K - 1
    BY <2>2, QuotientBounds
  <2> QED
    BY <2>3 DEF c
<1>3. PICK q \in -K..K - 1 : q = x \div (D * P)
  BY <1>2
<1>4. q * P + P - 1 \in -(P * K)..P * K - 1
  <2>1. P * (-K) <= P * q /\ P * q <= P * (K - 1)
    BY <1>3
  <2>2. P * (-K) = -(P * K) /\ P * (K - 1) = P * K - P /\ P * q = q * P /\ P * K \in Int /\ q * P \in Int
    BY <1>3
  <2> QED
    BY <2>1, <2>2
<1>5. (q * P + P - 1) \div P = q
  <2>1. q * P + P - 1 = P * q + (P - 1) /\ P - 1 \in 0..P - 1 /\ q * P + P - 1 \in Int
    BY <1>3
  <2> QED
    BY <2>1, SplitIs
<1> QED
  BY <1>1, <1>2, <1>3, <1>4, <1>5

\* The sign of a number of two's complement.
LEMMA SignedIs ==
  ASSUME NEW H \in Nat \ {0}, NEW v \in -H..H - 1
  PROVE  /\ v % (2 * H) \in 0..2 * H - 1
         /\ (IF v % (2 * H) >= H THEN (v % (2 * H)) - 2 * H ELSE v % (2 * H)) = v
<1> DEFINE N == 2 * H
<1>1. N \in Nat \ {0} /\ N = 2 * H
  OBVIOUS
<1> HIDE DEF N
<1>2. CASE v >= 0
  <2>1. v \in 0..N - 1 /\ v = N * 0 + v
    BY <1>1, <1>2
  <2>2. v % N = v
    BY <1>1, <2>1, SplitIs
  <2> QED
    BY <1>1, <1>2, <2>2
<1>3. CASE v < 0
  <2>1. v + N \in 0..N - 1 /\ v = N * (-1) + (v + N)
    BY <1>1, <1>3
  <2>2. v % N = v + N
    BY <1>1, <2>1, SplitIs
  <2> QED
    BY <1>1, <1>3, <2>2
<1> QED
  BY <1>2, <1>3

LEMMA ClampKeeps ==
  ASSUME NEW one \in Int, NEW x \in -one..one PROVE Format!ClampUnit(x, one) = x
<1>1. Format!Min({x, one}) = x
  BY DEF Format!Min
<1>2. Format!Max({-one, x}) = x
  BY DEF Format!Max
<1> QED
  BY <1>1, <1>2 DEF Format!ClampUnit

\* The bits of a format, and what one of them is worth.
LEMMA FormatBits ==
  ASSUME NEW f \in Format!Formats, Format!ConfigureMixFormat(f), Format!Encoding(f) = "pcm"
  PROVE  /\ f.width \in 1..4 /\ ByteBits \in Nat \ {0}
         /\ Format!ValidBits(f) \in 1..f.width * ByteBits
         /\ f.width = 1 => Format!ValidBits(f) = ByteBits
<1>1. ByteBits \in Nat \ {0}
  BY PartsAssumption DEF Format!FormatAssumption
<1>2. /\ f.width \in 0..4 /\ f.valid \in Nat /\ f.valid <= f.width * ByteBits
      /\ f.width = 1 => f.valid \in {0, ByteBits}
  BY <1>1 DEF Format!Formats
<1>3. f.width \in 1..4
  BY <1>2 DEF Format!ConfigureMixFormat
<1>4. f.width * ByteBits \in Nat \ {0} /\ (f.width = 1 => f.width * ByteBits = ByteBits)
  BY <1>1, <1>3
<1>5. PICK n \in Nat \ {0} : n = f.width * ByteBits
  BY <1>4
<1>6. (Format!ValidBits(f) = f.valid /\ f.valid > 0) \/ Format!ValidBits(f) = n
  BY <1>5, Zenon DEF Format!ValidBits
<1>7. f.valid \in Nat /\ f.valid <= n /\ (f.width = 1 => n = ByteBits)
  BY <1>2, <1>4, <1>5
<1>8. Format!ValidBits(f) \in 1..n
  BY <1>6, <1>7
<1>9. f.width = 1 => Format!ValidBits(f) = ByteBits
  BY <1>1, <1>2, <1>6, <1>7
<1> QED
  BY <1>1, <1>3, <1>5, <1>8, <1>9

LEMMA BitsAddUp ==
  ASSUME NEW bits \in Nat, NEW n \in Nat, NEW rest \in Nat, NEW valid \in 1..n,
         rest + n = 4 * bits
  PROVE  /\ n - valid \in Nat /\ valid - 1 \in Nat /\ n - 1 \in Nat /\ 4 * bits - valid \in Nat
         /\ n - 1 = (n - valid) + (valid - 1) /\ 4 * bits - valid = rest + (n - valid)
         /\ 4 * bits - 1 = (4 * bits - valid) + (valid - 1) /\ n = (n - 1) + 1
  OBVIOUS

\* A PCM sample comes back as what its valid bits hold of the signal.
LEMMA SampleIsKept ==
  ASSUME NEW f \in Format!Formats, Format!ConfigureMixFormat(f), Format!Encoding(f) = "pcm",
         NEW x \in -Format!One..Format!One - 1
  PROVE  Format!ReadInputSample(f, x)
           = Format!Floor(x, Bits(4 * ByteBits - Format!ValidBits(f)))
<1>1. /\ f.width \in 1..4 /\ ByteBits \in Nat \ {0}
      /\ Format!ValidBits(f) \in 1..f.width * ByteBits
      /\ f.width = 1 => Format!ValidBits(f) = ByteBits
  BY FormatBits
<1>2. PICK w \in 1..4, n \in Nat \ {0}, valid \in Nat, rest \in Nat :
        /\ valid \in 1..n /\ w = f.width /\ n = w * ByteBits /\ valid = Format!ValidBits(f)
        /\ rest = (4 - w) * ByteBits /\ rest + n = 4 * ByteBits
        /\ w = 1 => valid = n /\ n = ByteBits
  <2>1. f.width * ByteBits \in Nat \ {0} /\ (4 - f.width) * ByteBits \in Nat
        /\ (4 - f.width) * ByteBits + f.width * ByteBits = 4 * ByteBits
        /\ (f.width = 1 => f.width * ByteBits = ByteBits)
    BY <1>1
  <2> QED
    BY <1>1, <2>1
<1> DEFINE D == Bits(rest)
           P == Bits(n - valid)
           K == Bits(valid - 1)
           H == Bits(n - 1)
           E == Bits(4 * ByteBits - valid)
<1>3. /\ D \in Nat \ {0} /\ P \in Nat \ {0} /\ K \in Nat \ {0} /\ H \in Nat \ {0}
      /\ E \in Nat \ {0}
  <2>1. /\ n - valid \in Nat /\ valid - 1 \in Nat /\ n - 1 \in Nat
        /\ 4 * ByteBits - valid \in Nat
    BY <1>1, <1>2, BitsAddUp
  <2> QED
    BY <1>2, <2>1, Pow2Type DEF Bits
<1>4. H = P * K /\ E = D * P /\ Format!One = E * K /\ Bits(n) = 2 * H
  <2>1. /\ n - valid \in Nat /\ valid - 1 \in Nat /\ n - 1 \in Nat
        /\ 4 * ByteBits - valid \in Nat
        /\ n - 1 = (n - valid) + (valid - 1) /\ 4 * ByteBits - valid = rest + (n - valid)
        /\ 4 * ByteBits - 1 = (4 * ByteBits - valid) + (valid - 1) /\ n = (n - 1) + 1
    <3>1. ByteBits \in Nat /\ n \in Nat /\ rest \in Nat /\ valid \in 1..n /\ rest + n = 4 * ByteBits
      BY <1>1, <1>2
    <3> QED
      BY <3>1, BitsAddUp
  <2>2. Bits((n - valid) + (valid - 1)) = P * K
    BY <2>1, Pow2Sum DEF Bits
  <2>3. Bits(rest + (n - valid)) = D * P
    BY <1>2, <2>1, Pow2Sum DEF Bits
  <2>4. Bits((4 * ByteBits - valid) + (valid - 1)) = E * K
    BY <2>1, Pow2Sum DEF Bits
  <2>5. Bits((n - 1) + 1) = 2 * H
    BY <2>1, Pow2Step DEF Bits
  <2>6. Format!One = Bits(4 * ByteBits - 1)
    BY DEF Format!One, Bits
  <2> QED
    BY <2>1, <2>2, <2>3, <2>4, <2>5, <2>6, Zenon
<1> DEFINE q == x \div E
           v == q * P + P - 1
           u == IF w = 1 THEN v + H ELSE v % (2 * H)
<1>5. Format!Encode(w, valid, x) = Bytes(u, w)
  <2>1. (x \div D) \div P = q
    BY <1>3, <1>4, DivideTwice
  <2> QED
    BY <1>2, <1>4, <2>1 DEF Format!Encode, Format!Floor, Bytes, Bits
<1> HIDE DEF D, P, K, H, E
<1>6. /\ (x \div D) \div P = q /\ q \in -K..K - 1 /\ v \in -H..H - 1 /\ v \div P = q
  <2>1. x \in Int /\ -((D * P) * K) <= x /\ x < (D * P) * K
    BY <1>3, <1>4
  <2>2. /\ (x \div D) \div P = x \div (D * P) /\ x \div (D * P) \in -K..K - 1
        /\ (x \div (D * P)) * P + P - 1 \in -(P * K)..P * K - 1
        /\ ((x \div (D * P)) * P + P - 1) \div P = x \div (D * P)
    BY <1>3, <2>1, ContainerHolds
  <2> QED
    BY <1>4, <2>2, Zenon
<1>7. (Format!One \div K) = E
  <2>1. E * K = K * E + 0 /\ 0 \in 0..K - 1 /\ E * K \in Int /\ E \in Int
    BY <1>3
  <2> QED
    BY <1>3, <1>4, <2>1, SplitIs
<1>8. q * E \in -Format!One..Format!One
  <2>1. E * (-K) <= E * q /\ E * q <= E * K /\ E * (-K) = -(E * K) /\ E * q = q * E
    BY <1>3, <1>6
  <2>2. E * K \in Int /\ q * E \in Int
    BY <1>3, <1>6
  <2> QED
    BY <1>4, <2>1, <2>2
<1>9. Format!Floor(x, E) = q * E
  BY DEF Format!Floor
<1> HIDE DEF q, v
<1>10. u \in 0..2 * H - 1
  <2>1. w = 1 => u \in 0..2 * H - 1
    BY <1>3, <1>6
  <2>2. w # 1 => u \in 0..2 * H - 1
    BY <1>3, <1>6, SignedIs
  <2> QED
    BY <2>1, <2>2
<1> HIDE DEF u
<1>11. Format!Unsigned(Bytes(u, w)) = u
  <2>1. u \in Nat /\ u < Bits(w * ByteBits)
    BY <1>2, <1>3, <1>4, <1>10
  <2> QED
    BY <2>1, UnsignedIs
<1>12. Len(Bytes(u, w)) = w
  BY DEF Bytes
<1>13. Format!DecodePcmSample(Bytes(u, w), valid) = q * E
  <2>1. Len(Bytes(u, w)) * ByteBits = n
    BY <1>2, <1>12
  <2>2. CASE w = 1
    <3>1. K = H /\ P = 1 /\ valid = n
      BY <1>2, <2>2, Pow2Step DEF K, H, P, Bits
    <3>2. v = q /\ u = q + H
      BY <1>6, <2>2, <3>1 DEF u, v
    <3>3. Format!DecodePcmSample(Bytes(u, w), valid)
            = (u - Bits(n - 1)) * (Format!One \div Bits(n - 1))
      BY <1>11, <1>12, <2>1, <2>2 DEF Format!DecodePcmSample, Bits
    <3>4. (u - H) * (Format!One \div H) = q * E
      BY <1>3, <1>6, <1>7, <3>1, <3>2
    <3> QED
      BY <3>3, <3>4 DEF H
  <2>3. CASE w # 1
    <3>1. Format!Signed(Bytes(u, w)) = v
      <4>1. Format!Signed(Bytes(u, w)) = IF u >= Bits(n - 1) THEN u - Bits(n) ELSE u
        BY <1>11, <2>1 DEF Format!Signed, Bits
      <4>2. u = v % (2 * H)
        BY <2>3 DEF u
      <4>3. (IF v % (2 * H) >= H THEN (v % (2 * H)) - 2 * H ELSE v % (2 * H)) = v
        BY <1>3, <1>6, SignedIs
      <4> QED
        BY <1>4, <4>1, <4>2, <4>3 DEF H
    <3>2. Format!DecodePcmSample(Bytes(u, w), valid)
            = Format!ClampUnit((v \div Bits(n - valid)) * (Format!One \div Bits(valid - 1)), Format!One)
      <4>1. Len(Bytes(u, w)) \in 2..4 /\ Len(Bytes(u, w)) # 1 /\ valid > 0 /\ valid <= n
        BY <1>2, <1>12, <2>3
      <4> QED
        BY <2>1, <3>1, <4>1 DEF Format!DecodePcmSample, Bits
    <3>3. (v \div P) * (Format!One \div K) = q * E
      BY <1>6, <1>7
    <3>4. Format!ClampUnit(q * E, Format!One) = q * E
      BY <1>3, <1>4, <1>8, ClampKeeps
    <3> QED
      BY <3>2, <3>3, <3>4 DEF P, K
  <2> QED
    BY <2>2, <2>3
<1>14. Format!ReadInputSample(f, x) = Format!DecodePcmSample(Bytes(u, w), valid)
  BY <1>2, <1>5, Zenon DEF Format!ReadInputSample, u, v, q
<1> QED
  BY <1>2, <1>9, <1>13, <1>14 DEF E

-----------------------------------------------------------------------------
(* Sums.                                                                   *)
\* g is the sums of the first n of a, one after the other.
Sums(g, a, n) == g = [i \in 0..n |-> IF i = 0 THEN 0 ELSE g[i - 1] + a[i]]

LEMMA SumsExist == ASSUME NEW a, NEW n \in Nat PROVE \E g : Sums(g, a, n)
<1> DEFINE S == {m \in Nat : \E g : Sums(g, a, m)}
<1>1. 0 \in S
  <2>1. Sums([i \in 0..0 |-> 0], a, 0)
    BY DEF Sums
  <2> QED
    BY <2>1
<1>2. ASSUME NEW m \in S PROVE m + 1 \in S
  <2>1. PICK g : Sums(g, a, m)
    OBVIOUS
  <2> DEFINE h == [i \in 0..m + 1 |-> IF i <= m THEN g[i] ELSE g[m] + a[m + 1]]
  <2>2. \A i \in 0..m : g[i] = IF i = 0 THEN 0 ELSE g[i - 1] + a[i]
    BY <2>1, Zenon DEF Sums
  <2>3. ASSUME NEW i \in 0..m + 1 PROVE h[i] = IF i = 0 THEN 0 ELSE h[i - 1] + a[i]
    <3>1. CASE i = 0
      BY <2>2, <3>1
    <3>2. CASE i # 0 /\ i <= m
      <4>1. i \in 0..m /\ i - 1 \in 0..m + 1 /\ i - 1 <= m
        BY <3>2
      <4>2. h[i] = g[i] /\ h[i - 1] = g[i - 1]
        BY <3>2, <4>1
      <4> QED
        BY <2>2, <3>2, <4>1, <4>2
    <3>3. CASE i = m + 1
      <4>1. i - 1 = m /\ m \in 0..m + 1 /\ m <= m /\ ~(i <= m) /\ i # 0
        BY <3>3
      <4>2. h[i] = g[m] + a[m + 1] /\ h[i - 1] = g[m]
        BY <4>1
      <4> QED
        BY <3>3, <4>1, <4>2
    <3> QED
      BY <3>1, <3>2, <3>3
  <2>4. h = [i \in 0..m + 1 |-> h[i]]
    OBVIOUS
  <2> HIDE DEF h
  <2>5. Sums(h, a, m + 1)
    BY <2>3, <2>4 DEF Sums
  <2> QED
    BY <2>5
<1> HIDE DEF S
<1>3. S = Nat
  <2>1. S \in SUBSET Nat
    BY DEF S
  <2> QED
    BY <1>1, <1>2, <2>1, SetInduction
<1> QED
  BY <1>3 DEF S

LEMMA TotalIs ==
  ASSUME NEW a, Len(a) \in Nat
  PROVE  \E g : /\ Format!Total(a) = g[Len(a)] /\ g[0] = 0
                /\ \A i \in 1..Len(a) : g[i] = g[i - 1] + a[i]
<1> DEFINE g == CHOOSE h : h = [i \in 0..Len(a) |-> IF i = 0 THEN 0 ELSE h[i - 1] + a[i]]
<1>1. Format!Total(a) = g[Len(a)]
  BY Zenon DEF Format!Total
<1>2. g = [i \in 0..Len(a) |-> IF i = 0 THEN 0 ELSE g[i - 1] + a[i]]
  BY SumsExist, Zenon DEF Sums
<1> HIDE DEF g
<1>3. g[0] = 0 /\ \A i \in 1..Len(a) : g[i] = g[i - 1] + a[i]
  <2>1. \A i \in 0..Len(a) : g[i] = IF i = 0 THEN 0 ELSE g[i - 1] + a[i]
    BY <1>2, Zenon
  <2> QED
    BY <2>1
<1> QED
  BY <1>1, <1>3, Zenon
-----------------------------------------------------------------------------
(* Channels.                                                               *)
LEMMA ChannelCounts ==
  ASSUME NEW mask
  PROVE  /\ Format!ChannelOf(mask, 0) = 0
         /\ \A k \in 1..18 :
              Format!ChannelOf(mask, k) =
                Format!ChannelOf(mask, k - 1) + IF Format!Positions[k] \in mask THEN 1 ELSE 0
         /\ \A k \in 0..18 : Format!ChannelOf(mask, k) \in Nat
<1> DEFINE C(k) == {j \in 1..k : Format!Positions[j] \in mask}
<1>1. \A k \in 0..18 : IsFiniteSet(C(k)) /\ Cardinality(C(k)) \in Nat
  <2> TAKE k \in 0..18
  <2>1. IsFiniteSet(1..k)
    BY FS_Interval
  <2>2. IsFiniteSet(C(k))
    BY <2>1, FS_Subset
  <2> QED
    BY <2>2, FS_CardinalityType
<1>2. Cardinality(C(0)) = 0
  <2>1. C(0) = {}
    OBVIOUS
  <2> QED
    BY <2>1, FS_EmptySet
<1>3. ASSUME NEW k \in 1..18
      PROVE  Cardinality(C(k)) = Cardinality(C(k - 1)) + IF Format!Positions[k] \in mask THEN 1 ELSE 0
  <2>1. k - 1 \in 0..18 /\ k \notin C(k - 1)
    OBVIOUS
  <2>2. CASE Format!Positions[k] \in mask
    <3>1. C(k) = C(k - 1) \cup {k}
      BY <2>2
    <3> HIDE DEF C
    <3>2. Cardinality(C(k - 1) \cup {k}) = Cardinality(C(k - 1)) + 1
      BY <1>1, <2>1, FS_AddElement
    <3> QED
      BY <2>2, <3>1, <3>2
  <2>3. CASE Format!Positions[k] \notin mask
    <3>1. C(k) = C(k - 1)
      BY <2>3
    <3> HIDE DEF C
    <3> QED
      BY <1>1, <2>1, <2>3, <3>1
  <2> QED
    BY <2>2, <2>3
<1>4. \A S : Format!Cardinality(S) = Cardinality(S)
  BY DEF Format!Cardinality, Cardinality
<1> QED
  BY <1>1, <1>2, <1>3, <1>4 DEF Format!ChannelOf

LEMMA ChannelsGrow ==
  ASSUME NEW mask, NEW j \in 0..18, NEW k \in 0..18, j <= k
  PROVE  /\ Format!ChannelOf(mask, j) <= Format!ChannelOf(mask, k)
         /\ j < k /\ Format!Positions[k] \in mask =>
              Format!ChannelOf(mask, j) < Format!ChannelOf(mask, k)
<1> DEFINE S == {m \in Nat : j <= m /\ m <= 18 => Format!ChannelOf(mask, j) <= Format!ChannelOf(mask, m)}
<1>1. 0 \in S
  BY ChannelCounts
<1>2. ASSUME NEW m \in S PROVE m + 1 \in S
  <2> SUFFICES ASSUME j <= m + 1, m + 1 <= 18
      PROVE  Format!ChannelOf(mask, j) <= Format!ChannelOf(mask, m + 1)
    OBVIOUS
  <2>1. CASE j = m + 1
    <3>1. Format!ChannelOf(mask, j) \in Nat
      BY ChannelCounts
    <3> QED
      BY <2>1, <3>1
  <2>2. CASE j <= m
    <3>1. /\ Format!ChannelOf(mask, m) \in Nat /\ Format!ChannelOf(mask, j) \in Nat
          /\ m + 1 \in 1..18 /\ (m + 1) - 1 = m
          /\ Format!ChannelOf(mask, j) <= Format!ChannelOf(mask, m)
      BY <2>2, ChannelCounts
    <3>2. Format!ChannelOf(mask, m + 1) =
            Format!ChannelOf(mask, m) + IF Format!Positions[m + 1] \in mask THEN 1 ELSE 0
      BY <3>1, ChannelCounts
    <3> QED
      BY <3>1, <3>2
  <2> QED
    BY <2>1, <2>2
<1> HIDE DEF S
<1>3. S = Nat
  <2>1. S \in SUBSET Nat
    BY DEF S
  <2> QED
    BY <1>1, <1>2, <2>1, SetInduction
<1>4. \A m \in j..18 : Format!ChannelOf(mask, j) <= Format!ChannelOf(mask, m)
  BY <1>3 DEF S
<1>5. ASSUME j < k, Format!Positions[k] \in mask
      PROVE  Format!ChannelOf(mask, j) < Format!ChannelOf(mask, k)
  <2>1. k - 1 \in j..18 /\ k \in 1..18 /\ k - 1 \in 0..18
    BY <1>5
  <2>2. /\ Format!ChannelOf(mask, k) = Format!ChannelOf(mask, k - 1) + 1
        /\ Format!ChannelOf(mask, k - 1) \in Nat /\ Format!ChannelOf(mask, j) \in Nat
    BY <1>5, <2>1, ChannelCounts
  <2> QED
    BY <1>4, <2>1, <2>2
<1> QED
  BY <1>4, <1>5

\* The channel of a position is that position's, and within the frame.
LEMMA BitIs ==
  ASSUME NEW mask, NEW k \in 1..18, Format!Positions[k] \in mask
  PROVE  /\ Format!BitOf(mask, Format!ChannelOf(mask, k)) = k
         /\ Format!ChannelOf(mask, k) \in 1..Format!ChannelOf(mask, 18)
         /\ Format!ChannelOf(mask, k) - 1 = Format!ChannelOf(mask, k - 1)
<1> DEFINE c == Format!ChannelOf(mask, k)
<1>1. ASSUME NEW j \in 1..18, Format!Positions[j] \in mask, Format!ChannelOf(mask, j) = c
      PROVE  j = k
  <2>1. ~(j < k)
    BY <1>1, ChannelsGrow, ChannelCounts
  <2>2. ~(k < j)
    BY <1>1, ChannelsGrow, ChannelCounts
  <2> QED
    BY <2>1, <2>2
<1>2. DOMAIN Format!Positions = 1..18
  BY DEF Format!Positions
<1>3. Format!BitOf(mask, c) = k
  <2> DEFINE b == CHOOSE j \in 1..18 : Format!Positions[j] \in mask /\ Format!ChannelOf(mask, j) = c
  <2>1. b \in 1..18 /\ Format!Positions[b] \in mask /\ Format!ChannelOf(mask, b) = c
    <3> HIDE DEF c
    <3>1. \E j \in 1..18 : Format!Positions[j] \in mask /\ Format!ChannelOf(mask, j) = c
      BY DEF c
    <3> QED
      BY <3>1, Zenon
  <2>2. b = Format!BitOf(mask, c)
    BY <1>2, Zenon DEF Format!BitOf
  <2> HIDE DEF b, c
  <2>3. b = k
    BY <2>1, <1>1
  <2> QED
    BY <2>2, <2>3
<1>4. k - 1 \in 0..18 /\ k \in 0..18 /\ 18 \in 0..18 /\ k <= 18
  OBVIOUS
<1>5. /\ c = Format!ChannelOf(mask, k - 1) + 1 /\ Format!ChannelOf(mask, k - 1) \in Nat
      /\ Format!ChannelOf(mask, 18) \in Nat
  BY <1>4, ChannelCounts
<1>6. c <= Format!ChannelOf(mask, 18)
  BY <1>4, ChannelsGrow
<1> QED
  BY <1>3, <1>5, <1>6

-----------------------------------------------------------------------------
(* The mix, as a sum over the positions.                                   *)
\* What the k-th position adds to a side.
Adds(mask, s, k, side) ==
  IF Format!Positions[k] \in mask
  THEN s[Format!Positions[k]] * Format!Gains(Format!Positions[k], Format!ChannelOf(mask, k))[side]
  ELSE 0

SideOf(mask, s, side) ==
  Adds(mask, s, 1, side) + Adds(mask, s, 2, side) + Adds(mask, s, 3, side) +
  Adds(mask, s, 4, side) + Adds(mask, s, 5, side) + Adds(mask, s, 6, side) +
  Adds(mask, s, 7, side) + Adds(mask, s, 8, side) + Adds(mask, s, 9, side) +
  Adds(mask, s, 10, side) + Adds(mask, s, 11, side) + Adds(mask, s, 12, side) +
  Adds(mask, s, 13, side) + Adds(mask, s, 14, side) + Adds(mask, s, 15, side) +
  Adds(mask, s, 16, side) + Adds(mask, s, 17, side) + Adds(mask, s, 18, side)

Masks == {layout.mask : layout \in DeviceLayouts}

LEMMA MaskIs ==
  ASSUME NEW mask \in Masks
  PROVE  /\ \A p \in mask : \E k \in 1..18 : p = Format!Positions[k]
         /\ \A p \in mask : Format!Mirror(p) \in mask
         /\ mask \cap {"FLC", "FRC", "TC", "TBC"} # {} => "FL" \in mask /\ "FR" \in mask
<1>1. DOMAIN Format!Positions = 1..18
  BY DEF Format!Positions
<1>2. PICK layout \in DeviceLayouts : mask = layout.mask
  BY DEF Masks
<1>3. /\ mask \subseteq {Format!Positions[k] : k \in DOMAIN Format!Positions}
      /\ \A p \in mask : Format!Mirror(p) \in mask
      /\ mask \cap {"FLC", "FRC", "TC", "TBC"} # {} => {"FL", "FR"} \subseteq mask
  BY <1>2, PartsAssumption DEF Format!FormatAssumption
<1> QED
  BY <1>1, <1>3

LEMMA GainsAre ==
  ASSUME NEW p, NEW i \in Int
  PROVE  Format!Gains(p, i)[1] \in Int /\ Format!Gains(p, i)[2] \in Int
  BY DEF Format!Gains

LEMMA AddsAre ==
  ASSUME NEW mask \in Masks, NEW s \in [mask -> Int], NEW k \in 1..18, NEW side \in 1..2
  PROVE  Adds(mask, s, k, side) \in Int
<1>1. Format!ChannelOf(mask, k) \in Int
  BY ChannelCounts
<1>2. Format!Gains(Format!Positions[k], Format!ChannelOf(mask, k))[side] \in Int
  BY <1>1, GainsAre
<1> QED
  BY <1>2 DEF Adds

\* The sums of what the channels add, and the channels of the mask among them.
SumOf(g, a) == g[0] = 0 /\ \A i \in 1..Len(a) : g[i] = g[i - 1] + a[i]

AddsOf(a, mask, s, side) ==
  /\ Len(a) \in Nat /\ Format!ChannelOf(mask, 18) <= Len(a)
  /\ \A k \in 1..18 : Format!Positions[k] \in mask =>
       a[Format!ChannelOf(mask, k)] = Adds(mask, s, k, side)

\* The sum over the channels of the mask is the sum over the positions.
LEMMA SumIs ==
  ASSUME NEW mask \in Masks, NEW s \in [mask -> Int], NEW side \in 1..2, NEW a, NEW g,
         SumOf(g, a), AddsOf(a, mask, s, side)
  PROVE  g[Format!ChannelOf(mask, 18)] = SideOf(mask, s, side)
<1> USE DEF SumOf, AddsOf
<1> DEFINE c(k) == Format!ChannelOf(mask, k)
           d(k) == Adds(mask, s, k, side)
<1>1. c(0) = 0 /\ c(18) \in Nat
  BY ChannelCounts
<1>3. \A k \in 1..18 : g[c(k)] = IF Format!Positions[k] \in mask THEN g[c(k - 1)] + d(k) ELSE g[c(k - 1)]
  <2> TAKE k \in 1..18
  <2>1. CASE Format!Positions[k] \in mask
    <3>1. c(k) \in 1..c(18) /\ c(k) - 1 = c(k - 1)
      BY <2>1, BitIs
    <3>2. c(k) \in 1..Len(a)
      BY <1>1, <3>1
    <3>3. g[c(k)] = g[c(k) - 1] + a[c(k)]
      BY <3>2
    <3>4. a[c(k)] = d(k)
      BY <2>1
    <3> QED
      BY <2>1, <3>1, <3>3, <3>4, Zenon
  <2>2. CASE Format!Positions[k] \notin mask
    <3>1. c(k) = c(k - 1) + IF Format!Positions[k] \in mask THEN 1 ELSE 0
      BY ChannelCounts
    <3>2. k - 1 \in 0..18
      OBVIOUS
    <3>3. c(k - 1) \in Nat
      BY <3>2, ChannelCounts
    <3>4. c(k) = c(k - 1)
      BY <2>2, <3>1, <3>3
    <3> QED
      BY <2>2, <3>4, Zenon
  <2> QED
    BY <2>1, <2>2
<1>4. \A k \in 1..18 : d(k) \in Int /\ (Format!Positions[k] \notin mask => d(k) = 0)
  BY AddsAre DEF Adds
<1> DEFINE r(k) == g[c(k)]
<1>5. r(0) = 0
  BY <1>1
<1>6. \A k \in 1..18 : r(k - 1) \in Int => r(k) \in Int /\ r(k) = r(k - 1) + d(k)
  <2> TAKE k \in 1..18
  <2> HAVE r(k - 1) \in Int
  <2> DEFINE v == g[c(k - 1)]
             w == g[c(k)]
  <2>1. v \in Int /\ w = IF Format!Positions[k] \in mask THEN v + d(k) ELSE v
    BY <1>3
  <2>2. d(k) \in Int /\ (Format!Positions[k] \notin mask => d(k) = 0)
    BY <1>4
  <2> HIDE DEF d, v, w
  <2>3. w \in Int /\ w = v + d(k)
    <3>1. CASE Format!Positions[k] \in mask
      <4>1. w = v + d(k)
        BY <2>1, <3>1, Zenon
      <4>2. PICK x \in Int, y \in Int : x = v /\ y = d(k)
        BY <2>1, <2>2, Zenon
      <4>3. w = x + y
        BY <4>1, <4>2, Zenon
      <4> QED
        BY <4>2, <4>3
    <3>2. CASE Format!Positions[k] \notin mask
      <4>1. w = v /\ d(k) = 0
        BY <2>1, <2>2, <3>2, Zenon
      <4> QED
        BY <2>1, <4>1
    <3> QED
      BY <3>1, <3>2
  <2> QED
    BY <2>3 DEF v, w
<1>7. g[Format!ChannelOf(mask, 18)] = r(18)
  OBVIOUS
<1> HIDE DEF r, d, c
<1>8. \A k \in 0..18 : r(k) \in Int
  <2> DEFINE S == {m \in Nat : m <= 18 => r(m) \in Int}
  <2>1. 0 \in S
    BY <1>5
  <2>2. ASSUME NEW m \in S PROVE m + 1 \in S
    <3> SUFFICES ASSUME m + 1 <= 18 PROVE r(m + 1) \in Int
      OBVIOUS
    <3>1. m + 1 \in 1..18 /\ (m + 1) - 1 = m /\ r(m) \in Int
      OBVIOUS
    <3> QED
      BY <1>6, <3>1
  <2>3. S \in SUBSET Nat
    OBVIOUS
  <2> HIDE DEF S
  <2>4. S = Nat
    BY <2>1, <2>2, <2>3, SetInduction
  <2> QED
    <3> TAKE k \in 0..18
    <3>1. k \in Nat /\ k <= 18 /\ k \in S
      BY <2>4
    <3> HIDE DEF r
    <3>2. k <= 18 => r(k) \in Int
      BY <3>1, Zenon DEF S
    <3> QED
      BY <3>1, <3>2, Zenon
<1>9. \A k \in 0..17 : r(k + 1) = r(k) + d(k + 1)
  <2> TAKE k \in 0..17
  <2>1. k + 1 \in 1..18 /\ (k + 1) - 1 = k /\ k \in 0..18
    OBVIOUS
  <2>2. r(k) \in Int
    BY <1>8, <2>1, Zenon
  <2> QED
    BY <1>6, <2>1, <2>2
<1>10. \A k \in 1..18 : d(k) \in Int
  BY <1>4
<1>11. r(6) = d(1) + d(2) + d(3) + d(4) + d(5) + d(6)
  BY <1>5, <1>8, <1>9, <1>10
<1>12. r(12) = r(6) + d(7) + d(8) + d(9) + d(10) + d(11) + d(12)
  BY <1>8, <1>9, <1>10
<1>13. r(18) = r(12) + d(13) + d(14) + d(15) + d(16) + d(17) + d(18)
  BY <1>8, <1>9, <1>10
<1>14. r(18) = d(1) + d(2) + d(3) + d(4) + d(5) + d(6) + d(7) + d(8) + d(9) +
         d(10) + d(11) + d(12) + d(13) + d(14) + d(15) + d(16) + d(17) + d(18)
  BY <1>8, <1>10, <1>11, <1>12, <1>13
<1> QED
  BY <1>7, <1>14, Zenon DEF SideOf, d

-----------------------------------------------------------------------------
(* Left and right.                                                         *)
\* The bit of the position on the other side.
OtherBit == <<2, 1, 3, 4, 6, 5, 8, 7, 9, 11, 10, 12, 15, 14, 13, 18, 17, 16>>

LEMMA Mirrors ==
  ASSUME NEW k \in 1..18
  PROVE  /\ OtherBit[k] \in 1..18 /\ OtherBit[OtherBit[k]] = k
         /\ Format!Positions[OtherBit[k]] = Format!Mirror(Format!Positions[k])
         /\ Format!Positions[k] \in {"FLC", "FRC", "TC", "TBC"} => k > 2 /\ OtherBit[k] > 2
  BY DEF OtherBit, Format!Positions, Format!Mirror

LEMMA GainsMirror ==
  ASSUME NEW k \in 1..18, NEW i \in Int, NEW j \in Int,
         Format!Positions[k] \in {"FLC", "FRC", "TC", "TBC"} => i > 2 /\ j > 2
  PROVE  /\ Format!Gains(Format!Positions[OtherBit[k]], j)[1] = Format!Gains(Format!Positions[k], i)[2]
         /\ Format!Gains(Format!Positions[OtherBit[k]], j)[2] = Format!Gains(Format!Positions[k], i)[1]
<1> DEFINE p == Format!Positions[k]
           q == Format!Positions[OtherBit[k]]
<1>1. q = Format!Mirror(p)
  BY Mirrors
<1>2. p \in {"FL", "FR", "FC", "LFE", "BL", "BR", "FLC", "FRC", "BC",
            "SL", "SR", "TC", "TFL", "TFC", "TFR", "TBL", "TBC", "TBR"}
  BY DEF Format!Positions
<1> HIDE DEF p, q
<1>3. Format!Gains(q, j)[1] = Format!Gains(p, i)[2] /\ Format!Gains(q, j)[2] = Format!Gains(p, i)[1]
  <2>1. CASE p \in {"FL", "FR", "BL", "BR", "SL", "SR", "TFL", "TFR", "TBL", "TBR"}
    BY <1>1, <2>1 DEF Format!Mirror, Format!Gains
  <2>2. CASE p \in {"FC", "LFE", "BC", "TFC"}
    <3>1. q = p
      BY <1>1, <2>2 DEF Format!Mirror
    <3>2. CASE p = "LFE"
      <4>1. Format!Gains(p, i) = <<5, 5>> /\ Format!Gains(p, j) = <<5, 5>>
        BY <3>2 DEF Format!Gains
      <4> QED
        BY <3>1, <4>1
    <3>3. CASE p \in {"FC", "BC", "TFC"}
      <4>1. Format!Gains(p, i) = <<7, 7>> /\ Format!Gains(p, j) = <<7, 7>>
        BY <3>3 DEF Format!Gains
      <4> QED
        BY <3>1, <4>1
    <3> QED
      BY <2>2, <3>2, <3>3
  <2>3. CASE p \in {"FLC", "FRC", "TC", "TBC"}
    <3>1. q \in {"FLC", "FRC", "TC", "TBC"}
      BY <1>1, <2>3 DEF Format!Mirror
    <3>2. i > 2 /\ j > 2
      BY <2>3 DEF p
    <3>3. Format!Gains(p, i) = <<5, 5>> /\ Format!Gains(q, j) = <<5, 5>>
      BY <2>3, <3>1, <3>2 DEF Format!Gains
    <3> QED
      BY <3>3
  <2> QED
    BY <1>2, <2>1, <2>2, <2>3
<1> QED
  BY <1>3 DEF p, q

\* Behind both front speakers, a channel is not one of the first two.
LEMMA ChannelsBehind ==
  ASSUME NEW mask \in Masks, NEW k \in 3..18, Format!Positions[k] \in mask,
         "FL" \in mask, "FR" \in mask
  PROVE  Format!ChannelOf(mask, k) > 2
<1>1. Format!Positions[1] = "FL" /\ Format!Positions[2] = "FR"
  BY DEF Format!Positions
<1>2. /\ 1 \in 1..18 /\ 1 - 1 = 0 /\ 2 \in 1..18 /\ 2 - 1 = 1 /\ 2 \in 0..18 /\ k \in 0..18
      /\ 2 <= k /\ 2 < k
  OBVIOUS
<1>3. Format!ChannelOf(mask, 1) = 0 + 1
  BY <1>1, <1>2, ChannelCounts
<1>4. Format!ChannelOf(mask, 2) = 1 + 1
  BY <1>1, <1>2, <1>3, ChannelCounts
<1>5. Format!ChannelOf(mask, 2) < Format!ChannelOf(mask, k)
  BY <1>2, ChannelsGrow
<1> QED
  BY <1>4, <1>5

Mirrored(s) == [p \in DOMAIN s |-> s[Format!Mirror(p)]]

LEMMA AddsMirror ==
  ASSUME NEW mask \in Masks, NEW s \in [mask -> Int], NEW k \in 1..18
  PROVE  /\ Adds(mask, Mirrored(s), k, 1) = Adds(mask, s, OtherBit[k], 2)
         /\ Adds(mask, Mirrored(s), k, 2) = Adds(mask, s, OtherBit[k], 1)
<1> DEFINE j == OtherBit[k]
           P(i) == Format!Positions[i]
           c(i) == Format!ChannelOf(mask, i)
<1>1. j \in 1..18 /\ OtherBit[j] = k /\ P(j) = Format!Mirror(P(k)) /\ P(k) = Format!Mirror(P(j))
  BY Mirrors
<1>2. P(k) \in mask <=> P(j) \in mask
  BY <1>1, MaskIs
<1>3. CASE P(k) \in mask
  <2>1. Mirrored(s)[P(k)] = s[P(j)]
    BY <1>1, <1>3 DEF Mirrored
  <2>2. P(k) \in {"FLC", "FRC", "TC", "TBC"} => c(k) > 2 /\ c(j) > 2
    <3> SUFFICES ASSUME P(k) \in {"FLC", "FRC", "TC", "TBC"} PROVE c(k) > 2 /\ c(j) > 2
      OBVIOUS
    <3>1. k > 2 /\ j > 2
      BY Mirrors
    <3>2. "FL" \in mask /\ "FR" \in mask
      BY <1>3, MaskIs
    <3>3. k \in 3..18 /\ j \in 3..18
      BY <1>1, <3>1
    <3> QED
      BY <1>2, <1>3, <3>2, <3>3, ChannelsBehind
  <2>3. c(k) \in Int /\ c(j) \in Int
    BY <1>1, ChannelCounts
  <2>4. /\ Format!Gains(P(j), c(j))[1] = Format!Gains(P(k), c(k))[2]
        /\ Format!Gains(P(j), c(j))[2] = Format!Gains(P(k), c(k))[1]
    BY <2>2, <2>3, GainsMirror
  <2> QED
    BY <1>2, <1>3, <2>1, <2>4, Zenon DEF Adds
<1>4. CASE P(k) \notin mask
  BY <1>2, <1>4, Zenon DEF Adds
<1> QED
  BY <1>3, <1>4

LEMMA MirroredType ==
  ASSUME NEW mask \in Masks, NEW s \in [mask -> Int] PROVE Mirrored(s) \in [mask -> Int]
<1>1. \A p \in mask : s[Format!Mirror(p)] \in Int
  BY MaskIs
<1> QED
  BY <1>1 DEF Mirrored

LEMMA SideIsSide ==
  ASSUME NEW mask \in Masks, NEW s \in [mask -> Int], NEW x \in 1..2, NEW y \in 1..2,
         \A k \in 1..18 : Adds(mask, Mirrored(s), k, x) = Adds(mask, s, OtherBit[k], y)
  PROVE  SideOf(mask, Mirrored(s), x) = SideOf(mask, s, y)
<1> DEFINE u(k) == Adds(mask, Mirrored(s), k, x)
           v(k) == Adds(mask, s, k, y)
<1>1. \A k \in 1..18 : u(k) = v(OtherBit[k])
  OBVIOUS
<1>2. \A k \in 1..18 : u(k) \in Int /\ v(k) \in Int
  BY MirroredType, AddsAre
<1>3. SideOf(mask, Mirrored(s), x) = u(1) + u(2) + u(3) + u(4) + u(5) + u(6) + u(7) + u(8) + u(9) +
      u(10) + u(11) + u(12) + u(13) + u(14) + u(15) + u(16) + u(17) + u(18)
  BY Zenon DEF SideOf
<1>4. SideOf(mask, s, y) = v(1) + v(2) + v(3) + v(4) + v(5) + v(6) + v(7) + v(8) + v(9) +
      v(10) + v(11) + v(12) + v(13) + v(14) + v(15) + v(16) + v(17) + v(18)
  BY Zenon DEF SideOf
<1> HIDE DEF u, v
<1>5. /\ u(1) = v(2) /\ u(2) = v(1) /\ u(3) = v(3) /\ u(4) = v(4) /\ u(5) = v(6) /\ u(6) = v(5)
      /\ u(7) = v(8) /\ u(8) = v(7) /\ u(9) = v(9) /\ u(10) = v(11) /\ u(11) = v(10) /\ u(12) = v(12)
      /\ u(13) = v(15) /\ u(14) = v(14) /\ u(15) = v(13) /\ u(16) = v(18) /\ u(17) = v(17) /\ u(18) = v(16)
  BY <1>1 DEF OtherBit
<1>6. u(1) + u(2) + u(3) + u(4) + u(5) + u(6) + u(7) + u(8) + u(9) +
      u(10) + u(11) + u(12) + u(13) + u(14) + u(15) + u(16) + u(17) + u(18) =
      v(1) + v(2) + v(3) + v(4) + v(5) + v(6) + v(7) + v(8) + v(9) +
      v(10) + v(11) + v(12) + v(13) + v(14) + v(15) + v(16) + v(17) + v(18)
  BY <1>2, <1>5
<1> QED
  BY <1>3, <1>4, <1>6

LEMMA SidesMirror ==
  ASSUME NEW mask \in Masks, NEW s \in [mask -> Int]
  PROVE  /\ SideOf(mask, Mirrored(s), 1) = SideOf(mask, s, 2)
         /\ SideOf(mask, Mirrored(s), 2) = SideOf(mask, s, 1)
<1>1. 1 \in 1..2 /\ 2 \in 1..2
  OBVIOUS
<1> QED
  BY <1>1, AddsMirror, SideIsSide

\* The sums of two frames are the same if they are at the last channel of
\* the mask and the channels behind it add the same.
GrowAlike(g, h, a, b, n, m) ==
  \A i \in n + 1..n + m : g[i] = g[i - 1] + a[i] /\ h[i] = h[i - 1] + b[i] /\ a[i] = b[i]

LEMMA SameTail ==
  ASSUME NEW n \in Nat, NEW m \in Nat, NEW a, NEW b, NEW g, NEW h,
         g[n] = h[n], GrowAlike(g, h, a, b, n, m)
  PROVE  g[n + m] = h[n + m]
<1> USE DEF GrowAlike
<1> DEFINE S == {j \in Nat : j <= m => g[n + j] = h[n + j]}
<1>1. 0 \in S
  OBVIOUS
<1>2. ASSUME NEW j \in S PROVE j + 1 \in S
  <2> SUFFICES ASSUME j + 1 <= m PROVE g[n + (j + 1)] = h[n + (j + 1)]
    OBVIOUS
  <2>1. g[n + j] = h[n + j]
    OBVIOUS
  <2> DEFINE i == n + (j + 1)
  <2>2. i \in n + 1..n + m /\ i - 1 = n + j
    OBVIOUS
  <2> HIDE DEF i
  <2>3. g[i] = g[n + j] + a[i] /\ h[i] = h[n + j] + a[i]
    BY <2>2, Zenon
  <2> QED
    BY <2>1, <2>3, Zenon DEF i
<1> HIDE DEF S
<1>3. S = Nat
  <2>1. S \in SUBSET Nat
    BY DEF S
  <2> QED
    BY <1>1, <1>2, <2>1, SetInduction
<1>4. m \in S /\ m <= m
  BY <1>3
<1> QED
  BY <1>4, Zenon DEF S

\* How many channels of a frame have a position, of the speakers that
\* there are without a mask or of the mask.
Placed(layout) == Format!ChannelOf(Format!Speakers(layout.mask), 18)

LEMMA LayoutIs ==
  ASSUME NEW layout \in DeviceLayouts
  PROVE  /\ layout.mask \in Masks /\ layout.more \in Nat /\ Placed(layout) \in Nat
         /\ layout.mask # {} =>
              /\ Placed(layout) = Format!ChannelOf(layout.mask, 18) /\ Placed(layout) >= 1
              /\ Placed(layout) = 1 => layout.more = 0
<1>1. layout.mask \in Masks
  BY DEF Masks
<1>2. Placed(layout) \in Nat
  BY ChannelCounts DEF Placed
<1>3. Format!Channels(layout.mask) = Format!ChannelOf(layout.mask, 18)
  <2>1. Len(Format!Positions) = 18
    BY DEF Format!Positions
  <2> QED
    BY <2>1, Zenon DEF Format!Channels
<1>4. layout.more \in Nat /\ (Format!ChannelOf(layout.mask, 18) = 1 => layout.more = 0)
  BY <1>3, PartsAssumption DEF Format!FormatAssumption
<1>5. ASSUME layout.mask # {}
      PROVE  Placed(layout) = Format!ChannelOf(layout.mask, 18) /\ Placed(layout) >= 1
  <2>1. PICK k \in 1..18 : Format!Positions[k] \in layout.mask
    BY <1>1, <1>5, MaskIs
  <2>2. Format!ChannelOf(layout.mask, k) \in 1..Format!ChannelOf(layout.mask, 18)
    BY <2>1, BitIs
  <2>3. Placed(layout) = Format!ChannelOf(layout.mask, 18)
    BY <1>5, Zenon DEF Placed, Format!Speakers
  <2> QED
    BY <1>2, <2>2, <2>3
<1> QED
  BY <1>1, <1>2, <1>4, <1>5

\* A frame: the channels with a position, and those without.
LEMMA FrameIs ==
  ASSUME NEW layout \in DeviceLayouts, NEW s
  PROVE  /\ Len(Format!FrameOf(s, layout)) = Placed(layout) + layout.more
         /\ \A k \in 1..18 : Format!Positions[k] \in Format!Speakers(layout.mask) =>
              /\ Format!ChannelOf(Format!Speakers(layout.mask), k) \in 1..Placed(layout)
              /\ Format!FrameOf(s, layout)[Format!ChannelOf(Format!Speakers(layout.mask), k)]
                   = s.at[Format!Positions[k]]
         /\ \A i \in Placed(layout) + 1..Placed(layout) + layout.more :
              Format!FrameOf(s, layout)[i] = s.more[i - Placed(layout)]
<1> DEFINE n == Placed(layout)
           speakers == Format!Speakers(layout.mask)
           frame == Format!FrameOf(s, layout)
<1>1. n \in Nat /\ layout.more \in Nat
  BY LayoutIs
<1>2. frame = [i \in 1..n + layout.more |->
                 IF i <= n THEN s.at[Format!Positions[Format!BitOf(speakers, i)]] ELSE s.more[i - n]]
  <2>1. Len(Format!Positions) = 18
    BY DEF Format!Positions
  <2> QED
    BY <2>1, Zenon DEF Format!FrameOf, Format!Channels, Placed
<1> HIDE DEF frame, speakers
<1>3. Len(frame) = n + layout.more
  BY <1>1, <1>2
<1>4. ASSUME NEW k \in 1..18, Format!Positions[k] \in speakers
      PROVE  /\ Format!ChannelOf(speakers, k) \in 1..n
             /\ frame[Format!ChannelOf(speakers, k)] = s.at[Format!Positions[k]]
  <2> DEFINE c == Format!ChannelOf(speakers, k)
  <2>1. c \in 1..n /\ Format!BitOf(speakers, c) = k
    BY <1>4, BitIs DEF Placed, speakers
  <2> HIDE DEF c, n
  <2>2. c \in 1..n + layout.more /\ c <= n
    BY <1>1, <2>1
  <2>3. frame[c] = s.at[Format!Positions[Format!BitOf(speakers, c)]]
    BY <1>2, <2>2
  <2> QED
    BY <2>1, <2>3, Zenon DEF c
<1>5. ASSUME NEW i \in n + 1..n + layout.more PROVE frame[i] = s.more[i - n]
  <2> HIDE DEF n
  <2>1. i \in 1..n + layout.more /\ ~(i <= n)
    BY <1>1, <1>5
  <2> QED
    BY <1>2, <2>1
<1> QED
  BY <1>3, <1>4, <1>5, Zenon DEF frame, speakers

\* What the channels of a frame add to a side.
Parts(layout, s, side) ==
  [i \in 1..Len(Format!FrameOf(s, layout)) |->
     Format!FrameOf(s, layout)[i]
       * Format!Gains(Format!ChannelBitForIndex(layout.mask, i), i)[side]]

\* A channel without a position is behind the first two, and on both sides.
LEMMA PartsAre ==
  ASSUME NEW layout \in DeviceLayouts, layout.mask # {}, NEW s, NEW side \in 1..2
  PROVE  /\ Len(Parts(layout, s, side)) = Placed(layout) + layout.more
         /\ \A k \in 1..18 : Format!Positions[k] \in layout.mask =>
              Parts(layout, s, side)[Format!ChannelOf(layout.mask, k)] = Adds(layout.mask, s.at, k, side)
         /\ \A i \in Placed(layout) + 1..Placed(layout) + layout.more :
              Parts(layout, s, side)[i] = s.more[i - Placed(layout)] * 5
<1> DEFINE n == Placed(layout)
           N == n + layout.more
           mask == layout.mask
           frame == Format!FrameOf(s, layout)
           parts_ == Parts(layout, s, side)
<1>1. /\ mask \in Masks /\ layout.more \in Nat /\ n \in Nat /\ n >= 1 /\ (n = 1 => layout.more = 0)
      /\ n = Format!ChannelOf(mask, 18)
  BY LayoutIs
<1>2. mask = Format!Speakers(mask)
  BY Zenon DEF Format!Speakers
<1>3. /\ Len(frame) = N
      /\ \A k \in 1..18 : Format!Positions[k] \in mask =>
           /\ Format!ChannelOf(mask, k) \in 1..n
           /\ frame[Format!ChannelOf(mask, k)] = s.at[Format!Positions[k]]
      /\ \A i \in n + 1..N : frame[i] = s.more[i - n]
  <2> DEFINE speakers == Format!Speakers(mask)
  <2>1. /\ Len(frame) = N
        /\ \A k \in 1..18 : Format!Positions[k] \in speakers =>
             /\ Format!ChannelOf(speakers, k) \in 1..n
             /\ frame[Format!ChannelOf(speakers, k)] = s.at[Format!Positions[k]]
        /\ \A i \in n + 1..N : frame[i] = s.more[i - n]
    BY FrameIs
  <2>2. speakers = mask
    BY <1>2
  <2> HIDE DEF speakers, frame, n
  <2> QED
    BY <2>1, <2>2, Zenon
<1> HIDE DEF frame
<1>4. parts_ = [i \in 1..N |-> frame[i] * Format!Gains(Format!ChannelBitForIndex(mask, i), i)[side]]
  BY <1>3, Zenon DEF Parts, frame
<1> HIDE DEF parts_
<1>5. Len(parts_) = N
  BY <1>1, <1>4
<1>6. Format!Channels(mask) = n
  <2>1. Len(Format!Positions) = 18
    BY DEF Format!Positions
  <2> QED
    BY <1>1, <2>1, Zenon DEF Format!Channels
<1> HIDE DEF n
<1>7. ASSUME NEW k \in 1..18, Format!Positions[k] \in mask
      PROVE  parts_[Format!ChannelOf(mask, k)] = Adds(mask, s.at, k, side)
  <2> DEFINE c == Format!ChannelOf(mask, k)
  <2>1. c \in 1..n /\ frame[c] = s.at[Format!Positions[k]]
    BY <1>3, <1>7
  <2>2. Format!BitOf(mask, c) = k
    BY <1>7, BitIs
  <2> HIDE DEF c
  <2>3. c \in 1..N /\ c <= n
    BY <1>1, <2>1
  <2>4. Format!ChannelBitForIndex(mask, c) = Format!Positions[k]
    BY <1>6, <2>2, <2>3, Zenon DEF Format!ChannelBitForIndex
  <2>5. parts_[c] = frame[c] * Format!Gains(Format!ChannelBitForIndex(mask, c), c)[side]
    BY <1>4, <2>3, Zenon
  <2>6. Adds(mask, s.at, k, side) = s.at[Format!Positions[k]] * Format!Gains(Format!Positions[k], c)[side]
    BY <1>7, Zenon DEF Adds, c
  <2> QED
    BY <2>1, <2>4, <2>5, <2>6, Zenon DEF c
<1>8. ASSUME NEW i \in n + 1..N PROVE parts_[i] = s.more[i - n] * 5
  <2>1. i \in 1..N /\ ~(i <= n) /\ i > 2
    BY <1>1, <1>8
  <2>2. Format!ChannelBitForIndex(mask, i) = "none"
    BY <1>6, <2>1, Zenon DEF Format!ChannelBitForIndex
  <2>3. Format!Gains("none", i) = <<5, 5>>
    BY <2>1 DEF Format!Gains
  <2>4. <<5, 5>>[side] = 5
    OBVIOUS
  <2>5. parts_[i] = frame[i] * Format!Gains("none", i)[side]
    BY <1>4, <2>1, <2>2, Zenon
  <2>6. frame[i] = s.more[i - n]
    BY <1>3, <1>8
  <2> QED
    BY <2>3, <2>4, <2>5, <2>6, Zenon
<1> QED
  BY <1>5, <1>7, <1>8, Zenon DEF parts_, n

\* Exchanged, a frame has the same sum on the other side.
LEMMA TotalsMirror ==
  ASSUME NEW layout \in DeviceLayouts, layout.mask # {}, NEW s, s.at \in [layout.mask -> Int],
         NEW x \in 1..2, NEW y \in 1..2,
         SideOf(layout.mask, Mirrored(s.at), x) = SideOf(layout.mask, s.at, y)
  PROVE  Format!Total(Parts(layout, Format!Exchanged(s), x)) = Format!Total(Parts(layout, s, y))
<1> DEFINE mask == layout.mask
           n == Placed(layout)
           m == layout.more
           a == Parts(layout, Format!Exchanged(s), x)
           b == Parts(layout, s, y)
<1>1. mask \in Masks /\ n \in Nat /\ m \in Nat /\ n = Format!ChannelOf(mask, 18)
  BY LayoutIs
<1>2. Format!Exchanged(s).at = Mirrored(s.at) /\ Format!Exchanged(s).more = s.more
  BY DEF Format!Exchanged, Mirrored
<1>3. Mirrored(s.at) \in [mask -> Int]
  BY <1>1, MirroredType
<1>4. /\ Len(a) = n + m
      /\ \A k \in 1..18 : Format!Positions[k] \in mask =>
           a[Format!ChannelOf(mask, k)] = Adds(mask, Mirrored(s.at), k, x)
      /\ \A i \in n + 1..n + m : a[i] = s.more[i - n] * 5
  <2> DEFINE t == Format!Exchanged(s)
  <2> HIDE DEF t
  <2>1. /\ Len(Parts(layout, t, x)) = n + m
        /\ \A k \in 1..18 : Format!Positions[k] \in mask =>
             Parts(layout, t, x)[Format!ChannelOf(mask, k)] = Adds(mask, t.at, k, x)
        /\ \A i \in n + 1..n + m : Parts(layout, t, x)[i] = t.more[i - n] * 5
    BY PartsAre, Zenon
  <2> QED
    BY <1>2, <2>1, Zenon DEF t
<1>5. /\ Len(b) = n + m
      /\ \A k \in 1..18 : Format!Positions[k] \in mask =>
           b[Format!ChannelOf(mask, k)] = Adds(mask, s.at, k, y)
      /\ \A i \in n + 1..n + m : b[i] = s.more[i - n] * 5
  BY PartsAre, Zenon
<1> HIDE DEF a, b, n, m
<1>6. Len(a) \in Nat /\ Len(b) \in Nat /\ n <= Len(a) /\ n <= Len(b)
  BY <1>1, <1>4, <1>5
<1>7. PICK g : Format!Total(a) = g[Len(a)] /\ g[0] = 0 /\ \A i \in 1..Len(a) : g[i] = g[i - 1] + a[i]
  BY <1>6, TotalIs, Zenon
<1>8. PICK h : Format!Total(b) = h[Len(b)] /\ h[0] = 0 /\ \A i \in 1..Len(b) : h[i] = h[i - 1] + b[i]
  BY <1>6, TotalIs, Zenon
<1>9. g[n] = SideOf(mask, Mirrored(s.at), x)
  <2>1. SumOf(g, a) /\ AddsOf(a, mask, Mirrored(s.at), x)
    BY <1>1, <1>4, <1>6, <1>7 DEF SumOf, AddsOf
  <2>2. g[Format!ChannelOf(mask, 18)] = SideOf(mask, Mirrored(s.at), x)
    BY <1>1, <1>3, <2>1, SumIs
  <2> QED
    BY <1>1, <2>2, Zenon
<1>10. h[n] = SideOf(mask, s.at, y)
  <2>1. SumOf(h, b) /\ AddsOf(b, mask, s.at, y)
    BY <1>1, <1>5, <1>6, <1>8 DEF SumOf, AddsOf
  <2>2. h[Format!ChannelOf(mask, 18)] = SideOf(mask, s.at, y)
    BY <1>1, <2>1, SumIs
  <2> QED
    BY <1>1, <2>2, Zenon
<1>11. GrowAlike(g, h, a, b, n, m)
  <2> USE DEF GrowAlike
  <2> TAKE i \in n + 1..n + m
  <2>1. i \in 1..n + m
    BY <1>1
  <2> QED
    BY <1>4, <1>5, <1>7, <1>8, <2>1
<1>12. g[n + m] = h[n + m]
  <2>1. g[n] = h[n]
    BY <1>9, <1>10, Zenon
  <2> QED
    BY <1>1, <1>11, <2>1, SameTail
<1> QED
  BY <1>4, <1>5, <1>7, <1>8, <1>12, Zenon DEF a, b

LEMMA MixMirrors ==
  ASSUME NEW layout \in DeviceLayouts, NEW s, s.at \in [Format!Speakers(layout.mask) -> Int]
  PROVE  Format!MixFrameToStereo(layout.mask, Format!FrameOf(Format!Exchanged(s), layout))
           = <<Format!MixFrameToStereo(layout.mask, Format!FrameOf(s, layout))[2],
               Format!MixFrameToStereo(layout.mask, Format!FrameOf(s, layout))[1]>>
<1> DEFINE mask == layout.mask
           speakers == Format!Speakers(mask)
           n == Placed(layout)
           m == layout.more
           t == Format!Exchanged(s)
           p == Format!FrameOf(s, layout)
           q == Format!FrameOf(t, layout)
           x == Format!MixFrameToStereo(mask, p)
           y == Format!MixFrameToStereo(mask, q)
<1>1. mask \in Masks /\ n \in Nat /\ m \in Nat
  BY LayoutIs
<1>2. t.at = Mirrored(s.at) /\ t.more = s.more
  BY DEF Format!Exchanged, Mirrored
<1>3. Len(p) = n + m /\ Len(q) = n + m
  BY FrameIs
<1>4. ASSUME NEW k \in 1..18, Format!Positions[k] \in speakers
      PROVE  /\ Format!ChannelOf(speakers, k) \in 1..n
             /\ p[Format!ChannelOf(speakers, k)] = s.at[Format!Positions[k]]
             /\ q[Format!ChannelOf(speakers, k)] = Mirrored(s.at)[Format!Positions[k]]
  <2>1. /\ Format!ChannelOf(speakers, k) \in 1..n
        /\ p[Format!ChannelOf(speakers, k)] = s.at[Format!Positions[k]]
    BY <1>4, FrameIs, Zenon
  <2>2. q[Format!ChannelOf(speakers, k)] = t.at[Format!Positions[k]]
    BY <1>4, FrameIs, Zenon
  <2> QED
    BY <1>2, <2>1, <2>2, Zenon
<1> HIDE DEF n, m, p, q, t
<1>5. CASE mask = {}
  <2>1. speakers = {"FL", "FR"}
    BY <1>5 DEF Format!Speakers
  <2> HIDE DEF speakers, mask
  <2>2. Format!Positions[1] = "FL" /\ Format!Positions[2] = "FR"
    BY DEF Format!Positions
  <2>3. Format!ChannelOf(speakers, 1) = 1
    <3>1. 1 \in 1..18 /\ 1 - 1 = 0
      OBVIOUS
    <3> QED
      BY <2>1, <2>2, <3>1, ChannelCounts
  <2>4. Format!ChannelOf(speakers, 2) = 2
    <3>1. 2 \in 1..18 /\ 2 - 1 = 1
      OBVIOUS
    <3> QED
      BY <2>1, <2>2, <2>3, <3>1, ChannelCounts
  <2>5. /\ 2 \in 1..n
        /\ p[1] = s.at["FL"] /\ q[1] = Mirrored(s.at)["FL"]
        /\ p[2] = s.at["FR"] /\ q[2] = Mirrored(s.at)["FR"]
    <3>1. 1 \in 1..18 /\ 2 \in 1..18 /\ "FL" \in speakers /\ "FR" \in speakers
      BY <2>1
    <3> QED
      BY <1>4, <2>2, <2>3, <2>4, <3>1
  <2>6. Mirrored(s.at)["FL"] = s.at["FR"] /\ Mirrored(s.at)["FR"] = s.at["FL"]
    <3>1. s.at \in [{"FL", "FR"} -> Int]
      BY <2>1 DEF speakers, mask
    <3> QED
      BY <3>1 DEF Mirrored, Format!Mirror
  <2>7. Len(p) # 1 /\ Len(q) # 1
    BY <1>1, <1>3, <2>5
  <2>8. x = <<10 * p[1], 10 * p[2]>> /\ y = <<10 * q[1], 10 * q[2]>>
    BY <1>5, <2>7, Zenon DEF Format!MixFrameToStereo
  <2>9. q[1] = p[2] /\ q[2] = p[1]
    BY <2>5, <2>6, Zenon
  <2> HIDE DEF x, y
  <2>10. x[1] = 10 * p[1] /\ x[2] = 10 * p[2]
    BY <2>8
  <2>11. y = <<x[2], x[1]>>
    BY <2>8, <2>9, <2>10, Zenon
  <2> QED
    BY <2>11 DEF x, y, p, q, t, mask
<1>6. CASE mask # {}
  <2>1. speakers = mask
    BY <1>6, Zenon DEF Format!Speakers
  <2>2. s.at \in [mask -> Int]
    BY <2>1
  <2> HIDE DEF speakers
  <2>3. n = Format!ChannelOf(mask, 18) /\ n >= 1
    BY <1>6, LayoutIs DEF n
  <2>4. CASE n + m = 1
    <3>1. PICK k \in 1..18 : Format!Positions[k] \in mask
      BY <1>1, <1>6, MaskIs
    <3>2. /\ p[1] = s.at[Format!Positions[k]]
          /\ q[1] = Mirrored(s.at)[Format!Positions[k]]
      <4>1. Format!ChannelOf(mask, k) \in 1..n
        BY <1>4, <2>1, <3>1
      <4>2. Format!ChannelOf(mask, k) = 1
        BY <1>1, <2>3, <2>4, <4>1
      <4> QED
        BY <1>4, <2>1, <3>1, <4>2
    <3>3. OtherBit[k] = k
      <4> DEFINE j == OtherBit[k]
      <4>1. j \in 1..18 /\ Format!Positions[j] \in mask
        BY <1>1, <3>1, Mirrors, MaskIs
      <4>2. Format!ChannelOf(mask, j) \in 1..n /\ Format!ChannelOf(mask, k) \in 1..n
        BY <1>4, <2>1, <3>1, <4>1
      <4> HIDE DEF j
      <4>3. Format!ChannelOf(mask, j) = Format!ChannelOf(mask, k)
        BY <1>1, <2>3, <2>4, <4>2
      <4>4. /\ Format!BitOf(mask, Format!ChannelOf(mask, j)) = j
            /\ Format!BitOf(mask, Format!ChannelOf(mask, k)) = k
        BY <3>1, <4>1, BitIs
      <4> QED
        BY <4>3, <4>4, Zenon DEF j
    <3>4. Mirrored(s.at)[Format!Positions[k]] = s.at[Format!Positions[k]]
      <4>1. Format!Mirror(Format!Positions[k]) = Format!Positions[k]
        BY <3>3, Mirrors
      <4> QED
        BY <2>2, <3>1, <4>1 DEF Mirrored
    <3>5. x = <<10 * p[1], 10 * p[1]>> /\ y = <<10 * q[1], 10 * q[1]>>
      BY <1>3, <2>4, Zenon DEF Format!MixFrameToStereo
    <3> HIDE DEF x, y
    <3>6. x[1] = 10 * p[1] /\ x[2] = 10 * p[1]
      BY <3>5
    <3>7. y = <<x[2], x[1]>>
      BY <3>2, <3>4, <3>5, <3>6, Zenon
    <3> QED
      BY <3>7 DEF x, y, p, q, t
  <2>5. CASE n + m # 1
    <3>1. /\ x = [side \in 1..2 |-> Format!ClampUnit(Format!Total(Parts(layout, s, side)), 10)]
          /\ y = [side \in 1..2 |-> Format!ClampUnit(Format!Total(Parts(layout, t, side)), 10)]
      BY <1>3, <1>6, <2>5, Zenon DEF Format!MixFrameToStereo, Parts, p, q
    <3>2. SideOf(mask, Mirrored(s.at), 1) = SideOf(mask, s.at, 2)
      BY <1>1, <2>2, SidesMirror
    <3>3. SideOf(mask, Mirrored(s.at), 2) = SideOf(mask, s.at, 1)
      BY <1>1, <2>2, SidesMirror
    <3>4. 1 \in 1..2 /\ 2 \in 1..2
      OBVIOUS
    <3>5. Format!Total(Parts(layout, t, 1)) = Format!Total(Parts(layout, s, 2))
      BY <1>6, <2>2, <3>2, <3>4, TotalsMirror DEF t
    <3>6. Format!Total(Parts(layout, t, 2)) = Format!Total(Parts(layout, s, 1))
      BY <1>6, <2>2, <3>3, <3>4, TotalsMirror DEF t
    <3> HIDE DEF x, y
    <3>7. y[1] = x[2] /\ y[2] = x[1]
      BY <3>1, <3>5, <3>6
    <3>8. y = <<y[1], y[2]>>
      BY <3>1
    <3> QED
      BY <3>7, <3>8 DEF x, y, p, q, t
  <2> QED
    BY <2>4, <2>5
<1> QED
  BY <1>5, <1>6

-----------------------------------------------------------------------------
(* The conversion.                                                         *)
\* What is decoded was a sample of an accepted format, and what is mixed a
\* frame of the device's channels.
FormatInv ==
  /\ task \in {"sample", "decoded", "refused", "frame", "mixed"}
  /\ task \in {"sample", "decoded"} =>
       mix \in Format!Formats /\ signal \in -Format!One..Format!One - 1
  /\ task = "decoded" =>
       Format!ConfigureMixFormat(mix) /\ out = <<Format!ReadInputSample(mix, signal)>>
  /\ task \in {"frame", "mixed"} =>
       mix \in DeviceLayouts /\ signal.at \in [Format!Speakers(mix.mask) -> Int]
  /\ task = "mixed" => out = Format!MixFrameToStereo(mix.mask, Format!FrameOf(signal, mix))

LEMMA FormatInvIsEnough ==
  ASSUME FormatInv PROVE Format!PcmKeepsSignal /\ Format!MixKeepsSides
<1>1. ASSUME task = "decoded", Format!Encoding(mix) = "pcm"
      PROVE  out = <<Format!Floor(signal, Format!Pow2[4 * ByteBits - Format!ValidBits(mix)])>>
  <2>1. Format!ReadInputSample(mix, signal)
          = Format!Floor(signal, Bits(4 * ByteBits - Format!ValidBits(mix)))
    BY <1>1, SampleIsKept DEF FormatInv
  <2> QED
    BY <1>1, <2>1 DEF FormatInv, Bits
<1>2. ASSUME task = "mixed"
      PROVE  Format!MixFrameToStereo(mix.mask, Format!FrameOf(Format!Exchanged(signal), mix))
               = <<out[2], out[1]>>
  <2>1. /\ mix \in DeviceLayouts /\ signal.at \in [Format!Speakers(mix.mask) -> Int]
        /\ out = Format!MixFrameToStereo(mix.mask, Format!FrameOf(signal, mix))
    BY <1>2 DEF FormatInv
  <2> QED
    BY <2>1, MixMirrors, Zenon
<1>3. Format!PcmKeepsSignal
  BY <1>1 DEF Format!PcmKeepsSignal
<1>4. Format!MixKeepsSides
  BY <1>2, Zenon DEF Format!MixKeepsSides
<1> QED
  BY <1>3, <1>4

LEMMA FormatInvKept ==
  ASSUME part = "format" => FormatInv, [PartsNext]_parts
  PROVE  (part = "format" => FormatInv)'
<1> SUFFICES ASSUME part = "format" PROVE FormatInv'
  BY DEF PartsNext, parts
<1>1. CASE UNCHANGED conversion
  BY <1>1 DEF conversion, FormatInv
<1>2. CASE Format!ConvertSample
  BY <1>2 DEF Format!ConvertSample, FormatInv
<1>3. CASE Format!ConvertFrame
  BY <1>3, Zenon DEF Format!ConvertFrame, FormatInv
<1> QED
  BY <1>1, <1>2, <1>3 DEF PartsNext, parts, Format!Next

(* A PCM sample of 8, 16, 24 or 32 bits, with any number of valid bits,    *)
(* comes out as the signal cut to them (DecodePcmSample): sign, scale and  *)
(* the order of the bytes are right, and padding is dropped.  A frame with *)
(* left and right exchanged is mixed to the two sides exchanged, whatever  *)
(* other channels there are, those without a bit in the mask included      *)
(* (MixFrameToStereo, ChannelBitForIndex).                                 *)
THEOREM SoundIsConverted == PartsSpec => []ConversionKeepsSound
<1> DEFINE Inv == part = "format" => FormatInv
<1>1. PartsInit => Inv
  <2> SUFFICES ASSUME PartsInit, part = "format" PROVE FormatInv
    OBVIOUS
  <2>1. Format!Init
    BY DEF PartsInit
  <2>2. CASE /\ task = "frame" /\ mix \in DeviceLayouts
             /\ signal \in [at : [Format!Speakers(mix.mask) -> -1..1], more : [1..mix.more -> -1..1]]
    <3>1. signal.at \in [Format!Speakers(mix.mask) -> -1..1]
      BY <2>2
    <3>2. signal.at \in [Format!Speakers(mix.mask) -> Int]
      BY <3>1
    <3> QED
      BY <2>2, <3>2 DEF FormatInv
  <2>3. CASE task = "sample" /\ mix \in Format!Formats /\ signal \in -Format!One..Format!One - 1
    BY <2>3 DEF FormatInv
  <2> QED
    BY <2>1, <2>2, <2>3 DEF Format!Init
<1>2. Inv /\ [PartsNext]_parts => Inv'
  BY FormatInvKept
<1>3. Inv => ConversionKeepsSound
  BY FormatInvIsEnough DEF ConversionKeepsSound
<1> QED
  BY <1>1, <1>2, <1>3, PTL DEF PartsSpec
=============================================================================
