---------------------------- MODULE WasapiDevices ----------------------------
(* EnumerateAudioRenderDevices on Windows: the default endpoint is asked   *)
(* for first, then the active endpoints one by one, while the user may     *)
(* change the default and unplug devices; any call may be refused.         *)
EXTENDS Naturals, Sequences, FiniteSets, FiniteSetsExt, SequencesExt

CONSTANT Endpoints

VARIABLES
  default,    \* the system's default endpoint, external
  stage,      \* the next step, "out" when the list is returned
  inits,      \* the thread's CoInitializeEx not yet undone, external
  should_uninitialize,
  default_id,
  asked,      \* history: the default when it was asked for
  collection, \* endpoints not visited yet, of the snapshot taken
  unreadable, \* history: endpoints whose id was refused
  snapshot,   \* history: the collection when it was taken
  devices     \* the result: id and is_default

vars == <<default, stage, inits, should_uninitialize, default_id, asked,
          collection, unreadable, snapshot, devices>>

Empty == "none"     \* an empty id, and no endpoint
DevicesAssumption == IsFiniteSet(Endpoints) /\ Empty \notin Endpoints

Init ==
  /\ default \in Endpoints \cup {Empty} /\ asked = Empty
  /\ stage = "com" /\ inits = 0 /\ should_uninitialize = FALSE
  /\ default_id = Empty /\ devices = <<>>
  /\ collection = <<>> /\ unreadable = {} /\ snapshot = {}

Leave ==
  /\ stage' = "out" /\ UNCHANGED should_uninitialize
  /\ inits' = IF should_uninitialize THEN inits - 1 ELSE inits

UserChangesDefault ==
  /\ stage # "out" /\ default' \in Endpoints \cup {Empty}
  /\ UNCHANGED <<stage, inits, should_uninitialize, default_id, asked,
                 collection, unreadable, snapshot, devices>>

\* S_OK and S_FALSE are one more use of COM; RPC_E_CHANGED_MODE is none.
InitCom ==
  /\ stage = "com"
  /\ \/ inits' = inits + 1 /\ should_uninitialize' = TRUE /\ stage' = "enumerator"
     \/ stage' \in {"enumerator", "out"} /\ UNCHANGED <<inits, should_uninitialize>>
  /\ UNCHANGED <<default, default_id, asked, collection, unreadable, snapshot, devices>>

MakeEnumerator ==
  /\ stage = "enumerator"
  /\ \/ stage' = "default" /\ UNCHANGED <<inits, should_uninitialize>>
     \/ Leave
  /\ UNCHANGED <<default, default_id, asked, collection, unreadable, snapshot, devices>>

\* No default endpoint, or no id from it: default_id stays empty.
AskDefault ==
  /\ stage = "default" /\ stage' = "collection"
  /\ asked' = default /\ default_id' \in {default, Empty}
  /\ UNCHANGED <<default, inits, should_uninitialize, collection, unreadable,
                 snapshot, devices>>

\* EnumAudioEndpoints and GetCount.
TakeCollection ==
  /\ stage = "collection"
  /\ \/ /\ \E active \in SUBSET Endpoints :
             collection' \in SetToSeqs(active) /\ snapshot' = active
        /\ stage' = "visit" /\ UNCHANGED <<inits, should_uninitialize>>
     \/ Leave /\ UNCHANGED <<collection, snapshot>>
  /\ UNCHANGED <<default, default_id, asked, unreadable, devices>>

\* Mutant: a device without an id is listed as well.
TakeAny(id) ==
  devices' = Append(devices, [id |-> id, is_default |-> id = default_id])

Take(id) ==
  devices' = IF id = Empty THEN devices
             ELSE Append(devices, [id |-> id, is_default |-> id = default_id])

\* Item or GetId of the next endpoint may fail, as when it was unplugged.
Visit ==
  /\ stage = "visit" /\ collection # <<>>
  /\ \E id \in {Head(collection), Empty} :
       /\ Take(id)
       /\ unreadable' = IF id = Empty THEN unreadable \cup {Head(collection)}
                        ELSE unreadable
  /\ collection' = Tail(collection)
  /\ UNCHANGED <<default, stage, inits, should_uninitialize, default_id, asked, snapshot>>

Return ==
  /\ stage = "visit" /\ collection = <<>> /\ Leave
  /\ UNCHANGED <<default, default_id, asked, collection, unreadable, snapshot, devices>>

Next ==
  \/ UserChangesDefault \/ InitCom \/ MakeEnumerator \/ AskDefault
  \/ TakeCollection \/ Visit \/ Return

Spec == Init /\ [][Next]_vars
-----------------------------------------------------------------------------
(* Every way out of EnumerateAudioRenderDevices leaves COM on this thread  *)
(* as often as it was entered.                                             *)
ComBalanced == stage = "out" => inits = 0

(* The list is each endpoint of the snapshot that had an id, once; at most *)
(* one is marked, and that one was the default when it was asked for, even *)
(* when the default's id or a device's id could not be read.               *)
ListIsTrue ==
  stage = "out" /\ devices # <<>> =>
    /\ {devices[i].id : i \in DOMAIN devices} = snapshot \ unreadable
    /\ Len(devices) = Cardinality(snapshot \ unreadable)
    /\ \A i \in DOMAIN devices : devices[i].is_default => devices[i].id = asked
=============================================================================
