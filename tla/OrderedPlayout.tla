--------------------------- MODULE OrderedPlayout ---------------------------
(***************************************************************************)
(* What the player pipeline promises the listener, without saying how.     *)
(*                                                                         *)
(* At any time one stream is being played.  A packet of it becomes pending *)
(* when it arrives, unless the play-out is already past it; it may be      *)
(* given up at any time; it is played only while pending, hence at most    *)
(* once per arrival, and only after everything played or passed over       *)
(* before it.  The play-out starts over only at the end of the sequence    *)
(* space, with nothing pending, or with another stream.                    *)
(***************************************************************************)
EXTENDS Integers

CONSTANTS Streams, NoStream, MaxSeq

VARIABLES
    stream,    \* the stream being played, or NoStream
    pending,   \* sequence numbers of it that may still be played
    last,      \* the play-out is past this sequence number; -1: past none
    played     \* how many frames of the stream were played

vars == <<stream, pending, last, played>>

Init ==
    /\ stream = NoStream
    /\ pending = {}
    /\ last = -1
    /\ played = 0

(* A packet of another stream arrives: forget this one and start there. *)
Switch(id, s) ==
    /\ id # stream
    /\ stream' = id
    /\ pending' \in {{}, {s}}
    /\ last' = s - 1
    /\ played' = 0

Arrive(s) ==
    /\ s > last
    /\ pending' = pending \cup {s}
    /\ UNCHANGED <<stream, last, played>>

Lose(s) ==
    /\ pending' = pending \ {s}
    /\ UNCHANGED <<stream, last, played>>

(* The play-out moves past s, and past the pending packets before it.      *)
MovePast(s) ==
    /\ s > last
    /\ last' = IF s = MaxSeq THEN -1 ELSE s
    /\ pending' = {t \in pending : t > s}
    /\ UNCHANGED stream

PassOver(s) == MovePast(s) /\ UNCHANGED played

Play(s) == s \in pending /\ MovePast(s) /\ played' = played + 1

Next ==
    \/ \E id \in Streams, s \in 0 .. MaxSeq : Switch(id, s)
    \/ \E s \in 0 .. MaxSeq : Arrive(s) \/ Lose(s) \/ PassOver(s) \/ Play(s)

Spec == Init /\ [][Next]_vars
=============================================================================
