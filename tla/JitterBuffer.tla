---------------------------- MODULE JitterBuffer ----------------------------
(***************************************************************************)
(* nspeaker::transport::JitterBuffer (libs/transport).                     *)
(*                                                                         *)
(* The class is an ordered map from sequence numbers to packets and keeps  *)
(* no other mutable state.  Its owner, PlayerPipeline, empties it whenever *)
(* the stream changes, so within one owner state the sequence number       *)
(* identifies the packet and the map is modelled by its set of keys.  The  *)
(* methods that only read are operators on that set; the ones that write   *)
(* return the new set.                                                     *)
(*                                                                         *)
(* Sequence numbers are 32 bits wide in the code: 0 .. MaxSeq here.  The   *)
(* sum expected_sequence + max_window_ is computed in size_t (64 bits) and *)
(* never wraps, which is why Accepts uses plain addition.                  *)
(***************************************************************************)
EXTENDS Naturals, FiniteSets

CONSTANTS MaxSeq,      \* largest sequence number (2^32 - 1 in the code)
          MaxWindow    \* max_window_: how far ahead of the playhead to keep

ASSUME JitterAssumption == MaxSeq \in Nat /\ MaxWindow \in Nat

Seqs == 0 .. MaxSeq

(* Mutant of Accepts: the window check is missing. *)
AcceptsBeyondWindow(buf, s, expected) == s >= expected /\ s \notin buf

(* The two early returns of Push and the failed emplace: a sequence number *)
(* behind the playhead, beyond the window, or already present is refused.  *)
Accepts(buf, s, expected) ==
    /\ s >= expected
    /\ s <= expected + MaxWindow
    /\ s \notin buf

Push(buf, s, expected) == IF Accepts(buf, s, expected) THEN buf \cup {s} ELSE buf

(* PopNext: present or not, afterwards the key is absent. *)
HasNext(buf, expected) == expected \in buf
PopNext(buf, expected) == buf \ {expected}

(* OldestSequence and NewestSequence of a buffer that is not empty.        *)
OldestSequence(buf) == CHOOSE s \in buf : \A t \in buf : s <= t
NewestSequence(buf) == CHOOSE s \in buf : \A t \in buf : t <= s

(* Mutant of DiscardBefore: the packet before min survives. *)
DiscardTooFew(buf, min) == {s \in buf : s + 1 >= min}

DiscardBefore(buf, min) == {s \in buf : s >= min}

Size(buf) == Cardinality(buf)

(* Mutant of Primed: one packet more is asked for. *)
PrimedBeyond(buf, target) == Size(buf) > target

Primed(buf, target) == Size(buf) >= target
=============================================================================
