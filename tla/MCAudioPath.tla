----------------------------- MODULE MCAudioPath -----------------------------
(***************************************************************************)
(* Two configurations of the audio path in one run.  "restart" has FastLock *)
(* and the stale drop on, and hostd is started twice; "sequential" is the  *)
(* configuration of the Android and HarmonyOS clients, with one run of     *)
(* hostd and with a decoder and a sink that may fail.                      *)
(***************************************************************************)
EXTENDS AudioPath

VARIABLE part

Sequential == INSTANCE AudioPath WITH
    Streams <- {1}, NumStreams <- 1, FastLockOn <- FALSE,
    StartupBuffer <- 2, StaleDropOn <- FALSE, Faults <- TRUE

PartsInit == part \in {"restart", "sequential"} /\ PathInit

PartsNext ==
    /\ UNCHANGED part
    /\ \/ part = "restart" /\ PathNext
       \/ part = "sequential" /\ Sequential!PathNext

(* The fairness is the same in both. *)
PartsSpec ==
    /\ PartsInit /\ [][PartsNext]_<<part, pathVars>>
    /\ WF_pathVars(part = "restart" /\ Drain)
    /\ WF_pathVars(part = "sequential" /\ Sequential!Drain)
    /\ SF_pathVars(part = "restart" /\ \E p \in net : PollPacket(p))
    /\ SF_pathVars(part = "sequential" /\ \E p \in net : Sequential!PollPacket(p))
=============================================================================
