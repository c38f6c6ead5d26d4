-------------------------- MODULE MCPlayerPipeline --------------------------
(***************************************************************************)
(* Model-checking instance of PlayerPipeline.  The constants of the two    *)
(* configurations are scaled down from those of the code so that every     *)
(* threshold (window, start-up lead, steady target, end of the sequence    *)
(* space) is crossed with few packets.                                     *)
(***************************************************************************)
EXTENDS PlayerPipeline, TLC

Symmetry == Permutations(Streams)
=============================================================================
