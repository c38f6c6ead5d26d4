--------------------------- MODULE MCHostdProcess ---------------------------
(* Calls of start, and calls of stop, are alike: runs that check no        *)
(* temporal property may identify states that differ by their names.       *)
EXTENDS HostdProcess, TLC

CallSymmetry == Permutations(Starts) \cup Permutations(Stops)
=============================================================================
