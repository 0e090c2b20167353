---------------------------- MODULE MCStashIndex ----------------------------
(***************************************************************************)
(* StashIndex with two processes and two names.                            *)
(***************************************************************************)
EXTENDS StashIndex, TLC

\* Processes and names are interchangeable.
MCSymmetry == Permutations(Procs) \cup Permutations(Names)
=============================================================================
