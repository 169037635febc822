----------------------------- MODULE MCRollover -----------------------------
(***************************************************************************)
(* Instances of Rollover for TLC.                                          *)
(***************************************************************************)
EXTENDS Rollover, TLC

MCTasks == Requests \cup Sweepers \cup Evictors \cup Removers \cup Deployers

RequestSymmetry == Permutations(Requests)

=============================================================================
