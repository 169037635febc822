----------------------------- MODULE MCLifecycle -----------------------------
(***************************************************************************)
(* Instances of Lifecycle for TLC.  Requests run the same code, so they    *)
(* are symmetric where no liveness property is checked.                    *)
(***************************************************************************)
EXTENDS Lifecycle, TLC

MCTasks == Requests \cup Sweepers \cup Evictors \cup Removers \cup Deployers

RequestSymmetry == Permutations(Requests)

=============================================================================
