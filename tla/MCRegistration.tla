--------------------------- MODULE MCRegistration ---------------------------
(***************************************************************************)
(* Instances of Registration for TLC.                                      *)
(***************************************************************************)
EXTENDS Registration, TLC

CONSTANTS o1, o2

\* Each app has an operator of its own.
MCNamesOf == [a \in Operators |-> IF a = o1 THEN {1} ELSE {2}]

MCSymmetry == Permutations(Tags) \cup Permutations(Subs)

=============================================================================
