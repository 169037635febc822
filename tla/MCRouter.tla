------------------------------ MODULE MCRouter ------------------------------
(***************************************************************************)
(* An instance of Router for TLC: upgraded connections to one app while    *)
(* there is memory, and the requests of one client to all apps while       *)
(* readings lie below, at and above the two thresholds or are missing.     *)
(***************************************************************************)
EXTENDS Router

MCLoads ==
  {[clients |-> Requests, apps |-> {CHOOSE a \in Apps : TRUE}, upgrades |-> TRUE,
    readings |-> {hi_bytes}],
   [clients |-> {CHOOSE r \in Requests : TRUE}, apps |-> Apps, upgrades |-> FALSE,
    readings |-> {lo_bytes - 1, lo_bytes, hi_bytes - 1, hi_bytes, NoReading}]}

=============================================================================
