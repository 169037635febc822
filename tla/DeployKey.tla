----------------------------- MODULE DeployKey ------------------------------
(***************************************************************************)
(* Deploy tokens (bugpot-admin, deploy_key.rs): a stateless credential     *)
(* that is bound to an app's name and repository by the way the input of   *)
(* the HMAC is put together.  The HMAC is ideal: different keys or inputs  *)
(* have different codes.                                                   *)
(***************************************************************************)
EXTENDS Integers, Sequences

CONSTANTS
  Tag,    \* HMAC_DOMAIN_TAG
  MaxU32  \* u32::MAX

ASSUME DeployKeyAssumption == MaxU32 \in Nat

\* u32::try_from(len).unwrap_or(u32::MAX), four bytes that are one letter here.
Length(s) == IF Len(s) <= MaxU32 THEN Len(s) ELSE MaxU32

\* What mac_bytes feeds to the HMAC.
Input(name, repo) == <<Tag, Length(name)>> \o name \o <<Length(repo)>> \o repo

hmac(secret, input) == <<secret, input>>

mac_bytes(secret, name, repo) == hmac(secret, Input(name, repo))

derive(secret, name, repo) == [version |-> "bp1.", mac |-> mac_bytes(secret, name, repo)]

\* Wrong version, wrong length and wrong bytes are all just FALSE.
verify(secret, presented, name, repo) == presented = derive(secret, name, repo)

=============================================================================
