------------------------------ MODULE MCEgress ------------------------------
(***************************************************************************)
(* An instance of Egress for TLC: the names, rules and lookups of          *)
(* allowlist.rs' header and tests.                                         *)
(***************************************************************************)
EXTENDS Egress, TLC

Shop == <<"shop", ".", "com">>
ApiShop == <<"api", ".", "shop", ".", "com">>
EvilShop == <<"evil", "shop", ".", "com">>
Evil == <<"evil", ".", "com">>

MCDomains == {Shop, ApiShop \o <<".">>, EvilShop, Evil}
MCAddrs ==
  Shop :> {101} @@ ApiShop \o <<".">> :> {101, 102} @@ EvilShop :> {101} @@ Evil :> {102}

Exact == << <<>>, <<"shop", ".", "com", ".">> >>
Wild == << <<"*", ".", "shop", ".", "com">>, <<"ip", "/", "8">> >>
Mixed == Wild \o << <<>>, <<"evil", ".", "com", ".">> >>
Bad == << <<"*", ".">> >>
MCLists == {Mixed, Bad}

MCSymmetry == Permutations(Names)

\* The header of allowlist.rs on these lists and names: a wildcard leaves the
\* domain itself out, and neither rule covers a longer name that merely ends
\* alike.  Covers, which UpstreamIsAllowed refers to, says the same.
ASSUME CoversAssumption ==
  /\ {d \in MCDomains : AllowedBy(Exact, d)} = {Shop, ApiShop \o <<".">>}
  /\ {d \in MCDomains : AllowedBy(Wild, d)} = {ApiShop \o <<".">>}
  /\ {d \in MCDomains : AllowedBy(Mixed, d)} = {ApiShop \o <<".">>, Evil}
  /\ Parses(Exact) /\ Parses(Mixed) /\ ~Parses(Bad)

=============================================================================
