----------------------------- MODULE Allowlist ------------------------------
(***************************************************************************)
(* allowlist.rs: the rules an app's egress entries are parsed into and the *)
(* names they match.  Entries and names are sequences of tokens: "." and   *)
(* "/" and "*" stand for themselves, any other token for a run of          *)
(* characters, so that one name can end with another in the middle of a    *)
(* label (<<"evil", "shop", ".", "com">> ends with <<"shop", ".", "com">>). *)
(* Tokens are in lower case already.                                       *)
(***************************************************************************)
EXTENDS Naturals, Sequences, SequencesExt, FiniteSetsExt

CONSTANTS
  Tokens,     \* what entries and names are made of
  Literals,   \* the tokens that are IPv4 literals
  Separators  \* the tokens no domain name contains, "/" and "*" among them

\* Trailing dots are cut off.
normalise_name(s) ==
  SubSeq(s, 1, Max({0} \cup {i \in 1..Len(s) : s[i] # "."}))

IsCidr(entry) ==
  \/ Len(entry) = 3 /\ entry[1] \in Literals /\ entry[2] = "/"
  \/ Len(entry) = 1 /\ entry[1] \in Literals

\* What follows "*.", if anything does.
Suffix(entry) == normalise_name(SubSeq(entry, 3, Len(entry)))

IsWildcard(entry) == IsPrefix(<<"*", ".">>, entry) /\ Suffix(entry) # <<>>

IsDomain(entry) == \A i \in 1..Len(entry) : entry[i] \notin Separators

\* Rule::parse succeeds: a malformed CIDR, a wildcard without a suffix and a
\* character no domain has are errors.  The suffix of a wildcard is not
\* checked for such characters.
RuleParses(entry) ==
  IF \E i \in 1..Len(entry) : entry[i] = "/"
  THEN IsCidr(entry)
  ELSE IsCidr(entry) \/ IsWildcard(entry) \/ IsDomain(entry)

\* Allowlist::parse skips blank entries and fails with the first bad one.
Parses(raw) == \A i \in 1..Len(raw) : raw[i] = <<>> \/ RuleParses(raw[i])

\* Mutant: any name that ends with the parent's characters is a subdomain.
is_subdomain_of_loose(parent, name) ==
  Len(name) > Len(parent) /\ IsSuffix(parent, name)

\* Longer than parent, ending in it, with a dot at the boundary.
is_subdomain_of(parent, name) ==
  /\ Len(name) > Len(parent)
  /\ IsSuffix(parent, name)
  /\ name[Len(name) - Len(parent)] = "."

RuleMatches(entry, name) ==
  IF IsCidr(entry)
  THEN FALSE
  ELSE IF IsWildcard(entry)
       THEN is_subdomain_of(Suffix(entry), name)
       ELSE \/ name = normalise_name(entry)
            \/ is_subdomain_of(normalise_name(entry), name)

\* matches_domain: by any rule; CIDR rules are ignored on this path.
matches_domain(raw, query) ==
  \E i \in 1..Len(raw) :
    raw[i] # <<>> /\ RuleMatches(raw[i], normalise_name(query))

=============================================================================
