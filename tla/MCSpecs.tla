------------------------------ MODULE MCSpecs -------------------------------
(***************************************************************************)
(* SpecRules and DeployKey for TLC.  The machine writes every text up to   *)
(* MaxText characters and every list of up to MaxEntries entries of an     *)
(* image's environment; the properties are about all ways to read a text   *)
(* as two strings that follow each other.                                  *)
(***************************************************************************)
EXTENDS SpecRules, DeployKey, TLC

CONSTANTS MaxText, MaxEntries

VARIABLES text, image_env

Alphabet == {"a", "-", ".", "/", ":", "@"}

MCDockerIo == <<"d", ".", "i">>
MCLocalhost == <<"a">>
MCReserved == {<<>>, << <<"a">> >>}

Keys == {<<"P">>, <<"P", "A">>, <<"P", "O">>}
Path == [key |-> <<"P", "A">>, value |-> <<"d">>]
Port == [key |-> <<"P", "O">>, value |-> <<"8">>]

Init == text = <<>> /\ image_env = <<>>

Type(c) ==
  /\ image_env = <<>> /\ Len(text) < MaxText
  /\ text' = Append(text, c)
  /\ UNCHANGED image_env

AddEntry(key, value) ==
  /\ text = <<>> /\ Len(image_env) < MaxEntries
  /\ image_env' = Append(image_env, Entry(key, value))
  /\ UNCHANGED text

Next ==
  \/ \E c \in Alphabet : Type(c)
  \/ \E key \in Keys, value \in {<<>>, <<"1">>, <<"=">>} : AddEntry(key, value)

SpecsSpec == Init /\ [][Next]_<<text, image_env>>

Before(i) == SubSeq(text, 1, i)
After(i) == SubSeq(text, i + 1, Len(text))
Places == 0..Len(text)

-----------------------------------------------------------------------------
(* Properties. *)

\* Where the kernel mounts a path, links left aside: ".." climbs.
MountPoint(path) ==
  FoldLeft(LAMBDA place, piece : IF piece \in {<<>>, <<".">>} THEN place
                                 ELSE IF piece # <<".", ".">> THEN Append(place, piece)
                                 ELSE IF place = <<>> THEN place ELSE Front(place),
           <<>>, Split(path, "/"))

\* Volumes that pass validation are mounted at different places, none of them
\* reserved, however their paths are written (config lib.rs:278-342).
MountsDistinct ==
  \A i \in Places :
    validate_volumes(<<[name |-> <<"a">>, path |-> Before(i)],
                       [name |-> <<"a", "a">>, path |-> After(i)]>>) =>
      /\ MountPoint(Before(i)) # MountPoint(After(i))
      /\ {MountPoint(Before(i)), MountPoint(After(i))} \cap RESERVED_MOUNT_PATHS = {}

\* The characters a registry allows in a tag; set_rollout itself rejects only a
\* blank one (rollout.rs:104).
IsTag(s) == s # <<>> /\ ~Has(s, ":") /\ ~Has(s, "/") /\ ~Has(s, "@")

\* What follows the "@" of a pinned reference.
IsDigest(s) == ~Has(s, "/") /\ ~Has(s, "@")

\* How a registry client reads a reference: up to "@" it is the repository
\* and, after the first colon of the last piece of the path, the tag.
Unpinned(ref) == UpTo(ref, "@")
TagOf(ref) ==
  LET last == AfterLast(Unpinned(ref), "/")
  IN  SubSeq(last, Len(UpTo(last, ":")) + 2, Len(last))
RepoOf(ref) ==
  IF TagOf(ref) = <<>> THEN Unpinned(ref)
  ELSE SubSeq(Unpinned(ref), 1, Len(Unpinned(ref)) - Len(TagOf(ref)) - 1)

\* A repository that passes validation and a tag make a reference a client
\* reads back as that repository and that tag, and the credentials for it are
\* those of the repository's registry, whether it is pinned or not: a cold
\* start and a rollout pull the same image from the same place
\* (config lib.rs:365-398, lifecycle.rs:140-157, core lib.rs:171-185).
ReferenceResolves(repo, tag, digest) ==
  LET ref    == resolve_image_ref(repo, tag)
      pinned == digest_pinned_ref(ref, digest)
  IN  validate_repo(repo) /\ IsTag(tag) /\ IsDigest(digest) =>
        /\ TagOf(ref) = tag /\ TagOf(pinned) = tag
        /\ RepoOf(ref) = repo /\ RepoOf(pinned) = repo
        /\ digest_pinned_ref(pinned, <<>>) = pinned
        /\ registry_host(ref) = registry_host(repo)
        /\ registry_host(pinned) = registry_host(repo)

\* An app's subdomain, alone or followed by a domain or a port, leads to that
\* app and to no other (router lib.rs:214-229, resolver.rs:20-26).
HostReaches(label, rest) ==
  validate_dns_label(label) =>
    (subdomain_of(label \o rest) = label <=> (rest = <<>> \/ rest[1] \in {".", ":"}))

\* Moving the boundary between name and repository changes the token: one app's
\* token is not another's (deploy_key.rs:124-127).
TokenBound(name, repo, other, other_repo) ==
  Len(name) <= MaxU32 /\ Len(other) <= MaxU32
    /\ verify("secret", derive("secret", name, repo), other, other_repo)
      => name = other /\ repo = other_repo

\* Whatever is put together of two strings is read back as these two by whoever
\* takes it apart: references by the registry client and the credential lookup,
\* hosts by the router, the input of a deploy token by the HMAC.
PartsRecovered ==
  \A i \in Places :
    /\ ReferenceResolves(Before(i), After(i), <<"s", ":", "d">>)
    /\ HostReaches(Before(i), After(i))
    /\ \A j \in Places : TokenBound(Before(i), After(i), Before(j), After(j))

\* A variable has the value the spec gives it, PORT bugpot's unless the spec
\* sets it, and every other the image's; bugpot and the spec leave no second
\* entry of a variable they set (spec.rs:157-188).
EnvironmentResolved ==
  \A keys \in SUBSET Keys :
    LET spec_env == [k \in keys |-> <<"u">>]
        env      == derive_env(image_env, Path, Port, spec_env)
        Of(list, k) == SelectSeq(list, LAMBDA e : IsPrefix(k \o <<"=">>, e))
    IN  /\ \A k \in keys : Of(env, k) = <<Entry(k, <<"u">>)>>
        /\ Port.key \notin keys => Of(env, Port.key) = <<Entry(Port.key, Port.value)>>
        /\ \A k \in Keys \ (keys \cup {Port.key}) :
             Of(env, k) = IF k = Path.key /\ Of(image_env, k) = <<>>
                          THEN <<Entry(k, Path.value)>>
                          ELSE Of(image_env, k)

=============================================================================
