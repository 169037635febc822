----------------------------- MODULE SpecRules ------------------------------
(***************************************************************************)
(* What a spec may say (bugpot-config: AppSpec::validate) and the names    *)
(* the rest of the program makes of it: image references and the registry  *)
(* whose credentials they are pulled with, the app a Host header selects,  *)
(* the environment of the container.  Strings are sequences of characters, *)
(* each character a one-letter string.                                     *)
(***************************************************************************)
EXTENDS Naturals, Sequences, SequencesExt

CONSTANTS
  Alphanumeric,        \* ASCII lowercase letters and digits
  MaxLabel,            \* 63 characters
  DockerIo, Localhost, \* "docker.io" and "localhost", as sequences
  RESERVED_MOUNT_PATHS \* each as its sequence of components, "/" is <<>>

ASSUME SpecRulesAssumption ==
  /\ MaxLabel \in Nat \ {0}
  /\ Alphanumeric \cap {"-", ".", "/", ":", "@", "=", "["} = {}

Has(s, c) == \E i \in 1..Len(s) : s[i] = c

\* str::split: the pieces between the separators, empty ones included.
Split(s, separator) ==
  FoldLeft(LAMBDA pieces, c : IF c = separator
                              THEN Append(pieces, <<>>)
                              ELSE Append(Front(pieces), Append(Last(pieces), c)),
           << <<>> >>, s)

\* Its first piece, and the first one of str::rsplit: all of s without a c.
UpTo(s, c) ==
  SubSeq(s, 1, CHOOSE k \in 0..Len(s) :
                 (k < Len(s) => s[k + 1] = c) /\ \A i \in 1..k : s[i] # c)
AfterLast(s, c) ==
  LET k == CHOOSE k \in 0..Len(s) :
             (k > 0 => s[k] = c) /\ \A i \in (k + 1)..Len(s) : s[i] # c
  IN  SubSeq(s, k + 1, Len(s))

-----------------------------------------------------------------------------
(* Validation. *)

validate_dns_label(s) ==
  /\ Len(s) \in 1..MaxLabel
  /\ s[1] # "-" /\ s[Len(s)] # "-"
  /\ \A i \in 1..Len(s) : s[i] \in Alphanumeric \cup {"-"}

\* Neither a digest nor a tag; a colon before the last slash is a port.
validate_repo(s) ==
  /\ s # <<>>
  /\ ~Has(s, "@")
  /\ ~Has(AfterLast(s, "/"), ":")

\* Mutant: the path is compared as it was written.
components_raw(path) == Tail(Split(path, "/"))

\* Path::components of an absolute path without its CurDir entries: repeated
\* and trailing slashes and "." segments go, ".." stays.
components(path) ==
  SelectSeq(Split(path, "/"), LAMBDA piece : piece \notin {<<>>, <<".">>})

validate_volumes(volumes) ==
  \A i \in DOMAIN volumes :
    LET normalised == components(volumes[i].path) IN
    /\ validate_dns_label(volumes[i].name)
    /\ volumes[i].path # <<>> /\ volumes[i].path[1] = "/"
    /\ \A k \in DOMAIN normalised :
         \A c \in 1..(Len(normalised[k]) - 1) : SubSeq(normalised[k], c, c + 1) # <<".", ".">>
    /\ normalised \notin RESERVED_MOUNT_PATHS
    /\ \A j \in 1..(i - 1) :
         volumes[j].name # volumes[i].name /\ components(volumes[j].path) # normalised

-----------------------------------------------------------------------------
(* Image references. *)

\* Mutant: the host is whatever stands before the first slash.
registry_host_bare(image_ref) ==
  LET first == UpTo(image_ref, "/") IN
  IF Has(first, ".") \/ Has(first, ":") \/ first = Localhost THEN first ELSE DockerIo

\* Docker Hub unless the part before the first slash looks like a host.
registry_host(image_ref) ==
  LET first == UpTo(image_ref, "/") IN
  IF /\ Has(image_ref, "/")
     /\ Has(first, ".") \/ Has(first, ":") \/ first = Localhost
  THEN first
  ELSE DockerIo

\* resolve_image_ref and pull_for_rollout.
resolve_image_ref(repo, tag) == repo \o <<":">> \o tag

\* A reference that is pinned already is left as it is.
digest_pinned_ref(image, digest) ==
  IF Has(image, "@") THEN image ELSE image \o <<"@">> \o digest

-----------------------------------------------------------------------------
(* Routing. *)

\* The first label of the Host header without its port; of an IPv6 literal
\* nothing, which no app has for its subdomain.
subdomain_of(host) ==
  IF host # <<>> /\ host[1] = "["
  THEN <<>>
  ELSE UpTo(UpTo(host, ":"), ".")

-----------------------------------------------------------------------------
(* The environment of a container: a list of KEY=VALUE strings. *)

Entry(key, value) == key \o <<"=">> \o value

\* Mutant: every key that begins alike is overridden.
push_env_prefix(env, key, value) ==
  Append(SelectSeq(env, LAMBDA e : ~IsPrefix(key, e)), Entry(key, value))

push_env(env, key, value) ==
  Append(SelectSeq(env, LAMBDA e : ~IsPrefix(key \o <<"=">>, e)), Entry(key, value))

\* The image's entries, a PATH if they have none, PORT, and the spec's, which
\* come out of a HashMap in some order.
derive_env(image_env, path, port, spec_env) ==
  LET has_path  == \E i \in DOMAIN image_env : IsPrefix(path.key \o <<"=">>, image_env[i])
      with_path == IF has_path THEN image_env ELSE Append(image_env, Entry(path.key, path.value))
      with_port == push_env(with_path, port.key, port.value)
  IN  FoldLeft(LAMBDA env, key : push_env(env, key, spec_env[key]),
               with_port, SetToSeq(DOMAIN spec_env))

=============================================================================
