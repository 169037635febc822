---------------------------- MODULE ImagePuller -----------------------------
(***************************************************************************)
(* image.rs: concurrent pulls that coalesce on an in-flight slot per image *)
(* reference, the cache directories they fill and the bundles that refer   *)
(* to them, the collection of unused images at startup.                    *)
(*                                                                         *)
(* A pull runs inside the future of the request that needs the image.  A   *)
(* dropped request drops it at an await; an extraction that is already     *)
(* running on a blocking thread goes on.                                   *)
(***************************************************************************)
EXTENDS Naturals

CONSTANTS
  Pulls,       \* the calls of Puller::pull, each for an app of its own
  Nobody,
  Refs,        \* image references
  Pinned,      \* those that name a digest (...@sha256:...)
  Images,      \* what a registry may have under a reference
  Index,       \* Index[i]: the digest a manifest probe reports for image i
  Platform,    \* Platform[i]: the digest image i is pulled and stored under
  NoDigest,
  Faults,      \* the external failures a configuration allows
  Droppable,   \* the pulls whose request may be dropped
  MaxPushes,   \* bound on the pushes to the registry
  MaxRestarts  \* bound on the restarts of the daemon

ASSUME PullsAssumption == Nobody \notin Pulls
ASSUME RefsAssumption == Pinned \subseteq Refs

Digests == {Index[i] : i \in Images} \cup {Platform[i] : i \in Images}

\* A digest names one content: an index that a registry reports is no image,
\* and if it reports the digest of an image, that is what a pull stores.
ASSUME DigestsAssumption ==
  /\ NoDigest \notin Digests
  /\ \A i, j \in Images : Index[i] = Platform[j] => Platform[i] = Index[i]

VARIABLES
  tag,       \* tag[r]: the image the registry has under r
  dir,       \* dir[d]: images/<d>: absent, done (it has .done) or partial
  bundle,    \* bundle[t]: the digest the rootfs link of t's bundle points to
  inflight,  \* inflight[r]: the leader whose slot is in the map, or Nobody
  guard,     \* the leaders whose barrier is locked
  resolved,  \* resolved[t]: the digest in the slot t created
  step,      \* step[t]: where the call t is
  ref,       \* ref[t]: its argument
  got,       \* got[t]: the digest it probed, fetched or returned
  slot,      \* slot[t]: the leader it waits for
  job,       \* job[t]: the digest t's blocking thread is extracting
  window,    \* window[t]: what the reference meant while t, or a pull it
             \* joined, ran
  pushes,
  restarts

slotVars == <<inflight, guard, resolved>>
callVars == <<step, ref, got, slot>>
boundVars == <<pushes, restarts>>
vars == <<tag, dir, bundle, slotVars, callVars, job, window, boundVars>>

Init ==
  /\ tag \in [Refs -> Images]
  /\ dir = [d \in Digests |-> "absent"]
  /\ bundle = [t \in Pulls |-> NoDigest]
  /\ inflight = [r \in Refs |-> Nobody]
  /\ guard = {}
  /\ resolved = [t \in Pulls |-> NoDigest]
  /\ step = [t \in Pulls |-> "idle"]
  /\ ref \in [Pulls -> Refs]
  /\ got = [t \in Pulls |-> NoDigest]
  /\ slot = [t \in Pulls |-> Nobody]
  /\ job = [t \in Pulls |-> NoDigest]
  /\ window = [t \in Pulls |-> {}]
  /\ pushes = 0
  /\ restarts = 0

Goto(t, s) == step' = [step EXCEPT ![t] = s]

\* load_cached_image: there is a .done marker.
Cached(d) == dir[d] = "done"

InFlight(t) == step[t] \in {"probe", "claim", "wait", "fetch", "extract", "extracted", "failed"}
Leads(t) == step[t] \in {"fetch", "extract", "extracted", "failed"}

-----------------------------------------------------------------------------

Start(t) ==
  /\ step[t] = "idle"
  /\ Goto(t, "probe")
  /\ window' = [window EXCEPT ![t] = {Platform[tag[ref[t]]]}]
  /\ UNCHANGED <<tag, dir, bundle, slotVars, ref, got, slot, job, boundVars>>

\* probe_digest, then the fast path.  A pinned reference needs no round-trip.
Probe(t) ==
  /\ step[t] = "probe"
  /\ LET d == Index[tag[ref[t]]]
     IN  /\ got' = [got EXCEPT ![t] = d]
         /\ Goto(t, IF Cached(d) THEN "ok" ELSE "claim")
  /\ UNCHANGED <<tag, dir, bundle, slotVars, ref, slot, job, window, boundVars>>

ProbeFails(t) ==
  /\ "registry" \in Faults
  /\ step[t] = "probe"
  /\ ref[t] \notin Pinned
  /\ Goto(t, "err")
  /\ UNCHANGED <<tag, dir, bundle, slotVars, ref, got, slot, job, window, boundVars>>

\* Mutant: the map is not consulted, the last slot inserted wins.
ClaimLeader_overwrites(t) ==
  /\ step[t] = "claim"
  /\ inflight' = [inflight EXCEPT ![ref[t]] = t]
  /\ guard' = guard \cup {t}
  /\ Goto(t, "fetch")
  /\ UNCHANGED <<tag, dir, bundle, resolved, ref, got, slot, job, window, boundVars>>

\* claim_inflight, vacant: a slot of its own with its barrier locked.
ClaimLeader(t) ==
  /\ step[t] = "claim"
  /\ inflight[ref[t]] = Nobody
  /\ inflight' = [inflight EXCEPT ![ref[t]] = t]
  /\ guard' = guard \cup {t}
  /\ Goto(t, "fetch")
  /\ UNCHANGED <<tag, dir, bundle, resolved, ref, got, slot, job, window, boundVars>>

\* claim_inflight, occupied: a clone of the slot in the map.  A leader that is
\* at work lends the call what the reference has meant since it started.
ClaimWaiter(t) ==
  /\ step[t] = "claim"
  /\ LET leader == inflight[ref[t]]
     IN  /\ leader # Nobody
         /\ slot' = [slot EXCEPT ![t] = leader]
         /\ window' = [window EXCEPT ![t] =
              @ \cup (IF Leads(leader) THEN window[leader] ELSE {})]
  /\ Goto(t, "wait")
  /\ UNCHANGED <<tag, dir, bundle, slotVars, ref, got, job, boundVars>>

\* The barrier is locked and unlocked at once; what the leader resolved is
\* read from the cache, or the call tries again.
Wake(t) ==
  /\ step[t] = "wait"
  /\ slot[t] \notin guard
  /\ LET d == resolved[slot[t]]
     IN  IF d # NoDigest /\ Cached(d)
         THEN /\ got' = [got EXCEPT ![t] = d]
              /\ Goto(t, "ok")
         ELSE /\ Goto(t, "claim")
              /\ UNCHANGED got
  /\ UNCHANGED <<tag, dir, bundle, slotVars, ref, slot, job, window, boundVars>>

\* Mutant: the slot stays in the map when its leader is done.
Settle_keeps_slot(t, d) ==
  /\ resolved' = [resolved EXCEPT ![t] = d]
  /\ guard' = guard \ {t}
  /\ Goto(t, IF d = NoDigest THEN "err" ELSE "ok")
  /\ UNCHANGED inflight

\* Mutant: the guard outlives the leader.
Settle_keeps_guard(t, d) ==
  /\ resolved' = [resolved EXCEPT ![t] = d]
  /\ inflight' = [inflight EXCEPT ![ref[t]] = Nobody]
  /\ Goto(t, IF d = NoDigest THEN "err" ELSE "ok")
  /\ UNCHANGED guard

\* The leader's result: published if it is one, out of the map, the guard
\* dropped.
Settle(t, d) ==
  /\ resolved' = [resolved EXCEPT ![t] = d]
  /\ inflight' = [inflight EXCEPT ![ref[t]] = Nobody]
  /\ guard' = guard \ {t}
  /\ Goto(t, IF d = NoDigest THEN "err" ELSE "ok")

\* Client::pull and the second look at the cache; a miss starts the
\* extraction on a blocking thread.
Fetch(t) ==
  /\ step[t] = "fetch"
  /\ LET d == Platform[tag[ref[t]]]
     IN  /\ got' = [got EXCEPT ![t] = d]
         /\ IF Cached(d)
            THEN Settle(t, d) /\ UNCHANGED job
            ELSE /\ job' = [job EXCEPT ![t] = d]
                 /\ Goto(t, "extract")
                 /\ UNCHANGED slotVars
  /\ UNCHANGED <<tag, dir, bundle, ref, slot, window, boundVars>>

\* The registry fails, or reports no digest.
FetchFails(t) ==
  /\ "registry" \in Faults
  /\ step[t] = "fetch"
  /\ Settle(t, NoDigest)
  /\ UNCHANGED <<tag, dir, bundle, ref, got, slot, job, window, boundVars>>

\* The end of extract_to_image_dir: the complete temporary directory is
\* renamed, or discarded because there is a directory of that name.
ExtractEnds(t) ==
  /\ job[t] # NoDigest
  /\ dir' = [dir EXCEPT ![job[t]] = IF @ = "absent" THEN "done" ELSE @]
  /\ job' = [job EXCEPT ![t] = NoDigest]
  /\ IF step[t] = "extract" THEN Goto(t, "extracted") ELSE UNCHANGED step
  /\ UNCHANGED <<tag, bundle, slotVars, ref, got, slot, window, boundVars>>

\* Mutant: layers are unpacked into the image's directory itself.
ExtractFails_in_place(t) ==
  /\ "extract" \in Faults
  /\ job[t] # NoDigest
  /\ dir' = [dir EXCEPT ![job[t]] = "partial"]
  /\ job' = [job EXCEPT ![t] = NoDigest]
  /\ IF step[t] = "extract" THEN Goto(t, "failed") ELSE UNCHANGED step
  /\ UNCHANGED <<tag, bundle, slotVars, ref, got, slot, window, boundVars>>

\* A layer is too large, of an unknown type or corrupt, or the disk is full:
\* only the temporary directory stays behind.
ExtractFails(t) ==
  /\ "extract" \in Faults
  /\ job[t] # NoDigest
  /\ job' = [job EXCEPT ![t] = NoDigest]
  /\ IF step[t] = "extract" THEN Goto(t, "failed") ELSE UNCHANGED step
  /\ UNCHANGED <<tag, dir, bundle, slotVars, ref, got, slot, window, boundVars>>

\* do_full_pull resumes and returns.
Extracted(t) ==
  /\ step[t] \in {"extracted", "failed"}
  /\ Settle(t, IF step[t] = "extracted" THEN got[t] ELSE NoDigest)
  /\ UNCHANGED <<tag, dir, bundle, ref, got, slot, job, window, boundVars>>

\* The request goes away at an await.  The guard is dropped with it, the
\* entry of the map is not.
Drop(t) ==
  /\ t \in Droppable
  /\ step[t] \in {"probe", "wait", "fetch", "extract", "extracted", "failed"}
  /\ guard' = guard \ {t}
  /\ Goto(t, "dropped")
  /\ UNCHANGED <<tag, dir, bundle, inflight, resolved, ref, got, slot, job, window, boundVars>>

\* start_app: the image is loaded from the cache and linked into the bundle.
Launch(t) ==
  /\ step[t] = "ok"
  /\ IF Cached(got[t])
     THEN bundle' = [bundle EXCEPT ![t] = got[t]] /\ Goto(t, "up")
     ELSE UNCHANGED bundle /\ Goto(t, "err")
  /\ UNCHANGED <<tag, dir, slotVars, ref, got, slot, job, window, boundVars>>

-----------------------------------------------------------------------------

\* Somebody pushes to the registry.
Push(r, i) ==
  /\ pushes < MaxPushes
  /\ r \notin Pinned
  /\ tag[r] # i
  /\ pushes' = pushes + 1
  /\ tag' = [tag EXCEPT ![r] = i]
  /\ window' = [t \in Pulls |->
       IF InFlight(t) /\ ref[t] = r THEN window[t] \cup {Platform[i]} ELSE window[t]]
  /\ UNCHANGED <<dir, bundle, slotVars, callVars, job, restarts>>

\* Every digest some bundle's rootfs link points to.
live_image_digests == {bundle[t] : t \in Pulls} \ {NoDigest}

\* Every directory without .done or without a bundle that refers to it goes;
\* a removal that fails half-way is logged only.
gc_unused_images ==
  \E left \in [Digests -> {"absent", "partial"}] :
    /\ "remove" \in Faults \/ \A d \in Digests : left[d] = "absent"
    /\ dir' = [d \in Digests |->
         IF dir[d] = "done" /\ d \in live_image_digests THEN "done"
         ELSE IF dir[d] = "absent" THEN "absent" ELSE left[d]]

\* The daemon dies with its calls and its threads; the next one collects
\* unused images before it serves.
Restart ==
  /\ restarts < MaxRestarts
  /\ restarts' = restarts + 1
  /\ gc_unused_images
  /\ inflight' = [r \in Refs |-> Nobody]
  /\ guard' = {}
  /\ resolved' = [t \in Pulls |-> NoDigest]
  /\ step' = [t \in Pulls |-> "idle"]
  /\ got' = [t \in Pulls |-> NoDigest]
  /\ slot' = [t \in Pulls |-> Nobody]
  /\ job' = [t \in Pulls |-> NoDigest]
  /\ window' = [t \in Pulls |-> {}]
  /\ UNCHANGED <<tag, bundle, ref, pushes>>

-----------------------------------------------------------------------------

Pull(t) ==
  \/ Start(t) \/ Probe(t) \/ ProbeFails(t)
  \/ ClaimLeader(t) \/ ClaimWaiter(t) \/ Wake(t)
  \/ Fetch(t) \/ FetchFails(t) \/ Extracted(t)
  \/ Launch(t)

Extract(t) == ExtractEnds(t) \/ ExtractFails(t)

Next ==
  \/ \E t \in Pulls : Pull(t) \/ Extract(t) \/ Drop(t)
  \/ \E r \in Refs, i \in Images : Push(r, i)
  \/ Restart

\* The executor polls every future that is ready, blocking threads run, and
\* the registry answers or the connection fails.
PullSpec ==
  /\ Init /\ [][Next]_vars
  /\ \A t \in Pulls : WF_vars(Pull(t)) /\ WF_vars(Extract(t))

-----------------------------------------------------------------------------
(* Properties *)

\* Every variable has its type, and a pull that succeeded has a digest.
PullTypeOK ==
  /\ tag \in [Refs -> Images]
  /\ dir \in [Digests -> {"absent", "partial", "done"}]
  /\ bundle \in [Pulls -> Digests \cup {NoDigest}]
  /\ inflight \in [Refs -> Pulls \cup {Nobody}]
  /\ guard \subseteq Pulls
  /\ resolved \in [Pulls -> Digests \cup {NoDigest}]
  /\ step \in [Pulls -> {"idle", "probe", "claim", "wait", "fetch", "extract", "extracted",
                         "failed", "ok", "up", "err", "dropped"}]
  /\ ref \in [Pulls -> Refs]
  /\ got \in [Pulls -> Digests \cup {NoDigest}]
  /\ slot \in [Pulls -> Pulls \cup {Nobody}]
  /\ job \in [Pulls -> Digests \cup {NoDigest}]
  /\ window \in [Pulls -> SUBSET Digests]
  /\ pushes \in Nat /\ restarts \in Nat
  /\ \A t \in Pulls : step[t] \in {"ok", "up"} => got[t] \in Digests

\* "only one Client::pull + extract runs" (image.rs:158-160), whoever is
\* dropped: a second download of the same reference never starts next to one.
OneDownload ==
  \A s, t \in Pulls : Leads(s) /\ Leads(t) /\ ref[s] = ref[t] => s = t

\* A waiter sleeps on a barrier only as long as somebody works to open it.
WaitersHaveLeader ==
  \A t \in Pulls : step[t] = "wait" /\ slot[t] \in guard =>
    Leads(slot[t]) /\ ref[slot[t]] = ref[t]

\* Pulls of one reference coalesce: one of them downloads, and the others wait
\* for it, not for somebody who is gone, however leaders fail and are dropped.
Coalesced == PullTypeOK /\ OneDownload /\ WaitersHaveLeader

\* What a successful pull returns is complete on disk until it is used, and a
\* bundle never loses its image: no failed extraction, no race of two leaders
\* on one digest and no collection at startup takes it away ("the image must
\* already be on disk", start_app).
PulledIsCached ==
  \A t \in Pulls :
    /\ step[t] = "ok" => Cached(got[t])
    /\ bundle[t] # NoDigest => Cached(bundle[t])

\* A pull returns an image the reference stood for while it ran, or while a
\* pull did that was at work when this one coalesced with it (the comment on
\* coordinated_pull: the waiter has to learn the digest from the leader),
\* never one from before both.
ResultWasCurrent ==
  \A t \in Pulls : step[t] = "ok" => got[t] \in window[t]

\* A leader's request was dropped and its slot is still in the map.
Orphaned(r) == inflight[r] # Nobody /\ ~Leads(inflight[r])

\* Every pull returns, whatever fails and however its leaders fare: waiters of
\* a leader that failed take over ("Loop and claim leadership ourselves").  A
\* slot whose leader was dropped is the exception.
PullsReturn ==
  \A t \in Pulls : InFlight(t) ~> ~InFlight(t) \/ Orphaned(ref[t])

=============================================================================
