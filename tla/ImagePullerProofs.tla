-------------------------- MODULE ImagePullerProofs -------------------------
(***************************************************************************)
(* Theorems about ImagePuller, for any number of pulls, references,        *)
(* images, pushes and restarts.                                            *)
(***************************************************************************)
EXTENDS ImagePuller, TLAPS

\* No daemon has started yet after another, or the image directories that are
\* removed then are removed completely.
Removable == restarts = 0 \/ "remove" \notin Faults

-----------------------------------------------------------------------------
(* The inductive invariant *)

\* A barrier is locked while its leader is at work, and the map has its slot.
LeadersHold ==
  /\ guard = {t \in Pulls : Leads(t)}
  /\ \A t \in Pulls : Leads(t) => inflight[ref[t]] = t

\* A pull publishes its result when it ends; a slot in the map is one for that
\* reference in which no result is yet.
SlotsOpen ==
  /\ \A t \in Pulls : step[t] = "idle" \/ InFlight(t) => resolved[t] = NoDigest
  /\ \A r \in Refs : inflight[r] # Nobody =>
       ref[inflight[r]] = r /\ resolved[inflight[r]] = NoDigest

\* A waiter has the slot of a pull of its own reference.
WaitersPaired ==
  \A t \in Pulls : step[t] = "wait" => slot[t] \in Pulls /\ ref[slot[t]] = ref[t]

\* What is being extracted, or was last, is what the leader has fetched.
JobsFetched ==
  \A t \in Pulls :
    /\ step[t] = "extract" => job[t] = got[t]
    /\ step[t] \in {"extract", "extracted"} => got[t] \in Digests
    /\ step[t] \in {"extracted", "failed"} => job[t] = NoDigest

\* Only platform digests are stored.
PlatformStored ==
  /\ \A d \in Digests : dir[d] = "done" => \E i \in Images : d = Platform[i]
  /\ \A t \in Pulls : job[t] # NoDigest => \E i \in Images : job[t] = Platform[i]

\* A directory is complete or not there.
DirsComplete ==
  /\ \A d \in Digests : dir[d] # "partial"
  /\ \A t \in Pulls : step[t] = "extracted" => Cached(got[t])

\* The windows have what the reference means now, and what was fetched since
\* they were opened.
WindowsCover ==
  /\ \A t \in Pulls : InFlight(t) => Platform[tag[ref[t]]] \in window[t]
  /\ \A t \in Pulls : step[t] \in {"extract", "extracted", "ok"} => got[t] \in window[t]
  /\ \A t \in Pulls : step[t] = "wait" =>
       /\ step[slot[t]] \in {"extract", "extracted"} => got[slot[t]] \in window[t]
       /\ resolved[slot[t]] # NoDigest => resolved[slot[t]] \in window[t]

PullInv ==
  /\ PullTypeOK /\ LeadersHold /\ SlotsOpen /\ WaitersPaired /\ JobsFetched
  /\ PlatformStored /\ WindowsCover
  /\ Removable => DirsComplete /\ PulledIsCached

-----------------------------------------------------------------------------
(* The calls *)

LEMMA Constants ==
  /\ Nobody \notin Pulls
  /\ NoDigest \notin Digests
  /\ \A i \in Images : Index[i] \in Digests /\ Platform[i] \in Digests
BY PullsAssumption, DigestsAssumption DEF Digests

\* How the calls' steps move the leaders, the slots and what is fetched.
Claims == LeadersHold /\ SlotsOpen /\ WaitersPaired /\ JobsFetched

LEMMA TypeStep ==
  ASSUME PullInv, NEW t \in Pulls, Pull(t) \/ Extract(t) \/ Drop(t)
  PROVE  PullTypeOK'
<1>. USE Constants DEF PullInv, PullTypeOK, Goto, slotVars, callVars, boundVars, Leads, InFlight
<1>0. /\ Platform[tag[ref[t]]] \in Digests /\ Index[tag[ref[t]]] \in Digests
      /\ step[t] \in {"extracted", "extract"} => got[t] \in Digests
  BY DEF JobsFetched
<1>1. CASE Start(t)
  BY <1>0, <1>1 DEF Start
<1>2. CASE Probe(t) \/ ProbeFails(t)
  BY <1>0, <1>2 DEF Probe, ProbeFails
<1>3. CASE ClaimLeader(t)
  BY <1>3 DEF ClaimLeader
<1>4. CASE ClaimWaiter(t)
  <2>. DEFINE lent == IF Leads(inflight[ref[t]]) THEN window[inflight[ref[t]]] ELSE {}
  <2>1. lent \in SUBSET Digests
    BY <1>4 DEF ClaimWaiter
  <2>2. window' = [window EXCEPT ![t] = window[t] \cup lent]
    BY <1>4 DEF ClaimWaiter
  <2>. HIDE DEF lent
  <2>. QED
    BY <1>4, <2>1, <2>2 DEF ClaimWaiter
<1>5. CASE Wake(t)
  BY <1>5 DEF Wake, WaitersPaired
<1>6. CASE Fetch(t)
  BY <1>0, <1>6 DEF Fetch, Settle
<1>7. CASE FetchFails(t)
  BY <1>7 DEF FetchFails, Settle
<1>8. CASE Extracted(t)
  BY <1>0, <1>8 DEF Extracted, Settle
<1>9. CASE Launch(t)
  BY <1>9 DEF Launch
<1>10. CASE Extract(t)
  BY <1>10 DEF Extract, ExtractEnds, ExtractFails
<1>11. CASE Drop(t)
  BY <1>11 DEF Drop
<1>. QED
  BY <1>1, <1>2, <1>3, <1>4, <1>5, <1>6, <1>7, <1>8, <1>9, <1>10, <1>11 DEF Pull

LEMMA ClaimsStep ==
  ASSUME PullInv, NEW t \in Pulls, Pull(t) \/ Extract(t) \/ Drop(t)
  PROVE  Claims'
<1>. USE Constants DEF PullInv, PullTypeOK, Goto, slotVars, callVars, boundVars, Leads, InFlight
<1>. USE DEF Claims, LeadersHold, SlotsOpen, WaitersPaired, JobsFetched
<1>1. CASE Start(t)
  BY <1>1 DEF Start
<1>2. CASE Probe(t) \/ ProbeFails(t)
  BY <1>2 DEF Probe, ProbeFails
<1>3. CASE ClaimLeader(t)
  BY <1>3 DEF ClaimLeader
<1>4. CASE ClaimWaiter(t)
  BY <1>4 DEF ClaimWaiter
<1>5. CASE Wake(t)
  BY <1>5 DEF Wake
<1>6. CASE Fetch(t)
  BY <1>6 DEF Fetch, Settle
<1>7. CASE FetchFails(t)
  BY <1>7 DEF FetchFails, Settle
<1>8. CASE Extracted(t)
  BY <1>8 DEF Extracted, Settle
<1>9. CASE Launch(t)
  BY <1>9 DEF Launch
<1>10. CASE Extract(t)
  BY <1>10 DEF Extract, ExtractEnds, ExtractFails
<1>11. CASE Drop(t)
  BY <1>11 DEF Drop
<1>. QED
  BY <1>1, <1>2, <1>3, <1>4, <1>5, <1>6, <1>7, <1>8, <1>9, <1>10, <1>11 DEF Pull

-----------------------------------------------------------------------------
(* What is stored, and what a pull may return *)

LEMMA StoredStep ==
  ASSUME PullInv, NEW t \in Pulls, Pull(t) \/ Extract(t) \/ Drop(t)
  PROVE  PlatformStored' /\ (Removable => DirsComplete /\ PulledIsCached)'
<1>. USE Constants DEF PullInv, PullTypeOK, Goto, slotVars, callVars, boundVars
<1>. USE DEF PlatformStored, DirsComplete, PulledIsCached, Cached, Removable
<1>1. CASE Start(t)
  BY <1>1 DEF Start
<1>2. CASE Probe(t) \/ ProbeFails(t)
  BY <1>2 DEF Probe, ProbeFails
<1>3. CASE ClaimLeader(t) \/ ClaimWaiter(t)
  BY <1>3 DEF ClaimLeader, ClaimWaiter
<1>4. CASE Wake(t)
  BY <1>4 DEF Wake
<1>5. CASE Fetch(t)
  BY <1>5 DEF Fetch, Settle
<1>6. CASE FetchFails(t)
  BY <1>6 DEF FetchFails, Settle
<1>7. CASE Extracted(t)
  BY <1>7 DEF Extracted, Settle
<1>8. CASE Launch(t)
  BY <1>8 DEF Launch
<1>9. CASE ExtractEnds(t)
  BY <1>9 DEF ExtractEnds, JobsFetched
<1>10. CASE ExtractFails(t)
  BY <1>10 DEF ExtractFails
<1>11. CASE Drop(t)
  BY <1>11 DEF Drop
<1>. QED
  BY <1>1, <1>2, <1>3, <1>4, <1>5, <1>6, <1>7, <1>8, <1>9, <1>10, <1>11 DEF Pull, Extract

\* A digest that the registry reports and that is stored is the one a pull of
\* the same image stores.
LEMMA CachedIndex ==
  ASSUME PlatformStored, NEW i \in Images, Cached(Index[i])
  PROVE  Index[i] = Platform[i]
BY Constants, DigestsAssumption DEF PlatformStored, Cached

LEMMA WindowsStep ==
  ASSUME PullInv, NEW t \in Pulls, Pull(t) \/ Extract(t) \/ Drop(t)
  PROVE  WindowsCover'
<1>. USE Constants DEF PullInv, PullTypeOK, Goto, slotVars, callVars, boundVars, Leads, InFlight
<1>. USE DEF WindowsCover
<1>1. CASE Start(t)
  BY <1>1 DEF Start
<1>2. CASE Probe(t)
  <2>1. Cached(Index[tag[ref[t]]]) => Index[tag[ref[t]]] = Platform[tag[ref[t]]]
    BY CachedIndex
  <2>. QED
    BY <1>2, <2>1 DEF Probe
<1>3. CASE ProbeFails(t)
  BY <1>3 DEF ProbeFails
<1>4. CASE ClaimLeader(t)
  BY <1>4 DEF ClaimLeader
<1>5. CASE ClaimWaiter(t)
  <2>. DEFINE leader == inflight[ref[t]]
              lent == IF Leads(leader) THEN window[leader] ELSE {}
  <2>1. /\ leader \in Pulls /\ resolved[leader] = NoDigest /\ step[t] = "claim"
        /\ slot' = [slot EXCEPT ![t] = leader] /\ window' = [window EXCEPT ![t] = window[t] \cup lent]
        /\ step' = [step EXCEPT ![t] = "wait"] /\ UNCHANGED <<tag, ref, got, resolved>>
    BY <1>5 DEF ClaimWaiter, SlotsOpen
  <2>2. step[leader] \in {"extract", "extracted"} => got[leader] \in lent
    BY <2>1
  <2>3. lent \in SUBSET Digests
    BY <2>1
  <2>. HIDE DEF leader, lent
  <2>. QED
    BY <2>1, <2>2, <2>3
<1>6. CASE Wake(t)
  BY <1>6 DEF Wake, WaitersPaired
<1>7. CASE Fetch(t)
  BY <1>7 DEF Fetch, Settle, WaitersPaired
<1>8. CASE FetchFails(t)
  BY <1>8 DEF FetchFails, Settle
<1>9. CASE Extracted(t)
  BY <1>9 DEF Extracted, Settle
<1>10. CASE Launch(t)
  BY <1>10 DEF Launch, WaitersPaired
<1>11. CASE Extract(t)
  BY <1>11 DEF Extract, ExtractEnds, ExtractFails, JobsFetched, WaitersPaired
<1>12. CASE Drop(t)
  BY <1>12 DEF Drop
<1>. QED
  BY <1>1, <1>2, <1>3, <1>4, <1>5, <1>6, <1>7, <1>8, <1>9, <1>10, <1>11, <1>12 DEF Pull

-----------------------------------------------------------------------------
(* The registry and the daemon *)

LEMMA PushStep ==
  ASSUME PullInv, NEW r \in Refs, NEW i \in Images, Push(r, i)
  PROVE  PullInv'
<1>. USE DEF PullInv, PullTypeOK, slotVars, callVars
<1>1. /\ tag' = [tag EXCEPT ![r] = i] /\ Platform[i] \in Digests
      /\ UNCHANGED <<dir, bundle, inflight, guard, resolved, step, ref, got, slot, job>>
  BY Constants DEF Push
<1>2. /\ pushes' \in Nat /\ restarts' \in Nat
      /\ window' \in [Pulls -> SUBSET Digests]
      /\ \A t \in Pulls : window[t] \subseteq window'[t]
      /\ \A t \in Pulls : InFlight(t) /\ ref[t] = r => Platform[i] \in window'[t]
  BY <1>1 DEF Push
<1>3. PullTypeOK'
  BY <1>1, <1>2
<1>4. LeadersHold' /\ SlotsOpen' /\ WaitersPaired' /\ JobsFetched'
  BY <1>1 DEF LeadersHold, SlotsOpen, WaitersPaired, JobsFetched, Leads, InFlight
<1>5. PlatformStored' /\ (Removable => DirsComplete /\ PulledIsCached)'
  BY <1>1 DEF Push, PlatformStored, DirsComplete, PulledIsCached, Cached, Removable
<1>6. WindowsCover'
  BY <1>1, <1>2 DEF WindowsCover, InFlight
<1>. QED
  BY <1>3, <1>4, <1>5, <1>6

LEMMA RestartStep ==
  ASSUME PullInv, Restart
  PROVE  PullInv'
<1>. USE DEF PullInv, PullTypeOK
<1>1. /\ dir' \in [Digests -> {"absent", "partial", "done"}]
      /\ \A d \in Digests : dir'[d] = "done" => dir[d] = "done"
      /\ \A d \in live_image_digests \cap Digests : dir[d] = "done" => dir'[d] = "done"
  BY DEF Restart, gc_unused_images
<1>2. Removable' => "remove" \notin Faults /\ Removable
  BY DEF Restart, Removable
<1>3. /\ \A t \in Pulls : step'[t] = "idle" /\ resolved'[t] = NoDigest /\ job'[t] = NoDigest
      /\ \A r \in Refs : inflight'[r] = Nobody
      /\ guard' = {} /\ bundle' = bundle
  BY DEF Restart
<1>4. PullTypeOK'
  BY <1>1 DEF Restart
<1>5. LeadersHold' /\ SlotsOpen' /\ WaitersPaired' /\ JobsFetched' /\ WindowsCover'
  BY <1>3 DEF LeadersHold, SlotsOpen, WaitersPaired, JobsFetched, WindowsCover, Leads, InFlight
<1>6. PlatformStored'
  BY <1>1, <1>3 DEF PlatformStored
<1>7. (Removable => DirsComplete /\ PulledIsCached)'
  <2>1. Removable' => \A d \in Digests : dir'[d] # "partial"
    BY <1>2 DEF Restart, gc_unused_images, DirsComplete
  <2>. QED
    BY <1>1, <1>2, <1>3, <2>1 DEF DirsComplete, PulledIsCached, Cached, live_image_digests
<1>. QED
  BY <1>4, <1>5, <1>6, <1>7

-----------------------------------------------------------------------------
(* The invariant *)

LEMMA PullInvInit == Init => PullInv
<1>. SUFFICES ASSUME Init PROVE PullInv
  OBVIOUS
<1>1. PullTypeOK
  BY DEF Init, PullTypeOK
<1>2. LeadersHold /\ SlotsOpen /\ WaitersPaired /\ JobsFetched /\ WindowsCover
  BY DEF Init, LeadersHold, SlotsOpen, WaitersPaired, JobsFetched, WindowsCover, Leads, InFlight
<1>3. PlatformStored /\ DirsComplete /\ PulledIsCached
  BY DEF Init, PlatformStored, DirsComplete, PulledIsCached, Cached
<1>. QED
  BY <1>1, <1>2, <1>3 DEF PullInv

LEMMA PullInvStep == PullInv /\ [Next]_vars => PullInv'
<1>. SUFFICES ASSUME PullInv, [Next]_vars
              PROVE  PullInv'
  OBVIOUS
<1>1. ASSUME NEW t \in Pulls, Pull(t) \/ Extract(t) \/ Drop(t)
      PROVE  PullInv'
  BY <1>1, TypeStep, ClaimsStep, StoredStep, WindowsStep DEF PullInv, Claims
<1>2. CASE UNCHANGED vars
  <2>. USE <1>2 DEF vars, slotVars, callVars, boundVars, PullInv, Leads, InFlight, Cached
  <2>1. PullTypeOK'
    BY DEF PullTypeOK
  <2>2. LeadersHold' /\ SlotsOpen' /\ WaitersPaired' /\ JobsFetched' /\ WindowsCover'
    BY DEF LeadersHold, SlotsOpen, WaitersPaired, JobsFetched, WindowsCover
  <2>3. PlatformStored' /\ (Removable => DirsComplete /\ PulledIsCached)'
    BY DEF PlatformStored, DirsComplete, PulledIsCached, Removable
  <2>. QED
    BY <2>1, <2>2, <2>3
<1>. QED
  BY <1>1, <1>2, PushStep, RestartStep DEF Next

LEMMA PullCorrect == PullSpec => []PullInv
BY PullInvInit, PullInvStep, PTL DEF PullSpec

-----------------------------------------------------------------------------
(* Theorems *)

\* However leaders fail, are dropped or restarted, at most one pull of a
\* reference downloads at a time, and a waiter sleeps on the barrier of a leader
\* of its reference that is at work.
THEOREM PullsCoalesce == PullSpec => []Coalesced
<1>1. PullInv => Coalesced
  BY Constants DEF PullInv, Coalesced, OneDownload, WaitersHaveLeader, LeadersHold, WaitersPaired
<1>. QED
  BY <1>1, PullCorrect, PTL

\* What a pull returned is complete on disk until the container is started, and
\* an image that some bundle refers to stays.
THEOREM PulledStays == PullSpec => [](Removable => PulledIsCached)
<1>1. PullInv => (Removable => PulledIsCached)
  BY DEF PullInv
<1>. QED
  BY <1>1, PullCorrect, PTL

\* A pull, be it a leader or a waiter, never returns an image the reference had
\* stopped to mean before it and the pull it coalesced with began.
THEOREM ResultsCurrent == PullSpec => []ResultWasCurrent
<1>1. PullInv => ResultWasCurrent
  BY DEF PullInv, WindowsCover, ResultWasCurrent
<1>. QED
  BY <1>1, PullCorrect, PTL

=============================================================================
