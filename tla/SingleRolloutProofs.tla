------------------------- MODULE SingleRolloutProofs -------------------------
(***************************************************************************)
(* Theorems about one rollout at a time next to any number of requests:    *)
(* what the app serves, which image it runs and what is left behind.  Two  *)
(* rollouts that overlap share the slot one of them tears down, so none of *)
(* this holds of them.                                                     *)
(***************************************************************************)
EXTENDS RolloverProofs

\* A rollout at a time, and nothing that stops or freezes the app.
OneRollout == RolloutsOnly /\ \A d, e \in Deployers : d = e

\* What RolloverProofs knows of these runs.
Base == TypeInv /\ FromIpOK /\ AloneInv

\* The tasks inside do_start or build_to_slot, which work on their own slot.
Works(t) == Starting(t) \/ t \in building

\* The rollout after its switch, or after its rollback.
TeardownPcs == {"teardown_stop", "teardown_release"}
Drains(t) == pc[t] \in {"drain"} \cup TeardownPcs

\* The steps that are left.
LEMMA OneStep ==
  ASSUME RolloutsOnly, [RolloverNext]_rolloverVars
  PROVE  \/ /\ UNCHANGED <<hostVars, state, container_ip, notify, current_slot, rollouts>>
            /\ UNCHANGED <<taskVars, from_ip>>
         \/ ContainerDies /\ UNCHANGED from_ip
         \/ \E t \in Requests : (Request(t) \/ Answer(t) \/ Upgrade(t)) /\ UNCHANGED from_ip
         \/ \E t \in Cancellable : Cancel(t) /\ UNCHANGED from_ip
         \/ \E t \in Callers : EnsureRunning(t) /\ UNCHANGED from_ip
         \/ \E t \in Deployers : RolloutAction(t)
BY LifecycleAssumption
   DEF RolloutsOnly, RolloverNext, LifecycleNext, TimePasses, rolloverVars, vars, handleVars, RolloutAction

-----------------------------------------------------------------------------
(* Who works on which slot *)

\* A start works on the current slot, a build on the other one, and a teardown
\* takes down the one that does not serve.  Nothing is resumed or thawed, since
\* nothing is frozen.
Places ==
  \A t \in Tasks :
    /\ pc[t] \notin {"resume_id", "unfreeze", "thaw_id", "thaw_app", "thaw_commit"}
    /\ Starting(t) /\ pc[t] # "current_id" => slot[t] = current_slot
    /\ t \in building => slot[t] = other(current_slot)
    /\ pc[t] = "drain" => slot[t] = current_slot
    /\ pc[t] \in TeardownPcs => work[t] = <<other(current_slot)>>
    /\ Drains(t) => state \in Serving
    /\ Rolling(t) \/ Drains(t) => t \in Deployers

LEMMA PlacesInit == RolloverInit => Places
BY DEF RolloverInit, LifecycleInit, Places, Starting, StartPcs, Drains, TeardownPcs, Rolling

LEMMA PlacesStep ==
  ASSUME OneRollout, Base, Places, [RolloverNext]_rolloverVars
  PROVE  Places'
<1>. USE DEF Base, AloneInv, StartsAlone, RollsAlone, Places, Starting, Rolling, Drains, TeardownPcs,
             StartPcs, BuildPcs, TypeInv, TypeOK, HandleTypeOK, TaskTypeOK, Pending, Goto, Become,
             handleVars, locals, Serving
<1>0. RolloutsOnly /\ Turn
  BY AloneStep DEF OneRollout
<1>1. CASE UNCHANGED <<state, current_slot, taskVars>>
  BY <1>1 DEF taskVars
<1>2. ASSUME NEW t \in Requests, Request(t) \/ Answer(t) \/ Upgrade(t)
      PROVE  Places'
  <2>. t \in Tasks
    BY LifecycleAssumption
  <2>1. CASE Request(t)
    BY <2>1 DEF Request
  <2>2. CASE Answer(t)
    BY <2>2 DEF Answer, Return
  <2>3. CASE Upgrade(t)
    BY <2>3 DEF Upgrade
  <2>. QED
    BY <1>2, <2>1, <2>2, <2>3
<1>3. ASSUME NEW t \in Cancellable, Cancel(t)
      PROVE  Places'
  BY <1>3, LifecycleAssumption DEF Cancel, Return
<1>4. ASSUME NEW t \in Callers, EnsureRunning(t)
      PROVE  Places'
  <2>. t \in Tasks
    BY LifecycleAssumption DEF Callers
  <2>1. CASE ClaimReady(t)
    BY <2>1 DEF ClaimReady
  <2>8. CASE ClaimCoalesce(t)
    BY <2>8 DEF ClaimCoalesce
  <2>9. CASE ClaimWaitForStopping(t)
    BY <2>9 DEF ClaimWaitForStopping
  <2>2. CASE Claim(t)
    BY <2>2 DEF Claim
  <2>3. CASE Backoff(t)
    BY <2>3 DEF Backoff
  <2>10. CASE Park(t)
    BY <2>10 DEF Park
  <2>4. CASE NotifyWaiters(t)
    BY <2>4 DEF NotifyWaiters
  <2>5. CASE Commit(t)
    BY <1>0, <2>5 DEF Commit, finish_start, Turn
  <2>6. CASE CurrentId(t)
    BY <2>6 DEF CurrentId
  <2>7. CASE StartPhase(t) /\ ~CurrentId(t)
    <3>1. /\ UNCHANGED <<handleVars, slot, work, building>>
          /\ \A u \in Tasks \ {t} : pc'[u] = pc[u]
          /\ pc[t] \in StartPcs \ {"current_id"}
      BY <2>7 DEF StartPhase, NoRollout, Allocate, Pull, StartApp, Readiness,
                  UnwindStop, UnwindRelease, Unfreeze
    <3>2. /\ pc'[t] \in (StartPcs \ {"current_id", "resume_id", "unfreeze"}) \cup {"switch"}
          /\ pc'[t] = "switch" => t \in building
      BY <2>7 DEF StartPhase, NoRollout, Allocate, Pull, StartApp, Readiness,
                  UnwindStop, UnwindRelease, Unfreeze, Finished
    <3>. QED
      BY <3>1, <3>2
  <2>. QED
    BY <1>4, <2>1, <2>2, <2>3, <2>4, <2>5, <2>6, <2>7, <2>8, <2>9, <2>10
       DEF EnsureRunning, StartPhase
<1>5. ASSUME NEW t \in Deployers, RolloutAction(t)
      PROVE  Places'
  <2>. t \in Tasks
    BY LifecycleAssumption
  <2>0. \A u \in Tasks \ {t} : ~Rolling(u) /\ ~Drains(u)
    BY DEF OneRollout
  <2>1. ASSUME NEW v \in Tags, SetRollout(t, v)
        PROVE  Places'
    BY <2>1 DEF SetRollout
  <2>2. CASE PullForRollout(t)
    BY <2>2 DEF PullForRollout, Return
  <2>3. CASE RecordRollout(t) \/ NeedsThaw(t) \/ EnterColdStart(t)
    BY <2>3 DEF RecordRollout, NeedsThaw, EnterColdStart
  <2>4. CASE EnterConflict(t)
    BY <2>4 DEF EnterConflict, Return
  <2>5. CASE EnterBlueGreen(t)
    BY <2>5 DEF EnterBlueGreen
  <2>6. CASE BuildToSlot(t)
    BY <2>6 DEF BuildToSlot
  <2>7. CASE SwitchOver(t)
    <3>1. \A u \in Tasks : ~Starting(u)
      BY <2>7 DEF SwitchOver
    <3>. QED
      BY <2>0, <2>7, <3>1 DEF SwitchOver, Built
  <2>8. CASE SwitchDrifted(t)
    BY <2>8 DEF SwitchDrifted, Built
  <2>9. CASE RollBack(t)
    BY <2>9 DEF RollBack, Built
  <2>10. CASE Drained(t)
    BY <2>10 DEF Drained
  <2>11. CASE Respond(t)
    BY <2>11 DEF Respond, Return
  <2>12. CASE TeardownStop(t)
    BY <2>12 DEF TeardownStop
  <2>13. CASE TeardownRelease(t)
    <3>1. Len(work[t]) = 1
      <4>1. work[t] = <<other(current_slot)>>
        BY <2>13 DEF TeardownRelease
      <4>. QED
        BY <4>1
    <3>2. pc'[t] = "done" /\ UNCHANGED <<handleVars, building, slot>>
      BY <2>13, <3>1 DEF TeardownRelease
    <3>3. \A u \in Tasks \ {t} : pc'[u] = pc[u] /\ work'[u] = work[u]
      BY <2>13 DEF TeardownRelease
    <3>. QED
      BY <3>2, <3>3
  <2>14. CASE ThawId(t) \/ ThawApp(t) \/ ThawCommit(t)
    BY <2>14 DEF ThawId, ThawApp, ThawCommit
  <2>. QED
    BY <1>5, <2>1, <2>2, <2>3, <2>4, <2>5, <2>6, <2>7, <2>8, <2>9, <2>10, <2>11, <2>12, <2>13, <2>14
       DEF RolloutAction, RolloutStep, Teardown
<1>. QED
  BY <1>0, <1>1, <1>2, <1>3, <1>4, <1>5, OneStep DEF ContainerDies

\* At any time at most one task has its hands on the containers.
LEMMA ActsAlone ==
  ASSUME OneRollout, Base, Places,
         NEW t \in Tasks, Works(t) \/ Drains(t)
  PROVE  \A u \in Tasks \ {t} : ~Works(u) /\ ~Drains(u)
BY DEF OneRollout, Base, AloneInv, StartsAlone, RollsAlone, Places, Works, Starting, Rolling, Drains,
       TeardownPcs, StartPcs, BuildPcs, TypeInv, Pending, Serving

-----------------------------------------------------------------------------
(* Which address is in which local *)

\* Where an operation has no address yet, and where a start has one.
WithoutPcs == {"idle", "claim", "coalesce", "parked", "backoff", "current_id", "allocate",
               "roll_pull", "roll_record", "thaw", "enter", "rollover"}
AllocatedPcs == {"pull", "start_app", "readiness", "unwind_stop", "unwind_release"}

Holds ==
  /\ state \in {"Stopped", "Starting"} => container_ip = NoIP
  /\ \A t \in Tasks : /\ pc[t] \in WithoutPcs => addr[t] = NoIP
                      /\ pc[t] \in AllocatedPcs => addr[t] # NoIP

LEMMA HoldsInit == RolloverInit => Holds
BY DEF RolloverInit, LifecycleInit, HandleInit, Holds, WithoutPcs, AllocatedPcs

LEMMA HoldsStep ==
  ASSUME OneRollout, Base, Places, Holds, [RolloverNext]_rolloverVars
  PROVE  Holds'
<1>. USE DEF Base, AloneInv, StartsAlone, RollsAlone, Places, Holds, WithoutPcs, AllocatedPcs, Starting,
             StartPcs, BuildPcs, TypeInv, TypeOK, HandleTypeOK, TaskTypeOK, Pending, Goto, Become,
             handleVars, locals
<1>0. RolloutsOnly
  BY DEF OneRollout
<1>1. CASE UNCHANGED <<state, container_ip, taskVars>>
  BY <1>1 DEF taskVars
<1>2. ASSUME NEW t \in Requests, Request(t) \/ Answer(t) \/ Upgrade(t)
      PROVE  Holds'
  <2>. t \in Tasks
    BY LifecycleAssumption
  <2>1. CASE Request(t)
    BY <2>1 DEF Request
  <2>2. CASE Answer(t)
    BY <2>2 DEF Answer, Return
  <2>3. CASE Upgrade(t)
    BY <2>3 DEF Upgrade
  <2>. QED
    BY <1>2, <2>1, <2>2, <2>3
<1>3. ASSUME NEW t \in Cancellable, Cancel(t)
      PROVE  Holds'
  BY <1>3, LifecycleAssumption DEF Cancel, Return
<1>4. ASSUME NEW t \in Callers, EnsureRunning(t)
      PROVE  Holds'
  <2>. t \in Tasks
    BY LifecycleAssumption DEF Callers
  <2>1. CASE ClaimReady(t)
    BY <2>1 DEF ClaimReady
  <2>2. CASE ClaimCoalesce(t)
    BY <2>2 DEF ClaimCoalesce
  <2>3. CASE ClaimWaitForStopping(t)
    BY <2>3 DEF ClaimWaitForStopping
  <2>4. CASE Claim(t)
    BY <2>4 DEF Claim
  <2>5. CASE Backoff(t) \/ Park(t)
    BY <2>5 DEF Backoff, Park
  <2>6. CASE NotifyWaiters(t)
    BY <2>6 DEF NotifyWaiters
  <2>7. CASE Commit(t)
    BY <2>7 DEF Commit, finish_start
  <2>8. CASE CurrentId(t)
    BY <2>8 DEF CurrentId
  <2>9. CASE NoRollout(t)
    BY <2>9 DEF NoRollout, Finished
  <2>10. CASE Allocate(t)
    <3>1. UNCHANGED <<state, container_ip>>
      BY <2>10 DEF Allocate
    <3>2. CASE \E ip \in IPs : addr' = [addr EXCEPT ![t] = ip] /\ Goto(t, "pull")
      BY <3>1, <3>2, IPsAssumption DEF NoIP
    <3>3. CASE Goto(t, Finished(t)) /\ UNCHANGED addr
      BY <3>1, <3>3 DEF Finished
    <3>. QED
      BY <2>10, <3>2, <3>3 DEF Allocate
  <2>11. CASE Pull(t)
    BY <2>11 DEF Pull
  <2>12. CASE StartApp(t)
    BY <2>12 DEF StartApp
  <2>13. CASE Readiness(t)
    BY <2>13 DEF Readiness, Finished
  <2>14. CASE UnwindStop(t)
    BY <2>14 DEF UnwindStop
  <2>15. CASE UnwindRelease(t)
    BY <2>15 DEF UnwindRelease, Finished
  <2>16. CASE Unfreeze(t)
    BY <2>16 DEF Unfreeze
  <2>. QED
    BY <1>4, <2>1, <2>2, <2>3, <2>4, <2>5, <2>6, <2>7, <2>8, <2>9, <2>10, <2>11, <2>12, <2>13,
       <2>14, <2>15, <2>16 DEF EnsureRunning, StartPhase
<1>5. ASSUME NEW t \in Deployers, RolloutAction(t)
      PROVE  Holds'
  <2>. t \in Tasks
    BY LifecycleAssumption
  <2>1. ASSUME NEW v \in Tags, SetRollout(t, v)
        PROVE  Holds'
    BY <2>1 DEF SetRollout
  <2>2. CASE PullForRollout(t)
    BY <2>2 DEF PullForRollout, Return
  <2>3. CASE RecordRollout(t) \/ NeedsThaw(t) \/ EnterColdStart(t)
    BY <2>3 DEF RecordRollout, NeedsThaw, EnterColdStart
  <2>4. CASE EnterConflict(t)
    BY <2>4 DEF EnterConflict, Return
  <2>5. CASE EnterBlueGreen(t)
    BY <2>5 DEF EnterBlueGreen
  <2>6. CASE BuildToSlot(t)
    BY <2>6 DEF BuildToSlot
  <2>7. CASE SwitchOver(t)
    BY <2>7 DEF SwitchOver, Built
  <2>8. CASE SwitchDrifted(t)
    BY <2>8 DEF SwitchDrifted, Built
  <2>9. CASE RollBack(t)
    BY <2>9 DEF RollBack, Built
  <2>10. CASE Drained(t)
    BY <2>10 DEF Drained
  <2>11. CASE Respond(t)
    BY <2>11 DEF Respond, Return
  <2>12. CASE Teardown(t)
    <3>1. /\ UNCHANGED <<handleVars, addr>>
          /\ \A u \in Tasks \ {t} : pc'[u] = pc[u]
      BY <2>12 DEF Teardown, TeardownStop, TeardownRelease
    <3>2. pc'[t] \in {"teardown_stop", "teardown_release", "done", "stop_commit"}
      BY <2>12 DEF Teardown, TeardownStop, TeardownRelease
    <3>. QED
      BY <3>1, <3>2
  <2>13. CASE ThawId(t) \/ ThawApp(t) \/ ThawCommit(t)
    BY <2>13 DEF ThawId, ThawApp, ThawCommit
  <2>. QED
    BY <1>5, <2>1, <2>2, <2>3, <2>4, <2>5, <2>6, <2>7, <2>8, <2>9, <2>10, <2>11, <2>12, <2>13
       DEF RolloutAction, RolloutStep
<1>. QED
  BY <1>0, <1>1, <1>2, <1>3, <1>4, <1>5, OneStep DEF ContainerDies

-----------------------------------------------------------------------------
(* Whoever is routed to reaches a running container *)

\* A start or a build has brought its container up.
Up(t) == addr[t] # NoIP /\ pc[t] \in {"readiness", "commit", "switch"}

\* The container of slot s runs at address ip, unless it died of itself.
RunsAt(s, ip) ==
  IF container[s] = "down" THEN "crash" \in Faults
  ELSE container[s] = "running" /\ attached[s] = ip

\* From the launch to the switch or the commit a new container keeps the
\* address it was started with, and so does the one that serves meanwhile.
Serves ==
  /\ state \in Serving => RunsAt(current_slot, container_ip)
  /\ \A t \in Tasks : Works(t) =>
       /\ pc[t] \in {"pull", "start_app"} => netns[slot[t]] = addr[t]
       /\ Up(t) => RunsAt(slot[t], addr[t])

LEMMA ServesInit == RolloverInit => Serves
BY DEF RolloverInit, LifecycleInit, HandleInit, Serves, Serving, Works, Starting, StartPcs

\* A step that leaves the host, the handle and every start alone.
LEMMA ServesFrame ==
  ASSUME Serves, UNCHANGED <<hostVars, state, container_ip, current_slot>>,
         \A t \in Tasks : Works(t)' => Works(t) /\ pc'[t] = pc[t] /\ slot'[t] = slot[t] /\ addr'[t] = addr[t]
  PROVE  Serves'
BY DEF Serves, RunsAt, Up, hostVars

LEMMA ServesStep ==
  ASSUME OneRollout, Base, Places, Holds, Serves, [RolloverNext]_rolloverVars
  PROVE  Serves'
<1>. USE DEF Base, AloneInv, StartsAlone, RollsAlone, Places, Works, Starting, StartPcs, BuildPcs, Serving,
             TypeInv, TypeOK, HostTypeOK, HandleTypeOK, TaskTypeOK, Pending, Goto, Become, handleVars, locals
<1>0. RolloutsOnly
  BY DEF OneRollout
<1>1. CASE UNCHANGED <<hostVars, state, container_ip, current_slot, taskVars>>
  BY <1>1, ServesFrame DEF taskVars
<1>2. ASSUME NEW t \in Requests, Request(t) \/ Answer(t) \/ Upgrade(t)
      PROVE  Serves'
  BY <1>2, LifecycleAssumption, ServesFrame DEF Request, Answer, Upgrade, Return
<1>3. ASSUME NEW t \in Cancellable, Cancel(t)
      PROVE  Serves'
  BY <1>3, LifecycleAssumption, ServesFrame DEF Cancel, Return
<1>4. ASSUME NEW t \in Callers, EnsureRunning(t)
      PROVE  Serves'
  <2>. t \in Tasks
    BY LifecycleAssumption DEF Callers
  <2>1. CASE ClaimReady(t) \/ ClaimCoalesce(t) \/ ClaimWaitForStopping(t) \/ Backoff(t) \/ Park(t)
    BY <2>1, ServesFrame DEF ClaimReady, ClaimCoalesce, ClaimWaitForStopping, Backoff, Park
  <2>2. CASE NotifyWaiters(t)
    BY <2>2, ServesFrame DEF NotifyWaiters
  <2>3. CASE Claim(t)
    BY <2>3 DEF Claim, Serves, RunsAt, Up, hostVars
  <2>4. CASE Commit(t)
    <3>1. Starting(t) /\ state = "Starting" /\ slot[t] = current_slot
      BY <2>4 DEF Commit
    <3>2. \A u \in Tasks : ~Works(u)'
      BY <2>4, <3>1 DEF Commit, Rolling
    <3>3. addr[t] # NoIP => RunsAt(current_slot, addr[t])
      BY <2>4, <3>1 DEF Commit, Serves, Up
    <3>. QED
      BY <2>4, <3>2, <3>3 DEF Commit, finish_start, Serves, RunsAt, hostVars
  <2>5. CASE StartPhase(t)
    <3>1. Works(t) /\ \A u \in Tasks \ {t} : ~Works(u)
      BY <2>5, ActsAlone DEF StartPhase, CurrentId, NoRollout, Allocate, Pull, StartApp, Readiness,
                  UnwindStop, UnwindRelease, Unfreeze
    <3>2. /\ \A u \in Tasks \ {t} : pc'[u] = pc[u]
          /\ UNCHANGED <<handleVars, building>>
      BY <2>5 DEF StartPhase, CurrentId, NoRollout, Allocate, Pull, StartApp, Readiness,
                  UnwindStop, UnwindRelease, Unfreeze
    <3>3. \A u \in Tasks \ {t} : ~Works(u)'
      BY <3>1, <3>2
    <3>4. state \in Serving => /\ t \in building /\ slot[t] \in Slots /\ slot[t] # current_slot
                               /\ RunsAt(current_slot, container_ip)
      BY <3>1 DEF Slots, other, Serves
    <3>5. slot[t] \in Slots
      OBVIOUS
    <3>6. CASE CurrentId(t)
      BY <3>2, <3>3, <3>6 DEF CurrentId, Serves, RunsAt, Up, hostVars
    <3>7. CASE NoRollout(t)
      BY <3>2, <3>3, <3>7 DEF NoRollout, Finished, Serves, RunsAt, Up, hostVars, Holds, WithoutPcs
    <3>8. CASE Allocate(t)
      <4>1. ASSUME NEW ip \in IPs, allocate_endpoint(slot[t], ip), addr' = [addr EXCEPT ![t] = ip], Goto(t, "pull")
            PROVE  Serves'
        <5>1. /\ netns'[slot[t]] = ip
              /\ \A s \in Slots \ {slot[t]} : container'[s] = container[s] /\ attached'[s] = attached[s]
          BY <4>1, <3>5 DEF allocate_endpoint
        <5>. QED
          BY <3>2, <3>3, <3>4, <3>8, <4>1, <5>1 DEF Allocate, Serves, RunsAt, Up
      <4>2. ASSUME AllocateFails(slot[t]), Goto(t, Finished(t)), UNCHANGED addr
            PROVE  Serves'
        <5>1. \A s \in Slots \ {slot[t]} : container'[s] = container[s] /\ attached'[s] = attached[s]
          BY <4>2 DEF AllocateFails, Detached, hostVars
        <5>2. addr'[t] = NoIP
          BY <3>8, <4>2 DEF Allocate, Holds, WithoutPcs
        <5>. QED
          BY <3>2, <3>3, <3>4, <4>2, <5>1, <5>2 DEF Finished, Serves, RunsAt, Up
      <4>. QED
        BY <3>8, <4>1, <4>2 DEF Allocate
    <3>9. CASE Pull(t)
      BY <3>2, <3>3, <3>9 DEF Pull, Serves, RunsAt, Up, hostVars
    <3>10. CASE StartApp(t)
      <4>1. netns[slot[t]] = addr[t]
        BY <3>1, <3>10 DEF StartApp, Serves
      <4>2. CASE start_app(slot[t], tag[t]) /\ Goto(t, "readiness")
        <5>1. /\ container'[slot[t]] = "running" /\ attached'[slot[t]] = addr[t]
              /\ \A s \in Slots \ {slot[t]} : container'[s] = container[s] /\ attached'[s] = attached[s]
          BY <3>5, <4>1, <4>2 DEF start_app, Launched
        <5>. QED
          BY <3>2, <3>3, <3>4, <3>10, <4>2, <5>1 DEF StartApp, Serves, RunsAt, Up
      <4>3. CASE StartAppFails(slot[t], tag[t]) /\ Goto(t, "unwind_release")
        <5>1. \A s \in Slots \ {slot[t]} : container'[s] = container[s] /\ attached'[s] = attached[s]
          BY <4>3 DEF StartAppFails, Launched, Down, hostVars
        <5>. QED
          BY <3>2, <3>3, <3>4, <3>10, <4>3, <5>1 DEF StartApp, Serves, RunsAt, Up
      <4>. QED
        BY <3>10, <4>2, <4>3 DEF StartApp
    <3>11. CASE Readiness(t)
      BY <3>1, <3>2, <3>3, <3>11 DEF Readiness, Finished, Serves, RunsAt, Up, hostVars
    <3>12. CASE UnwindStop(t)
      <4>1. \A s \in Slots \ {slot[t]} : container'[s] = container[s] /\ attached'[s] = attached[s]
        BY <3>12 DEF UnwindStop, stop_app, Down, hostVars
      <4>. QED
        BY <3>2, <3>3, <3>4, <3>12, <4>1 DEF UnwindStop, Serves, RunsAt, Up
    <3>13. CASE UnwindRelease(t)
      <4>1. \A s \in Slots \ {slot[t]} : container'[s] = container[s] /\ attached'[s] = attached[s]
        BY <3>13 DEF UnwindRelease, release_endpoint, Detached, hostVars
      <4>2. addr'[t] = NoIP /\ pc'[t] \in {"commit", "switch"}
        BY <3>13 DEF UnwindRelease, Finished
      <4>. QED
        BY <3>2, <3>3, <3>4, <4>1, <4>2 DEF Serves, RunsAt, Up
    <3>14. CASE Unfreeze(t)
      BY <3>14 DEF Unfreeze
    <3>. QED
      BY <2>5, <3>6, <3>7, <3>8, <3>9, <3>10, <3>11, <3>12, <3>13, <3>14 DEF StartPhase
  <2>. QED
    BY <1>4, <2>1, <2>2, <2>3, <2>4, <2>5 DEF EnsureRunning
<1>5. ASSUME NEW t \in Deployers, RolloutAction(t)
      PROVE  Serves'
  <2>. t \in Tasks
    BY LifecycleAssumption
  <2>1. ASSUME NEW v \in Tags, SetRollout(t, v)
        PROVE  Serves'
    BY <2>1, ServesFrame DEF SetRollout
  <2>2. CASE PullForRollout(t) \/ EnterConflict(t) \/ Respond(t)
    BY <2>2, ServesFrame DEF PullForRollout, EnterConflict, Respond, Return
  <2>3. CASE RecordRollout(t) \/ NeedsThaw(t) \/ EnterColdStart(t) \/ Drained(t)
    BY <2>3, ServesFrame DEF RecordRollout, NeedsThaw, EnterColdStart, Drained
  <2>4. CASE EnterBlueGreen(t)
    <3>1. \A u \in Tasks : ~Works(u)'
      BY <2>4 DEF EnterBlueGreen, Rolling
    <3>. QED
      BY <2>4, <3>1 DEF EnterBlueGreen, Serves, RunsAt, hostVars
  <2>5. CASE BuildToSlot(t)
    <3>1. \A u \in Tasks \ {t} : ~Works(u)'
      BY <2>5 DEF BuildToSlot, Rolling
    <3>. QED
      BY <2>5, <3>1 DEF BuildToSlot, Serves, RunsAt, Up, hostVars
  <2>6. CASE SwitchOver(t) \/ SwitchDrifted(t) \/ RollBack(t)
    <3>1. pc[t] = "switch" /\ t \in building /\ building' = building \ {t}
      BY <2>6 DEF SwitchOver, SwitchDrifted, RollBack, Built
    <3>2. /\ state = "RollingOver" /\ from_ip[t] = container_ip
          /\ \A u \in Tasks \ {t} : ~Works(u)
      BY <3>1, ActsAlone DEF Rolling
    <3>3. \A u \in Tasks : ~Works(u)'
      BY <2>6, <3>1, <3>2 DEF SwitchOver, SwitchDrifted, RollBack
    <3>4. CASE SwitchOver(t)
      BY <3>1, <3>3, <3>4 DEF SwitchOver, Serves, RunsAt, Up, hostVars
    <3>5. CASE RollBack(t)
      BY <3>2, <3>3, <3>5 DEF RollBack, Serves, RunsAt, hostVars
    <3>. QED
      BY <2>6, <3>2, <3>4, <3>5 DEF SwitchDrifted
  <2>7. CASE Teardown(t)
    <3>1. work[t] = <<other(current_slot)>> /\ \A u \in Tasks : ~Works(u)
      BY <2>7, ActsAlone DEF Teardown, TeardownStop, TeardownRelease, Drains, TeardownPcs
    <3>2. Head(work[t]) = other(current_slot) /\ other(current_slot) # current_slot
      BY <3>1 DEF other, Slots
    <3>3. \A s \in Slots : s # other(current_slot) => container'[s] = container[s] /\ attached'[s] = attached[s]
      BY <2>7, <3>2 DEF Teardown, TeardownStop, TeardownRelease, stop_app, Down, release_endpoint, Detached, hostVars
    <3>4. UNCHANGED handleVars /\ \A u \in Tasks : ~Works(u)'
      BY <2>7, <3>1 DEF Teardown, TeardownStop, TeardownRelease
    <3>. QED
      BY <3>2, <3>3, <3>4 DEF Serves, RunsAt
  <2>8. CASE ThawId(t) \/ ThawApp(t) \/ ThawCommit(t)
    BY <2>8 DEF ThawId, ThawApp, ThawCommit
  <2>. QED
    BY <1>5, <2>1, <2>2, <2>3, <2>4, <2>5, <2>6, <2>7, <2>8 DEF RolloutAction, RolloutStep
<1>6. ASSUME NEW s \in Slots, Crash(s), UNCHANGED <<handleVars, taskVars>>
      PROVE  Serves'
  <2>1. \A r \in Slots : \A ip : RunsAt(r, ip) => RunsAt(r, ip)'
    BY <1>6 DEF Crash, Down, RunsAt
  <2>. QED
    BY <1>6, <2>1 DEF Crash, Down, Serves, Up, taskVars
<1>. QED
  BY <1>0, <1>1, <1>2, <1>3, <1>4, <1>5, <1>6, OneStep DEF ContainerDies

-----------------------------------------------------------------------------
(* Which image runs *)

newest == rollouts[Len(rollouts)]

\* A start or a build that has read its tag and not failed since.
Tagged(t) == pc[t] = "start_app" \/ Up(t)

\* A rollout after it recorded its tag and found the way to bring it up: a
\* cold start of its own or of a request it waits for, or a switch.
Late(t) ==
  \/ pc[t] \in {"claim", "coalesce", "parked", "backoff", "notify", "drain"} \/ Starting(t)
  \/ pc[t] \in TeardownPcs \cup {"done"} /\ addr[t] # NoIP

\* Whatever serves or is being started is the newest rollout.
Fresh ==
  /\ state \in Serving /\ is_container_running(current_slot) => image[current_slot] = newest
  /\ \A t \in Tasks : Starting(t) /\ Tagged(t) => tag[t] = newest

\* A request may have started an older tag before the rollout recorded its own,
\* but not any more once the rollout has decided how to proceed.
Effective ==
  /\ \A t \in Tasks :
       Works(t) /\ Up(t) /\ is_container_running(slot[t]) => image[slot[t]] = tag[t]
  /\ \A t \in building : Tagged(t) => tag[t] = newest
  /\ \A d \in Deployers : Late(d) => Fresh

LEMMA EffectiveInit == RolloverInit => Effective
BY LifecycleAssumption
   DEF RolloverInit, LifecycleInit, HandleInit, Effective, Fresh, Late, Tagged, Up, Serving, Works,
       Starting, StartPcs, TeardownPcs

\* A step that leaves the host and every start alone, and makes no rollout late.
LEMMA EffectiveFrame ==
  ASSUME Effective, UNCHANGED <<hostVars, state, current_slot, rollouts>>,
         building' \subseteq building,
         \A t \in Tasks : Works(t)' => /\ Works(t) /\ (Starting(t)' <=> Starting(t))
                                       /\ pc'[t] = pc[t] /\ slot'[t] = slot[t]
                                       /\ addr'[t] = addr[t] /\ tag'[t] = tag[t],
         building \subseteq Tasks,
         \A d \in Deployers : Late(d)' => Late(d)
  PROVE  Effective'
<1>. USE DEF Effective, Tagged, Up, is_container_running, hostVars
<1>1. newest' = newest
  BY DEF newest
<1>2. Fresh => Fresh'
  BY <1>1 DEF Fresh, Works
<1>3. \A t \in building' : t \in Tasks /\ Works(t)'
  BY DEF Works
<1>. QED
  BY <1>1, <1>2, <1>3

LEMMA EffectiveStep ==
  ASSUME OneRollout, Base, Places, Holds, Effective, [RolloverNext]_rolloverVars
  PROVE  Effective'
<1>. USE DEF Base, AloneInv, StartsAlone, RollsAlone, Places, Works, Starting, StartPcs, BuildPcs, Serving,
             Late, TeardownPcs, TypeInv, TypeOK, HostTypeOK, HandleTypeOK, TaskTypeOK, Pending, Goto,
             Become, handleVars, locals
<1>0. RolloutsOnly
  BY DEF OneRollout
<1>1. CASE UNCHANGED <<hostVars, state, current_slot, rollouts, taskVars>>
  BY <1>1, EffectiveFrame DEF taskVars
<1>2. ASSUME NEW t \in Requests, Request(t) \/ Answer(t) \/ Upgrade(t)
      PROVE  Effective'
  BY <1>2, LifecycleAssumption, EffectiveFrame DEF Request, Answer, Upgrade, Return
<1>3. ASSUME NEW t \in Cancellable, Cancel(t)
      PROVE  Effective'
  BY <1>3, LifecycleAssumption, EffectiveFrame DEF Cancel, Return
<1>4. ASSUME NEW t \in Callers, EnsureRunning(t)
      PROVE  Effective'
  <2>. t \in Tasks
    BY LifecycleAssumption DEF Callers
  <2>1. CASE ClaimReady(t)
    BY <2>1, EffectiveFrame DEF ClaimReady
  <2>2. CASE ClaimCoalesce(t)
    BY <2>2, EffectiveFrame DEF ClaimCoalesce
  <2>7. CASE ClaimWaitForStopping(t)
    BY <2>7, EffectiveFrame DEF ClaimWaitForStopping
  <2>8. CASE Backoff(t)
    BY <2>8, EffectiveFrame DEF Backoff
  <2>9. CASE Park(t)
    BY <2>9, EffectiveFrame DEF Park
  <2>3. CASE NotifyWaiters(t)
    <3>1. \A u \in Tasks : pc'[u] # pc[u] => /\ pc[u] \in {"notify", "parked"}
                                             /\ pc'[u] \in {"done", "claim"}
      BY <2>3 DEF NotifyWaiters
    <3>2. \A u \in Tasks : Works(u)' => Works(u) /\ pc'[u] = pc[u]
      BY <2>3, <3>1 DEF NotifyWaiters
    <3>3. \A d \in Deployers : Late(d)' => Late(d)
      BY <2>3, <3>1, LifecycleAssumption DEF NotifyWaiters
    <3>. QED
      BY <2>3, <3>2, <3>3, EffectiveFrame DEF NotifyWaiters
  <2>4. CASE Claim(t)
    <3>1. \A u \in Tasks \ {t} : ~Works(u)'
      BY <2>4 DEF Claim, Rolling
    <3>2. pc'[t] = "current_id" /\ t \notin building' /\ state' = "Starting"
      BY <2>4 DEF Claim
    <3>3. Fresh'
      BY <3>1, <3>2 DEF Fresh, Tagged, Up
    <3>. QED
      BY <2>4, <3>1, <3>2, <3>3 DEF Claim, Effective, Tagged, Up
  <2>5. CASE Commit(t)
    <3>1. Starting(t) /\ state = "Starting" /\ slot[t] = current_slot
      BY <2>5 DEF Commit
    <3>2. \A u \in Tasks : ~Works(u)'
      BY <2>5, <3>1 DEF Commit, Rolling
    <3>3. \A d \in Deployers : Late(d)' => Late(d)
      BY <2>5 DEF Commit
    <3>4. Fresh => Fresh'
      <4>1. Fresh /\ addr[t] # NoIP /\ is_container_running(current_slot) => image[current_slot] = newest
        BY <2>5, <3>1 DEF Commit, Effective, Fresh, Tagged, Up
      <4>. QED
        BY <2>5, <3>2, <4>1 DEF Commit, finish_start, Fresh, is_container_running, newest, hostVars
    <3>. QED
      BY <2>5, <3>2, <3>3, <3>4 DEF Commit, Effective
  <2>6. CASE StartPhase(t)
    <3>1. Works(t) /\ \A u \in Tasks \ {t} : ~Works(u)
      BY <2>6, ActsAlone DEF StartPhase, CurrentId, NoRollout, Allocate, Pull, StartApp, Readiness,
                  UnwindStop, UnwindRelease, Unfreeze
    <3>2. /\ \A u \in Tasks \ {t} : pc'[u] = pc[u] /\ addr'[u] = addr[u]
          /\ UNCHANGED <<handleVars, building, slot>> \/ CurrentId(t)
          /\ UNCHANGED <<handleVars, building>>
      BY <2>6 DEF StartPhase, CurrentId, NoRollout, Allocate, Pull, StartApp, Readiness,
                  UnwindStop, UnwindRelease, Unfreeze
    <3>3. \A u \in Tasks \ {t} : ~Works(u)'
      BY <3>1, <3>2
    <3>4. state \in Serving => t \in building /\ slot[t] \in Slots /\ slot[t] # current_slot
      BY <3>1 DEF Slots, other
    <3>5. slot[t] \in Slots /\ newest' = newest
      BY <3>2 DEF newest
    <3>6. \A d \in Deployers : Late(d)' => Late(d)
      <4>1. pc[t] \in StartPcs /\ (t \in building => pc'[t] \in BuildPcs)
        BY <2>6 DEF StartPhase, CurrentId, NoRollout, Allocate, Pull, StartApp, Readiness,
                    UnwindStop, UnwindRelease, Unfreeze, Finished
      <4>. QED
        BY <3>2, <4>1, LifecycleAssumption
    \* What is left to say of a step: it keeps the serving image, and the start
    \* has the newest tag and runs its own if it is up.
    <3>7. ASSUME \A s \in Slots \ {slot[t]} : container'[s] = container[s] /\ image'[s] = image[s],
                 Up(t)' /\ is_container_running(slot[t])' => image'[slot'[t]] = tag'[t],
                 Tagged(t)' => tag'[t] = newest \/ (tag'[t] = tag[t] /\ Tagged(t))
          PROVE  Effective'
      <4>1. Fresh => Fresh'
        BY <3>1, <3>2, <3>3, <3>4, <3>5, <3>7 DEF Fresh, is_container_running
      <4>2. t \in building => (Tagged(t)' => tag'[t] = newest)
        BY <3>7 DEF Effective
      <4>3. \A u \in building' : u = t /\ t \in building
        BY <3>1, <3>2
      <4>4. \A u \in Tasks : Works(u)' => u = t
        BY <3>3
      <4>5. \A u \in Tasks :
              (Works(u) /\ Up(u) /\ is_container_running(slot[u]))' => image'[slot'[u]] = tag'[u]
        BY <3>7, <4>4
      <4>6. \A u \in building' : Tagged(u)' => tag'[u] = newest'
        <5>. SUFFICES ASSUME NEW u \in building', Tagged(u)'
                      PROVE  tag'[u] = newest'
          OBVIOUS
        <5>1. u = t /\ t \in building
          BY <4>3
        <5>2. Tagged(t)'
          BY <5>1 DEF Tagged, Up
        <5>. QED
          BY <3>5, <4>2, <5>1, <5>2
      <4>7. \A d \in Deployers : Late(d)' => Fresh'
        BY <3>6, <4>1 DEF Effective
      <4>. QED
        BY <4>5, <4>6, <4>7 DEF Effective
    <3>8. CASE CurrentId(t) \/ NoRollout(t)
      BY <3>7, <3>8 DEF CurrentId, NoRollout, Finished, Up, Tagged, hostVars, Holds, WithoutPcs
    <3>9. CASE Allocate(t)
      <4>1. pc'[t] # "start_app" /\ ~Up(t)'
        BY <3>9 DEF Allocate, Finished, Up, Holds, WithoutPcs
      <4>2. \A s \in Slots : container'[s] = container[s] /\ image'[s] = image[s]
        BY <3>9 DEF Allocate, allocate_endpoint, AllocateFails, hostVars
      <4>. QED
        BY <3>7, <4>1, <4>2 DEF Tagged
    <3>10. CASE Pull(t)
      BY <3>7, <3>10 DEF Pull, Up, Tagged, hostVars, newest
    <3>11. CASE StartApp(t)
      <4>1. CASE start_app(slot[t], tag[t]) /\ Goto(t, "readiness")
        <5>1. /\ image'[slot[t]] = tag[t]
              /\ \A s \in Slots \ {slot[t]} : container'[s] = container[s] /\ image'[s] = image[s]
          BY <3>5, <4>1 DEF start_app, Launched
        <5>. QED
          BY <3>7, <3>11, <4>1, <5>1 DEF StartApp, Tagged
      <4>2. CASE StartAppFails(slot[t], tag[t]) /\ Goto(t, "unwind_release")
        <5>1. \A s \in Slots \ {slot[t]} : container'[s] = container[s] /\ image'[s] = image[s]
          BY <4>2 DEF StartAppFails, Launched, Down, hostVars
        <5>. QED
          BY <3>7, <3>11, <4>2, <5>1 DEF StartApp, Tagged, Up
      <4>. QED
        BY <3>11, <4>1, <4>2 DEF StartApp
    <3>12. CASE Readiness(t)
      <4>1. Up(t)
        BY <3>12 DEF Readiness, Up, Holds, AllocatedPcs
      <4>2. is_container_running(slot[t]) => image[slot[t]] = tag[t]
        BY <3>1, <4>1 DEF Effective
      <4>. QED
        BY <3>7, <3>12, <4>1, <4>2 DEF Readiness, Finished, Tagged, hostVars, is_container_running
    <3>13. CASE UnwindStop(t)
      <4>1. \A s \in Slots \ {slot[t]} : container'[s] = container[s] /\ image'[s] = image[s]
        BY <3>13 DEF UnwindStop, stop_app, Down, hostVars
      <4>. QED
        BY <3>7, <3>13, <4>1 DEF UnwindStop, Tagged, Up
    <3>14. CASE UnwindRelease(t)
      <4>1. \A s \in Slots : container'[s] = container[s] /\ image'[s] = image[s]
        BY <3>14 DEF UnwindRelease, release_endpoint, hostVars
      <4>2. ~Tagged(t)' /\ ~Up(t)'
        BY <3>14 DEF UnwindRelease, Finished, Tagged, Up
      <4>. QED
        BY <3>7, <4>1, <4>2
    <3>15. CASE Unfreeze(t)
      BY <3>15 DEF Unfreeze
    <3>. QED
      BY <2>6, <3>8, <3>9, <3>10, <3>11, <3>12, <3>13, <3>14, <3>15 DEF StartPhase
  <2>. QED
    BY <1>4, <2>1, <2>2, <2>3, <2>4, <2>5, <2>6, <2>7, <2>8, <2>9
       DEF EnsureRunning
<1>5. ASSUME NEW t \in Deployers, RolloutAction(t)
      PROVE  Effective'
  <2>. t \in Tasks /\ \A d \in Deployers : d = t
    BY LifecycleAssumption DEF OneRollout
  <2>1. ASSUME NEW v \in Tags, SetRollout(t, v)
        PROVE  Effective'
    BY <2>1, EffectiveFrame DEF SetRollout
  <2>2. CASE PullForRollout(t) \/ EnterConflict(t) \/ Respond(t)
    BY <2>2, EffectiveFrame DEF PullForRollout, EnterConflict, Respond, Return
  <2>3. CASE NeedsThaw(t)
    BY <2>3, EffectiveFrame DEF NeedsThaw
  <2>4. CASE Drained(t)
    BY <2>4, EffectiveFrame DEF Drained
  <2>5. CASE RecordRollout(t)
    <3>1. \A d \in Tasks : d \notin building
      <4>. SUFFICES ASSUME NEW d \in Tasks, d \in building PROVE FALSE
        OBVIOUS
      <4>1. d = t
        BY DEF Rolling
      <4>. QED
        BY <2>5, <4>1 DEF RecordRollout
    <3>2. ~Late(t)'
      BY <2>5 DEF RecordRollout
    <3>3. \A u \in Tasks : Works(u)' => /\ Works(u) /\ (Up(u)' => Up(u))
                                        /\ slot'[u] = slot[u] /\ tag'[u] = tag[u]
      BY <2>5 DEF RecordRollout, Up
    <3>. QED
      BY <2>5, <3>1, <3>2, <3>3 DEF RecordRollout, Effective, is_container_running, hostVars
  <2>6. CASE EnterColdStart(t)
    <3>1. \A u \in Tasks : ~Works(u) /\ ~Works(u)'
      BY <2>6 DEF EnterColdStart, Rolling
    <3>2. Fresh'
      BY <2>6, <3>1 DEF EnterColdStart, Fresh
    <3>. QED
      BY <2>6, <3>1, <3>2 DEF EnterColdStart, Effective
  <2>7. CASE EnterBlueGreen(t)
    <3>1. \A u \in Tasks : ~Works(u)'
      BY <2>7 DEF EnterBlueGreen, Rolling
    <3>2. ~Late(t)'
      BY <2>7 DEF EnterBlueGreen
    <3>. QED
      BY <2>7, <3>1, <3>2 DEF EnterBlueGreen, Effective
  <2>8. CASE BuildToSlot(t)
    <3>1. pc'[t] = "allocate" /\ \A u \in Tasks \ {t} : ~Works(u)'
      BY <2>8 DEF BuildToSlot, Rolling
    <3>2. ~Late(t)'
      BY <2>8, <3>1 DEF BuildToSlot
    <3>. QED
      BY <2>8, <3>1, <3>2 DEF BuildToSlot, Effective, Tagged, Up
  <2>9. CASE SwitchOver(t) \/ SwitchDrifted(t) \/ RollBack(t)
    <3>1. pc[t] = "switch" /\ t \in building /\ building' = building \ {t}
      BY <2>9 DEF SwitchOver, SwitchDrifted, RollBack, Built
    <3>2. /\ state = "RollingOver"
          /\ \A u \in Tasks \ {t} : ~Works(u)
      BY <3>1, ActsAlone DEF Rolling
    <3>3. \A u \in Tasks : ~Works(u)'
      BY <2>9, <3>1, <3>2 DEF SwitchOver, SwitchDrifted, RollBack
    <3>4. CASE SwitchOver(t)
      <4>1. is_container_running(slot[t]) => image[slot[t]] = newest
        BY <3>1, <3>4 DEF SwitchOver, Effective, Tagged, Up
      <4>2. Fresh'
        BY <3>3, <3>4, <4>1 DEF SwitchOver, Fresh, is_container_running, newest, hostVars
      <4>. QED
        BY <3>1, <3>3, <4>2 DEF Effective
    <3>5. CASE RollBack(t)
      <4>1. ~Late(t)'
        BY <3>3, <3>5 DEF RollBack
      <4>. QED
        BY <3>1, <3>3, <4>1 DEF Effective
    <3>. QED
      BY <2>9, <3>2, <3>4, <3>5 DEF SwitchDrifted
  <2>10. CASE Teardown(t)
    <3>1. work[t] = <<other(current_slot)>> /\ \A u \in Tasks : ~Works(u)
      BY <2>10, ActsAlone DEF Teardown, TeardownStop, TeardownRelease, Drains
    <3>2. Head(work[t]) = other(current_slot) /\ other(current_slot) # current_slot
      BY <3>1 DEF other, Slots
    <3>3. \A s \in Slots : s # other(current_slot) => container'[s] = container[s] /\ image'[s] = image[s]
      BY <2>10, <3>2 DEF Teardown, TeardownStop, TeardownRelease, stop_app, Down, release_endpoint, hostVars
    <3>4. UNCHANGED <<handleVars, building, addr>> /\ \A u \in Tasks : ~Works(u)'
      BY <2>10, <3>1 DEF Teardown, TeardownStop, TeardownRelease
    <3>5. Late(t)' => Late(t)
      BY <2>10, <3>4 DEF Teardown, TeardownStop, TeardownRelease
    <3>6. Fresh => Fresh'
      BY <3>2, <3>3, <3>4 DEF Fresh, is_container_running, newest
    <3>. QED
      BY <3>4, <3>5, <3>6 DEF Effective
  <2>11. CASE ThawId(t) \/ ThawApp(t) \/ ThawCommit(t)
    BY <2>11 DEF ThawId, ThawApp, ThawCommit
  <2>. QED
    BY <1>5, <2>1, <2>2, <2>3, <2>4, <2>5, <2>6, <2>7, <2>8, <2>9, <2>10, <2>11
       DEF RolloutAction, RolloutStep
<1>6. CASE ContainerDies
  <2>1. /\ UNCHANGED <<handleVars, taskVars>>
        /\ \A s \in Slots : container'[s] = "running" => container[s] = "running" /\ image'[s] = image[s]
    BY <1>6 DEF ContainerDies, Crash, Down
  <2>2. Fresh => Fresh'
    BY <2>1 DEF Fresh, is_container_running, newest, Tagged, Up, taskVars
  <2>. QED
    BY <2>1, <2>2 DEF Effective, is_container_running, newest, Tagged, Up, taskVars
<1>. QED
  BY <1>0, <1>1, <1>2, <1>3, <1>4, <1>5, <1>6, OneStep

-----------------------------------------------------------------------------
(* What is left behind *)

\* No operation is dropped half-way, and stop_app does what it is asked.
NothingDropped == Cancellable = {} /\ "delete" \notin Faults

Clean(s) == container[s] = "down" /\ endpoint[s] = NoIP

\* Nothing is left in slot s but what a launch that failed may leave.
Quiet(s) == "launch" \notin Faults => container[s] = "down"
Spent(s) == endpoint[s] = NoIP /\ Quiet(s)

\* A slot is spent before a start or a build takes it, and again once that has
\* failed; the slot that does not serve is clean unless a rollout is at it.
Tidy ==
  /\ NoAddressLeak
  /\ state = "Stopped" => Spent(current_slot)
  /\ (\A d \in Deployers : d \notin building /\ ~Drains(d)) => Clean(other(current_slot))
  /\ \A t \in Tasks : Works(t) =>
       /\ pc[t] = "current_id" => Spent(current_slot)
       /\ pc[t] = "allocate" => Spent(slot[t])
       /\ pc[t] \in {"pull", "start_app", "unwind_release"} => Quiet(slot[t])
       /\ pc[t] \in {"commit", "switch"} /\ addr[t] = NoIP => Spent(slot[t])
  /\ \A t \in Tasks : pc[t] = "teardown_release" => container[other(current_slot)] = "down"

LEMMA TidyInit == RolloverInit => Tidy
<1>. SUFFICES ASSUME RolloverInit PROVE Tidy
  OBVIOUS
<1>1. \A s \in Slots : container[s] = "down" /\ endpoint[s] = NoIP
  BY DEF RolloverInit, LifecycleInit, HostInit
<1>2. current_slot \in Slots /\ other(current_slot) \in Slots
  BY DEF RolloverInit, LifecycleInit, HandleInit, Slots, other
<1>3. NoAddressLeak
  BY <1>1 DEF RolloverInit, LifecycleInit, HostInit, NoAddressLeak
<1>. QED
  BY <1>1, <1>2, <1>3 DEF RolloverInit, LifecycleInit, Tidy, Clean, Spent, Quiet, Works, Starting, StartPcs

\* An address that is allocated for a slot without one, or given back, is
\* accounted for.
LEMMA LeakStep ==
  ASSUME HostTypeOK, AddressesDistinct, NoAddressLeak, NEW s \in Slots,
         \/ UNCHANGED <<endpoint, free>>
         \/ endpoint[s] = NoIP /\ \E ip \in IPs : allocate_endpoint(s, ip)
         \/ release_endpoint(s)
  PROVE  NoAddressLeak'
<1>. USE DEF HostTypeOK, NoAddressLeak
<1>1. CASE UNCHANGED <<endpoint, free>>
  BY <1>1
<1>2. ASSUME endpoint[s] = NoIP, NEW ip \in IPs, allocate_endpoint(s, ip)
      PROVE  NoAddressLeak'
  <2>1. ip \in free /\ free' = free \ {ip} /\ ip # NoIP
    BY <1>2, IPsAssumption DEF allocate_endpoint, NoIP
  <2>2. endpoint'[s] = ip /\ \A r \in Slots \ {s} : endpoint'[r] = endpoint[r]
    BY <1>2 DEF allocate_endpoint
  <2>3. \A x : x \in {endpoint'[r] : r \in Slots} \ {NoIP} <=>
                 x = ip \/ x \in {endpoint[r] : r \in Slots} \ {NoIP}
    BY <1>2, <2>1, <2>2
  <2>. QED
    BY <1>2, <2>1, <2>3
<1>3. CASE release_endpoint(s) /\ endpoint[s] # NoIP
  <2>1. free' = free \cup {endpoint[s]} /\ endpoint[s] \in IPs
    BY <1>3 DEF release_endpoint
  <2>2. endpoint'[s] = NoIP /\ \A r \in Slots \ {s} : endpoint'[r] = endpoint[r]
    BY <1>3 DEF release_endpoint
  <2>3. \A r \in Slots \ {s} : endpoint[r] # endpoint[s]
    BY <1>3 DEF AddressesDistinct, Slots, other
  <2>4. \A x : x \in {endpoint'[r] : r \in Slots} \ {NoIP} <=>
                 x # endpoint[s] /\ x \in {endpoint[r] : r \in Slots} \ {NoIP}
    BY <1>3, <2>2, <2>3
  <2>. QED
    BY <2>1, <2>4
<1>4. CASE release_endpoint(s) /\ endpoint[s] = NoIP
  BY <1>4 DEF release_endpoint, hostVars
<1>. QED
  BY <1>1, <1>2, <1>3, <1>4

\* A step that leaves the host and every start alone, and ends no teardown.
LEMMA TidyFrame ==
  ASSUME Tidy, UNCHANGED <<hostVars, state, current_slot, building>>,
         \A t \in Tasks : Works(t)' => /\ Works(t) /\ pc'[t] = pc[t]
                                       /\ slot'[t] = slot[t] /\ addr'[t] = addr[t],
         \A d \in Deployers : Drains(d) => Drains(d)',
         \A t \in Tasks : pc'[t] = "teardown_release" => pc[t] = "teardown_release"
  PROVE  Tidy'
BY DEF Tidy, Clean, Spent, Quiet, NoAddressLeak, hostVars

\* A step of t that leaves the host and the slots alone, and ends no teardown;
\* what is known of a start or a build after it is what is left to show.
LEMMA TidyAlone ==
  ASSUME Tidy, NEW t, UNCHANGED <<container, endpoint, free, current_slot, building>>,
         state' = "Stopped" => Spent(current_slot),
         \A d \in Deployers : Drains(d) => Drains(d)',
         \A u \in Tasks : Works(u)' => u = t,
         Works(t)' => pc'[t] = "current_id" /\ Spent(current_slot),
         \A u \in Tasks : pc'[u] = "teardown_release" => pc[u] = "teardown_release"
  PROVE  Tidy'
BY DEF Tidy, Clean, Spent, Quiet, NoAddressLeak

LEMMA TidyStep ==
  ASSUME OneRollout, NothingDropped, Base, AddressesDistinct, Places, Holds, Tidy,
         [RolloverNext]_rolloverVars
  PROVE  Tidy'
<1>. USE DEF Base, AloneInv, StartsAlone, RollsAlone, Places, Works, Starting, StartPcs, BuildPcs, Serving,
             Drains, TeardownPcs, TypeInv, TypeOK, HandleTypeOK, TaskTypeOK, Pending, Goto,
             Become, handleVars, locals
<1>0. RolloutsOnly
  BY DEF OneRollout
<1>1. CASE UNCHANGED <<hostVars, state, current_slot, taskVars>>
  BY <1>1, TidyFrame DEF taskVars
<1>2. ASSUME NEW t \in Requests, Request(t) \/ Answer(t) \/ Upgrade(t)
      PROVE  Tidy'
  <2>. t \in Tasks
    BY LifecycleAssumption
  <2>1. CASE Request(t)
    BY <2>1, TidyFrame DEF Request
  <2>2. CASE Answer(t)
    <3>1. building' = building /\ pc[t] \notin StartPcs /\ pc[t] \notin TeardownPcs
      BY <2>2 DEF Answer, Return
    <3>2. /\ pc'[t] = "idle" /\ \A u \in Tasks \ {t} : pc'[u] = pc[u] /\ slot'[u] = slot[u] /\ addr'[u] = addr[u]
          /\ UNCHANGED <<hostVars, state, current_slot>>
      BY <2>2 DEF Answer, Return
    <3>3. ~Works(t)' /\ ~Drains(t)
      BY <2>2, <3>1, <3>2 DEF Answer
    <3>4. \A u \in Tasks : Works(u)' => /\ Works(u) /\ pc'[u] = pc[u]
                                       /\ slot'[u] = slot[u] /\ addr'[u] = addr[u]
      BY <3>1, <3>2, <3>3
    <3>5. \A d \in Tasks : Drains(d) => Drains(d)'
      BY <3>2, <3>3
    <3>6. \A u \in Tasks : pc'[u] = "teardown_release" => pc[u] = "teardown_release"
      BY <3>2
    <3>. QED
      BY <3>1, <3>2, <3>4, <3>5, <3>6, TidyFrame, LifecycleAssumption
  <2>3. CASE Upgrade(t)
    BY <2>3, TidyFrame DEF Upgrade
  <2>. QED
    BY <1>2, <2>1, <2>2, <2>3
<1>4. ASSUME NEW t \in Callers, EnsureRunning(t)
      PROVE  Tidy'
  <2>. t \in Tasks
    BY LifecycleAssumption DEF Callers
  <2>1. CASE ClaimReady(t)
    <3>1. /\ pc[t] = "claim" /\ pc'[t] = "done" /\ t \notin building
          /\ \A u \in Tasks \ {t} : pc'[u] = pc[u] /\ addr'[u] = addr[u]
          /\ UNCHANGED <<hostVars, state, current_slot, building, slot>>
      BY <2>1 DEF ClaimReady
    <3>2. ~Works(t)' /\ ~Drains(t)
      BY <3>1
    <3>3. \A u \in Tasks : Works(u)' => /\ Works(u) /\ pc'[u] = pc[u]
                                       /\ slot'[u] = slot[u] /\ addr'[u] = addr[u]
      BY <3>1, <3>2
    <3>4. \A d \in Tasks : Drains(d) => Drains(d)'
      BY <3>1, <3>2
    <3>5. \A u \in Tasks : pc'[u] = "teardown_release" => pc[u] = "teardown_release"
      BY <3>1
    <3>. QED
      BY <3>1, <3>3, <3>4, <3>5, TidyFrame, LifecycleAssumption
  <2>2. CASE ClaimCoalesce(t)
    BY <2>2, TidyFrame DEF ClaimCoalesce
  <2>3. CASE ClaimWaitForStopping(t)
    BY <2>3, TidyFrame DEF ClaimWaitForStopping
  <2>4. CASE Backoff(t)
    BY <2>4, TidyFrame DEF Backoff
  <2>5. CASE Park(t)
    BY <2>5, TidyFrame DEF Park
  <2>6. CASE NotifyWaiters(t)
    <3>1. \A u \in Tasks : pc'[u] # pc[u] => /\ pc[u] \in {"notify", "parked"}
                                             /\ pc'[u] \in {"done", "claim"}
      BY <2>6 DEF NotifyWaiters
    <3>. QED
      BY <2>6, <3>1, TidyFrame, LifecycleAssumption DEF NotifyWaiters
  <2>7. CASE Claim(t)
    <3>1. Spent(current_slot) /\ \A u \in Tasks \ {t} : ~Works(u)'
      BY <2>7 DEF Claim, Rolling, Tidy
    <3>2. /\ pc'[t] = "current_id" /\ \A u \in Tasks \ {t} : pc'[u] = pc[u]
          /\ UNCHANGED <<hostVars, current_slot, building>> /\ pc[t] = "claim" /\ state' # "Stopped"
      BY <2>7 DEF Claim
    <3>3. \A u \in Tasks : Drains(u)' <=> Drains(u)
      BY <3>2
    <3>4. \A u \in Tasks : Works(u)' => u = t
      BY <3>1
    <3>5. UNCHANGED <<container, endpoint, free>> /\ Deployers \subseteq Tasks
      BY <3>2, LifecycleAssumption DEF hostVars
    <3>6. \A u \in Tasks : pc'[u] = "teardown_release" => pc[u] = "teardown_release"
      BY <3>2
    <3>. QED
      BY <3>1, <3>2, <3>3, <3>4, <3>5, <3>6, TidyAlone
  <2>8. CASE Commit(t)
    <3>1. Starting(t) /\ state = "Starting" /\ slot[t] = current_slot
      BY <2>8 DEF Commit
    <3>2. \A u \in Tasks : ~Works(u)'
      BY <2>8, <3>1 DEF Commit, Rolling
    <3>3. addr[t] = NoIP => Spent(current_slot)
      BY <2>8, <3>1 DEF Commit, Tidy
    <3>4. /\ \A u \in Tasks \ {t} : pc'[u] = pc[u]
          /\ UNCHANGED <<hostVars, current_slot, building>> /\ pc[t] = "commit" /\ pc'[t] = "notify"
          /\ state' = "Stopped" => addr[t] = NoIP
      BY <2>8 DEF Commit, finish_start
    <3>5. \A u \in Tasks : Drains(u)' <=> Drains(u)
      BY <3>4
    <3>6. UNCHANGED <<container, endpoint, free>> /\ Deployers \subseteq Tasks
      BY <3>4, LifecycleAssumption DEF hostVars
    <3>7. \A u \in Tasks : pc'[u] = "teardown_release" => pc[u] = "teardown_release"
      BY <3>4
    <3>. QED
      BY <3>2, <3>3, <3>4, <3>5, <3>6, <3>7, TidyAlone
  <2>9. CASE StartPhase(t)
    <3>1. Works(t) /\ \A u \in Tasks \ {t} : ~Works(u) /\ ~Drains(u)
      BY <2>9, ActsAlone DEF StartPhase, CurrentId, NoRollout, Allocate, Pull, StartApp, Readiness,
                  UnwindStop, UnwindRelease, Unfreeze
    <3>2. /\ \A u \in Tasks \ {t} : pc'[u] = pc[u]
          /\ pc[t] \in StartPcs /\ pc'[t] \in StartPcs \cup {"switch"}
          /\ UNCHANGED <<handleVars, building>>
      BY <2>9 DEF StartPhase, CurrentId, NoRollout, Allocate, Pull, StartApp, Readiness,
                  UnwindStop, UnwindRelease, Unfreeze, Finished
    <3>3. \A u \in Tasks \ {t} : ~Works(u)'
      BY <3>1, <3>2
    <3>4. slot[t] \in Slots /\ current_slot \in Slots /\ other(current_slot) \in Slots
      BY DEF Slots, other
    <3>5. \/ t \in building /\ state = "RollingOver" /\ slot[t] = other(current_slot)
          \/ t \notin building /\ state = "Starting"
      BY <3>1 DEF Rolling
    \* What is left to say of a step: it keeps to its own slot, accounts for
    \* the addresses and leaves that slot as the next phase expects it.
    <3>6. ASSUME \/ CurrentId(t) /\ UNCHANGED hostVars
                 \/ /\ slot[t] = current_slot \/ t \in building
                    /\ \A s \in Slots \ {slot[t]} : container'[s] = container[s] /\ endpoint'[s] = endpoint[s],
                 NoAddressLeak',
                 pc'[t] # "current_id",
                 pc'[t] = "allocate" => Spent(slot[t])',
                 pc'[t] \in {"pull", "start_app", "unwind_release"} => Quiet(slot[t])',
                 pc'[t] \in {"commit", "switch"} /\ addr'[t] = NoIP => Spent(slot[t])'
          PROVE  Tidy'
      <4>1. (\A d \in Deployers : d \notin building' /\ ~Drains(d)') => Clean(other(current_slot))'
        <5>. SUFFICES ASSUME \A d \in Deployers : d \notin building' /\ ~Drains(d)'
                      PROVE  Clean(other(current_slot))'
          OBVIOUS
        <5>1. t \notin building
          BY <3>2 DEF Rolling
        <5>2. \A d \in Deployers : d \notin building /\ ~Drains(d)
          BY <3>2, LifecycleAssumption
        <5>3. Clean(other(current_slot))
          BY <5>2 DEF Tidy
        <5>4. current_slot # other(current_slot)
          BY DEF other
        <5>. QED
          BY <3>2, <3>4, <3>6, <5>1, <5>3, <5>4 DEF Clean, Spent, Quiet, hostVars
      <4>2. state' # "Stopped"
        BY <3>2, <3>5
      <4>3. \A u \in Tasks : pc'[u] # "teardown_release"
        BY <3>1, <3>2
      <4>4. \A u \in Tasks : Works(u)' => u = t
        BY <3>3
      <4>. QED
        BY <3>6, <4>1, <4>2, <4>3, <4>4 DEF Tidy, Clean, Spent, Quiet
    <3>7. CASE CurrentId(t)
      <4>1. Spent(current_slot) /\ pc[t] = "current_id"
        BY <3>1, <3>7 DEF CurrentId, Tidy
      <4>. QED
        BY <3>6, <3>7, <4>1 DEF CurrentId, Clean, Spent, Quiet, Tidy, NoAddressLeak, hostVars
    <3>8. CASE NoRollout(t)
      <4>1. Spent(slot[t])
        BY <3>1, <3>8 DEF NoRollout, Tidy
      <4>. QED
        BY <3>1, <3>6, <3>8, <4>1 DEF NoRollout, Finished, Clean, Spent, Quiet, Tidy, NoAddressLeak, hostVars
    <3>9. CASE ~CurrentId(t) /\ ~NoRollout(t)
      <4>0. slot[t] = current_slot \/ t \in building
        BY <2>9, <3>1, <3>9 DEF StartPhase, Allocate, Pull, StartApp, Readiness, UnwindStop, UnwindRelease, Unfreeze
      <4>1. CASE Allocate(t)
        <5>1. Spent(slot[t])
          BY <3>1, <4>1 DEF Allocate, Tidy
        <5>2. CASE \E ip \in IPs : allocate_endpoint(slot[t], ip) /\ Goto(t, "pull")
          <6>1. NoAddressLeak'
            BY <3>4, <5>1, <5>2, LeakStep DEF Clean, Spent, Quiet, Tidy
          <6>2. /\ container' = container
                /\ \A s \in Slots \ {slot[t]} : endpoint'[s] = endpoint[s]
            BY <5>2 DEF allocate_endpoint
          <6>. QED
            BY <3>6, <4>0, <4>1, <5>1, <5>2, <6>1, <6>2 DEF Allocate, Clean, Spent, Quiet
        <5>3. CASE AllocateFails(slot[t]) /\ Goto(t, Finished(t)) /\ UNCHANGED addr
          <6>1. UNCHANGED <<container, endpoint, free>>
            BY <5>3 DEF AllocateFails, hostVars
          <6>2. NoAddressLeak'
            BY <6>1 DEF Tidy, NoAddressLeak
          <6>. QED
            BY <3>6, <4>0, <4>1, <5>1, <5>3, <6>1, <6>2 DEF Allocate, Finished, Clean, Spent, Quiet
        <5>. QED
          BY <4>1, <5>2, <5>3 DEF Allocate
      <4>2. CASE Pull(t)
        <5>1. Quiet(slot[t])
          BY <3>1, <4>2 DEF Pull, Tidy
        <5>. QED
          BY <3>6, <4>0, <4>2, <5>1 DEF Pull, Quiet, Tidy, NoAddressLeak, hostVars
      <4>3. CASE StartApp(t)
        <5>1. Quiet(slot[t])
          BY <3>1, <4>3 DEF StartApp, Tidy
        <5>2. UNCHANGED <<endpoint, free, slot>>
          BY <4>3 DEF StartApp, start_app, StartAppFails, Launched, Down, hostVars
        <5>3. NoAddressLeak'
          BY <5>2 DEF Tidy, NoAddressLeak
        <5>4. \A s \in Slots \ {slot[t]} : container'[s] = container[s]
          <6>1. CASE start_app(slot[t], tag[t])
            BY <6>1 DEF start_app, Launched, HostTypeOK
          <6>2. CASE StartAppFails(slot[t], tag[t])
            BY <6>2 DEF StartAppFails, Launched, Down, hostVars, HostTypeOK
          <6>. QED
            BY <4>3, <6>1, <6>2 DEF StartApp
        <5>5. \/ pc'[t] = "readiness"
              \/ pc'[t] = "unwind_release" /\ Quiet(slot[t])'
          <6>1. ASSUME "launch" \notin Faults, StartAppFails(slot[t], tag[t])
                PROVE  container'[slot[t]] = "down"
            BY <3>4, <5>1, <6>1 DEF StartAppFails, Quiet, Down, hostVars, HostTypeOK
          <6>. QED
            BY <4>3, <5>2, <6>1 DEF StartApp, Quiet
        <5>. QED
          BY <3>6, <4>0, <5>2, <5>3, <5>4, <5>5
      <4>4. CASE Readiness(t)
        <5>1. addr[t] # NoIP
          BY <4>4 DEF Readiness, Holds, AllocatedPcs
        <5>. QED
          BY <3>6, <4>0, <4>4, <5>1 DEF Readiness, Finished, Tidy, NoAddressLeak, hostVars
      <4>5. CASE UnwindStop(t)
        <5>1. Down(slot[t]) /\ pc'[t] = "unwind_release" /\ slot' = slot
          BY <4>5 DEF UnwindStop, stop_app, NothingDropped
        <5>2. NoAddressLeak'
          BY <5>1 DEF Down, Tidy, NoAddressLeak
        <5>3. /\ container'[slot[t]] = "down" /\ endpoint' = endpoint
              /\ \A s \in Slots \ {slot[t]} : container'[s] = container[s]
          BY <3>4, <5>1 DEF Down, HostTypeOK
        <5>. QED
          BY <3>6, <4>0, <5>1, <5>2, <5>3 DEF Quiet
      <4>6. CASE UnwindRelease(t)
        <5>1. Quiet(slot[t])
          BY <3>1, <4>6 DEF UnwindRelease, Tidy
        <5>2. release_endpoint(slot[t]) /\ slot' = slot /\ pc'[t] \in {"commit", "switch"}
          BY <4>6 DEF UnwindRelease, Finished
        <5>3. NoAddressLeak'
          BY <3>4, <5>2, LeakStep DEF Tidy
        <5>4. /\ container' = container /\ endpoint'[slot[t]] = NoIP
              /\ \A s \in Slots \ {slot[t]} : endpoint'[s] = endpoint[s]
          BY <3>4, <5>2 DEF release_endpoint, hostVars, HostTypeOK
        <5>. QED
          BY <3>6, <4>0, <5>1, <5>2, <5>3, <5>4 DEF Clean, Spent, Quiet
      <4>7. CASE Unfreeze(t)
        BY <4>7 DEF Unfreeze
      <4>. QED
        BY <2>9, <3>9, <4>1, <4>2, <4>3, <4>4, <4>5, <4>6, <4>7 DEF StartPhase
    <3>. QED
      BY <3>7, <3>8, <3>9
  <2>. QED
    BY <1>4, <2>1, <2>2, <2>3, <2>4, <2>5, <2>6, <2>7, <2>8, <2>9 DEF EnsureRunning
<1>5. ASSUME NEW t \in Deployers, RolloutAction(t)
      PROVE  Tidy'
  <2>. t \in Tasks /\ \A d \in Deployers : d = t
    BY LifecycleAssumption DEF OneRollout
  <2>1. ASSUME NEW v \in Tags, SetRollout(t, v)
        PROVE  Tidy'
    BY <2>1, TidyFrame DEF SetRollout
  <2>2. CASE PullForRollout(t)
    <3>1. pc[t] = "roll_pull" /\ t \notin building /\ building' = building
      BY <2>2 DEF PullForRollout, Return
    <3>2. /\ pc'[t] \in {"roll_record", "idle"}
          /\ \A u \in Tasks \ {t} : pc'[u] = pc[u] /\ slot'[u] = slot[u] /\ addr'[u] = addr[u]
          /\ UNCHANGED <<hostVars, state, current_slot>>
      BY <2>2 DEF PullForRollout, Return
    <3>. QED
      BY <3>1, <3>2, TidyFrame
  <2>3. CASE EnterConflict(t) \/ Respond(t)
    <3>1. pc[t] \in {"enter", "done"} /\ t \notin building /\ building' = building
      BY <2>3 DEF EnterConflict, Respond, Return
    <3>2. /\ pc'[t] = "idle"
          /\ \A u \in Tasks \ {t} : pc'[u] = pc[u] /\ slot'[u] = slot[u] /\ addr'[u] = addr[u]
          /\ UNCHANGED <<hostVars, state, current_slot>>
      BY <2>3 DEF EnterConflict, Respond, Return
    <3>. QED
      BY <3>1, <3>2, TidyFrame
  <2>4. CASE RecordRollout(t) \/ NeedsThaw(t) \/ EnterColdStart(t) \/ Drained(t)
    BY <2>4, TidyFrame DEF RecordRollout, NeedsThaw, EnterColdStart, Drained
  <2>5. CASE EnterBlueGreen(t)
    <3>1. \A u \in Tasks : ~Works(u)'
      BY <2>5 DEF EnterBlueGreen, Rolling
    <3>. QED
      BY <2>5, <3>1 DEF EnterBlueGreen, Tidy, Clean, Spent, Quiet, NoAddressLeak, hostVars
  <2>6. CASE BuildToSlot(t)
    <3>1. \A u \in Tasks \ {t} : ~Works(u)'
      BY <2>6 DEF BuildToSlot, Rolling
    <3>2. Clean(other(current_slot))
      BY <2>6 DEF BuildToSlot, Tidy
    <3>3. /\ pc'[t] = "allocate" /\ slot'[t] = other(current_slot) /\ t \in building'
          /\ UNCHANGED <<hostVars, handleVars>> /\ state = "RollingOver"
          /\ \A u \in Tasks \ {t} : pc'[u] = pc[u]
      BY <2>6 DEF BuildToSlot, Rolling
    <3>. QED
      BY <3>1, <3>2, <3>3 DEF Tidy, Clean, Spent, Quiet, NoAddressLeak, hostVars
  <2>7. CASE SwitchOver(t) \/ SwitchDrifted(t) \/ RollBack(t)
    <3>1. pc[t] = "switch" /\ t \in building /\ building' = building \ {t}
      BY <2>7 DEF SwitchOver, SwitchDrifted, RollBack, Built
    <3>2. /\ state = "RollingOver" /\ state' # "Stopped"
          /\ \A u \in Tasks \ {t} : ~Works(u) /\ ~Drains(u)
      BY <2>7, <3>1, ActsAlone DEF Rolling, SwitchOver, SwitchDrifted, RollBack
    <3>3. \A u \in Tasks : ~Works(u)'
      BY <2>7, <3>1, <3>2 DEF SwitchOver, SwitchDrifted, RollBack
    <3>4. /\ pc'[t] \in {"drain", "teardown_stop"} /\ UNCHANGED hostVars
          /\ \A u \in Tasks \ {t} : pc'[u] = pc[u]
      BY <2>7 DEF SwitchOver, SwitchDrifted, RollBack
    <3>5. Drains(t)' /\ pc'[t] # "teardown_release"
      BY <3>4
    <3>6. \A u \in Tasks : pc'[u] # "teardown_release"
      BY <3>2, <3>4, <3>5
    <3>7. NoAddressLeak'
      BY <3>4 DEF Tidy, NoAddressLeak, hostVars
    <3>. QED
      BY <3>2, <3>3, <3>5, <3>6, <3>7 DEF Tidy
  <2>8. CASE TeardownStop(t)
    <3>1. Head(work[t]) = other(current_slot) /\ \A u \in Tasks : ~Works(u)
      BY <2>8, ActsAlone DEF TeardownStop
    <3>2. Down(other(current_slot)) /\ other(current_slot) \in Slots
      BY <2>8, <3>1 DEF TeardownStop, stop_app, NothingDropped, other, Slots
    <3>3. /\ container'[other(current_slot)] = "down" /\ UNCHANGED <<endpoint, free>>
      BY <3>2 DEF Down, HostTypeOK
    <3>4. /\ pc'[t] = "teardown_release" /\ UNCHANGED <<handleVars, building>>
          /\ state \in Serving /\ \A u \in Tasks : ~Works(u)'
      BY <2>8, <3>1 DEF TeardownStop
    <3>. QED
      BY <3>3, <3>4 DEF Tidy, NoAddressLeak
  <2>9. CASE TeardownRelease(t)
    <3>1. Head(work[t]) = other(current_slot) /\ \A u \in Tasks \ {t} : ~Works(u) /\ ~Drains(u)
      BY <2>9, ActsAlone DEF TeardownRelease
    <3>2. release_endpoint(other(current_slot)) /\ other(current_slot) \in Slots
      BY <2>9, <3>1 DEF TeardownRelease, other, Slots
    <3>3. endpoint'[other(current_slot)] = NoIP /\ container' = container
      BY <3>2 DEF release_endpoint, hostVars, HostTypeOK
    <3>4. Len(work[t]) = 1
      <4>1. work[t] = <<other(current_slot)>>
        BY <2>9 DEF TeardownRelease
      <4>. QED
        BY <4>1
    <3>5. /\ pc'[t] = "done" /\ UNCHANGED <<handleVars, building>> /\ pc[t] = "teardown_release"
          /\ state \in Serving /\ \A u \in Tasks \ {t} : pc'[u] = pc[u]
      BY <2>9, <3>4 DEF TeardownRelease
    <3>6. \A u \in Tasks : ~Works(u)' /\ pc'[u] # "teardown_release"
      BY <3>1, <3>5
    <3>7. container[other(current_slot)] = "down"
      BY <3>5 DEF Tidy
    <3>8. NoAddressLeak'
      BY <3>2, LeakStep DEF Tidy
    <3>. QED
      BY <3>3, <3>5, <3>6, <3>7, <3>8 DEF Tidy, Clean, Spent, Quiet
  <2>10. CASE ThawId(t) \/ ThawApp(t) \/ ThawCommit(t)
    BY <2>10 DEF ThawId, ThawApp, ThawCommit
  <2>. QED
    BY <1>5, <2>1, <2>2, <2>3, <2>4, <2>5, <2>6, <2>7, <2>8, <2>9, <2>10
       DEF RolloutAction, RolloutStep, Teardown
<1>6. CASE ContainerDies
  <2>1. /\ UNCHANGED <<handleVars, taskVars, endpoint, free>>
        /\ \A s \in Slots : container[s] = "down" => container'[s] = "down"
    BY <1>6 DEF ContainerDies, Crash, Down, HostTypeOK
  <2>2. \A s \in Slots : Clean(s) => Clean(s)'
    BY <2>1 DEF Clean, Spent, Quiet
  <2>3. current_slot \in Slots /\ other(current_slot) \in Slots
    BY DEF other, Slots
  <2>. QED
    BY <2>1, <2>2, <2>3 DEF Tidy, NoAddressLeak, Clean, Spent, Quiet, taskVars
<1>. QED
  BY <1>0, <1>1, <1>2, <1>4, <1>5, <1>6, OneStep DEF NothingDropped

-----------------------------------------------------------------------------
(* The theorems *)

OneInv == RolloverInv /\ Base /\ Places /\ Holds

LEMMA OneInit == RolloverInit => OneInv
BY RolloverInvInit, AloneInit, PlacesInit, HoldsInit DEF OneInv, Base, RolloverInv, RollingInv

LEMMA OneInvStep ==
  ASSUME OneRollout
  PROVE  OneInv /\ [RolloverNext]_rolloverVars => OneInv'
<1>. SUFFICES ASSUME OneInv, [RolloverNext]_rolloverVars PROVE OneInv'
  OBVIOUS
<1>1. RolloverInv' /\ AloneInv'
  BY RolloverInvStep, AloneStep DEF OneInv, Base, OneRollout
<1>2. Places' /\ Holds'
  BY PlacesStep, HoldsStep DEF OneInv
<1>. QED
  BY <1>1, <1>2 DEF OneInv, Base, RolloverInv, RollingInv

\* The address that the resolver hands out is that of the container in the
\* current slot, and only a death of its own keeps that one from running: before,
\* during and after a rollout, whichever of its phases fail and wherever it is
\* dropped, no request is led to a frozen container or to another address.
Routed == state \in Serving => RunsAt(current_slot, container_ip)

THEOREM ServingRouted ==
  ASSUME OneRollout
  PROVE  RolloverSpec => []Routed
<1>1. OneInv /\ Serves /\ [RolloverNext]_rolloverVars => Serves'
  BY ServesStep DEF OneInv
<1>2. Serves => Routed
  BY DEF Serves, Routed
<1>. QED
  BY OneInit, OneInvStep, ServesInit, <1>1, <1>2, PTL DEF RolloverSpec

\* As long as no container dies of itself, that address is reached.
THEOREM ServingReached ==
  ASSUME OneRollout, "crash" \notin Faults
  PROVE  RolloverSpec => []ServingReachable
<1>1. OneInv /\ Routed => ServingReachable
  BY DEF OneInv, Base, TypeInv, TypeOK, HandleTypeOK, Routed, RunsAt, Serving, ServingReachable, Reachable
<1>2. RolloverSpec => []OneInv
  BY OneInit, OneInvStep, PTL DEF RolloverSpec
<1>. QED
  BY <1>1, <1>2, ServingRouted, PTL

\* A rollout that reports success serves the newest image, whatever requests
\* cold-started while it pulled.
THEOREM RolloutEffective ==
  ASSUME OneRollout
  PROVE  RolloverSpec => []RolloutTakesEffect
<1>1. OneInv /\ Effective /\ [RolloverNext]_rolloverVars => Effective'
  BY EffectiveStep DEF OneInv
<1>2. Effective => RolloutTakesEffect
  BY DEF Effective, Late, Fresh, newest, Serving, RolloutTakesEffect
<1>. QED
  BY OneInit, OneInvStep, EffectiveInit, <1>1, <1>2, PTL DEF RolloverSpec

\* A rollout or a start that is not dropped gives back what it took on every
\* path: no address is lost, a stopped app holds none and keeps no container
\* but the one of a launch that failed, and what is left of a rollout is one
\* slot.
THEOREM NothingLeft ==
  ASSUME OneRollout, NothingDropped
  PROVE  RolloverSpec => []NothingLeftBehind
<1>1. OneInv /\ Tidy /\ [RolloverNext]_rolloverVars => Tidy'
  BY TidyStep DEF OneInv, RolloverInv, AddressInv
<1>2. OneInv /\ Tidy => NothingLeftBehind
  <2>. SUFFICES ASSUME OneInv, Tidy PROVE NothingLeftBehind
    OBVIOUS
  <2>. USE DEF OneInv, Base, TypeInv, TypeOK, HandleTypeOK
  <2>1. state = "Stopped" => \A d \in Deployers : d \notin building /\ ~Drains(d)
    BY LifecycleAssumption DEF AloneInv, RollsAlone, Rolling, Places, Serving
  <2>2. StoppedHoldsNothing
    <3>. SUFFICES ASSUME state = "Stopped" PROVE StoppedHoldsNothing
      BY DEF StoppedHoldsNothing
    <3>1. Spent(current_slot) /\ Clean(other(current_slot))
      BY <2>1 DEF Tidy
    <3>2. \A s \in Slots : endpoint[s] = NoIP
      BY <3>1 DEF Spent, Clean, Slots, other
    <3>3. "detach" \notin Faults => \A s \in Slots : attached[s] = NoIP
      BY <3>2 DEF RolloverInv, AddressInv, AddressesDistinct
    <3>. QED
      BY <3>1, <3>2, <3>3 DEF StoppedHoldsNothing, Spent, Quiet, Clean
  <2>3. OldSlotReclaimed
    <3>. SUFFICES ASSUME \A t \in Tasks : pc[t] = "idle"
                  PROVE  Clean(other(current_slot))
      BY DEF OldSlotReclaimed, Clean
    <3>1. \A d \in Deployers : d \notin building /\ ~Drains(d)
      BY LifecycleAssumption DEF Pending, BuildPcs, StartPcs, Drains, TeardownPcs
    <3>. QED
      BY <3>1 DEF Tidy
  <2>. QED
    BY <2>2, <2>3 DEF Tidy, NothingLeftBehind
<1>. QED
  BY OneInit, OneInvStep, TidyInit, <1>1, <1>2, PTL DEF RolloverSpec

=============================================================================
