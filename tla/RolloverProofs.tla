---------------------------- MODULE RolloverProofs ----------------------------
(***************************************************************************)
(* Theorems about Rollover: any number of rollouts next to any number of   *)
(* requests, sweeps, evictions and removals.  The steps of Lifecycle keep  *)
(* its invariants by LifecycleProofs; what is left are the steps of        *)
(* set_rollout.                                                            *)
(***************************************************************************)
EXTENDS Rollover, LifecycleProofs

\* A step of a rollout, from set_rollout to its response.
RolloutAction(t) == RolloutStep(t) \/ \E v \in Tags : SetRollout(t, v)

\* from_ip is an address, and a task that is rolling is a rollout.
RollingInv == FromIpOK /\ building \subseteq Deployers /\ RolloverHasOwner

LEMMA RolloverSteps ==
  ASSUME [RolloverNext]_rolloverVars
  PROVE  \/ [LifecycleNext]_vars /\ UNCHANGED from_ip
         \/ \E t \in Deployers : RolloutAction(t)
BY DEF RolloverNext, rolloverVars, RolloutAction

-----------------------------------------------------------------------------
(* The invariants of Lifecycle, for the steps of a rollout *)

LEMMA RolloutHost ==
  ASSUME TypeInv, NEW t \in Deployers, RolloutAction(t)
  PROVE  HostStep
<1>. t \in Tasks
  BY LifecycleAssumption
<1>1. CASE ThawApp(t)
  <2>1. slot[t] \in Slots
    BY DEF TypeInv, TypeOK, TaskTypeOK
  <2>. QED
    BY <1>1, <2>1 DEF ThawApp, UnfreezeAppFails, HostStep
<1>2. CASE Teardown(t)
  BY <1>2, TeardownHost
<1>3. CASE ~ThawApp(t) /\ ~Teardown(t)
  BY <1>3 DEF RolloutAction, RolloutStep, SetRollout, PullForRollout, RecordRollout, NeedsThaw,
              ThawId, ThawCommit, EnterColdStart, EnterBlueGreen, EnterConflict, BuildToSlot,
              SwitchOver, SwitchDrifted, RollBack, Drained, Respond, HostStep
<1>. QED
  BY <1>1, <1>2, <1>3

\* The history of a rollout that is recorded is bounded and never empty.
LEMMA RecordType ==
  ASSUME HandleTypeOK, NEW v \in Tags, record_rollout(v)
  PROVE  /\ rollouts' \in Seq(Tags) /\ Len(rollouts') <= MAX_ROLLOUT_HISTORY
         /\ rollouts' # <<>>
<1>. USE DEF MAX_ROLLOUT_HISTORY
<1>. DEFINE kept == IF Len(rollouts) < MAX_ROLLOUT_HISTORY THEN rollouts ELSE Tail(rollouts)
<1>1. rollouts \in Seq(Tags) /\ Len(rollouts) <= 2
  BY DEF HandleTypeOK
<1>2. kept \in Seq(Tags) /\ Len(kept) <= 1
  BY <1>1
<1>. HIDE DEF kept
<1>3. /\ Append(kept, v) \in Seq(Tags)
      /\ Len(Append(kept, v)) = Len(kept) + 1
  BY <1>2
<1>4. rollouts' = Append(kept, v)
  BY DEF record_rollout, kept
<1>5. Len(rollouts') <= 2 /\ Len(rollouts') # 0
  BY <1>2, <1>3, <1>4
<1>6. Len(<<>>) = 0
  OBVIOUS
<1>7. rollouts' # <<>>
  BY <1>5, <1>6, Zenon
<1>. QED
  BY <1>3, <1>4, <1>5, <1>7

LEMMA RolloutHandleType ==
  ASSUME TypeInv, FromIpOK, NEW t \in Deployers, RolloutAction(t)
  PROVE  HandleTypeOK'
<1>. t \in Tasks
  BY LifecycleAssumption
<1>1. CASE RecordRollout(t)
  <2>1. tag[t] \in Tags
    BY <1>1 DEF RecordRollout, TypeInv, Pending
  <2>2. rollouts' \in Seq(Tags) /\ Len(rollouts') <= MAX_ROLLOUT_HISTORY
    BY <1>1, <2>1, RecordType DEF RecordRollout, TypeInv, TypeOK
  <2>. QED
    BY <1>1, <2>2 DEF RecordRollout, TypeInv, TypeOK, HandleTypeOK
<1>2. CASE ThawCommit(t) \/ EnterBlueGreen(t) \/ SwitchOver(t) \/ RollBack(t)
  <2>1. rollouts' = rollouts
    BY <1>2 DEF ThawCommit, EnterBlueGreen, SwitchOver, RollBack
  <2>2. /\ state' \in {state, "Running", "RollingOver"}
        /\ container_ip' \in {container_ip, addr[t], from_ip[t]}
        /\ notify' \in {notify, Nobody}
        /\ current_slot' \in {current_slot, slot[t]}
        /\ recent' = recent
    BY <1>2 DEF ThawCommit, EnterBlueGreen, SwitchOver, RollBack, Become
  <2>. QED
    BY <2>1, <2>2 DEF TypeInv, TypeOK, HandleTypeOK, TaskTypeOK, FromIpOK, AppStates
<1>3. CASE UNCHANGED handleVars
  BY <1>3 DEF handleVars, TypeInv, TypeOK, HandleTypeOK
<1>. QED
  BY <1>1, <1>2, <1>3
     DEF RolloutAction, RolloutStep, SetRollout, PullForRollout, NeedsThaw, ThawId, ThawApp,
         EnterColdStart, EnterConflict, BuildToSlot, SwitchDrifted, Drained, Respond,
         Teardown, TeardownStop, TeardownRelease

LEMMA RolloutTaskType ==
  ASSUME TypeInv, NEW t \in Deployers, RolloutAction(t)
  PROVE  TaskTypeOK' /\ Pending'
<1>. t \in Tasks
  BY LifecycleAssumption
<1>. USE DEF TypeInv, TypeOK, Pcs, StopPcs, RolloutPcs, StartPcs, BuildPcs
<1>1. ASSUME NEW v \in Tags, SetRollout(t, v)
      PROVE  TaskTypeOK' /\ Pending'
  BY <1>1 DEF SetRollout, Goto, handleVars, TaskTypeOK, Pending
<1>2. CASE PullForRollout(t) /\ pc'[t] = "roll_record"
  BY <1>2 DEF PullForRollout, Goto, Return, handleVars, locals, TaskTypeOK, Pending
<1>3. CASE RecordRollout(t)
  <2>1. rollouts' # <<>>
    BY <1>3, RecordType DEF RecordRollout, Pending
  <2>. QED
    BY <1>3, <2>1 DEF RecordRollout, Goto, locals, TaskTypeOK, Pending
<1>4. CASE Return(t) /\ UNCHANGED <<rollouts, held, registered>>
  <2>1. held' \in [Tasks -> Tasks \cup {Nobody}]
    BY <1>4 DEF TaskTypeOK
  <2>. QED
    BY <1>4, <2>1, ReturnType
<1>5. CASE NeedsThaw(t) \/ ThawCommit(t) \/ EnterColdStart(t) \/ EnterBlueGreen(t)
  BY <1>5, GotoType DEF NeedsThaw, ThawCommit, EnterColdStart, EnterBlueGreen, handleVars, Pending
<1>6. CASE ThawApp(t) /\ Goto(t, "thaw_commit") /\ UNCHANGED locals
  BY <1>6, GotoType DEF ThawApp, handleVars, Pending
<1>7. CASE ThawId(t)
  <2>1. TaskTypeOK'
    BY <1>7 DEF ThawId, Goto, HandleTypeOK, TaskTypeOK
  <2>2. Pending'
    BY <1>7 DEF ThawId, Goto, handleVars, TaskTypeOK, Pending
  <2>. QED
    BY <2>1, <2>2
<1>8. CASE BuildToSlot(t)
  <2>1. other(current_slot) \in Slots
    BY DEF HandleTypeOK, Slots, other
  <2>. QED
    BY <1>8, <2>1 DEF BuildToSlot, Goto, handleVars, TaskTypeOK, Pending
<1>9. CASE SwitchOver(t)
  BY <1>9 DEF SwitchOver, Built, Goto, TaskTypeOK, Pending
<1>10. CASE SwitchDrifted(t) \/ RollBack(t) \/ Drained(t)
  <2>1. slot[t] \in Slots /\ other(slot[t]) \in Slots
    BY DEF TaskTypeOK, Slots, other
  <2>2. /\ <<slot[t]>> \in Seq(Slots) /\ <<slot[t]>> # <<>>
        /\ <<other(slot[t])>> \in Seq(Slots) /\ <<other(slot[t])>> # <<>>
    BY <2>1
  <2>3. PICK q \in Seq(Slots) : q # <<>> /\ work' = [work EXCEPT ![t] = q]
    BY <1>10, <2>2 DEF SwitchDrifted, RollBack, Drained
  <2>4. /\ addr' \in [Tasks -> IPs \cup {NoIP}] /\ Goto(t, "teardown_stop") /\ rollouts' = rollouts
        /\ building' = building \ {t} /\ UNCHANGED <<slot, tag, held, live_ids, registered>>
    BY <1>10 DEF SwitchDrifted, RollBack, Drained, Built, handleVars, TaskTypeOK, Pending, NoIP
  <2>. QED
    BY <2>3, <2>4 DEF Goto, TaskTypeOK, Pending
<1>11. CASE Teardown(t)
  BY <1>11, TeardownType
<1>. QED
  BY <1>1, <1>2, <1>3, <1>4, <1>5, <1>6, <1>7, <1>8, <1>9, <1>10, <1>11
     DEF RolloutAction, RolloutStep, PullForRollout, ThawApp, EnterConflict, Respond, handleVars,
         Goto, TaskTypeOK

LEMMA RolloutCoalescing ==
  ASSUME TypeInv, Coalescing, NEW t \in Deployers, RolloutAction(t)
  PROVE  Coalescing'
<1>. t \in Tasks
  BY LifecycleAssumption
<1>. USE DEF Pcs, StopPcs, RolloutPcs, StartPcs, BuildPcs, Return, locals, handleVars
<1>1. CASE SwitchOver(t) \/ SwitchDrifted(t) \/ RollBack(t)
  BY <1>1, OtherStep DEF SwitchOver, SwitchDrifted, RollBack, Built, Become
<1>2. CASE ThawCommit(t) \/ EnterBlueGreen(t)
  BY <1>2, OtherStep DEF ThawCommit, EnterBlueGreen, Become
<1>3. CASE Teardown(t)
  BY <1>3, OtherStep DEF Teardown, TeardownStop, TeardownRelease
<1>4. ASSUME NEW v \in Tags, SetRollout(t, v)
      PROVE  Coalescing'
  BY <1>4, OtherStep DEF SetRollout
<1>5. CASE PullForRollout(t) \/ RecordRollout(t) \/ NeedsThaw(t) \/ ThawId(t) \/ ThawApp(t)
  BY <1>5, OtherStep DEF PullForRollout, RecordRollout, NeedsThaw, ThawId, ThawApp
<1>6. CASE EnterColdStart(t) \/ EnterConflict(t) \/ BuildToSlot(t) \/ Drained(t) \/ Respond(t)
  BY <1>6, OtherStep DEF EnterColdStart, EnterConflict, BuildToSlot, Drained, Respond
<1>. QED
  BY <1>1, <1>2, <1>3, <1>4, <1>5, <1>6 DEF RolloutAction, RolloutStep

-----------------------------------------------------------------------------
(* A rollover has an owner *)

\* A task outside a rollout neither enters nor ends a rollover of its own or
\* of another task.
LEMMA TaskStepRolling ==
  ASSUME TypeInv, NEW t \in Tasks, TaskStep(t)
  PROVE  /\ \A u \in Tasks : pc[u] = "rollover" => pc'[u] = "rollover"
         /\ building' = building
         /\ state' = "RollingOver" => state = "RollingOver"
<1>. USE DEF TypeInv, TypeOK, TaskTypeOK, Pending, BuildPcs, Goto, Return, Become, locals, handleVars
<1>1. CASE StartPhase(t)
  BY <1>1 DEF StartPhase, CurrentId, NoRollout, Allocate, Pull, StartApp, Readiness,
              UnwindStop, UnwindRelease, Unfreeze
<1>2. CASE EnsureRunning(t) /\ ~StartPhase(t)
  BY <1>2 DEF EnsureRunning, ClaimReady, ClaimCoalesce, ClaimWaitForStopping, Claim, Backoff,
              Park, Commit, finish_start, NotifyWaiters
<1>3. CASE Request(t) \/ Answer(t) \/ Upgrade(t) \/ Sweep(t) \/ Evict(t) \/ Remove(t)
  BY <1>3 DEF Request, Answer, Upgrade, Sweep, Evict, Remove
<1>4. CASE SweepStep(t)
  BY <1>4 DEF SweepStep, SweepId, SweepLiveness, SweepIdle, SweepBusy, Freeze,
              FreezeUpgrades, FreezeSkip, FreezeApp, FreezeError, FreezeCommit
<1>5. CASE StopStep(t)
  <2>1. CASE Teardown(t)
    BY <2>1 DEF Teardown, TeardownStop, TeardownRelease
  <2>2. CASE Stop(t)
    BY <2>2 DEF Stop
  <2>3. CASE StopNothing(t)
    BY <2>3 DEF StopNothing, StopReturns
  <2>4. CASE StopCommit(t)
    BY <2>4 DEF StopCommit, StopReturns
  <2>. QED
    BY <1>5, <2>1, <2>2, <2>3, <2>4 DEF StopStep
<1>6. CASE RemoveStep(t) /\ ~StopStep(t)
  BY <1>6 DEF RemoveStep, Unregister, Cleanup, Removed
<1>. QED
  BY <1>1, <1>2, <1>3, <1>4, <1>5, <1>6 DEF TaskStep

LEMMA RollingStep ==
  ASSUME TypeInv, RollingInv, [RolloverNext]_rolloverVars
  PROVE  RollingInv'
<1>. USE DEF RollingInv
<1>1. FromIpOK'
  <2>1. CASE UNCHANGED from_ip
    BY <2>1 DEF FromIpOK
  <2>2. ASSUME NEW t \in Deployers, RolloutAction(t)
        PROVE  FromIpOK'
    <3>1. \/ UNCHANGED from_ip
          \/ from_ip' = [from_ip EXCEPT ![t] = container_ip]
          \/ from_ip' = [from_ip EXCEPT ![t] = NoIP]
      BY <2>2 DEF RolloutAction, RolloutStep, SetRollout, PullForRollout, RecordRollout, NeedsThaw,
                  ThawId, ThawApp, ThawCommit, EnterColdStart, EnterBlueGreen, EnterConflict,
                  BuildToSlot, SwitchOver, SwitchDrifted, RollBack, Drained, Respond
    <3>. QED
      BY <3>1 DEF FromIpOK, TypeInv, TypeOK, HandleTypeOK
  <2>. QED
    BY <2>1, <2>2, RolloverSteps
<1>2. ASSUME building' = building \/ (\E t \in Tasks : building' = building \ {t}),
             \A d \in Deployers : Rolling(d) => Rolling(d)' \/ d \in Cancellable,
             state' = "RollingOver" => state = "RollingOver"
      PROVE  building' \subseteq Deployers /\ RolloverHasOwner'
  BY <1>2 DEF RolloverHasOwner
<1>3. ASSUME [LifecycleNext]_vars
      PROVE  building' \subseteq Deployers /\ RolloverHasOwner'
  <2>1. CASE UNCHANGED <<pc, building, state>>
    <3>1. \A d \in Deployers : Rolling(d) => Rolling(d)'
      BY <2>1 DEF Rolling
    <3>. QED
      BY <2>1, <3>1, <1>2
  <2>2. ASSUME NEW t \in Tasks, TaskStep(t)
        PROVE  building' \subseteq Deployers /\ RolloverHasOwner'
    BY <2>2, <1>2, TaskStepRolling, LifecycleAssumption DEF Rolling
  <2>3. ASSUME NEW t \in Cancellable, Cancel(t)
        PROVE  building' \subseteq Deployers /\ RolloverHasOwner'
    <3>. t \in Tasks
      BY LifecycleAssumption
    <3>1. /\ building' = building \ {t} /\ state' = state
          /\ \A u \in Tasks \ {t} : pc'[u] = pc[u]
      BY <2>3 DEF Cancel, Return, Goto, TypeInv, TypeOK, TaskTypeOK
    <3>. QED
      BY <3>1, <1>2, LifecycleAssumption DEF Rolling
  <2>4. CASE TimePasses \/ ContainerDies
    BY <2>4, <2>1 DEF TimePasses, ContainerDies, taskVars, locals, handleVars
  <2>5. CASE UNCHANGED vars
    BY <2>5, <2>1 DEF vars, taskVars, locals, handleVars
  <2>. QED
    BY <1>3, <2>2, <2>3, <2>4, <2>5, NextSteps
<1>4. ASSUME NEW t \in Deployers, RolloutAction(t)
      PROVE  building' \subseteq Deployers /\ RolloverHasOwner'
  <2>. t \in Tasks
    BY LifecycleAssumption
  <2>. USE DEF TypeInv, TypeOK, TaskTypeOK, Pending, BuildPcs, Goto, Return, Become, locals, handleVars
  <2>1. CASE EnterBlueGreen(t)
    BY <2>1 DEF EnterBlueGreen, RolloverHasOwner, Rolling
  <2>2. CASE BuildToSlot(t)
    BY <2>2 DEF BuildToSlot, RolloverHasOwner, Rolling
  <2>3. CASE SwitchOver(t) \/ SwitchDrifted(t) \/ RollBack(t)
    BY <2>3 DEF SwitchOver, SwitchDrifted, RollBack, Built, RolloverHasOwner
  <2>4. CASE ~EnterBlueGreen(t) /\ ~BuildToSlot(t) /\ ~SwitchOver(t) /\ ~SwitchDrifted(t) /\ ~RollBack(t)
    <3>1. /\ building' = building
          /\ pc[t] # "rollover" /\ \A u \in Tasks \ {t} : pc'[u] = pc[u]
          /\ state' = "RollingOver" => state = "RollingOver"
      BY <1>4, <2>4 DEF RolloutAction, RolloutStep, SetRollout, PullForRollout, RecordRollout, NeedsThaw,
                  ThawId, ThawApp, ThawCommit, EnterColdStart, EnterConflict, Drained, Respond,
                  Teardown, TeardownStop, TeardownRelease
    <3>. QED
      BY <3>1, <1>2, LifecycleAssumption DEF Rolling
  <2>. QED
    BY <2>1, <2>2, <2>3, <2>4
<1>. QED
  BY <1>1, <1>3, <1>4, RolloverSteps

-----------------------------------------------------------------------------
(* Theorems *)

RolloverInv == TypeInv /\ Coalescing /\ AddressInv /\ RollingInv

LEMMA RolloverInvInit == RolloverInit => RolloverInv
<1>. SUFFICES ASSUME RolloverInit PROVE RolloverInv
  OBVIOUS
<1>1. RollingInv
  BY DEF RolloverInit, LifecycleInit, HandleInit, RollingInv, FromIpOK, RolloverHasOwner
<1>. QED
  BY <1>1, TypeInit, CoalescingInit, AddressInit DEF RolloverInit, RolloverInv

LEMMA RolloverInvStep == RolloverInv /\ [RolloverNext]_rolloverVars => RolloverInv'
<1>. SUFFICES ASSUME RolloverInv, [RolloverNext]_rolloverVars
              PROVE  RolloverInv'
  OBVIOUS
<1>1. RollingInv'
  BY RollingStep DEF RolloverInv
<1>2. CASE [LifecycleNext]_vars
  <2>1. HostTypeOK /\ HostStep
    BY <1>2, HostCalls DEF RolloverInv, TypeInv, TypeOK
  <2>. QED
    BY <1>1, <1>2, <2>1, TypeStep, CoalescingStep, AddressStep DEF RolloverInv
<1>3. ASSUME NEW t \in Deployers, RolloutAction(t)
      PROVE  RolloverInv'
  <2>1. HostTypeOK /\ HostStep
    BY <1>3, RolloutHost DEF RolloverInv, TypeInv, TypeOK
  <2>2. TypeInv'
    BY <1>3, <2>1, HostType, RolloutHandleType, RolloutTaskType
       DEF RolloverInv, RollingInv, TypeInv, TypeOK
  <2>. QED
    BY <1>1, <1>3, <2>1, <2>2, RolloutCoalescing, AddressStep DEF RolloverInv
<1>. QED
  BY <1>2, <1>3, RolloverSteps

\* Type correctness with rollouts: among others, a tag that is recorded is one
\* that was deployed, and the history is never empty when a start reads it.
THEOREM RolloverTypeCorrect == RolloverSpec => []RolloverTypeOK
<1>1. RolloverInv => RolloverTypeOK
  BY DEF RolloverInv, TypeInv, RollingInv, RolloverTypeOK
<1>. QED
  BY RolloverInvInit, RolloverInvStep, <1>1, PTL DEF RolloverSpec

\* No interleaving of rollouts with starts, freezes, stops and removals leaves
\* the app Starting without the caller that will finish the start.
THEOREM RolloverStartOwned == RolloverSpec => []StartHasOwner
<1>1. RolloverInv => StartHasOwner
  BY DEF RolloverInv, Coalescing
<1>. QED
  BY RolloverInvInit, RolloverInvStep, <1>1, PTL DEF RolloverSpec

\* Nor does one leave a waiter with a Notify nobody will signal.
THEOREM RolloverWaitersPaired == RolloverSpec => []WaiterHasWaker
<1>1. RolloverInv => WaiterHasWaker
  BY DEF RolloverInv, Coalescing
<1>. QED
  BY RolloverInvInit, RolloverInvStep, <1>1, PTL DEF RolloverSpec

\* Blue and green never share an address, and an address in use is never in
\* the pool.
THEOREM RolloverAddressesUnique == RolloverSpec => []AddressesDistinct
<1>1. RolloverInv => AddressesDistinct
  BY DEF RolloverInv, AddressInv
<1>. QED
  BY RolloverInvInit, RolloverInvStep, <1>1, PTL DEF RolloverSpec

\* The state is RollingOver only while some rollout is on its way to the switch
\* or the rollback, unless a rollout may be dropped: the compare-and-swap on
\* RollingOver never strands the app there.
THEOREM RolloverOwned == RolloverSpec => []RolloverHasOwner
<1>1. RolloverInv => RolloverHasOwner
  BY DEF RolloverInv, RollingInv
<1>. QED
  BY RolloverInvInit, RolloverInvStep, <1>1, PTL DEF RolloverSpec

-----------------------------------------------------------------------------
(* Rollouts and starts, while nothing stops or freezes the app *)

\* Rollouts run next to requests and each other, and none of the operations
\* that overwrite the state under them: sweep, eviction, removal.
RolloutsOnly == Sweepers = {} /\ Evictors = {} /\ Removers = {}

\* A rollout that is rolling has the state to itself, and would roll back to
\* the address that is served meanwhile.
RollsAlone ==
  /\ state \notin {"Frozen", "Stopping"}
  /\ \A t \in Tasks : Rolling(t) =>
       /\ state = "RollingOver" /\ from_ip[t] = container_ip
       /\ \A u \in Tasks : Rolling(u) => u = t
  /\ \A t \in Tasks : pc[t] = "switch" => t \in building

AloneInv == StartsAlone /\ RollsAlone

LEMMA AloneInit == RolloverInit => AloneInv
BY DEF RolloverInit, LifecycleInit, HandleInit, AloneInv, StartsAlone, RollsAlone, Starting,
       StartPcs, Rolling

Serving == {"Running", "RollingOver"}

\* What a step without stops may do to the state and the address.
Turn ==
  /\ [Machine!Next]_<<state, container_ip>>
  /\ state \in Serving => state' \in Serving

\* The states are passed on as AppState has it: a start ends the Starting of
\* its own claim, a rollout the RollingOver it entered.
LEMMA AloneStep ==
  ASSUME RolloutsOnly, TypeInv, FromIpOK, AloneInv, [RolloverNext]_rolloverVars
  PROVE  AloneInv' /\ Turn
<1>. USE DEF AloneInv, StartsAlone, RollsAlone, Starting, Rolling, StartPcs, BuildPcs,
             TypeInv, TypeOK, HandleTypeOK, TaskTypeOK, Pending, FromIpOK, Goto, Become, handleVars,
             locals, Turn, Serving
<1>1. ASSUME UNCHANGED <<handleVars, taskVars, from_ip>>
      PROVE  AloneInv' /\ Turn
  BY <1>1 DEF taskVars
<1>2. ASSUME NEW t \in Callers, EnsureRunning(t), UNCHANGED from_ip
      PROVE  AloneInv' /\ Turn
  <2>. t \in Tasks
    BY LifecycleAssumption DEF Callers
  <2>1. CASE ClaimReady(t) \/ ClaimCoalesce(t) \/ ClaimWaitForStopping(t)
    BY <1>2, <2>1 DEF ClaimReady, ClaimCoalesce, ClaimWaitForStopping
  <2>2. CASE Claim(t)
    <3>1. AloneInv'
      BY <1>2, <2>2 DEF Claim
    <3>2. Machine!Next
      BY <2>2 DEF Claim, Machine!Next, Machine!Claim
    <3>. QED
      BY <2>2, <3>1, <3>2 DEF Claim
  <2>3. CASE Backoff(t) \/ Park(t)
    BY <1>2, <2>3 DEF Backoff, Park
  <2>4. CASE NotifyWaiters(t)
    BY <1>2, <2>4 DEF NotifyWaiters
  <2>5. CASE Commit(t)
    <3>1. Starting(t) /\ state = "Starting"
      BY <2>5 DEF Commit
    <3>2. \A u \in Tasks : Rolling(u) => FALSE
      BY <3>1
    <3>3. AloneInv'
      BY <1>2, <2>5, <3>1, <3>2 DEF Commit, finish_start
    <3>4. Machine!Next
      BY <2>5, <3>1 DEF Commit, finish_start, Machine!Next, Machine!Started, Machine!StartFailed
    <3>. QED
      BY <3>1, <3>3, <3>4
  <2>6. CASE StartPhase(t)
    <3>1. /\ UNCHANGED <<handleVars, building>>
          /\ \A u \in Tasks \ {t} : pc'[u] = pc[u]
          /\ pc[t] \in StartPcs
      BY <2>6 DEF StartPhase, CurrentId, NoRollout, Allocate, Pull, StartApp, Readiness,
                  UnwindStop, UnwindRelease, Unfreeze
    <3>2. t \notin building => pc'[t] \in StartPcs /\ pc'[t] # "switch"
      BY <2>6 DEF StartPhase, CurrentId, NoRollout, Allocate, Pull, StartApp, Readiness,
                  UnwindStop, UnwindRelease, Unfreeze, Finished
    <3>3. pc'[t] # "rollover"
      BY <2>6 DEF StartPhase, CurrentId, NoRollout, Allocate, Pull, StartApp, Readiness,
                  UnwindStop, UnwindRelease, Unfreeze, Finished
    <3>. QED
      BY <1>2, <3>1, <3>2, <3>3
  <2>. QED
    BY <1>2, <2>1, <2>2, <2>3, <2>4, <2>5, <2>6 DEF EnsureRunning
<1>3. ASSUME NEW t \in Tasks, Request(t) \/ Answer(t) \/ Upgrade(t) \/ Cancel(t), UNCHANGED from_ip
      PROVE  AloneInv' /\ Turn
  <2>1. CASE Request(t) \/ Upgrade(t)
    BY <1>3, <2>1 DEF Request, Upgrade
  <2>2. CASE Answer(t)
    BY <1>3, <2>2 DEF Answer, Return
  <2>3. CASE Cancel(t)
    BY <1>3, <2>3 DEF Cancel, Return
  <2>. QED
    BY <1>3, <2>1, <2>2, <2>3
<1>4. CASE (TimePasses \/ ContainerDies) /\ UNCHANGED from_ip
  BY <1>4 DEF TimePasses, ContainerDies, taskVars
<1>5. CASE LifecycleNext /\ UNCHANGED from_ip
  BY <1>2, <1>3, <1>4, <1>5, LifecycleAssumption DEF LifecycleNext, RolloutsOnly
<1>6. ASSUME NEW t \in Deployers, RolloutAction(t)
      PROVE  AloneInv' /\ Turn
  <2>. t \in Tasks
    BY LifecycleAssumption
  <2>1. ASSUME NEW v \in Tags, SetRollout(t, v)
        PROVE  AloneInv' /\ Turn
    BY <2>1 DEF SetRollout
  <2>2. CASE PullForRollout(t)
    BY <2>2 DEF PullForRollout, Return
  <2>14. CASE RecordRollout(t) \/ NeedsThaw(t) \/ ThawId(t)
    BY <2>14 DEF RecordRollout, NeedsThaw, ThawId
  <2>3. CASE ThawApp(t)
    BY <2>3 DEF ThawApp, Return
  <2>12. CASE ThawCommit(t)
    BY <2>12 DEF ThawCommit
  <2>13. CASE EnterColdStart(t)
    BY <2>13 DEF EnterColdStart
  <2>15. CASE EnterConflict(t)
    BY <2>15 DEF EnterConflict, Return
  <2>4. CASE EnterBlueGreen(t)
    <3>1. AloneInv'
      BY <2>4 DEF EnterBlueGreen
    <3>2. Machine!Next
      BY <2>4 DEF EnterBlueGreen, Machine!Next, Machine!BeginRollover
    <3>. QED
      BY <2>4, <3>1, <3>2 DEF EnterBlueGreen
  <2>5. CASE BuildToSlot(t)
    BY <2>5 DEF BuildToSlot
  <2>6. CASE SwitchOver(t)
    <3>1. t \in Tasks /\ state = "RollingOver"
      BY <2>6 DEF SwitchOver
    <3>2. \A u \in Tasks : ~Starting(u)
      BY <3>1
    <3>3. pc[t] = "switch" /\ t \in building /\ building' = building \ {t}
      BY <2>6 DEF SwitchOver, Built
    <3>4. \A u \in Tasks : ~Rolling(u)'
      BY <2>6, <3>3 DEF SwitchOver
    <3>5. AloneInv'
      BY <2>6, <3>2, <3>3, <3>4 DEF SwitchOver
    <3>6. Machine!Next
      BY <2>6 DEF SwitchOver, Machine!Next, Machine!SwitchOver, Machine!RollBack
    <3>. QED
      BY <2>6, <3>5, <3>6 DEF SwitchOver
  <2>7. CASE SwitchDrifted(t)
    BY <2>7 DEF SwitchDrifted, Built
  <2>8. CASE RollBack(t)
    <3>1. pc[t] = "switch" /\ t \in building /\ building' = building \ {t}
      BY <2>8 DEF RollBack, Built
    <3>2. state = "RollingOver" /\ from_ip[t] = container_ip /\ \A u \in Tasks : ~Starting(u)
      BY <3>1
    <3>3. state' = "Running" /\ container_ip' = container_ip /\ UNCHANGED from_ip
      BY <2>8, <3>2 DEF RollBack
    <3>4. \A u \in Tasks : ~Rolling(u)'
      BY <2>8, <3>1 DEF RollBack
    <3>5. AloneInv'
      BY <2>8, <3>1, <3>2, <3>3, <3>4 DEF RollBack
    <3>6. Machine!Next
      BY <3>2, <3>3 DEF Machine!Next, Machine!RollBack
    <3>. QED
      BY <3>2, <3>3, <3>5, <3>6
  <2>9. CASE Drained(t)
    BY <2>9 DEF Drained
  <2>10. CASE Respond(t)
    BY <2>10 DEF Respond, Return
  <2>11. CASE Teardown(t) /\ UNCHANGED from_ip
    <3>1. /\ UNCHANGED <<handleVars, building>> /\ t \notin building
          /\ pc'[t] \in {"teardown_stop", "teardown_release", "done"}
          /\ \A u \in Tasks \ {t} : pc'[u] = pc[u]
      <4>1. CASE TeardownStop(t)
        BY <4>1 DEF TeardownStop
      <4>2. CASE TeardownRelease(t)
        BY <4>2 DEF TeardownRelease
      <4>. QED
        BY <2>11, <4>1, <4>2 DEF Teardown
    <3>. QED
      BY <2>11, <3>1
  <2>. QED
    BY <1>6, <2>1, <2>2, <2>3, <2>4, <2>5, <2>6, <2>7, <2>8, <2>9, <2>10, <2>11,
     <2>12, <2>13, <2>14, <2>15
       DEF RolloutAction, RolloutStep
<1>. QED
  BY <1>1, <1>5, <1>6 DEF RolloverNext, rolloverVars, vars, RolloutAction

\* The run of Rollover's steps: the typed invariant of all rollouts, and the
\* one of this section.
LEMMA AloneRun ==
  ASSUME RolloutsOnly
  PROVE  RolloverSpec => [](RolloverInv /\ AloneInv)
<1>1. RolloverInv /\ AloneInv /\ [RolloverNext]_rolloverVars => AloneInv' /\ Turn
  BY AloneStep DEF RolloverInv, RollingInv
<1>. QED
  BY RolloverInvInit, RolloverInvStep, AloneInit, <1>1, PTL DEF RolloverSpec

\* RollingOver keeps every other rollout out of build_to_slot, whichever of
\* them fail or are dropped: no two build into one slot.
THEOREM RolloversSingle ==
  ASSUME RolloutsOnly
  PROVE  RolloverSpec => []SingleRollover
<1>1. AloneInv => SingleRollover
  BY LifecycleAssumption DEF AloneInv, RollsAlone, SingleRollover
<1>. QED
  BY AloneRun, <1>1, PTL

\* Any number of rollouts and requests go through the states of AppState by
\* its transitions only, and a rollback restores the address it found.
THEOREM RolloverImplements ==
  ASSUME RolloutsOnly
  PROVE  RolloverSpec => ImplementsAppState
<1>1. RolloverInit => Machine!Init
  BY DEF RolloverInit, LifecycleInit, HandleInit, Machine!Init
<1>2. Turn => [Machine!Next]_(Machine!AppState)
  BY DEF Turn, Machine!AppState
<1>3. RolloverInv /\ AloneInv /\ [RolloverNext]_rolloverVars => Turn
  BY AloneStep DEF RolloverInv, RollingInv
<1>. QED
  BY AloneRun, <1>1, <1>2, <1>3, PTL DEF RolloverSpec, ImplementsAppState, Machine!Spec

\* No rollout, failed, dropped or successful, takes a serving app out of
\* service.
THEOREM NoOutageHolds ==
  ASSUME RolloutsOnly
  PROVE  RolloverSpec => NoOutage
<1>1. Turn => [(state \in {"Running", "RollingOver"}) => state' \in {"Running", "RollingOver"}]_state
  BY DEF Turn, Serving
<1>2. RolloverInv /\ AloneInv /\ [RolloverNext]_rolloverVars => Turn
  BY AloneStep DEF RolloverInv, RollingInv
<1>. QED
  BY AloneRun, <1>1, <1>2, PTL DEF RolloverSpec, NoOutage

=============================================================================
