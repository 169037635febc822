--------------------------- MODULE LifecycleProofs ---------------------------
(***************************************************************************)
(* Theorems about Lifecycle: what holds of every interleaving of any       *)
(* number of requests, sweeps, evictions and removals, with every failure, *)
(* crash and cancellation.                                                 *)
(***************************************************************************)
EXTENDS Lifecycle, TLAPS

\* Where build_to_slot runs the phases of a start.
BuildPcs == {"allocate", "pull", "start_app", "readiness", "unwind_stop",
             "unwind_release", "switch"}

\* What a task has in its locals at the points that use them.
Pending ==
  /\ \A t \in Tasks : pc[t] \in {"teardown_stop", "teardown_release"} => work[t] # <<>>
  /\ \A t \in Tasks : pc[t] = "pull" => rollouts # <<>>
  /\ \A t \in Tasks : pc[t] \in {"roll_pull", "roll_record"} => tag[t] \in Tags
  /\ \A t \in building : pc[t] \in BuildPcs

TypeInv == TypeOK /\ Pending

-----------------------------------------------------------------------------
(* The host *)

\* A step of the host on one slot, or of none.
HostStep ==
  \/ UNCHANGED hostVars
  \/ \E s \in Slots :
       \/ \E ip \in IPs : allocate_endpoint(s, ip)
       \/ AllocateFails(s)
       \/ release_endpoint(s)
       \/ \E v \in Tags \cup {NoTag} : start_app(s, v)
       \/ \E v \in Tags \cup {NoTag} : StartAppFails(s, v)
       \/ stop_app(s)
       \/ freeze_app(s)
       \/ unfreeze_app(s)

\* Every operation of the host keeps its types.
LEMMA HostType ==
  ASSUME HostTypeOK, HostStep
  PROVE  HostTypeOK'
<1> USE DEF HostTypeOK
<1>1. CASE UNCHANGED hostVars
  BY <1>1 DEF hostVars
<1>2. CASE \E s \in Slots : \E ip \in IPs : allocate_endpoint(s, ip)
  BY <1>2 DEF allocate_endpoint, NoIP
<1>3. CASE \E s \in Slots : AllocateFails(s)
  <2>1. PICK s \in Slots : UNCHANGED hostVars \/ (Detached(s) /\ UNCHANGED <<container, image, endpoint, free>>)
    BY <1>3 DEF AllocateFails
  <2>. QED
    BY <2>1, <1>1 DEF Detached, NoIP
<1>4. CASE \E s \in Slots : release_endpoint(s)
  <2>1. PICK s \in Slots : release_endpoint(s)
    BY <1>4
  <2>2. CASE endpoint[s] = NoIP
    BY <2>1, <2>2, <1>1 DEF release_endpoint
  <2>3. CASE endpoint[s] # NoIP
    <3>1. netns' \in [Slots -> IPs \cup {NoIP}] /\ attached' \in [Slots -> IPs \cup {NoIP}]
      BY <2>1, <2>3 DEF release_endpoint, Detached, NoIP
    <3>. QED
      BY <2>1, <2>3, <3>1 DEF release_endpoint
  <2>. QED
    BY <2>2, <2>3
<1>5. CASE \E s \in Slots : \E v \in Tags \cup {NoTag} : start_app(s, v) \/ StartAppFails(s, v)
  <2>1. PICK s \in Slots, v \in Tags \cup {NoTag} : start_app(s, v) \/ StartAppFails(s, v)
    BY <1>5
  <2>2. ASSUME NEW status \in {"created", "running"}, Launched(s, v, status)
        PROVE  HostTypeOK'
    BY <2>2 DEF Launched
  <2>3. CASE Down(s)
    BY <2>3 DEF Down, NoIP
  <2>. QED
    BY <2>1, <2>2, <2>3, <1>1 DEF start_app, StartAppFails
<1>6. CASE \E s \in Slots : stop_app(s)
  <2>1. PICK s \in Slots : UNCHANGED hostVars \/ Down(s)
    BY <1>6 DEF stop_app
  <2>. QED
    BY <2>1, <1>1 DEF Down, NoIP
<1>7. CASE \E s \in Slots : freeze_app(s) \/ unfreeze_app(s)
  BY <1>7 DEF freeze_app, unfreeze_app
<1>. QED
  BY <1>1, <1>2, <1>3, <1>4, <1>5, <1>6, <1>7 DEF HostStep

-----------------------------------------------------------------------------
(* Type correctness *)

\* The actions of a task in any of its roles, without the dropping of its
\* future.
TaskStep(t) ==
  \/ Request(t) \/ Answer(t) \/ Upgrade(t)
  \/ EnsureRunning(t)
  \/ Sweep(t) \/ SweepStep(t) \/ Evict(t) \/ StopStep(t)
  \/ Remove(t) \/ RemoveStep(t)

\* Every step of Lifecycle is one of a task, of the clock or of the kernel.
LEMMA NextSteps ==
  ASSUME LifecycleNext
  PROVE  \/ \E t \in Tasks : TaskStep(t)
         \/ \E t \in Cancellable : Cancel(t)
         \/ TimePasses
         \/ ContainerDies
BY LifecycleAssumption DEF LifecycleNext, TaskStep, Callers

LEMMA TeardownHost ==
  ASSUME TypeInv, NEW t \in Tasks, Teardown(t)
  PROVE  HostStep
<1>1. Head(work[t]) \in Slots
  BY DEF TypeInv, TypeOK, TaskTypeOK, Pending, Teardown, TeardownStop, TeardownRelease
<1>. QED
  BY <1>1 DEF Teardown, TeardownStop, TeardownRelease, HostStep

\* Each action makes at most one call of the host.
LEMMA HostCalls ==
  ASSUME TypeInv, [LifecycleNext]_vars
  PROVE  HostStep
<1>1. CASE UNCHANGED vars
  BY <1>1 DEF vars, HostStep
<1>2. ASSUME NEW t \in Tasks, TaskStep(t)
      PROVE  HostStep
  <2>1. CASE StartPhase(t)
    <3>1. slot[t] \in Slots /\ tag[t] \in Tags \cup {NoTag}
      BY DEF TypeInv, TypeOK, TaskTypeOK
    <3>2. CASE Allocate(t)
      BY <3>1, <3>2 DEF Allocate, HostStep
    <3>3. CASE StartApp(t)
      BY <3>1, <3>3 DEF StartApp, HostStep
    <3>4. CASE UnwindStop(t) \/ UnwindRelease(t)
      BY <3>1, <3>4 DEF UnwindStop, UnwindRelease, HostStep
    <3>5. CASE Unfreeze(t)
      BY <3>1, <3>5 DEF Unfreeze, UnfreezeAppFails, HostStep
    <3>6. CASE CurrentId(t) \/ NoRollout(t) \/ Pull(t) \/ Readiness(t)
      BY <3>6 DEF CurrentId, NoRollout, Pull, Readiness, HostStep
    <3>. QED
      BY <2>1, <3>2, <3>3, <3>4, <3>5, <3>6 DEF StartPhase
  <2>2. CASE EnsureRunning(t) /\ ~StartPhase(t)
    BY <2>2 DEF EnsureRunning, ClaimReady, ClaimCoalesce, ClaimWaitForStopping,
                Claim, Backoff, Park, Commit, NotifyWaiters, HostStep
  <2>3. CASE Request(t) \/ Answer(t) \/ Upgrade(t) \/ Sweep(t) \/ Evict(t) \/ Remove(t)
    BY <2>3 DEF Request, Answer, Upgrade, Sweep, Evict, Remove, HostStep
  <2>4. CASE SweepStep(t)
    <3>1. slot[t] \in Slots
      BY DEF TypeInv, TypeOK, TaskTypeOK
    <3>2. CASE FreezeApp(t) \/ FreezeError(t)
      BY <3>1, <3>2 DEF FreezeApp, FreezeError, FreezeAppFails, HostStep
    <3>3. CASE SweepStep(t) /\ ~FreezeApp(t) /\ ~FreezeError(t)
      BY <3>3 DEF SweepStep, SweepId, SweepLiveness, SweepIdle, SweepBusy, Freeze,
                  FreezeUpgrades, FreezeSkip, FreezeCommit, HostStep
    <3>. QED
      BY <2>4, <3>2, <3>3
  <2>5. CASE Teardown(t)
    BY <2>5, TeardownHost
  <2>6. CASE StopStep(t) /\ ~Teardown(t)
    BY <2>6 DEF StopStep, Stop, StopNothing, StopCommit, HostStep
  <2>7. CASE RemoveStep(t) /\ ~StopStep(t)
    <3>1. CASE Cleanup(t)
      <4>1. Head(live_ids[t]) \in Slots
        BY <3>1 DEF TypeInv, TypeOK, TaskTypeOK, Cleanup
      <4>. QED
        BY <3>1, <4>1 DEF Cleanup, HostStep, stop_app
    <3>. QED
      BY <2>7, <3>1 DEF RemoveStep, Unregister, Removed, HostStep
  <2>. QED
    BY <1>2, <2>1, <2>2, <2>3, <2>4, <2>5, <2>6, <2>7 DEF TaskStep
<1>3. ASSUME NEW t \in Tasks, Cancel(t)
      PROVE  HostStep
  BY <1>3 DEF Cancel, HostStep
<1>4. CASE TimePasses
  BY <1>4 DEF TimePasses, HostStep
<1>5. CASE ContainerDies
  BY <1>5 DEF ContainerDies, Crash, HostStep, stop_app
<1>. QED
  BY <1>1, <1>2, <1>3, <1>4, <1>5, NextSteps, LifecycleAssumption

\* The handle keeps its types.
LEMMA HandleType ==
  ASSUME TypeInv, [LifecycleNext]_vars
  PROVE  HandleTypeOK'
<1>. USE DEF TypeInv, TypeOK, HandleTypeOK, AppStates
<1>1. CASE UNCHANGED handleVars
  BY <1>1 DEF handleVars
<1>2. ASSUME NEW t \in Tasks, Become("Starting", NoIP, t) \/ Become("Stopping", NoIP, Nobody)
                                \/ Become("Stopped", NoIP, Nobody)
                                \/ Become("Running", addr[t], Nobody) \/ Become("Frozen", addr[t], Nobody),
             UNCHANGED <<current_slot, rollouts>>,
             recent' \in BOOLEAN
      PROVE  HandleTypeOK'
  BY <1>2 DEF Become, TaskTypeOK
<1>3. ASSUME UNCHANGED <<state, container_ip, notify, current_slot, rollouts>>,
             recent' \in BOOLEAN
      PROVE  HandleTypeOK'
  BY <1>3
<1>4. ASSUME NEW t \in Tasks, TaskStep(t)
      PROVE  HandleTypeOK'
  <2>1. CASE ClaimReady(t) \/ ClaimCoalesce(t) \/ ClaimWaitForStopping(t)
    BY <2>1, <1>3 DEF ClaimReady, ClaimCoalesce, ClaimWaitForStopping
  <2>2. CASE Claim(t)
    BY <2>2, <1>2 DEF Claim
  <2>3. CASE Commit(t)
    BY <2>3, <1>2 DEF Commit, finish_start
  <2>4. CASE StartPhase(t) \/ Backoff(t) \/ Park(t) \/ NotifyWaiters(t)
    BY <2>4, <1>1 DEF StartPhase, CurrentId, NoRollout, Allocate, Pull, StartApp, Readiness,
                      UnwindStop, UnwindRelease, Unfreeze, Backoff, Park, NotifyWaiters
  <2>5. CASE Request(t) \/ Answer(t) \/ Upgrade(t) \/ Sweep(t) \/ Evict(t) \/ Remove(t)
    BY <2>5, <1>1 DEF Request, Answer, Upgrade, Sweep, Evict, Remove
  <2>6. CASE FreezeCommit(t)
    BY <2>6, <1>2 DEF FreezeCommit
  <2>7. CASE SweepStep(t) /\ ~FreezeCommit(t)
    BY <2>7, <1>1 DEF SweepStep, SweepId, SweepLiveness, SweepIdle, SweepBusy, Freeze,
                      FreezeUpgrades, FreezeSkip, FreezeApp, FreezeError
  <2>8. CASE Stop(t) \/ StopCommit(t)
    BY <2>8, <1>2 DEF Stop, StopCommit
  <2>9. CASE RemoveStep(t) /\ ~Stop(t) /\ ~StopCommit(t)
    BY <2>9, <1>1 DEF RemoveStep, StopStep, StopNothing, Teardown, TeardownStop,
                      TeardownRelease, Unregister, Cleanup, Removed
  <2>. QED
    BY <1>4, <2>1, <2>2, <2>3, <2>4, <2>5, <2>6, <2>7, <2>8, <2>9
       DEF TaskStep, EnsureRunning, RemoveStep
<1>5. ASSUME NEW t \in Tasks, Cancel(t)
      PROVE  HandleTypeOK'
  BY <1>5 DEF Cancel
<1>6. CASE TimePasses
  BY <1>6, <1>3 DEF TimePasses
<1>7. CASE ContainerDies
  BY <1>7, <1>1 DEF ContainerDies
<1>8. CASE UNCHANGED vars
  BY <1>8, <1>1 DEF vars
<1>. QED
  BY <1>4, <1>5, <1>6, <1>7, <1>8, NextSteps, LifecycleAssumption

\* A return leaves the locals typed and nothing pending.
LEMMA ReturnType ==
  ASSUME TypeInv, NEW t \in Tasks, Return(t), held' \in [Tasks -> Tasks \cup {Nobody}],
         UNCHANGED <<rollouts, registered>>
  PROVE  TaskTypeOK' /\ Pending'
<1>. USE DEF TypeInv, TypeOK, TaskTypeOK, Return, Goto
<1>1. pc' \in [Tasks -> Pcs]
  BY DEF Pcs
<1>2. slot' \in [Tasks -> Slots] /\ addr' \in [Tasks -> IPs \cup {NoIP}]
  BY DEF Slots
<1>3. tag' \in [Tasks -> Tags \cup {NoTag}]
  OBVIOUS
<1>4. work' \in [Tasks -> Seq(Slots)] /\ live_ids' \in [Tasks -> Seq(Slots)]
  OBVIOUS
<1>5. Pending'
  BY DEF Pending
<1>. QED
  BY <1>1, <1>2, <1>3, <1>4, <1>5

\* A step to another point of the code, nothing else: the point must not be
\* one where a local is pending.
LEMMA GotoType ==
  ASSUME TypeInv, NEW t \in Tasks, NEW label \in Pcs, Goto(t, label),
         label \in {"teardown_stop", "teardown_release"} => work[t] # <<>>,
         label = "pull" => rollouts # <<>>,
         label \notin {"roll_pull", "roll_record"},
         t \in building => label \in BuildPcs,
         UNCHANGED <<rollouts, locals>>
  PROVE  TaskTypeOK' /\ Pending'
<1>1. TaskTypeOK'
  BY DEF TypeInv, TypeOK, TaskTypeOK, Goto, locals
<1>2. Pending'
  BY DEF TypeInv, TypeOK, TaskTypeOK, Pending, Goto, locals
<1>. QED
  BY <1>1, <1>2

LEMMA TailType ==
  ASSUME NEW S, NEW q \in Seq(S), q # <<>>
  PROVE  Tail(q) \in Seq(S) /\ (Len(q) > 1 => Tail(q) # <<>>)
<1>1. Tail(q) \in Seq(S) /\ Len(Tail(q)) = Len(q) - 1
  OBVIOUS
<1>2. Len(q) > 1 => Len(Tail(q)) # 0
  BY <1>1
<1>3. Len(<<>>) = 0
  OBVIOUS
<1>4. Len(q) > 1 => Tail(q) # <<>>
  BY <1>2, <1>3, Zenon
<1>. QED
  BY <1>1, <1>4

\* A teardown walks its list to the end.
LEMMA TeardownType ==
  ASSUME TypeInv, NEW t \in Tasks, Teardown(t)
  PROVE  TaskTypeOK' /\ Pending'
<1>. USE DEF TypeInv, TypeOK, Pcs, StopPcs, BuildPcs
<1>1. CASE TeardownStop(t)
  BY <1>1, GotoType DEF TeardownStop, handleVars, Pending
<1>2. CASE TeardownRelease(t)
  <2>1. work[t] \in Seq(Slots) /\ work[t] # <<>>
    BY <1>2 DEF TeardownRelease, TaskTypeOK, Pending
  <2>2. Tail(work[t]) \in Seq(Slots) /\ (Len(work[t]) > 1 => Tail(work[t]) # <<>>)
    BY <2>1, TailType
  <2>3. TaskTypeOK'
    BY <1>2, <2>2 DEF TeardownRelease, Goto, TaskTypeOK
  <2>4. Pending'
    BY <1>2, <2>2 DEF TeardownRelease, Goto, handleVars, TaskTypeOK, Pending
  <2>. QED
    BY <2>3, <2>4
<1>. QED
  BY <1>1, <1>2 DEF Teardown

\* What stop tears down and remove_app reclaims is a list of slots, empty for
\* a stopped app only.
LEMMA LiveIds ==
  ASSUME HandleTypeOK
  PROVE  /\ live_container_ids \in Seq(Slots)
         /\ state # "Stopped" => live_container_ids # <<>>
<1>1. current_slot \in Slots /\ other(current_slot) \in Slots
  BY DEF HandleTypeOK, Slots, other
<1>2. /\ <<>> \in Seq(Slots)
      /\ <<current_slot>> \in Seq(Slots)
      /\ <<current_slot, other(current_slot)>> \in Seq(Slots)
  BY <1>1
<1>3. CASE state = "Stopped"
  BY <1>2, <1>3 DEF live_container_ids
<1>4. CASE state = "RollingOver"
  BY <1>2, <1>4 DEF live_container_ids
<1>5. CASE state \notin {"Stopped", "RollingOver"}
  BY <1>2, <1>5 DEF live_container_ids
<1>. QED
  BY <1>3, <1>4, <1>5

\* The locals keep their types, and what is pending is there.
LEMMA TaskType ==
  ASSUME TypeInv, [LifecycleNext]_vars
  PROVE  TaskTypeOK' /\ Pending'
<1>. USE DEF TypeInv, TypeOK, Pcs, StartPcs, SweepPcs, StopPcs, RolloutPcs, BuildPcs
<1>1. CASE UNCHANGED <<taskVars, rollouts>>
  BY <1>1 DEF taskVars, locals, TaskTypeOK, Pending
<1>2. ASSUME NEW t \in Tasks, EnsureRunning(t)
      PROVE  TaskTypeOK' /\ Pending'
  <2>1. CASE ClaimReady(t) \/ ClaimCoalesce(t) \/ ClaimWaitForStopping(t) \/ Claim(t)
    <3>1. TaskTypeOK'
      <4>1. CASE ClaimReady(t)
        BY <4>1 DEF ClaimReady, Goto, HandleTypeOK, TaskTypeOK
      <4>2. CASE ClaimCoalesce(t)
        BY <4>2 DEF ClaimCoalesce, Goto, HandleTypeOK, TaskTypeOK
      <4>3. CASE ClaimWaitForStopping(t)
        BY <4>3 DEF ClaimWaitForStopping, Goto, locals, TaskTypeOK
      <4>4. CASE Claim(t)
        BY <4>4 DEF Claim, Goto, HandleTypeOK, TaskTypeOK
      <4>. QED
        BY <2>1, <4>1, <4>2, <4>3, <4>4
    <3>2. Pending'
      BY <2>1 DEF ClaimReady, ClaimCoalesce, ClaimWaitForStopping, Claim, Goto, locals,
                  TaskTypeOK, Pending
    <3>. QED
      BY <3>1, <3>2
  <2>2. CASE Backoff(t) \/ Park(t) \/ Commit(t)
    BY <2>2, GotoType DEF Backoff, Park, Commit, handleVars, Pending
  <2>3. CASE NotifyWaiters(t)
    <3>1. TaskTypeOK'
      BY <2>3 DEF NotifyWaiters, Abandoned, TaskTypeOK
    <3>2. Pending'
      BY <2>3 DEF NotifyWaiters, TaskTypeOK, Pending, handleVars
    <3>. QED
      BY <3>1, <3>2
  <2>4. CASE CurrentId(t)
    BY <2>4 DEF CurrentId, Goto, handleVars, HandleTypeOK, TaskTypeOK, Pending
  <2>5. CASE NoRollout(t) \/ StartApp(t) \/ Readiness(t) \/ UnwindStop(t)
    BY <2>5, GotoType DEF NoRollout, StartApp, Readiness, UnwindStop, Finished, handleVars, Pending
  <2>6. CASE Allocate(t)
    <3>1. PICK label \in {"pull", "switch", "commit"} :
            /\ Goto(t, label)
            /\ t \in building => label # "commit"
            /\ rollouts # <<>> /\ rollouts' = rollouts
            /\ addr' \in [Tasks -> IPs \cup {NoIP}]
            /\ UNCHANGED <<slot, tag, held, work, live_ids, building, registered>>
      <4>1. rollouts # <<>> /\ rollouts' = rollouts
        BY <2>6 DEF Allocate, handleVars
      <4>2. addr' \in [Tasks -> IPs \cup {NoIP}]
        BY <2>6 DEF Allocate, TaskTypeOK
      <4>. QED
        BY <2>6, <4>1, <4>2 DEF Allocate, Finished
    <3>. QED
      BY <3>1 DEF Goto, TaskTypeOK, Pending
  <2>7. CASE Pull(t)
    <3>1. rollouts # <<>> /\ rollouts[Len(rollouts)] \in Tags
      BY <2>7 DEF Pull, Pending, HandleTypeOK
    <3>. QED
      BY <2>7, <3>1 DEF Pull, Goto, handleVars, TaskTypeOK, Pending
  <2>8. CASE UnwindRelease(t)
    BY <2>8 DEF UnwindRelease, Finished, Goto, handleVars, TaskTypeOK, Pending, NoIP
  <2>9. CASE Unfreeze(t)
    BY <2>9 DEF Unfreeze, Goto, handleVars, TaskTypeOK, Pending, NoIP
  <2>. QED
    BY <1>2, <2>1, <2>2, <2>3, <2>4, <2>5, <2>6, <2>7, <2>8, <2>9
       DEF EnsureRunning, StartPhase
<1>3. ASSUME NEW t \in Tasks, Request(t) \/ Upgrade(t) \/ Sweep(t) \/ Evict(t)
      PROVE  TaskTypeOK' /\ Pending'
  BY <1>3, GotoType DEF Request, Upgrade, Sweep, Evict, handleVars, Pending
<1>4. ASSUME NEW t \in Tasks,
             Answer(t) \/ SweepBusy(t) \/ FreezeSkip(t) \/ FreezeError(t) \/ FreezeCommit(t) \/ Removed(t)
      PROVE  TaskTypeOK' /\ Pending'
  BY <1>4, ReturnType DEF Answer, SweepBusy, FreezeSkip, FreezeError, FreezeCommit, Removed,
                          handleVars, TaskTypeOK
<1>5. ASSUME NEW t \in Tasks, SweepStep(t)
      PROVE  TaskTypeOK' /\ Pending'
  <2>1. CASE SweepId(t)
    <3>1. TaskTypeOK'
      BY <2>1 DEF SweepId, Goto, HandleTypeOK, TaskTypeOK
    <3>2. Pending'
      BY <2>1 DEF SweepId, Goto, handleVars, TaskTypeOK, Pending
    <3>. QED
      BY <3>1, <3>2
  <2>3. CASE Freeze(t)
    BY <2>3 DEF Freeze, Goto, handleVars, HandleTypeOK, TaskTypeOK, Pending
  <2>2. CASE SweepLiveness(t) \/ SweepIdle(t) \/ FreezeUpgrades(t) \/ FreezeApp(t)
    BY <2>2, GotoType DEF SweepLiveness, SweepIdle, FreezeUpgrades, FreezeApp, handleVars, Pending
  <2>. QED
    BY <1>4, <1>5, <2>1, <2>2, <2>3 DEF SweepStep
<1>6. ASSUME NEW t \in Tasks, StopStep(t)
      PROVE  TaskTypeOK' /\ Pending'
  <2>1. CASE Stop(t)
    <3>1. live_container_ids \in Seq(Slots) /\ live_container_ids # <<>>
      BY <2>1, LiveIds DEF Stop, needs_teardown
    <3>. QED
      BY <2>1, <3>1 DEF Stop, Goto, TaskTypeOK, Pending
  <2>2. CASE StopReturns(t) /\ UNCHANGED <<held, registered, rollouts>>
    <3>1. CASE t \in Removers
      <4>1. Goto(t, "cleanup") /\ UNCHANGED <<rollouts, locals>> /\ t \notin building
        BY <1>6, <2>2, <3>1 DEF StopReturns, locals, StopStep, Stop, StopNothing, StopCommit,
                                Teardown, TeardownStop, TeardownRelease, Pending
      <4>. QED
        BY <4>1, GotoType
    <3>2. CASE t \notin Removers
      <4>1. held' \in [Tasks -> Tasks \cup {Nobody}]
        BY <2>2 DEF TaskTypeOK
      <4>. QED
        BY <2>2, <3>2, <4>1, ReturnType DEF StopReturns
    <3>. QED
      BY <3>1, <3>2
  <2>3. CASE Teardown(t)
    BY <2>3, TeardownType
  <2>. QED
    BY <1>6, <2>1, <2>2, <2>3 DEF StopStep, StopNothing, StopCommit, handleVars
<1>7. ASSUME NEW t \in Tasks, Remove(t) \/ RemoveStep(t)
      PROVE  TaskTypeOK' /\ Pending'
  <2>1. CASE Remove(t)
    <3>1. live_container_ids \in Seq(Slots)
      BY LiveIds
    <3>. QED
      BY <2>1, <3>1 DEF Remove, Goto, handleVars, TaskTypeOK, Pending
  <2>2. CASE Unregister(t)
    BY <2>2 DEF Unregister, Goto, handleVars, TaskTypeOK, Pending
  <2>3. CASE Cleanup(t)
    <3>1. Tail(live_ids[t]) \in Seq(Slots)
      BY <2>3 DEF Cleanup, TaskTypeOK
    <3>. QED
      BY <2>3, <3>1 DEF Cleanup, handleVars, TaskTypeOK, Pending
  <2>. QED
    BY <1>4, <1>6, <1>7, <2>1, <2>2, <2>3 DEF RemoveStep
<1>8. ASSUME NEW t \in Tasks, Cancel(t)
      PROVE  TaskTypeOK' /\ Pending'
  <2>1. held' \in [Tasks -> Tasks \cup {Nobody}]
    BY <1>8 DEF Cancel, Abandoned, TaskTypeOK
  <2>. QED
    BY <1>8, <2>1, ReturnType DEF Cancel
<1>9. CASE TimePasses \/ ContainerDies \/ UNCHANGED vars
  BY <1>1, <1>9 DEF TimePasses, ContainerDies, vars, handleVars
<1>. QED
  BY <1>2, <1>3, <1>4, <1>5, <1>6, <1>7, <1>8, <1>9, NextSteps, LifecycleAssumption DEF TaskStep

LEMMA TypeInit == LifecycleInit => TypeInv
<1>. SUFFICES ASSUME LifecycleInit PROVE TypeInv
  OBVIOUS
<1>1. HostTypeOK
  BY DEF LifecycleInit, HostInit, HostTypeOK
<1>2. HandleTypeOK
  <2>1. rollouts \in Seq(Tags) /\ Len(rollouts) <= MAX_ROLLOUT_HISTORY
    <3>1. CASE rollouts = <<>>
      BY <3>1 DEF MAX_ROLLOUT_HISTORY
    <3>2. ASSUME NEW v \in Tags, rollouts = <<v>>
          PROVE  rollouts \in Seq(Tags) /\ Len(rollouts) <= MAX_ROLLOUT_HISTORY
      <4>1. <<v>> \in Seq(Tags) /\ Len(<<v>>) = 1
        OBVIOUS
      <4>. QED
        BY <3>2, <4>1 DEF MAX_ROLLOUT_HISTORY
    <3>. QED
      BY <3>1, <3>2 DEF LifecycleInit, HandleInit
  <2>. QED
    BY <2>1 DEF LifecycleInit, HandleInit, HandleTypeOK, AppStates, Slots
<1>3. TaskTypeOK
  BY DEF LifecycleInit, TaskTypeOK, Pcs, Slots
<1>4. Pending
  BY DEF LifecycleInit, Pending
<1>. QED
  BY <1>1, <1>2, <1>3, <1>4 DEF TypeInv, TypeOK

LEMMA TypeStep == TypeInv /\ [LifecycleNext]_vars => TypeInv'
BY HostCalls, HostType, HandleType, TaskType DEF TypeInv, TypeOK

\* Type correctness of ensure_running, the sweep, the eviction and the removal:
\* every local that is read was written, every list that is walked has an
\* element left.
THEOREM TypeCorrect == LifecycleSpec => []TypeOK
<1>1. TypeInv => TypeOK
  BY DEF TypeInv
<1>. QED
  BY TypeInit, TypeStep, <1>1, PTL DEF LifecycleSpec

-----------------------------------------------------------------------------
(* Every start has an owner, and every waiter a waker *)

Coalescing == StartHasOwner /\ WaiterHasWaker

LEMMA CoalescingInit == LifecycleInit => Coalescing
BY DEF LifecycleInit, HandleInit, Coalescing, StartHasOwner, WaiterHasWaker

Waits(w) == pc[w] \in {"coalesce", "parked"}
Wakes(u) == Starting(u) \/ pc[u] = "notify"

\* Waiters stay paired if no task that is still waited for stops being a waker.
LEMMA WaitersKept ==
  ASSUME TypeInv, WaiterHasWaker,
         \A w \in Tasks : held'[w] # Nobody => held'[w] = held[w] /\ (Waits(w) => Waits(w)'),
         \A u \in Tasks : (\E w \in Tasks : held'[w] = u) /\ Wakes(u) => Wakes(u)'
  PROVE  WaiterHasWaker'
<1>. SUFFICES ASSUME NEW w \in Tasks, held'[w] # Nobody
              PROVE  Waits(w)' /\ (Starting(held[w])' \/ pc'[held'[w]] = "notify")
  BY DEF WaiterHasWaker, Waits
<1>1. held'[w] = held[w] /\ held[w] \in Tasks
  BY DEF TypeInv, TypeOK, TaskTypeOK
<1>2. Waits(w) /\ Wakes(held[w])
  BY <1>1 DEF WaiterHasWaker, Waits, Wakes
<1>3. Waits(w)'
  BY <1>1, <1>2
<1>4. PICK u \in Tasks : u = held[w] /\ u = held'[w] /\ Wakes(u)
  BY <1>1, <1>2
<1>5. Starting(u)' \/ pc'[u] = "notify"
  BY <1>4 DEF Wakes
<1>. QED
  BY <1>3, <1>4, <1>5 DEF Starting

\* A step that keeps the owner where it is, or ends the start, and moves no
\* task that is waiting, or about to signal, keeps the pairing.
LEMMA CoalescingFrame ==
  ASSUME TypeInv, Coalescing, NEW t \in Tasks,
         pc[t] \notin {"coalesce", "parked", "notify"},
         \A u \in Tasks \ {t} : pc'[u] = pc[u],
         \A u \in Tasks \ {t} : u \in building' <=> u \in building,
         Starting(t) => Starting(t)',
         held' = held,
         state' # "Starting" \/ UNCHANGED <<state, notify>>
  PROVE  Coalescing'
<1>. USE DEF Coalescing, TypeInv, TypeOK, TaskTypeOK, Starting
<1>1. StartHasOwner'
  BY LifecycleAssumption DEF StartHasOwner, Callers
<1>2. WaiterHasWaker'
  <2>1. \A u \in Tasks : Wakes(u) => Wakes(u)'
    BY DEF Wakes
  <2>2. \A w \in Tasks : Waits(w) => Waits(w)'
    BY DEF Waits
  <2>. QED
    BY <2>1, <2>2, WaitersKept
<1>. QED
  BY <1>1, <1>2

\* A step outside ensure_running that does not start the app.
LEMMA OtherStep ==
  ASSUME TypeInv, Coalescing, NEW t \in Tasks,
         pc[t] \notin StartPcs \cup {"coalesce", "parked", "notify"},
         (\E label \in Pcs : Goto(t, label)) \/ UNCHANGED pc,
         \A u \in Tasks \ {t} : u \in building' <=> u \in building,
         held' = held,
         state' # "Starting" \/ UNCHANGED <<state, notify>>
  PROVE  Coalescing'
BY CoalescingFrame DEF Goto, TypeInv, TypeOK, TaskTypeOK, Starting

LEMMA CoalescingStep == TypeInv /\ Coalescing /\ [LifecycleNext]_vars => Coalescing'
<1>. SUFFICES ASSUME TypeInv, Coalescing, [LifecycleNext]_vars
              PROVE  Coalescing'
  OBVIOUS
<1>. USE DEF StartPcs
<1>1. ASSUME UNCHANGED <<state, notify, pc, held, building>>
      PROVE  Coalescing'
  BY <1>1 DEF Coalescing, StartHasOwner, WaiterHasWaker, Starting
<1>2. ASSUME NEW t \in Callers, EnsureRunning(t)
      PROVE  Coalescing'
  <2>. t \in Tasks
    BY LifecycleAssumption DEF Callers
  <2>1. CASE StartPhase(t)
    <3>1. pc[t] \in StartPcs \ {"commit"} /\ UNCHANGED <<held, building, state, notify>>
      BY <2>1 DEF StartPhase, CurrentId, NoRollout, Allocate, Pull, StartApp, Readiness,
                  UnwindStop, UnwindRelease, Unfreeze, locals, handleVars
    <3>2. PICK label \in StartPcs \cup {"switch"} : Goto(t, label) /\ (t \notin building => label \in StartPcs)
      BY <2>1 DEF StartPhase, CurrentId, NoRollout, Allocate, Pull, StartApp, Readiness,
                  UnwindStop, UnwindRelease, Unfreeze, Finished
    <3>. QED
      BY <3>1, <3>2, CoalescingFrame DEF Goto, TypeInv, TypeOK, TaskTypeOK, Starting
  <2>2. CASE ClaimReady(t) \/ ClaimWaitForStopping(t) \/ Backoff(t)
    BY <2>2, CoalescingFrame
       DEF ClaimReady, ClaimWaitForStopping, Backoff, Goto, locals, handleVars,
           TypeInv, TypeOK, TaskTypeOK, Starting
  <2>3. CASE ClaimCoalesce(t)
    <3>. USE DEF TypeInv, TypeOK, TaskTypeOK, HandleTypeOK, Coalescing
    <3>1. notify # Nobody => notify \in Tasks /\ Starting(notify) /\ notify # t
      BY <2>3 DEF ClaimCoalesce, StartHasOwner, Starting
    <3>2. /\ held'[t] = notify /\ \A u \in Tasks \ {t} : held'[u] = held[u]
          /\ pc'[t] = "coalesce" /\ \A u \in Tasks \ {t} : pc'[u] = pc[u]
          /\ UNCHANGED <<state, notify, building>>
      BY <2>3 DEF ClaimCoalesce, Goto
    <3>3. \A u \in Tasks : Starting(u) \/ pc[u] = "notify" => u # t
      BY <2>3 DEF ClaimCoalesce, Starting
    <3>4. \A u \in Tasks \ {t} : Starting(u)' <=> Starting(u)
      BY <3>2 DEF Starting
    <3>5. StartHasOwner'
      BY <3>2, <3>3, <3>4, LifecycleAssumption DEF StartHasOwner, Callers
    <3>6. WaiterHasWaker'
      <4>. SUFFICES ASSUME NEW w \in Tasks, held'[w] # Nobody
                    PROVE  /\ pc'[w] \in {"coalesce", "parked"}
                           /\ Starting(held[w])' \/ pc'[held'[w]] = "notify"
        BY DEF WaiterHasWaker
      <4>1. CASE w = t
        <5>1. PICK u \in Tasks : u = notify /\ u = held'[w] /\ u # t /\ Starting(u)
          BY <3>1, <3>2, <4>1
        <5>2. Starting(u)'
          BY <3>4, <5>1
        <5>. QED
          BY <3>2, <4>1, <5>1, <5>2 DEF Starting
      <4>2. CASE w # t
        <5>1. PICK u \in Tasks : u = held[w] /\ u = held'[w] /\ (Starting(u) \/ pc[u] = "notify")
          BY <3>2, <4>2 DEF WaiterHasWaker
        <5>2. Starting(u)' \/ pc'[u] = "notify"
          BY <3>2, <3>3, <3>4, <5>1
        <5>. QED
          BY <3>2, <4>2, <5>1, <5>2 DEF Starting, WaiterHasWaker
      <4>. QED
        BY <4>1, <4>2
    <3>. QED
      BY <3>5, <3>6
  <2>4. CASE Claim(t)
    <3>. USE DEF TypeInv, TypeOK, TaskTypeOK, Coalescing
    <3>1. /\ pc'[t] \in StartPcs /\ \A u \in Tasks \ {t} : pc'[u] = pc[u]
          /\ pc[t] = "claim" /\ t \notin building
          /\ state' = "Starting" /\ notify' = t
          /\ UNCHANGED <<held, building>>
      BY <2>4 DEF Claim, Become, Goto, Pending, BuildPcs
    <3>2. \A u \in Tasks : Starting(u) \/ pc[u] = "notify" => Starting(u)' \/ pc'[u] = "notify"
      BY <3>1 DEF Starting
    <3>3. StartHasOwner'
      BY <3>1 DEF StartHasOwner, Starting
    <3>4. WaiterHasWaker'
      BY <3>1, <3>2, WaitersKept DEF Waits, Wakes
    <3>. QED
      BY <3>3, <3>4
  <2>5. CASE Park(t)
    <3>. USE DEF TypeInv, TypeOK, TaskTypeOK, Coalescing
    <3>1. /\ pc'[t] = "parked" /\ pc[t] = "coalesce"
          /\ \A u \in Tasks \ {t} : pc'[u] = pc[u]
          /\ UNCHANGED <<held, building, state, notify>>
      BY <2>5 DEF Park, Goto, locals, handleVars
    <3>2. \A u \in Tasks : /\ Starting(u)' <=> Starting(u)
                           /\ pc'[u] = "notify" <=> pc[u] = "notify"
      BY <3>1 DEF Starting
    <3>3. StartHasOwner'
      BY <3>1, <3>2, LifecycleAssumption DEF StartHasOwner, Callers
    <3>4. WaiterHasWaker'
      BY <3>1, <3>2, WaitersKept DEF Waits, Wakes
    <3>. QED
      BY <3>3, <3>4
  <2>6. CASE Commit(t)
    <3>. USE DEF TypeInv, TypeOK, TaskTypeOK, Coalescing
    <3>1. /\ pc[t] = "commit" /\ pc'[t] = "notify"
          /\ \A u \in Tasks \ {t} : pc'[u] = pc[u]
          /\ state' # "Starting"
          /\ UNCHANGED <<held, building>>
      BY <2>6 DEF Commit, finish_start, Become, Goto, locals
    <3>2. \A u \in Tasks : Starting(u) \/ pc[u] = "notify" => Starting(u)' \/ pc'[u] = "notify"
      BY <3>1 DEF Starting
    <3>3. WaiterHasWaker'
      BY <3>1, <3>2, WaitersKept DEF Waits, Wakes
    <3>. QED
      BY <3>1, <3>3 DEF StartHasOwner
  <2>7. CASE NotifyWaiters(t)
    <3>. USE DEF TypeInv, TypeOK, TaskTypeOK, Coalescing
    <3>1. /\ pc[t] = "notify"
          /\ \A u \in Tasks : pc'[u] = IF u = t THEN "done"
                                       ELSE IF pc[u] = "parked" /\ held[u] = t THEN "claim" ELSE pc[u]
          /\ \A u \in Tasks : held'[u] = IF held[u] = t THEN Nobody ELSE held[u]
          /\ UNCHANGED <<building, state, notify>>
      BY <2>7 DEF NotifyWaiters, Abandoned, handleVars
    <3>2. \A u \in Tasks \ {t} : /\ Starting(u) => Starting(u)'
                                 /\ pc[u] = "notify" => pc'[u] = "notify"
      BY <3>1 DEF Starting
    <3>3. ~Starting(t)
      BY <3>1 DEF Starting
    <3>4. StartHasOwner'
      BY <3>1, <3>2, <3>3, LifecycleAssumption DEF StartHasOwner, Callers
    <3>5. WaiterHasWaker'
      BY <3>1, <3>2, TasksAssumption, WaitersKept DEF Waits, Wakes
    <3>. QED
      BY <3>4, <3>5
  <2>. QED
    BY <1>2, <2>1, <2>2, <2>3, <2>4, <2>5, <2>6, <2>7 DEF EnsureRunning
<1>4. ASSUME NEW t \in Tasks, Request(t) \/ Answer(t) \/ Upgrade(t) \/ Sweep(t) \/ Evict(t) \/ Remove(t)
      PROVE  Coalescing'
  BY <1>4, OtherStep DEF Request, Answer, Upgrade, Sweep, Evict, Remove, Return, locals, handleVars,
                    Pcs, SweepPcs, StopPcs
<1>5. ASSUME NEW t \in Tasks, SweepStep(t)
      PROVE  Coalescing'
  BY <1>5, OtherStep DEF SweepStep, SweepId, SweepLiveness, SweepIdle, SweepBusy, Freeze,
                    FreezeUpgrades, FreezeSkip, FreezeApp, FreezeError, FreezeCommit,
                    Return, Become, locals, handleVars, Pcs, SweepPcs, StopPcs
<1>6. ASSUME NEW t \in Tasks, StopStep(t)
      PROVE  Coalescing'
  BY <1>6, OtherStep DEF StopStep, Stop, StopNothing, StopCommit, StopReturns, Teardown, TeardownStop,
                    TeardownRelease, Return, Become, locals, handleVars, Pcs, StopPcs
<1>7. ASSUME NEW t \in Tasks, RemoveStep(t)
      PROVE  Coalescing'
  BY <1>7, <1>6, OtherStep DEF RemoveStep, Unregister, Cleanup, Removed, Return, handleVars, Pcs, StopPcs
<1>8. ASSUME NEW t \in Cancellable, Cancel(t)
      PROVE  Coalescing'
  <2>. USE DEF TypeInv, TypeOK, TaskTypeOK, Coalescing
  <2>. t \in Tasks
    BY LifecycleAssumption
  <2>1. /\ pc[t] # "notify" /\ pc'[t] = "idle"
        /\ \A u \in Tasks \ {t} : pc'[u] = pc[u]
        /\ building' = building \ {t}
        /\ held'[t] = Nobody
        /\ \A u \in Tasks \ {t} : held'[u] = IF held[u] = t THEN Nobody ELSE held[u]
        /\ state' = state /\ notify' = IF notify = t THEN Nobody ELSE notify
    BY <1>8 DEF Cancel, Return, Goto, Abandoned, RolloutPcs
  <2>2. \A u \in Tasks \ {t} : Starting(u)' <=> Starting(u)
    BY <2>1 DEF Starting
  <2>3. StartHasOwner'
    BY <2>1, <2>2, LifecycleAssumption DEF StartHasOwner, Callers
  <2>4. WaiterHasWaker'
    BY <2>1, <2>2, TasksAssumption, WaitersKept DEF Waits, Wakes
  <2>. QED
    BY <2>3, <2>4
<1>9. CASE TimePasses \/ ContainerDies \/ UNCHANGED vars
  BY <1>1, <1>9 DEF TimePasses, ContainerDies, vars, taskVars, locals, handleVars
<1>. QED
  BY <1>2, <1>4, <1>5, <1>6, <1>7, <1>8, <1>9, LifecycleAssumption DEF LifecycleNext

\* A start is never orphaned: the state is Starting only while the caller that
\* claimed the slot works towards finish_start, unless that caller was dropped.
THEOREM StartOwned == LifecycleSpec => []StartHasOwner
<1>1. TypeInv /\ Coalescing => StartHasOwner
  BY DEF Coalescing
<1>. QED
  BY TypeInit, TypeStep, CoalescingInit, CoalescingStep, <1>1, PTL DEF LifecycleSpec

\* A waiter is never paired with a caller that will not signal it: the Notify a
\* waiter holds belongs to a start in flight, or is lost and known to be.
THEOREM WaitersPaired == LifecycleSpec => []WaiterHasWaker
<1>1. TypeInv /\ Coalescing => WaiterHasWaker
  BY DEF Coalescing
<1>. QED
  BY TypeInit, TypeStep, CoalescingInit, CoalescingStep, <1>1, PTL DEF LifecycleSpec

-----------------------------------------------------------------------------
(* Addresses *)

\* A namespace has the address its endpoint owns, unless a detach failed: what
\* makes a container that joins it reachable there and nowhere else.
NetnsOwned ==
  "detach" \notin Faults => \A s \in Slots : netns[s] # NoIP => netns[s] = endpoint[s]

AddressInv == AddressesDistinct /\ NetnsOwned

LEMMA AddressInit == LifecycleInit => AddressInv
<1>. SUFFICES ASSUME LifecycleInit PROVE AddressInv
  OBVIOUS
<1>1. \A s \in Slots : endpoint[s] = NoIP /\ netns[s] = NoIP /\ attached[s] = NoIP
  BY DEF LifecycleInit, HostInit
<1>2. NoIP \notin free
  BY IPsAssumption DEF LifecycleInit, HostInit, NoIP
<1>. QED
  BY <1>1, <1>2 DEF AddressInv, AddressesDistinct, NetnsOwned, Slots, other

\* No operation of the host gives one address away twice.
LEMMA AddressStep ==
  ASSUME HostTypeOK, AddressInv, HostStep
  PROVE  AddressInv'
<1>. USE DEF HostTypeOK, AddressInv, AddressesDistinct, NetnsOwned
<1>0. \A s \in Slots : other(s) \in Slots /\ other(s) # s /\ \A r \in Slots : r # s => r = other(s)
  BY DEF Slots, other
<1>1. CASE UNCHANGED hostVars
  BY <1>1 DEF hostVars
<1>2. ASSUME NEW s \in Slots, NEW ip \in IPs, allocate_endpoint(s, ip)
      PROVE  AddressInv'
  <2>1. ip # NoIP /\ ip \in free /\ \A r \in Slots : endpoint[r] # ip
    BY <1>2, IPsAssumption DEF allocate_endpoint, NoIP
  <2>2. /\ endpoint'[s] = ip /\ netns'[s] = ip /\ attached'[s] = NoIP
        /\ \A r \in Slots \ {s} : endpoint'[r] = endpoint[r] /\ netns'[r] = netns[r] /\ attached'[r] = attached[r]
        /\ free' = free \ {ip}
    BY <1>2 DEF allocate_endpoint
  <2>. QED
    BY <1>0, <2>1, <2>2
<1>3. ASSUME NEW s \in Slots, Detached(s), UNCHANGED <<container, image, endpoint, free>>
      PROVE  AddressInv'
  BY <1>3 DEF Detached
<1>4. ASSUME NEW s \in Slots, release_endpoint(s), endpoint[s] # NoIP
      PROVE  AddressInv'
  <2>1. /\ endpoint'[s] = NoIP /\ \A r \in Slots \ {s} : endpoint'[r] = endpoint[r]
        /\ free' = free \cup {endpoint[s]}
    BY <1>4 DEF release_endpoint
  <2>2. "detach" \notin Faults =>
          /\ netns'[s] = NoIP /\ attached'[s] = NoIP
          /\ \A r \in Slots \ {s} : netns'[r] = netns[r] /\ attached'[r] = attached[r]
    BY <1>4 DEF release_endpoint, Detached
  <2>3. NoIP \notin free
    BY IPsAssumption DEF NoIP
  <2>. QED
    BY <1>0, <2>1, <2>2, <2>3, <1>4
<1>5. ASSUME NEW s \in Slots, NEW v \in Tags \cup {NoTag}, NEW status, Launched(s, v, status)
      PROVE  AddressInv'
  BY <1>5 DEF Launched
<1>6. ASSUME NEW s \in Slots, Down(s)
      PROVE  AddressInv'
  BY <1>6 DEF Down
<1>7. ASSUME NEW s \in Slots, freeze_app(s) \/ unfreeze_app(s)
      PROVE  AddressInv'
  BY <1>7 DEF freeze_app, unfreeze_app
<1>8. ASSUME NEW s \in Slots, AllocateFails(s)
      PROVE  AddressInv'
  BY <1>8, <1>1, <1>3 DEF AllocateFails
<1>9. ASSUME NEW s \in Slots, release_endpoint(s)
      PROVE  AddressInv'
  BY <1>9, <1>1, <1>4 DEF release_endpoint
<1>10. ASSUME NEW s \in Slots, stop_app(s)
      PROVE  AddressInv'
  BY <1>10, <1>1, <1>6 DEF stop_app
<1>11. ASSUME NEW s \in Slots, NEW v \in Tags \cup {NoTag}, start_app(s, v) \/ StartAppFails(s, v)
      PROVE  AddressInv'
  BY <1>11, <1>1, <1>5, <1>6 DEF start_app, StartAppFails
<1>. QED
  BY <1>1, <1>2, <1>7, <1>8, <1>9, <1>10, <1>11 DEF HostStep

\* Two containers never share an address, and an address that is owned is
\* never in the pool, whatever order starts, failures, crashes and teardowns
\* come in.
THEOREM AddressesUnique == LifecycleSpec => []AddressesDistinct
<1>1. TypeInv /\ AddressInv /\ [LifecycleNext]_vars => AddressInv'
  BY HostCalls, AddressStep DEF TypeInv, TypeOK
<1>2. AddressInv => AddressesDistinct
  BY DEF AddressInv
<1>. QED
  BY TypeInit, TypeStep, AddressInit, <1>1, <1>2, PTL DEF LifecycleSpec

-----------------------------------------------------------------------------
(* Starts and sweeps, while nothing else stops the app *)

\* One sweep at a time (the reaper joins its tasks before the next tick), and
\* none of the operations that take the state away from a start or a freeze
\* that is under way: eviction, removal, rollout.
SweepsOnly ==
  /\ Evictors = {} /\ Removers = {} /\ Deployers = {}
  /\ \A s, u \in Sweepers : s = u

FreezePcs == {"freeze_upgrades", "freeze_id", "freeze_app", "freeze_commit"}

StartsAlone == \A t \in Tasks : Starting(t) => state = "Starting" /\ notify = t

\* What the sweep read at its start is still so at every later step of it.
SweepsAlone ==
  \A t \in Tasks :
    /\ pc[t] \in SweepPcs \cup StopPcs => t \in Sweepers
    /\ pc[t] \in SweepPcs \cup {"stop"} => state = "Running"
    /\ pc[t] \in {"teardown_stop", "teardown_release", "stop_commit"} => state = "Stopping"
    /\ pc[t] \in FreezePcs => addr[t] = container_ip
    /\ pc[t] \in {"freeze_app", "freeze_commit"} => slot[t] = current_slot
    /\ pc[t] = "freeze_commit" => container[current_slot] # "running"

SweepInv == building = {} /\ StartsAlone /\ SweepsAlone /\ FrozenIsPaused

LEMMA SweepInit == LifecycleInit => SweepInv
BY DEF LifecycleInit, HandleInit, SweepInv, StartsAlone, SweepsAlone, FrozenIsPaused, Starting,
       StartPcs, SweepPcs, StopPcs, FreezePcs

\* The machine of AppState, step by step: what each step does to state and
\* address, and that nothing a start or a sweep relies on changes under it.
LEMMA SweepStepKeeps ==
  ASSUME SweepsOnly, TypeInv, SweepInv, [LifecycleNext]_vars
  PROVE  SweepInv' /\ [Machine!Next]_<<state, container_ip>>
<1>. USE DEF SweepInv, StartsAlone, SweepsAlone, FrozenIsPaused, Starting, StartPcs, SweepPcs,
             StopPcs, FreezePcs, TypeInv, TypeOK, HandleTypeOK, TaskTypeOK, Goto, Become,
             handleVars, locals
<1>1. ASSUME UNCHANGED <<hostVars, handleVars, taskVars>>
      PROVE  SweepInv' /\ [Machine!Next]_<<state, container_ip>>
  BY <1>1 DEF hostVars, taskVars
<1>2. ASSUME NEW t \in Requests, EnsureRunning(t)
      PROVE  SweepInv' /\ [Machine!Next]_<<state, container_ip>>
  <2>. t \in Tasks
    BY LifecycleAssumption
  <2>1. CASE ClaimReady(t) \/ ClaimCoalesce(t) \/ ClaimWaitForStopping(t)
    BY <2>1 DEF ClaimReady, ClaimCoalesce, ClaimWaitForStopping, hostVars
  <2>2. CASE Claim(t)
    <3>1. SweepInv'
      BY <2>2 DEF Claim, hostVars
    <3>2. Machine!Next
      BY <2>2 DEF Claim, Machine!Next, Machine!Claim
    <3>. QED
      BY <3>1, <3>2
  <2>3. CASE Backoff(t) \/ Park(t)
    BY <2>3 DEF Backoff, Park, hostVars
  <2>4. CASE NotifyWaiters(t)
    BY <2>4 DEF NotifyWaiters, hostVars
  <2>5. CASE Commit(t)
    <3>1. state = "Starting"
      BY <2>5 DEF Commit
    <3>2. \A u \in Tasks \ {t} : ~Starting(u)
      BY <2>5 DEF Commit
    <3>3. SweepInv'
      BY <2>5, <3>1, <3>2 DEF Commit, finish_start, hostVars
    <3>4. Machine!Next
      BY <2>5, <3>1 DEF Commit, finish_start, Machine!Next, Machine!Started, Machine!StartFailed
    <3>. QED
      BY <3>3, <3>4
  <2>6. CASE StartPhase(t)
    <3>1. Starting(t) /\ pc[t] # "commit"
      BY <2>6 DEF StartPhase, CurrentId, NoRollout, Allocate, Pull, StartApp, Readiness,
                  UnwindStop, UnwindRelease, Unfreeze
    <3>2. UNCHANGED handleVars /\ building' = building
      BY <2>6 DEF StartPhase, CurrentId, NoRollout, Allocate, Pull, StartApp, Readiness,
                  UnwindStop, UnwindRelease, Unfreeze
    <3>3. \A u \in Tasks \ {t} : pc'[u] = pc[u] /\ slot'[u] = slot[u] /\ addr'[u] = addr[u]
      BY <2>6 DEF StartPhase, CurrentId, NoRollout, Allocate, Pull, StartApp, Readiness,
                  UnwindStop, UnwindRelease, Unfreeze
    <3>4. pc'[t] \in StartPcs
      BY <2>6 DEF StartPhase, CurrentId, NoRollout, Allocate, Pull, StartApp, Readiness,
                  UnwindStop, UnwindRelease, Unfreeze, Finished
    <3>. QED
      BY <3>1, <3>2, <3>3, <3>4
  <2>. QED
    BY <1>2, <2>1, <2>2, <2>3, <2>4, <2>5, <2>6 DEF EnsureRunning
<1>3. ASSUME NEW t \in Tasks, Request(t) \/ Answer(t) \/ Upgrade(t) \/ Cancel(t)
      PROVE  SweepInv' /\ [Machine!Next]_<<state, container_ip>>
  <2>1. CASE Request(t) \/ Upgrade(t)
    BY <2>1 DEF Request, Upgrade, hostVars
  <2>2. CASE Answer(t)
    BY <2>2 DEF Answer, Return, hostVars
  <2>3. CASE Cancel(t)
    BY <2>3 DEF Cancel, Return, hostVars
  <2>. QED
    BY <1>3, <2>1, <2>2, <2>3
<1>4. ASSUME NEW t \in Sweepers, Sweep(t) \/ SweepStep(t)
      PROVE  SweepInv' /\ [Machine!Next]_<<state, container_ip>>
  <2>. t \in Tasks
    BY LifecycleAssumption
  <2>0. \A u \in Tasks \ {t} : pc[u] \notin SweepPcs \cup StopPcs
    BY DEF SweepsOnly
  <2>1. CASE Sweep(t) \/ SweepId(t) \/ SweepLiveness(t) \/ SweepIdle(t) \/ Freeze(t) \/ FreezeUpgrades(t)
    BY <2>1 DEF Sweep, SweepId, SweepLiveness, SweepIdle, Freeze, FreezeUpgrades, hostVars
  <2>2. CASE SweepBusy(t) \/ FreezeSkip(t)
    BY <2>2 DEF SweepBusy, FreezeSkip, Return, hostVars
  <2>3. CASE FreezeError(t)
    BY <2>3 DEF FreezeError, FreezeAppFails, Return, hostVars
  <2>4. CASE FreezeApp(t)
    BY <2>4, <2>0 DEF FreezeApp, freeze_app, HostTypeOK
  <2>5. CASE FreezeCommit(t)
    <3>1. state = "Running" /\ addr[t] = container_ip /\ container[current_slot] # "running"
      BY <2>5 DEF FreezeCommit
    <3>2. \A u \in Tasks : ~Starting(u)
      BY <3>1
    <3>3. SweepInv'
      BY <2>0, <2>5, <3>1, <3>2 DEF FreezeCommit, Return, hostVars
    <3>4. Machine!Next
      BY <2>5, <3>1 DEF FreezeCommit, Machine!Next, Machine!Freeze
    <3>. QED
      BY <3>3, <3>4
  <2>. QED
    BY <1>4, <2>1, <2>2, <2>3, <2>4, <2>5 DEF SweepStep
<1>5. ASSUME NEW t \in Sweepers, StopStep(t)
      PROVE  SweepInv' /\ [Machine!Next]_<<state, container_ip>>
  <2>. t \in Tasks /\ t \notin Removers /\ t \notin Deployers
    BY LifecycleAssumption DEF SweepsOnly
  <2>0. \A u \in Tasks \ {t} : pc[u] \notin SweepPcs \cup StopPcs
    BY DEF SweepsOnly
  <2>1. CASE Stop(t)
    <3>1. state = "Running"
      BY <2>1 DEF Stop
    <3>2. SweepInv'
      BY <2>0, <2>1, <3>1 DEF Stop, hostVars
    <3>3. Machine!Next
      BY <2>1, <3>1 DEF Stop, Machine!Next, Machine!Stop
    <3>. QED
      BY <3>2, <3>3
  <2>2. CASE StopNothing(t)
    BY <2>2 DEF StopNothing, StopReturns, Return, hostVars
  <2>3. CASE StopCommit(t)
    <3>1. state = "Stopping"
      BY <2>3 DEF StopCommit
    <3>2. SweepInv'
      BY <2>0, <2>3, <3>1 DEF StopCommit, StopReturns, Return, hostVars
    <3>3. Machine!Next
      BY <2>3, <3>1 DEF StopCommit, Machine!Next, Machine!Stopped
    <3>. QED
      BY <3>2, <3>3
  <2>4. CASE Teardown(t)
    <3>1. state = "Stopping" /\ UNCHANGED <<handleVars, slot, addr, building>>
      BY <2>4 DEF Teardown, TeardownStop, TeardownRelease
    <3>2. /\ pc'[t] \in {"teardown_stop", "teardown_release", "stop_commit"}
          /\ \A u \in Tasks \ {t} : pc'[u] = pc[u]
      BY <2>4 DEF Teardown, TeardownStop, TeardownRelease
    <3>. QED
      BY <2>0, <3>1, <3>2
  <2>. QED
    BY <1>5, <2>1, <2>2, <2>3, <2>4 DEF StopStep
<1>6. CASE TimePasses
  BY <1>6 DEF TimePasses, hostVars, taskVars
<1>7. CASE ContainerDies
  BY <1>7 DEF ContainerDies, Crash, Down, taskVars, HostTypeOK
<1>. QED
  BY <1>1, <1>2, <1>3, <1>4, <1>5, <1>6, <1>7, LifecycleAssumption
     DEF LifecycleNext, Callers, vars, SweepsOnly

\* Coalescing works: however requests, freezes, failures, crashes and dropped
\* clients interleave with the sweep, there is one start or resume at a time,
\* and the state names it.
THEOREM StartsSingle ==
  ASSUME SweepsOnly
  PROVE  LifecycleSpec => []SingleStart
<1>1. SweepInv => SingleStart
  BY LifecycleAssumption DEF SweepInv, StartsAlone, SingleStart, Callers
<1>2. TypeInv /\ SweepInv /\ [LifecycleNext]_vars => SweepInv'
  BY SweepStepKeeps
<1>. QED
  BY TypeInit, TypeStep, SweepInit, <1>1, <1>2, PTL DEF LifecycleSpec

\* An app that is Frozen has no running container: neither a resume that races
\* with the freeze nor one that fails leaves it running behind the state.
THEOREM FrozenPaused ==
  ASSUME SweepsOnly
  PROVE  LifecycleSpec => []FrozenIsPaused
<1>1. SweepInv => FrozenIsPaused
  BY DEF SweepInv
<1>2. TypeInv /\ SweepInv /\ [LifecycleNext]_vars => SweepInv'
  BY SweepStepKeeps
<1>. QED
  BY TypeInit, TypeStep, SweepInit, <1>1, <1>2, PTL DEF LifecycleSpec

\* The steps of ensure_running, the sweep, freeze and stop refine the machine
\* AppState stands for, address included.
THEOREM LifecycleImplements ==
  ASSUME SweepsOnly
  PROVE  LifecycleSpec => ImplementsAppState
<1>1. LifecycleInit => Machine!Init
  BY DEF LifecycleInit, HandleInit, Machine!Init
<1>2. TypeInv /\ SweepInv /\ [LifecycleNext]_vars =>
        SweepInv' /\ [Machine!Next]_(Machine!AppState)
  BY SweepStepKeeps DEF Machine!AppState
<1>. QED
  BY TypeInit, TypeStep, SweepInit, <1>1, <1>2, PTL
     DEF LifecycleSpec, ImplementsAppState, Machine!Spec

=============================================================================
