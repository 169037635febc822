------------------------------ MODULE Lifecycle ------------------------------
(***************************************************************************)
(* The lifecycle of one app (ops/lifecycle.rs, ops/loops.rs): requests     *)
(* that cold-start or resume it, the sweep that detects a dead container   *)
(* and freezes an idle app, the memory-pressure eviction.  A task is a     *)
(* tokio task inside one of these operations; a step is what it does       *)
(* between two awaits or, on the multi-threaded runtime, between two       *)
(* accesses to shared state: one section under the handle's mutex, or one  *)
(* call of the runtime or the egress layer.                                *)
(***************************************************************************)
EXTENDS AppHandle

CONSTANTS
  Requests,     \* router requests: UpstreamResolver::resolve, then the proxying
  Sweepers,     \* sweep_one of the running sweep (one: a sweep joins its tasks)
  Evictors,     \* memory_pressure_loop
  Removers,     \* remove_app
  Deployers,    \* set_rollout; their own steps are in Rollover
  Cancellable,  \* the callers whose client may hang up or time out
  Upgradable,   \* the requests that may upgrade to a WebSocket
  IdleTimeout   \* scaling.idle_timeout is set: not an always-on app

ASSUME LifecycleAssumption ==
  /\ Tasks = Requests \cup Sweepers \cup Evictors \cup Removers \cup Deployers
  /\ Cancellable \subseteq Requests \cup Deployers
  /\ Upgradable \subseteq Requests
  /\ Requests \cap Deployers = {}
  /\ IdleTimeout \in BOOLEAN

VARIABLES
  pc,       \* where each task is
  slot,     \* the slot it works on: its container_id
  addr,     \* the address it holds; as a result, NoIP is Err
  tag,      \* the tag it deploys or starts
  held,     \* whose Notify it waits for
  work,     \* the slots it still has to tear down
  live_ids, \* the slots whose on-disk state it still has to reclaim
  building, \* the tasks inside build_to_slot: they start the opposite slot
  registered  \* the registry's maps hold the handle

locals == <<slot, addr, tag, held, work, live_ids, building, registered>>
taskVars == <<pc, locals>>

vars == <<hostVars, handleVars, taskVars>>

Callers == Requests \cup Deployers

\* From the claim of the Starting slot to the commit of its result.
StartPcs == {"current_id", "allocate", "pull", "start_app", "readiness",
             "unwind_stop", "unwind_release", "resume_id", "unfreeze", "commit"}

SweepPcs == {"sweep_id", "sweep_liveness", "sweep_idle",
             "freeze", "freeze_upgrades", "freeze_id", "freeze_app", "freeze_commit"}

StopPcs == {"stop", "teardown_stop", "teardown_release", "stop_commit",
            "unregister", "cleanup"}

RolloutPcs == {"roll_pull", "roll_record", "thaw", "thaw_id", "thaw_app",
               "thaw_commit", "enter", "rollover", "switch", "drain"}

Pcs == {"idle", "claim", "coalesce", "parked", "backoff", "notify", "done", "upgraded"}
         \cup StartPcs \cup SweepPcs \cup StopPcs \cup RolloutPcs

Starting(t) == pc[t] \in StartPcs /\ t \notin building

active_upgrades == {t \in Upgradable : pc[t] = "upgraded"}

Goto(t, label) == pc' = [pc EXCEPT ![t] = label]

\* The operation returned: its locals are gone.
Return(t) ==
  /\ Goto(t, "idle")
  /\ slot' = [slot EXCEPT ![t] = "a"]
  /\ addr' = [addr EXCEPT ![t] = NoIP]
  /\ tag' = [tag EXCEPT ![t] = NoTag]
  /\ work' = [work EXCEPT ![t] = <<>>]
  /\ live_ids' = [live_ids EXCEPT ![t] = <<>>]
  /\ building' = building \ {t}

-----------------------------------------------------------------------------
(* ensure_running *)

\* resolve has found the handle.
Request(t) ==
  /\ pc[t] = "idle"
  /\ registered
  /\ Goto(t, "claim")
  /\ UNCHANGED <<hostVars, handleVars, locals>>

\* claim_start_slot, one action per StartClaim.
ClaimReady(t) ==
  /\ pc[t] = "claim"
  /\ state \in {"Running", "RollingOver"}
  /\ recent' = TRUE
  /\ addr' = [addr EXCEPT ![t] = container_ip]
  /\ Goto(t, "done")
  /\ UNCHANGED <<hostVars, state, container_ip, notify, current_slot, rollouts,
                 slot, tag, held, work, live_ids, building, registered>>

ClaimCoalesce(t) ==
  /\ pc[t] = "claim"
  /\ state = "Starting"
  /\ recent' = TRUE
  /\ held' = [held EXCEPT ![t] = notify]
  /\ Goto(t, "coalesce")
  /\ UNCHANGED <<hostVars, state, container_ip, notify, current_slot, rollouts,
                 slot, addr, tag, work, live_ids, building, registered>>

ClaimWaitForStopping(t) ==
  /\ pc[t] = "claim"
  /\ state = "Stopping"
  /\ recent' = TRUE
  /\ Goto(t, "backoff")
  /\ UNCHANGED <<hostVars, state, container_ip, notify, current_slot, rollouts,
                 locals>>

\* Mutant: Starting does not keep other callers out.
Claim_again(t) ==
  /\ pc[t] = "claim"
  /\ state \in {"Stopped", "Starting"}
  /\ recent' = TRUE
  /\ addr' = [addr EXCEPT ![t] = container_ip]
  /\ Become("Starting", NoIP, t)
  /\ Goto(t, "current_id")
  /\ UNCHANGED <<hostVars, current_slot, rollouts, slot, tag, held, work, live_ids, building, registered>>

\* resume_from is None for a stopped app, its address for a frozen one.
Claim(t) ==
  /\ pc[t] = "claim"
  /\ state \in {"Stopped", "Frozen"}
  /\ recent' = TRUE
  /\ addr' = [addr EXCEPT ![t] = container_ip]
  /\ Become("Starting", NoIP, t)
  /\ Goto(t, IF state = "Stopped" THEN "current_id" ELSE "resume_id")
  /\ UNCHANGED <<hostVars, current_slot, rollouts, slot, tag, held, work, live_ids, building, registered>>

Backoff(t) ==
  /\ pc[t] = "backoff"
  /\ Goto(t, "claim")
  /\ UNCHANGED <<hostVars, handleVars, locals>>

\* notified() registers the waiter; the mutex was released before.
Park(t) ==
  /\ pc[t] = "coalesce"
  /\ Goto(t, "parked")
  /\ UNCHANGED <<hostVars, handleVars, locals>>

\* Mutant: the result is committed and nobody woken.
Commit_silent(t) ==
  /\ pc[t] = "commit"
  /\ finish_start(addr[t])
  /\ Goto(t, "done")
  /\ UNCHANGED <<hostVars, current_slot, rollouts, recent, locals>>

Commit(t) ==
  /\ pc[t] = "commit"
  /\ finish_start(addr[t])
  /\ Goto(t, "notify")
  /\ UNCHANGED <<hostVars, current_slot, rollouts, recent,
                 locals>>

\* The Notify of t will not be signalled (again).
Abandoned(t) == [w \in Tasks |-> IF held[w] = t THEN Nobody ELSE held[w]]

\* notify_waiters wakes the registered waiters and stores no permit.
NotifyWaiters(t) ==
  /\ pc[t] = "notify"
  /\ pc' = [w \in Tasks |-> IF w = t THEN "done"
                            ELSE IF pc[w] = "parked" /\ held[w] = t THEN "claim"
                            ELSE pc[w]]
  /\ held' = Abandoned(t)
  /\ UNCHANGED <<hostVars, handleVars, slot, addr, tag, work, live_ids, building, registered>>

-----------------------------------------------------------------------------
(* do_start, do_resume and the phases they share with build_to_slot *)

\* Where a finished start goes: the caller of do_start, or the switch of the
\* rollover that runs build_to_slot.
Finished(t) == IF t \in building THEN "switch" ELSE "commit"

CurrentId(t) ==
  /\ pc[t] \in {"current_id", "resume_id"}
  /\ slot' = [slot EXCEPT ![t] = current_slot]
  /\ Goto(t, IF pc[t] = "current_id" THEN "allocate" ELSE "unfreeze")
  /\ UNCHANGED <<hostVars, handleVars, addr, tag, held, work, live_ids, building, registered>>

\* resolve_image_ref: an app without a rollout has no tag to start.
NoRollout(t) ==
  /\ pc[t] = "allocate"
  /\ rollouts = <<>>
  /\ Goto(t, Finished(t))
  /\ UNCHANGED <<hostVars, handleVars, locals>>

Allocate(t) ==
  /\ pc[t] = "allocate"
  /\ rollouts # <<>>
  /\ \/ \E ip \in IPs :
          /\ allocate_endpoint(slot[t], ip)
          /\ addr' = [addr EXCEPT ![t] = ip]
          /\ Goto(t, "pull")
     \/ /\ AllocateFails(slot[t])
        /\ Goto(t, Finished(t))
        /\ UNCHANGED addr
  /\ UNCHANGED <<handleVars, slot, tag, held, work, live_ids, building, registered>>

\* Mutant: the front of the history is taken for the current rollout.
Pull_oldest(t) ==
  /\ pc[t] = "pull"
  /\ tag' = [tag EXCEPT ![t] = rollouts[1]]
  /\ Goto(t, "start_app")
  /\ UNCHANGED <<hostVars, handleVars, slot, addr, held, work, live_ids, building, registered>>

\* The cached digest is the one of the current rollout.
Pull(t) ==
  /\ pc[t] = "pull"
  /\ \/ /\ tag' = [tag EXCEPT ![t] = rollouts[Len(rollouts)]]
        /\ Goto(t, "start_app")
     \/ /\ "pull" \in Faults
        /\ Goto(t, "unwind_release")
        /\ UNCHANGED tag
  /\ UNCHANGED <<hostVars, handleVars, slot, addr, held, work, live_ids, building, registered>>

\* Mutant: a container that does not launch keeps its endpoint.
StartApp_leaks(t) ==
  /\ pc[t] = "start_app"
  /\ \/ start_app(slot[t], tag[t]) /\ Goto(t, "readiness") /\ UNCHANGED addr
     \/ StartAppFails(slot[t], tag[t]) /\ Goto(t, Finished(t)) /\ addr' = [addr EXCEPT ![t] = NoIP]
  /\ UNCHANGED <<handleVars, slot, tag, held, work, live_ids, building, registered>>

StartApp(t) ==
  /\ pc[t] = "start_app"
  /\ \/ start_app(slot[t], tag[t]) /\ Goto(t, "readiness")
     \/ StartAppFails(slot[t], tag[t]) /\ Goto(t, "unwind_release")
  /\ UNCHANGED <<handleVars, locals>>

Readiness(t) ==
  /\ pc[t] = "readiness"
  /\ \/ Reachable(addr[t]) /\ Goto(t, Finished(t))
     \/ /\ ~Reachable(addr[t]) \/ "readiness" \in Faults
        /\ Goto(t, "unwind_stop")
  /\ UNCHANGED <<hostVars, handleVars, locals>>

UnwindStop(t) ==
  /\ pc[t] = "unwind_stop"
  /\ stop_app(slot[t])
  /\ Goto(t, "unwind_release")
  /\ UNCHANGED <<handleVars, locals>>

\* Mutant: the error returns past finish_start.
UnwindRelease_returns(t) ==
  /\ pc[t] = "unwind_release"
  /\ release_endpoint(slot[t])
  /\ addr' = [addr EXCEPT ![t] = NoIP]
  /\ Goto(t, "done")
  /\ UNCHANGED <<handleVars, slot, tag, held, work, live_ids, building, registered>>

UnwindRelease(t) ==
  /\ pc[t] = "unwind_release"
  /\ release_endpoint(slot[t])
  /\ addr' = [addr EXCEPT ![t] = NoIP]
  /\ Goto(t, Finished(t))
  /\ UNCHANGED <<handleVars, slot, tag, held, work, live_ids, building, registered>>

\* A resume that fails takes nothing down.
Unfreeze(t) ==
  /\ pc[t] = "unfreeze"
  /\ \/ unfreeze_app(slot[t]) /\ UNCHANGED addr
     \/ UnfreezeAppFails(slot[t]) /\ addr' = [addr EXCEPT ![t] = NoIP]
  /\ Goto(t, "commit")
  /\ UNCHANGED <<handleVars, slot, tag, held, work, live_ids, building, registered>>

-----------------------------------------------------------------------------
(* The request around ensure_running *)

Answer(t) ==
  /\ pc[t] \in {"done", "upgraded"}
  /\ Return(t)
  /\ UNCHANGED <<hostVars, handleVars, held, registered>>

\* The upstream answers 101: the connection is spliced and counted.
Upgrade(t) ==
  /\ pc[t] = "done"
  /\ Reachable(addr[t])
  /\ Goto(t, "upgraded")
  /\ UNCHANGED <<hostVars, handleVars, locals>>

\* The future is dropped at an await: nothing it did is undone, and its
\* Notify, if it owned one, has lost the only task that would signal it.
Cancel(t) ==
  /\ pc[t] \in {"claim", "parked", "backoff", "teardown_stop", "teardown_release"}
                 \cup StartPcs \cup RolloutPcs
  /\ Return(t)
  /\ held' = [Abandoned(t) EXCEPT ![t] = Nobody]
  /\ notify' = IF notify = t THEN Nobody ELSE notify
  /\ UNCHANGED <<hostVars, state, container_ip, current_slot, rollouts, recent, registered>>

-----------------------------------------------------------------------------
(* sweep_one and freeze *)

Sweep(t) ==
  /\ pc[t] = "idle"
  /\ registered
  /\ state = "Running"
  /\ Goto(t, "sweep_id")
  /\ UNCHANGED <<hostVars, handleVars, locals>>

SweepId(t) ==
  /\ pc[t] \in {"sweep_id", "freeze_id"}
  /\ slot' = [slot EXCEPT ![t] = current_slot]
  /\ Goto(t, IF pc[t] = "sweep_id" THEN "sweep_liveness" ELSE "freeze_app")
  /\ UNCHANGED <<hostVars, handleVars, addr, tag, held, work, live_ids, building, registered>>

\* Mutant: the answer of the liveness check is dropped.
SweepLiveness_ignored(t) ==
  /\ pc[t] = "sweep_liveness"
  /\ Goto(t, "sweep_idle")
  /\ UNCHANGED <<hostVars, handleVars, locals>>

SweepLiveness(t) ==
  /\ pc[t] = "sweep_liveness"
  /\ Goto(t, IF is_container_running(slot[t]) THEN "sweep_idle" ELSE "stop")
  /\ UNCHANGED <<hostVars, handleVars, locals>>

SweepIdle(t) ==
  /\ pc[t] = "sweep_idle"
  /\ ~recent /\ IdleTimeout
  /\ Goto(t, "freeze")
  /\ UNCHANGED <<hostVars, handleVars, locals>>

SweepBusy(t) ==
  /\ pc[t] = "sweep_idle"
  /\ recent \/ ~IdleTimeout
  /\ Return(t)
  /\ UNCHANGED <<hostVars, handleVars, held, registered>>

Freeze(t) ==
  /\ pc[t] = "freeze"
  /\ state = "Running"
  /\ addr' = [addr EXCEPT ![t] = container_ip]
  /\ Goto(t, "freeze_upgrades")
  /\ UNCHANGED <<hostVars, handleVars, slot, tag, held, work, live_ids, building, registered>>

FreezeUpgrades(t) ==
  /\ pc[t] = "freeze_upgrades"
  /\ active_upgrades = {}
  /\ Goto(t, "freeze_id")
  /\ UNCHANGED <<hostVars, handleVars, locals>>

FreezeSkip(t) ==
  /\ \/ pc[t] = "freeze" /\ state # "Running"
     \/ pc[t] = "freeze_upgrades" /\ active_upgrades # {}
  /\ Return(t)
  /\ UNCHANGED <<hostVars, handleVars, held, registered>>

FreezeApp(t) ==
  /\ pc[t] = "freeze_app"
  /\ freeze_app(slot[t])
  /\ Goto(t, "freeze_commit")
  /\ UNCHANGED <<handleVars, locals>>

\* Mutant: the freezer's error is logged and the state set all the same.
FreezeError_ignored(t) ==
  /\ pc[t] = "freeze_app"
  /\ FreezeAppFails(slot[t])
  /\ Goto(t, "freeze_commit")
  /\ UNCHANGED <<handleVars, locals>>

FreezeError(t) ==
  /\ pc[t] = "freeze_app"
  /\ FreezeAppFails(slot[t])
  /\ Return(t)
  /\ UNCHANGED <<handleVars, held, registered>>

\* Mutant: the frozen app forgets its address.
FreezeCommit_forgets(t) ==
  /\ pc[t] = "freeze_commit"
  /\ Become("Frozen", NoIP, Nobody)
  /\ Return(t)
  /\ UNCHANGED <<hostVars, current_slot, rollouts, recent, held, registered>>

\* The state is not looked at again.
FreezeCommit(t) ==
  /\ pc[t] = "freeze_commit"
  /\ Become("Frozen", addr[t], Nobody)
  /\ Return(t)
  /\ UNCHANGED <<hostVars, current_slot, rollouts, recent, held, registered>>

-----------------------------------------------------------------------------
(* evict_lru_frozen, stop and teardown_containers *)

Evict(t) ==
  /\ pc[t] = "idle"
  /\ registered
  /\ state = "Frozen"
  /\ Goto(t, "stop")
  /\ UNCHANGED <<hostVars, handleVars, locals>>

Stop(t) ==
  /\ pc[t] = "stop"
  /\ needs_teardown
  /\ work' = [work EXCEPT ![t] = live_container_ids]
  /\ Become("Stopping", NoIP, Nobody)
  /\ Goto(t, "teardown_stop")
  /\ UNCHANGED <<hostVars, current_slot, rollouts, recent, slot, addr, tag, held, live_ids, building, registered>>

\* stop returns: to do_remove, or from the whole operation.
StopReturns(t) ==
  IF t \in Removers
  THEN Goto(t, "cleanup") /\ UNCHANGED <<slot, addr, tag, work, live_ids, building>>
  ELSE Return(t)

StopNothing(t) ==
  /\ pc[t] = "stop"
  /\ ~needs_teardown
  /\ StopReturns(t)
  /\ UNCHANGED <<hostVars, handleVars, held, registered>>

TeardownStop(t) ==
  /\ pc[t] = "teardown_stop"
  /\ stop_app(Head(work[t]))
  /\ Goto(t, "teardown_release")
  /\ UNCHANGED <<handleVars, locals>>

\* After the last slot: the caller of teardown_containers, which is stop
\* or the end of a rollover.
TeardownRelease(t) ==
  /\ pc[t] = "teardown_release"
  /\ release_endpoint(Head(work[t]))
  /\ work' = [work EXCEPT ![t] = Tail(@)]
  /\ Goto(t, IF Len(work[t]) > 1 THEN "teardown_stop"
             ELSE IF t \in Deployers THEN "done" ELSE "stop_commit")
  /\ UNCHANGED <<handleVars, slot, addr, tag, held, live_ids, building, registered>>

\* The state is not looked at again.
StopCommit(t) ==
  /\ pc[t] = "stop_commit"
  /\ Become("Stopped", NoIP, Nobody)
  /\ StopReturns(t)
  /\ UNCHANGED <<hostVars, current_slot, rollouts, recent, held, registered>>

-----------------------------------------------------------------------------
(* do_remove *)

Remove(t) ==
  /\ pc[t] = "idle"
  /\ registered
  /\ live_ids' = [live_ids EXCEPT ![t] = live_container_ids]
  /\ Goto(t, "unregister")
  /\ UNCHANGED <<hostVars, handleVars, slot, addr, tag, held, work, building, registered>>

Unregister(t) ==
  /\ pc[t] = "unregister"
  /\ registered' = FALSE
  /\ Goto(t, "stop")
  /\ UNCHANGED <<hostVars, handleVars, slot, addr, tag, held, work, live_ids, building>>

\* cleanup_container removes the state directory even if the delete fails.
Cleanup(t) ==
  /\ pc[t] = "cleanup"
  /\ live_ids[t] # <<>>
  /\ Down(Head(live_ids[t]))
  /\ live_ids' = [live_ids EXCEPT ![t] = Tail(@)]
  /\ UNCHANGED <<handleVars, pc, slot, addr, tag, held, work, building, registered>>

Removed(t) ==
  /\ pc[t] = "cleanup"
  /\ live_ids[t] = <<>>
  /\ Return(t)
  /\ UNCHANGED <<hostVars, handleVars, held, registered>>

-----------------------------------------------------------------------------
(* Time and the kernel *)

\* idle_timeout has gone by since the last request.
TimePasses ==
  /\ IdleTimeout
  /\ recent
  /\ recent' = FALSE
  /\ UNCHANGED <<hostVars, state, container_ip, notify, current_slot, rollouts, taskVars>>

ContainerDies ==
  /\ \E s \in Slots : Crash(s)
  /\ UNCHANGED <<handleVars, taskVars>>

-----------------------------------------------------------------------------

StartPhase(t) ==
  \/ CurrentId(t) \/ NoRollout(t) \/ Allocate(t) \/ Pull(t) \/ StartApp(t)
  \/ Readiness(t) \/ UnwindStop(t) \/ UnwindRelease(t) \/ Unfreeze(t)

EnsureRunning(t) ==
  \/ ClaimReady(t) \/ ClaimCoalesce(t) \/ ClaimWaitForStopping(t) \/ Claim(t)
  \/ Backoff(t) \/ Park(t) \/ StartPhase(t) \/ Commit(t) \/ NotifyWaiters(t)

SweepStep(t) ==
  \/ SweepId(t) \/ SweepLiveness(t) \/ SweepIdle(t) \/ SweepBusy(t)
  \/ Freeze(t) \/ FreezeUpgrades(t) \/ FreezeSkip(t)
  \/ FreezeApp(t) \/ FreezeError(t) \/ FreezeCommit(t)

Teardown(t) == TeardownStop(t) \/ TeardownRelease(t)

StopStep(t) == Stop(t) \/ StopNothing(t) \/ Teardown(t) \/ StopCommit(t)

RemoveStep(t) == Unregister(t) \/ StopStep(t) \/ Cleanup(t) \/ Removed(t)

LifecycleInit ==
  /\ HostInit
  /\ HandleInit
  /\ pc = [t \in Tasks |-> "idle"]
  /\ slot = [t \in Tasks |-> "a"]
  /\ addr = [t \in Tasks |-> NoIP]
  /\ tag = [t \in Tasks |-> NoTag]
  /\ held = [t \in Tasks |-> Nobody]
  /\ work = [t \in Tasks |-> <<>>]
  /\ live_ids = [t \in Tasks |-> <<>>]
  /\ building = {}
  /\ registered = TRUE

LifecycleNext ==
  \/ \E t \in Requests : Request(t) \/ Answer(t)
  \/ \E t \in Callers : EnsureRunning(t)
  \/ \E t \in Upgradable : Upgrade(t)
  \/ \E t \in Cancellable : Cancel(t)
  \/ \E t \in Sweepers : Sweep(t) \/ SweepStep(t)
  \/ \E t \in Evictors : Evict(t)
  \/ \E t \in Sweepers \cup Evictors : StopStep(t)
  \/ \E t \in Removers : Remove(t) \/ RemoveStep(t)
  \/ TimePasses
  \/ ContainerDies

LifecycleSpec == LifecycleInit /\ [][LifecycleNext]_vars

\* tokio runs every task that is ready, the calls of the runtime and the
\* egress layer and the readiness probe return, a response or a splice ends
\* (REQUEST_TIMEOUT, the splice's idle timeout), the sweep ticks.  Nothing is
\* assumed of clients, crashes, memory pressure or the idle clock.
LifecycleFairness ==
  /\ \A t \in Callers : WF_vars(EnsureRunning(t))
  /\ \A t \in Requests : WF_vars(Answer(t))
  /\ \A t \in Sweepers : WF_vars(Sweep(t) \/ SweepStep(t) \/ StopStep(t))
  /\ \A t \in Evictors : WF_vars(StopStep(t))
  /\ \A t \in Removers : WF_vars(RemoveStep(t))

FairLifecycleSpec == LifecycleSpec /\ LifecycleFairness

-----------------------------------------------------------------------------
(* Properties *)

Machine == INSTANCE AppStateMachine
             WITH Addresses <- IPs, None <- NoIP, ip <- container_ip

\* The operations take the app through the transitions of AppState and no
\* others, address included: freezing, thawing and rolling back keep it, a
\* switch changes it, a start gives it a new one.
ImplementsAppState == Machine!Spec

TaskTypeOK ==
  /\ pc \in [Tasks -> Pcs]
  /\ slot \in [Tasks -> Slots]
  /\ addr \in [Tasks -> IPs \cup {NoIP}]
  /\ tag \in [Tasks -> Tags \cup {NoTag}]
  /\ held \in [Tasks -> Tasks \cup {Nobody}]
  /\ work \in [Tasks -> Seq(Slots)]
  /\ live_ids \in [Tasks -> Seq(Slots)]
  /\ building \subseteq Tasks
  /\ registered \in BOOLEAN

\* Type correctness of the host, the handle and the tasks.
TypeOK == HostTypeOK /\ HandleTypeOK /\ TaskTypeOK

\* Whenever the app is Starting, the caller that claimed the slot is still on
\* its way to finish_start, however often the state was overwritten in between;
\* only a caller that was dropped leaves a start nobody finishes.
StartHasOwner ==
  state = "Starting" =>
    \/ notify \in Callers /\ Starting(notify)
    \/ notify = Nobody /\ Cancellable # {}

\* A waiter of ensure_running holds the Notify of a caller that has yet to
\* signal it, unless that Notify was signalled before the waiter registered
\* or its caller was dropped.
WaiterHasWaker ==
  \A w \in Tasks : held[w] # Nobody =>
    /\ pc[w] \in {"coalesce", "parked"}
    /\ Starting(held[w]) \/ pc[held[w]] = "notify"

\* No two containers of the app own one address, and no address is owned and
\* free at once, so the next allocation cannot give it to another container.
AddressesDistinct ==
  /\ \A s \in Slots : endpoint[s] \notin free
  /\ \A s \in Slots : endpoint[s] = endpoint[other(s)] => endpoint[s] = NoIP
  /\ "detach" \notin Faults =>
       \A s \in Slots : attached[s] # NoIP => attached[s] = endpoint[s]

\* ensure_running coalesces: while a start or a resume is in flight the state
\* says so and belongs to it, so no second one runs next to it.
SingleStart == \A t \in Callers : Starting(t) => state = "Starting" /\ notify = t

\* A frozen app has no running container: what the next request resumes is
\* paused, or it died.
FrozenIsPaused == state = "Frozen" => container[current_slot] # "running"

\* A stopped app holds no address, and live_container_ids, which names no
\* slot of it, forgets at most the container that a launch which failed after
\* build() left in the current slot (do_start stops nothing then), cut off
\* from the network; the other slot is empty.
StoppedHoldsNothing ==
  state = "Stopped" =>
    /\ \A s \in Slots : endpoint[s] = NoIP
    /\ "detach" \notin Faults => \A s \in Slots : attached[s] = NoIP
    /\ container[other(current_slot)] = "down"
    /\ "launch" \notin Faults => container[current_slot] = "down"

\* Every address that left the pool belongs to an endpoint, so it comes back.
NoAddressLeak == IPs \ free = {endpoint[s] : s \in Slots} \ {NoIP}

\* A start is over some day, with success or failure.
StartResolves == state = "Starting" ~> state # "Starting"

\* A waiter whose Notify is still to be signalled is woken.
WaitersWake ==
  \A w \in Callers : (pc[w] = "parked" /\ held[w] # Nobody) ~> pc[w] # "parked"

\* The sweep notices a container that died under a running app.
DeathNoticed ==
  (state = "Running" /\ ~is_container_running(current_slot)) ~>
    (state # "Running" \/ is_container_running(current_slot))

=============================================================================
