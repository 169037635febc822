------------------------------- MODULE Rollover -------------------------------
(***************************************************************************)
(* set_rollout (ops/rollout.rs): pull and record a tag, then bring the app *)
(* to it, by a cold start if nothing runs, else blue-green: build the      *)
(* opposite slot, switch, drain, tear the old slot down.  It runs next to  *)
(* the operations of Lifecycle, whose start phases build_to_slot shares.   *)
(***************************************************************************)
EXTENDS Lifecycle

VARIABLE from_ip  \* from_ip[t]: the address of the old slot, RolloverEntry's payload

rolloverVars == <<vars, from_ip>>

-----------------------------------------------------------------------------
(* set_rollout up to the state transition *)

\* The pre-flight check; a busy app is a Conflict and nothing happens.
SetRollout(t, v) ==
  /\ pc[t] = "idle"
  /\ registered
  /\ ~is_busy
  /\ tag' = [tag EXCEPT ![t] = v]
  /\ Goto(t, "roll_pull")
  /\ UNCHANGED <<hostVars, handleVars, slot, addr, held, work, live_ids, building, registered, from_ip>>

PullForRollout(t) ==
  /\ pc[t] = "roll_pull"
  /\ \/ Goto(t, "roll_record") /\ UNCHANGED locals
     \/ /\ "pull" \in Faults
        /\ Return(t)
        /\ UNCHANGED <<held, registered>>
  /\ UNCHANGED <<hostVars, handleVars, from_ip>>

\* The history and the digest cache, in one section.
RecordRollout(t) ==
  /\ pc[t] = "roll_record"
  /\ record_rollout(tag[t])
  /\ Goto(t, "thaw")
  /\ UNCHANGED <<hostVars, state, container_ip, notify, current_slot, recent, locals, from_ip>>

-----------------------------------------------------------------------------
(* enter_rolling_over *)

NeedsThaw(t) ==
  /\ pc[t] = "thaw"
  /\ Goto(t, IF state = "Frozen" THEN "thaw_id" ELSE "enter")
  /\ UNCHANGED <<hostVars, handleVars, locals, from_ip>>

ThawId(t) ==
  /\ pc[t] = "thaw_id"
  /\ slot' = [slot EXCEPT ![t] = current_slot]
  /\ Goto(t, "thaw_app")
  /\ UNCHANGED <<hostVars, handleVars, addr, tag, held, work, live_ids, building, registered, from_ip>>

ThawApp(t) ==
  /\ pc[t] = "thaw_app"
  /\ \/ unfreeze_app(slot[t]) /\ Goto(t, "thaw_commit") /\ UNCHANGED locals
     \/ UnfreezeAppFails(slot[t]) /\ Return(t) /\ UNCHANGED <<held, registered>>
  /\ UNCHANGED <<handleVars, from_ip>>

ThawCommit(t) ==
  /\ pc[t] = "thaw_commit"
  /\ IF state = "Frozen"
     THEN Become("Running", container_ip, Nobody)
     ELSE UNCHANGED <<state, container_ip, notify>>
  /\ Goto(t, "enter")
  /\ UNCHANGED <<hostVars, current_slot, rollouts, recent, locals, from_ip>>

EnterColdStart(t) ==
  /\ pc[t] = "enter"
  /\ state = "Stopped"
  /\ Goto(t, "claim")
  /\ UNCHANGED <<hostVars, handleVars, locals, from_ip>>

\* Mutant: RollingOver is no conflict.
EnterBlueGreen_again(t) ==
  /\ pc[t] = "enter"
  /\ state \in {"Running", "RollingOver"}
  /\ Become("RollingOver", container_ip, Nobody)
  /\ from_ip' = [from_ip EXCEPT ![t] = container_ip]
  /\ Goto(t, "rollover")
  /\ UNCHANGED <<hostVars, current_slot, rollouts, recent, locals>>

EnterBlueGreen(t) ==
  /\ pc[t] = "enter"
  /\ state = "Running"
  /\ Become("RollingOver", container_ip, Nobody)
  /\ from_ip' = [from_ip EXCEPT ![t] = container_ip]
  /\ Goto(t, "rollover")
  /\ UNCHANGED <<hostVars, current_slot, rollouts, recent, locals>>

\* The state drifted across the pull or the thaw; the tag stays recorded.
EnterConflict(t) ==
  /\ pc[t] = "enter"
  /\ state \notin {"Stopped", "Running"}
  /\ Return(t)
  /\ UNCHANGED <<hostVars, handleVars, held, registered, from_ip>>

-----------------------------------------------------------------------------
(* do_blue_green *)

\* to_slot; from here to "switch" t is in build_to_slot.
BuildToSlot(t) ==
  /\ pc[t] = "rollover"
  /\ slot' = [slot EXCEPT ![t] = other(current_slot)]
  /\ building' = building \cup {t}
  /\ Goto(t, "allocate")
  /\ UNCHANGED <<hostVars, handleVars, addr, tag, held, work, live_ids, registered, from_ip>>

\* build_to_slot is over and its result is in addr.
Built(t) ==
  /\ pc[t] = "switch"
  /\ building' = building \ {t}

SwitchOver(t) ==
  /\ Built(t)
  /\ addr[t] # NoIP
  /\ state = "RollingOver"
  /\ Become("Running", addr[t], Nobody)
  /\ current_slot' = slot[t]
  /\ Goto(t, "drain")
  /\ UNCHANGED <<hostVars, rollouts, recent, slot, addr, tag, held, work, live_ids, registered, from_ip>>

\* A concurrent stop took the state away; the new container goes.
SwitchDrifted(t) ==
  /\ Built(t)
  /\ addr[t] # NoIP
  /\ state # "RollingOver"
  /\ addr' = [addr EXCEPT ![t] = NoIP]
  /\ work' = [work EXCEPT ![t] = <<slot[t]>>]
  /\ Goto(t, "teardown_stop")
  /\ UNCHANGED <<hostVars, handleVars, slot, tag, held, live_ids, registered, from_ip>>

\* Mutant: the state is not restored.
RollBack_forgets(t) ==
  /\ Built(t)
  /\ addr[t] = NoIP
  /\ work' = [work EXCEPT ![t] = <<slot[t]>>]
  /\ Goto(t, "teardown_stop")
  /\ UNCHANGED <<hostVars, handleVars, slot, addr, tag, held, live_ids, registered, from_ip>>

\* Mutant: a failed rollover stops the app.
RollBack_stops(t) ==
  /\ Built(t)
  /\ addr[t] = NoIP
  /\ IF state = "RollingOver"
     THEN Become("Stopped", NoIP, Nobody)
     ELSE UNCHANGED <<state, container_ip, notify>>
  /\ work' = [work EXCEPT ![t] = <<slot[t]>>]
  /\ Goto(t, "teardown_stop")
  /\ UNCHANGED <<hostVars, current_slot, rollouts, recent, slot, addr, tag, held, live_ids, registered, from_ip>>

RollBack(t) ==
  /\ Built(t)
  /\ addr[t] = NoIP
  /\ IF state = "RollingOver"
     THEN Become("Running", from_ip[t], Nobody)
     ELSE UNCHANGED <<state, container_ip, notify>>
  /\ work' = [work EXCEPT ![t] = <<slot[t]>>]
  /\ Goto(t, "teardown_stop")
  /\ UNCHANGED <<hostVars, current_slot, rollouts, recent, slot, addr, tag, held, live_ids, registered, from_ip>>

\* Mutant: the slots are mixed up after the switch.
Drained_wrong_slot(t) ==
  /\ pc[t] = "drain"
  /\ active_upgrades = {} \/ "drain_timeout" \in Faults
  /\ work' = [work EXCEPT ![t] = <<slot[t]>>]
  /\ Goto(t, "teardown_stop")
  /\ UNCHANGED <<hostVars, handleVars, slot, addr, tag, held, live_ids, building, registered, from_ip>>

\* drain_active_upgrades: the counter reads zero, or DRAIN_TIMEOUT is over.
Drained(t) ==
  /\ pc[t] = "drain"
  /\ active_upgrades = {} \/ "drain_timeout" \in Faults
  /\ work' = [work EXCEPT ![t] = <<other(slot[t])>>]
  /\ Goto(t, "teardown_stop")
  /\ UNCHANGED <<hostVars, handleVars, slot, addr, tag, held, live_ids, building, registered, from_ip>>

Respond(t) ==
  /\ pc[t] = "done"
  /\ Return(t)
  /\ from_ip' = [from_ip EXCEPT ![t] = NoIP]
  /\ UNCHANGED <<hostVars, handleVars, held, registered>>

-----------------------------------------------------------------------------

RolloutStep(t) ==
  \/ PullForRollout(t) \/ RecordRollout(t)
  \/ NeedsThaw(t) \/ ThawId(t) \/ ThawApp(t) \/ ThawCommit(t)
  \/ EnterColdStart(t) \/ EnterBlueGreen(t) \/ EnterConflict(t)
  \/ BuildToSlot(t) \/ SwitchOver(t) \/ SwitchDrifted(t) \/ RollBack(t)
  \/ Drained(t) \/ Respond(t)
  \/ (Teardown(t) /\ UNCHANGED from_ip)

RolloverInit == LifecycleInit /\ from_ip = [t \in Tasks |-> NoIP]

RolloverNext ==
  \/ \E t \in Deployers : RolloutStep(t) \/ \E v \in Tags : SetRollout(t, v)
  \/ LifecycleNext /\ UNCHANGED from_ip

RolloverSpec == RolloverInit /\ [][RolloverNext]_rolloverVars

\* A rollout runs to its end as a start does; the drain ends because a splice
\* does.
RolloverFairness ==
  /\ LifecycleFairness
  /\ \A t \in Deployers : WF_rolloverVars(RolloutStep(t))

FairRolloverSpec == RolloverSpec /\ RolloverFairness

-----------------------------------------------------------------------------
(* Properties *)

FromIpOK == from_ip \in [Tasks -> IPs \cup {NoIP}]

RolloverTypeOK == TypeOK /\ FromIpOK

\* A rollout, whether it succeeds or is rolled back, never takes a serving
\* app out of service: requests are routed all along.
NoOutage ==
  [][(state \in {"Running", "RollingOver"}) => state' \in {"Running", "RollingOver"}]_state

\* Whatever address the resolver hands out leads to a running container,
\* before, during and after the switch.
ServingReachable == state \in {"Running", "RollingOver"} => Reachable(container_ip)

\* A rollout that reports success left the current slot at the image of the
\* newest rollout.
RolloutTakesEffect ==
  \A t \in Deployers :
    pc[t] = "done" /\ addr[t] # NoIP /\ state = "Running" /\ is_container_running(current_slot) =>
      image[current_slot] = rollouts[Len(rollouts)]

\* From the transition to RollingOver to the switch or the rollback.
Rolling(t) == pc[t] = "rollover" \/ t \in building

\* While the app is RollingOver, a rollout that was not dropped is on its way
\* to the switch or the rollback, however often stops, starts and other
\* rollouts changed the state in between.
RolloverHasOwner ==
  state = "RollingOver" =>
    (\E t \in Deployers : Rolling(t)) \/ Deployers \cap Cancellable # {}

\* As long as nothing stops the app, RollingOver keeps all other rollouts out
\* of build_to_slot: no two of them build into one slot.
SingleRollover ==
  \A t \in Deployers : Rolling(t) =>
    state = "RollingOver" /\ \A u \in Deployers : Rolling(u) => u = t

\* A finished rollout leaves one slot behind: once no operation is running,
\* the slot that does not serve has no container and holds no address.
OldSlotReclaimed ==
  (\A t \in Tasks : pc[t] = "idle") =>
    container[other(current_slot)] = "down" /\ endpoint[other(current_slot)] = NoIP

\* What a start or a rollout took is given back on every path: no address is
\* lost, a stopped app holds none and has a container at most where a launch
\* failed half-way, and a rollout that is over, whichever of its phases failed,
\* even that way, leaves one slot behind (lifecycle.rs:106, rollout.rs:346).
NothingLeftBehind == NoAddressLeak /\ StoppedHoldsNothing /\ OldSlotReclaimed

\* A rollover is over some day, by switch or by rollback.
RolloverResolves == state = "RollingOver" ~> state # "RollingOver"

\* No app stays in a busy state for ever, in which every other operation is
\* refused or waits: what begins a start or a rollover ends it.
OperationsEnd == StartResolves /\ RolloverResolves

=============================================================================
