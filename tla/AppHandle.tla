------------------------------ MODULE AppHandle ------------------------------
(***************************************************************************)
(* HandleInner of one registered app: the part of AppHandle every          *)
(* operation reads and writes under the handle's mutex, with the methods   *)
(* that decide on it.  The payload of an AppState variant is a variable of *)
(* its own: container_ip for Running, Frozen and RollingOver (from_ip),    *)
(* notify for Starting.                                                    *)
(***************************************************************************)
EXTENDS Containers, Sequences

CONSTANTS
  Tasks,    \* the concurrent operations on the app
  Nobody    \* the owner of a Notify whose starter is gone

ASSUME TasksAssumption == Nobody \notin Tasks

VARIABLES
  state,         \* the AppState variant
  container_ip,  \* its address, NoIP in a variant without one
  notify,        \* whose Notify it carries, Nobody in a variant without one
  current_slot,
  rollouts,      \* the tags of the rollout history, the current one last
  recent         \* last_access lies less than the idle timeout ago

handleVars == <<state, container_ip, notify, current_slot, rollouts, recent>>

MAX_ROLLOUT_HISTORY == 2

AppStates == {"Stopped", "Starting", "Running", "Frozen", "RollingOver", "Stopping"}

HandleTypeOK ==
  /\ state \in AppStates
  /\ container_ip \in IPs \cup {NoIP}
  /\ notify \in Tasks \cup {Nobody}
  /\ current_slot \in Slots
  /\ rollouts \in Seq(Tags)
  /\ Len(rollouts) <= MAX_ROLLOUT_HISTORY
  /\ recent \in BOOLEAN

\* make_handle: registered, nothing running, rolled out once or not at all.
HandleInit ==
  /\ state = "Stopped"
  /\ container_ip = NoIP
  /\ notify = Nobody
  /\ current_slot = "a"
  /\ rollouts \in {<<>>} \cup {<<tag>> : tag \in Tags}
  /\ recent = TRUE

\* Assign the state, payload included.
Become(variant, ip, owner) ==
  /\ state' = variant
  /\ container_ip' = ip
  /\ notify' = owner

is_busy == state \in {"Starting", "Stopping", "RollingOver"}

needs_teardown == state \in {"Running", "Frozen", "Starting", "RollingOver"}

live_container_ids ==
  CASE state = "Stopped" -> <<>>
    [] state = "RollingOver" -> <<current_slot, other(current_slot)>>
    [] OTHER -> <<current_slot>>

\* The result is an address or NoIP for Err.  Whatever the state has become
\* in the meantime is overwritten.
finish_start(result) ==
  IF result = NoIP
  THEN Become("Stopped", NoIP, Nobody)
  ELSE Become("Running", result, Nobody)

\* Mutant: a full history is not trimmed.
record_rollout_unbounded(tag) == rollouts' = Append(rollouts, tag)

\* Evict the oldest entry of a full history, then append.
record_rollout(tag) ==
  rollouts' = Append(IF Len(rollouts) < MAX_ROLLOUT_HISTORY THEN rollouts ELSE Tail(rollouts), tag)

=============================================================================
