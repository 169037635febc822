--------------------------- MODULE AppStateMachine ---------------------------
(***************************************************************************)
(* What AppState promises (handle.rs): the transitions an app goes through *)
(* and what becomes of its address in each, whoever takes them and however *)
(* many steps that takes.  Lifecycle and Rollover implement it as long as  *)
(* the operations that freeze, stop and replace containers do not overlap. *)
(***************************************************************************)
CONSTANTS Addresses, None

VARIABLES
  state,
  ip     \* the address the resolver routes to or would resume, None without one

AppState == <<state, ip>>

Init == state = "Stopped" /\ ip = None

\* The first caller of ensure_running, cold or from a frozen container.
Claim ==
  /\ state \in {"Stopped", "Frozen"}
  /\ state' = "Starting" /\ ip' = None

Started ==
  /\ state = "Starting"
  /\ state' = "Running" /\ ip' \in Addresses

StartFailed ==
  /\ state = "Starting"
  /\ state' = "Stopped" /\ ip' = None

Freeze ==
  /\ state = "Running"
  /\ state' = "Frozen" /\ ip' = ip

Thaw ==
  /\ state = "Frozen"
  /\ state' = "Running" /\ ip' = ip

\* Requests keep going to the old container while the new one is built.
BeginRollover ==
  /\ state = "Running"
  /\ state' = "RollingOver" /\ ip' = ip

\* The new container has an address of its own.
SwitchOver ==
  /\ state = "RollingOver"
  /\ state' = "Running" /\ ip' \in Addresses \ {ip}

RollBack ==
  /\ state = "RollingOver"
  /\ state' = "Running" /\ ip' = ip

Stop ==
  /\ state \in {"Running", "Frozen", "Starting", "RollingOver"}
  /\ state' = "Stopping" /\ ip' = None

Stopped ==
  /\ state = "Stopping"
  /\ state' = "Stopped" /\ ip' = None

Next ==
  \/ Claim \/ Started \/ StartFailed \/ Freeze \/ Thaw
  \/ BeginRollover \/ SwitchOver \/ RollBack \/ Stop \/ Stopped

Spec == Init /\ [][Next]_AppState

=============================================================================
