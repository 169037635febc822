---------------------------- MODULE EndpointPool ----------------------------
(***************************************************************************)
(* What the egress side promises the controller about addresses: no two    *)
(* names hold the same one, and only what a name gave back, or lost with   *)
(* the daemon, is handed out again.                                        *)
(***************************************************************************)
CONSTANTS Names, Addresses

VARIABLE held   \* held[n]: the addresses that are n's

Init == held = [n \in Names |-> {}]

Take(n, ip) ==
  /\ \A m \in Names : ip \notin held[m]
  /\ held' = [held EXCEPT ![n] = @ \cup {ip}]

Give(n, ip) ==
  /\ ip \in held[n]
  /\ held' = [held EXCEPT ![n] = @ \ {ip}]

\* After a restart a name still holds some of what it held, and nothing else.
Restart ==
  /\ DOMAIN held' = Names
  /\ \A n \in Names : held'[n] \subseteq held[n]

Next ==
  \/ Restart
  \/ \E n \in Names, ip \in Addresses : Take(n, ip) \/ Give(n, ip)

Spec == Init /\ [][Next]_held

=============================================================================
