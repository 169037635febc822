----------------------------- MODULE Containers -----------------------------
(***************************************************************************)
(* What the controller sees of one app's containers and endpoints through  *)
(* `RuntimeOps` (bugpot-runtime) and `EgressOps` (bugpot-egress): one      *)
(* libcontainer state and one network namespace per blue-green slot, and   *)
(* the pool of container addresses.  Every call is one step here; the      *)
(* outcomes of a call that fails are steps of their own, and the constant  *)
(* Faults says which external failures a configuration allows.             *)
(***************************************************************************)
EXTENDS Naturals

CONSTANTS
  IPs,      \* the addresses of the container subnet
  Tags,     \* image tags; a tag stands for the digest it resolves to
  NoTag,
  Faults    \* the calls that may fail for a reason outside the controller

ASSUME IPsAssumption == IPs \subseteq Nat \ {0}
ASSUME TagsAssumption == NoTag \notin Tags

Slots == {"a", "b"}
other(s) == IF s = "a" THEN "b" ELSE "a"

NoIP == 0

VARIABLES
  container,  \* container[s]: libcontainer status of <name>-s; "down" if gone
  image,      \* image[s]: the tag that container runs
  attached,   \* attached[s]: address of the network that container really has
  netns,      \* netns[s]: address inside the namespace called <name>-s
  endpoint,   \* endpoint[s]: address EndpointStore holds for <name>-s
  free        \* IpAllocator.free

hostVars == <<container, image, attached, netns, endpoint, free>>

HostTypeOK ==
  /\ container \in [Slots -> {"down", "created", "running", "paused"}]
  /\ image \in [Slots -> Tags \cup {NoTag}]
  /\ attached \in [Slots -> IPs \cup {NoIP}]
  /\ netns \in [Slots -> IPs \cup {NoIP}]
  /\ endpoint \in [Slots -> IPs \cup {NoIP}]
  /\ free \subseteq IPs

HostInit ==
  /\ container = [s \in Slots |-> "down"]
  /\ image = [s \in Slots |-> NoTag]
  /\ attached = [s \in Slots |-> NoIP]
  /\ netns = [s \in Slots |-> NoIP]
  /\ endpoint = [s \in Slots |-> NoIP]
  /\ free = IPs

-----------------------------------------------------------------------------
(* EgressOps *)

\* Deleting the namespace takes the veth pair along and cuts off whatever
\* still runs in it.
Detached(s) ==
  /\ netns' = [netns EXCEPT ![s] = NoIP]
  /\ attached' = [attached EXCEPT ![s] = NoIP]

\* The lowest free address; the defensive detach replaces a namespace of the
\* same name, and the insert overwrites the entry of the same name.
allocate_endpoint(s, ip) ==
  /\ ip \in free
  /\ \A other_ip \in free : ip <= other_ip
  /\ free' = free \ {ip}
  /\ endpoint' = [endpoint EXCEPT ![s] = ip]
  /\ netns' = [netns EXCEPT ![s] = ip]
  /\ attached' = [attached EXCEPT ![s] = NoIP]
  /\ UNCHANGED <<container, image>>

\* The pool is exhausted, or the namespace cannot be attached: the address
\* goes back, after the detaches that surround the attempt.
AllocateFails(s) ==
  \/ /\ free = {}
     /\ UNCHANGED hostVars
  \/ /\ "attach" \in Faults
     /\ free # {}
     /\ Detached(s)
     /\ UNCHANGED <<container, image, endpoint, free>>

\* Mutant: the entry survives its release.
release_endpoint_keeps_entry(s) ==
  IF endpoint[s] = NoIP
  THEN UNCHANGED hostVars
  ELSE /\ free' = free \cup {endpoint[s]}
       /\ Detached(s)
       /\ UNCHANGED <<container, image, endpoint>>

\* Unknown names are no error.  The address is free again before the kernel
\* is touched, and stays so when the detach fails.
release_endpoint(s) ==
  IF endpoint[s] = NoIP
  THEN UNCHANGED hostVars
  ELSE /\ free' = free \cup {endpoint[s]}
       /\ endpoint' = [endpoint EXCEPT ![s] = NoIP]
       /\ Detached(s) \/ ("detach" \in Faults /\ UNCHANGED <<netns, attached>>)
       /\ UNCHANGED <<container, image>>

-----------------------------------------------------------------------------
(* RuntimeOps *)

\* build() creates the container in whatever network the namespace called
\* <name>-s has now, start() makes it run.
Launched(s, tag, status) ==
  /\ netns[s] # NoIP
  /\ container' = [container EXCEPT ![s] = status]
  /\ image' = [image EXCEPT ![s] = tag]
  /\ attached' = [attached EXCEPT ![s] = netns[s]]
  /\ UNCHANGED <<netns, endpoint, free>>

\* A running container is refused; anything else under the same id is stale
\* state that launch_container removes.
start_app(s, tag) ==
  /\ container[s] # "running"
  /\ Launched(s, tag, "running")

\* The container and its state directory are gone; the endpoint is not.
Down(s) ==
  /\ container' = [container EXCEPT ![s] = "down"]
  /\ image' = [image EXCEPT ![s] = NoTag]
  /\ attached' = [attached EXCEPT ![s] = NoIP]
  /\ UNCHANGED <<netns, endpoint, free>>

\* AppAlreadyRunning; or an error before launch_container touches the state
\* directory, in build(), or after it: then the container stays, created if
\* start() failed, running if only its pid was not to be had.
StartAppFails(s, tag) ==
  \/ /\ container[s] = "running"
     /\ UNCHANGED hostVars
  \/ /\ container[s] # "running"
     /\ \/ /\ netns[s] = NoIP
           /\ Down(s)
        \/ /\ "launch" \in Faults
           /\ \/ UNCHANGED hostVars
              \/ Down(s)
              \/ \E status \in {"created", "running"} : Launched(s, tag, status)

\* SIGTERM if running, then a forced delete.  A missing container is an error
\* every caller ignores; a delete that fails leaves the container as it was.
stop_app(s) ==
  \/ Down(s)
  \/ /\ "delete" \in Faults
     /\ UNCHANGED hostVars

\* libcontainer pauses only a Running container and resumes only a Paused one.
freeze_app(s) ==
  /\ container[s] = "running"
  /\ container' = [container EXCEPT ![s] = "paused"]
  /\ UNCHANGED <<image, attached, netns, endpoint, free>>

FreezeAppFails(s) ==
  /\ container[s] # "running" \/ "freezer" \in Faults
  /\ UNCHANGED hostVars

unfreeze_app(s) ==
  /\ container[s] = "paused"
  /\ container' = [container EXCEPT ![s] = "running"]
  /\ UNCHANGED <<image, attached, netns, endpoint, free>>

UnfreezeAppFails(s) ==
  /\ container[s] # "paused" \/ "freezer" \in Faults
  /\ UNCHANGED hostVars

is_container_running(s) == container[s] = "running"

\* The process exits or is killed by the kernel; nothing is told.
Crash(s) ==
  /\ "crash" \in Faults
  /\ container[s] # "down"
  /\ Down(s)

\* An address at which a running container accepts connections.
Reachable(ip) == \E s \in Slots : container[s] = "running" /\ attached[s] = ip

=============================================================================
