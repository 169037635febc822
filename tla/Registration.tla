---------------------------- MODULE Registration ----------------------------
(***************************************************************************)
(* What an operator registers, across restarts: the two indexes of         *)
(* registry.rs, the files of store.rs, the requests of crud.rs and         *)
(* rollout.rs that change them, and boot.rs, which rebuilds the one from   *)
(* the other and from the containers that survived, those that a failure   *)
(* left behind among them.                                                 *)
(*                                                                         *)
(* A request proceeds in the steps between which it waits for a disk or a  *)
(* container; the daemon may die between any two.  The lifecycle of a      *)
(* container is coarser than in Lifecycle and Rollover: a start, a stop or *)
(* a rollout that has begun on an app is not disturbed by another, only by *)
(* the death of the daemon.                                                *)
(***************************************************************************)
EXTENDS Naturals, FiniteSets

CONSTANTS
  Operators,    \* clients of the admin API, one request at a time each
  NamesOf,      \* NamesOf[a]: the apps operator a works on
  Names,        \* names of apps, in their order
  Subs,         \* subdomains
  Confs,        \* the rest of a spec: what a PATCH may change
  AlwaysOn,     \* those whose idle_timeout is 0
  Malformed,    \* those whose idle_timeout does not parse
  Unparsed,     \* those whose egress.allow does not parse; nothing validates it
  Tags,
  Handles,      \* bound on the handles of one process: one for every name
  Nobody,       \* no handle
  None,         \* no file, no tag, no configuration
  Torn,         \* the spec file whose writing was cut short
  Faults,       \* the external failures a configuration allows
  MaxRequests,  \* bound on the requests
  MaxRestarts   \* bound on the ends of the daemon

ASSUME NamesAssumption == Names \subseteq Nat /\ IsFiniteSet(Names)
ASSUME OperatorsAssumption == NamesOf \in [Operators -> SUBSET Names]
ASSUME NobodyAssumption == Nobody \notin Handles
ASSUME HandlesAssumption ==
  \E f \in [Names -> Handles] : \A m, n \in Names : f[m] = f[n] => m = n

Slots == {"a", "b"}
Other(s) == IF s = "a" THEN "b" ELSE "a"
Containers == Names \X Slots
Specs == [sub : Subs, conf : Confs]
AppStates == {"Stopped", "Starting", "Running", "Frozen", "RollingOver", "Stopping"}
Apps == [name : Names, sub : Subs, conf : Confs, tag : Tags \cup {None},
         state : AppStates, slot : Slots, boots : Confs \cup {None}]

ASSUME NoneAssumption ==
  /\ None \notin Names /\ None \notin Apps /\ None \notin Confs
  /\ None \notin Specs /\ Torn \notin Specs /\ None # Torn
  /\ "removed" \notin Confs /\ "unknown" \notin Confs

VARIABLES
  phase,         \* where the process is, from "load" to "up" to "down"
  todo,          \* the handles the current phase of it has still to see
  claims,        \* StartupClaims: containers whose address was discovered
  failed,        \* an eager start failed
  app,           \* app[h]: the AppHandle, or None
  by_name,
  by_subdomain,
  clashed,       \* subdomains that two files claimed when they were loaded
  spec_file,     \* <state>/apps/<name>.toml
  rollouts_file, \* <state>/rollouts/<name>.toml, by its newest tag
  box,           \* box[c]: libcontainer's state of container c
  runs,          \* runs[c]: the configuration it was started with
  net,           \* the containers that have a netns with an address
  left,          \* history: the containers that a failed step left on the host
  pc,            \* pc[a]: the step the request of operator a is at
  req,           \* req[a]: its app, and the body it carries
  held,          \* held[a]: the handle it works on
  told,          \* told[n]: what the operator knows of app n
  told_tag,      \* told_tag[n]: the rollout it knows to have succeeded
  requests,
  restarts

process == <<phase, todo, claims, failed>>
memory == <<app, by_name, by_subdomain, clashed>>
disk == <<spec_file, rollouts_file>>
host == <<box, runs, net, left>>
client == <<pc, req, held, told, told_tag>>
vars == <<process, memory, disk, host, client, requests, restarts>>

NoRequest == [name |-> None, sub |-> None, conf |-> None, tag |-> None, kind |-> "none",
              ids |-> {}]

Init ==
  /\ phase = "up" /\ todo = {} /\ claims = {} /\ failed = FALSE
  /\ app = [h \in Handles |-> None]
  /\ by_name = [n \in Names |-> Nobody]
  /\ by_subdomain = [s \in Subs |-> Nobody]
  /\ clashed = {}
  /\ spec_file = [n \in Names |-> None]
  /\ rollouts_file = [n \in Names |-> None]
  /\ box = [c \in Containers |-> "absent"]
  /\ runs = [c \in Containers |-> None]
  /\ net = {} /\ left = {}
  /\ pc = [a \in Operators |-> "idle"]
  /\ req = [a \in Operators |-> NoRequest]
  /\ held = [a \in Operators |-> Nobody]
  /\ told = [n \in Names |-> "removed"]
  /\ told_tag = [n \in Names |-> None]
  /\ requests = 0
  /\ restarts = 0

-----------------------------------------------------------------------------
(* Containers *)

Current(h) == <<app[h].name, app[h].slot>>
Opposite(h) == <<app[h].name, Other(app[h].slot)>>

\* AppState::is_busy.
Busy(h) == app[h].state \in {"Starting", "Stopping", "RollingOver"}

SetState(h, s) == app' = [app EXCEPT ![h].state = s, ![h].boots = None]

\* do_start and build_to_slot read the spec once, when they begin.
SetBuild(h, s) == app' = [app EXCEPT ![h].state = s, ![h].boots = app[h].conf]

\* allocate_endpoint parses the list first; release_endpoint of an endpoint
\* that was not allocated does nothing.
Allocates(c, conf) == net' = IF conf \in Unparsed THEN net ELSE net \cup {c}
Releases(c, conf) == net' = IF conf \in Unparsed THEN net ELSE net \ {c}

\* start_app.
Boots(c, conf) ==
  /\ box' = [box EXCEPT ![c] = "running"]
  /\ runs' = [runs EXCEPT ![c] = conf]

\* cleanup_container of several containers.
Reaps(cs) ==
  /\ box' = [c \in Containers |-> IF c \in cs THEN "absent" ELSE box[c]]
  /\ runs' = [c \in Containers |-> IF c \in cs THEN None ELSE runs[c]]

\* A process that runs the controller.
Alive == phase \in {"eager", "up", "stopping"}

\* ensure_running of a stopped app that has been rolled out: its endpoint.
StartBegins(h) ==
  /\ app[h].state = "Stopped" /\ app[h].tag # None
  /\ SetBuild(h, "Starting")
  /\ Allocates(Current(h), app[h].conf)
  /\ UNCHANGED <<box, runs, left>>

\* A start that has begun, not a thaw.
Launching(h) == Alive /\ app[h] # None /\ app[h].state = "Starting" /\ app[h].boots # None

\* reject_if_already_running and an allowlist that does not parse: the launch
\* is not reached.
CanLaunch(c, conf) == conf \notin Unparsed /\ box[c] # "running"

\* A request that the router resolved to the app.
Wanted(h) ==
  /\ phase = "up" /\ app[h] # None /\ by_subdomain[app[h].sub] = h
  /\ StartBegins(h)
  /\ UNCHANGED <<process, by_name, by_subdomain, clashed, disk, client, requests, restarts>>

\* What an earlier failure left in the slot is replaced.
StartSucceeds(h) ==
  /\ Launching(h) /\ CanLaunch(Current(h), app[h].boots)
  /\ Boots(Current(h), app[h].boots)
  /\ left' = left \ {Current(h)}
  /\ SetState(h, "Running")
  /\ UNCHANGED <<process, by_name, by_subdomain, clashed, disk, net, client, requests, restarts>>

\* The start ends before the launch: the endpoint goes, what is in the slot stays.
StartRefused(h) ==
  /\ Launching(h)
  /\ "start" \in Faults \/ ~CanLaunch(Current(h), app[h].boots)
  /\ SetState(h, "Stopped")
  /\ Releases(Current(h), app[h].boots)
  /\ failed' = (failed \/ phase = "eager")
  /\ UNCHANGED <<phase, todo, claims, by_name, by_subdomain, clashed, disk, box, runs, left,
                 client, requests, restarts>>

\* The launch fails, which may leave the container behind, created or running:
\* do_start takes back no more than the endpoint.  Or the readiness probe
\* fails: the container is stopped.
StartFails(h) ==
  /\ "start" \in Faults
  /\ Launching(h) /\ CanLaunch(Current(h), app[h].boots)
  /\ SetState(h, "Stopped")
  /\ Releases(Current(h), app[h].boots)
  /\ \/ Reaps({Current(h)}) /\ left' = left \ {Current(h)}
     \/ \E status \in {"created", "running"} :
          /\ box' = [box EXCEPT ![Current(h)] = status]
          /\ runs' = [runs EXCEPT ![Current(h)] = app[h].boots]
          /\ left' = left \cup {Current(h)}
  /\ failed' = (failed \/ phase = "eager")
  /\ UNCHANGED <<phase, todo, claims, by_name, by_subdomain, clashed, disk,
                 client, requests, restarts>>

\* Idle: the sweep freezes it.
Freeze(h) ==
  /\ phase = "up" /\ app[h] # None /\ app[h].state = "Running"
  /\ app[h].conf \notin AlwaysOn \cup Malformed
  /\ box[Current(h)] = "running"
  /\ SetState(h, "Frozen")
  /\ box' = [box EXCEPT ![Current(h)] = "paused"]
  /\ UNCHANGED <<process, by_name, by_subdomain, clashed, disk, runs, net, left, client,
                 requests, restarts>>

\* ensure_running of a frozen app.
ThawBegins(h) ==
  /\ app[h].state = "Frozen"
  /\ SetState(h, "Starting")
  /\ UNCHANGED host

Resume(h) ==
  /\ phase = "up" /\ app[h] # None /\ by_subdomain[app[h].sub] = h
  /\ ThawBegins(h)
  /\ UNCHANGED <<process, by_name, by_subdomain, clashed, disk, client, requests, restarts>>

\* do_resume: the container goes on with the configuration it was started with.
Thaws(h) ==
  /\ Alive /\ app[h] # None /\ app[h].state = "Starting" /\ app[h].boots = None
  /\ SetState(h, "Running")
  /\ box' = [box EXCEPT ![Current(h)] = "running"]
  /\ UNCHANGED <<process, by_name, by_subdomain, clashed, disk, runs, net, left, client,
                 requests, restarts>>

\* unfreeze_app fails: the app is stopped, its container and endpoint stay.
ThawFails(h) ==
  /\ "resume" \in Faults
  /\ Alive /\ app[h] # None /\ app[h].state = "Starting" /\ app[h].boots = None
  /\ SetState(h, "Stopped")
  /\ left' = left \cup {Current(h)}
  /\ failed' = (failed \/ phase = "eager")
  /\ UNCHANGED <<phase, todo, claims, by_name, by_subdomain, clashed, disk, box, runs, net,
                 client, requests, restarts>>

\* Under memory pressure, or for a container found dead by the sweep.
StopBegins(h) ==
  /\ phase = "up" /\ app[h] # None
  /\ \/ app[h].state = "Frozen"
     \/ app[h].state = "Running" /\ box[Current(h)] = "absent"
  /\ SetState(h, "Stopping")
  /\ Reaps({Current(h)})
  /\ UNCHANGED <<process, by_name, by_subdomain, clashed, disk, net, left, client,
                 requests, restarts>>

StopEnds(h) ==
  /\ Alive /\ app[h] # None /\ app[h].state = "Stopping"
  /\ SetState(h, "Stopped")
  /\ net' = net \ {Current(h)}
  /\ UNCHANGED <<process, by_name, by_subdomain, clashed, disk, box, runs, left, client,
                 requests, restarts>>

\* A container's init exits, whether or not a daemon is there to notice.
Exit(c) ==
  /\ "exit" \in Faults
  /\ box[c] = "running"
  /\ Reaps({c})
  /\ UNCHANGED <<process, memory, disk, net, left, client, requests, restarts>>

-----------------------------------------------------------------------------
(* Requests of the admin API *)

Goto(a, s) == pc' = [pc EXCEPT ![a] = s]

\* The request is over; what it leaves the operator knowing.
Return(a, t) ==
  /\ Goto(a, "idle")
  /\ req' = [req EXCEPT ![a] = NoRequest]
  /\ held' = [held EXCEPT ![a] = Nobody]
  /\ told' = [told EXCEPT ![req[a].name] = t]
  /\ told_tag' = [told_tag EXCEPT ![req[a].name] =
       IF req[a].kind = "rollout" /\ t # "unknown" THEN req[a].tag ELSE @]

\* A request arrives; until it returns the operator knows nothing of the app.
Begins(a, r, h, s) ==
  /\ phase = "up" /\ pc[a] = "idle" /\ requests < MaxRequests
  /\ r.name \in NamesOf[a]
  /\ requests' = requests + 1
  /\ req' = [req EXCEPT ![a] = r]
  /\ held' = [held EXCEPT ![a] = h]
  /\ Goto(a, s)
  /\ told' = [told EXCEPT ![r.name] = "unknown"]
  /\ told_tag' = [told_tag EXCEPT ![r.name] = IF r.kind = "update" THEN @ ELSE None]

\* Registry::would_collide: the early check, under the read lock.
would_collide(n, s) == by_name[n] # Nobody \/ by_subdomain[s] # Nobody

\* POST /apps, up to the check; a collision is a 409 and changes nothing.
DeployApp(a, n, s, c) ==
  /\ ~would_collide(n, s)
  /\ Begins(a, [NoRequest EXCEPT !.kind = "deploy", !.name = n, !.sub = s, !.conf = c],
            Nobody, "write")
  /\ UNCHANGED <<process, memory, disk, host, restarts>>

\* deploy_app writes the file before it owns the name.
DeployWrite(a) ==
  /\ Alive /\ pc[a] = "write"
  /\ spec_file' = [spec_file EXCEPT ![req[a].name] = [sub |-> req[a].sub, conf |-> req[a].conf]]
  /\ Goto(a, "insert")
  /\ UNCHANGED <<process, memory, rollouts_file, host, req, held, told, told_tag, requests, restarts>>

\* make_handle and make_handle_with_rollouts: stopped, in slot a.
NewHandle(n, s, c, t) ==
  [name |-> n, sub |-> s, conf |-> c, tag |-> t, state |-> "Stopped", slot |-> "a",
   boots |-> None]

\* Mutant: the name is checked, the subdomain is not.
try_insert_name_only(a) ==
  \E h \in Handles :
    /\ app[h] = None
    /\ by_name[req[a].name] = Nobody
    /\ app' = [app EXCEPT ![h] = NewHandle(req[a].name, req[a].sub, req[a].conf, None)]
    /\ by_name' = [by_name EXCEPT ![req[a].name] = h]
    /\ by_subdomain' = [by_subdomain EXCEPT ![req[a].sub] = h]

\* Registry::try_insert: both indexes under one write lock.
try_insert(a) ==
  \E h \in Handles :
    /\ app[h] = None
    /\ ~would_collide(req[a].name, req[a].sub)
    /\ app' = [app EXCEPT ![h] = NewHandle(req[a].name, req[a].sub, req[a].conf, None)]
    /\ by_name' = [by_name EXCEPT ![req[a].name] = h]
    /\ by_subdomain' = [by_subdomain EXCEPT ![req[a].sub] = h]

DeployInsert(a) ==
  /\ Alive /\ pc[a] = "insert"
  /\ try_insert(a)
  /\ Return(a, req[a].conf)
  /\ UNCHANGED <<process, clashed, disk, host, requests, restarts>>

\* The race was lost: the file is to go again.
DeployCollides(a) ==
  /\ Alive /\ pc[a] = "insert"
  /\ would_collide(req[a].name, req[a].sub)
  /\ Goto(a, "discard")
  /\ UNCHANGED <<process, memory, disk, host, req, held, told, told_tag, requests, restarts>>

\* AppStore::discard_failed_spec.
discard_failed_spec(a) ==
  spec_file' = [spec_file EXCEPT ![req[a].name] = None]

DeployDiscard(a) ==
  /\ Alive /\ pc[a] = "discard"
  /\ discard_failed_spec(a)
  /\ Return(a, "removed")
  /\ UNCHANGED <<process, memory, rollouts_file, host, requests, restarts>>

\* PATCH /apps/<name>, up to the comparison with the current spec: a busy app
\* is a 409, an equal spec is answered at once.  The texts of the two specs are
\* compared, and env is a HashMap, so equal specs may also look different.
UpdateApp(a, n, c) ==
  /\ by_name[n] # Nobody
  /\ ~Busy(by_name[n])
  /\ \E next \in IF app[by_name[n]].conf = c THEN {"done", "replace"} ELSE {"replace"} :
       Begins(a, [NoRequest EXCEPT !.kind = "update", !.name = n, !.conf = c], by_name[n], next)
  /\ UNCHANGED <<process, memory, disk, host, restarts>>

\* The spec is replaced in memory; what is live now decides what follows.
UpdateReplace(a) ==
  /\ Alive /\ pc[a] = "replace"
  /\ LET h == held[a]
     IN  /\ app' = [app EXCEPT ![h].conf = req[a].conf]
         /\ Goto(a, IF app[h].state \in {"Running", "Frozen"} THEN "persist" ELSE "persist_only")
  /\ UNCHANGED <<process, by_name, by_subdomain, clashed, disk, host, req, held, told, told_tag,
                 requests, restarts>>

\* Mutant: only the running container learns of the new spec.
persist_spec_forgets(h) ==
  UNCHANGED spec_file

\* AppStore::persist_spec: the spec the handle has now.
persist_spec(h) ==
  spec_file' = [spec_file EXCEPT ![app[h].name] = [sub |-> app[h].sub, conf |-> app[h].conf]]

UpdatePersist(a) ==
  /\ Alive /\ pc[a] \in {"persist", "persist_only"}
  /\ persist_spec(held[a])
  /\ Goto(a, IF pc[a] = "persist" THEN "apply" ELSE "done")
  /\ UNCHANGED <<process, memory, rollouts_file, host, req, held, told, told_tag, requests, restarts>>

\* POST /apps/<name>/rollouts, up to the end of the pull.  A tag that cannot
\* be pulled changes nothing.
SetRollout(a, n, t) ==
  /\ by_name[n] # Nobody
  /\ ~Busy(by_name[n])
  /\ Begins(a, [NoRequest EXCEPT !.kind = "rollout", !.name = n, !.tag = t], by_name[n], "record")
  /\ UNCHANGED <<process, memory, disk, host, restarts>>

\* record_rollout.
RolloutRecord(a) ==
  /\ Alive /\ pc[a] = "record"
  /\ app' = [app EXCEPT ![held[a]].tag = req[a].tag]
  /\ Goto(a, "durable")
  /\ UNCHANGED <<process, by_name, by_subdomain, clashed, disk, host, req, held, told, told_tag,
                 requests, restarts>>

\* AppStore::persist_rollouts: the history the handle has now.
persist_rollouts(h) ==
  rollouts_file' = [rollouts_file EXCEPT ![app[h].name] = app[h].tag]

RolloutPersist(a) ==
  /\ Alive /\ pc[a] = "durable"
  /\ persist_rollouts(held[a])
  /\ Goto(a, "apply")
  /\ UNCHANGED <<process, memory, spec_file, host, req, held, told, told_tag, requests, restarts>>

\* What a request that was carried out to its end tells its operator.
Outcome(a) == app[held[a]].conf

\* A PATCH that finds its spec in place, or has nothing live to apply it to.
Done(a) ==
  /\ Alive /\ pc[a] = "done"
  /\ Return(a, Outcome(a))
  /\ UNCHANGED <<process, memory, disk, host, requests, restarts>>

\* apply_change of a stopped app: ensure_running.
ApplyCold(a) ==
  /\ Alive /\ pc[a] = "apply"
  /\ LET h == held[a]
     IN  StartBegins(h)
  /\ Goto(a, "await")
  /\ UNCHANGED <<process, by_name, by_subdomain, clashed, disk, req, held, told, told_tag,
                 requests, restarts>>

\* The app has become busy: a 409, with the spec or the tag persisted.
ApplyConflicts(a) ==
  /\ Alive /\ pc[a] = "apply"
  /\ Busy(held[a])
  /\ Return(a, "unknown")
  /\ UNCHANGED <<process, memory, disk, host, requests, restarts>>

\* ensure_running returns to the request.
ApplyReturns(a) ==
  /\ Alive /\ pc[a] = "await"
  /\ ~Busy(held[a])
  /\ Return(a, IF app[held[a]].state = "Stopped" THEN "unknown" ELSE Outcome(a))
  /\ UNCHANGED <<process, memory, disk, host, requests, restarts>>

\* enter_rolling_over of a live app, thawed if need be; the new endpoint.
ApplyBlueGreen(a) ==
  /\ Alive /\ pc[a] = "apply"
  /\ LET h == held[a]
     IN  /\ app[h].state \in {"Running", "Frozen"}
         /\ SetBuild(h, "RollingOver")
         /\ box' = [box EXCEPT ![Current(h)] = IF @ = "paused" THEN "running" ELSE @]
         /\ Allocates(Opposite(h), app[h].conf)
  /\ Goto(a, "build")
  /\ UNCHANGED <<process, by_name, by_subdomain, clashed, disk, runs, left, req, held, told,
                 told_tag, requests, restarts>>

\* A thaw that fails is a 500: the app stays frozen.
ApplyFails(a) ==
  /\ "resume" \in Faults
  /\ Alive /\ pc[a] = "apply" /\ app[held[a]].state = "Frozen"
  /\ Return(a, "unknown")
  /\ UNCHANGED <<process, memory, disk, host, requests, restarts>>

\* build_to_slot: for a moment there are two containers.
Build(a) ==
  /\ Alive /\ pc[a] = "build"
  /\ LET h == held[a]
     IN  /\ CanLaunch(Opposite(h), app[h].boots)
         /\ Boots(Opposite(h), app[h].boots)
         /\ left' = left \ {Opposite(h)}
  /\ Goto(a, "switch")
  /\ UNCHANGED <<process, memory, disk, net, req, held, told, told_tag, requests, restarts>>

\* The new container does not come up: it is torn down, the old one serves on.
RollBack(a) ==
  /\ Alive /\ pc[a] = "build"
  /\ LET h == held[a]
     IN  /\ "start" \in Faults \/ ~CanLaunch(Opposite(h), app[h].boots)
         /\ SetState(h, "Running")
         /\ Reaps({Opposite(h)})
         /\ Releases(Opposite(h), app[h].boots)
  /\ Return(a, "unknown")
  /\ UNCHANGED <<process, by_name, by_subdomain, clashed, disk, left, requests, restarts>>

SwitchOver(a) ==
  /\ Alive /\ pc[a] = "switch"
  /\ app' = [app EXCEPT ![held[a]].state = "Running", ![held[a]].slot = Other(@),
                      ![held[a]].boots = None]
  /\ Goto(a, "drain")
  /\ UNCHANGED <<process, by_name, by_subdomain, clashed, disk, host, req, held, told, told_tag,
                 requests, restarts>>

\* The old slot goes after the drain: the container, then its endpoint.
Drained(a) ==
  /\ Alive /\ pc[a] = "drain"
  /\ Reaps({Opposite(held[a])})
  /\ Goto(a, "release")
  /\ UNCHANGED <<process, memory, disk, net, left, req, held, told, told_tag, requests, restarts>>

Released(a) ==
  /\ Alive /\ pc[a] = "release"
  /\ net' = net \ {Opposite(held[a])}
  /\ Return(a, Outcome(a))
  /\ UNCHANGED <<process, memory, disk, box, runs, left, requests, restarts>>

\* Registry::remove: both keys, whatever they map to.
registry_remove(h) ==
  /\ by_name' = [by_name EXCEPT ![app[h].name] = Nobody]
  /\ by_subdomain' = [by_subdomain EXCEPT ![app[h].sub] = Nobody]

\* live_container_ids: none of a stopped app, both of a rollover.
LiveSlots(h) ==
  {s \in Slots : \/ app[h].state = "RollingOver"
                 \/ app[h].state # "Stopped" /\ s = app[h].slot}

\* DELETE /apps/<name>: out of the indexes first, with what is live then.
RemoveApp(a, n) ==
  /\ by_name[n] # Nobody
  /\ Begins(a, [NoRequest EXCEPT !.kind = "remove", !.name = n, !.ids = LiveSlots(by_name[n])],
            by_name[n], "stop")
  /\ registry_remove(by_name[n])
  /\ UNCHANGED <<process, app, clashed, disk, host, restarts>>

\* stop, which does nothing to a stopped app, cleanup_container of what was
\* live, cleanup_app_assets.
RemoveStop(a) ==
  /\ Alive /\ pc[a] = "stop"
  /\ ~Busy(held[a])
  /\ LET h == held[a]
         stopped == {<<app[h].name, s>> : s \in LiveSlots(h)}
     IN  /\ Reaps(stopped \cup {<<app[h].name, s>> : s \in req[a].ids})
         /\ net' = net \ stopped
         /\ SetState(h, "Stopped")
  /\ Goto(a, "unlink")
  /\ UNCHANGED <<process, by_name, by_subdomain, clashed, disk, left, req, held, told, told_tag,
                 requests, restarts>>

\* AppStore::remove, the spec and then the history; the handle goes with the
\* last request that holds it.
RemoveSpec(a) ==
  /\ Alive /\ pc[a] = "unlink"
  /\ spec_file' = [spec_file EXCEPT ![req[a].name] = None]
  /\ Goto(a, "unlink_rollouts")
  /\ UNCHANGED <<process, memory, rollouts_file, host, req, held, told, told_tag, requests, restarts>>

RemoveRollouts(a) ==
  /\ Alive /\ pc[a] = "unlink_rollouts"
  /\ rollouts_file' = [rollouts_file EXCEPT ![req[a].name] = None]
  /\ app' = IF \E b \in Operators \ {a} : held[b] = held[a] THEN app
            ELSE [app EXCEPT ![held[a]] = None]
  /\ Return(a, "removed")
  /\ UNCHANGED <<process, by_name, by_subdomain, clashed, spec_file, host, requests, restarts>>

-----------------------------------------------------------------------------
(* The life of a process *)

Registered == {h \in Handles : app[h] # None /\ by_name[app[h].name] = h}

\* Memory is gone, and the requests with it.
Forget ==
  /\ app' = [h \in Handles |-> None]
  /\ by_name' = [n \in Names |-> Nobody]
  /\ by_subdomain' = [s \in Subs |-> Nobody]
  /\ clashed' = {}
  /\ pc' = [a \in Operators |-> "idle"]
  /\ req' = [a \in Operators |-> NoRequest]
  /\ held' = [a \in Operators |-> Nobody]
  /\ todo' = {} /\ claims' = {} /\ failed' = FALSE
  /\ phase' = "down"

\* The apps of which a request is at step s.
At(s) == {req[a].name : a \in {o \in Operators : pc[o] = s}}

\* fs::write truncates the file before it writes it.  A spec that was cut short
\* does not parse; an empty history does.
CutShort ==
  \E specs \in SUBSET (At("write") \cup At("persist") \cup At("persist_only")),
     histories \in SUBSET At("durable") :
    /\ "torn" \in Faults \/ specs \cup histories = {}
    /\ spec_file' = [n \in Names |-> IF n \in specs THEN Torn ELSE spec_file[n]]
    /\ rollouts_file' = [n \in Names |-> IF n \in histories THEN None ELSE rollouts_file[n]]

\* The daemon is killed, at any step, of its boot too.
Crash ==
  /\ phase # "down" /\ restarts < MaxRestarts
  /\ restarts' = restarts + 1
  /\ Forget
  /\ CutShort
  /\ UNCHANGED <<host, told, told_tag, requests>>

\* SIGINT: the listeners are aborted; requests already accepted run on.
Interrupt ==
  /\ phase = "up" /\ restarts < MaxRestarts
  /\ phase' = "stopping"
  /\ todo' = Registered
  /\ UNCHANGED <<claims, failed, memory, disk, host, client, requests, restarts>>

\* AppHost::teardown: what runs or starts is stopped; what is frozen, and what
\* is rolling over, is left as it is.
Teardown(h) ==
  /\ phase = "stopping" /\ h \in todo
  /\ app[h] # None => app[h].state # "Starting"
  /\ todo' = todo \ {h}
  /\ IF app[h] # None /\ app[h].state = "Running"
     THEN /\ SetState(h, "Stopped")
          /\ Reaps({Current(h)})
          /\ net' = net \ {Current(h)}
          /\ UNCHANGED left
     ELSE UNCHANGED <<app, host>>
  /\ UNCHANGED <<phase, claims, failed, by_name, by_subdomain, clashed, disk, client,
                 requests, restarts>>

\* The process ends after its teardown.
Quit ==
  /\ phase = "stopping" /\ todo = {} /\ restarts < MaxRestarts
  /\ restarts' = restarts + 1
  /\ Forget
  /\ CutShort
  /\ UNCHANGED <<host, told, told_tag, requests>>

\* The names that load_persisted_state returns.
Stored == {n \in Names : spec_file[n] # None}

\* read_rollouts_file.
load(n) == rollouts_file[n]

\* Registry::from_handles over the sorted specs: of two apps with one
\* subdomain the last keeps it.
from_handles(handleOf) ==
  /\ app' = [h \in Handles |->
       IF \E n \in Stored : handleOf[n] = h
       THEN LET n == CHOOSE n \in Stored : handleOf[n] = h
            IN  NewHandle(n, spec_file[n].sub, spec_file[n].conf, load(n))
       ELSE None]
  /\ by_name' = [n \in Names |-> IF n \in Stored THEN handleOf[n] ELSE Nobody]
  /\ by_subdomain' = [s \in Subs |->
       LET claimants == {n \in Stored : spec_file[n].sub = s}
       IN  IF claimants = {} THEN Nobody
           ELSE handleOf[CHOOSE n \in claimants : \A m \in claimants : m <= n]]
  /\ clashed' = {s \in Subs : Cardinality({n \in Stored : spec_file[n].sub = s}) > 1}

\* The first half of Bootstrap::build: Egress::new discovers what has an
\* address, or less when ip fails, AppHost::new loads what is on disk; a spec
\* that does not parse keeps it from coming up.
Load ==
  /\ phase = "down"
  /\ \A n \in Stored : spec_file[n] # Torn
  /\ phase' = "reattach"
  /\ \E missed \in IF "discover" \in Faults THEN SUBSET net ELSE {{}} :
       /\ claims' = net \ missed
       /\ left' = left \cup missed
  /\ LET handleOf == CHOOSE f \in [Stored -> Handles] :
           \A m, n \in Stored : f[m] = f[n] => m = n
     IN  /\ from_handles(handleOf)
         /\ todo' = {handleOf[n] : n \in Stored}
  /\ UNCHANGED <<failed, disk, box, runs, net, client, requests, restarts>>

\* is_live_slot.
Live(h) == {s \in Slots : box[<<app[h].name, s>>] \in {"running", "paused"}}

\* Nothing of the app survived: it stays Stopped.
ReattachNone(h) ==
  /\ Live(h) = {}
  /\ UNCHANGED <<claims, app, host>>

\* Mutant: the surviving container's endpoint is left to the orphans.
ReattachOne_unclaimed(h) ==
  \E s \in Slots :
    /\ Live(h) = {s}
    /\ <<app[h].name, s>> \in claims /\ app[h].conf \notin Unparsed
    /\ app' = [app EXCEPT ![h].slot = s,
         ![h].state = IF box[<<app[h].name, s>>] = "paused" THEN "Frozen" ELSE "Running"]
    /\ left' = left \ {<<app[h].name, s>>}
    /\ UNCHANGED <<claims, box, runs, net>>

\* reattach_one of the surviving slot, whose endpoint is claimed.
ReattachOne(h) ==
  \E s \in Slots :
    LET c == <<app[h].name, s>>
    IN  /\ Live(h) = {s}
        /\ c \in claims /\ app[h].conf \notin Unparsed
        /\ claims' = claims \ {c}
        /\ app' = [app EXCEPT ![h].slot = s,
             ![h].state = IF box[c] = "paused" THEN "Frozen" ELSE "Running"]
        /\ left' = left \ {c}
        /\ UNCHANGED <<box, runs, net>>

\* No address was discovered, or reattach_endpoint fails, with the claim
\* consumed: the app stays Stopped, its container is left alive.
ReattachFails(h) ==
  \E s \in Slots :
    LET c == <<app[h].name, s>>
    IN  /\ Live(h) = {s}
        /\ c \notin claims \/ app[h].conf \in Unparsed
        /\ claims' = claims \ {c}
        /\ left' = left \cup {c}
        /\ UNCHANGED <<app, box, runs, net>>

\* Mutant: of two survivors the one in slot a is kept.
PurgeBoth_keeps_first(h) ==
  /\ Live(h) = Slots
  /\ claims' = claims \ {<<app[h].name, "a">>}
  /\ app' = [app EXCEPT ![h].slot = "a", ![h].state = "Running"]
  /\ UNCHANGED host

\* purge_both_slots: a rollout was under way.  Both go, the next request
\* starts the newest tag.
PurgeBoth(h) ==
  /\ Live(h) = Slots
  /\ LET both == {<<app[h].name, s>> : s \in Slots}
     IN  /\ Reaps(both)
         /\ net' = net \ (both \cap claims)
         /\ left' = left \ (both \cap claims)
         /\ claims' = claims \ both
  /\ UNCHANGED app

\* reattach_running, an app at a time.
Reattach(h) ==
  /\ phase = "reattach" /\ h \in todo
  /\ todo' = todo \ {h}
  /\ ReattachNone(h) \/ ReattachOne(h) \/ ReattachFails(h) \/ PurgeBoth(h)
  /\ UNCHANGED <<phase, failed, by_name, by_subdomain, clashed, disk, client, requests, restarts>>

\* cleanup_orphans: what is left of the claims belongs to no app.
CleanupOrphan(c) ==
  /\ phase = "reattach" /\ todo = {} /\ c \in claims
  /\ claims' = claims \ {c}
  /\ Reaps({c})
  /\ net' = net \ {c}
  /\ left' = left \ {c}
  /\ UNCHANGED <<phase, todo, failed, memory, disk, client, requests, restarts>>

\* deploy_always_on: every timeout is resolved before anything starts.
EagerBegins ==
  /\ phase = "reattach" /\ todo = {} /\ claims = {}
  /\ phase' = "eager"
  /\ failed' = \E h \in Registered : app[h].conf \in Malformed
  /\ todo' = IF failed' THEN {}
             ELSE {h \in Registered : app[h].conf \in AlwaysOn /\ app[h].tag # None}
  /\ UNCHANGED <<claims, memory, disk, host, client, requests, restarts>>

\* ensure_running of one of them, all at once.
Eager(h) ==
  /\ phase = "eager" /\ h \in todo
  /\ todo' = todo \ {h}
  /\ \/ StartBegins(h)
     \/ ThawBegins(h)
     \/ app[h].state = "Running" /\ UNCHANGED <<app, host>>
  /\ UNCHANGED <<phase, claims, failed, by_name, by_subdomain, clashed, disk, client,
                 requests, restarts>>

\* All of them have returned: the daemon serves, or it rolls back.
EagerEnds ==
  /\ phase = "eager" /\ todo = {}
  /\ \A h \in Registered : ~Busy(h)
  /\ failed => restarts < MaxRestarts
  /\ phase' = IF failed THEN "stopping" ELSE "up"
  /\ todo' = IF failed THEN Registered ELSE {}
  /\ failed' = FALSE
  /\ UNCHANGED <<claims, memory, disk, host, client, requests, restarts>>

-----------------------------------------------------------------------------

Request(a) ==
  \/ \E n \in Names, s \in Subs, c \in Confs : DeployApp(a, n, s, c)
  \/ \E n \in Names, c \in Confs : UpdateApp(a, n, c)
  \/ \E n \in Names, t \in Tags : SetRollout(a, n, t)
  \/ \E n \in Names : RemoveApp(a, n)

Handler(a) ==
  \/ DeployWrite(a) \/ DeployInsert(a) \/ DeployCollides(a) \/ DeployDiscard(a)
  \/ UpdateReplace(a) \/ UpdatePersist(a) \/ Done(a)
  \/ RolloutRecord(a) \/ RolloutPersist(a)
  \/ ApplyCold(a) \/ ApplyConflicts(a) \/ ApplyReturns(a)
  \/ ApplyBlueGreen(a) \/ ApplyFails(a) \/ Build(a) \/ RollBack(a)
  \/ SwitchOver(a) \/ Drained(a) \/ Released(a)
  \/ RemoveStop(a) \/ RemoveSpec(a) \/ RemoveRollouts(a)

Controller(h) ==
  \/ Wanted(h) \/ StartSucceeds(h) \/ StartRefused(h) \/ StartFails(h)
  \/ Freeze(h) \/ Resume(h) \/ Thaws(h) \/ ThawFails(h) \/ StopBegins(h) \/ StopEnds(h)

Process ==
  \/ Crash \/ Interrupt \/ Quit \/ Load \/ EagerBegins \/ EagerEnds
  \/ \E h \in Handles : Teardown(h) \/ Reattach(h) \/ Eager(h)
  \/ \E c \in Containers : CleanupOrphan(c)

Next ==
  \/ \E a \in Operators : Request(a) \/ Handler(a)
  \/ \E h \in Handles : Controller(h)
  \/ \E c \in Containers : Exit(c)
  \/ Process

Spec == Init /\ [][Next]_vars

-----------------------------------------------------------------------------
(* Properties *)

\* The points at which the request of an operator may be.
DeployPcs == {"write", "insert", "discard"}
UpdatePcs == {"replace", "persist", "persist_only", "done"}
RolloutPcs == {"record", "durable"}
ApplyPcs == {"apply", "await", "build", "switch", "drain", "release"}
RemovePcs == {"stop", "unlink", "unlink_rollouts"}
Pcs == {"idle"} \cup DeployPcs \cup UpdatePcs \cup RolloutPcs \cup ApplyPcs \cup RemovePcs

Requested == [name : Names \cup {None}, sub : Subs \cup {None}, conf : Confs \cup {None},
              tag : Tags \cup {None}, kind : {"none", "deploy", "update", "rollout", "remove"},
              ids : SUBSET Slots]

Typed ==
  /\ phase \in {"up", "stopping", "down", "reattach", "eager"}
  /\ todo \subseteq Handles /\ claims \subseteq Containers /\ failed \in BOOLEAN
  /\ app \in [Handles -> Apps \cup {None}]
  /\ by_name \in [Names -> Handles \cup {Nobody}]
  /\ by_subdomain \in [Subs -> Handles \cup {Nobody}]
  /\ clashed \subseteq Subs
  /\ spec_file \in [Names -> Specs \cup {None, Torn}]
  /\ rollouts_file \in [Names -> Tags \cup {None}]
  /\ box \in [Containers -> {"absent", "created", "running", "paused"}]
  /\ runs \in [Containers -> Confs \cup {None}]
  /\ net \subseteq Containers /\ left \subseteq Containers
  /\ pc \in [Operators -> Pcs]
  /\ req \in [Operators -> Requested]
  /\ held \in [Operators -> Handles \cup {Nobody}]
  /\ told \in [Names -> Confs \cup {"removed", "unknown"}]
  /\ told_tag \in [Names -> Tags \cup {None}]
  /\ requests \in Nat /\ restarts \in Nat

\* Every variable has its type, and an app that is not stopped has its
\* endpoint, but for a start whose list does not parse.
RegistrationTypeOK ==
  /\ Typed
  /\ \A h \in Handles : app[h] # None /\ app[h].state # "Stopped" =>
       Current(h) \in net \/ (app[h].state = "Starting" /\ app[h].boots \in Unparsed)

\* No request is at work on app n, and the daemon serves.
Settled(n) ==
  /\ phase = "up"
  /\ \A a \in Operators : req[a].name # n

\* "the rest of bugpot-core can't accidentally desync the two indexes"
\* (registry.rs:3-5): an app that one index has, the other has too.  Only two
\* spec files with one subdomain, which a crash in the middle of a deploy can
\* leave, make an app that no request reaches.
IndexesAgree ==
  /\ \A h \in Registered : app[h].sub \notin clashed => by_subdomain[app[h].sub] = h
  /\ \A s \in Subs \ clashed : by_subdomain[s] # Nobody => by_subdomain[s] \in Registered

\* "The registry owns the in-memory truth; the store mirrors it" (store.rs):
\* when no request is at work on an app its files hold what memory holds, and
\* an app that is not registered has no spec to come back from.
StoreMirrors ==
  \A n \in Names : Settled(n) =>
    IF by_name[n] = Nobody THEN spec_file[n] = None
    ELSE LET h == by_name[n]
         IN  /\ spec_file[n] = [sub |-> app[h].sub, conf |-> app[h].conf]
             /\ app[h].tag \in {None, rollouts_file[n]}

\* The three places an app is known in tell the same, through collisions,
\* failures and restarts: both indexes and the files.
RegistryInv == RegistrationTypeOK /\ IndexesAgree /\ StoreMirrors

\* What an operator was told holds, however often the daemon has died since:
\* an app it registered or updated is there with that configuration, one it
\* removed or was refused is not, and a rollout that succeeded is the newest
\* in the history.
AckedIsDurable ==
  \A n \in Names : Settled(n) =>
    /\ told[n] = "removed" => by_name[n] = Nobody
    /\ told[n] \in Confs => by_name[n] # Nobody /\ app[by_name[n]].conf = told[n]
    /\ told_tag[n] # None => by_name[n] # Nobody /\ app[by_name[n]].tag = told_tag[n]

\* Once the daemon serves, every container and every endpoint on the host is
\* the one its app is in the state to have, or belongs to an operation that is
\* at work on it, or is what a step that failed left there (a launch, a thaw,
\* the discovery or the reattachment of a survivor, whose comments say
\* "leaving as Stopped").  No app runs on such a leftover: it is in the slot of
\* an app that is stopped or starting, or in no app's slot.
HostAccounted ==
  phase = "up" => \A c \in Containers : box[c] # "absent" \/ c \in net =>
    \/ \E a \in Operators : req[a].name = c[1]
    \/ \E h \in Registered :
         /\ c = Current(h)
         /\ app[h].state \in {"Starting", "Running", "Frozen", "Stopping"}
         /\ app[h].state = "Frozen" => box[c] = "paused"
         /\ box[c] = "paused" => app[h].state \in {"Frozen", "Starting"}
    \/ /\ c \in left
       /\ \A h \in Registered : c = Current(h) => app[h].state \in {"Stopped", "Starting"}

\* A container that outlived the daemon is not torn down by the boot unless it
\* is one of two; its claim is not wasted if its allowlist parses; and when the
\* boot is over its app is served by it, unless it was left.
SurvivorsKept ==
  [][phase = "reattach" /\ phase' # "down" =>
       \A h \in Registered, s \in Slots :
         LET c == <<app[h].name, s>>
         IN  Live(h) = {s} /\ c \in net =>
               /\ c \in net'
               /\ c \in claims \ claims' /\ app[h].conf \notin Unparsed => c \notin left'
               /\ phase' = "eager" /\ c \notin left =>
                    /\ app[h].slot = s
                    /\ app[h].state = IF box[c] = "paused" THEN "Frozen" ELSE "Running"]_vars

\* A PATCH that was answered with success is what the app runs: "so the new
\* config takes effect" (crud.rs:79-81), and after a 409 "the caller should
\* retry once the state settles" (error.rs:83-84).
UpdateTakesEffect ==
  \A n \in Names : Settled(n) /\ told[n] \in Confs /\ by_name[n] # Nobody =>
    LET h == by_name[n]
    IN  app[h].state = "Running" /\ box[Current(h)] = "running" =>
          runs[Current(h)] = told[n]

=============================================================================
