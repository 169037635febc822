# Verification of bugpot

bugpot is a single-host container platform: one daemon routes HTTP by subdomain
to apps, starts an app's container on its first request, freezes it when idle,
stops frozen apps under memory pressure and replaces containers blue-green when
a new tag is rolled out. This directory holds TLA+ models of its controller,
the TLC instances that check them, and theorems about them with TLAPS proofs.

Paths below are relative to `src/crates/`. Line numbers are in `PROJECT.json`,
which also maps every definition to the code it stands for.

## 1. Inventory

| Component | State it keeps | Operations | Interacts with |
|---|---|---|---|
| App handle, `bugpot-core/src/handle.rs` | `AppState` (Stopped, Starting, Running, Frozen, RollingOver, Stopping) with its payload, current slot, last access, rollout history, digest cache, CPU baseline; `active_upgrades` outside the mutex | `claim_start_slot`, `finish_start`, `live_container_ids`, predicates | every operation below shares it |
| Lifecycle, `ops/lifecycle.rs` | none of its own; locals across awaits | `ensure_running`, `do_start`, `do_resume`, `freeze`, `stop`, `teardown_containers` | runtime, egress, handle |
| Rollouts, `ops/rollout.rs` | locals across awaits | `set_rollout`, `apply_change`, `do_blue_green`, drain | lifecycle phases, store, handle |
| Loops, `ops/loops.rs`, `mempressure.rs` | `evicting` | sweep (liveness, idle), LRU eviction with hysteresis | lifecycle |
| CRUD and registry, `ops/crud.rs`, `registry.rs` | `by_name`, `by_subdomain` | deploy, update, remove | store, lifecycle, rollouts |
| Persistence, `store.rs`, `persist.rs` | spec and rollout files | persist, discard, remove | CRUD, rollouts, boot |
| Boot and shutdown, `ops/boot.rs` | startup claims | reattach, orphan cleanup, always-on deploys, teardown | all |
| Resolver, `ops/resolver.rs` | none | `resolve` | registry, `ensure_running` |
| Egress endpoints, `bugpot-egress` `lib.rs`, `allocator.rs`, `endpoints.rs`, `netns.rs` | free addresses, endpoints by name and by address, kernel namespaces | allocate, release, reattach, discover | kernel |
| Egress DNS and firewall, `dns.rs`, `nft.rs`, `allowlist.rs` | nft allow set with a TTL | query, register, flush | endpoints |
| Runtime, `bugpot-runtime/src/runtime.rs` | libcontainer state directories | start, stop, freeze, unfreeze, status, cleanup | libcontainer |
| Puller, `image.rs` | in-flight map, image cache | coalesced pull, GC | registry server |
| Router, `bugpot-router` | upgrade permits, client pool | forward, upgrade, splice | resolver |
| Admin API, `bugpot-admin` | deploy token key | handlers, token check | controller |
| Config, `bugpot-config`; OCI spec, `bugpot-runtime/src/spec.rs` | none | validation, derived environment | CRUD, runtime |
| Metrics, `bugpotd`, CLI | none relevant here | bootstrap, shutdown | all |

What is hard about it:

* **Overlap.** The daemon runs on tokio's multi-threaded runtime. The handle's
  mutex is held only for single reads and writes of the state; between them an
  operation awaits the puller, libcontainer, `ip netns`, a probe, a drain. Any
  number of requests, one sweep, the pressure loop and any number of admin
  calls are in flight on one app.
* **Dropped futures.** `ensure_running` runs inside the request that claimed
  the start, and the router's `TimeoutLayer` or a hang-up drops it at an await;
  the same goes for an admin call that runs a rollout.
* **Partial failure.** A start takes an address, a namespace and a container
  in turn and must give back what it took. What a failed launch, resume or
  reattachment leaves on the host meets later starts, rollouts and boots.
* **Names instead of identities.** Containers, namespaces and endpoints are
  addressed by `<name>-<slot>`; two operations that use one slot at once act
  on each other's container.
* **Restarts.** Containers and namespaces outlive the daemon. What it did last
  must be found again from two files per app, libcontainer's state and the
  addresses in the namespaces, whatever step it died at.
* **Limits.** Slots, permits and counters must come back on every path a
  request or a spliced connection may end.

What makes the components correct: one start at a time, and every start, waiter
and rollover has somebody who will end it; the address handed to a request is
the one of the current container and leads somewhere; a failed start or rollout
gives back its addresses and takes nothing down, and what it leaves is known; addresses are owned once and come
back; a rollout never interrupts service, and success means its image serves.
What an operator was told holds across restarts; indexes, files and memory
agree; a pull is done once and its result is complete; an upgraded connection
ends for a cause; the firewall is opened for the app that asked, and no other.

## 2. Modules

| Module | Models | State |
|---|---|---|
| `Containers` | the effect of `RuntimeOps` and `EgressOps` on one app's two slots | `container`, `image`, `attached`, `netns`, `endpoint`, `free` |
| `AppHandle` | `HandleInner` and its methods | `state`, `container_ip`, `notify`, `current_slot`, `rollouts`, `recent` |
| `Lifecycle` | `ensure_running`, starts, resumes, the sweep, freeze, eviction, stop, removal; requests and their upgrades, dropped futures, crashes, the clock | `pc` and the locals of every task, `registered` |
| `Rollover` | `set_rollout` next to all of `Lifecycle` | `from_ip` |
| `AppStateMachine` | abstract: the transitions `AppState` promises and what each does to the address | `state`, `ip` |
| `Egress` | `EgressOps` step by step over several names, the DNS handler, the allow set, restarts and reattachment | allocator, endpoint store, namespaces, `allow4`, startup claims |
| `Allowlist`, `Firewall` | pure: the rules of `allowlist.rs`; the chains `nft.rs` renders, as the kernel evaluates them | |
| `EndpointPool` | abstract: who holds which address | `held` |
| `ImagePuller` | pulls that coalesce, the cache directories and bundles, extraction on blocking threads, dropped callers, the collection at startup | `inflight`, `guard`, `resolved`, `dir`, `bundle`, `step`, `job` |
| `Registration` | `deploy_app`, `update_app`, `set_rollout`, `remove_app` over the indexes, the files and the containers; crash, shutdown, boot, reattachment, eager starts | `app`, both indexes, both files, `box`, `net`, requests and what operators know |
| `Pressure` | the idle reaper and the memory-pressure loop over several apps | `evicting`, the scan, `recency`, thresholds |
| `Router` | request slots and their queue, upgrade permits and counters, the splice with half-close and watchdog, on top of `Pressure` | `phase`, `queue`, free slots and permits, `pipe`, timers |
| `SpecRules` | pure: `AppSpec::validate`, image references, `registry_host`, `subdomain_of`, `derive_env`; `UpTo` and `AfterLast` are the first pieces of `split` and `rsplit` | |
| `DeployKey` | pure: the deploy token and the layout of the HMAC's input | |
| `MC...` | TLC instances of the above; `MCSpecs` also states what the pure rules are for | |
| `LifecycleProofs`, `RolloverProofs`, `SingleRolloutProofs`, `EgressProofs`, `ImagePullerProofs`, `RegistrationProofs`, `RouterProofs`, `SpecProofs` | theorems about the module each is named for; the third about `Rollover`, the last about `SpecRules`, `DeployKey` and `MCSpecs` | |

`Containers <- AppHandle <- Lifecycle <- Rollover` extend one another, and so do
`Allowlist, Firewall <- Egress` and `Pressure <- Router`. `Lifecycle`
instantiates `AppStateMachine` with `ip <- container_ip`, `Egress` instantiates
`EndpointPool` with `held` computed from the store, the calls in flight and the
startup claims.

**Lifecycle, Rollover.** A *task* is a tokio task inside one operation. `pc[t]`
is the point it has reached; a step is what it does between two accesses to
shared state: one section under the handle's mutex, or one call of the runtime
or the egress layer. `slot`, `addr`, `tag`, `held`, `work`, `live_ids` are the
locals `container_id`, `container_ip`/result, the rollout's tag, the cloned
`Notify`, and the lists of container ids. Since `do_start` and `build_to_slot`
go through the same phases with the same unwinding, they share the actions, and
`building` tells which of the two a task is in. The payload of the `AppState`
variant is kept in `container_ip` and `notify`. A `Notify` is named by the task
that created it: a task has at most one at a time that can still be signalled.
`Nobody` is a `Notify` whose owner is gone. `notify_waiters` stores no permit:
`NotifyWaiters` wakes the parked tasks and nobody else. `Cancel(t)` is enabled
at every await of a request or an admin call and undoes nothing; `Cancellable`
says which tasks it may hit. An image tag stands for the digest it resolves to.
`recent` stands for `last_access.elapsed() < idle_timeout`. `attached[s]` is
the address of the namespace the container joined, which need not be the one
now called `<name>-<s>`. `allocate_endpoint` and `release_endpoint` are single
steps here; `Egress` has their inside. `launch_container` may fail before it
touches the state directory, in `build()`, or after it: `StartAppFails` has all
of these, the last leaving a container that is created or runs.

**Egress.** `call[n]` is the call in flight for endpoint name `n`: an app's
state machine runs one at a time per slot. `release_endpoint` is `Release`
(store, then pool), `FlushList` and `FlushDelete` (the listing of the allow set
and the script made of it), `Detach`. `dns[q]` is a query between the lookup of
its source in the store, the upstream's answer and the registration of each
address. Attach is atomic but may fail, leaving nothing, the old namespace or a
bare one, by what `force_detach_endpoint` makes of it. `Restart` empties
memory, reinstalls the table, and discovers what still has an address.
`allocate_endpoint` does not look whether the name has an endpoint already. After
a resume that failed (fault `resume`) it has: the insert overwrites the entry by
name, the one by address stays, and that address is given back by no later call.
`lost` remembers such addresses, and those of a `reattach_endpoint` whose list
does not parse. A launch that failed after its container was built (fault
`launch`) leaves it in the namespace that `release_endpoint` takes away. A
container sends a query if its namespace has an address. `Covers`, `AllowedBy`
and `AllowedNames` are no code: they say what the header of `allowlist.rs` says
of the rules, and the properties compare the code's matching with them.

**ImagePuller.** `guard` is the set of leaders whose barrier is locked. A
dropped leader loses its guard and leaves its slot in the map; its extraction,
on a blocking thread, goes on as `job`. `Index` and `Platform` tell the digest
a manifest probe reports from the one an image is stored under: for a
multi-platform image they differ, which is why waiters learn the digest from
their leader. `window[t]` remembers what the reference stood for while `t`, or
a pull it joined, was at work.

**Registration.** Each request proceeds in the steps between which it waits
for a disk or a container, each a point at which the daemon may die. `told` and
`told_tag` are what an operator may conclude from the answers it got. The
containers are coarser than in `Lifecycle`: an operation that has begun on an
app is not disturbed by another, only by the end of the process, and
`RemoveStop` waits until the app is not busy. Their overlaps are the
subject of `Lifecycle` and `Rollover`. `boots` is the spec that a start or a build
cloned when it began. `Unparsed` are the configurations whose `egress.allow`
does not parse, which nothing validates before an endpoint is allocated or
reattached. `left` is history: the containers that a failed launch, a failed
thaw, an undiscovered address or a failed reattachment left on the host. A file is written in one step, unless
the process ends during it: `fs::write` truncates first, so a spec may be left
that does not parse (`Torn`), or a history that is empty. Writes do not fail
otherwise.

**Router.** `request_slots` and `queue` are tower's `ConcurrencyLimitLayer`,
`upgrade_slots` the semaphore of upgrades, `active_upgrades` the counters of the
handles. `Dropped` is the `TimeoutLayer` or a hang-up, at any await. A direction
of a splice is a `pipe`: what its reading end was sent, the buffer, whether it
has seen the end of file and shut the other end down. Time passes in halves of
the idle timeout; timers fire when they are due. `Pressure` keeps the order of
`last_access` as a sequence and lets a scan take the handles' locks one by one
while apps are frozen, resumed and touched.

**Faults** names, per instance, the failures from outside that may happen.
Calls that must fail for a reason inside the model (a container that already
runs, an exhausted pool) fail whatever `Faults` says.

## 3. Runs

| Run | Instance | Faults | Checks |
|---|---|---|---|
| `sweep` | 2 requests (one upgradable), sweep | crash, launch, readiness, freezer | one start at a time; a frozen app is paused; implements `AppStateMachine` |
| `races` | 2 requests that may be dropped, sweep, eviction | crash, launch | a start keeps its owner and a waiter its waker, whatever stops intervene |
| `rollover` | 2 upgradable requests, 1 rollout at a time | attach, pull, launch, readiness, drain_timeout | no outage; every address handed out is reachable; success means the new image; what fails or ends leaves no address taken, and no container but one whose launch failed half-way |
| `rollouts_overlap` | 2 rollouts | pull, launch, readiness, detach | one build at a time; implements `AppStateMachine`; types and the bound of the history |
| `rollout_stops` | rollout, sweep, removal | crash, launch, delete | `RollingOver` has an owner and addresses stay distinct when the app is frozen, stopped or removed under a rollout |
| `liveness` | request, sweep (no idle timeout), rollout | crash, readiness | starts and rollovers end, parked waiters of a pending start wake, a dead container is noticed |
| `egress` | 2 names, 2 addresses besides the bridge's, 1 query at a time, 4 domains, 2 lists (one does not parse), 1 restart | attach, nft, upstream, resume, launch | every address is free, held by one name or lost for a known cause, and a registered one is reachable; stale queries and flushes do not open or close the firewall for the wrong app; only listed names are looked up and only where they lead is reached; implements `EndpointPool` |
| `pulls` | 2 pulls (one may be dropped), a tag and a pinned reference, 2 images, 1 push, 1 restart | registry, extract | one download at a time; results and bundles stay complete on disk; results are current; every pull returns unless its leader was dropped |
| `restarts` | 2 operators, an app each, 2 subdomains, idle and always-on configurations and one whose allowlist does not parse, 2 tags, 3 requests, 2 ends of the daemon | start, exit, torn, resume, discover | indexes, files and memory agree; what was acknowledged survives; whatever is on the host after a boot has an owner or a failure that left it; survivors are taken back unless such a failure prevents it |
| `traffic` | 2 requests, 2 apps, 1 request slot, 1 permit, idle timeout of 2 units, 1 chunk per direction; 20 units of memory | | slots, permits and counters add up; half-closes deliver; a splice ends for a cause and soon after it fell silent; the right app is evicted, and only under pressure; nobody is kept out for ever |
| `specs` | every text of up to 6 characters over 6 letters, every environment of up to 2 entries | | accepted volumes are mounted apart; references, hosts and tokens are read back as what they were put together of; the right value of a variable wins |
| `lost_update` | 1 operator, 1 app, no failures | | *violated*, see below |

**Bounds.** In the lifecycle instances there is one app with two addresses,
what its two slots can own: a leaked one makes the pool run dry. Two tags tell
the old image from the new; the tasks are the smallest set in which the hazard
occurs. Two names over two addresses let one take what the other gives back, and
a name that loses an address exhaust the pool. Three requests and two ends of
the daemon are a deploy, a rollout and an update or a removal with a crash in
one of them and one in the boot after it. One slot and
one permit are always contended. The idle timeout of two units has the watchdog
look in the middle of it. Memory takes the values just below, at and just under
the thresholds, derived from 20 units as the code derives them from MemTotal.
Six characters hold a label, a separator and another part on either side of every cut.

`CHECK_DEADLOCK FALSE` is set where the system may really stop: after a removal
nothing is left to do, a waiter may wait for ever, every address was lost and a
start fails without effect, the bounds on requests and restarts are used up, a
text has its full length. Symmetry is used only without
liveness properties.

`SplicesEndForCause` is close to what the three actions that end a splice are
guarded by; what it adds is that `try_join!` waits for both directions.

The restrictions are part of what the runs say. `SingleStart`, `NoOutage`,
`ServingReachable`, `SingleRollover` and the refinement of `AppStateMachine`
hold *as long as* nothing that stops the app, or fails and tears down late,
overlaps with them; the open questions below say how they fail otherwise.
`StartHasOwner`, `WaiterHasWaker`, `AddressesDistinct` and `RolloverHasOwner`
hold under every overlap. Section 4 names each restriction as a hypothesis of a
theorem, which the constants of the corresponding run satisfy.

**Fairness.** `FairLifecycleSpec`, `FairRolloverSpec` and `PullSpec` assume weak
fairness of each task's own steps: tokio polls every task that is ready,
blocking threads run, and every call awaited returns (the probe, the drain and
requests have timeouts, `ip` and libcontainer calls end, a registry answers or
the connection fails). `RouterSpec` assumes it of the request handlers (the
timeout layer ends them), the upgrade handshake, the watchdog with the clock,
and the pressure loop. The queue for request slots is first come, first served,
as tokio's semaphore is. Nothing is assumed of clients, upstreams, crashes,
memory or the idle clock.

### A disagreement between the code and what it says

`lost_update`: `update_app` is to "stop + start it so the new config takes
effect" (`bugpot-core/src/ops/crud.rs:79-81`). It takes the handle's lock three
times. When a request thaws the app between the check that it is not busy (108)
and the look at whether a container is live (130-136), the app is `Starting`
there: the spec is replaced and persisted, the answer is 200, and the thawed
container serves on under the old configuration. Sending the update again
compares equal and does nothing.

### Open questions

Seen with these models under other instances, or plainly in the code. They are
what the restrictions above leave out.

Overlapping operations of one app:

* A waiter that has released the mutex with the `Notify` in hand, and has not
  polled `notified()` when the starter commits, misses the signal
  (`ops/lifecycle.rs:54`).
* The request that owns a start is dropped: the app stays `Starting`, and later
  requests wait on a `Notify` without owner (`ops/lifecycle.rs:63-71`). A
  dropped rollout leaves `RollingOver` (`ops/rollout.rs:263`).
* `freeze` writes `Frozen` over whatever a stop made of the state during the
  freezer call (`ops/lifecycle.rs:313`), `finish_start` writes `Running` over
  `Stopping` and `Stopped` (`handle.rs:341`).
* A start in flight outlives `remove_app` and leaves a container nobody accounts
  for (`ops/crud.rs:204`).
* A failed rollout restores `Running` before it tears its slot down; the next
  one may build there and lose its container to the late teardown
  (`ops/rollout.rs:346`).
* The sweep reads the slot, a rollout switches and removes it, the sweep finds it
  dead and stops the app (`ops/loops.rs:143`). The eviction stops its candidate
  though a request has resumed it meanwhile (`ops/loops.rs:112`).
* A request that upgrades after `freeze` read the counter
  (`ops/lifecycle.rs:293`) is spliced to a paused container; one that upgrades
  after the drain read zero (`ops/rollout.rs:438`) loses its container.
* A resume that fails leaves the app `Stopped` with its container and endpoint
  in place (`ops/lifecycle.rs:266-275`). The next start removes the state
  directory under the paused container (`runtime.rs:303-308`), allocates the
  endpoint again over the one that is registered, and the first address is out of
  the pool until a restart (`endpoints.rs:58-67`).
* A launch that fails after `build()` leaves its container, created or running
  (`runtime.rs:323-341`). `do_start` releases the endpoint and stops nothing
  (`ops/lifecycle.rs:114-119`), though its comment says that it stops the
  container of a failure after the start (`:86-89`); the rollout, whose comment
  names this edge (`ops/rollout.rs:356-359`), does. If what was left runs, every
  later start is refused as `AppAlreadyRunning`, nobody stops it, and each
  refused start has replaced its namespace first. Between the release of its
  address and the detach, such a container sends under an address that may have
  a new owner, whose list then decides for it. A `DELETE` of the stopped app
  leaves it, too.
* A rollout that fails stays the newest of the history (`ops/rollout.rs:135`), so
  the next cold start brings up the tag that was rolled back.

Registration, files, boot:

* Two deploys of one name both pass the early check and write the file; the
  loser of `try_insert` deletes it (`ops/crud.rs:56`). In the model each app has
  its own operator.
* A second removal that holds the old handle clears the index entries of an app
  deployed since (`registry.rs:112-118`).
* A rejected deploy whose discard fails, or a crash between its write and its
  insert, comes back as an app at the next boot, possibly with a subdomain
  another app has; `from_handles` gives it to the last.
* A spec whose writing was cut short (`store.rs:97`, `ops/crud.rs:49`) does not
  parse, and `AppHost::new` then refuses to come up, for all apps; a history cut
  short is read as empty.
* A crash between the two deletions of a removal leaves a history that the next
  app of that name inherits.
* An update that could not be persisted is not retried: the retry compares
  equal. An update of an unchanged spec may compare unequal, since `env` is a
  `HashMap`, and rebuild, contrary to `ops/crud.rs:76-78`.
* A malformed `idle_timeout` passes `validate` and makes every later boot fail
  in `deploy_always_on`. `bugpot-config/src/lib.rs:103-104` says that an app
  without one is always on; the default is five minutes (line 120).
* An `egress.allow` that does not parse passes `validate`. A rollout with it is
  rolled back, with the spec persisted; after a restart the running container is
  not taken back and lives on beside its stopped app, whose starts all fail
  (`ops/boot.rs:164-166`, `bugpot-egress/src/lib.rs:436`). If the app is
  always-on, its eager start fails and the daemon does not come up. So does a
  leftover that runs, or a survivor whose address was not discovered, in the slot
  of an always-on app.
* A leftover that runs in one slot and the container that serves from the other
  look like a rollout to the next boot, which purges both
  (`ops/boot.rs:53-58`). A crash while a start that is going to be refused holds
  its endpoint has the boot take the leftover back at the address of its replaced
  namespace, where it does not listen.
* `docs/deploy.md:208` promises four tags of history; `MAX_ROLLOUT_HISTORY` is 2.

Egress, images, router:

* The address is free before the flush and the detach of its release have run
  (`bugpot-egress/src/lib.rs:485`): the flush may delete pairs of its next owner,
  and a failing detach leaves two namespaces on it. A query that was under way
  may add a pair to the next owner (`dns.rs:159`).
* The map entry of a pull whose leader was dropped stays, and its waiters find
  the barrier open and no result again and again (`bugpot-runtime/src/image.rs:243`).
* `set_rollout` rejects a blank tag only (`ops/rollout.rs:104`). One with a
  slash, a colon or an at-sign makes a reference that is read differently;
  `ReferenceResolves` is about tags in the sense of `IsTag`.
* The concurrency limit lies outside the timeout layer, so that the wait in the
  queue is not timed (`bugpot-router/src/lib.rs:296-304`).

## 4. Proofs

Each theorem holds for every value of the constants that its hypothesis allows:
any number of requests, sweeps, rollouts, names, addresses, pulls, operators,
apps, permits, restarts, and texts of any length. `Orderly` and `Removable` are
predicates of the state inside the theorem, `[](Orderly => ...)`: such a theorem
holds with every fault until the hypothesis first fails.

| Theorem | States | Hypothesis |
|---|---|---|
| `TypeCorrect`, `RolloverTypeCorrect` | `TypeOK`, `RolloverTypeOK` | |
| `StartOwned`, `RolloverStartOwned` | `StartHasOwner` | |
| `WaitersPaired`, `RolloverWaitersPaired` | `WaiterHasWaker` | |
| `AddressesUnique`, `RolloverAddressesUnique` | `AddressesDistinct` | |
| `RolloverOwned` | `RolloverHasOwner` | |
| `StartsSingle` | `SingleStart` | `SweepsOnly` |
| `FrozenPaused` | `FrozenIsPaused` | `SweepsOnly` |
| `LifecycleImplements` | `ImplementsAppState` | `SweepsOnly` |
| `RolloversSingle` | `SingleRollover` | `RolloutsOnly` |
| `RolloverImplements` | `ImplementsAppState` | `RolloutsOnly` |
| `NoOutageHolds` | `NoOutage` | `RolloutsOnly` |
| `ServingRouted` | `Routed`: what is served is the container of the current slot at its address, running unless it died of itself | `OneRollout` |
| `ServingReached` | `ServingReachable` | `OneRollout`, no crash fault |
| `RolloutEffective` | `RolloutTakesEffect` | `OneRollout` |
| `NothingLeft` | `NothingLeftBehind` | `OneRollout`, `NothingDropped` |
| `EndpointsHold` | `EndpointsInv` | `Orderly` |
| `ContainmentHolds` | `Contained` | |
| `UpstreamAllowed` | `UpstreamIsAllowed` | |
| `NeighboursKept` | `NeighboursKeepEgress` | |
| `PoolImplemented` | `ImplementsPool` | no restarts, or `Firm` |
| `PullsCoalesce` | `Coalesced` | |
| `PulledStays` | `PulledIsCached` | `Removable` |
| `ResultsCurrent` | `ResultWasCurrent` | |
| `RegistryHolds` | `RegistryInv` | `OwnApps` |
| `AcksDurable` | `AckedIsDurable` | `OwnApps` |
| `HostIsAccounted` | `HostAccounted` | `OwnApps` |
| `SurvivorsStay` | `SurvivorsKept` | `OwnApps` |
| `LimitsHold` | `RouterInv` | |
| `HalfCloseHolds` | `HalfCloseDelivers` | |
| `QuietEnds` | `QuietIsBounded` | |
| `SplicesEndRightly` | `SplicesEndForCause` | |
| `EvictionsRight` | `EvictsRightly` | |
| `TokenBinds` | a token is accepted for what it was issued for | ideal HMAC, names up to `u32::MAX` |
| `ReferenceReadBack` | `ReferenceResolves`, for a repository, tag and digest of any length | |
| `HostReadBack` | `HostReaches`, for a label and a rest of any length | |
| `PartsHold` | `PartsRecovered` | ideal HMAC |

### Hypotheses

Each leaves out an overlap or a failure under which the property is false in the
code; the open questions of section 3 describe them.

* `SweepsOnly`: one sweep at a time (the reaper joins its tasks before the next
  tick), no eviction, removal or rollout. `finish_start` writes `Running` and
  `freeze` writes `Frozen` over what a stop made of the state.
* `RolloutsOnly`: no sweep, eviction or removal. A stop under a rollout has it
  roll back to an address that is gone.
* `OneRollout`: besides, one rollout at a time. One that fails gives the state
  back before it tears its slot down, where the next already builds.
  `ServingReached` also excludes crashes of containers, which nobody notices
  before the next sweep; `ServingRouted` says what remains with them.
* `NothingDropped`: no caller is dropped and no deletion fails. A dropped
  future gives nothing back.
* `Orderly`: the daemon was not restarted yet, or `Firm`: no detach fails, all
  namespaces can be listed and it does not end inside a call. A stale namespace
  may hold an address that was handed out again, and its cleanup at boot frees
  that under its new owner. The other theorems about egress do without: what
  lookups and connections reach does not depend on that bookkeeping.
* `Removable`: no restart yet, or the removal of an image directory at startup
  does not fail half-way: `is_cached` takes the rest for the image.
* `OwnApps`: no app has two operators. Two deploys of one name race for its
  file (`ops/crud.rs:56`).

Assumptions on the constants, which TLC evaluates in every run, are those of
the modules: addresses are positive naturals, `NoTag`, `Nobody`, `None`,
`Torn` and their like are not values they could be mistaken for, tasks are the
union of the kinds of task, which are apart where one task could otherwise be in
two operations, only requests and rollouts are cancelled, names are finitely
many and there is a handle for each, the idle timeout is positive and even (time
passes in halves of it), slots and permits are positive, domains and list
entries are sequences of `Tokens`, separators are no letters of a label.
`CoversAssumption` of `MCEgress` is a table of what the header of `allowlist.rs`
says of the instance's names and lists: it ties `Covers` to the text it stands
for.

### Inductive invariants

None of the properties is inductive alone.

**Lifecycle and rollouts, all overlaps.** `RolloverInv == TypeInv /\ Coalescing
/\ AddressInv /\ RollingInv`:

* `TypeInv` adds to the types that a task in a teardown still has a slot to tear
  down, one about to pull finds a rollout, one about to record has a tag, and a
  building task is in a start phase. Without these, `Head`, `Tail` and the
  current tag would be undefined where the steps use them.
* `Coalescing` is `StartHasOwner /\ WaiterHasWaker`: that a new waiter is paired
  follows from the owner of the start it sees.
* `AddressInv` adds to `AddressesDistinct` that a namespace has the address its
  endpoint owns (unless a detach may fail), since that is what a container
  joins.
* `RollingInv` adds that only rollouts build.

`LifecycleProofs` reduces each action's effect on the host to `HostStep`
(`HostCalls`) and on the control points to a few lemmas (`GotoType`,
`ReturnType`, `TeardownType`, ...); `RolloverProofs` reuses those for the steps
of `Rollover` and cites the lifecycle step lemmas for the rest.

**Starts and the sweep.** `SweepInv`: a task that is starting has `Starting` and
its own `Notify` in the state (`StartsAlone`), and one that freezes or stops
finds at each step the state, the slot and the address it read (`SweepsAlone`). The refinement follows action by action: the abstract address
changes only where `finish_start`, `freeze` and the stop write it.

**Rollouts.** `AloneInv` adds `RollsAlone`: a task that rolls is the one
`RollingOver` stands for, and `from_ip` is still what is served. For one
rollout, `OneInv` adds `Places` (who works on which slot: a start on the current
one, a build on the other, a drain on the one left behind) and `Holds` (what a
task at each point has allocated). From those, `Serves` (a task that is up and
the state that serves point at a running container), `Effective` (a container
that is up past the record has the tag recorded) and `Tidy` (a slot nobody works
on has no address, and no container but one that a failed launch left in the slot
a start will use) are each preserved.

**Egress.** `EgressInv`: the entries of the store's two indexes are where they
say they are (`IndexedRight`) and agree but at lost addresses (`IndexesAgree`); a
call in flight finds what its step needs (`CallsInOrder`); claims, namespaces,
living containers and the list of a flush agree with the store, with what was
lost and with what a failed launch left (`ClaimsPending`, `NamespacesKnown`,
`LivingAttached`, `DoomedOwn`); what a name has lost is
neither its endpoint's nor being attached (`HeldOnce`). `PoolStep` says what an action does to the pool in the
words of the abstract one; each action is shown to be one, which gives
`EndpointsInv` and the refinement together. `LayerInv` is the part that no
disorder breaks (types, namespaces with addresses of the pool, no call and no
service before the boot is over). On it rest `ListsParse` (every list in the
store and in a call parses, every lookup is of an allowed name) and
`PairsAllowed` (what is being registered and what the allow set has is where
allowed names lead). That the code's matching, which looks for a suffix and the
dot before it, is the one `Covers` describes is `SubdomainBelow` and
`MatchAllowed`; that the first rule of a chain that matches decides,
`FirstMatch`.

**ImagePuller.** `PullInv`: a locked barrier has a leader at work and a slot in
the map (`LeadersHold`, `SlotsOpen`), a waiter has the slot of a leader of its
reference (`WaitersPaired`), an extraction writes what its leader fetched
(`JobsFetched`), only what an image is stored under is written
(`PlatformStored`), no directory is partial (`DirsComplete`, under `Removable`),
and the window of a pull has what its leader fetched (`WindowsCover`).

**Registration.** `RegistrationIInv == Typed /\ RequestsInOrder /\ Indexed /\
Mirrored /\ Acked /\ Accounted /\ Booting`. `InOrder(a)` says what the request
of `a` may count on at its point; `MirroredAt(n)` and `AckedAt(n)` what holds of
the files and of what was told while a request is between two of its writes, and
while there is no memory at all; `Shape(h)` which containers and endpoints an app
in each state has; `AtWork(a)` the same for a request that builds or removes.
They speak of `Taken`, the endpoints that are neither waiting to be claimed nor
left by a failure, and let a start or a build find in its slot only what was
left there (`Own`): so what a failure left is never mistaken for a container
that serves. `Endpoints` says that a container has an endpoint unless it was
left; `Booting` that an app the boot has not come to yet is as it was loaded and
that no survivor of one it has passed is still to be claimed. The weight is in `Reattach`, which rebuilds
`Shape` from whatever the end of the last process left, and in `Load`, which
rebuilds `Indexed` and `Mirrored` from the files.

**Router.** `RouterIInv`: slots, permits and each counter equal the free ones
plus the requests at the points that hold one (the cardinalities move by one
with each step: `CountedAt`, `Holders`); a pipe that is shut is drained
(`PipesInOrder`); the time a splice has been quiet and the time until its
watchdog looks stay below the bound together (`WatchKept`); the scan's candidate
is the least recent of those it has passed by and nobody touched since
(`ScanInOrder`), and the loop evicts for a shortage only (`EvictsWhenShort`).

**Specs.** Nothing is inductive here but that the text is one; the weight is in
what `split` and `rsplit` do where two strings meet. `UpTo` and `AfterLast` cut
at the first and the last separator, which exist by well-founded choice from a
finite set (`FirstOf`, `LastOf`). `UpToJoined`, `AfterLastJoined` and
`UpToInFront` say where the cut of `s \o t` falls, depending on which of the two
has the separator; `Rules` collects them for one alphabet. A reference is then
read back because a validated repository has no `@`, and no `:` behind its last
slash. For the token, the length in front of the name fixes where it ends
(`InputLayout`), so equal inputs have equal parts (`InputInjective`).

### Model-checked only

* Liveness (`OperationsEnd`, `WaitersWake`, `DeathNoticed`, `PullsReturn`,
  `PressureEvicts`, `LimitsRelent`), for which the prover has no rule.
* `MountsDistinct` and `EnvironmentResolved`: they are about what `Split`,
  `FoldLeft` and `SelectSeq` make of every list, which are defined by recursion.
  Each fact about them needs an induction whose theorem takes an operator for a
  parameter, which none of the provers can instantiate.
* `UpdateTakesEffect`, which is false.

## 5. Plan

1. *Done*: the app's lifecycle and rollouts; egress, image pulls, registration
   with restarts, router and pressure loops, the pure rules and the deploy
   token; a theorem for every safety and action property that is not about a
   fold.
2. Open: theorems under weaker hypotheses. `StartsSingle` next to evictions, for
   the starts no stop has overtaken; `EndpointsInv` across a restart that found a
   stale namespace, for the names it does not belong to; `NothingLeftBehind` with
   dropped callers, for the slots of the others.
3. Open: `MountsDistinct` and `EnvironmentResolved` for texts of every length,
   from the induction theorems of the library once a prover can use them.

## 6. Not modelled

Metrics and logs: nothing reads what they write. Generation of the OCI spec,
seccomp, capabilities, cgroup limits, volume ownership: configuration and file
I/O without protocol state. Parsing of configuration, secrets and HTTP bodies,
the HTTP status line of the readiness probe, header rewriting and HTTP/2 framing
in the router, layer contents, registry credentials. The read-only views of the
controller and the wording of errors. The CLI is an HTTP client of the admin
API. The kernel, libcontainer, registry servers, upstream resolvers and clients
appear only through the outcomes of the calls on them.

## 7. Running

    tlc -workers 2 -config rollover.cfg MCRollover
    tlapm RolloverProofs.tla

`PROJECT.json` names the module of each configuration.
