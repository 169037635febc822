------------------------------- MODULE Router -------------------------------
(***************************************************************************)
(* bugpot-router: the limits on requests and upgrades, and the splice that *)
(* carries an upgraded connection, on top of the loops that must leave     *)
(* such a connection alone (Pressure).                                     *)
(*                                                                         *)
(* A request is served inside one future: queue, resolve, the exchange     *)
(* with the upstream.  A hang-up or the TimeoutLayer drops it at any of    *)
(* these awaits.  A splice is a task of its own.                           *)
(***************************************************************************)
EXTENDS Pressure

CONSTANTS
  Requests,                \* the connections of clients, one request at a time
  MAX_CONCURRENT_REQUESTS,
  MAX_CONCURRENT_UPGRADES,
  IDLE,                    \* UPGRADE_IDLE_TIMEOUT, in units of the clock below
  MaxChunks                \* bound on what one end sends through a splice

ASSUME RouterAssumption ==
  /\ IsFiniteSet(Requests) /\ MaxChunks \in Nat
  /\ MAX_CONCURRENT_REQUESTS \in Nat \ {0}
  /\ MAX_CONCURRENT_UPGRADES \in Nat \ {0}
  /\ IDLE \in Nat \ {0} /\ IDLE % 2 = 0

VARIABLES
  phase,          \* phase[r]: where the request is
  host,           \* host[r]: the app its Host names, NoApp for none
  upgrade,        \* upgrade[r]: is_upgrade_request
  queue,          \* the requests that wait for a request slot, in order
  request_slots,  \* free slots of the ConcurrencyLimitLayer
  upgrade_slots,  \* free permits of the semaphore
  pipe,           \* pipe[r][d]: direction d of the splice of r
  quiet,          \* quiet[r]: the time since either end was last read
  sleep,          \* sleep[r]: the time until its watchdog wakes
  broken          \* the splices an end of which is gone without a close

requestVars == <<phase, host, upgrade, queue, request_slots, upgrade_slots>>
spliceVars == <<pipe, quiet, sleep, broken>>
vars == <<pressureVars, requestVars, spliceVars>>

Directions == {"c_to_s", "s_to_c"}

\* The watchdog looks twice per idle timeout.
TICK == IDLE \div 2

\* What the reading end has been sent and not read, what lies in the buffer,
\* whether it has reached its end of file and the copy has shut the writing
\* end down; sent only counts towards MaxChunks.
NewPipe == [sent |-> 0, unread |-> 0, buffer |-> 0, eof |-> FALSE, shut |-> FALSE]

InHandler == {"resolve", "forward", "connect"}
HoldsPermit == {"connect", "handshake", "splice"}
Counted == {"handshake", "splice"}

Phases == {"idle", "queued"} \cup InHandler \cup HoldsPermit

Init ==
  /\ PressureInit
  /\ phase = [r \in Requests |-> "idle"]
  /\ host = [r \in Requests |-> NoApp]
  /\ upgrade = [r \in Requests |-> FALSE]
  /\ queue = <<>>
  /\ request_slots = MAX_CONCURRENT_REQUESTS
  /\ upgrade_slots = MAX_CONCURRENT_UPGRADES
  /\ pipe = [r \in Requests |-> [d \in Directions |-> NewPipe]]
  /\ quiet = [r \in Requests |-> 0]
  /\ sleep = [r \in Requests |-> 0]
  /\ broken = {}

Goto(r, p) == phase' = [phase EXCEPT ![r] = p]

\* Nothing is left of the request.
Forget(r) ==
  /\ host' = [host EXCEPT ![r] = NoApp]
  /\ upgrade' = [upgrade EXCEPT ![r] = FALSE]

-----------------------------------------------------------------------------
(* A request *)

\* A client sends a request; poll_ready of the layer puts it in line.
Arrive(r) ==
  /\ r \in load.clients
  /\ phase[r] = "idle"
  /\ Goto(r, "queued")
  /\ host' \in {[host EXCEPT ![r] = a] : a \in load.apps \cup {NoApp}}
  /\ upgrade' \in {[upgrade EXCEPT ![r] = b] : b \in {FALSE, load.upgrades}}
  /\ queue' = Append(queue, r)
  /\ UNCHANGED <<pressureVars, request_slots, upgrade_slots, spliceVars>>

\* Mutant: whoever comes along takes the free slot.
Enter_barging(r) ==
  /\ phase[r] = "queued"
  /\ request_slots > 0
  /\ Goto(r, "resolve")
  /\ queue' = Without(queue, r)
  /\ request_slots' = request_slots - 1
  /\ UNCHANGED <<pressureVars, host, upgrade, upgrade_slots, spliceVars>>

\* tokio's semaphore serves its waiters in order.
Enter(r) ==
  /\ phase[r] = "queued"
  /\ Head(queue) = r
  /\ request_slots > 0
  /\ Goto(r, "resolve")
  /\ queue' = Tail(queue)
  /\ request_slots' = request_slots - 1
  /\ UNCHANGED <<pressureVars, host, upgrade, upgrade_slots, spliceVars>>

\* The handler has returned a response: its future and what it holds are gone.
Answer(r) ==
  /\ Goto(r, "idle")
  /\ Forget(r)
  /\ request_slots' = request_slots + 1
  /\ UNCHANGED <<queue, spliceVars>>

\* NoSuchApp is a 404, Unhealthy a 502: ensure_running has failed, and the app
\* is Stopped.
ResolveFails(r) ==
  /\ phase[r] = "resolve"
  /\ \/ host[r] = NoApp /\ UNCHANGED pressureVars
     \/ /\ host[r] # NoApp
        /\ state[host[r]] # "Running"
        /\ state' = [state EXCEPT ![host[r]] = "Stopped"]
        /\ Accessed(host[r])
        /\ UNCHANGED <<load, active_upgrades, freezing, mem_available, loopVars>>
  /\ Answer(r)
  /\ UNCHANGED upgrade_slots

\* The app is up; forward sends the request on.
ResolvedPlain(r) ==
  /\ phase[r] = "resolve"
  /\ host[r] # NoApp
  /\ ~upgrade[r]
  /\ Touch(host[r])
  /\ Goto(r, "forward")
  /\ UNCHANGED <<load, active_upgrades, freezing, mem_available, loopVars,
                 host, upgrade, queue, request_slots, upgrade_slots, spliceVars>>

\* forward_upgrade reserves a permit before it asks the upstream.
ResolvedUpgrade(r) ==
  /\ phase[r] = "resolve"
  /\ host[r] # NoApp
  /\ upgrade[r]
  /\ upgrade_slots > 0
  /\ Touch(host[r])
  /\ Goto(r, "connect")
  /\ upgrade_slots' = upgrade_slots - 1
  /\ UNCHANGED <<load, active_upgrades, freezing, mem_available, loopVars,
                 host, upgrade, queue, request_slots, spliceVars>>

\* 503: every permit is taken.
UpgradeRefused(r) ==
  /\ phase[r] = "resolve"
  /\ host[r] # NoApp
  /\ upgrade[r]
  /\ upgrade_slots = 0
  /\ Touch(host[r])
  /\ Answer(r)
  /\ UNCHANGED <<load, active_upgrades, freezing, mem_available, loopVars, upgrade_slots>>

\* The upstream's head, its refusal (502) or nothing in time (504).
Forwarded(r) ==
  /\ phase[r] = "forward"
  /\ Answer(r)
  /\ UNCHANGED <<pressureVars, upgrade_slots>>

\* No response, or one that is not 101: the permit is dropped on return.
NotUpgraded(r) ==
  /\ phase[r] = "connect"
  /\ Answer(r)
  /\ upgrade_slots' = upgrade_slots + 1
  /\ UNCHANGED pressureVars

\* 101: the guard counts the upgrade, the task that owns it and the permit is
\* spawned, the response goes out.
Upgraded(r) ==
  /\ phase[r] = "connect"
  /\ Goto(r, "handshake")
  /\ active_upgrades' = [active_upgrades EXCEPT ![host[r]] = @ + 1]
  /\ request_slots' = request_slots + 1
  /\ UNCHANGED <<load, state, recency, freezing, mem_available, loopVars, older, steady,
                 host, upgrade, queue, upgrade_slots, spliceVars>>

\* A hang-up while the request waits in line.
Leave(r) ==
  /\ phase[r] = "queued"
  /\ Goto(r, "idle")
  /\ Forget(r)
  /\ queue' = Without(queue, r)
  /\ UNCHANGED <<pressureVars, request_slots, upgrade_slots, spliceVars>>

\* Mutant: a dropped future returns no permit.
Dropped_leaks(r) ==
  /\ phase[r] \in InHandler
  /\ Answer(r)
  /\ UNCHANGED <<pressureVars, upgrade_slots>>

\* The TimeoutLayer's 504 or a hang-up drops the handler's future, with the
\* permit if it has one.
Dropped(r) ==
  /\ phase[r] \in InHandler
  /\ Answer(r)
  /\ upgrade_slots' = upgrade_slots + (IF phase[r] = "connect" THEN 1 ELSE 0)
  /\ UNCHANGED pressureVars

-----------------------------------------------------------------------------
(* The splice task *)

\* The task returns: guard and permit are dropped.
EndSplice(r) ==
  /\ Goto(r, "idle")
  /\ Forget(r)
  /\ upgrade_slots' = upgrade_slots + 1
  /\ active_upgrades' = [active_upgrades EXCEPT ![host[r]] = @ - 1]
  /\ pipe' = [pipe EXCEPT ![r] = [d \in Directions |-> NewPipe]]
  /\ quiet' = [quiet EXCEPT ![r] = 0]
  /\ sleep' = [sleep EXCEPT ![r] = 0]
  /\ broken' = broken \ {r}
  /\ UNCHANGED <<load, state, recency, freezing, mem_available, loopVars, older, steady,
                 queue, request_slots>>

\* Both ends have been upgraded.
Handshake(r) ==
  /\ phase[r] = "handshake"
  /\ Goto(r, "splice")
  /\ sleep' = [sleep EXCEPT ![r] = TICK]
  /\ UNCHANGED <<pressureVars, host, upgrade, queue, request_slots, upgrade_slots, pipe, quiet, broken>>

HandshakeFails(r) ==
  /\ phase[r] = "handshake"
  /\ EndSplice(r)

\* An end sends, or closes its half.
Send(r, d) ==
  /\ phase[r] = "splice"
  /\ ~pipe[r][d].eof
  /\ \/ /\ pipe[r][d].sent < MaxChunks
        /\ pipe' = [pipe EXCEPT ![r][d].sent = @ + 1, ![r][d].unread = @ + 1]
     \/ pipe' = [pipe EXCEPT ![r][d].eof = TRUE]
  /\ UNCHANGED <<pressureVars, requestVars, quiet, sleep, broken>>

\* read: at most what the buffer takes, and only once the buffer is written.
Read(r, d) ==
  /\ phase[r] = "splice"
  /\ ~pipe[r][d].shut
  /\ pipe[r][d].buffer = 0 /\ pipe[r][d].unread > 0
  /\ pipe' = [pipe EXCEPT ![r][d].unread = @ - 1, ![r][d].buffer = 1]
  /\ quiet' = [quiet EXCEPT ![r] = 0]
  /\ UNCHANGED <<pressureVars, requestVars, sleep, broken>>

\* write_all; a slow reader may keep it waiting.
Write(r, d) ==
  /\ phase[r] = "splice"
  /\ pipe[r][d].buffer = 1
  /\ pipe' = [pipe EXCEPT ![r][d].buffer = 0]
  /\ UNCHANGED <<pressureVars, requestVars, quiet, sleep, broken>>

\* Mutant: the end of file overtakes what is still to be read.
Shut_eagerly(r, d) ==
  /\ phase[r] = "splice"
  /\ ~pipe[r][d].shut
  /\ pipe[r][d].eof /\ pipe[r][d].buffer = 0
  /\ pipe' = [pipe EXCEPT ![r][d].shut = TRUE]
  /\ UNCHANGED <<pressureVars, requestVars, quiet, sleep, broken>>

\* A read of zero bytes: shut the other end's reading side down.
Shut(r, d) ==
  /\ phase[r] = "splice"
  /\ ~pipe[r][d].shut
  /\ pipe[r][d].eof /\ pipe[r][d].unread = 0 /\ pipe[r][d].buffer = 0
  /\ pipe' = [pipe EXCEPT ![r][d].shut = TRUE]
  /\ UNCHANGED <<pressureVars, requestVars, quiet, sleep, broken>>

Finished(r) == \A d \in Directions : pipe[r][d].shut

\* Mutant: the first direction to finish ends the splice.
Join_first(r) ==
  /\ phase[r] = "splice"
  /\ \E d \in Directions : pipe[r][d].shut
  /\ EndSplice(r)

\* try_join: both directions are through.
Join(r) ==
  /\ phase[r] = "splice"
  /\ Finished(r)
  /\ EndSplice(r)

\* A client vanishes, or the container of the app.
Break(r) ==
  /\ phase[r] = "splice"
  /\ r \notin broken
  /\ broken' = broken \cup {r}
  /\ UNCHANGED <<pressureVars, requestVars, pipe, quiet, sleep>>

\* A read, a write or a shutdown fails.
SpliceError(r) ==
  /\ r \in broken
  /\ EndSplice(r)

\* Mutant: the watchdog looks once per timeout.
Watchdog_lazy(r) ==
  /\ phase[r] = "splice"
  /\ sleep[r] = 0
  /\ IF quiet[r] >= IDLE
     THEN EndSplice(r)
     ELSE /\ sleep' = [sleep EXCEPT ![r] = IDLE]
          /\ UNCHANGED <<pressureVars, requestVars, pipe, quiet, broken>>

\* The watchdog wakes: the splice is idle, or it sleeps again.
Watchdog(r) ==
  /\ phase[r] = "splice"
  /\ sleep[r] = 0
  /\ IF quiet[r] >= IDLE
     THEN EndSplice(r)
     ELSE /\ sleep' = [sleep EXCEPT ![r] = TICK]
          /\ UNCHANGED <<pressureVars, requestVars, pipe, quiet, broken>>

\* A unit of time.  Timers fire when they are due.
Elapse(r) ==
  /\ phase[r] = "splice"
  /\ sleep[r] > 0
  /\ sleep' = [sleep EXCEPT ![r] = @ - 1]
  /\ quiet' = [quiet EXCEPT ![r] = @ + 1]
  /\ UNCHANGED <<pressureVars, requestVars, pipe, broken>>

-----------------------------------------------------------------------------

Loops ==
  \/ Tick \/ Evict
  \/ \E a \in Apps : Scan(a)

LoopStep == Loops /\ UNCHANGED <<requestVars, spliceVars>>

Handler(r) ==
  \/ Enter(r)
  \/ ResolveFails(r) \/ ResolvedPlain(r) \/ ResolvedUpgrade(r) \/ UpgradeRefused(r)
  \/ Forwarded(r) \/ NotUpgraded(r) \/ Upgraded(r) \/ Dropped(r)

SpliceTask(r) ==
  \/ Handshake(r) \/ HandshakeFails(r)
  \/ Join(r) \/ SpliceError(r)
  \/ \E d \in Directions : Read(r, d) \/ Write(r, d) \/ Shut(r, d)

Next ==
  \/ LoopStep
  \/ /\ MemoryChanges \/ \E a \in Apps : FreezeDecide(a) \/ FreezeCommit(a)
     /\ UNCHANGED <<requestVars, spliceVars>>
  \/ \E r \in Requests :
       \/ Arrive(r) \/ Leave(r) \/ Handler(r)
       \/ SpliceTask(r) \/ Watchdog(r) \/ Elapse(r)
       \/ Break(r) \/ \E d \in Directions : Send(r, d)

\* The pressure loop's timer and calls, the TimeoutLayer, the clock and the
\* watchdog go on; what clients and upstreams do is their own affair, and what
\* the loops of the copies do is needed for nothing below.
Fairness ==
  /\ WF_vars(LoopStep)
  /\ \A r \in Requests :
       /\ WF_vars(Handler(r))
       /\ WF_vars(Handshake(r) \/ HandshakeFails(r))
       /\ WF_vars(Watchdog(r) \/ Elapse(r))

RouterSpec == Init /\ [][Next]_vars /\ Fairness

-----------------------------------------------------------------------------
(* Properties *)

\* Type invariant: neither semaphore holds more than it was created with, the
\* counters never underflow, and the loop looks for a candidate only while it
\* evicts.
RouterTypeOK ==
  /\ load \in Loads
  /\ state \in [Apps -> {"Stopped", "Running", "Frozen"}]
  /\ recency \in SetToSeqs(Apps)
  /\ active_upgrades \in [Apps -> 0..MAX_CONCURRENT_UPGRADES]
  /\ freezing \subseteq Apps /\ unscanned \subseteq Apps
  /\ older \subseteq Apps /\ steady \subseteq Apps
  /\ mem_available \in load.readings
  /\ candidate \in Apps \cup {NoApp}
  /\ evicting \in BOOLEAN /\ short \in BOOLEAN
  /\ ~Asleep => evicting
  /\ phase \in [Requests -> Phases]
  /\ host \in [Requests -> Apps \cup {NoApp}]
  /\ upgrade \in [Requests -> BOOLEAN]
  /\ queue \in Seq(Requests)
  /\ request_slots \in 0..MAX_CONCURRENT_REQUESTS
  /\ upgrade_slots \in 0..MAX_CONCURRENT_UPGRADES
  /\ pipe \in [Requests -> [Directions ->
       [sent : 0..MaxChunks, unread : 0..MaxChunks, buffer : {0, 1},
        eof : BOOLEAN, shut : BOOLEAN]]]
  /\ quiet \in [Requests -> Nat] /\ broken \subseteq Requests /\ sleep \in [Requests -> 0..TICK]

\* Every slot and permit is free or held by somebody who will return it, on
\* whichever path a request or a splice ends: answered, refused, timed out,
\* hung up on, joined, broken, idle (router lib.rs:300-304, 528, 572-577).
SlotsAccounted ==
  /\ request_slots + Cardinality({r \in Requests : phase[r] \in InHandler}) = MAX_CONCURRENT_REQUESTS
  /\ upgrade_slots + Cardinality({r \in Requests : phase[r] \in HoldsPermit}) = MAX_CONCURRENT_UPGRADES
  /\ ToSet(queue) = {r \in Requests : phase[r] = "queued"}
  /\ IsInjective(queue)

\* An app's counter is the number of its connections whose 101 has been sent
\* and whose task has not ended: drain and freeze rely on its reaching zero
\* then and not before (router lib.rs:564-606).
UpgradesCounted ==
  \A a \in Apps :
    active_upgrades[a] = Cardinality({r \in Requests : phase[r] \in Counted /\ host[r] = a})

\* The limits and the counter go by what is really under way: neither a leaked
\* permit, which would end all upgrades, nor a counter that reads zero too early,
\* at which an app is frozen or drained under a client.
RouterInv == RouterTypeOK /\ SlotsAccounted /\ UpgradesCounted

\* A half-close reaches the other end only after everything that was sent
\* before it (router lib.rs:629-660).
HalfCloseDelivers ==
  \A r \in Requests, d \in Directions :
    pipe[r][d].shut => pipe[r][d].unread = 0 /\ pipe[r][d].buffer = 0

\* An upgraded connection that is quiet is torn down within one and a half
\* times the idle timeout (router lib.rs:662-675).
QuietIsBounded == \A r \in Requests : quiet[r] < IDLE + TICK

\* A splice ends for a cause: both ends have closed and got everything, an
\* error, or a full idle timeout without a byte (router lib.rs:607-614).
SplicesEndForCause ==
  [][\A r \in Requests :
        phase[r] = "splice" /\ phase'[r] # "splice" =>
          Finished(r) \/ quiet[r] >= IDLE \/ r \in broken]_vars

\* An eviction happens only after memory was read below lo_bytes, and never
\* again after hi_bytes was read, until it is short once more.  Of the apps that
\* were frozen and untouched during the scan, it takes the one idle for longest,
\* whatever the others did meanwhile (loops.rs:36-38, 89-104).
EvictsRightly ==
  [][Evict =>
       /\ short
       /\ candidate \in steady => \A b \in steady \ {candidate} : Before(candidate, b)]_vars

\* If memory stays short, an app that is left alone does not stay frozen, even
\* though other apps are frozen and resumed all the time.
PressureEvicts ==
  \A a \in Apps : ~<>[](mem_available # NoReading /\ mem_available < lo_bytes /\ state[a] = "Frozen")

\* Whoever is in line gets its turn, since every exchange is timed out.
RequestsServed == \A r \in Requests : phase[r] = "queued" ~> phase[r] # "queued"

\* A splice whose ends have fallen silent ends and gives its permit back, even
\* if one end never reads what it is sent.
SplicesEnd == \A r \in Requests : phase[r] = "splice" ~> phase[r] # "splice"

\* No client keeps the others out for ever, neither by a request that takes too
\* long nor by a connection it forgot (router lib.rs:296-304, 662-675).
LimitsRelent == RequestsServed /\ SplicesEnd

=============================================================================
