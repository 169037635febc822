------------------------------- MODULE Egress -------------------------------
(***************************************************************************)
(* bugpot-egress from the inside: the calls of EgressOps step by step      *)
(* between their awaits, for several endpoint names at once, next to the   *)
(* DNS handler, the nftables allow set they share with it and restarts of  *)
(* the daemon.  The callers run one call per name at a time, as an app's   *)
(* state machine (Lifecycle, Rollover) does for each of its slots, and     *)
(* each call to its end: a caller dropped inside of one is not modelled.   *)
(* What a failure of the callers leaves to this side is: an endpoint they  *)
(* never release ("resume") and a container in a namespace that is taken   *)
(* away ("launch").                                                        *)
(***************************************************************************)
EXTENDS Allowlist, Firewall, FiniteSets

CONSTANTS
  Names,       \* endpoint names, <app>-<slot>
  Lists,       \* the allowlists a name may be given: sequences of entries
  Queries,     \* DNS requests being handled at a time
  Domains,     \* the names that are looked up
  Addrs,       \* Addrs[d]: the addresses domain d resolves to
  Faults,      \* the external failures a configuration allows
  Bare,        \* of a namespace without an address on eth0
  MaxRestarts  \* bound on the restarts of the daemon

ASSUME HostsAssumption == Hosts \subseteq Nat \ {0} /\ bridge_ip \in Hosts
ASSUME NamesAssumption ==
  Domains \subseteq Seq(Tokens) /\ Lists \subseteq Seq(Seq(Tokens))
ASSUME BareAssumption == Bare \notin Hosts \cup {0}
ASSUME RestartsAssumption == MaxRestarts \in Nat

NoAddr == 0
Dsts == UNION {Addrs[d] : d \in Domains}

\* The addresses IpAllocator::new puts into the pool.
Usable == Hosts \ {bridge_ip}

VARIABLES
  free,      \* IpAllocator.free
  by_name,   \* by_name[n], by_ip[ip]: the AllocatedApp of an index, or NoApp
  by_ip,
  ns,        \* ns[n]: address in the namespace bugpot-<n>, Bare, NoAddr if none
  alive,     \* the names with a container living in their namespace
  call,      \* call[n]: the EgressOps call in flight for n
  allow4,    \* the pairs of the allow4 set
  dns,       \* dns[q]: the request a handler works on
  claims,    \* StartupClaims.discovered: names, each with the address in ns
  phase,     \* of the daemon: reattach, orphans, serving
  restarts,
  lost       \* history: lost[n], the addresses of n no call gives back any more

poolVars == <<free, by_name, by_ip, lost>>
bootVars == <<claims, phase, restarts>>
vars == <<free, by_name, by_ip, ns, alive, call, allow4, dns, claims, phase, restarts, lost>>

NoApp == [ip |-> NoAddr]
App(n, ip, list) == [name |-> n, ip |-> ip, allowlist |-> list]
Idle == [step |-> "idle"]

Init ==
  /\ free = Usable
  /\ by_name = [n \in Names |-> NoApp]
  /\ by_ip = [ip \in Hosts |-> NoApp]
  /\ ns = [n \in Names |-> NoAddr]
  /\ alive = {}
  /\ call = [n \in Names |-> Idle]
  /\ allow4 = {}
  /\ dns = [q \in Queries |-> Idle]
  /\ claims = {}
  /\ phase = "serving"
  /\ restarts = 0
  /\ lost = [n \in Names |-> {}]

Goto(n, record) == call' = [call EXCEPT ![n] = record]

\* EndpointStore::insert: both indexes under one lock.
Insert(app) ==
  /\ by_name' = [by_name EXCEPT ![app.name] = app]
  /\ by_ip' = [by_ip EXCEPT ![app.ip] = app]

\* IpAllocator::release, which never takes the bridge or a foreign address.
Released(ip) == free \cup ({ip} \cap Usable)

\* What is left of a namespace by the two detach commands: a failing first
\* one ends run_cmds at once, a failing second one leaves a bare namespace.
Detached(n) ==
  {NoAddr} \cup (IF "detach" \in Faults THEN {ns[n], Bare} ELSE {})

\* A container that lives in the namespace is cut off from it.
DetachNamespace(n) ==
  /\ \E left \in Detached(n) : ns' = [ns EXCEPT ![n] = left]
  /\ alive' = {m \in alive : ns'[m] = ns[m]}

-----------------------------------------------------------------------------
(* allocate_endpoint *)

\* A list that does not parse and an empty pool are errors without effect;
\* otherwise the lowest free address is taken.  Whether the name has an endpoint
\* already is not looked at: after a failed resume its app is Stopped with the
\* endpoint still registered (lifecycle.rs:266), and the next start comes here.
Allocate(n, list) ==
  /\ phase = "serving"
  /\ call[n] = Idle
  /\ by_name[n] = NoApp \/ "resume" \in Faults
  /\ Parses(list)
  /\ \E ip \in free :
       /\ \A lower \in free : ip <= lower
       /\ free' = free \ {ip}
       /\ Goto(n, [step |-> "attach", ip |-> ip, list |-> list])
  /\ UNCHANGED <<by_name, by_ip, ns, alive, allow4, dns, lost, bootVars>>

\* The defensive detach, the nine attach commands, the insert; the container
\* is started next.  The address of an entry that insert overwrites stays in
\* by_ip and is out of reach of every later release.
Attach(n) ==
  /\ call[n].step = "attach"
  /\ ns' = [ns EXCEPT ![n] = call[n].ip]
  /\ alive' = alive \cup {n}
  /\ Insert(App(n, call[n].ip, call[n].list))
  /\ lost' = [lost EXCEPT ![n] = @ \cup ({by_name[n].ip} \ {NoAddr})]
  /\ Goto(n, Idle)
  /\ UNCHANGED <<free, allow4, dns, bootVars>>

\* Mutant: the address of a failed attach is forgotten.
AttachFails_keeps(n) ==
  /\ "attach" \in Faults
  /\ call[n].step = "attach"
  /\ Goto(n, Idle)
  /\ UNCHANGED <<poolVars, ns, alive, allow4, dns, bootVars>>

\* One of the commands fails: what was there of the namespace goes with the
\* detaches around the attempt, and the address is released.  An entry the name
\* had before stays registered, without its namespace.
AttachFails(n) ==
  /\ "attach" \in Faults
  /\ call[n].step = "attach"
  /\ DetachNamespace(n)
  /\ free' = Released(call[n].ip)
  /\ Goto(n, Idle)
  /\ UNCHANGED <<by_name, by_ip, allow4, dns, lost, bootVars>>

-----------------------------------------------------------------------------
(* release_endpoint *)

\* The container was stopped before, unless its launch failed after it was built
\* (lifecycle.rs:111).  Out of both indexes and back into the pool before the
\* kernel is touched.
Release(n) ==
  /\ phase = "serving"
  /\ call[n] = Idle
  /\ by_name[n] # NoApp
  /\ LET ip == by_name[n].ip
     IN  /\ by_name' = [by_name EXCEPT ![n] = NoApp]
         /\ by_ip' = [by_ip EXCEPT ![ip] = NoApp]
         /\ free' = Released(ip)
         /\ Goto(n, [step |-> "list", ip |-> ip])
  /\ alive' = alive \ {n} \/ ("launch" \in Faults /\ UNCHANGED alive)
  /\ UNCHANGED <<ns, allow4, dns, lost, bootVars>>

\* Mutant: the whole set is flushed.
FlushList_all(n) ==
  /\ call[n].step = "list"
  /\ Goto(n, [step |-> "delete", ip |-> call[n].ip, doomed |-> allow4])
  /\ UNCHANGED <<poolVars, ns, alive, allow4, dns, bootVars>>

\* list_allow_set: the pairs to delete are those of the released address.
FlushList(n) ==
  /\ call[n].step = "list"
  /\ Goto(n, [step |-> "delete", ip |-> call[n].ip,
              doomed |-> {p \in allow4 : p[1] = call[n].ip}])
  /\ UNCHANGED <<poolVars, ns, alive, allow4, dns, bootVars>>

\* The delete script is one nft transaction: it fails as a whole if a listed
\* pair has expired meanwhile.  A failure is logged only.
FlushDelete(n) ==
  /\ call[n].step = "delete"
  /\ \/ /\ call[n].doomed \subseteq allow4
        /\ allow4' = allow4 \ call[n].doomed
     \/ /\ "nft" \in Faults \/ ~(call[n].doomed \subseteq allow4)
        /\ UNCHANGED allow4
  /\ Goto(n, [step |-> "detach"])
  /\ UNCHANGED <<poolVars, ns, alive, dns, bootVars>>

Detach(n) ==
  /\ call[n].step = "detach"
  /\ DetachNamespace(n)
  /\ Goto(n, Idle)
  /\ UNCHANGED <<poolVars, allow4, dns, bootVars>>

-----------------------------------------------------------------------------
(* The DNS handler *)

\* decide: by the address the query came from.
Decision(src, domain) ==
  IF by_ip[src] = NoApp THEN "UnknownSource"
  ELSE IF matches_domain(by_ip[src].allowlist, domain) THEN "Allowed" ELSE "Denied"

\* A query of a container that has an address to send it from.  Refused and
\* NXDOMAIN answers change nothing.
Query(q, n, domain) ==
  /\ dns[q] = Idle
  /\ n \in alive
  /\ ns[n] \in Hosts
  /\ Decision(ns[n], domain) = "Allowed"
  /\ dns' = [dns EXCEPT ![q] = [step |-> "resolve", src |-> ns[n], domain |-> domain]]
  /\ UNCHANGED <<poolVars, ns, alive, call, allow4, bootVars>>

\* The upstream's answer; without one the reply is SERVFAIL.
Resolve(q) ==
  /\ dns[q].step = "resolve"
  /\ \/ dns' = [dns EXCEPT ![q] = [step |-> "register", src |-> dns[q].src,
                                   left |-> Addrs[dns[q].domain]]]
     \/ /\ "upstream" \in Faults
        /\ dns' = [dns EXCEPT ![q] = Idle]
  /\ UNCHANGED <<poolVars, ns, alive, call, allow4, bootVars>>

\* One add_allow per address, before the reply.  A failure is logged only.
Register(q, dst) ==
  /\ dns[q].step = "register"
  /\ dst \in dns[q].left
  /\ \/ allow4' = allow4 \cup {<<dns[q].src, dst>>}
     \/ "nft" \in Faults /\ UNCHANGED allow4
  /\ dns' = [dns EXCEPT ![q].left = @ \ {dst}]
  /\ UNCHANGED <<poolVars, ns, alive, call, bootVars>>

Reply(q) ==
  /\ dns[q].step = "register"
  /\ dns[q].left = {}
  /\ dns' = [dns EXCEPT ![q] = Idle]
  /\ UNCHANGED <<poolVars, ns, alive, call, allow4, bootVars>>

\* The set is declared with a timeout: the kernel drops a pair on its own.
Expire(p) ==
  /\ p \in allow4
  /\ allow4' = allow4 \ {p}
  /\ UNCHANGED <<poolVars, ns, alive, call, dns, bootVars>>

-----------------------------------------------------------------------------
(* Restart *)

\* The namespaces called bugpot-<name>.
list_app_namespaces == {n \in Names : ns[n] # NoAddr}

\* An interface without an address and a missing one are both skipped.
read_eth0_ipv4(n) == IF ns[n] \in Hosts THEN ns[n] ELSE NoAddr

discover_endpoints == {n \in list_app_namespaces : read_eth0_ipv4(n) # NoAddr}

\* Mutant: the discovered addresses stay in the pool.
discover_existing_endpoints_unmarked ==
  /\ claims' = discover_endpoints
  /\ free' = Usable

\* A full pool, the discovered addresses marked used.  If the namespaces
\* cannot be listed nothing is discovered.
discover_existing_endpoints ==
  \/ /\ claims' = discover_endpoints
     /\ free' = Usable \ {read_eth0_ipv4(n) : n \in discover_endpoints}
  \/ /\ "discover" \in Faults
     /\ claims' = {}
     /\ free' = Usable

\* The table is deleted and created anew.
install_nftables_ruleset == allow4' = {}

\* The memory of the process starts out empty, and so do its calls.
Fresh ==
  /\ by_name' = [n \in Names |-> NoApp]
  /\ by_ip' = [ip \in Hosts |-> NoApp]
  /\ call' = [n \in Names |-> Idle]
  /\ dns' = [q \in Queries |-> Idle]
  /\ lost' = [n \in Names |-> {}]

\* Egress::new in a new process.  Any container may have died with the old
\* one or since; without the fault "crash" that one left between two calls.
Restart ==
  /\ restarts < MaxRestarts
  /\ "crash" \in Faults \/ \A n \in Names : call[n] = Idle
  /\ restarts' = restarts + 1
  /\ alive' \in SUBSET alive
  /\ install_nftables_ruleset
  /\ Fresh
  /\ discover_existing_endpoints
  /\ phase' = "reattach"
  /\ UNCHANGED ns

\* StartupClaims::claim: each address is claimed once.
Claim(n) ==
  /\ n \in claims
  /\ claims' = claims \ {n}

\* reattach_running claims the address of a container that lives and
\* reattach_endpoint puts it back into the store.
Reattach(n, list) ==
  /\ phase = "reattach"
  /\ n \in alive
  /\ Claim(n)
  /\ Parses(list)
  /\ Insert(App(n, ns[n], list))
  /\ UNCHANGED <<free, ns, alive, call, allow4, dns, phase, restarts, lost>>

\* The persisted list does not parse: nothing is registered, the address stays
\* marked used and the container lives on.
ReattachFails(n, list) ==
  /\ phase = "reattach"
  /\ n \in alive
  /\ Claim(n)
  /\ ~Parses(list)
  /\ lost' = [lost EXCEPT ![n] = @ \cup {ns[n]}]
  /\ UNCHANGED <<free, by_name, by_ip, ns, alive, call, allow4, dns, phase, restarts>>

\* Every survivor with a claim was handled; the rest are orphans.
ReattachDone ==
  /\ phase = "reattach"
  /\ claims \cap alive = {}
  /\ phase' = "orphans"
  /\ UNCHANGED <<poolVars, ns, alive, call, allow4, dns, claims, restarts>>

\* cleanup_orphan_endpoint: flush, detach by name, release the address.
CleanupOrphan(n) ==
  /\ phase = "orphans"
  /\ Claim(n)
  /\ \/ allow4' = {p \in allow4 : p[1] # ns[n]}
     \/ "nft" \in Faults /\ UNCHANGED allow4
  /\ \E left \in Detached(n) : ns' = [ns EXCEPT ![n] = left]
  /\ free' = Released(ns[n])
  /\ UNCHANGED <<by_name, by_ip, alive, call, dns, phase, restarts, lost>>

Serve ==
  /\ phase = "orphans"
  /\ claims = {}
  /\ phase' = "serving"
  /\ UNCHANGED <<poolVars, ns, alive, call, allow4, dns, claims, restarts>>

-----------------------------------------------------------------------------

Calls(n) ==
  \/ \E list \in Lists : Allocate(n, list)
  \/ Attach(n) \/ AttachFails(n)
  \/ Release(n) \/ FlushList(n) \/ FlushDelete(n) \/ Detach(n)

Handler(q) ==
  \/ \E n \in Names, domain \in Domains : Query(q, n, domain)
  \/ Resolve(q)
  \/ \E dst \in Dsts : Register(q, dst)
  \/ Reply(q)

Boot ==
  \/ \E n \in Names, list \in Lists : Reattach(n, list) \/ ReattachFails(n, list)
  \/ ReattachDone
  \/ \E n \in Names : CleanupOrphan(n)
  \/ Serve

Next ==
  \/ \E n \in Names : Calls(n)
  \/ \E q \in Queries : Handler(q)
  \/ \E p \in Hosts \X Dsts : Expire(p)
  \/ Restart
  \/ Boot

EgressSpec == Init /\ [][Next]_vars

-----------------------------------------------------------------------------
(* Properties *)

Pairs == Hosts \X Dsts
Stored == {NoApp} \cup {App(n, ip, list) : n \in Names, ip \in Usable, list \in Lists}
CallStates ==
  {Idle, [step |-> "detach"]}
    \cup [step : {"attach"}, ip : Usable, list : Lists]
    \cup [step : {"list"}, ip : Usable]
    \cup [step : {"delete"}, ip : Usable, doomed : SUBSET Pairs]
QueryStates ==
  {Idle}
    \cup [step : {"resolve"}, src : Usable, domain : Domains]
    \cup [step : {"register"}, src : Usable, left : SUBSET Dsts]

\* Every variable has its type; the bridge's address is never in the pool.
EgressTypeOK ==
  /\ free \subseteq Hosts \ {bridge_ip}
  /\ by_name \in [Names -> Stored]
  /\ by_ip \in [Hosts -> Stored]
  /\ ns \in [Names -> Hosts \cup {NoAddr, Bare}]
  /\ alive \subseteq Names
  /\ call \in [Names -> CallStates]
  /\ allow4 \subseteq Pairs
  /\ dns \in [Queries -> QueryStates]
  /\ claims \subseteq Names
  /\ phase \in {"reattach", "orphans", "serving"}
  /\ restarts \in 0..MaxRestarts
  /\ lost \in [Names -> SUBSET (Hosts \ {bridge_ip})]

\* The addresses a name holds: its endpoint's, the one its allocation took, the
\* one a previous run of the daemon left it with, and those it lost.
HeldBy(n) ==
  {ip \in Usable :
     \/ by_name[n].ip = ip
     \/ call[n].step = "attach" /\ call[n].ip = ip
     \/ n \in claims /\ ns[n] = ip
     \/ ip \in lost[n]}

held == [n \in Names |-> HeldBy(n)]

\* Every address of the subnet is either free or one name's (allocator.rs and the
\* error paths of allocate_endpoint): none is forgotten by a failed attach, a
\* release or a restart, and none is free while somebody holds it.
SubnetPartition ==
  /\ free = Usable \ UNION {held[n] : n \in Names}
  /\ \A m, n \in Names : m # n => held[m] \cap held[n] = {}

\* Only a start after a failed resume and a failed reattach lose an address.
LostForCause ==
  "resume" \notin Faults /\ restarts = 0 => \A n \in Names : lost[n] = {}

\* The two indexes of EndpointStore tell the same (endpoints.rs:37), but for
\* entries at addresses their own name lost: the DNS handler never takes a source
\* for the app that had its address before.
IndexesAgree ==
  /\ \A n \in Names : by_name[n] # NoApp => by_ip[by_name[n].ip] = by_name[n]
  /\ \A ip \in Hosts : by_ip[ip] # NoApp =>
       by_name[by_ip[ip].name] = by_ip[ip] \/ ip \in lost[by_ip[ip].name]

\* A failed launch may have left a container in a namespace whose endpoint was
\* released: until the call's detach, and for good if that fails.
Leftover(n) ==
  /\ "launch" \in Faults
  /\ by_name[n] = NoApp
  /\ call[n].step \in {"list", "delete", "detach"} \/ "detach" \in Faults

\* A registered endpoint has its namespace with its address, and no other
\* living container but such a leftover has that address: what allocate_endpoint
\* and reattach_endpoint returned is where the app is reached.  The entry a
\* failed resume left behind loses its namespace to a start that fails to attach.
EndpointAttached ==
  \A n \in Names : by_name[n] # NoApp =>
    /\ ns[n] = by_name[n].ip \/ ("resume" \in Faults /\ n \notin alive)
    /\ \A m \in alive \ {n} : ns[m] = by_name[n].ip => Leftover(m)

\* What the allocator, the store and the kernel hold fits together, whichever
\* call failed in between and however often the daemon was restarted.
EndpointsInv ==
  EgressTypeOK /\ SubnetPartition /\ LostForCause /\ IndexesAgree /\ EndpointAttached

\* A name that is a subdomain of parent: a dot and the parent follow something.
Below(parent, name) ==
  \E k \in 1..Len(name) : SubSeq(name, k, Len(name)) = <<".">> \o parent

\* What the header of allowlist.rs says of the two rules: an exact domain
\* stands for itself and its subdomains, a wildcard for the subdomains only.
Covers(entry, name) ==
  \/ ~IsCidr(entry) /\ ~IsWildcard(entry) /\ name = normalise_name(entry)
  \/ ~IsCidr(entry) /\ ~IsWildcard(entry) /\ Below(normalise_name(entry), name)
  \/ ~IsCidr(entry) /\ IsWildcard(entry) /\ Below(Suffix(entry), name)

AllowedBy(list, domain) ==
  \E i \in 1..Len(list) : list[i] # <<>> /\ Covers(list[i], normalise_name(domain))

ParsedLists == {list \in Lists : Parses(list)}
AllowedNames == {domain \in Domains : \E list \in ParsedLists : AllowedBy(list, domain)}

\* A query only goes upstream, and only then opens the firewall, for a name
\* some registered list allows by the rules as documented; a list that does
\* not parse never gets an endpoint (allowlist.rs:1-14).
UpstreamIsAllowed ==
  /\ \A q \in Queries : dns[q].step = "resolve" => dns[q].domain \in AllowedNames
  /\ \A n \in Names : by_name[n] # NoApp => by_name[n].allowlist \in ParsedLists

\* Where the listed names lead.
AllowedAddrs == UNION {Addrs[domain] : domain \in AllowedNames}

\* Whatever the DNS path put into the allow set and whoever owns the addresses
\* now, a container opens no connection to a resolver other than the bridge's,
\* to a destination that was not resolved for its address or that no listed
\* name leads to, or to any port of the host but DNS (nft.rs:12-23).
Contained ==
  \A n \in {m \in alive : ns[m] \in Hosts}, dport \in Ports :
    LET new(dst) == [established |-> FALSE, src |-> ns[n], dst |-> dst, dport |-> dport]
    IN  /\ \A dst \in Dsts : Forward(new(dst), allow4) = "accept" =>
             /\ dport \notin ResolverPorts
             /\ <<ns[n], dst>> \in allow4
             /\ dst \in AllowedAddrs
        /\ Input(new(bridge_ip)) = "accept" => dport = DnsPort

\* A flush deletes pairs of the address that was released, nobody else's
\* ("previous behaviour flushed the whole set, which briefly broke egress for
\* every other running app", lib.rs:487): an address that was never released
\* since loses its pairs only to their timeout.
NeighboursKeepEgress ==
  [][\A p \in allow4 \ allow4' :
       \/ allow4' = allow4 \ {p}
       \/ \E n \in Names : call[n].step = "delete" /\ call[n].ip = p[1]
       \/ phase # "serving"
       \/ restarts' # restarts]_vars

\* Addresses are handed out as EndpointPool promises.
Pool == INSTANCE EndpointPool WITH Addresses <- Usable

ImplementsPool == Pool!Spec

=============================================================================
