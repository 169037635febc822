---------------------------- MODULE EgressProofs ----------------------------
(***************************************************************************)
(* Theorems about Egress, for any number of names, queries, addresses,     *)
(* destinations and restarts.                                              *)
(***************************************************************************)
EXTENDS Egress, SequenceTheorems, FiniteSetTheorems,
        WellFoundedInduction, TLAPS

\* No detach fails, every namespace can be listed, and the daemon does not end
\* inside of a call.
Firm == Faults \cap {"detach", "discover", "crash"} = {}

\* The daemon was not restarted yet, or it always finds the namespaces in order
\* when it is.  Otherwise a stale namespace may hold an address that was handed
\* out again, and its cleanup at boot frees it under its new owner.
Orderly == restarts = 0 \/ Firm

-----------------------------------------------------------------------------
(* The inductive invariant *)

\* The entries of the two indexes are where they say they are.
IndexedRight ==
  /\ \A n \in Names : by_name[n] # NoApp => by_name[n].name = n
  /\ \A ip \in Hosts : by_ip[ip] # NoApp => by_ip[ip].ip = ip

\* A name with an endpoint has no call in flight but, after a failed resume, a
\* second allocation; and no call is in flight before the daemon serves.
CallsInOrder ==
  \A n \in Names : call[n].step # "idle" =>
    /\ phase = "serving"
    /\ by_name[n] = NoApp \/ (call[n].step = "attach" /\ "resume" \in Faults)

\* A claim is the address of a namespace that is not taken back yet; after
\* reattach_running those of living containers are.
ClaimsPending ==
  /\ \A n \in claims :
       by_name[n] = NoApp /\ ns[n] \in Usable /\ phase # "serving" /\ lost[n] = {}
  /\ phase = "orphans" => claims \cap alive = {}

\* A container lives in the namespace of an endpoint, of a claim, of an endpoint
\* that could not be taken back, or of one a failed launch released.
LivingAttached ==
  \A n \in alive :
    /\ ns[n] \in Usable
    /\ by_name[n] # NoApp \/ n \in claims \/ ns[n] \in lost[n] \/ Leftover(n)

\* The addresses a name holds are different ones.
HeldOnce ==
  \A n \in Names :
    /\ by_name[n] # NoApp => by_name[n].ip \notin lost[n]
    /\ call[n].step = "attach" => call[n].ip \notin lost[n] /\ call[n].ip # by_name[n].ip

\* The namespace of an endpoint has its address; where detaches succeed, a
\* namespace has an address of its name, and is gone with its release.
NamespacesKnown ==
  /\ \A n \in Names : by_name[n] # NoApp =>
       ns[n] = by_name[n].ip \/ ("resume" \in Faults /\ n \notin alive)
  /\ Firm =>
       \A n \in Names : call[n].step \in {"idle", "attach"} =>
         ns[n] = NoAddr \/ ns[n] = by_name[n].ip \/ n \in claims \/ ns[n] \in lost[n]

\* Before its first restart the daemon serves.
ServesFirst == restarts = 0 => phase = "serving"

\* A flush has listed pairs of the address that was released only.
DoomedOwn ==
  \A n \in Names : call[n].step = "delete" =>
    \A p \in call[n].doomed : p[1] = call[n].ip

EgressInv ==
  /\ EgressTypeOK /\ SubnetPartition /\ LostForCause /\ IndexesAgree
  /\ IndexedRight /\ CallsInOrder /\ ClaimsPending /\ LivingAttached
  /\ HeldOnce /\ NamespacesKnown /\ ServesFirst /\ DoomedOwn

\* What does not depend on order: a namespace has an address of the pool if it
\* has one, a claim is on one that does, and while there are claims the daemon
\* does not serve, nor is a call in flight.
LayerInv ==
  /\ EgressTypeOK
  /\ \A n \in Names : ns[n] \in Usable \cup {NoAddr, Bare}
  /\ \A n \in claims : ns[n] \in Usable /\ phase # "serving"
  /\ \A n \in Names : call[n].step # "idle" => phase = "serving"

-----------------------------------------------------------------------------
(* Shapes of the records *)

LEMMA StoredShape ==
  ASSUME NEW app \in Stored, app # NoApp
  PROVE  /\ app.name \in Names /\ app.ip \in Usable /\ app.allowlist \in Lists
         /\ app.ip # NoAddr
BY HostsAssumption DEF Stored, App, NoApp, Usable, NoAddr

LEMMA AppShape ==
  ASSUME NEW n \in Names, NEW ip \in Usable, NEW list \in Lists
  PROVE  /\ App(n, ip, list) \in Stored /\ App(n, ip, list) # NoApp
         /\ App(n, ip, list).name = n /\ App(n, ip, list).ip = ip
<1>1. App(n, ip, list).ip = ip /\ NoApp.ip = NoAddr /\ ip # NoAddr
  BY HostsAssumption DEF App, NoApp, Usable, NoAddr
<1>. QED
  BY <1>1 DEF App, Stored

LEMMA CallShape ==
  ASSUME NEW c \in CallStates
  PROVE  /\ c.step \in {"idle", "attach", "list", "delete", "detach"}
         /\ c.step = "idle" <=> c = Idle
         /\ c.step = "attach" => c.ip \in Usable /\ c.list \in Lists
         /\ c.step = "list" => c.ip \in Usable
         /\ c.step = "delete" => c.ip \in Usable /\ c.doomed \in SUBSET Pairs
BY DEF CallStates, Idle

LEMMA QueryShape ==
  ASSUME NEW q \in QueryStates
  PROVE  /\ q.step \in {"idle", "resolve", "register"}
         /\ q.step = "resolve" => q.src \in Usable /\ q.domain \in Domains
         /\ q.step = "register" => q.src \in Usable /\ q.left \in SUBSET Dsts
BY DEF QueryStates, Idle

-----------------------------------------------------------------------------
(* Type correctness *)

LEMMA TypeInit == Init => EgressTypeOK
BY HostsAssumption, RestartsAssumption
   DEF Init, EgressTypeOK, Usable, Stored, CallStates, QueryStates, Idle

LEMMA InsertType ==
  ASSUME EgressTypeOK, NEW n \in Names, NEW ip \in Usable, NEW list \in Lists,
         Insert(App(n, ip, list))
  PROVE  by_name' \in [Names -> Stored] /\ by_ip' \in [Hosts -> Stored]
BY AppShape DEF EgressTypeOK, Insert, Usable

LEMMA CallType ==
  ASSUME EgressTypeOK, NEW n \in Names, Calls(n)
  PROVE  EgressTypeOK'
<1>. USE DEF EgressTypeOK, Goto, bootVars, poolVars
<1>0. /\ call[n].step = "attach" => call[n].ip \in Usable /\ call[n].list \in Lists
      /\ call[n].step = "list" => call[n].ip \in Usable
      /\ call[n].step = "delete" => call[n].ip \in Usable /\ call[n].doomed \in SUBSET Pairs
      /\ Idle \in CallStates /\ [step |-> "detach"] \in CallStates
  BY CallShape DEF CallStates
<1>1. ASSUME NEW list \in Lists, Allocate(n, list)
      PROVE  EgressTypeOK'
  <2>1. PICK ip \in free : /\ free' = free \ {ip}
                           /\ call' = [call EXCEPT ![n] = [step |-> "attach", ip |-> ip, list |-> list]]
    BY <1>1 DEF Allocate
  <2>2. [step |-> "attach", ip |-> ip, list |-> list] \in CallStates
    BY DEF CallStates, Usable
  <2>. QED
    BY <1>1, <2>1, <2>2 DEF Allocate
<1>2. CASE Attach(n)
  <2>1. by_name' \in [Names -> Stored] /\ by_ip' \in [Hosts -> Stored]
    BY <1>2, <1>0, InsertType DEF Attach
  <2>2. {by_name[n].ip} \ {NoAddr} \subseteq Hosts \ {bridge_ip}
    BY StoredShape DEF NoApp, Usable
  <2>3. lost' \in [Names -> SUBSET (Hosts \ {bridge_ip})]
    BY <1>2, <2>2 DEF Attach
  <2>. QED
    BY <1>2, <1>0, <2>1, <2>3 DEF Attach, Usable
<1>3. CASE AttachFails(n)
  BY <1>3, <1>0 DEF AttachFails, DetachNamespace, Detached, Released, Usable
<1>4. CASE Release(n)
  <2>. DEFINE ip == by_name[n].ip
  <2>1. ip \in Usable
    BY <1>4, StoredShape DEF Release
  <2>2. NoApp \in Stored /\ [step |-> "list", ip |-> ip] \in CallStates
    BY <2>1 DEF Stored, CallStates
  <2>3. /\ by_name' = [by_name EXCEPT ![n] = NoApp] /\ by_ip' = [by_ip EXCEPT ![ip] = NoApp]
        /\ free' = Released(ip) /\ call' = [call EXCEPT ![n] = [step |-> "list", ip |-> ip]]
        /\ alive' \subseteq alive /\ UNCHANGED <<ns, allow4, dns, lost, bootVars>>
    BY <1>4 DEF Release
  <2>. HIDE DEF ip
  <2>. QED
    BY <2>1, <2>2, <2>3 DEF Released, Usable
<1>5. CASE FlushList(n)
  <2>. DEFINE next == [step |-> "delete", ip |-> call[n].ip,
                       doomed |-> {p \in allow4 : p[1] = call[n].ip}]
  <2>1. next \in CallStates
    BY <1>5, <1>0 DEF FlushList, CallStates
  <2>2. call' = [call EXCEPT ![n] = next]
    BY <1>5 DEF FlushList
  <2>. HIDE DEF next
  <2>. QED
    BY <1>5, <2>1, <2>2 DEF FlushList
<1>6. CASE FlushDelete(n)
  <2>1. allow4' \subseteq Pairs
    BY <1>6 DEF FlushDelete
  <2>. QED
    BY <1>6, <1>0, <2>1 DEF FlushDelete
<1>7. CASE Detach(n)
  BY <1>7, <1>0 DEF Detach, DetachNamespace, Detached
<1>. QED
  BY <1>1, <1>2, <1>3, <1>4, <1>5, <1>6, <1>7 DEF Calls

LEMMA HandlerType ==
  ASSUME EgressTypeOK, \A n \in alive : ns[n] \in Hosts => ns[n] \in Usable,
         NEW q \in Queries, Handler(q)
  PROVE  EgressTypeOK'
<1>. USE DEF EgressTypeOK, bootVars, poolVars
<1>0. Idle \in QueryStates
  BY DEF QueryStates
<1>1. ASSUME NEW n \in Names, NEW domain \in Domains, Query(q, n, domain)
      PROVE  EgressTypeOK'
  <2>1. ns[n] \in Usable
    BY <1>1 DEF Query
  <2>2. [step |-> "resolve", src |-> ns[n], domain |-> domain] \in QueryStates
    BY <2>1 DEF QueryStates
  <2>. QED
    BY <1>1, <2>2 DEF Query
<1>2. CASE Resolve(q)
  <2>. DEFINE next == [step |-> "register", src |-> dns[q].src, left |-> Addrs[dns[q].domain]]
  <2>1. dns[q].src \in Usable /\ dns[q].domain \in Domains
    BY <1>2, QueryShape DEF Resolve
  <2>2. Addrs[dns[q].domain] \subseteq Dsts
    BY <2>1 DEF Dsts
  <2>3. next \in QueryStates
    BY <2>1, <2>2 DEF QueryStates
  <2>4. dns' \in {[dns EXCEPT ![q] = next], [dns EXCEPT ![q] = Idle]}
    BY <1>2 DEF Resolve
  <2>. HIDE DEF next
  <2>. QED
    BY <1>2, <1>0, <2>3, <2>4 DEF Resolve
<1>3. ASSUME NEW dst \in Dsts, Register(q, dst)
      PROVE  EgressTypeOK'
  <2>1. /\ dns[q].src \in Usable /\ dns[q].left \in SUBSET Dsts
        /\ dns[q] \in [step : {"register"}, src : Usable, left : SUBSET Dsts]
    BY <1>3, QueryShape DEF Register, QueryStates, Idle
  <2>2. [dns[q] EXCEPT !.left = dns[q].left \ {dst}] \in QueryStates
    BY <2>1 DEF QueryStates
  <2>3. dns' = [dns EXCEPT ![q] = [dns[q] EXCEPT !.left = dns[q].left \ {dst}]]
    BY <1>3 DEF Register
  <2>4. dns' \in [Queries -> QueryStates]
    BY <2>2, <2>3
  <2>5. allow4' \subseteq Pairs
    BY <1>3, <2>1 DEF Register, Pairs, Usable
  <2>. QED
    BY <1>3, <2>4, <2>5 DEF Register
<1>4. CASE Reply(q)
  BY <1>4, <1>0 DEF Reply
<1>. QED
  BY <1>1, <1>2, <1>3, <1>4 DEF Handler

LEMMA BootType ==
  ASSUME EgressTypeOK, \A n \in claims : ns[n] \in Usable, Boot
  PROVE  EgressTypeOK'
<1>. USE DEF EgressTypeOK, poolVars
<1>1. ASSUME NEW n \in Names, NEW list \in Lists, Reattach(n, list)
      PROVE  EgressTypeOK'
  <2>1. ns[n] \in Usable
    BY <1>1 DEF Reattach, Claim
  <2>2. by_name' \in [Names -> Stored] /\ by_ip' \in [Hosts -> Stored]
    BY <1>1, <2>1, InsertType DEF Reattach
  <2>. QED
    BY <1>1, <2>2 DEF Reattach, Claim
<1>2. ASSUME NEW n \in Names, CleanupOrphan(n)
      PROVE  EgressTypeOK'
  <2>1. allow4' \subseteq Pairs
    BY <1>2 DEF CleanupOrphan
  <2>. QED
    BY <1>2, <2>1 DEF CleanupOrphan, Claim, Detached, Released, Usable
<1>3. CASE ReattachDone \/ Serve
  BY <1>3 DEF ReattachDone, Serve
<1>4. ASSUME NEW n \in Names, NEW list \in Lists, ReattachFails(n, list)
      PROVE  EgressTypeOK'
  <2>1. ns[n] \in Hosts \ {bridge_ip}
    BY <1>4 DEF ReattachFails, Claim, Usable
  <2>. QED
    BY <1>4, <2>1 DEF ReattachFails, Claim
<1>. QED
  BY <1>1, <1>2, <1>3, <1>4 DEF Boot

LEMMA RestartType ==
  ASSUME EgressTypeOK, Restart
  PROVE  EgressTypeOK'
<1>1. /\ by_name' \in [Names -> Stored] /\ by_ip' \in [Hosts -> Stored]
      /\ call' \in [Names -> CallStates] /\ dns' \in [Queries -> QueryStates]
  BY DEF Restart, Fresh, Stored, CallStates, QueryStates
<1>2. free' \subseteq Usable /\ claims' \subseteq Names
  BY DEF Restart, discover_existing_endpoints, discover_endpoints, list_app_namespaces
<1>3. restarts' \in 0..MaxRestarts /\ lost' \in [Names -> SUBSET (Hosts \ {bridge_ip})]
  BY RestartsAssumption DEF Restart, Fresh, EgressTypeOK
<1>. QED
  BY <1>1, <1>2, <1>3 DEF EgressTypeOK, Restart, install_nftables_ruleset, Usable

LEMMA TypeStep ==
  ASSUME EgressTypeOK, \A n \in alive : ns[n] \in Hosts => ns[n] \in Usable,
         \A n \in claims : ns[n] \in Usable, [Next]_vars
  PROVE  EgressTypeOK'
<1>1. ASSUME NEW p \in Hosts \X Dsts, Expire(p)
      PROVE  EgressTypeOK'
  BY <1>1 DEF Expire, EgressTypeOK, poolVars, bootVars
<1>2. CASE UNCHANGED vars
  BY <1>2 DEF vars, EgressTypeOK
<1>. QED
  BY <1>1, <1>2, CallType, HandlerType, BootType, RestartType DEF Next

LEMMA AddressKinds ==
  Bare \notin Hosts /\ NoAddr \notin Hosts /\ Usable \subseteq Hosts
BY BareAssumption, HostsAssumption DEF Usable, NoAddr

LEMMA LayerInit == Init => LayerInv
BY TypeInit DEF Init, LayerInv, Idle

LEMMA LayerStep == LayerInv /\ [Next]_vars => LayerInv'
<1>. SUFFICES ASSUME LayerInv, [Next]_vars
              PROVE  LayerInv'
  OBVIOUS
<1>. USE DEF LayerInv
<1>1. EgressTypeOK'
  BY TypeStep, AddressKinds DEF EgressTypeOK
<1>. USE DEF EgressTypeOK
<1>2. ASSUME UNCHANGED <<ns, claims, phase>>,
             \A n \in Names : call'[n].step # "idle" => call[n].step # "idle" \/ phase = "serving"
      PROVE  LayerInv'
  BY <1>1, <1>2
<1>3. ASSUME NEW n \in Names, Calls(n)
      PROVE  LayerInv'
  <2>. USE DEF poolVars, bootVars
  <2>1. phase = "serving" /\ claims = {} /\ UNCHANGED bootVars
    BY <1>3, CallShape DEF Calls, Allocate, Attach, AttachFails, Release, FlushList,
                           FlushDelete, Detach
  <2>2. \A m \in Names : ns'[m] \in Usable \cup {NoAddr, Bare}
    <3>1. CASE UNCHANGED ns
      BY <3>1
    <3>2. CASE Attach(n)
      BY <3>2, CallShape DEF Attach
    <3>3. CASE AttachFails(n) \/ Detach(n)
      BY <3>3 DEF AttachFails, Detach, DetachNamespace, Detached
    <3>. QED
      BY <1>3, <3>1, <3>2, <3>3 DEF Calls, Allocate, Release, FlushList, FlushDelete
  <2>. QED
    BY <1>1, <2>1, <2>2
<1>4. ASSUME NEW q \in Queries, Handler(q)
      PROVE  LayerInv'
  BY <1>2, <1>4 DEF Handler, Query, Resolve, Register, Reply, bootVars, poolVars
<1>5. ASSUME NEW p \in Hosts \X Dsts, Expire(p)
      PROVE  LayerInv'
  BY <1>2, <1>5 DEF Expire, bootVars, poolVars
<1>6. CASE Restart
  <2>1. \A n \in discover_endpoints : ns[n] \in Usable
    BY AddressKinds DEF discover_endpoints, list_app_namespaces, read_eth0_ipv4
  <2>2. \A n \in claims' : ns[n] \in Usable
    BY <1>6, <2>1 DEF Restart, discover_existing_endpoints
  <2>. QED
    BY <1>1, <1>6, <2>2 DEF Restart, Fresh, Idle
<1>7. CASE Boot
  <2>1. ASSUME NEW n \in Names, CleanupOrphan(n)
        PROVE  LayerInv'
    BY <1>1, <2>1 DEF CleanupOrphan, Claim, Detached
  <2>2. ASSUME NEW n \in Names, NEW list \in Lists, Reattach(n, list) \/ ReattachFails(n, list)
        PROVE  LayerInv'
    BY <1>1, <2>2 DEF Reattach, ReattachFails, Claim
  <2>3. CASE ReattachDone \/ Serve
    BY <1>1, <2>3 DEF ReattachDone, Serve, poolVars
  <2>. QED
    BY <1>7, <2>1, <2>2, <2>3 DEF Boot
<1>8. CASE UNCHANGED vars
  BY <1>2, <1>8 DEF vars
<1>. QED
  BY <1>3, <1>4, <1>5, <1>6, <1>7, <1>8 DEF Next

-----------------------------------------------------------------------------
(* Addresses *)

\* What a step does to the addresses that are held and to those that are free,
\* in the terms of EndpointPool.
Keeps == held' = held /\ free' = free

Takes(n) ==
  \E ip \in free :
    /\ held' = [held EXCEPT ![n] = held[n] \cup {ip}]
    /\ free' = free \ {ip}

Gives(n) ==
  \E ip \in held[n] :
    /\ held' = [held EXCEPT ![n] = held[n] \ {ip}]
    /\ free' = free \cup {ip}

Reboots ==
  /\ DOMAIN held' = Names
  /\ \A n \in Names : held'[n] \subseteq held[n]
  /\ free' = Usable \ UNION {held'[n] : n \in Names}

PoolStep == Keeps \/ (\E n \in Names : Takes(n) \/ Gives(n)) \/ Reboots

\* A step that changes the state of one name changes at most what it holds.
LEMMA HeldChange ==
  ASSUME NEW n \in Names, NEW S, HeldBy(n)' = S,
         \A m \in Names \ {n} :
           /\ by_name'[m] = by_name[m] /\ call'[m] = call[m] /\ ns'[m] = ns[m]
           /\ m \in claims' <=> m \in claims
           /\ lost'[m] = lost[m]
  PROVE  held' = [held EXCEPT ![n] = S]
<1>1. \A m \in Names \ {n} : HeldBy(m)' = HeldBy(m)
  BY DEF HeldBy
<1>. QED
  BY <1>1 DEF held

LEMMA HeldSame ==
  ASSUME NEW n \in Names, HeldBy(n)' = HeldBy(n),
         \A m \in Names \ {n} :
           /\ by_name'[m] = by_name[m] /\ call'[m] = call[m] /\ ns'[m] = ns[m]
           /\ m \in claims' <=> m \in claims
           /\ lost'[m] = lost[m]
  PROVE  held' = held
<1>1. \A m \in Names \ {n} : HeldBy(m)' = HeldBy(m)
  BY DEF HeldBy
<1>. QED
  BY <1>1 DEF held

LEMMA HeldType == held \in [Names -> SUBSET Usable]
BY DEF held, HeldBy

LEMMA CallPool ==
  ASSUME EgressInv, NEW n \in Names, Calls(n)
  PROVE  PoolStep
<1>. USE DEF EgressInv, EgressTypeOK, Goto, bootVars, poolVars
<1>0. /\ NoApp \in Stored /\ NoApp.ip = NoAddr /\ NoAddr \notin Usable /\ Idle.step = "idle"
      /\ call[n].step = "attach" => call[n].ip \in Usable /\ call[n].list \in Lists
      /\ call[n] = Idle <=> call[n].step = "idle"
      /\ call[n].step # "idle" => phase = "serving"
      /\ phase = "serving" => n \notin claims
      /\ by_name[n].ip \in Usable \cup {NoAddr}
  BY CallShape, StoredShape, HostsAssumption
     DEF CallsInOrder, ClaimsPending, Stored, NoApp, Usable, NoAddr, Idle
<1>1. ASSUME NEW list \in Lists, Allocate(n, list)
      PROVE  PoolStep
  <2>1. PICK ip \in free : /\ free' = free \ {ip}
                           /\ call' = [call EXCEPT ![n] = [step |-> "attach", ip |-> ip, list |-> list]]
    BY <1>1 DEF Allocate
  <2>. DEFINE next == [step |-> "attach", ip |-> ip, list |-> list]
  <2>2. next.step = "attach" /\ next.ip = ip /\ call' = [call EXCEPT ![n] = next]
    BY <2>1
  <2>. HIDE DEF next
  <2>3. /\ call[n] = Idle /\ phase = "serving" /\ ip \in Usable
        /\ UNCHANGED <<by_name, ns, claims, lost>>
    BY <1>1 DEF Allocate, Usable
  <2>4. HeldBy(n)' = HeldBy(n) \cup {ip}
    BY <1>0, <2>2, <2>3 DEF HeldBy
  <2>5. held' = [held EXCEPT ![n] = HeldBy(n) \cup {ip}]
    BY <2>2, <2>3, <2>4, HeldChange
  <2>. QED
    BY <2>1, <2>5 DEF PoolStep, Takes, held
<1>2. CASE Attach(n)
  <2>. DEFINE app == App(n, call[n].ip, call[n].list)
  <2>1. app # NoApp /\ app.name = n /\ app.ip = call[n].ip
    BY <1>2, <1>0, AppShape DEF Attach
  <2>2. Insert(app)
    BY <1>2 DEF Attach
  <2>. HIDE DEF app
  <2>3. /\ by_name' = [by_name EXCEPT ![n] = app] /\ call' = [call EXCEPT ![n] = Idle]
        /\ lost' = [lost EXCEPT ![n] = lost[n] \cup ({by_name[n].ip} \ {NoAddr})]
        /\ ns' = [ns EXCEPT ![n] = call[n].ip] /\ UNCHANGED <<free, claims>>
        /\ call[n].step = "attach" /\ n \notin claims
    BY <1>0, <1>2, <2>1, <2>2 DEF Attach, Insert
  <2>4. HeldBy(n)' = HeldBy(n)
    BY <1>0, <2>1, <2>3 DEF HeldBy
  <2>5. held' = held
    BY <2>3, <2>4, HeldSame
  <2>. QED
    BY <2>3, <2>5 DEF PoolStep, Keeps
<1>3. CASE AttachFails(n)
  <2>1. /\ call[n].step = "attach" /\ call[n].ip \in Usable /\ n \notin claims
        /\ call' = [call EXCEPT ![n] = Idle] /\ UNCHANGED <<by_name, claims, lost>>
        /\ free' = free \cup {call[n].ip}
        /\ \A m \in Names \ {n} : ns'[m] = ns[m]
    BY <1>0, <1>3 DEF AttachFails, DetachNamespace, Released
  <2>2. HeldBy(n)' = HeldBy(n) \ {call[n].ip} /\ call[n].ip \in HeldBy(n)
    BY <1>0, <2>1 DEF HeldBy, HeldOnce
  <2>3. held' = [held EXCEPT ![n] = HeldBy(n) \ {call[n].ip}]
    BY <2>1, <2>2, HeldChange
  <2>. QED
    BY <2>1, <2>2, <2>3 DEF PoolStep, Gives, held
<1>4. CASE Release(n)
  <2>. DEFINE ip == by_name[n].ip
              next == [step |-> "list", ip |-> ip]
  <2>1. ip \in Usable /\ ip \in HeldBy(n) /\ ip \notin lost[n]
    BY <1>4, StoredShape DEF Release, HeldBy, HeldOnce
  <2>2. /\ by_name' = [by_name EXCEPT ![n] = NoApp] /\ free' = Released(ip)
        /\ call' = [call EXCEPT ![n] = next]
        /\ UNCHANGED <<claims, ns, lost>>
        /\ n \notin claims /\ call[n].step = "idle" /\ next.step = "list"
    BY <1>4, <1>0 DEF Release
  <2>3. by_name[n].ip = ip
    OBVIOUS
  <2>. HIDE DEF ip, next
  <2>4. HeldBy(n)' = HeldBy(n) \ {ip}
    BY <1>0, <2>1, <2>2, <2>3 DEF HeldBy
  <2>5. held' = [held EXCEPT ![n] = HeldBy(n) \ {ip}]
    BY <2>2, <2>4, HeldChange
  <2>6. free' = free \cup {ip}
    BY <2>1, <2>2 DEF Released
  <2>. QED
    BY <2>1, <2>5, <2>6 DEF PoolStep, Gives, held
<1>5. CASE FlushList(n) \/ FlushDelete(n) \/ Detach(n)
  <2>1. /\ call[n].step # "attach" /\ n \notin claims
        /\ UNCHANGED <<by_name, claims, lost, free>>
        /\ \A m \in Names \ {n} : ns'[m] = ns[m] /\ call'[m] = call[m]
    BY <1>0, <1>5 DEF FlushList, FlushDelete, Detach, DetachNamespace
  <2>2. call'[n].step # "attach"
    BY <1>0, <1>5 DEF FlushList, FlushDelete, Detach
  <2>3. HeldBy(n)' = HeldBy(n)
    BY <2>1, <2>2 DEF HeldBy
  <2>4. held' = held
    BY <2>1, <2>3, HeldSame
  <2>. QED
    BY <2>1, <2>4 DEF PoolStep, Keeps
<1>. QED
  BY <1>1, <1>2, <1>3, <1>4, <1>5 DEF Calls

LEMMA BootPool ==
  ASSUME EgressInv, Boot
  PROVE  PoolStep
<1>. USE DEF EgressInv, EgressTypeOK, poolVars
<1>0. NoApp.ip = NoAddr /\ NoAddr \notin Usable
  BY HostsAssumption DEF NoApp, Usable, NoAddr
<1>a. ASSUME NEW n \in claims
      PROVE  /\ n \in Names /\ by_name[n] = NoApp /\ ns[n] \in Usable /\ lost[n] = {}
             /\ call[n].step # "attach"
  BY <1>a DEF ClaimsPending, CallsInOrder
<1>1. ASSUME NEW n \in Names, NEW list \in Lists, Reattach(n, list)
      PROVE  PoolStep
  <2>. DEFINE app == App(n, ns[n], list)
  <2>1. n \in claims /\ claims' = claims \ {n} /\ UNCHANGED <<ns, call, free, lost>>
    BY <1>1 DEF Reattach, Claim
  <2>2. app # NoApp /\ app.name = n /\ app.ip = ns[n]
    BY <1>a, <2>1, AppShape
  <2>3. Insert(app)
    BY <1>1 DEF Reattach
  <2>. HIDE DEF app
  <2>4. by_name' = [by_name EXCEPT ![n] = app]
    BY <2>2, <2>3 DEF Insert
  <2>5. HeldBy(n)' = HeldBy(n)
    BY <1>0, <1>a, <2>1, <2>2, <2>4 DEF HeldBy
  <2>6. held' = held
    BY <2>1, <2>4, <2>5, HeldSame
  <2>. QED
    BY <2>1, <2>6 DEF PoolStep, Keeps
<1>2. ASSUME NEW n \in Names, CleanupOrphan(n)
      PROVE  PoolStep
  <2>1. /\ n \in claims /\ claims' = claims \ {n} /\ UNCHANGED <<by_name, call, lost>>
        /\ \A m \in Names \ {n} : ns'[m] = ns[m]
        /\ free' = Released(ns[n])
    BY <1>2 DEF CleanupOrphan, Claim
  <2>2. HeldBy(n)' = HeldBy(n) \ {ns[n]} /\ ns[n] \in HeldBy(n)
    BY <1>0, <1>a, <2>1 DEF HeldBy
  <2>3. held' = [held EXCEPT ![n] = HeldBy(n) \ {ns[n]}]
    BY <2>1, <2>2, HeldChange
  <2>4. free' = free \cup {ns[n]}
    BY <1>a, <2>1 DEF Released
  <2>. QED
    BY <2>2, <2>3, <2>4 DEF PoolStep, Gives, held
<1>3. CASE ReattachDone \/ Serve
  <2>1. \A m \in Names : HeldBy(m)' = HeldBy(m)
    BY <1>3 DEF ReattachDone, Serve, HeldBy
  <2>. QED
    BY <1>3, <2>1 DEF PoolStep, Keeps, ReattachDone, Serve, held
<1>4. ASSUME NEW n \in Names, NEW list \in Lists, ReattachFails(n, list)
      PROVE  PoolStep
  <2>1. /\ n \in claims /\ claims' = claims \ {n} /\ UNCHANGED <<by_name, ns, call, free>>
        /\ lost' = [lost EXCEPT ![n] = lost[n] \cup {ns[n]}]
    BY <1>4 DEF ReattachFails, Claim
  <2>2. HeldBy(n)' = HeldBy(n)
    BY <1>0, <1>a, <2>1 DEF HeldBy
  <2>3. held' = held
    BY <2>1, <2>2, HeldSame
  <2>. QED
    BY <2>1, <2>3 DEF PoolStep, Keeps
<1>. QED
  BY <1>1, <1>2, <1>3, <1>4 DEF Boot

\* After an orderly restart nothing is out of order.
LEMMA RestartFirm ==
  ASSUME Orderly', EgressTypeOK, Restart
  PROVE  Firm
<1>1. restarts' # 0
  BY RestartsAssumption DEF Restart, EgressTypeOK
<1>. QED
  BY <1>1 DEF Orderly, Firm

\* A namespace that discovery finds has an address its name held.
LEMMA DiscoveredHeld ==
  ASSUME Orderly', EgressInv, Restart
  PROVE  /\ claims' = discover_endpoints
         /\ \A n \in discover_endpoints : ns[n] \in held[n] /\ ns[n] \in Usable
<1>. USE DEF EgressInv, EgressTypeOK
<1>1. Firm
  BY RestartFirm
<1>2. claims' = discover_endpoints
  BY <1>1 DEF Restart, discover_existing_endpoints, Firm
<1>3. ASSUME NEW n \in discover_endpoints
      PROVE  ns[n] \in held[n] /\ ns[n] \in Usable
  <2>1. n \in Names /\ ns[n] # NoAddr /\ call[n] = Idle
    BY <1>1, <1>3 DEF discover_endpoints, list_app_namespaces, Restart, Firm
  <2>2. ns[n] = by_name[n].ip \/ n \in claims \/ ns[n] \in lost[n]
    BY <1>1, <2>1 DEF NamespacesKnown, Idle
  <2>3. ns[n] \in Usable
    BY <2>1, <2>2, StoredShape DEF ClaimsPending, NoApp, Usable
  <2>. QED
    BY <2>1, <2>2, <2>3 DEF held, HeldBy
<1>. QED
  BY <1>2, <1>3

LEMMA RestartPool ==
  ASSUME Orderly', EgressInv, Restart
  PROVE  Reboots
<1>. DEFINE found == discover_endpoints
<1>1. claims' = found /\ found \subseteq Names /\ \A n \in found : ns[n] \in held[n] /\ ns[n] \in Usable
  BY DiscoveredHeld DEF discover_endpoints, list_app_namespaces
<1>2. NoAddr \notin Usable /\ NoApp.ip = NoAddr
  BY HostsAssumption DEF Usable, NoAddr, NoApp
<1>3. \A n \in Names : HeldBy(n)' = IF n \in found THEN {ns[n]} ELSE {}
  <2>1. \A n \in Names : by_name'[n] = NoApp /\ call'[n] = Idle /\ lost'[n] = {}
        /\ ns' = ns
    BY DEF Restart, Fresh
  <2>2. Idle.step # "attach"
    BY DEF Idle
  <2>. QED
    BY <1>1, <1>2, <2>1, <2>2 DEF HeldBy
<1>4. held' = [n \in Names |-> IF n \in found THEN {ns[n]} ELSE {}]
  BY <1>3 DEF held
<1>5. \A n \in found : read_eth0_ipv4(n) = ns[n]
  BY <1>1 DEF read_eth0_ipv4, Usable
<1>6. free' = Usable \ {read_eth0_ipv4(n) : n \in found}
  BY RestartFirm DEF Restart, discover_existing_endpoints, Firm, EgressInv
<1>. HIDE DEF found
<1>7. free' = Usable \ {ns[n] : n \in found}
  BY <1>5, <1>6
<1>8. \A ip : ip \in UNION {held'[n] : n \in Names} <=> ip \in {ns[n] : n \in found}
  BY <1>1, <1>4
<1>. QED
  BY <1>1, <1>4, <1>7, <1>8 DEF Reboots

\* Every step of the egress side is one of the pool, or none.
LEMMA PoolSteps ==
  ASSUME Orderly', EgressInv, [Next]_vars
  PROVE  PoolStep
<1>1. ASSUME UNCHANGED <<free, by_name, call, ns, claims, lost>>
      PROVE  PoolStep
  <2>1. \A m \in Names : HeldBy(m)' = HeldBy(m)
    BY <1>1 DEF HeldBy
  <2>. QED
    BY <1>1, <2>1 DEF PoolStep, Keeps, held
<1>2. ASSUME NEW n \in Names, Calls(n)
      PROVE  PoolStep
  BY <1>2, CallPool
<1>3. ASSUME NEW q \in Queries, Handler(q)
      PROVE  PoolStep
  BY <1>1, <1>3 DEF Handler, Query, Resolve, Register, Reply, poolVars, bootVars
<1>4. ASSUME NEW p \in Hosts \X Dsts, Expire(p)
      PROVE  PoolStep
  BY <1>1, <1>4 DEF Expire, poolVars, bootVars
<1>5. CASE Restart
  BY <1>5, RestartPool DEF PoolStep
<1>6. CASE Boot
  BY <1>6, BootPool
<1>7. CASE UNCHANGED vars
  BY <1>1, <1>7 DEF vars
<1>. QED
  BY <1>2, <1>3, <1>4, <1>5, <1>6, <1>7 DEF Next

\* The pool's steps keep the addresses apart.
LEMMA PoolInv ==
  ASSUME EgressInv, PoolStep
  PROVE  SubnetPartition'
<1>. USE DEF EgressInv, SubnetPartition
<1>0. held \in [Names -> SUBSET Usable]
  BY HeldType
<1>1. CASE Keeps
  BY <1>1 DEF Keeps
<1>2. ASSUME NEW n \in Names, Takes(n)
      PROVE  SubnetPartition'
  BY <1>0, <1>2 DEF Takes
<1>3. ASSUME NEW n \in Names, Gives(n)
      PROVE  SubnetPartition'
  BY <1>0, <1>3 DEF Gives
<1>4. CASE Reboots
  BY <1>0, <1>4 DEF Reboots
<1>. QED
  BY <1>1, <1>2, <1>3, <1>4 DEF PoolStep

\* An address leaves the calls' reach with an entry that is overwritten, and
\* with a reattach that fails.
LEMMA LostStep ==
  ASSUME EgressInv, [Next]_vars
  PROVE  LostForCause' /\ ServesFirst'
<1>. USE DEF EgressInv, EgressTypeOK, LostForCause, ServesFirst, poolVars, bootVars
<1>1. ASSUME UNCHANGED <<lost, phase, restarts>>
      PROVE  LostForCause' /\ ServesFirst'
  BY <1>1
<1>2. ASSUME NEW n \in Names, Attach(n)
      PROVE  LostForCause' /\ ServesFirst'
  <2>1. by_name[n] = NoApp \/ "resume" \in Faults
    BY <1>2 DEF Attach, CallsInOrder
  <2>2. by_name[n] = NoApp => lost' = lost
    BY <1>2 DEF Attach, NoApp
  <2>. QED
    BY <1>2, <2>1, <2>2 DEF Attach
<1>3. ASSUME NEW n \in Names, Calls(n), ~Attach(n)
      PROVE  LostForCause' /\ ServesFirst'
  BY <1>1, <1>3 DEF Calls, Allocate, AttachFails, Release, FlushList, FlushDelete, Detach
<1>4. ASSUME NEW q \in Queries, Handler(q)
      PROVE  LostForCause' /\ ServesFirst'
  BY <1>1, <1>4 DEF Handler, Query, Resolve, Register, Reply
<1>5. ASSUME NEW p \in Hosts \X Dsts, Expire(p)
      PROVE  LostForCause' /\ ServesFirst'
  BY <1>1, <1>5 DEF Expire
<1>6. CASE Restart
  <2>1. restarts' # 0
    BY <1>6, RestartsAssumption DEF Restart
  <2>. QED
    BY <2>1
<1>7. CASE Boot
  <2>1. restarts' = restarts /\ restarts # 0
    BY <1>7 DEF Boot, Reattach, ReattachFails, ReattachDone, CleanupOrphan, Serve
  <2>. QED
    BY <2>1
<1>8. CASE UNCHANGED vars
  BY <1>1, <1>8 DEF vars
<1>. QED
  BY <1>2, <1>3, <1>4, <1>5, <1>6, <1>7, <1>8 DEF Next

-----------------------------------------------------------------------------
(* Indexes *)

Indexes == IndexesAgree /\ IndexedRight

\* An app enters both indexes at an address that was its name's already; where
\* its name had an entry, that one's address is lost.
LEMMA InsertIndexes ==
  ASSUME EgressInv, NEW n \in Names, NEW ip \in Usable, NEW list \in Lists,
         ip \in held[n], ip # by_name[n].ip, ip \notin lost[n],
         Insert(App(n, ip, list)),
         lost' = [lost EXCEPT ![n] = lost[n] \cup ({by_name[n].ip} \ {NoAddr})]
  PROVE  Indexes'
<1>. USE DEF EgressInv, EgressTypeOK
<1>. DEFINE app == App(n, ip, list)
<1>1. app # NoApp /\ app.name = n /\ app.ip = ip
  BY AppShape
<1>2. ip \in Hosts /\ by_ip[ip] = NoApp
  <2>1. ip \in Hosts
    BY DEF Usable
  <2>2. ASSUME by_ip[ip] # NoApp
        PROVE  FALSE
    <3>. DEFINE m == by_ip[ip].name
    <3>1. m \in Names /\ by_ip[ip].ip = ip /\ (by_name[m] = by_ip[ip] \/ ip \in lost[m])
      BY <2>1, <2>2, StoredShape DEF IndexesAgree, IndexedRight
    <3>. HIDE DEF m
    <3>2. by_name[m].ip = ip \/ ip \in lost[m]
      BY <3>1
    <3>3. ip \in held[m]
      BY <3>1, <3>2 DEF held, HeldBy
    <3>4. m = n
      BY <3>1, <3>3 DEF SubnetPartition
    <3>. QED
      BY <3>2, <3>4
  <2>. QED
    BY <2>1, <2>2
<1>3. by_name' = [by_name EXCEPT ![n] = app] /\ by_ip' = [by_ip EXCEPT ![ip] = app]
  BY <1>1 DEF Insert
<1>. HIDE DEF app
<1>4. IndexedRight'
  BY <1>1, <1>3 DEF IndexedRight
<1>5. \A m \in Names : by_name'[m] # NoApp => by_ip'[by_name'[m].ip] = by_name'[m]
  BY <1>1, <1>2, <1>3, StoredShape DEF IndexesAgree, Usable
<1>6. ASSUME NEW i \in Hosts, by_ip'[i] # NoApp
      PROVE  by_name'[by_ip'[i].name] = by_ip'[i] \/ i \in lost'[by_ip'[i].name]
  <2>1. CASE i = ip
    BY <1>1, <1>3, <2>1
  <2>2. CASE i # ip
    <3>1. by_ip'[i] = by_ip[i] /\ by_ip[i] # NoApp
      BY <1>3, <1>6, <2>2
    <3>2. /\ by_ip[i].name \in Names /\ by_ip[i].ip = i /\ i # NoAddr
          /\ by_name[by_ip[i].name] = by_ip[i] \/ i \in lost[by_ip[i].name]
      BY <3>1, HostsAssumption DEF IndexesAgree, IndexedRight, Stored, App, NoAddr, NoApp
    <3>3. CASE by_ip[i].name = n
      BY <3>1, <3>2, <3>3
    <3>4. CASE by_ip[i].name # n
      BY <1>3, <3>1, <3>2, <3>4
    <3>. QED
      BY <3>3, <3>4
  <2>. QED
    BY <2>1, <2>2
<1>. QED
  BY <1>4, <1>5, <1>6 DEF Indexes, IndexesAgree

LEMMA IndexStep ==
  ASSUME EgressInv, [Next]_vars
  PROVE  Indexes'
<1>. USE DEF EgressInv, EgressTypeOK, poolVars, bootVars
<1>1. ASSUME UNCHANGED <<by_name, by_ip, lost>>
      PROVE  Indexes'
  BY <1>1 DEF Indexes, IndexesAgree, IndexedRight
<1>2. ASSUME NEW n \in Names, Attach(n)
      PROVE  Indexes'
  <2>1. /\ call[n].ip \in Usable /\ call[n].list \in Lists /\ call[n].step = "attach"
        /\ call[n].ip \notin lost[n] /\ call[n].ip # by_name[n].ip
    BY <1>2, CallShape DEF Attach, HeldOnce
  <2>2. call[n].ip \in held[n]
    BY <2>1 DEF held, HeldBy
  <2>. QED
    BY <1>2, <2>1, <2>2, InsertIndexes DEF Attach
<1>3. ASSUME NEW n \in Names, Release(n)
      PROVE  Indexes'
  <2>. DEFINE app == by_name[n]
  <2>1. app \in Stored /\ app # NoApp /\ app.ip \in Usable /\ app.name = n /\ by_ip[app.ip] = app
    BY <1>3, StoredShape DEF Release, IndexesAgree, IndexedRight
  <2>2. /\ by_name' = [by_name EXCEPT ![n] = NoApp] /\ by_ip' = [by_ip EXCEPT ![app.ip] = NoApp]
        /\ lost' = lost
    BY <1>3 DEF Release
  <2>3. IndexedRight'
    BY <2>1, <2>2 DEF IndexedRight
  <2>4. ASSUME NEW m \in Names, by_name'[m] # NoApp
        PROVE  by_ip'[by_name'[m].ip] = by_name'[m]
    <3>1. m # n /\ by_name'[m] = by_name[m] /\ by_name[m] # NoApp /\ by_name[m].ip \in Usable
      BY <2>2, <2>4, StoredShape
    <3>2. by_ip[by_name[m].ip] = by_name[m] /\ by_name[m].name = m
      BY <3>1 DEF IndexesAgree, IndexedRight
    <3>3. by_name[m].ip # app.ip
      BY <2>1, <3>1, <3>2
    <3>. QED
      BY <2>2, <3>1, <3>2, <3>3 DEF Usable
  <2>5. ASSUME NEW i \in Hosts, by_ip'[i] # NoApp
        PROVE  by_name'[by_ip'[i].name] = by_ip'[i] \/ i \in lost'[by_ip'[i].name]
    <3>1. i # app.ip /\ by_ip'[i] = by_ip[i] /\ by_ip[i] # NoApp /\ by_ip[i].name \in Names
      BY <2>1, <2>2, <2>5, StoredShape DEF Usable
    <3>2. /\ by_name[by_ip[i].name] = by_ip[i] \/ i \in lost[by_ip[i].name]
          /\ by_ip[i].ip = i
      BY <3>1 DEF IndexesAgree, IndexedRight
    <3>. QED
      BY <2>2, <3>1, <3>2
  <2>. QED
    BY <2>3, <2>4, <2>5 DEF Indexes, IndexesAgree
<1>4. ASSUME NEW n \in Names, NEW list \in Lists, Reattach(n, list)
      PROVE  Indexes'
  <2>1. n \in claims /\ lost' = lost
    BY <1>4 DEF Reattach, Claim
  <2>2. ns[n] \in Usable /\ by_name[n] = NoApp /\ lost[n] = {}
    BY <2>1 DEF ClaimsPending
  <2>3. by_name[n].ip = NoAddr /\ NoAddr \notin Usable
    BY <2>2, HostsAssumption DEF NoApp, NoAddr, Usable
  <2>4. ns[n] \in held[n]
    BY <2>1, <2>2 DEF held, HeldBy
  <2>5. lost' = [lost EXCEPT ![n] = lost[n] \cup ({by_name[n].ip} \ {NoAddr})]
    BY <2>1, <2>3
  <2>. QED
    BY <1>4, <2>2, <2>3, <2>4, <2>5, InsertIndexes DEF Reattach
<1>5. CASE Restart
  BY <1>5 DEF Restart, Fresh, Indexes, IndexesAgree, IndexedRight
<1>6. CASE ReattachDone \/ Serve \/ \E n \in Names : CleanupOrphan(n)
  BY <1>1, <1>6 DEF ReattachDone, Serve, CleanupOrphan
<1>7. ASSUME NEW q \in Queries, Handler(q)
      PROVE  Indexes'
  BY <1>1, <1>7 DEF Handler, Query, Resolve, Register, Reply
<1>8. ASSUME NEW p \in Hosts \X Dsts, Expire(p)
      PROVE  Indexes'
  BY <1>1, <1>8 DEF Expire
<1>9. ASSUME NEW n \in Names, Calls(n), ~Attach(n), ~Release(n)
      PROVE  Indexes'
  BY <1>1, <1>9 DEF Calls, Allocate, AttachFails, FlushList, FlushDelete, Detach
<1>10. CASE UNCHANGED vars
  BY <1>1, <1>10 DEF vars
<1>11. ASSUME NEW n \in Names, NEW list \in Lists, ReattachFails(n, list)
      PROVE  Indexes'
  <2>1. /\ UNCHANGED <<by_name, by_ip>>
        /\ \A m \in Names : lost[m] \subseteq lost'[m]
    BY <1>11 DEF ReattachFails
  <2>2. \A i \in Hosts : by_ip[i] # NoApp => by_ip[i].name \in Names
    BY StoredShape
  <2>. QED
    BY <2>1, <2>2 DEF Indexes, IndexesAgree, IndexedRight
<1>. QED
  BY <1>2, <1>3, <1>4, <1>5, <1>6, <1>7, <1>8, <1>9, <1>10, <1>11 DEF Next, Boot

-----------------------------------------------------------------------------
(* Calls, claims and namespaces *)

Progress ==
  /\ CallsInOrder /\ ClaimsPending /\ LivingAttached /\ HeldOnce
  /\ NamespacesKnown /\ DoomedOwn

\* What each of them says of one name.
InOrder(n) ==
  call[n].step # "idle" =>
    /\ phase = "serving"
    /\ by_name[n] = NoApp \/ (call[n].step = "attach" /\ "resume" \in Faults)
Pending(n) ==
  n \in claims =>
    by_name[n] = NoApp /\ ns[n] \in Usable /\ phase # "serving" /\ lost[n] = {}
Lives(n) ==
  n \in alive =>
    /\ ns[n] \in Usable
    /\ by_name[n] # NoApp \/ n \in claims \/ ns[n] \in lost[n] \/ Leftover(n)
Once(n) ==
  /\ by_name[n] # NoApp => by_name[n].ip \notin lost[n]
  /\ call[n].step = "attach" => call[n].ip \notin lost[n] /\ call[n].ip # by_name[n].ip
Known(n) ==
  /\ by_name[n] # NoApp => ns[n] = by_name[n].ip \/ ("resume" \in Faults /\ n \notin alive)
  /\ Firm => (call[n].step \in {"idle", "attach"} =>
       ns[n] = NoAddr \/ ns[n] = by_name[n].ip \/ n \in claims \/ ns[n] \in lost[n])
Doomed(n) ==
  call[n].step = "delete" => \A p \in call[n].doomed : p[1] = call[n].ip

Sound(n) == InOrder(n) /\ Pending(n) /\ Lives(n) /\ Once(n) /\ Known(n) /\ Doomed(n)

LEMMA ProgressOfNames ==
  ASSUME EgressTypeOK
  PROVE  Progress => /\ \A n \in Names : Sound(n)
                     /\ phase = "orphans" => claims \cap alive = {}
BY DEF Progress, Sound, CallsInOrder, ClaimsPending, LivingAttached, HeldOnce, NamespacesKnown,
       DoomedOwn, InOrder, Pending, Lives, Once, Known, Doomed, EgressTypeOK

LEMMA ProgressAgain ==
  ASSUME EgressTypeOK', \A n \in Names : Sound(n)',
         phase' = "orphans" => claims' \cap alive' = {}
  PROVE  Progress'
BY DEF Progress, Sound, CallsInOrder, ClaimsPending, LivingAttached, HeldOnce, NamespacesKnown,
       DoomedOwn, InOrder, Pending, Lives, Once, Known, Doomed, EgressTypeOK

\* A step of one name leaves the others sound.
LEMMA OthersSound ==
  ASSUME NEW m, Sound(m), phase' = phase,
         by_name'[m] = by_name[m], call'[m] = call[m], ns'[m] = ns[m], lost'[m] = lost[m],
         m \in alive' <=> m \in alive,
         m \in claims' <=> m \in claims
  PROVE  Sound(m)'
BY DEF Sound, InOrder, Pending, Lives, Once, Known, Doomed, Leftover

LEMMA SoundNow ==
  ASSUME EgressInv
  PROVE  /\ \A n \in Names : Sound(n)
         /\ phase = "orphans" => claims \cap alive = {}
BY ProgressOfNames DEF EgressInv, Progress

LEMMA DetachChanges ==
  ASSUME EgressTypeOK, NEW n \in Names, DetachNamespace(n)
  PROVE  /\ Firm => ns'[n] = NoAddr
         /\ "detach" \notin Faults => ns'[n] = NoAddr
         /\ n \in alive' => n \in alive /\ ns'[n] = ns[n]
         /\ \A m \in Names \ {n} : ns'[m] = ns[m] /\ (m \in alive' <=> m \in alive)
BY DEF DetachNamespace, Detached, Firm, EgressTypeOK

LEMMA CallSound ==
  ASSUME EgressInv, NEW n \in Names, Calls(n)
  PROVE  Sound(n)'
<1>. USE DEF EgressInv, EgressTypeOK, Goto, poolVars, bootVars
<1>0. /\ call[n].step = "idle" <=> call[n] = Idle
      /\ call[n].step = "attach" => call[n].ip \in Usable /\ call[n].list \in Lists
      /\ Idle.step = "idle" /\ NoApp.ip = NoAddr /\ NoAddr \notin Usable
      /\ by_name[n] # NoApp => by_name[n].ip \in Usable
  BY CallShape, StoredShape, HostsAssumption DEF Idle, NoApp, NoAddr, Usable
<1>a. /\ InOrder(n) /\ Pending(n) /\ Lives(n) /\ Once(n) /\ Known(n) /\ Doomed(n)
      /\ phase = "serving" => n \notin claims
  BY SoundNow DEF Sound, Pending
<1>. USE DEF Sound, InOrder, Pending, Lives, Once, Known, Doomed, Leftover
<1>1. ASSUME NEW list \in Lists, Allocate(n, list)
      PROVE  Sound(n)'
  <2>1. PICK ip \in free : call' = [call EXCEPT ![n] = [step |-> "attach", ip |-> ip, list |-> list]]
    BY <1>1 DEF Allocate
  <2>. DEFINE next == [step |-> "attach", ip |-> ip, list |-> list]
  <2>2. next.step = "attach" /\ next.ip = ip /\ call' = [call EXCEPT ![n] = next]
    BY <2>1
  <2>. HIDE DEF next
  <2>3. ip \notin held[n] /\ ip \in Usable
    BY DEF SubnetPartition
  <2>4. ip \notin lost[n] /\ ip # by_name[n].ip
    BY <2>3 DEF held, HeldBy
  <2>5. /\ call[n].step = "idle" /\ phase = "serving" /\ (by_name[n] = NoApp \/ "resume" \in Faults)
        /\ UNCHANGED <<by_name, ns, alive, lost, claims, phase>>
    BY <1>0, <1>1 DEF Allocate
  <2>. QED
    BY <1>a, <2>2, <2>4, <2>5
<1>2. CASE Attach(n)
  <2>. DEFINE app == App(n, call[n].ip, call[n].list)
  <2>1. app # NoApp /\ app.name = n /\ app.ip = call[n].ip
    BY <1>2, <1>0, AppShape DEF Attach
  <2>2. Insert(app)
    BY <1>2 DEF Attach
  <2>. HIDE DEF app
  <2>3. /\ by_name' = [by_name EXCEPT ![n] = app] /\ call' = [call EXCEPT ![n] = Idle]
        /\ ns' = [ns EXCEPT ![n] = call[n].ip] /\ alive' = alive \cup {n}
        /\ lost' = [lost EXCEPT ![n] = lost[n] \cup ({by_name[n].ip} \ {NoAddr})]
        /\ UNCHANGED <<claims, phase>> /\ call[n].step = "attach"
    BY <1>2, <2>1, <2>2 DEF Attach, Insert
  <2>. QED
    BY <1>0, <1>a, <2>1, <2>3
<1>3. CASE AttachFails(n)
  <2>1. /\ call' = [call EXCEPT ![n] = Idle] /\ call[n].step = "attach"
        /\ UNCHANGED <<by_name, lost, claims, phase>> /\ DetachNamespace(n)
    BY <1>3 DEF AttachFails
  <2>. QED
    BY <1>0, <1>a, <2>1, DetachChanges
<1>4. CASE Release(n)
  <2>. DEFINE next == [step |-> "list", ip |-> by_name[n].ip]
  <2>1. /\ by_name' = [by_name EXCEPT ![n] = NoApp] /\ call' = [call EXCEPT ![n] = next]
        /\ n \in alive' => n \in alive /\ "launch" \in Faults
        /\ UNCHANGED <<ns, lost, claims, phase>>
        /\ phase = "serving" /\ by_name[n] # NoApp
    BY <1>4 DEF Release
  <2>2. next.step = "list"
    OBVIOUS
  <2>. HIDE DEF next
  <2>. QED
    BY <1>0, <1>a, <2>1, <2>2
<1>5. CASE FlushList(n)
  <2>. DEFINE next == [step |-> "delete", ip |-> call[n].ip,
                       doomed |-> {p \in allow4 : p[1] = call[n].ip}]
  <2>1. next.step = "delete" /\ next.ip = call[n].ip /\ \A p \in next.doomed : p[1] = next.ip
    OBVIOUS
  <2>2. /\ call' = [call EXCEPT ![n] = next] /\ call[n].step = "list"
        /\ UNCHANGED <<by_name, lost, ns, alive, claims, phase>>
    BY <1>5 DEF FlushList
  <2>. HIDE DEF next
  <2>. QED
    BY <1>0, <1>a, <2>1, <2>2
<1>6. CASE FlushDelete(n)
  <2>1. /\ call' = [call EXCEPT ![n] = [step |-> "detach"]] /\ call[n].step = "delete"
        /\ UNCHANGED <<by_name, lost, ns, alive, claims, phase>>
    BY <1>6 DEF FlushDelete
  <2>. QED
    BY <1>0, <1>a, <2>1
<1>7. CASE Detach(n)
  <2>1. /\ call' = [call EXCEPT ![n] = Idle] /\ call[n].step = "detach"
        /\ UNCHANGED <<by_name, lost, claims, phase>> /\ DetachNamespace(n)
    BY <1>7 DEF Detach
  <2>. QED
    BY <1>0, <1>a, <2>1, DetachChanges
<1>. QED
  BY <1>1, <1>2, <1>3, <1>4, <1>5, <1>6, <1>7 DEF Calls

LEMMA CallProgress ==
  ASSUME EgressInv, NEW n \in Names, Calls(n)
  PROVE  Progress'
<1>. USE DEF EgressInv, EgressTypeOK, poolVars, bootVars
<1>1. phase' = phase /\ claims' = claims /\ phase = "serving"
  BY CallShape DEF Calls, Allocate, Attach, AttachFails, Release, FlushList, FlushDelete, Detach,
                   CallsInOrder
<1>2. ASSUME NEW m \in Names \ {n}
      PROVE  Sound(m)'
  <2>1. /\ by_name'[m] = by_name[m] /\ call'[m] = call[m] /\ ns'[m] = ns[m] /\ lost'[m] = lost[m]
        /\ m \in alive' <=> m \in alive
    <3>1. CASE Attach(n)
      <4>. DEFINE app == App(n, call[n].ip, call[n].list)
      <4>1. app.name = n /\ Insert(app)
        BY <3>1 DEF Attach, App
      <4>. HIDE DEF app
      <4>. QED
        BY <3>1, <4>1 DEF Attach, Insert, Goto
    <3>2. CASE AttachFails(n) \/ Detach(n)
      BY <3>2, DetachChanges DEF AttachFails, Detach, Goto
    <3>3. CASE ~Attach(n) /\ ~AttachFails(n) /\ ~Detach(n)
      BY <3>3 DEF Calls, Allocate, Release, FlushList, FlushDelete, Goto
    <3>. QED
      BY <3>1, <3>2, <3>3
  <2>. QED
    BY <1>1, <2>1, SoundNow, OthersSound
<1>3. EgressTypeOK'
  BY CallType
<1>. QED
  BY <1>1, <1>2, <1>3, CallSound, ProgressAgain

LEMMA BootProgress ==
  ASSUME EgressInv, Boot
  PROVE  Progress'
<1>. USE DEF EgressInv, EgressTypeOK, poolVars, bootVars
<1>0. EgressTypeOK'
  BY BootType DEF ClaimsPending
<1>a. /\ \A m \in Names : Sound(m)
      /\ phase = "orphans" => claims \cap alive = {}
      /\ NoApp.ip = NoAddr /\ NoAddr \notin Usable
  BY SoundNow, HostsAssumption DEF NoApp, NoAddr, Usable
<1>1. ASSUME NEW n \in Names, NEW list \in Lists, Reattach(n, list)
      PROVE  Progress'
  <2>. DEFINE app == App(n, ns[n], list)
  <2>1. app # NoApp /\ app.name = n /\ app.ip = ns[n]
    BY <1>1, AppShape DEF Reattach, Claim, ClaimsPending
  <2>2. Insert(app)
    BY <1>1 DEF Reattach
  <2>. HIDE DEF app
  <2>3. /\ by_name' = [by_name EXCEPT ![n] = app] /\ n \in claims /\ claims' = claims \ {n}
        /\ UNCHANGED <<ns, alive, call, lost, phase>> /\ phase = "reattach"
    BY <1>1, <2>1, <2>2 DEF Reattach, Claim, Insert
  <2>4. Sound(n)'
    BY <1>a, <2>1, <2>3 DEF Sound, InOrder, Pending, Lives, Once, Known, Doomed
  <2>5. \A m \in Names \ {n} : Sound(m)'
    BY <1>a, <2>3, OthersSound
  <2>. QED
    BY <1>0, <2>3, <2>4, <2>5, ProgressAgain
<1>2. ASSUME NEW n \in Names, CleanupOrphan(n)
      PROVE  Progress'
  <2>1. /\ n \in claims /\ claims' = claims \ {n}
        /\ UNCHANGED <<by_name, alive, call, lost, phase>> /\ n \notin alive
        /\ Firm => ns'[n] = NoAddr
        /\ \A m \in Names \ {n} : ns'[m] = ns[m]
    BY <1>2, <1>a DEF CleanupOrphan, Claim, Detached, Firm
  <2>2. Sound(n)'
    BY <1>a, <2>1 DEF Sound, InOrder, Pending, Lives, Once, Known, Doomed
  <2>3. \A m \in Names \ {n} : Sound(m)'
    BY <1>a, <2>1, OthersSound
  <2>. QED
    BY <1>0, <1>a, <2>1, <2>2, <2>3, ProgressAgain
<1>3. CASE ReattachDone \/ Serve
  <2>1. /\ UNCHANGED <<by_name, ns, alive, call, lost, claims>>
        /\ phase # "serving"
        /\ phase' = "orphans" => claims \cap alive = {}
        /\ phase' = "serving" => claims = {}
        /\ phase' \in {"orphans", "serving"}
    BY <1>3 DEF ReattachDone, Serve
  <2>2. ASSUME NEW m \in Names PROVE Sound(m)'
    BY <1>a, <2>1 DEF Sound, InOrder, Pending, Lives, Once, Known, Doomed, Leftover
  <2>. QED
    BY <1>0, <2>1, <2>2, ProgressAgain
<1>4. ASSUME NEW n \in Names, NEW list \in Lists, ReattachFails(n, list)
      PROVE  Progress'
  <2>1. /\ n \in claims /\ claims' = claims \ {n} /\ phase = "reattach"
        /\ lost' = [lost EXCEPT ![n] = lost[n] \cup {ns[n]}]
        /\ UNCHANGED <<by_name, ns, alive, call, phase>>
    BY <1>4 DEF ReattachFails, Claim
  <2>2. Sound(n)'
    BY <1>a, <2>1 DEF Sound, InOrder, Pending, Lives, Once, Known, Doomed
  <2>3. \A m \in Names \ {n} : Sound(m)'
    BY <1>a, <2>1, OthersSound
  <2>. QED
    BY <1>0, <2>1, <2>2, <2>3, ProgressAgain
<1>. QED
  BY <1>1, <1>2, <1>3, <1>4 DEF Boot

LEMMA RestartProgress ==
  ASSUME Orderly', EgressInv, Restart
  PROVE  Progress'
<1>. USE DEF EgressInv, EgressTypeOK
<1>1. /\ claims' = discover_endpoints /\ discover_endpoints \subseteq Names
      /\ \A n \in discover_endpoints : ns[n] \in Usable
  BY DiscoveredHeld DEF discover_endpoints, list_app_namespaces
<1>2. /\ \A n \in Names : by_name'[n] = NoApp /\ call'[n] = Idle /\ lost'[n] = {}
      /\ ns' = ns /\ alive' \subseteq alive /\ phase' = "reattach"
  BY DEF Restart, Fresh
<1>3. Firm /\ \A n \in Names : call[n] = Idle
  BY RestartFirm DEF Restart, Firm
<1>4. ASSUME NEW n \in Names, n \notin discover_endpoints
      PROVE  ns[n] \notin Usable
  BY <1>4, HostsAssumption DEF discover_endpoints, list_app_namespaces, read_eth0_ipv4, Usable, NoAddr
<1>5. ASSUME NEW n \in Names, ns[n] \notin Usable
      PROVE  ns[n] = NoAddr
  <2>1. n \notin claims /\ by_name[n].ip \in Usable \cup {NoAddr} /\ ns[n] \notin lost[n]
    BY <1>5, StoredShape DEF ClaimsPending, NoApp, Usable
  <2>. QED
    BY <1>3, <1>5, <2>1 DEF NamespacesKnown, Idle
<1>6. EgressTypeOK'
  BY RestartType
<1>7. ASSUME NEW n \in Names
      PROVE  Sound(n)'
  <2>1. n \in alive => ns[n] \in Usable
    BY DEF LivingAttached
  <2>2. n \in claims' <=> ns[n] \in Usable
    BY <1>1, <1>4
  <2>3. Idle.step = "idle"
    BY DEF Idle
  <2>. QED
    BY <1>2, <1>5, <2>1, <2>2, <2>3 DEF Sound, InOrder, Pending, Lives, Once, Known, Doomed
<1>. QED
  BY <1>2, <1>6, <1>7, ProgressAgain

LEMMA ProgressStep ==
  ASSUME Orderly', EgressInv, [Next]_vars
  PROVE  Progress'
<1>1. ASSUME UNCHANGED <<by_name, call, ns, alive, claims, phase, lost>>
      PROVE  Progress'
  BY <1>1 DEF Progress, EgressInv, CallsInOrder, ClaimsPending, LivingAttached, HeldOnce,
              NamespacesKnown, DoomedOwn, Leftover
<1>2. ASSUME NEW q \in Queries, Handler(q)
      PROVE  Progress'
  BY <1>1, <1>2 DEF Handler, Query, Resolve, Register, Reply, poolVars, bootVars
<1>3. ASSUME NEW p \in Hosts \X Dsts, Expire(p)
      PROVE  Progress'
  BY <1>1, <1>3 DEF Expire, poolVars, bootVars
<1>4. CASE UNCHANGED vars
  BY <1>1, <1>4 DEF vars
<1>. QED
  BY <1>2, <1>3, <1>4, CallProgress, BootProgress, RestartProgress DEF Next

-----------------------------------------------------------------------------
(* The invariant *)

LEMMA EgressInvInit == Init => EgressInv
<1>. SUFFICES ASSUME Init PROVE EgressInv
  OBVIOUS
<1>1. held = [n \in Names |-> {}]
  BY HostsAssumption DEF Init, held, HeldBy, Idle, NoApp, NoAddr, Usable
<1>2. SubnetPartition
  BY <1>1 DEF Init, SubnetPartition
<1>3. LostForCause /\ IndexesAgree /\ IndexedRight /\ CallsInOrder /\ ClaimsPending
      /\ LivingAttached /\ HeldOnce /\ NamespacesKnown /\ ServesFirst /\ DoomedOwn
  BY DEF Init, LostForCause, IndexesAgree, IndexedRight, CallsInOrder, ClaimsPending,
         LivingAttached, HeldOnce, NamespacesKnown, ServesFirst, DoomedOwn, Idle
<1>. QED
  BY <1>2, <1>3, TypeInit DEF EgressInv

LEMMA EgressInvStep == Orderly' /\ EgressInv /\ [Next]_vars => EgressInv'
<1>. SUFFICES ASSUME Orderly', EgressInv, [Next]_vars
              PROVE  EgressInv'
  OBVIOUS
<1>1. EgressTypeOK'
  <2>1. \A n \in alive : ns[n] \in Usable
    BY DEF EgressInv, LivingAttached
  <2>. QED
    BY <2>1, TypeStep DEF EgressInv, ClaimsPending
<1>2. SubnetPartition' /\ LostForCause' /\ ServesFirst'
  BY PoolSteps, PoolInv, LostStep
<1>3. IndexesAgree' /\ IndexedRight'
  BY IndexStep DEF Indexes
<1>. QED
  BY <1>1, <1>2, <1>3, ProgressStep DEF EgressInv, Progress

\* What was in disorder once is not in order again.
LEMMA RestartsCount ==
  ASSUME restarts \in Nat, [Next]_vars
  PROVE  /\ restarts' \in Nat
         /\ Orderly' => Orderly
         /\ MaxRestarts = 0 => restarts' = restarts
<1>1. CASE restarts' = restarts
  BY <1>1 DEF Orderly, Firm
<1>2. CASE Restart
  BY <1>2, RestartsAssumption DEF Restart, Orderly, Firm
<1>3. ASSUME NEW n \in Names, Calls(n)
      PROVE  restarts' = restarts
  BY <1>3 DEF Calls, Allocate, Attach, AttachFails, Release, FlushList, FlushDelete, Detach, bootVars
<1>4. ASSUME NEW q \in Queries, Handler(q)
      PROVE  restarts' = restarts
  BY <1>4 DEF Handler, Query, Resolve, Register, Reply, bootVars
<1>5. ASSUME NEW p \in Hosts \X Dsts, Expire(p)
      PROVE  restarts' = restarts
  BY <1>5 DEF Expire, bootVars
<1>6. CASE Boot
  BY <1>1, <1>6 DEF Boot, Reattach, ReattachFails, ReattachDone, CleanupOrphan, Serve
<1>7. CASE UNCHANGED vars
  BY <1>1, <1>7 DEF vars
<1>. QED
  BY <1>1, <1>2, <1>3, <1>4, <1>5, <1>6, <1>7 DEF Next

LEMMA EgressCorrect == EgressSpec => [](Orderly => EgressInv)
<1>. DEFINE Inv == restarts \in Nat /\ (Orderly => EgressInv)
<1>1. Init => Inv
  BY EgressInvInit DEF Init
<1>2. Inv /\ [Next]_vars => Inv'
  BY EgressInvStep, RestartsCount
<1>. QED
  BY <1>1, <1>2, PTL DEF EgressSpec

\* Without restarts, or with orderly ones only, there is no disorder.
LEMMA AlwaysOrderly ==
  ASSUME MaxRestarts = 0 \/ Firm
  PROVE  EgressSpec => []Orderly
<1>. DEFINE Inv == restarts \in Nat /\ (MaxRestarts = 0 => restarts = 0)
<1>1. Init => Inv
  BY DEF Init
<1>2. Inv /\ [Next]_vars => Inv'
  BY RestartsCount
<1>3. Inv => Orderly
  BY DEF Orderly, Firm
<1>. QED
  BY <1>1, <1>2, <1>3, PTL DEF EgressSpec

LEMMA EgressInvEndpoints == EgressInv => EndpointsInv
<1>. SUFFICES ASSUME EgressInv PROVE EndpointsInv
  OBVIOUS
<1>. USE DEF EgressInv, EgressTypeOK
<1>1. ASSUME NEW n \in Names, by_name[n] # NoApp
      PROVE  ns[n] = by_name[n].ip \/ ("resume" \in Faults /\ n \notin alive)
  BY <1>1 DEF NamespacesKnown
<1>2. ASSUME NEW n \in Names, by_name[n] # NoApp, NEW m \in alive \ {n},
             ns[m] = by_name[n].ip
      PROVE  Leftover(m)
  <2>1. m \in Names /\ ns[m] \in Usable /\ ns[m] \in held[n]
    BY <1>2, StoredShape DEF LivingAttached, held, HeldBy
  <2>2. ns[m] \notin held[m]
    BY <1>2, <2>1 DEF SubnetPartition
  <2>3. ns[m] # by_name[m].ip /\ m \notin claims /\ ns[m] \notin lost[m]
    BY <2>1, <2>2 DEF held, HeldBy
  <2>. QED
    BY <1>2, <2>1, <2>3 DEF LivingAttached, NamespacesKnown
<1>. QED
  BY <1>1, <1>2 DEF EndpointsInv, EndpointAttached

-----------------------------------------------------------------------------
(* The firewall *)

LEMMA FirstMatch ==
  ASSUME NEW chain, NEW i \in 1..Len(chain), Len(chain) \in Nat, chain[i].matches,
         \A j \in 1..Len(chain) : j < i => ~chain[j].matches
  PROVE  Verdict(chain) = chain[i].verdict
<1>. DEFINE hits == {j \in 1..Len(chain) : chain[j].matches}
<1>1. i \in hits /\ \A j \in hits : i <= j
  OBVIOUS
<1>2. \A k \in hits : (\A j \in hits : k <= j) => k = i
  BY <1>1
<1>3. (CHOOSE k \in hits : \A j \in hits : k <= j) = i
  BY <1>1, <1>2
<1>. QED
  BY <1>3 DEF Verdict

\* What the forward chain lets through of a new connection from the subnet.
LEMMA ForwardAccepts ==
  ASSUME NEW p, NEW pairs, p.src \in Hosts, ~p.established,
         Forward(p, pairs) = "accept"
  PROVE  p.dport \notin ResolverPorts /\ <<p.src, p.dst>> \in pairs
<1>. DEFINE chain == <<Rule(p.established, "accept"),
                       Rule(p.src \in Hosts /\ p.dport \in ResolverPorts, "drop"),
                       Rule(<<p.src, p.dst>> \in pairs, "accept"),
                       Rule(p.src \in Hosts, "drop"),
                       Rule(TRUE, "drop")>>
<1>1. /\ Len(chain) = 5
      /\ ~chain[1].matches
      /\ (chain[2].matches <=> p.src \in Hosts /\ p.dport \in ResolverPorts) /\ chain[2].verdict = "drop"
      /\ (chain[3].matches <=> <<p.src, p.dst>> \in pairs)
      /\ (chain[4].matches <=> p.src \in Hosts) /\ chain[4].verdict = "drop"
  BY DEF Rule
<1>2. Verdict(chain) = "accept"
  BY DEF Forward
<1>. HIDE DEF chain
<1>3. CASE p.dport \in ResolverPorts
  <2>1. /\ 2 \in 1..Len(chain) /\ Len(chain) \in Nat /\ chain[2].matches
        /\ \A j \in 1..Len(chain) : j < 2 => ~chain[j].matches
    BY <1>1, <1>3
  <2>2. Verdict(chain) = chain[2].verdict
    BY <2>1, FirstMatch, Zenon
  <2>. QED
    BY <1>1, <1>2, <2>2
<1>4. CASE p.dport \notin ResolverPorts /\ <<p.src, p.dst>> \notin pairs
  <2>1. /\ 4 \in 1..Len(chain) /\ Len(chain) \in Nat /\ chain[4].matches
        /\ \A j \in 1..Len(chain) : j < 4 => ~chain[j].matches
    BY <1>1, <1>4
  <2>2. Verdict(chain) = chain[4].verdict
    BY <2>1, FirstMatch, Zenon
  <2>. QED
    BY <1>1, <1>2, <2>2
<1>. QED
  BY <1>3, <1>4

\* And the input chain at the bridge.
LEMMA InputAccepts ==
  ASSUME NEW p, p.src \in Hosts, ~p.established, Input(p) = "accept"
  PROVE  p.dport = DnsPort
<1>. DEFINE chain == <<Rule(p.established, "accept"),
                       Rule(p.dst = bridge_ip /\ p.dport = DnsPort, "accept"),
                       Rule(p.src \in Hosts, "drop"),
                       Rule(TRUE, "accept")>>
<1>1. /\ Len(chain) = 4
      /\ ~chain[1].matches
      /\ (chain[2].matches <=> p.dst = bridge_ip /\ p.dport = DnsPort)
      /\ (chain[3].matches <=> p.src \in Hosts) /\ chain[3].verdict = "drop"
  BY DEF Rule
<1>2. Verdict(chain) = "accept"
  BY DEF Input
<1>. HIDE DEF chain
<1>3. ASSUME p.dport # DnsPort
      PROVE  FALSE
  <2>1. /\ 3 \in 1..Len(chain) /\ Len(chain) \in Nat /\ chain[3].matches
        /\ \A j \in 1..Len(chain) : j < 3 => ~chain[j].matches
    BY <1>1, <1>3
  <2>2. Verdict(chain) = chain[3].verdict
    BY <2>1, FirstMatch, Zenon
  <2>. QED
    BY <1>1, <1>2, <2>2
<1>. QED
  BY <1>3

-----------------------------------------------------------------------------
(* Names and rules *)

\* A non-empty set of numbers from a finite set has a greatest one.
LEMMA Greatest ==
  ASSUME NEW N \in SUBSET Nat, IsFiniteSet(N), NEW S \in SUBSET N, S # {}
  PROVE  \E n \in S : \A m \in S : n >= m
<1>. DEFINE Above(n) == {m \in S : m > n}
            R == StrictSubsetOrdering(N)
            T == {Above(n) : n \in S}
<1>0. \A k \in S : k \in Nat
  OBVIOUS
<1>1. T \subseteq FiniteSubsetsOf(N) /\ T # {}
  <2>1. T \subseteq SUBSET N /\ T # {}
    OBVIOUS
  <2>. QED
    BY <2>1, FS_FiniteSubsetsOfFinite
<1>2. PICK x \in T : \A y \in T : <<y, x>> \notin R
  <2>. HIDE DEF T, R
  <2>1. IsWellFoundedOn(StrictSubsetOrdering(N), FiniteSubsetsOf(N))
    BY FS_StrictSubsetOrderingWellFounded
  <2>. QED
    BY <1>1, <2>1, WFMin DEF R
<1>3. PICK n \in S : x = Above(n)
  BY <1>2
<1>4. ASSUME NEW m \in S, m > n
      PROVE  FALSE
  <2>1. Above(m) \subseteq Above(n)
    <3>1. \A k \in S : k > m => k > n
      BY <1>0, <1>4
    <3>. QED
      BY <3>1
  <2>2. m \in Above(n) /\ m \notin Above(m)
    BY <1>0, <1>4
  <2>3. Above(m) \in T /\ Above(m) \in SUBSET N /\ Above(n) \in SUBSET N
    OBVIOUS
  <2>4. <<Above(m), x>> \in R
    BY <1>3, <2>1, <2>2, <2>3 DEF StrictSubsetOrdering
  <2>. QED
    BY <1>2, <2>3, <2>4
<1>5. \A m \in S : n >= m
  BY <1>0, <1>4
<1>. QED
  BY <1>5

LEMMA GreatestTo ==
  ASSUME NEW bound \in Nat, NEW S \in SUBSET (0..bound), S # {}
  PROVE  \E n \in S : \A m \in S : n >= m
<1>1. IsFiniteSet(0..bound) /\ 0..bound \in SUBSET Nat
  <2>1. IsFiniteSet(0..bound)
    BY FS_Interval
  <2>. QED
    BY <2>1
<1>. DEFINE N == 0..bound
<1>. HIDE DEF N
<1>2. IsFiniteSet(N) /\ N \in SUBSET Nat /\ S \in SUBSET N
  BY <1>1 DEF N
<1>. QED
  BY <1>2, Greatest

LEMMA PrefixAt ==
  ASSUME NEW T, NEW s \in Seq(T), NEW t \in Seq(T), IsPrefix(s, t), NEW i \in 1..Len(s)
  PROVE  s[i] = t[i] /\ Len(s) <= Len(t)
<1>1. Len(s) <= Len(t) /\ SubSeq(s, 1, Len(s)) = SubSeq(t, 1, Len(s))
  BY DEF IsPrefix
<1>2. SubSeq(s, 1, Len(s))[i] = s[i] /\ SubSeq(t, 1, Len(s))[i] = t[i]
  BY <1>1
<1>. QED
  BY <1>1, <1>2

LEMMA Reversed ==
  ASSUME NEW T, NEW s \in Seq(T)
  PROVE  /\ Reverse(s) \in Seq(T) /\ Len(Reverse(s)) = Len(s)
         /\ \A i \in 1..Len(s) : Reverse(s)[i] = s[Len(s) - i + 1]
BY DEF Reverse

LEMMA SuffixAt ==
  ASSUME NEW T, NEW p \in Seq(T), NEW n \in Seq(T), IsSuffix(p, n), NEW i \in 1..Len(p)
  PROVE  p[i] = n[Len(n) - Len(p) + i]
<1>. DEFINE j == Len(p) - i + 1
<1>1. IsPrefix(Reverse(p), Reverse(n))
  BY DEF IsSuffix
<1>2. j \in 1..Len(p) /\ Len(p) \in Nat /\ Len(n) \in Nat
  OBVIOUS
<1>3. Reverse(p)[j] = Reverse(n)[j] /\ Len(p) <= Len(n)
  BY <1>1, <1>2, PrefixAt, Reversed
<1>4. Reverse(p)[j] = p[i]
  <2>1. Len(p) - j + 1 = i
    BY <1>2
  <2>. QED
    BY <1>2, <2>1, Reversed
<1>5. Reverse(n)[j] = n[Len(n) - Len(p) + i]
  <2>1. j \in 1..Len(n) /\ Len(n) - j + 1 = Len(n) - Len(p) + i
    BY <1>2, <1>3
  <2>. QED
    BY <2>1, Reversed
<1>. QED
  BY <1>3, <1>4, <1>5

\* The byte comparison of is_subdomain_of finds subdomains only.
LEMMA SubdomainBelow ==
  ASSUME NEW T, NEW parent \in Seq(T), NEW name \in Seq(T), is_subdomain_of(parent, name)
  PROVE  Below(parent, name)
<1>. DEFINE k == Len(name) - Len(parent)
            tail == SubSeq(name, k, Len(name))
            whole == <<".">> \o parent
<1>1. k \in 1..Len(name) /\ Len(parent) \in Nat /\ Len(name) \in Nat /\ name[k] = "."
  BY DEF is_subdomain_of
<1>2. \A i \in 1..Len(parent) : name[k + i] = parent[i]
  BY <1>1, SuffixAt DEF is_subdomain_of
<1>3. name[k] \in T
  BY <1>1
<1>4. tail \in Seq(T) /\ Len(tail) = Len(parent) + 1
      /\ \A i \in 1..(Len(parent) + 1) : tail[i] = name[k + i - 1]
  BY <1>1
<1>5. whole \in Seq(T) /\ Len(whole) = Len(parent) + 1 /\ whole[1] = "."
      /\ \A i \in 1..Len(parent) : whole[i + 1] = parent[i]
  BY <1>1, <1>3
<1>6. ASSUME NEW i \in 1..(Len(parent) + 1)
      PROVE  tail[i] = whole[i]
  <2>1. CASE i = 1
    BY <1>1, <1>4, <1>5, <2>1
  <2>2. CASE i # 1
    <3>1. i - 1 \in 1..Len(parent) /\ k + (i - 1) = k + i - 1 /\ (i - 1) + 1 = i
      BY <1>1, <2>2
    <3>. QED
      BY <1>2, <1>4, <1>5, <3>1
  <2>. QED
    BY <2>1, <2>2
<1>7. tail = whole
  BY <1>4, <1>5, <1>6, SeqEqual
<1>. QED
  BY <1>1, <1>7 DEF Below

LEMMA NormalName ==
  ASSUME NEW T, NEW s \in Seq(T)
  PROVE  normalise_name(s) \in Seq(T)
<1>. DEFINE S == {0} \cup {i \in 1..Len(s) : s[i] # "."}
<1>1. Len(s) \in Nat /\ S \in SUBSET (0..Len(s)) /\ S # {}
  OBVIOUS
<1>2. Max(S) \in 0..Len(s)
  <2>. HIDE DEF S
  <2>1. \E m \in S : \A i \in S : m >= i
    BY <1>1, GreatestTo
  <2>. QED
    BY <1>1, <2>1 DEF Max
<1>3. SubSeq(s, 1, Max(S)) \in Seq(T)
  <2>. DEFINE m == Max(S)
  <2>. HIDE DEF m
  <2>1. m \in 0..Len(s)
    BY <1>2 DEF m
  <2>2. SubSeq(s, 1, m) \in Seq(T)
    BY <2>1
  <2>. QED
    BY <2>2 DEF m
<1>. QED
  BY <1>3 DEF normalise_name

\* matches_domain lets a name pass by a rule as documented only.
LEMMA MatchAllowed ==
  ASSUME NEW list \in Lists, NEW domain \in Domains, matches_domain(list, domain)
  PROVE  AllowedBy(list, domain)
<1>. DEFINE name == normalise_name(domain)
<1>1. PICK i \in 1..Len(list) : list[i] # <<>> /\ RuleMatches(list[i], name)
  BY DEF matches_domain
<1>2. list \in Seq(Seq(Tokens)) /\ list[i] \in Seq(Tokens) /\ name \in Seq(Tokens)
  BY NamesAssumption, NormalName
<1>. DEFINE entry == list[i]
            suffix == SubSeq(entry, 3, Len(entry))
<1>3. normalise_name(entry) \in Seq(Tokens)
  BY <1>2, NormalName
<1>4. IsWildcard(entry) => Suffix(entry) \in Seq(Tokens)
  <2>1. suffix \in Seq(Tokens)
    BY <1>2
  <2>. QED
    BY <2>1, NormalName DEF Suffix
<1>5. Covers(entry, name)
  <2>. HIDE DEF entry, name
  <2>1. entry \in Seq(Tokens) /\ name \in Seq(Tokens)
    BY <1>2 DEF entry
  <2>2. RuleMatches(entry, name)
    BY <1>1 DEF entry
  <2>. QED
    BY <1>3, <1>4, <2>1, <2>2, SubdomainBelow DEF RuleMatches, Covers
<1>. QED
  BY <1>1, <1>5 DEF AllowedBy

\* A list in use parses, from the call that brought it on.
ListsParse ==
  /\ UpstreamIsAllowed
  /\ \A ip \in Hosts : by_ip[ip] # NoApp => by_ip[ip].allowlist \in ParsedLists
  /\ \A n \in Names : call[n].step = "attach" => Parses(call[n].list)

LEMMA ListsParseStep ==
  ASSUME LayerInv, ListsParse, [Next]_vars
  PROVE  ListsParse'
<1>. USE DEF ListsParse, UpstreamIsAllowed, ParsedLists
<1>1. ASSUME NEW n \in Names, Calls(n)
      PROVE  ListsParse'
  <2>. USE DEF Goto, poolVars, bootVars, LayerInv, EgressTypeOK
  <2>1. ASSUME NEW list \in Lists, Allocate(n, list)
        PROVE  ListsParse'
    BY <2>1 DEF Allocate
  <2>2. CASE Attach(n)
    <3>1. call[n].list \in ParsedLists /\ App(n, call[n].ip, call[n].list).name = n
          /\ App(n, call[n].ip, call[n].list).allowlist = call[n].list
      BY <2>2, CallShape DEF Attach, App
    <3>. QED
      BY <2>2, <3>1 DEF Attach, Insert, Idle
  <2>3. CASE AttachFails(n)
    BY <2>3 DEF AttachFails, Idle
  <2>4. CASE Release(n)
    BY <2>4 DEF Release
  <2>5. CASE FlushList(n)
    BY <2>5 DEF FlushList
  <2>6. CASE FlushDelete(n)
    BY <2>6 DEF FlushDelete
  <2>7. CASE Detach(n)
    BY <2>7 DEF Detach, Idle
  <2>. QED
    BY <1>1, <2>1, <2>2, <2>3, <2>4, <2>5, <2>6, <2>7 DEF Calls
<1>2. ASSUME NEW q \in Queries, Handler(q)
      PROVE  ListsParse'
  <2>. USE DEF poolVars, bootVars, LayerInv, EgressTypeOK
  <2>1. ASSUME NEW n \in Names, NEW domain \in Domains, Query(q, n, domain)
        PROVE  ListsParse'
    <3>1. n \in alive /\ ns[n] \in Usable
      BY <2>1, AddressKinds DEF Query
    <3>. DEFINE app == by_ip[ns[n]]
    <3>2. app # NoApp /\ matches_domain(app.allowlist, domain) /\ app \in Stored
      BY <2>1, <3>1 DEF Query, Decision, Usable
    <3>3. app.allowlist \in ParsedLists
      BY <3>1, <3>2 DEF Usable
    <3>. HIDE DEF app
    <3>4. domain \in AllowedNames
      BY <3>2, <3>3, MatchAllowed DEF AllowedNames
    <3>5. \A other \in Queries :
            \/ dns'[other] = dns[other]
            \/ dns'[other].step = "resolve" /\ dns'[other].domain = domain
      <4>. DEFINE new == [step |-> "resolve", src |-> ns[n], domain |-> domain]
      <4>1. new.step = "resolve" /\ new.domain = domain
        OBVIOUS
      <4>2. dns' = [dns EXCEPT ![q] = new]
        BY <2>1 DEF Query
      <4>3. dns \in [Queries -> QueryStates]
        OBVIOUS
      <4>. HIDE DEF new
      <4>. QED
        BY <4>1, <4>2, <4>3
    <3>6. UNCHANGED <<by_name, by_ip, call>>
      BY <2>1 DEF Query
    <3>. QED
      BY <3>4, <3>5, <3>6
  <2>2. CASE Resolve(q)
    BY <2>2 DEF Resolve, Idle
  <2>3. ASSUME NEW dst \in Dsts, Register(q, dst)
        PROVE  ListsParse'
    <3>1. \A other \in Queries :
            dns'[other] = dns[other] \/ dns'[other].step = "register"
      BY <2>3, QueryShape DEF Register
    <3>. QED
      BY <2>3, <3>1 DEF Register
  <2>4. CASE Reply(q)
    BY <2>4 DEF Reply, Idle
  <2>. QED
    BY <1>2, <2>1, <2>2, <2>3, <2>4 DEF Handler
<1>3. ASSUME NEW p \in Hosts \X Dsts, Expire(p)
      PROVE  ListsParse'
  BY <1>3 DEF Expire, poolVars, bootVars
<1>4. CASE Restart
  BY <1>4 DEF Restart, Fresh, Idle
<1>5. CASE Boot
  <2>. USE DEF poolVars, LayerInv, EgressTypeOK
  <2>1. ASSUME NEW n \in Names, NEW list \in Lists, Reattach(n, list)
        PROVE  ListsParse'
    <3>1. App(n, ns[n], list).name = n /\ App(n, ns[n], list).allowlist = list
      BY DEF App
    <3>. QED
      BY <2>1, <3>1 DEF Reattach, Insert
  <2>2. CASE ReattachDone
    BY <2>2 DEF ReattachDone
  <2>3. ASSUME NEW n \in Names, CleanupOrphan(n)
        PROVE  ListsParse'
    BY <2>3 DEF CleanupOrphan
  <2>4. CASE Serve
    BY <2>4 DEF Serve
  <2>5. ASSUME NEW n \in Names, NEW list \in Lists, ReattachFails(n, list)
        PROVE  ListsParse'
    BY <2>5 DEF ReattachFails
  <2>. QED
    BY <1>5, <2>1, <2>2, <2>3, <2>4, <2>5 DEF Boot
<1>6. CASE UNCHANGED vars
  BY <1>6 DEF vars
<1>. QED
  BY <1>1, <1>2, <1>3, <1>4, <1>5, <1>6 DEF Next

\* What a query is registering and what the allow set has come of listed names.
PairsAllowed ==
  /\ \A q \in Queries : dns[q].step = "register" => dns[q].left \subseteq AllowedAddrs
  /\ \A p \in allow4 : p[2] \in AllowedAddrs

LEMMA PairsAllowedStep ==
  ASSUME LayerInv, ListsParse, PairsAllowed, [Next]_vars
  PROVE  PairsAllowed'
<1>. USE DEF PairsAllowed
<1>1. ASSUME allow4' \subseteq allow4,
             \A q \in Queries : dns'[q].step = "register" => dns'[q] = dns[q]
      PROVE  PairsAllowed'
  BY <1>1
<1>2. ASSUME NEW n \in Names, Calls(n)
      PROVE  PairsAllowed'
  BY <1>1, <1>2 DEF Calls, Allocate, Attach, AttachFails, Release, FlushList, FlushDelete, Detach
<1>3. ASSUME NEW q \in Queries, Handler(q)
      PROVE  PairsAllowed'
  <2>. USE DEF LayerInv, EgressTypeOK
  <2>1. ASSUME NEW n \in Names, NEW domain \in Domains, Query(q, n, domain)
        PROVE  PairsAllowed'
    <3>. DEFINE new == [step |-> "resolve", src |-> ns[n], domain |-> domain]
    <3>1. dns' = [dns EXCEPT ![q] = new] /\ allow4' = allow4 /\ new.step = "resolve"
      BY <2>1 DEF Query
    <3>. HIDE DEF new
    <3>. QED
      BY <1>1, <3>1
  <2>2. CASE Resolve(q)
    <3>. DEFINE next == [step |-> "register", src |-> dns[q].src, left |-> Addrs[dns[q].domain]]
    <3>1. Addrs[dns[q].domain] \subseteq AllowedAddrs
      BY <2>2 DEF Resolve, ListsParse, UpstreamIsAllowed, AllowedAddrs
    <3>2. next.left \subseteq AllowedAddrs /\ Idle.step # "register"
      BY <3>1 DEF Idle
    <3>3. /\ allow4' = allow4
          /\ dns' \in {[dns EXCEPT ![q] = next], [dns EXCEPT ![q] = Idle]}
      BY <2>2 DEF Resolve
    <3>. HIDE DEF next
    <3>. QED
      BY <3>2, <3>3
  <2>3. ASSUME NEW dst \in Dsts, Register(q, dst)
        PROVE  PairsAllowed'
    <3>1. dst \in AllowedAddrs /\ dns[q].left \subseteq AllowedAddrs
      BY <2>3 DEF Register
    <3>2. \A p \in allow4' : p \in allow4 \/ p[2] = dst
      BY <2>3 DEF Register
    <3>3. dns[q] \in [step : {"register"}, src : Usable, left : SUBSET Dsts]
      BY <2>3, QueryShape DEF Register, QueryStates, Idle
    <3>4. [dns[q] EXCEPT !.left = @ \ {dst}].left \subseteq AllowedAddrs
      BY <3>1, <3>3
    <3>5. dns' = [dns EXCEPT ![q] = [dns[q] EXCEPT !.left = @ \ {dst}]]
      BY <2>3 DEF Register
    <3>. QED
      BY <3>1, <3>2, <3>4, <3>5
  <2>4. CASE Reply(q)
    BY <2>4 DEF Reply, Idle
  <2>. QED
    BY <1>3, <2>1, <2>2, <2>3, <2>4 DEF Handler
<1>4. ASSUME NEW p \in Hosts \X Dsts, Expire(p)
      PROVE  PairsAllowed'
  BY <1>1, <1>4 DEF Expire
<1>5. CASE Restart
  BY <1>5 DEF Restart, Fresh, install_nftables_ruleset, Idle
<1>6. CASE Boot
  BY <1>1, <1>6 DEF Boot, Reattach, ReattachFails, ReattachDone, CleanupOrphan, Serve
<1>7. CASE UNCHANGED vars
  BY <1>1, <1>7 DEF vars
<1>. QED
  BY <1>2, <1>3, <1>4, <1>5, <1>6, <1>7 DEF Next

LEMMA AllowedContained == PairsAllowed => Contained
<1>. SUFFICES ASSUME PairsAllowed, NEW n \in alive, ns[n] \in Hosts, NEW dport \in Ports
              PROVE  LET new(dst) == [established |-> FALSE, src |-> ns[n], dst |-> dst, dport |-> dport]
                     IN  /\ \A dst \in Dsts : Forward(new(dst), allow4) = "accept" =>
                              /\ dport \notin ResolverPorts
                              /\ <<ns[n], dst>> \in allow4
                              /\ dst \in AllowedAddrs
                         /\ Input(new(bridge_ip)) = "accept" => dport = DnsPort
  BY DEF Contained
<1>. DEFINE new(dst) == [established |-> FALSE, src |-> ns[n], dst |-> dst, dport |-> dport]
<1>2. ASSUME NEW dst
      PROVE  /\ new(dst).src = ns[n] /\ new(dst).dst = dst /\ new(dst).dport = dport
             /\ ~new(dst).established
  OBVIOUS
<1>. HIDE DEF new
<1>3. ASSUME NEW dst \in Dsts, Forward(new(dst), allow4) = "accept"
      PROVE  dport \notin ResolverPorts /\ <<ns[n], dst>> \in allow4 /\ dst \in AllowedAddrs
  <2>1. new(dst).dport \notin ResolverPorts /\ <<new(dst).src, new(dst).dst>> \in allow4
    BY <1>2, <1>3, ForwardAccepts
  <2>. QED
    BY <1>2, <2>1 DEF PairsAllowed
<1>4. ASSUME Input(new(bridge_ip)) = "accept"
      PROVE  dport = DnsPort
  BY <1>2, <1>4, InputAccepts
<1>. QED
  BY <1>3, <1>4 DEF new

-----------------------------------------------------------------------------
(* Theorems *)

\* For any number of endpoints, queries in flight and orderly restarts: no
\* address is handed out twice, none is lost but by a start after a failed resume
\* and by a failed reattach, the two indexes agree, and an endpoint is where the
\* store says, whatever commands, launches, lookups and deletions fail (lib.rs:
\* allocate_endpoint, release_endpoint, reattach_endpoint).
THEOREM EndpointsHold == EgressSpec => [](Orderly => EndpointsInv)
BY EgressCorrect, EgressInvEndpoints, PTL

LEMMA AllowedAlways == EgressSpec => [](LayerInv /\ ListsParse /\ PairsAllowed)
<1>1. Init => LayerInv /\ ListsParse /\ PairsAllowed
  BY LayerInit DEF Init, ListsParse, UpstreamIsAllowed, PairsAllowed, Idle
<1>2. LayerInv /\ ListsParse /\ PairsAllowed /\ [Next]_vars
        => (LayerInv /\ ListsParse /\ PairsAllowed)'
  BY LayerStep, ListsParseStep, PairsAllowedStep
<1>. QED
  BY <1>1, <1>2, PTL DEF EgressSpec

\* Whoever owned an address before, whatever is still in the allow set and
\* however the daemon was restarted, a container opens no connection to a
\* foreign resolver, to a destination that was not resolved for its address or
\* that no listed name leads to, or to a port of the host but DNS.
THEOREM ContainmentHolds == EgressSpec => []Contained
BY AllowedAlways, AllowedContained, PTL

\* A lookup goes upstream for a name that an exact domain or a wildcard of a
\* list that parses allows as documented, whatever the lists and names are
\* (allowlist.rs:1-14), and no endpoint has a list that does not parse.
THEOREM UpstreamAllowed == EgressSpec => []UpstreamIsAllowed
<1>1. ListsParse => UpstreamIsAllowed
  BY DEF ListsParse
<1>. QED
  BY <1>1, AllowedAlways, PTL

\* A release takes pairs of its own address out of the allow set, however the
\* set has changed since it was listed.
THEOREM NeighboursKept == EgressSpec => NeighboursKeepEgress
<1>. DEFINE Kept ==
       \A p \in allow4 \ allow4' :
         \/ allow4' = allow4 \ {p}
         \/ \E n \in Names : call[n].step = "delete" /\ call[n].ip = p[1]
         \/ phase # "serving"
         \/ restarts' # restarts
<1>. DEFINE Inv == DOMAIN call = Names /\ restarts \in Nat /\ DoomedOwn
<1>1. Init => Inv
  BY DEF Init, DoomedOwn, Idle
<1>2. ASSUME Inv, [Next]_vars
      PROVE  Inv' /\ Kept
  <2>. USE <1>2 DEF poolVars, bootVars
  <2>1. ASSUME UNCHANGED <<call, restarts>>
        PROVE  Inv'
    BY <2>1 DEF DoomedOwn
  <2>2. ASSUME allow4 \subseteq allow4'
        PROVE  Kept
    BY <2>2
  <2>3. ASSUME NEW n \in Names, FlushDelete(n)
        PROVE  Inv' /\ Kept
    <3>1. \A p \in allow4 \ allow4' : p \in call[n].doomed
      BY <2>3 DEF FlushDelete
    <3>2. Kept
      BY <2>3, <3>1 DEF FlushDelete, DoomedOwn
    <3>3. Inv'
      BY <2>3 DEF FlushDelete, Goto, DoomedOwn
    <3>. QED
      BY <3>2, <3>3
  <2>4. ASSUME NEW n \in Names, FlushList(n)
        PROVE  Inv' /\ Kept
    <3>. DEFINE next == [step |-> "delete", ip |-> call[n].ip,
                         doomed |-> {p \in allow4 : p[1] = call[n].ip}]
    <3>1. next.step = "delete" /\ next.ip = call[n].ip /\ \A p \in next.doomed : p[1] = next.ip
      OBVIOUS
    <3>2. call' = [call EXCEPT ![n] = next] /\ restarts' = restarts /\ allow4' = allow4
      BY <2>4 DEF FlushList, Goto
    <3>. HIDE DEF next
    <3>3. Inv'
      BY <3>1, <3>2 DEF DoomedOwn
    <3>. QED
      BY <2>2, <3>2, <3>3
  <2>5. ASSUME NEW n \in Names, Calls(n), ~FlushDelete(n), ~FlushList(n)
        PROVE  Inv' /\ Kept
    <3>1. allow4' = allow4 /\ restarts' = restarts
      BY <2>5 DEF Calls, Allocate, Attach, AttachFails, Release, Detach
    <3>2. \E r : call' = [call EXCEPT ![n] = r] /\ r.step # "delete"
      BY <2>5 DEF Calls, Allocate, Attach, AttachFails, Release, Detach, Goto, Idle
    <3>3. Inv'
      BY <3>1, <3>2 DEF DoomedOwn
    <3>. QED
      BY <2>2, <3>1, <3>3
  <2>6. ASSUME NEW q \in Queries, Handler(q)
        PROVE  Inv' /\ Kept
    BY <2>1, <2>2, <2>6 DEF Handler, Query, Resolve, Register, Reply
  <2>7. ASSUME NEW p \in Hosts \X Dsts, Expire(p)
        PROVE  Inv' /\ Kept
    BY <2>1, <2>7 DEF Expire
  <2>8. CASE Restart
    <3>1. restarts' # restarts /\ restarts' \in Nat
      BY <2>8 DEF Restart
    <3>2. DOMAIN call' = Names /\ \A n \in Names : call'[n].step # "delete"
      BY <2>8 DEF Restart, Fresh, Idle
    <3>. QED
      BY <3>1, <3>2 DEF DoomedOwn
  <2>9. CASE Boot
    BY <2>1, <2>2, <2>9 DEF Boot, Reattach, ReattachFails, ReattachDone, CleanupOrphan, Serve
  <2>10. CASE UNCHANGED vars
    BY <2>1, <2>2, <2>10 DEF vars
  <2>. QED
    BY <2>3, <2>4, <2>5, <2>6, <2>7, <2>8, <2>9, <2>10 DEF Next
<1>3. Inv /\ [Next]_vars => Inv' /\ [Kept]_vars
  BY <1>2
<1>. QED
  BY <1>1, <1>3, PTL DEF NeighboursKeepEgress, EgressSpec

\* Allocation, also of a name with an endpoint, attachment, release, discovery,
\* reattachment, also with a list that does not parse, and the cleanup of orphans
\* hand out addresses the way EndpointPool promises.
THEOREM PoolImplemented ==
  ASSUME MaxRestarts = 0 \/ Firm
  PROVE  EgressSpec => ImplementsPool
<1>1. Init => Pool!Init
  <2>. SUFFICES ASSUME Init PROVE held = [n \in Names |-> {}]
    BY DEF Pool!Init
  <2>. QED
    BY HostsAssumption DEF Init, held, HeldBy, Idle, NoApp, NoAddr, Usable
<1>2. EgressInv /\ Orderly' /\ [Next]_vars => [Pool!Next]_held
  <2>. SUFFICES ASSUME EgressInv, Orderly', [Next]_vars
                PROVE  [Pool!Next]_held
    OBVIOUS
  <2>1. CASE Keeps
    BY <2>1 DEF Keeps
  <2>2. ASSUME NEW n \in Names, Takes(n)
        PROVE  Pool!Next
    <3>1. PICK ip \in free : held' = [held EXCEPT ![n] = held[n] \cup {ip}]
      BY <2>2 DEF Takes
    <3>2. ip \in Usable /\ \A m \in Names : ip \notin held[m]
      BY <3>1 DEF EgressInv, SubnetPartition
    <3>3. Pool!Take(n, ip)
      BY <3>1, <3>2 DEF Pool!Take
    <3>. QED
      BY <3>2, <3>3 DEF Pool!Next
  <2>3. ASSUME NEW n \in Names, Gives(n)
        PROVE  Pool!Next
    <3>1. PICK ip \in held[n] : held' = [held EXCEPT ![n] = held[n] \ {ip}]
      BY <2>3 DEF Gives
    <3>2. ip \in Usable /\ Pool!Give(n, ip)
      BY <3>1, HeldType DEF Pool!Give
    <3>. QED
      BY <3>2 DEF Pool!Next
  <2>4. CASE Reboots
    BY <2>4 DEF Reboots, Pool!Restart, Pool!Next
  <2>. QED
    BY <2>1, <2>2, <2>3, <2>4, PoolSteps DEF PoolStep
<1>. QED
  BY <1>1, <1>2, EgressCorrect, AlwaysOrderly, PTL DEF EgressSpec, ImplementsPool, Pool!Spec

=============================================================================
