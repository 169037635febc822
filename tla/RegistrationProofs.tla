------------------------- MODULE RegistrationProofs -------------------------
(***************************************************************************)
(* Theorems about Registration for any number of operators, apps,          *)
(* subdomains, requests and ends of the daemon, with every fault.          *)
(***************************************************************************)
EXTENDS Registration, FiniteSetTheorems, WellFoundedInduction, TLAPS

-----------------------------------------------------------------------------
(* The inductive invariant *)

\* Each app has one operator, who makes one request at a time.
OwnApps == \A a, b \in Operators : a # b => NamesOf[a] \cap NamesOf[b] = {}

\* What a request works on is what it was when it began, because nobody else
\* works on its app.
InOrder(a) ==
  /\ pc[a] = "idle" => req[a] = NoRequest /\ held[a] = Nobody
  /\ pc[a] # "idle" =>
       /\ phase \in {"up", "stopping"}
       /\ req[a].name \in NamesOf[a]
       /\ told[req[a].name] = "unknown"
       /\ req[a].kind # "update" => told_tag[req[a].name] = None
  /\ pc[a] \in DeployPcs =>
       /\ req[a].kind = "deploy" /\ req[a].sub \in Subs /\ req[a].conf \in Confs
       /\ by_name[req[a].name] = Nobody /\ held[a] = Nobody
  /\ pc[a] \in UpdatePcs => req[a].kind = "update" /\ req[a].conf \in Confs
  /\ pc[a] \in RolloutPcs => req[a].kind = "rollout" /\ req[a].tag \in Tags
  /\ pc[a] \in ApplyPcs => req[a].kind \in {"update", "rollout"}
  /\ pc[a] \in UpdatePcs \cup RolloutPcs \cup ApplyPcs =>
       by_name[req[a].name] # Nobody /\ held[a] = by_name[req[a].name]
  /\ pc[a] \in RemovePcs =>
       /\ req[a].kind = "remove" /\ by_name[req[a].name] = Nobody
       /\ held[a] \in Handles /\ app[held[a]] # None /\ app[held[a]].name = req[a].name

RequestsInOrder == \A a \in Operators : InOrder(a)

\* The two indexes lead to handles that they also find by their own keys, and
\* a handle outside of them is about to go.
Indexed ==
  /\ \A n \in Names : by_name[n] # Nobody =>
       app[by_name[n]] # None /\ app[by_name[n]].name = n
  /\ \A s \in Subs : by_subdomain[s] # Nobody =>
       by_subdomain[s] \in Registered /\ app[by_subdomain[s]].sub = s
  /\ \A h \in Registered : app[h].sub \notin clashed => by_subdomain[app[h].sub] = h
  /\ \A h \in Handles : app[h] # None =>
       by_name[app[h].name] = h \/ \E a \in Operators : pc[a] \in RemovePcs /\ held[a] = h
  /\ phase = "down" => \A h \in Handles : app[h] = None

At1(n, pcs) == \E a \in Operators : pc[a] \in pcs /\ req[a].name = n

\* The files hold what memory holds but for the steps of a request between the
\* two.
MirroredAt(n) ==
  /\ by_name[n] # Nobody =>
       LET h == by_name[n]
       IN  /\ spec_file[n] # None
           /\ At1(n, {"persist", "persist_only"})
                \/ spec_file[n] = [sub |-> app[h].sub, conf |-> app[h].conf]
           /\ At1(n, {"durable"}) \/ app[h].tag \in {None, rollouts_file[n]}
  /\ by_name[n] = Nobody /\ (\A a \in Operators : req[a].name # n) => spec_file[n] = None

Mirrored ==
  /\ phase # "down" => \A n \in Names : MirroredAt(n)
  /\ \A a \in Operators :
       /\ pc[a] = "insert" => spec_file[req[a].name] = [sub |-> req[a].sub, conf |-> req[a].conf]
       /\ pc[a] = "unlink_rollouts" => spec_file[req[a].name] = None

\* What an operator knows is in memory, and while there is none on disk.
AckedAt(n) ==
  IF phase = "down"
  THEN /\ told[n] = "removed" => spec_file[n] = None
       /\ told[n] \in Confs => spec_file[n] \in Specs /\ spec_file[n].conf = told[n]
       /\ told_tag[n] # None => spec_file[n] # None /\ rollouts_file[n] = told_tag[n]
  ELSE /\ told[n] = "removed" => by_name[n] = Nobody
       /\ told[n] \in Confs => by_name[n] # Nobody /\ app[by_name[n]].conf = told[n]
       /\ told_tag[n] # None => by_name[n] # Nobody /\ app[by_name[n]].tag = told_tag[n]

Acked ==
  /\ \A n \in Names : AckedAt(n)
  /\ \A a \in Operators :
       pc[a] \in {"durable"} \cup ApplyPcs /\ req[a].kind = "rollout" =>
         app[held[a]].tag = req[a].tag

\* The endpoints that are nobody's to discover any more, and were not left.
Taken == net \ (claims \cup left)

\* A start that the app is in the middle of, not a thaw.
Building(h) == app[h].state = "Starting" /\ app[h].boots # None

\* A stopped app has nothing but what was left, any other its endpoint and its
\* container in the state that the app is in; a start finds in the slot only
\* what was left there.
Own(h) ==
  /\ app[h].state = "Stopped" => Current(h) \notin Taken
  /\ app[h].state # "Stopped" /\ ~Building(h) => Current(h) \in Taken
  /\ Building(h) =>
       /\ app[h].boots \in Unparsed => Current(h) \notin Taken
       /\ app[h].boots \notin Unparsed => Current(h) \in net \ claims
       /\ box[Current(h)] # "absent" => Current(h) \in left
  /\ app[h].state \in {"Running", "RollingOver"} => box[Current(h)] \in {"absent", "running"}
  /\ app[h].state = "Frozen" => box[Current(h)] = "paused"
  /\ app[h].state = "Starting" /\ ~Building(h) => box[Current(h)] = "paused"
  /\ app[h].state = "Stopping" => box[Current(h)] = "absent"

\* The opposite slot is in use only during a rollout.
Shape(h) ==
  /\ Own(h)
  /\ Opposite(h) \in Taken =>
       \E a \in Operators : held[a] = h /\ pc[a] \in {"build", "switch", "drain", "release"}
  /\ app[h].state = "RollingOver" =>
       \E a \in Operators : held[a] = h /\ pc[a] \in {"build", "switch"}

\* What a request finds at its next step.
AtWork(a) ==
  /\ pc[a] \in {"build", "switch"} => app[held[a]].state = "RollingOver"
  /\ pc[a] = "build" =>
       LET h == held[a]
       IN  /\ app[h].boots \in Confs
           /\ app[h].boots \in Unparsed => Opposite(h) \notin Taken
           /\ app[h].boots \notin Unparsed => Opposite(h) \in net
           /\ box[Opposite(h)] # "absent" => Opposite(h) \in left
  /\ pc[a] = "switch" =>
       Opposite(held[a]) \in Taken /\ box[Opposite(held[a])] \in {"absent", "running"}
  /\ pc[a] = "release" => box[Opposite(held[a])] = "absent"
  /\ pc[a] \in {"unlink", "unlink_rollouts"} => app[held[a]].state = "Stopped"

\* Every endpoint is an app's, or during the boot not claimed yet, or was left,
\* and so was a container without one.
Endpoints ==
  /\ claims \subseteq net /\ (phase # "reattach" => claims = {})
  /\ \A c \in Containers : box[c] # "absent" => c \in net \cup left
  /\ phase # "down" => \A c \in Taken : \E h \in Handles : app[h] # None /\ app[h].name = c[1]

Accounted ==
  /\ Endpoints
  /\ \A h \in Handles : app[h] # None => Shape(h)
  /\ \A a \in Operators : AtWork(a)

\* The boot sees each app once.
Booting ==
  /\ phase \in {"reattach", "eager"} => todo \subseteq Registered
  /\ phase = "reattach" => \A h \in Handles : app[h] # None =>
       /\ app[h].state \in {"Stopped", "Running", "Frozen"}
       /\ h \in todo => app[h].state = "Stopped"
       /\ h \notin todo => \A s \in Slots :
            <<app[h].name, s>> \in claims => box[<<app[h].name, s>>] \notin {"running", "paused"}

-----------------------------------------------------------------------------
(* Reading the files *)

\* The order of names in which the specs are sorted has a last one.
LEMMA LastOne ==
  ASSUME NEW S \in SUBSET Names, S # {}
  PROVE  \E n \in S : \A m \in S : m <= n
<1>. DEFINE Above(n) == {m \in S : m > n}
            R == StrictSubsetOrdering(Names)
            T == {Above(n) : n \in S}
<1>0. \A k \in S : k \in Nat
  BY NamesAssumption
<1>1. T \subseteq FiniteSubsetsOf(Names) /\ T # {}
  <2>1. T \subseteq SUBSET Names /\ T # {}
    OBVIOUS
  <2>. QED
    BY <2>1, NamesAssumption, FS_FiniteSubsetsOfFinite
<1>2. PICK x \in T : \A y \in T : <<y, x>> \notin R
  <2>. HIDE DEF T, R
  <2>1. IsWellFoundedOn(StrictSubsetOrdering(Names), FiniteSubsetsOf(Names))
    BY FS_StrictSubsetOrderingWellFounded
  <2>. QED
    BY <1>1, <2>1, WFMin DEF R
<1>3. PICK n \in S : x = Above(n)
  BY <1>2
<1>4. ASSUME NEW m \in S, m > n
      PROVE  FALSE
  <2>1. Above(m) \subseteq Above(n)
    <3>1. \A k \in S : k > m => k > n
      BY <1>0, <1>4
    <3>. QED
      BY <3>1
  <2>2. m \in Above(n) /\ m \notin Above(m)
    BY <1>4, NamesAssumption
  <2>3. Above(m) \in T /\ Above(m) \in SUBSET Names /\ Above(n) \in SUBSET Names
    OBVIOUS
  <2>4. <<Above(m), x>> \in R
    BY <1>3, <2>1, <2>2, <2>3 DEF StrictSubsetOrdering
  <2>. QED
    BY <1>2, <2>3, <2>4
<1>. QED
  BY <1>4, NamesAssumption

\* Load gives every stored app a handle of its own.
LEMMA HandleEach ==
  ASSUME NEW S \in SUBSET Names
  PROVE  \E f \in [S -> Handles] : \A m, n \in S : f[m] = f[n] => m = n
<1>1. PICK f \in [Names -> Handles] : \A m, n \in Names : f[m] = f[n] => m = n
  BY HandlesAssumption
<1>2. [n \in S |-> f[n]] \in [S -> Handles]
  BY <1>1
<1>. QED
  BY <1>1, <1>2

\* Of a set with one element at most.
LEMMA AtMostOne ==
  ASSUME NEW S \in SUBSET Names, ~(Cardinality(S) > 1), NEW m \in S, NEW n \in S
  PROVE  m = n
<1>1. IsFiniteSet(S) /\ Cardinality(S) \in Nat /\ Cardinality(S) # 0
  BY NamesAssumption, FS_Subset, FS_CardinalityType, FS_EmptySet
<1>2. Cardinality(S) = 1
  BY <1>1
<1>3. PICK x : S = {x}
  BY <1>1, <1>2, FS_Singleton
<1>. QED
  BY <1>3

-----------------------------------------------------------------------------
(* What the steps have in common *)

\* Only the state and the slot of an app have changed.
SameApps ==
  \A h \in Handles :
    /\ app'[h] = None <=> app[h] = None
    /\ app[h] # None => /\ app'[h].name = app[h].name /\ app'[h].sub = app[h].sub
                        /\ app'[h].conf = app[h].conf /\ app'[h].tag = app[h].tag

LEMMA OneApp ==
  ASSUME Typed, NEW h \in Handles, app[h] # None, NEW r \in Apps, app' = [app EXCEPT ![h] = r],
         r.name = app[h].name, r.sub = app[h].sub, r.conf = app[h].conf, r.tag = app[h].tag
  PROVE  /\ app' \in [Handles -> Apps \cup {None}]
         /\ app'[h] = r
         /\ \A g \in Handles \ {h} : app'[g] = app[g]
         /\ SameApps
BY NoneAssumption DEF Typed, SameApps

LEMMA Setting ==
  ASSUME Typed, NEW h \in Handles, app[h] # None, NEW s \in AppStates, SetState(h, s)
  PROVE  /\ app' \in [Handles -> Apps \cup {None}]
         /\ app'[h] \in Apps /\ app'[h].state = s /\ app'[h].slot = app[h].slot
         /\ app'[h].boots = None
         /\ \A g \in Handles \ {h} : app'[g] = app[g]
         /\ SameApps
<1>. DEFINE r == [app[h] EXCEPT !.state = s, !.boots = None]
<1>1. app[h] \in Apps
  BY DEF Typed, Apps
<1>2. r \in Apps /\ r.state = s /\ r.slot = app[h].slot /\ r.boots = None
  BY <1>1 DEF Apps
<1>3. r.name = app[h].name /\ r.sub = app[h].sub /\ r.conf = app[h].conf /\ r.tag = app[h].tag
  BY <1>1 DEF Apps
<1>4. app' = [app EXCEPT ![h] = r]
  BY DEF SetState
<1>. HIDE DEF r
<1>. QED
  BY <1>1, <1>2, <1>3, <1>4, OneApp, NoneAssumption

LEMMA SettingBuild ==
  ASSUME Typed, NEW h \in Handles, app[h] # None, NEW s \in AppStates, SetBuild(h, s)
  PROVE  /\ app' \in [Handles -> Apps \cup {None}]
         /\ app'[h] \in Apps /\ app'[h].state = s /\ app'[h].slot = app[h].slot
         /\ app'[h].boots = app[h].conf /\ app[h].conf \in Confs /\ app'[h].boots # None
         /\ \A g \in Handles \ {h} : app'[g] = app[g]
         /\ SameApps
<1>. DEFINE r == [app[h] EXCEPT !.state = s, !.boots = app[h].conf]
<1>1. app[h] \in Apps /\ app[h].conf \in Confs
  BY DEF Typed, Apps
<1>2. r \in Apps /\ r.state = s /\ r.slot = app[h].slot /\ r.boots = app[h].conf
  BY <1>1 DEF Apps
<1>3. r.name = app[h].name /\ r.sub = app[h].sub /\ r.conf = app[h].conf /\ r.tag = app[h].tag
  BY <1>1 DEF Apps
<1>4. app' = [app EXCEPT ![h] = r]
  BY DEF SetBuild
<1>. HIDE DEF r
<1>. QED
  BY <1>1, <1>2, <1>3, <1>4, OneApp, NoneAssumption

\* Slot and state together: of a rollout that switches, and of a survivor.
LEMMA Switching ==
  ASSUME Typed, NEW h \in Handles, app[h] # None, NEW s \in AppStates, NEW t \in Slots,
         app' = [app EXCEPT ![h].state = s, ![h].slot = t, ![h].boots = None]
  PROVE  /\ app' \in [Handles -> Apps \cup {None}]
         /\ app'[h] \in Apps /\ app'[h].state = s /\ app'[h].slot = t
         /\ app'[h].boots = None
         /\ \A g \in Handles \ {h} : app'[g] = app[g]
         /\ SameApps
<1>. DEFINE r == [app[h] EXCEPT !.state = s, !.slot = t, !.boots = None]
<1>1. app[h] \in Apps
  BY DEF Typed, Apps
<1>2. r \in Apps /\ r.state = s /\ r.slot = t /\ r.boots = None
  BY <1>1 DEF Apps
<1>3. r.name = app[h].name /\ r.sub = app[h].sub /\ r.conf = app[h].conf /\ r.tag = app[h].tag
  BY <1>1 DEF Apps
<1>4. app' = [app EXCEPT ![h] = r]
  OBVIOUS
<1>. HIDE DEF r
<1>. QED
  BY <1>1, <1>2, <1>3, <1>4, OneApp, NoneAssumption

LEMMA Slotting ==
  ASSUME Typed, NEW h \in Handles, app[h] # None, NEW s \in AppStates, NEW t \in Slots,
         app' = [app EXCEPT ![h].state = s, ![h].slot = t]
  PROVE  /\ app' \in [Handles -> Apps \cup {None}]
         /\ app'[h] \in Apps /\ app'[h].state = s /\ app'[h].slot = t
         /\ \A g \in Handles \ {h} : app'[g] = app[g]
         /\ SameApps
<1>. DEFINE r == [app[h] EXCEPT !.state = s, !.slot = t]
<1>1. app[h] \in Apps
  BY DEF Typed, Apps
<1>2. r \in Apps /\ r.state = s /\ r.slot = t
  BY <1>1 DEF Apps
<1>3. r.name = app[h].name /\ r.sub = app[h].sub /\ r.conf = app[h].conf /\ r.tag = app[h].tag
  BY <1>1 DEF Apps
<1>4. app' = [app EXCEPT ![h] = r]
  OBVIOUS
<1>. HIDE DEF r
<1>. QED
  BY <1>1, <1>2, <1>3, <1>4, OneApp, NoneAssumption

LEMMA Containing ==
  ASSUME Typed, NEW h \in Handles, app[h] # None
  PROVE  /\ app[h] \in Apps
         /\ Current(h) \in Containers /\ Opposite(h) \in Containers /\ Current(h) # Opposite(h)
         /\ Current(h) = <<app[h].name, app[h].slot>>
         /\ Opposite(h) = <<app[h].name, Other(app[h].slot)>>
         /\ \A s \in Slots : <<app[h].name, s>> \in Containers /\ s \in {app[h].slot, Other(app[h].slot)}
BY DEF Typed, Apps, Current, Opposite, Containers, Other, Slots

LEMMA Holding ==
  ASSUME Typed, RequestsInOrder, Indexed, NEW a \in Operators,
         pc[a] \in UpdatePcs \cup RolloutPcs \cup ApplyPcs \cup RemovePcs
  PROVE  /\ held[a] \in Handles /\ app[held[a]] # None /\ app[held[a]].name = req[a].name
         /\ req[a].name \in Names
BY OperatorsAssumption DEF Typed, RequestsInOrder, InOrder, Indexed, Pcs, UpdatePcs, RolloutPcs, ApplyPcs, RemovePcs, Requested

\* No two requests are for one app.
LEMMA OneEach ==
  ASSUME OwnApps, RequestsInOrder, NEW a \in Operators, NEW b \in Operators,
         pc[a] # "idle", pc[b] # "idle", req[a].name = req[b].name
  PROVE  a = b
BY DEF OwnApps, RequestsInOrder, InOrder

-----------------------------------------------------------------------------
(* Types *)

\* What a step does to the host keeps its types.
Statuses == {"absent", "created", "running", "paused"}

HostTyped ==
  /\ box \in [Containers -> Statuses]
  /\ runs \in [Containers -> Confs \cup {None}]
  /\ net \subseteq Containers /\ left \subseteq Containers

AppTyped == app \in [Handles -> Apps \cup {None}]

LEMMA HostSteps ==
  ASSUME Typed
  PROVE  /\ \A cs : Reaps(cs) => /\ box' \in [Containers -> Statuses]
                                 /\ runs' \in [Containers -> Confs \cup {None}]
         /\ \A c \in Containers, conf \in Confs \cup {None} :
              Boots(c, conf) => /\ box' \in [Containers -> Statuses]
                                /\ runs' \in [Containers -> Confs \cup {None}]
         /\ \A c \in Containers : \A conf : Allocates(c, conf) \/ Releases(c, conf) => net' \subseteq Containers
BY DEF Typed, Reaps, Boots, Allocates, Releases, Statuses

\* Neither the registry nor a request is touched.
Steady == SameApps /\ UNCHANGED <<by_name, by_subdomain, clashed, disk, client>>

LEMMA ControllerFrame ==
  ASSUME Typed, NEW h \in Handles, Controller(h)
  PROVE  /\ AppTyped' /\ HostTyped' /\ failed' \in BOOLEAN
         /\ Steady /\ UNCHANGED <<phase, todo, claims, requests, restarts>>
<1>. USE DEF AppTyped, HostTyped, Steady, process, AppStates
<1>1. app[h] # None
  BY DEF Controller, Wanted, StartSucceeds, StartRefused, StartFails, Launching, Freeze, Resume,
         Thaws, ThawFails, StopBegins, StopEnds
<1>2. Current(h) \in Containers /\ app[h].conf \in Confs /\ app[h].boots \in Confs \cup {None}
  BY <1>1, Containing DEF Apps
<1>3. Typed
  OBVIOUS
<1>4. HostTyped /\ failed \in BOOLEAN
  BY DEF Typed, Statuses
<1>5. CASE Wanted(h)
  BY <1>1, <1>2, <1>4, <1>5, SettingBuild, HostSteps DEF Wanted, StartBegins
<1>6. CASE StartSucceeds(h)
  BY <1>1, <1>2, <1>4, <1>6, Setting, HostSteps DEF StartSucceeds, Launching
<1>7. CASE StartRefused(h)
  BY <1>1, <1>2, <1>4, <1>7, Setting, HostSteps DEF StartRefused
<1>8. CASE Freeze(h)
  BY <1>1, <1>2, <1>4, <1>8, Setting DEF Freeze, Statuses
<1>9. CASE Resume(h)
  BY <1>1, <1>2, <1>4, <1>9, Setting DEF Resume, ThawBegins, host
<1>10. CASE Thaws(h)
  BY <1>1, <1>2, <1>4, <1>10, Setting DEF Thaws, Statuses
<1>11. CASE StopBegins(h)
  BY <1>1, <1>2, <1>4, <1>11, Setting, HostSteps DEF StopBegins
<1>12. CASE StopEnds(h)
  BY <1>1, <1>2, <1>4, <1>12, Setting DEF StopEnds
<1>13. CASE StartFails(h)
  <2>1. /\ SetState(h, "Stopped") /\ Releases(Current(h), app[h].boots) /\ app[h].boots \in Confs
        /\ failed' = (failed \/ phase = "eager")
        /\ UNCHANGED <<phase, todo, claims, by_name, by_subdomain, clashed, disk, client, requests, restarts>>
    BY <1>2, <1>13 DEF StartFails, Launching
  <2>2. /\ left' \subseteq Containers /\ box' \in [Containers -> Statuses]
        /\ runs' \in [Containers -> Confs \cup {None}]
    BY <1>2, <1>4, <1>13, <2>1, HostSteps DEF StartFails, Statuses
  <2>. QED
    BY <1>1, <1>2, <1>4, <2>1, <2>2, Setting, HostSteps
<1>14. CASE ThawFails(h)
  BY <1>1, <1>2, <1>4, <1>14, Setting DEF ThawFails
<1>. QED
  BY <1>5, <1>6, <1>7, <1>8, <1>9, <1>10, <1>11, <1>12, <1>13, <1>14 DEF Controller

\* The steps of the process between its load and its end.
Turns ==
  \/ Interrupt \/ EagerBegins \/ EagerEnds
  \/ \E h \in Handles : Teardown(h) \/ Reattach(h) \/ Eager(h)
  \/ \E c \in Containers : CleanupOrphan(c)

LEMMA TurnsFrame ==
  ASSUME Typed, Booting, Turns
  PROVE  /\ AppTyped' /\ HostTyped' /\ failed' \in BOOLEAN
         /\ todo' \subseteq Handles /\ claims' \subseteq Containers
         /\ phase # "down" /\ phase' \in {"up", "stopping", "reattach", "eager"}
         /\ phase \in {"up", "stopping"} => phase' \in {"up", "stopping"}
         /\ Steady /\ UNCHANGED <<requests, restarts>>
<1>. USE DEF AppTyped, HostTyped, Steady, AppStates
<1>1. /\ AppTyped /\ HostTyped /\ failed \in BOOLEAN
      /\ todo \subseteq Handles /\ claims \subseteq Containers
      /\ Registered \subseteq Handles
  BY DEF Typed, Registered, Statuses
<1>2. CASE Interrupt
  BY <1>1, <1>2 DEF Interrupt, memory, host, SameApps
<1>3. CASE EagerBegins
  BY <1>1, <1>3 DEF EagerBegins, memory, host, SameApps
<1>4. CASE EagerEnds
  BY <1>1, <1>4 DEF EagerEnds, memory, host, SameApps
<1>5. ASSUME NEW h \in Handles, Teardown(h)
      PROVE  /\ AppTyped' /\ HostTyped' /\ SameApps
  <2>1. CASE app[h] # None /\ app[h].state = "Running"
    BY <1>1, <1>5, <2>1, Setting, HostSteps DEF Teardown
  <2>2. CASE ~(app[h] # None /\ app[h].state = "Running")
    BY <1>1, <1>5, <2>2 DEF Teardown, host, SameApps
  <2>. QED
    BY <2>1, <2>2
<1>6. ASSUME NEW h \in Handles, Reattach(h)
      PROVE  /\ AppTyped' /\ HostTyped' /\ SameApps /\ claims' \subseteq Containers
  <2>1. app[h] # None
    BY <1>6 DEF Reattach, Booting, Registered
  <2>2. CASE ReattachNone(h)
    BY <1>1, <2>2 DEF ReattachNone, host, SameApps
  <2>3. CASE ReattachOne(h)
    <3>1. PICK s \in Slots :
            /\ claims' = claims \ {<<app[h].name, s>>} /\ left' = left \ {<<app[h].name, s>>}
            /\ UNCHANGED <<box, runs, net>>
            /\ app' = [app EXCEPT ![h].slot = s,
                 ![h].state = IF box[<<app[h].name, s>>] = "paused" THEN "Frozen" ELSE "Running"]
      BY <2>3 DEF ReattachOne
    <3>2. \E u \in AppStates : app' = [app EXCEPT ![h].state = u, ![h].slot = s]
      <4>1. app[h] \in Apps
        BY <2>1 DEF Typed
      <4>2. \A u : [app EXCEPT ![h].slot = s, ![h].state = u] = [app EXCEPT ![h].state = u, ![h].slot = s]
        BY <4>1 DEF Typed, Apps
      <4>. QED
        BY <3>1, <4>2
    <3>. QED
      <4>1. PICK u \in AppStates : app' = [app EXCEPT ![h].state = u, ![h].slot = s]
        BY <3>2
      <4>2. AppTyped' /\ SameApps
        BY <2>1, <4>1, Slotting
      <4>. QED
        BY <1>1, <3>1, <4>2
  <2>4. CASE PurgeBoth(h)
    <3>1. PICK both : /\ Reaps(both) /\ net' = net \ (both \cap claims)
                      /\ left' = left \ (both \cap claims) /\ claims' = claims \ both
                      /\ UNCHANGED app
      BY <2>4 DEF PurgeBoth
    <3>. QED
      BY <1>1, <3>1, HostSteps DEF SameApps
  <2>5. CASE ReattachFails(h)
    BY <1>1, <2>1, <2>5, Containing DEF ReattachFails, SameApps
  <2>. QED
    BY <1>6, <2>2, <2>3, <2>4, <2>5 DEF Reattach
<1>7. ASSUME NEW h \in Handles, Eager(h)
      PROVE  /\ AppTyped' /\ HostTyped' /\ SameApps
  <2>1. app[h] # None
    BY <1>7 DEF Eager, Booting, Registered
  <2>2. Current(h) \in Containers
    BY <2>1, Containing
  <2>3. CASE StartBegins(h)
    BY <1>1, <2>1, <2>2, <2>3, SettingBuild, HostSteps DEF StartBegins
  <2>4. CASE ThawBegins(h)
    BY <1>1, <2>1, <2>4, Setting DEF ThawBegins, host
  <2>5. CASE UNCHANGED <<app, host>>
    BY <1>1, <2>5 DEF host, SameApps
  <2>. QED
    BY <1>7, <2>3, <2>4, <2>5 DEF Eager
<1>8. ASSUME NEW c \in Containers, CleanupOrphan(c)
      PROVE  /\ AppTyped' /\ HostTyped' /\ SameApps /\ claims' \subseteq Containers
  BY <1>1, <1>8, HostSteps DEF CleanupOrphan, memory, SameApps
<1>9. CASE \E h \in Handles : Teardown(h)
  BY <1>1, <1>5, <1>9 DEF Teardown
<1>10. CASE \E h \in Handles : Reattach(h)
  BY <1>1, <1>6, <1>10 DEF Reattach
<1>11. CASE \E h \in Handles : Eager(h)
  BY <1>1, <1>7, <1>11 DEF Eager
<1>12. CASE \E c \in Containers : CleanupOrphan(c)
  BY <1>1, <1>8, <1>12 DEF CleanupOrphan, memory
<1>. QED
  BY <1>2, <1>3, <1>4, <1>9, <1>10, <1>11, <1>12 DEF Turns

LEMMA ExitFrame ==
  ASSUME Typed, NEW c \in Containers, Exit(c)
  PROVE  /\ AppTyped' /\ HostTyped' /\ Steady
         /\ UNCHANGED <<process, app, net, left, requests, restarts>>
BY HostSteps DEF Exit, Steady, memory, SameApps, AppTyped, HostTyped, Typed

ClientTyped ==
  /\ pc \in [Operators -> Pcs]
  /\ req \in [Operators -> Requested]
  /\ held \in [Operators -> Handles \cup {Nobody}]
  /\ told \in [Names -> Confs \cup {"removed", "unknown"}]
  /\ told_tag \in [Names -> Tags \cup {None}]

DiskTyped ==
  /\ spec_file \in [Names -> Specs \cup {None, Torn}]
  /\ rollouts_file \in [Names -> Tags \cup {None}]

IndexTyped ==
  /\ by_name \in [Names -> Handles \cup {Nobody}]
  /\ by_subdomain \in [Subs -> Handles \cup {Nobody}]

LEMMA ReturnTyped ==
  ASSUME ClientTyped, NEW a \in Operators, NEW t \in Confs \cup {"removed", "unknown"}, Return(a, t)
  PROVE  ClientTyped'
<1>1. NoRequest \in Requested
  BY DEF NoRequest, Requested
<1>2. req[a].tag \in Tags \cup {None}
  BY DEF ClientTyped, Requested
<1>. QED
  BY <1>1, <1>2 DEF ClientTyped, Return, Goto, Pcs

LEMMA GotoTyped ==
  ASSUME ClientTyped, NEW a \in Operators, NEW s \in Pcs, Goto(a, s), UNCHANGED <<req, held, told, told_tag>>
  PROVE  ClientTyped'
BY DEF ClientTyped, Goto

LEMMA HandlerTyped ==
  ASSUME Typed, RequestsInOrder, Indexed, NEW a \in Operators, Handler(a)
  PROVE  /\ AppTyped' /\ HostTyped' /\ IndexTyped' /\ ClientTyped' /\ DiskTyped'
         /\ UNCHANGED <<process, clashed, requests, restarts>>
<1>. USE DEF AppTyped, HostTyped, IndexTyped, DiskTyped, AppStates
<1>1. /\ AppTyped /\ HostTyped /\ IndexTyped /\ ClientTyped /\ DiskTyped
      /\ req[a] \in Requested /\ "unknown" \in Confs \cup {"removed", "unknown"}
      /\ "removed" \in Confs \cup {"removed", "unknown"}
  BY DEF Typed, ClientTyped, Statuses
<1>2. pc[a] \in DeployPcs => /\ req[a].name \in Names /\ req[a].sub \in Subs /\ req[a].conf \in Confs
  BY OperatorsAssumption DEF RequestsInOrder, InOrder, DeployPcs
<1>3. pc[a] \in UpdatePcs \cup RolloutPcs \cup ApplyPcs \cup RemovePcs =>
        /\ held[a] \in Handles /\ app[held[a]] # None /\ req[a].name \in Names
        /\ app[held[a]] \in Apps
        /\ Current(held[a]) \in Containers /\ Opposite(held[a]) \in Containers
        /\ Outcome(a) \in Confs \cup {"removed", "unknown"}
  BY Holding, Containing DEF Outcome, Apps
<1>. USE DEF DeployPcs, UpdatePcs, RolloutPcs, ApplyPcs, RemovePcs
<1>. DEFINE Goal == /\ AppTyped' /\ HostTyped' /\ IndexTyped' /\ ClientTyped' /\ DiskTyped'
                    /\ UNCHANGED <<process, clashed, requests, restarts>>
<1>4. Pcs = {"idle"} \cup DeployPcs \cup UpdatePcs \cup RolloutPcs \cup ApplyPcs \cup RemovePcs
  BY DEF Pcs
<1>5. CASE DeployWrite(a)
  BY <1>1, <1>2, <1>4, <1>5, GotoTyped DEF DeployWrite, memory, host, Specs
<1>6. CASE DeployInsert(a)
  <2>1. PICK h \in Handles :
          /\ app' = [app EXCEPT ![h] = NewHandle(req[a].name, req[a].sub, req[a].conf, None)]
          /\ by_name' = [by_name EXCEPT ![req[a].name] = h]
          /\ by_subdomain' = [by_subdomain EXCEPT ![req[a].sub] = h]
    BY <1>6 DEF DeployInsert, try_insert
  <2>2. NewHandle(req[a].name, req[a].sub, req[a].conf, None) \in Apps
    BY <1>2, <1>6 DEF DeployInsert, NewHandle, Apps, Slots, AppStates
  <2>. QED
    BY <1>1, <1>2, <1>6, <2>1, <2>2, ReturnTyped DEF DeployInsert, disk, host
<1>7. CASE DeployCollides(a)
  BY <1>1, <1>4, <1>7, GotoTyped DEF DeployCollides, memory, disk, host
<1>8. CASE DeployDiscard(a)
  BY <1>1, <1>2, <1>8, ReturnTyped DEF DeployDiscard, discard_failed_spec, memory, host
<1>9. CASE UpdateReplace(a)
  <2>1. [app[held[a]] EXCEPT !.conf = req[a].conf] \in Apps
    BY <1>3, <1>9 DEF UpdateReplace, Apps, RequestsInOrder, InOrder
  <2>2. app' = [app EXCEPT ![held[a]] = [app[held[a]] EXCEPT !.conf = req[a].conf]]
    BY <1>9 DEF UpdateReplace
  <2>3. \E s \in Pcs : Goto(a, s)
    BY <1>4, <1>9 DEF UpdateReplace
  <2>. QED
    BY <1>1, <1>9, <2>1, <2>2, <2>3, GotoTyped DEF UpdateReplace, disk, host
<1>10. CASE UpdatePersist(a)
  <2>1. [sub |-> app[held[a]].sub, conf |-> app[held[a]].conf] \in Specs
    BY <1>3, <1>10 DEF UpdatePersist, Apps, Specs
  <2>2. \E s \in Pcs : Goto(a, s)
    BY <1>4, <1>10 DEF UpdatePersist
  <2>. QED
    BY <1>1, <1>10, <2>1, <2>2, GotoTyped DEF UpdatePersist, persist_spec, memory, host
<1>11. CASE Done(a)
  BY <1>1, <1>3, <1>11, ReturnTyped DEF Done, memory, disk, host
<1>12. CASE RolloutRecord(a)
  <2>1. [app[held[a]] EXCEPT !.tag = req[a].tag] \in Apps
    BY <1>3, <1>12 DEF RolloutRecord, Apps, RequestsInOrder, InOrder
  <2>2. app' = [app EXCEPT ![held[a]] = [app[held[a]] EXCEPT !.tag = req[a].tag]]
    BY <1>12 DEF RolloutRecord
  <2>. QED
    BY <1>1, <1>4, <1>12, <2>1, <2>2, GotoTyped DEF RolloutRecord, disk, host
<1>13. CASE RolloutPersist(a)
  <2>1. app[held[a]].tag \in Tags \cup {None}
    BY <1>3, <1>13 DEF RolloutPersist, Apps
  <2>. QED
    BY <1>1, <1>4, <1>13, <2>1, GotoTyped DEF RolloutPersist, persist_rollouts, memory, host
<1>14. CASE ApplyCold(a)
  BY <1>1, <1>3, <1>4, <1>14, SettingBuild, HostSteps, GotoTyped DEF ApplyCold, StartBegins, disk
<1>15. CASE ApplyConflicts(a)
  BY <1>1, <1>15, ReturnTyped DEF ApplyConflicts, memory, disk, host
<1>16. CASE ApplyReturns(a)
  BY <1>1, <1>3, <1>16, ReturnTyped DEF ApplyReturns, memory, disk, host
<1>17. CASE ApplyBlueGreen(a)
  BY <1>1, <1>3, <1>4, <1>17, SettingBuild, HostSteps, GotoTyped DEF ApplyBlueGreen, disk, Statuses
<1>18. CASE Build(a)
  <2>1. app[held[a]].boots \in Confs \cup {None}
    BY <1>3, <1>18 DEF Build, Apps
  <2>. QED
    BY <1>1, <1>3, <1>4, <1>18, <2>1, HostSteps, GotoTyped DEF Build, memory, disk
<1>19. CASE RollBack(a)
  BY <1>1, <1>3, <1>19, Setting, HostSteps, ReturnTyped DEF RollBack, disk
<1>20. CASE SwitchOver(a)
  <2>1. Other(app[held[a]].slot) \in Slots
    BY DEF Other, Slots
  <2>2. app' = [app EXCEPT ![held[a]].state = "Running", ![held[a]].slot = Other(app[held[a]].slot),
                           ![held[a]].boots = None]
    BY <1>3, <1>20 DEF SwitchOver, Typed, Apps
  <2>. QED
    BY <1>1, <1>3, <1>4, <1>20, <2>1, <2>2, Switching, GotoTyped DEF SwitchOver, disk, host
<1>21. CASE Drained(a)
  BY <1>1, <1>4, <1>21, HostSteps, GotoTyped DEF Drained, memory, disk
<1>22. CASE Released(a)
  BY <1>1, <1>3, <1>22, ReturnTyped DEF Released, memory, disk
<1>23. CASE RemoveStop(a)
  BY <1>1, <1>3, <1>4, <1>23, Setting, HostSteps, GotoTyped DEF RemoveStop, disk
<1>24. CASE RemoveSpec(a)
  BY <1>1, <1>3, <1>4, <1>24, GotoTyped DEF RemoveSpec, memory, host
<1>25. CASE RemoveRollouts(a)
  BY <1>1, <1>3, <1>25, ReturnTyped DEF RemoveRollouts, host
<1>26. CASE ApplyFails(a)
  BY <1>1, <1>26, ReturnTyped DEF ApplyFails, memory, disk, host
<1>. QED
  BY <1>5, <1>6, <1>7, <1>8, <1>9, <1>10, <1>11, <1>12, <1>13, <1>14, <1>15, <1>16, <1>17, <1>18,
     <1>19, <1>20, <1>21, <1>22, <1>23, <1>24, <1>25, <1>26 DEF Handler

\* What the beginning of a request changes.
LEMMA RequestFrame ==
  ASSUME Typed, NEW a \in Operators, Request(a)
  PROVE  /\ ClientTyped' /\ IndexTyped' /\ requests' \in Nat
         /\ UNCHANGED <<process, app, clashed, disk, host, restarts>>
         /\ phase = "up" /\ pc[a] = "idle" /\ pc'[a] # "idle"
         /\ req'[a].name \in NamesOf[a] /\ req'[a].name \in Names
         /\ \A b \in Operators \ {a} : pc'[b] = pc[b] /\ req'[b] = req[b] /\ held'[b] = held[b]
         /\ \A n \in Names \ {req'[a].name} : told'[n] = told[n] /\ told_tag'[n] = told_tag[n]
         /\ told'[req'[a].name] = "unknown"
         /\ told_tag'[req'[a].name] = IF req'[a].kind = "update" THEN told_tag[req'[a].name] ELSE None
<1>. DEFINE Goal ==
         /\ ClientTyped' /\ IndexTyped' /\ requests' \in Nat
         /\ UNCHANGED <<process, app, clashed, disk, host, restarts>>
         /\ phase = "up" /\ pc[a] = "idle" /\ pc'[a] # "idle"
         /\ req'[a].name \in NamesOf[a] /\ req'[a].name \in Names
         /\ \A b \in Operators \ {a} : pc'[b] = pc[b] /\ req'[b] = req[b] /\ held'[b] = held[b]
         /\ \A n \in Names \ {req'[a].name} : told'[n] = told[n] /\ told_tag'[n] = told_tag[n]
         /\ told'[req'[a].name] = "unknown"
         /\ told_tag'[req'[a].name] = IF req'[a].kind = "update" THEN told_tag[req'[a].name] ELSE None
<1>1. ClientTyped /\ IndexTyped /\ NamesOf[a] \subseteq Names
  BY OperatorsAssumption DEF Typed, ClientTyped, IndexTyped
<1>2. ASSUME NEW r \in Requested, NEW h \in Handles \cup {Nobody}, NEW s \in Pcs \ {"idle"}, Begins(a, r, h, s)
      PROVE  /\ ClientTyped' /\ requests' \in Nat
             /\ phase = "up" /\ pc[a] = "idle" /\ pc'[a] # "idle"
             /\ req'[a].name \in NamesOf[a] /\ req'[a].name \in Names
             /\ \A b \in Operators \ {a} : pc'[b] = pc[b] /\ req'[b] = req[b] /\ held'[b] = held[b]
             /\ \A n \in Names \ {req'[a].name} : told'[n] = told[n] /\ told_tag'[n] = told_tag[n]
             /\ told'[req'[a].name] = "unknown"
             /\ told_tag'[req'[a].name] = IF req'[a].kind = "update" THEN told_tag[req'[a].name] ELSE None
  BY <1>1, <1>2 DEF Begins, Goto, ClientTyped, Typed
<1>3. ASSUME NEW n \in Names, NEW s \in Subs, NEW c \in Confs, DeployApp(a, n, s, c)
      PROVE  Goal
  <2>1. [NoRequest EXCEPT !.kind = "deploy", !.name = n, !.sub = s, !.conf = c] \in Requested
    BY DEF NoRequest, Requested
  <2>. QED
    BY <1>1, <1>2, <1>3, <2>1 DEF DeployApp, memory, IndexTyped, Pcs, DeployPcs
<1>4. ASSUME NEW n \in Names, NEW c \in Confs, UpdateApp(a, n, c)
      PROVE  Goal
  <2>1. [NoRequest EXCEPT !.kind = "update", !.name = n, !.conf = c] \in Requested
    BY DEF NoRequest, Requested
  <2>2. PICK s \in {"done", "replace"} :
          Begins(a, [NoRequest EXCEPT !.kind = "update", !.name = n, !.conf = c], by_name[n], s)
    BY <1>4 DEF UpdateApp
  <2>. QED
    BY <1>1, <1>2, <1>4, <2>1, <2>2 DEF UpdateApp, memory, IndexTyped, Pcs, UpdatePcs
<1>5. ASSUME NEW n \in Names, NEW t \in Tags, SetRollout(a, n, t)
      PROVE  Goal
  <2>1. [NoRequest EXCEPT !.kind = "rollout", !.name = n, !.tag = t] \in Requested
    BY DEF NoRequest, Requested
  <2>. QED
    BY <1>1, <1>2, <1>5, <2>1 DEF SetRollout, memory, IndexTyped, Pcs, RolloutPcs
<1>6. ASSUME NEW n \in Names, RemoveApp(a, n)
      PROVE  Goal
  <2>1. [NoRequest EXCEPT !.kind = "remove", !.name = n, !.ids = LiveSlots(by_name[n])] \in Requested
    <3>1. LiveSlots(by_name[n]) \subseteq Slots
      BY DEF LiveSlots
    <3>. QED
      BY <3>1 DEF NoRequest, Requested
  <2>. QED
    BY <1>1, <1>2, <1>6, <2>1 DEF RemoveApp, registry_remove, IndexTyped, Pcs, RemovePcs
<1>. QED
  BY <1>3, <1>4, <1>5, <1>6 DEF Request

Ends == Crash \/ Quit

LEMMA EndsFrame ==
  ASSUME Typed, Ends
  PROVE  /\ Typed'
         /\ phase # "down" /\ Forget /\ CutShort
         /\ UNCHANGED <<host, told, told_tag, requests>>
<1>1. /\ phase # "down" /\ Forget /\ CutShort /\ restarts' \in Nat
      /\ UNCHANGED <<host, told, told_tag, requests>>
  BY DEF Ends, Crash, Quit, Typed
<1>2. ClientTyped'
  BY <1>1 DEF Forget, ClientTyped, Typed, NoRequest, Requested, Pcs
<1>3. DiskTyped'
  BY <1>1 DEF CutShort, DiskTyped, Typed
<1>. QED
  BY <1>1, <1>2, <1>3 DEF Forget, ClientTyped, DiskTyped, Typed, host

LEMMA LoadFrame ==
  ASSUME Typed, Load
  PROVE  \E f \in [Stored -> Handles] :
           /\ \A m, n \in Stored : f[m] = f[n] => m = n
           /\ \A n \in Stored :
                /\ spec_file[n] \in Specs
                /\ app'[f[n]] = NewHandle(n, spec_file[n].sub, spec_file[n].conf, rollouts_file[n])
                /\ app'[f[n]] \in Apps
           /\ \A h \in Handles : h \in todo' \/ app'[h] = None
           /\ todo' = {f[n] : n \in Stored}
           /\ by_name' = [n \in Names |-> IF n \in Stored THEN f[n] ELSE Nobody]
           /\ \A s \in Subs :
                by_subdomain'[s] # Nobody =>
                  \E n \in Stored : spec_file[n].sub = s /\ by_subdomain'[s] = f[n]
           /\ \A n \in Stored : spec_file[n].sub \notin clashed' => by_subdomain'[spec_file[n].sub] = f[n]
           /\ by_subdomain' \in [Subs -> Handles \cup {Nobody}]
           /\ clashed' \subseteq Subs
           /\ AppTyped'
<1>. DEFINE f == CHOOSE g \in [Stored -> Handles] : \A m, n \in Stored : g[m] = g[n] => m = n
<1>1. /\ f \in [Stored -> Handles]
      /\ \A m, n \in Stored : f[m] = f[n] => m = n
  BY HandleEach DEF Stored
<1>2. from_handles(f) /\ todo' = {f[n] : n \in Stored}
  BY DEF Load
<1>. HIDE DEF f
<1>3. \A n \in Stored : n \in Names /\ spec_file[n] \in Specs /\ f[n] \in Handles
  BY <1>1 DEF Stored, Load, Typed
<1>4. ASSUME NEW n \in Stored
      PROVE  /\ app'[f[n]] = NewHandle(n, spec_file[n].sub, spec_file[n].conf, rollouts_file[n])
             /\ app'[f[n]] \in Apps
  <2>1. (CHOOSE m \in Stored : f[m] = f[n]) = n
    BY <1>1
  <2>2. app'[f[n]] = NewHandle(n, spec_file[n].sub, spec_file[n].conf, rollouts_file[n])
    BY <1>2, <1>3, <2>1 DEF from_handles, load
  <2>. QED
    BY <1>3, <2>2 DEF NewHandle, Apps, Specs, Typed, Slots, AppStates
<1>5. \A h \in Handles : h \in todo' \/ app'[h] = None
  BY <1>2 DEF from_handles
<1>6. by_name' = [n \in Names |-> IF n \in Stored THEN f[n] ELSE Nobody]
  BY <1>2 DEF from_handles
<1>. DEFINE Of(s) == {n \in Stored : spec_file[n].sub = s}
            Last(s) == CHOOSE n \in Of(s) : \A m \in Of(s) : m <= n
<1>7. \A s \in Subs : by_subdomain'[s] = IF Of(s) = {} THEN Nobody ELSE f[Last(s)]
  BY <1>2 DEF from_handles
<1>8. ASSUME NEW s \in Subs, Of(s) # {}
      PROVE  Last(s) \in Of(s)
  <2>1. Of(s) \in SUBSET Names
    BY <1>3
  <2>. QED
    BY <1>8, <2>1, LastOne
<1>9. clashed' = {s \in Subs : Cardinality(Of(s)) > 1}
  BY <1>2 DEF from_handles
<1>10. \A s \in Subs : by_subdomain'[s] # Nobody =>
         \E n \in Stored : spec_file[n].sub = s /\ by_subdomain'[s] = f[n]
  BY <1>7, <1>8
<1>11. ASSUME NEW n \in Stored, spec_file[n].sub \notin clashed'
       PROVE  by_subdomain'[spec_file[n].sub] = f[n]
  <2>. DEFINE s == spec_file[n].sub
  <2>1. s \in Subs /\ n \in Of(s) /\ Of(s) \in SUBSET Names
    BY <1>3 DEF Specs
  <2>2. ~(Cardinality(Of(s)) > 1)
    BY <1>9, <1>11, <2>1
  <2>3. Last(s) = n
    <3>1. Last(s) \in Of(s)
      BY <1>8, <2>1
    <3>. HIDE DEF Last, Of, s
    <3>. QED
      BY <2>1, <2>2, <3>1, AtMostOne
  <2>. QED
    BY <1>7, <2>1, <2>3
<1>12. by_subdomain' \in [Subs -> Handles \cup {Nobody}]
  <2>1. by_subdomain' = [s \in Subs |-> by_subdomain'[s]]
    BY <1>2 DEF from_handles
  <2>2. \A s \in Subs : by_subdomain'[s] \in Handles \cup {Nobody}
    BY <1>3, <1>10
  <2>. QED
    BY <2>1, <2>2
<1>13. AppTyped'
  <2>1. app' = [h \in Handles |-> app'[h]]
    BY <1>2 DEF from_handles
  <2>2. \A h \in Handles : app'[h] \in Apps \cup {None}
    BY <1>2, <1>4, <1>5
  <2>. QED
    BY <2>1, <2>2 DEF AppTyped
<1>. QED
  BY <1>1, <1>2, <1>3, <1>4, <1>5, <1>6, <1>9, <1>10, <1>11, <1>12, <1>13
-----------------------------------------------------------------------------
(* Every step keeps the types *)

\* The steps of Next, by what they leave alone.
LEMMA Kinds ==
  ASSUME Next
  PROVE  \/ \E a \in Operators : Request(a)
         \/ \E a \in Operators : Handler(a)
         \/ \E h \in Handles : Controller(h)
         \/ \E c \in Containers : Exit(c)
         \/ Turns \/ Ends \/ Load
BY DEF Next, Process, Turns, Ends

LEMMA TypedStep ==
  ASSUME Typed, RequestsInOrder, Indexed, Booting, [Next]_vars
  PROVE  Typed'
<1>1. CASE UNCHANGED vars
  BY <1>1 DEF Typed, vars, process, memory, disk, host, client
<1>2. ASSUME NEW a \in Operators, Request(a)
      PROVE  Typed'
  BY <1>2, RequestFrame DEF Typed, ClientTyped, IndexTyped, process, disk, host
<1>3. ASSUME NEW a \in Operators, Handler(a)
      PROVE  Typed'
  BY <1>3, HandlerTyped DEF Typed, AppTyped, HostTyped, Statuses, IndexTyped, ClientTyped, DiskTyped, process
<1>4. ASSUME NEW h \in Handles, Controller(h)
      PROVE  Typed'
  BY <1>4, ControllerFrame DEF Typed, AppTyped, HostTyped, Statuses, Steady, disk, client
<1>5. ASSUME NEW c \in Containers, Exit(c)
      PROVE  Typed'
  BY <1>5, ExitFrame DEF Typed, AppTyped, HostTyped, Statuses, Steady, process, disk, client
<1>6. CASE Turns
  BY <1>6, TurnsFrame DEF Typed, AppTyped, HostTyped, Statuses, Steady, disk, client
<1>7. CASE Ends
  BY <1>7, EndsFrame
<1>8. CASE Load
  <2>1. /\ AppTyped' /\ by_subdomain' \in [Subs -> Handles \cup {Nobody}] /\ clashed' \subseteq Subs
        /\ by_name' \in [Names -> Handles \cup {Nobody}] /\ todo' \subseteq Handles
    BY <1>8, LoadFrame
  <2>. QED
    BY <1>8, <2>1 DEF Load, Typed, AppTyped, disk, host, client
<1>. QED
  BY <1>1, <1>2, <1>3, <1>4, <1>5, <1>6, <1>7, <1>8, Kinds
-----------------------------------------------------------------------------
(* Requests and indexes *)

\* Steps of nobody's request: what is said of requests, indexes, files and
\* knowledge stays as it is.
LEMMA SteadyKeeps ==
  ASSUME Typed, RequestsInOrder, Indexed, Mirrored, Acked,
         Steady, phase' = "down" <=> phase = "down",
         phase \in {"up", "stopping"} => phase' \in {"up", "stopping"}
  PROVE  RequestsInOrder' /\ Indexed' /\ Mirrored' /\ Acked'
<1>1. /\ by_name' = by_name /\ by_subdomain' = by_subdomain /\ clashed' = clashed
      /\ spec_file' = spec_file /\ rollouts_file' = rollouts_file
      /\ pc' = pc /\ req' = req /\ held' = held /\ told' = told /\ told_tag' = told_tag
      /\ \A h \in Handles :
           /\ app'[h] = None <=> app[h] = None
           /\ app[h] # None => /\ app'[h].name = app[h].name /\ app'[h].sub = app[h].sub
                               /\ app'[h].conf = app[h].conf /\ app'[h].tag = app[h].tag
  BY DEF Steady, SameApps, disk, client
<1>2. Registered' = Registered
  BY <1>1 DEF Registered
<1>3. RequestsInOrder'
  BY <1>1 DEF RequestsInOrder, InOrder, Typed, Pcs
<1>4. Indexed'
  <2>1. \A n \in Names : by_name[n] \in Handles \cup {Nobody}
    BY DEF Typed
  <2>2. \A s \in Subs : by_subdomain[s] \in Handles \cup {Nobody}
    BY DEF Typed
  <2>. QED
    BY <1>1, <1>2, <2>1, <2>2 DEF Indexed, Registered
<1>5. Mirrored'
  <2>1. \A n \in Names : by_name[n] # Nobody => by_name[n] \in Handles /\ app[by_name[n]] # None
    BY DEF Typed, Indexed
  <2>2. \A n \in Names : by_name[n] # Nobody =>
          /\ app'[by_name[n]].sub = app[by_name[n]].sub /\ app'[by_name[n]].conf = app[by_name[n]].conf
          /\ app'[by_name[n]].tag = app[by_name[n]].tag
    BY <1>1, <2>1
  <2>3. \A n, pcs : At1(n, pcs)' <=> At1(n, pcs)
    BY <1>1 DEF At1
  <2>4. \A n \in Names : MirroredAt(n) => MirroredAt(n)'
    BY <1>1, <2>2, <2>3 DEF MirroredAt
  <2>. QED
    BY <1>1, <2>4 DEF Mirrored
<1>6. Acked'
  <2>1. \A n \in Names : by_name[n] # Nobody => by_name[n] \in Handles /\ app[by_name[n]] # None
    BY DEF Typed, Indexed
  <2>2. \A a \in Operators : pc[a] \in {"durable"} \cup ApplyPcs => held[a] \in Handles /\ app[held[a]] # None
    BY Holding DEF RolloutPcs
  <2>. QED
    BY <1>1, <2>1, <2>2 DEF Acked, AckedAt
<1>. QED
  BY <1>3, <1>4, <1>5, <1>6

\* What a handler changes belongs to its app.
HandlerScope(a) ==
  /\ pc[a] # "idle" /\ phase \in {"up", "stopping"} /\ phase' = phase
  /\ req[a].name \in Names
  /\ pc'[a] = "idle" => req'[a] = NoRequest /\ held'[a] = Nobody
  /\ pc'[a] # "idle" => /\ req'[a] = req[a] /\ held'[a] = held[a]
                        /\ UNCHANGED <<told, told_tag>>
  /\ \A b \in Operators \ {a} : pc'[b] = pc[b] /\ req'[b] = req[b] /\ held'[b] = held[b]
  /\ \A n \in Names \ {req[a].name} :
       /\ told'[n] = told[n] /\ told_tag'[n] = told_tag[n] /\ by_name'[n] = by_name[n]
       /\ spec_file'[n] = spec_file[n] /\ rollouts_file'[n] = rollouts_file[n]
  /\ \A h \in Handles : app[h] # None =>
       /\ app[h].name # req[a].name => app'[h] = app[h]
       /\ app'[h] # None => app'[h].name = app[h].name /\ app'[h].sub = app[h].sub
  /\ \A h \in Handles : app[h] = None /\ app'[h] # None => app'[h].name = req[a].name
  /\ \A c \in Containers : c[1] # req[a].name =>
       /\ box'[c] = box[c] /\ runs'[c] = runs[c]
       /\ c \in net' <=> c \in net
       /\ c \in left' <=> c \in left

\* The app that a handler changes is the one it holds.
LEMMA HandlerApps ==
  ASSUME Typed, RequestsInOrder, Indexed, NEW a \in Operators, Handler(a)
  PROVE  \/ app' = app
         \/ DeployInsert(a) \/ RemoveRollouts(a)
         \/ /\ pc[a] \in UpdatePcs \cup RolloutPcs \cup ApplyPcs \cup RemovePcs
            /\ app'[held[a]] \in Apps
            /\ app'[held[a]].name = app[held[a]].name /\ app'[held[a]].sub = app[held[a]].sub
            /\ UpdateReplace(a) \/ app'[held[a]].conf = app[held[a]].conf
            /\ RolloutRecord(a) \/ app'[held[a]].tag = app[held[a]].tag
            /\ \A h \in Handles \ {held[a]} : app'[h] = app[h]
<1>1. app \in [Handles -> Apps \cup {None}]
  BY DEF Typed
<1>2. pc[a] \in UpdatePcs \cup RolloutPcs \cup ApplyPcs \cup RemovePcs =>
        held[a] \in Handles /\ app[held[a]] # None /\ app[held[a]] \in Apps
  BY <1>1, Holding
<1>3. CASE ApplyCold(a) \/ ApplyBlueGreen(a)
  <2>1. pc[a] \in ApplyPcs /\ \E s \in AppStates : SetBuild(held[a], s)
    BY <1>3 DEF ApplyCold, StartBegins, ApplyBlueGreen, ApplyPcs, AppStates
  <2>. QED
    BY <1>2, <2>1, SettingBuild DEF SameApps
<1>4. CASE RollBack(a) \/ RemoveStop(a)
  <2>1. pc[a] \in ApplyPcs \cup RemovePcs /\ \E s \in AppStates : SetState(held[a], s)
    BY <1>4 DEF RollBack, RemoveStop, ApplyPcs, RemovePcs, AppStates
  <2>. QED
    BY <1>2, <2>1, Setting DEF SameApps
<1>5. CASE SwitchOver(a)
  <2>1. pc[a] \in ApplyPcs
    BY <1>5 DEF SwitchOver, ApplyPcs
  <2>. DEFINE t == Other(app[held[a]].slot)
              r == [app[held[a]] EXCEPT !.state = "Running", !.slot = t, !.boots = None]
  <2>2. t \in Slots /\ "Running" \in AppStates
    BY DEF Other, Slots, AppStates
  <2>3. app' = [app EXCEPT ![held[a]].state = "Running", ![held[a]].slot = t, ![held[a]].boots = None]
    BY <1>1, <1>2, <1>5, <2>1 DEF SwitchOver, Apps
  <2>4. app' = [app EXCEPT ![held[a]] = r]
    BY <2>3
  <2>5. /\ r \in Apps /\ r.name = app[held[a]].name /\ r.sub = app[held[a]].sub
        /\ r.conf = app[held[a]].conf /\ r.tag = app[held[a]].tag
    <3>. HIDE DEF t
    <3>. QED
      BY <1>2, <2>1, <2>2 DEF Apps
  <2>. HIDE DEF r
  <2>. QED
    BY <1>1, <1>2, <2>1, <2>4, <2>5
<1>6. CASE UpdateReplace(a)
  <2>1. pc[a] \in UpdatePcs /\ req[a].conf \in Confs
    BY <1>6 DEF UpdateReplace, UpdatePcs, RequestsInOrder, InOrder
  <2>. DEFINE r == [app[held[a]] EXCEPT !.conf = req[a].conf]
  <2>2. r \in Apps /\ r.name = app[held[a]].name /\ r.sub = app[held[a]].sub /\ r.tag = app[held[a]].tag
    BY <1>2, <2>1 DEF Apps
  <2>3. app' = [app EXCEPT ![held[a]] = r]
    BY <1>6 DEF UpdateReplace
  <2>. HIDE DEF r
  <2>. QED
    BY <1>1, <1>2, <1>6, <2>1, <2>2, <2>3
<1>7. CASE RolloutRecord(a)
  <2>1. pc[a] \in RolloutPcs /\ req[a].tag \in Tags
    BY <1>7 DEF RolloutRecord, RolloutPcs, RequestsInOrder, InOrder
  <2>. DEFINE r == [app[held[a]] EXCEPT !.tag = req[a].tag]
  <2>2. r \in Apps /\ r.name = app[held[a]].name /\ r.sub = app[held[a]].sub /\ r.conf = app[held[a]].conf
    BY <1>2, <2>1 DEF Apps
  <2>3. app' = [app EXCEPT ![held[a]] = r]
    BY <1>7 DEF RolloutRecord
  <2>. HIDE DEF r
  <2>. QED
    BY <1>1, <1>2, <1>7, <2>1, <2>2, <2>3
<1>8. \/ UpdateReplace(a) \/ RolloutRecord(a) \/ SwitchOver(a)
      \/ ApplyCold(a) \/ ApplyBlueGreen(a) \/ RollBack(a) \/ RemoveStop(a)
      \/ DeployInsert(a) \/ RemoveRollouts(a)
      \/ app' = app
  BY DEF Handler, DeployWrite, DeployCollides, DeployDiscard, UpdatePersist, Done, RolloutPersist,
         ApplyConflicts, ApplyReturns, ApplyFails, Build, Drained, Released, RemoveSpec, memory
<1>. QED
  BY <1>3, <1>4, <1>5, <1>6, <1>7, <1>8

\* The containers that a handler changes are those of the app it holds.
LEMMA HandlerHost ==
  ASSUME Typed, RequestsInOrder, Indexed, NEW a \in Operators, Handler(a)
  PROVE  \A c \in Containers : c[1] # req[a].name =>
           /\ box'[c] = box[c] /\ runs'[c] = runs[c]
           /\ c \in net' <=> c \in net
           /\ c \in left' <=> c \in left
<1>1. pc[a] \in ApplyPcs \cup RemovePcs =>
        /\ held[a] \in Handles /\ app[held[a]] # None /\ app[held[a]].name = req[a].name
        /\ Current(held[a]) = <<req[a].name, app[held[a]].slot>>
        /\ Opposite(held[a]) = <<req[a].name, Other(app[held[a]].slot)>>
  BY Holding, Containing
<1>2. box \in [Containers -> Statuses] /\ runs \in [Containers -> Confs \cup {None}]
  BY DEF Typed, Statuses
<1>. TAKE c \in Containers
<1>. SUFFICES ASSUME c[1] # req[a].name
              PROVE  /\ box'[c] = box[c] /\ runs'[c] = runs[c]
                     /\ c \in net' <=> c \in net
                     /\ c \in left' <=> c \in left
  OBVIOUS
<1>3. pc[a] \in ApplyPcs \cup RemovePcs => c # Current(held[a]) /\ c # Opposite(held[a])
  BY <1>1
<1>4. CASE ApplyCold(a)
  BY <1>3, <1>4 DEF ApplyCold, StartBegins, Allocates, ApplyPcs
<1>5. CASE ApplyBlueGreen(a)
  BY <1>2, <1>3, <1>5 DEF ApplyBlueGreen, Allocates, ApplyPcs
<1>6. CASE Build(a)
  BY <1>2, <1>3, <1>6 DEF Build, Boots, ApplyPcs
<1>7. CASE RollBack(a)
  BY <1>3, <1>7 DEF RollBack, Reaps, Releases, ApplyPcs
<1>8. CASE Drained(a)
  BY <1>3, <1>8 DEF Drained, Reaps, ApplyPcs
<1>9. CASE Released(a)
  BY <1>3, <1>9 DEF Released, ApplyPcs
<1>10. CASE RemoveStop(a)
  BY <1>1, <1>10 DEF RemoveStop, Reaps, RemovePcs
<1>11. \/ ApplyCold(a) \/ ApplyBlueGreen(a) \/ Build(a) \/ RollBack(a) \/ Drained(a) \/ Released(a)
       \/ RemoveStop(a) \/ UNCHANGED host
  BY DEF Handler, DeployWrite, DeployInsert, DeployCollides, DeployDiscard, UpdateReplace,
         UpdatePersist, Done, RolloutRecord, RolloutPersist, ApplyConflicts, ApplyReturns, ApplyFails,
         SwitchOver, RemoveSpec, RemoveRollouts
<1>. QED
  BY <1>4, <1>5, <1>6, <1>7, <1>8, <1>9, <1>10, <1>11 DEF host

LEMMA HandlerFrame ==
  ASSUME Typed, RequestsInOrder, Indexed, NEW a \in Operators, Handler(a)
  PROVE  HandlerScope(a)
<1>1. /\ pc[a] # "idle" /\ phase \in {"up", "stopping"} /\ phase' = phase /\ req[a].name \in Names
      /\ \A h \in Handles : app[h] \in Apps \cup {None}
      /\ pc \in [Operators -> Pcs] /\ req \in [Operators -> Requested]
      /\ held \in [Operators -> Handles \cup {Nobody}]
      /\ told \in [Names -> Confs \cup {"removed", "unknown"}] /\ told_tag \in [Names -> Tags \cup {None}]
      /\ app \in [Handles -> Apps \cup {None}]
  <2>1. pc[a] # "idle"
    BY DEF Handler, DeployWrite, DeployInsert, DeployCollides, DeployDiscard, UpdateReplace,
           UpdatePersist, Done, RolloutRecord, RolloutPersist, ApplyCold, ApplyConflicts,
           ApplyReturns, ApplyBlueGreen, ApplyFails, Build, RollBack, SwitchOver, Drained, Released,
           RemoveStop, RemoveSpec, RemoveRollouts
  <2>2. phase' = phase
    BY HandlerTyped DEF process
  <2>. QED
    BY <2>1, <2>2, OperatorsAssumption DEF RequestsInOrder, InOrder, Typed
<1>2. ASSUME NEW t, Return(a, t)
      PROVE  /\ pc'[a] = "idle" /\ req'[a] = NoRequest /\ held'[a] = Nobody
             /\ \A b \in Operators \ {a} : pc'[b] = pc[b] /\ req'[b] = req[b] /\ held'[b] = held[b]
             /\ \A n \in Names \ {req[a].name} : told'[n] = told[n] /\ told_tag'[n] = told_tag[n]
  BY <1>1, <1>2 DEF Return, Goto
<1>3. ASSUME NEW s \in Pcs, Goto(a, s), UNCHANGED <<req, held, told, told_tag>>
      PROVE  /\ pc'[a] = s /\ req'[a] = req[a] /\ held'[a] = held[a] /\ UNCHANGED <<told, told_tag>>
             /\ \A b \in Operators \ {a} : pc'[b] = pc[b] /\ req'[b] = req[b] /\ held'[b] = held[b]
             /\ \A n \in Names \ {req[a].name} : told'[n] = told[n] /\ told_tag'[n] = told_tag[n]
  BY <1>1, <1>3 DEF Goto
<1>4. pc[a] \in UpdatePcs \cup RolloutPcs \cup ApplyPcs \cup RemovePcs =>
        /\ held[a] \in Handles /\ app[held[a]] # None /\ app[held[a]].name = req[a].name
        /\ app[held[a]] \in Apps
        /\ Current(held[a]) = <<req[a].name, app[held[a]].slot>>
        /\ Opposite(held[a]) = <<req[a].name, Other(app[held[a]].slot)>>
  BY Holding, Containing
<1>. DEFINE Apart ==
       /\ \A h \in Handles : app[h] # None =>
            /\ app[h].name # req[a].name => app'[h] = app[h]
            /\ app'[h] # None => app'[h].name = app[h].name /\ app'[h].sub = app[h].sub
       /\ \A h \in Handles : app[h] = None /\ app'[h] # None => app'[h].name = req[a].name
     Files == \A n \in Names \ {req[a].name} :
       by_name'[n] = by_name[n] /\ spec_file'[n] = spec_file[n] /\ rollouts_file'[n] = rollouts_file[n]
     Client ==
       /\ pc'[a] = "idle" => req'[a] = NoRequest /\ held'[a] = Nobody
       /\ pc'[a] # "idle" => req'[a] = req[a] /\ held'[a] = held[a] /\ UNCHANGED <<told, told_tag>>
       /\ \A b \in Operators \ {a} : pc'[b] = pc[b] /\ req'[b] = req[b] /\ held'[b] = held[b]
       /\ \A n \in Names \ {req[a].name} : told'[n] = told[n] /\ told_tag'[n] = told_tag[n]
<1>5. Client
  <2>1. \/ \E t : Return(a, t)
        \/ \E s \in Pcs \ {"idle"} : Goto(a, s) /\ UNCHANGED <<req, held, told, told_tag>>
    BY DEF Handler, DeployWrite, DeployInsert, DeployCollides, DeployDiscard, UpdateReplace,
           UpdatePersist, Done, RolloutRecord, RolloutPersist, ApplyCold, ApplyConflicts,
           ApplyReturns, ApplyBlueGreen, ApplyFails, Build, RollBack, SwitchOver, Drained, Released,
           RemoveStop, RemoveSpec, RemoveRollouts, Pcs, DeployPcs, UpdatePcs, ApplyPcs, RemovePcs, RolloutPcs
  <2>. QED
    BY <1>2, <1>3, <2>1
<1>6. Files
  BY <1>1, <1>4 DEF Handler, DeployWrite, DeployInsert, DeployCollides, DeployDiscard, UpdateReplace,
           UpdatePersist, Done, RolloutRecord, RolloutPersist, ApplyCold, ApplyConflicts,
           ApplyReturns, ApplyBlueGreen, ApplyFails, Build, RollBack, SwitchOver, Drained, Released,
           RemoveStop, RemoveSpec, RemoveRollouts, memory, disk, try_insert, discard_failed_spec,
           persist_spec, persist_rollouts, Typed, UpdatePcs, ApplyPcs, RolloutPcs, RemovePcs
<1>7. Apart
  <2>1. \A h \in Handles : app[h] # None => app[h].name \in Names
    BY <1>1 DEF Apps
  <2>2. CASE DeployInsert(a)
    BY <1>1, <2>2 DEF DeployInsert, try_insert, NewHandle
  <2>3. CASE RemoveRollouts(a)
    BY <1>1, <1>4, <2>3 DEF RemoveRollouts, RemovePcs
  <2>4. CASE app' = app
    BY <2>4
  <2>. QED
    BY <1>1, <1>4, <2>2, <2>3, <2>4, HandlerApps, NoneAssumption
<1>. QED
  BY <1>1, <1>5, <1>6, <1>7, HandlerHost DEF HandlerScope

\* A handler leaves every other request as it found it.
LEMMA OthersInOrder ==
  ASSUME OwnApps, Typed, RequestsInOrder, Indexed, NEW a \in Operators, HandlerScope(a),
         NEW b \in Operators \ {a}
  PROVE  /\ pc[b] # "idle" => req[b].name # req[a].name /\ req[b].name \in Names
         /\ InOrder(b)'
<1>1. /\ pc'[b] = pc[b] /\ req'[b] = req[b] /\ held'[b] = held[b]
      /\ phase \in {"up", "stopping"} /\ phase' = phase
  BY DEF HandlerScope
<1>2. pc[b] # "idle" => req[b].name # req[a].name /\ req[b].name \in Names
  BY OneEach, OperatorsAssumption DEF HandlerScope, RequestsInOrder, InOrder
<1>3. pc[b] # "idle" =>
        /\ by_name'[req[b].name] = by_name[req[b].name]
        /\ told'[req[b].name] = told[req[b].name] /\ told_tag'[req[b].name] = told_tag[req[b].name]
  BY <1>2 DEF HandlerScope
<1>4. pc[b] \in RemovePcs => app'[held[b]] = app[held[b]]
  BY <1>2, Holding DEF HandlerScope, RemovePcs
<1>5. InOrder(b)
  BY DEF RequestsInOrder
<1>6. pc[b] \in Pcs
  BY DEF Typed
<1>. QED
  BY <1>1, <1>2, <1>3, <1>4, <1>5, <1>6
     DEF InOrder, DeployPcs, UpdatePcs, RolloutPcs, ApplyPcs, RemovePcs

\* The request itself goes on in order.
LEMMA OwnInOrder ==
  ASSUME Typed, RequestsInOrder, Indexed, NEW a \in Operators, Handler(a), HandlerScope(a)
  PROVE  InOrder(a)'
<1>1. CASE pc'[a] = "idle"
  BY <1>1 DEF HandlerScope, InOrder, DeployPcs, UpdatePcs, RolloutPcs, ApplyPcs, RemovePcs
<1>2. CASE pc'[a] # "idle"
  <2>1. /\ pc[a] # "idle" /\ phase \in {"up", "stopping"} /\ phase' = phase
        /\ req'[a] = req[a] /\ held'[a] = held[a] /\ told' = told /\ told_tag' = told_tag
    BY <1>2 DEF HandlerScope
  <2>2. ASSUME NEW t
        PROVE  ~Return(a, t)
    BY <1>2 DEF Return, Goto, Typed
  <2>3. InOrder(a) /\ pc \in [Operators -> Pcs]
    BY DEF RequestsInOrder, Typed
  <2>4. by_name' = by_name
    BY <2>2 DEF Handler, DeployWrite, DeployInsert, DeployCollides, DeployDiscard, UpdateReplace,
           UpdatePersist, Done, RolloutRecord, RolloutPersist, ApplyCold, ApplyConflicts,
           ApplyReturns, ApplyBlueGreen, ApplyFails, Build, RollBack, SwitchOver, Drained, Released,
           RemoveStop, RemoveSpec, RemoveRollouts, memory
  <2>5. \/ pc[a] = "write" /\ pc'[a] = "insert"
        \/ pc[a] = "insert" /\ pc'[a] = "discard"
        \/ pc[a] = "replace" /\ pc'[a] \in {"persist", "persist_only"}
        \/ pc[a] = "persist" /\ pc'[a] = "apply"
        \/ pc[a] = "persist_only" /\ pc'[a] = "done"
        \/ pc[a] = "record" /\ pc'[a] = "durable"
        \/ pc[a] = "durable" /\ pc'[a] = "apply"
        \/ pc[a] \in ApplyPcs /\ pc'[a] \in ApplyPcs
        \/ pc[a] = "stop" /\ pc'[a] = "unlink"
        \/ pc[a] = "unlink" /\ pc'[a] = "unlink_rollouts"
    <3>1. \A t : Goto(a, t) => pc'[a] = t
      BY <2>3 DEF Goto
    <3>2. Handler(a) => \/ DeployWrite(a) \/ DeployCollides(a) \/ UpdateReplace(a) \/ UpdatePersist(a)
                        \/ RolloutRecord(a) \/ RolloutPersist(a) \/ ApplyCold(a) \/ ApplyBlueGreen(a)
                        \/ Build(a) \/ SwitchOver(a) \/ Drained(a) \/ RemoveStop(a) \/ RemoveSpec(a)
      BY <2>2 DEF Handler, DeployInsert, DeployDiscard, Done, ApplyConflicts, ApplyReturns, ApplyFails, RollBack,
                  Released, RemoveRollouts
    <3>3. DeployWrite(a) => pc[a] = "write" /\ pc'[a] = "insert"
      BY <3>1 DEF DeployWrite
    <3>4. DeployCollides(a) => pc[a] = "insert" /\ pc'[a] = "discard"
      BY <3>1 DEF DeployCollides
    <3>5. UpdateReplace(a) => pc[a] = "replace" /\ pc'[a] \in {"persist", "persist_only"}
      BY <3>1 DEF UpdateReplace
    <3>6. UpdatePersist(a) => \/ pc[a] = "persist" /\ pc'[a] = "apply"
                              \/ pc[a] = "persist_only" /\ pc'[a] = "done"
      BY <3>1 DEF UpdatePersist
    <3>7. RolloutRecord(a) => pc[a] = "record" /\ pc'[a] = "durable"
      BY <3>1 DEF RolloutRecord
    <3>8. RolloutPersist(a) => pc[a] = "durable" /\ pc'[a] = "apply"
      BY <3>1 DEF RolloutPersist
    <3>9. ApplyCold(a) \/ ApplyBlueGreen(a) \/ Build(a) \/ SwitchOver(a) \/ Drained(a) =>
            pc[a] \in ApplyPcs /\ pc'[a] \in ApplyPcs
      BY <3>1 DEF ApplyCold, ApplyBlueGreen, Build, SwitchOver, Drained, ApplyPcs
    <3>10. RemoveStop(a) => pc[a] = "stop" /\ pc'[a] = "unlink"
      BY <3>1 DEF RemoveStop
    <3>11. RemoveSpec(a) => pc[a] = "unlink" /\ pc'[a] = "unlink_rollouts"
      BY <3>1 DEF RemoveSpec
    <3>. QED
      BY <3>2, <3>3, <3>4, <3>5, <3>6, <3>7, <3>8, <3>9, <3>10, <3>11
  <2>6. pc[a] \in RemovePcs => app'[held[a]] # None /\ app'[held[a]].name = req[a].name
    <3>. SUFFICES ASSUME pc[a] \in RemovePcs
                  PROVE  app'[held[a]] # None /\ app'[held[a]].name = req[a].name
      OBVIOUS
    <3>1. RemoveStop(a) \/ RemoveSpec(a)
      BY <2>2 DEF Handler, DeployWrite, DeployInsert, DeployCollides, DeployDiscard, UpdateReplace,
           UpdatePersist, Done, RolloutRecord, RolloutPersist, ApplyCold, ApplyConflicts,
           ApplyReturns, ApplyBlueGreen, ApplyFails, Build, RollBack, SwitchOver, Drained, Released,
           RemoveRollouts, RemovePcs
    <3>2. held[a] \in Handles /\ app[held[a]] # None /\ app[held[a]].name = req[a].name
      BY Holding
    <3>3. app'[held[a]] # None
      BY <3>1, <3>2, Setting, NoneAssumption DEF RemoveStop, RemoveSpec, memory, AppStates
    <3>. QED
      BY <3>2, <3>3 DEF HandlerScope
  <2>. QED
    BY <2>1, <2>3, <2>4, <2>5, <2>6 DEF InOrder, DeployPcs, UpdatePcs, RolloutPcs, ApplyPcs, RemovePcs
<1>. QED
  BY <1>1, <1>2
\* Only the insertion of a handle and its removal change who is registered.
LEMMA HandlerKeeps ==
  ASSUME Typed, RequestsInOrder, Indexed, NEW a \in Operators, Handler(a),
         ~DeployInsert(a), ~RemoveRollouts(a)
  PROVE  /\ UNCHANGED <<by_name, by_subdomain, clashed>>
         /\ \A h \in Handles : app'[h] = None <=> app[h] = None
         /\ pc[a] \in RemovePcs => pc'[a] \in RemovePcs /\ held'[a] = held[a]
<1>1. app \in [Handles -> Apps \cup {None}] /\ pc \in [Operators -> Pcs]
  BY DEF Typed
<1>2. pc[a] \in UpdatePcs \cup RolloutPcs \cup ApplyPcs \cup RemovePcs =>
        held[a] \in Handles /\ app[held[a]] # None /\ app[held[a]] \in Apps
  BY <1>1, Holding
<1>3. UNCHANGED <<by_name, by_subdomain, clashed>>
  BY DEF Handler, DeployWrite, DeployCollides, DeployDiscard, UpdateReplace,
         UpdatePersist, Done, RolloutRecord, RolloutPersist, ApplyCold, ApplyConflicts,
         ApplyReturns, ApplyBlueGreen, ApplyFails, Build, RollBack, SwitchOver, Drained, Released,
         RemoveStop, RemoveSpec, memory
<1>4. \/ app' = app
      \/ /\ pc[a] \in UpdatePcs \cup RolloutPcs \cup ApplyPcs \cup RemovePcs
         /\ app'[held[a]] # None /\ \A h \in Handles \ {held[a]} : app'[h] = app[h]
  BY HandlerApps, NoneAssumption
<1>5. \A h \in Handles : app'[h] = None <=> app[h] = None
  BY <1>2, <1>4
<1>6. pc[a] \in RemovePcs => pc'[a] \in RemovePcs /\ held'[a] = held[a]
  <2>1. pc[a] \in RemovePcs => RemoveStop(a) \/ RemoveSpec(a)
    BY DEF Handler, DeployWrite, DeployCollides, DeployDiscard, UpdateReplace,
         UpdatePersist, Done, RolloutRecord, RolloutPersist, ApplyCold, ApplyConflicts,
         ApplyReturns, ApplyBlueGreen, ApplyFails, Build, RollBack, SwitchOver, Drained, Released, RemovePcs
  <2>. QED
    BY <1>1, <2>1 DEF RemoveStop, RemoveSpec, Goto, RemovePcs
<1>. QED
  BY <1>3, <1>5, <1>6

LEMMA HandlerIndexed ==
  ASSUME OwnApps, Typed, RequestsInOrder, Indexed, NEW a \in Operators, Handler(a), HandlerScope(a)
  PROVE  Indexed'
<1>1. /\ \A n \in Names : by_name[n] \in Handles \cup {Nobody}
      /\ \A s \in Subs : by_subdomain[s] \in Handles \cup {Nobody}
      /\ by_name \in [Names -> Handles \cup {Nobody}] /\ by_subdomain \in [Subs -> Handles \cup {Nobody}]
      /\ \A h \in Handles : app[h] # None => app[h] \in Apps /\ app[h].name \in Names /\ app[h].sub \in Subs
      /\ app \in [Handles -> Apps \cup {None}]
  BY DEF Typed, Apps
<1>2. phase' # "down"
  BY DEF HandlerScope
<1>3. /\ \A h \in Handles : app[h] # None /\ app'[h] # None =>
           app'[h].name = app[h].name /\ app'[h].sub = app[h].sub
      /\ \A b \in Operators \ {a} : pc'[b] = pc[b] /\ held'[b] = held[b]
  BY DEF HandlerScope
<1>4. CASE ~DeployInsert(a) /\ ~RemoveRollouts(a)
  <2>1. /\ by_name' = by_name /\ by_subdomain' = by_subdomain /\ clashed' = clashed
        /\ \A h \in Handles : app'[h] = None <=> app[h] = None
        /\ pc[a] \in RemovePcs => pc'[a] \in RemovePcs /\ held'[a] = held[a]
    BY <1>4, HandlerKeeps
  <2>2. Registered' = Registered
    BY <1>3, <2>1 DEF Registered
  <2>. QED
    BY <1>1, <1>2, <1>3, <2>1, <2>2 DEF Indexed, Registered
<1>5. CASE DeployInsert(a)
  <2>1. PICK h \in Handles :
          /\ app[h] = None /\ by_name[req[a].name] = Nobody /\ by_subdomain[req[a].sub] = Nobody
          /\ app' = [app EXCEPT ![h] = NewHandle(req[a].name, req[a].sub, req[a].conf, None)]
          /\ by_name' = [by_name EXCEPT ![req[a].name] = h]
          /\ by_subdomain' = [by_subdomain EXCEPT ![req[a].sub] = h]
    BY <1>5 DEF DeployInsert, try_insert, would_collide
  <2>2. req[a].name \in Names /\ req[a].sub \in Subs /\ req[a].conf \in Confs /\ pc[a] \notin RemovePcs
    BY <1>5, OperatorsAssumption DEF DeployInsert, RequestsInOrder, InOrder, DeployPcs, RemovePcs
  <2>3. /\ app'[h] # None /\ app'[h].name = req[a].name /\ app'[h].sub = req[a].sub
        /\ \A g \in Handles \ {h} : app'[g] = app[g]
    <3>1. NewHandle(req[a].name, req[a].sub, req[a].conf, None) \in Apps
      BY <2>2 DEF NewHandle, Apps, Slots, AppStates
    <3>. QED
      BY <1>1, <2>1, <3>1, NoneAssumption DEF NewHandle
  <2>4. clashed' = clashed
    BY <1>5 DEF DeployInsert
  <2>5. /\ by_name'[req[a].name] = h /\ \A n \in Names \ {req[a].name} : by_name'[n] = by_name[n]
        /\ by_subdomain'[req[a].sub] = h /\ \A s \in Subs \ {req[a].sub} : by_subdomain'[s] = by_subdomain[s]
    BY <1>1, <2>1, <2>2
  <2>6. Registered' = Registered \cup {h}
    <3>1. h \in Registered'
      BY <2>2, <2>3, <2>5 DEF Registered
    <3>2. \A g \in Handles \ {h} : g \in Registered' <=> g \in Registered
      BY <1>1, <2>1, <2>2, <2>3, <2>5, NobodyAssumption DEF Registered
    <3>. QED
      BY <3>1, <3>2, <2>1 DEF Registered
  <2>7. \A n \in Names : by_name[n] # Nobody => by_name[n] \in Handles \ {h}
    BY <1>1, <2>1 DEF Indexed
  <2>8. \A g \in Registered : g \in Handles \ {h} /\ app[g].sub \in Subs
    BY <1>1, <2>1 DEF Registered
  <2>. QED
    BY <1>1, <1>2, <1>3, <2>1, <2>2, <2>3, <2>4, <2>5, <2>6, <2>7, <2>8, NobodyAssumption DEF Indexed
<1>6. CASE RemoveRollouts(a)
  <2>1. /\ held[a] \in Handles /\ app[held[a]] # None /\ app[held[a]].name = req[a].name
        /\ req[a].name \in Names /\ by_name[req[a].name] = Nobody
    BY <1>6, Holding DEF RemoveRollouts, RemovePcs, RequestsInOrder, InOrder
  <2>2. /\ by_name' = by_name /\ by_subdomain' = by_subdomain /\ clashed' = clashed
    BY <1>6 DEF RemoveRollouts
  <2>3. \A b \in Operators \ {a} : held[b] # held[a]
    <3>1. SUFFICES ASSUME NEW b \in Operators \ {a}, held[b] = held[a]
                   PROVE  FALSE
      OBVIOUS
    <3>2. pc[b] \in UpdatePcs \cup RolloutPcs \cup ApplyPcs \cup RemovePcs
      BY <2>1, <3>1, NobodyAssumption DEF RequestsInOrder, InOrder, Typed, Pcs
    <3>3. app[held[b]].name = req[b].name
      BY <3>2, Holding
    <3>4. pc[b] # "idle"
      BY <3>2 DEF UpdatePcs, RolloutPcs, ApplyPcs, RemovePcs
    <3>5. req[b].name = req[a].name /\ pc[a] # "idle"
      BY <2>1, <3>1, <3>3 DEF HandlerScope
    <3>. QED
      BY <3>4, <3>5, OneEach
  <2>4. app' = [app EXCEPT ![held[a]] = None]
    BY <1>6, <2>3 DEF RemoveRollouts
  <2>5. app'[held[a]] = None /\ \A g \in Handles \ {held[a]} : app'[g] = app[g]
    BY <1>1, <2>1, <2>4
  <2>6. held[a] \notin Registered /\ \A n \in Names : by_name[n] # held[a]
    BY <1>1, <2>1, NobodyAssumption DEF Registered, Indexed
  <2>7. Registered' = Registered
    BY <1>1, <2>2, <2>5, <2>6 DEF Registered
  <2>8. \A g \in Registered : g \in Handles \ {held[a]}
    BY <2>6 DEF Registered
  <2>. QED
    BY <1>1, <1>2, <1>3, <2>2, <2>5, <2>6, <2>7, <2>8 DEF Indexed
<1>. QED
  BY <1>4, <1>5, <1>6
\* How each kind of request begins.
LEMMA RequestShape ==
  ASSUME Typed, NEW a \in Operators, Request(a)
  PROVE  LET r == req'[a]
         IN  \/ /\ pc'[a] = "write" /\ r.kind = "deploy" /\ r.sub \in Subs /\ r.conf \in Confs
                /\ by_name[r.name] = Nobody /\ held'[a] = Nobody
                /\ UNCHANGED <<by_name, by_subdomain>>
             \/ /\ pc'[a] \in {"done", "replace"} /\ r.kind = "update" /\ r.conf \in Confs
                /\ by_name[r.name] # Nobody /\ held'[a] = by_name[r.name]
                /\ UNCHANGED <<by_name, by_subdomain>>
             \/ /\ pc'[a] = "record" /\ r.kind = "rollout" /\ r.tag \in Tags
                /\ by_name[r.name] # Nobody /\ held'[a] = by_name[r.name]
                /\ UNCHANGED <<by_name, by_subdomain>>
             \/ /\ pc'[a] = "stop" /\ r.kind = "remove"
                /\ by_name[r.name] # Nobody /\ held'[a] = by_name[r.name]
                /\ registry_remove(by_name[r.name])
<1>1. ASSUME NEW r, NEW h, NEW s, Begins(a, r, h, s)
      PROVE  req'[a] = r /\ held'[a] = h /\ pc'[a] = s
  BY <1>1 DEF Begins, Goto, Typed
<1>2. ASSUME NEW n \in Names, NEW s \in Subs, NEW c \in Confs, DeployApp(a, n, s, c)
      PROVE  /\ pc'[a] = "write" /\ req'[a].kind = "deploy" /\ req'[a].sub \in Subs /\ req'[a].conf \in Confs
             /\ by_name[req'[a].name] = Nobody /\ held'[a] = Nobody
             /\ UNCHANGED <<by_name, by_subdomain>>
  <2>1. /\ req'[a] = [NoRequest EXCEPT !.kind = "deploy", !.name = n, !.sub = s, !.conf = c]
        /\ held'[a] = Nobody /\ pc'[a] = "write"
    BY <1>1, <1>2 DEF DeployApp
  <2>2. /\ req'[a].kind = "deploy" /\ req'[a].name = n /\ req'[a].sub = s /\ req'[a].conf = c
    BY <2>1 DEF NoRequest
  <2>. QED
    BY <1>2, <2>1, <2>2 DEF DeployApp, would_collide, memory
<1>3. ASSUME NEW n \in Names, NEW c \in Confs, UpdateApp(a, n, c)
      PROVE  /\ pc'[a] \in {"done", "replace"} /\ req'[a].kind = "update" /\ req'[a].conf \in Confs
             /\ by_name[req'[a].name] # Nobody /\ held'[a] = by_name[req'[a].name]
             /\ UNCHANGED <<by_name, by_subdomain>>
  <2>1. PICK s \in {"done", "replace"} :
          Begins(a, [NoRequest EXCEPT !.kind = "update", !.name = n, !.conf = c], by_name[n], s)
    BY <1>3 DEF UpdateApp
  <2>2. /\ req'[a] = [NoRequest EXCEPT !.kind = "update", !.name = n, !.conf = c]
        /\ held'[a] = by_name[n] /\ pc'[a] = s
    BY <1>1, <2>1
  <2>3. /\ req'[a].kind = "update" /\ req'[a].name = n /\ req'[a].conf = c
    BY <2>2 DEF NoRequest
  <2>. QED
    BY <1>3, <2>2, <2>3 DEF UpdateApp, memory
<1>4. ASSUME NEW n \in Names, NEW t \in Tags, SetRollout(a, n, t)
      PROVE  /\ pc'[a] = "record" /\ req'[a].kind = "rollout" /\ req'[a].tag \in Tags
             /\ by_name[req'[a].name] # Nobody /\ held'[a] = by_name[req'[a].name]
             /\ UNCHANGED <<by_name, by_subdomain>>
  <2>1. /\ req'[a] = [NoRequest EXCEPT !.kind = "rollout", !.name = n, !.tag = t]
        /\ held'[a] = by_name[n] /\ pc'[a] = "record"
    BY <1>1, <1>4 DEF SetRollout
  <2>2. /\ req'[a].kind = "rollout" /\ req'[a].name = n /\ req'[a].tag = t
    BY <2>1 DEF NoRequest
  <2>. QED
    BY <1>4, <2>1, <2>2 DEF SetRollout, memory
<1>5. ASSUME NEW n \in Names, RemoveApp(a, n)
      PROVE  /\ pc'[a] = "stop" /\ req'[a].kind = "remove"
             /\ by_name[req'[a].name] # Nobody /\ held'[a] = by_name[req'[a].name]
             /\ registry_remove(by_name[req'[a].name])
  <2>1. /\ req'[a] = [NoRequest EXCEPT !.kind = "remove", !.name = n, !.ids = LiveSlots(by_name[n])]
        /\ held'[a] = by_name[n] /\ pc'[a] = "stop"
    BY <1>1, <1>5 DEF RemoveApp
  <2>2. req'[a].kind = "remove" /\ req'[a].name = n
    BY <2>1 DEF NoRequest
  <2>. QED
    BY <1>5, <2>1, <2>2 DEF RemoveApp
<1>. QED
  BY <1>2, <1>3, <1>4, <1>5 DEF Request

LEMMA RequestKeeps ==
  ASSUME OwnApps, Typed, RequestsInOrder, Indexed, Mirrored, Acked, NEW a \in Operators, Request(a)
  PROVE  RequestsInOrder' /\ Indexed' /\ Mirrored' /\ Acked'
<1>. DEFINE n == req'[a].name
            h == by_name[n]
<1>1. /\ phase = "up" /\ phase' = phase /\ app' = app /\ clashed' = clashed
      /\ spec_file' = spec_file /\ rollouts_file' = rollouts_file
      /\ pc[a] = "idle" /\ pc'[a] # "idle" /\ n \in NamesOf[a] /\ n \in Names
      /\ \A b \in Operators \ {a} : pc'[b] = pc[b] /\ req'[b] = req[b] /\ held'[b] = held[b]
      /\ \A m \in Names \ {n} : told'[m] = told[m] /\ told_tag'[m] = told_tag[m]
      /\ told'[n] = "unknown"
      /\ told_tag'[n] = IF req'[a].kind = "update" THEN told_tag[n] ELSE None
  BY RequestFrame DEF process, disk
<1>2. /\ by_name \in [Names -> Handles \cup {Nobody}] /\ by_subdomain \in [Subs -> Handles \cup {Nobody}]
      /\ \A g \in Handles : app[g] # None => app[g] \in Apps /\ app[g].name \in Names /\ app[g].sub \in Subs
      /\ pc \in [Operators -> Pcs]
  BY DEF Typed, Apps
<1>3. h # Nobody => h \in Handles /\ app[h] # None /\ app[h].name = n
  BY <1>1, <1>2 DEF Indexed
<1>. DEFINE Cleared ==
       /\ pc'[a] = "stop" /\ h # Nobody /\ held'[a] = h
       /\ by_name'[n] = Nobody /\ \A m \in Names \ {n} : by_name'[m] = by_name[m]
       /\ by_subdomain'[app[h].sub] = Nobody
       /\ \A s \in Subs \ {app[h].sub} : by_subdomain'[s] = by_subdomain[s]
<1>5. \/ by_name' = by_name /\ by_subdomain' = by_subdomain
      \/ Cleared
  <2>1. registry_remove(h) /\ h # Nobody =>
        /\ by_name'[n] = Nobody /\ \A m \in Names \ {n} : by_name'[m] = by_name[m]
        /\ by_subdomain'[app[h].sub] = Nobody
        /\ \A s \in Subs \ {app[h].sub} : by_subdomain'[s] = by_subdomain[s]
    BY <1>1, <1>2, <1>3 DEF registry_remove
  <2>. QED
    BY <2>1, RequestShape
<1>6. \A m \in Names \ {n} : by_name'[m] = by_name[m]
  BY <1>5
<1>7. \A b \in Operators \ {a} : pc[b] # "idle" => req[b].name # n /\ req[b].name \in Names
  BY <1>1, OperatorsAssumption DEF OwnApps, RequestsInOrder, InOrder
<1>8. RequestsInOrder'
  <2>1. ASSUME NEW b \in Operators \ {a}
        PROVE  InOrder(b)'
    <3>1. /\ InOrder(b) /\ pc'[b] = pc[b] /\ req'[b] = req[b] /\ held'[b] = held[b] /\ pc[b] \in Pcs
      BY <1>1, <1>2 DEF RequestsInOrder
    <3>2. pc[b] # "idle" => /\ by_name'[req[b].name] = by_name[req[b].name]
                            /\ told'[req[b].name] = told[req[b].name]
                            /\ told_tag'[req[b].name] = told_tag[req[b].name]
      BY <1>1, <1>6, <1>7
    <3>. QED
      BY <1>1, <3>1, <3>2 DEF InOrder, DeployPcs, UpdatePcs, RolloutPcs, ApplyPcs, RemovePcs
  <2>2. InOrder(a)'
    <3>1. CASE pc'[a] = "stop"
      <4>1. Cleared /\ req'[a].kind = "remove"
        <5>1. req'[a].kind = "remove" /\ registry_remove(h) /\ h # Nobody /\ held'[a] = h
          BY <3>1, RequestShape
        <5>2. by_name' = by_name => h = Nobody
          BY <1>1, <1>2, <1>3, <5>1 DEF registry_remove
        <5>. QED
          BY <1>5, <5>1, <5>2
      <4>. QED
        BY <1>1, <1>3, <3>1, <4>1 DEF InOrder, DeployPcs, UpdatePcs, RolloutPcs, ApplyPcs, RemovePcs
    <3>2. CASE pc'[a] # "stop"
      <4>1. by_name' = by_name
        BY <3>2, RequestShape
      <4>. QED
        BY <1>1, <3>2, <4>1, RequestShape DEF InOrder, DeployPcs, UpdatePcs, RolloutPcs, ApplyPcs, RemovePcs
    <3>. QED
      BY <3>1, <3>2
  <2>. QED
    BY <2>1, <2>2 DEF RequestsInOrder
<1>9. Indexed'
  <2>0. \A b \in Operators : pc[b] \in RemovePcs => pc'[b] \in RemovePcs /\ held'[b] = held[b]
    BY <1>1 DEF RemovePcs
  <2>1. CASE by_name' = by_name /\ by_subdomain' = by_subdomain
    <3>1. Registered' = Registered
      BY <1>1, <2>1 DEF Registered
    <3>. QED
      BY <1>1, <2>0, <2>1, <3>1 DEF Indexed
  <2>2. CASE Cleared
    <3>1. Registered' = Registered \ {h}
      BY <1>1, <1>2, <1>3, <2>2, NobodyAssumption DEF Registered
    <3>2. \A m \in Names : by_name'[m] # Nobody => by_name'[m] = by_name[m]
      BY <2>2
    <3>3. h \in Registered
      BY <1>3, <2>2 DEF Registered
    <3>4. \A s \in Subs : by_subdomain'[s] # Nobody => by_subdomain'[s] = by_subdomain[s] /\ s # app[h].sub
      BY <2>2
    <3>5. \A g \in Registered \ {h} : app[g].sub = app[h].sub => app[g].sub \in clashed
      BY <3>3 DEF Indexed
    <3>6. \A g \in Handles : app[g] # None /\ by_name[app[g].name] = g => g = h \/ by_name'[app[g].name] = g
      BY <1>2, <1>6
    <3>7. pc'[a] \in RemovePcs
      BY <2>2 DEF RemovePcs
    <3>8. \A s \in Subs : by_subdomain'[s] # Nobody => by_subdomain'[s] \in Registered'
      BY <3>1, <3>4 DEF Indexed
    <3>9. \A g \in Registered \ {h} : app[g].sub \in Subs
      BY <1>2 DEF Registered
    <3>. QED
      BY <1>1, <2>0, <2>2, <3>1, <3>2, <3>4, <3>5, <3>6, <3>7, <3>8, <3>9 DEF Indexed
  <2>. QED
    BY <1>5, <2>1, <2>2
<1>10. \A m \in Names : by_name'[m] # Nobody => by_name'[m] = by_name[m]
  BY <1>5
<1>11. pc'[a] \notin {"persist", "persist_only", "durable", "insert", "unlink_rollouts"} \cup ApplyPcs
  BY RequestShape DEF ApplyPcs
<1>12. Mirrored'
  <2>1. \A b \in Operators : pc[b] \in {"persist", "persist_only", "durable"} =>
          pc'[b] = pc[b] /\ req'[b] = req[b]
    BY <1>1
  <2>2. \A m : /\ At1(m, {"persist", "persist_only"}) => At1(m, {"persist", "persist_only"})'
               /\ At1(m, {"durable"}) => At1(m, {"durable"})'
    BY <2>1 DEF At1
  <2>3. \A b \in Operators : pc'[b] \in {"insert", "unlink_rollouts"} => pc'[b] = pc[b] /\ req'[b] = req[b]
    BY <1>1, <1>11
  <2>4. ASSUME NEW m \in Names, by_name'[m] = Nobody, \A b \in Operators : req'[b].name # m
        PROVE  spec_file'[m] = None
    <3>1. m # n /\ by_name[m] = Nobody
      BY <1>6, <2>4
    <3>2. req[a].name # m
      BY <1>1, NoneAssumption DEF RequestsInOrder, InOrder, NoRequest
    <3>3. \A b \in Operators : req[b].name # m
      BY <1>1, <2>4, <3>2
    <3>. QED
      BY <1>1, <3>1, <3>3 DEF Mirrored, MirroredAt
  <2>5. ASSUME NEW m \in Names, by_name'[m] # Nobody
        PROVE  LET g == by_name'[m]
               IN  /\ spec_file'[m] # None
                   /\ At1(m, {"persist", "persist_only"})'
                        \/ spec_file'[m] = [sub |-> app'[g].sub, conf |-> app'[g].conf]
                   /\ At1(m, {"durable"})' \/ app'[g].tag \in {None, rollouts_file'[m]}
    <3>1. by_name'[m] = by_name[m] /\ by_name[m] # Nobody /\ phase # "down"
      BY <1>1, <1>10, <2>5
    <3>2. LET g == by_name[m]
          IN  /\ spec_file[m] # None
              /\ At1(m, {"persist", "persist_only"})
                   \/ spec_file[m] = [sub |-> app[g].sub, conf |-> app[g].conf]
              /\ At1(m, {"durable"}) \/ app[g].tag \in {None, rollouts_file[m]}
      BY <3>1 DEF Mirrored, MirroredAt
    <3>. QED
      BY <1>1, <2>2, <3>1, <3>2
  <2>6. \A b \in Operators :
          /\ pc'[b] = "insert" => spec_file'[req'[b].name] = [sub |-> req'[b].sub, conf |-> req'[b].conf]
          /\ pc'[b] = "unlink_rollouts" => spec_file'[req'[b].name] = None
    BY <1>1, <2>3 DEF Mirrored, MirroredAt
  <2>. QED
    BY <2>4, <2>5, <2>6 DEF Mirrored, MirroredAt
<1>13. Acked'
  <2>1. "unknown" \notin Confs
    BY NoneAssumption
  <2>. QED
    BY <1>1, <1>6, <1>10, <1>11, <2>1, RequestShape DEF Acked, AckedAt
<1>. QED
  BY <1>8, <1>9, <1>12, <1>13
-----------------------------------------------------------------------------
(* The files, and what an operator knows *)

\* Only four handlers touch more of an app than its state and its slot.
LEMMA HandlerSame ==
  ASSUME Typed, RequestsInOrder, Indexed, NEW a \in Operators, Handler(a)
  PROVE  \/ DeployInsert(a) \/ RemoveRollouts(a)
         \/ /\ UpdateReplace(a)
            /\ \A h \in Handles \ {held[a]} : app'[h] = app[h]
            /\ app'[held[a]].sub = app[held[a]].sub /\ app'[held[a]].tag = app[held[a]].tag
         \/ /\ RolloutRecord(a) /\ app'[held[a]].tag = req[a].tag
            /\ \A h \in Handles \ {held[a]} : app'[h] = app[h]
            /\ app'[held[a]].sub = app[held[a]].sub /\ app'[held[a]].conf = app[held[a]].conf
         \/ SameApps
<1>1. app \in [Handles -> Apps \cup {None}] /\ Typed
  BY DEF Typed
<1>2. pc[a] \in UpdatePcs \cup RolloutPcs \cup ApplyPcs \cup RemovePcs =>
        held[a] \in Handles /\ app[held[a]] # None /\ app[held[a]] \in Apps
  BY <1>1, Holding
<1>3. CASE RolloutRecord(a)
  <2>1. app' = [app EXCEPT ![held[a]].tag = req[a].tag] /\ pc[a] \in RolloutPcs
    BY <1>3 DEF RolloutRecord, RolloutPcs
  <2>2. app'[held[a]] = [app[held[a]] EXCEPT !.tag = req[a].tag]
    BY <1>1, <1>2, <2>1
  <2>. QED
    BY <1>1, <1>2, <1>3, <2>1, <2>2 DEF Apps
<1>4. CASE UpdateReplace(a)
  <2>1. ~DeployInsert(a) /\ ~RemoveRollouts(a) /\ ~RolloutRecord(a) /\ pc[a] \in UpdatePcs
    BY <1>4 DEF UpdateReplace, DeployInsert, RemoveRollouts, RolloutRecord, UpdatePcs
  <2>. QED
    BY <1>2, <1>4, <2>1, HandlerApps
<1>5. CASE app' = app
  BY <1>5 DEF SameApps
<1>. QED
  BY <1>1, <1>2, <1>3, <1>4, <1>5, HandlerApps, NoneAssumption DEF SameApps

\* At another app nothing has changed.
LEMMA HandlerElsewhere ==
  ASSUME OwnApps, Typed, RequestsInOrder, Indexed, Mirrored, Acked, NEW a \in Operators, HandlerScope(a)
  PROVE  /\ \A n \in Names \ {req[a].name} : MirroredAt(n)' /\ AckedAt(n)'
         /\ \A b \in Operators \ {a} :
              /\ pc'[b] = "insert" => spec_file'[req'[b].name] = [sub |-> req'[b].sub, conf |-> req'[b].conf]
              /\ pc'[b] = "unlink_rollouts" => spec_file'[req'[b].name] = None
              /\ pc'[b] \in {"durable"} \cup ApplyPcs /\ req'[b].kind = "rollout" =>
                   app'[held'[b]].tag = req'[b].tag
<1>1. /\ phase # "down" /\ phase' = phase
      /\ \A b \in Operators \ {a} : pc'[b] = pc[b] /\ req'[b] = req[b] /\ held'[b] = held[b]
      /\ req'[a].name \in {None, req[a].name}
      /\ pc'[a] # "idle" => req'[a] = req[a]
  BY DEF HandlerScope, NoRequest
<1>2. ASSUME NEW n \in Names \ {req[a].name}
      PROVE  MirroredAt(n)' /\ AckedAt(n)'
  <2>1. /\ told'[n] = told[n] /\ told_tag'[n] = told_tag[n] /\ by_name'[n] = by_name[n]
        /\ spec_file'[n] = spec_file[n] /\ rollouts_file'[n] = rollouts_file[n]
    BY DEF HandlerScope
  <2>2. by_name[n] # Nobody => app'[by_name[n]] = app[by_name[n]]
    BY DEF HandlerScope, Indexed, Typed
  <2>3. /\ At1(n, {"persist", "persist_only"}) => At1(n, {"persist", "persist_only"})'
        /\ At1(n, {"durable"}) => At1(n, {"durable"})'
    BY <1>1 DEF At1
  <2>4. (\A b \in Operators : req'[b].name # n) => \A b \in Operators : req[b].name # n
    BY <1>1
  <2>5. MirroredAt(n) /\ AckedAt(n)
    BY <1>1 DEF Mirrored, Acked
  <2>6. AckedAt(n)'
    BY <1>1, <2>1, <2>2, <2>5 DEF AckedAt
  <2>7. MirroredAt(n)'
    BY <2>1, <2>2, <2>3, <2>4, <2>5 DEF MirroredAt
  <2>. QED
    BY <2>6, <2>7
<1>3. ASSUME NEW b \in Operators \ {a}
      PROVE  /\ pc'[b] = "insert" => spec_file'[req'[b].name] = [sub |-> req'[b].sub, conf |-> req'[b].conf]
             /\ pc'[b] = "unlink_rollouts" => spec_file'[req'[b].name] = None
             /\ pc'[b] \in {"durable"} \cup ApplyPcs /\ req'[b].kind = "rollout" =>
                  app'[held'[b]].tag = req'[b].tag
  <2>1. pc[b] # "idle" => req[b].name # req[a].name /\ req[b].name \in Names
    BY OthersInOrder
  <2>2. pc[b] # "idle" => spec_file'[req[b].name] = spec_file[req[b].name]
    BY <2>1 DEF HandlerScope
  <2>3. pc[b] \in {"durable"} \cup ApplyPcs => app'[held[b]] = app[held[b]] /\ pc[b] # "idle"
    BY <2>1, Holding DEF HandlerScope, ApplyPcs, RolloutPcs
  <2>. QED
    BY <1>1, <2>2, <2>3 DEF Mirrored, Acked
<1>. QED
  BY <1>2, <1>3
\* The app the request is for.
LEMMA HandlerMirrored ==
  ASSUME OwnApps, Typed, RequestsInOrder, Indexed, Mirrored, NEW a \in Operators, Handler(a), HandlerScope(a),
         NEW n \in Names, n = req[a].name
  PROVE  /\ MirroredAt(n)'
         /\ pc'[a] = "insert" => spec_file'[req'[a].name] = [sub |-> req'[a].sub, conf |-> req'[a].conf]
         /\ pc'[a] = "unlink_rollouts" => spec_file'[req'[a].name] = None
<1>1. /\ phase # "down" /\ phase' = phase /\ n \in Names /\ pc[a] # "idle"
      /\ \A b \in Operators \ {a} : pc'[b] = pc[b] /\ req'[b] = req[b] /\ held'[b] = held[b]
      /\ pc'[a] # "idle" => req'[a] = req[a]
      /\ spec_file \in [Names -> Specs \cup {None, Torn}] /\ rollouts_file \in [Names -> Tags \cup {None}]
      /\ pc \in [Operators -> Pcs] /\ app \in [Handles -> Apps \cup {None}]
      /\ by_name \in [Names -> Handles \cup {Nobody}]
  BY DEF HandlerScope, Typed
<1>2. MirroredAt(n) /\ InOrder(a)
  BY <1>1 DEF Mirrored, RequestsInOrder
<1>3. \A pcs : "idle" \notin pcs => (At1(n, pcs) => pc[a] \in pcs)
  BY <1>1, OneEach DEF At1
<1>4. \A pcs : pc'[a] \in pcs /\ pc'[a] # "idle" => At1(n, pcs)'
  BY <1>1 DEF At1
<1>5. pc'[a] # "idle" => \E b \in Operators : req'[b].name = n
  BY <1>1
<1>6. pc[a] \in UpdatePcs \cup RolloutPcs \cup ApplyPcs =>
        /\ by_name[n] # Nobody /\ held[a] = by_name[n] /\ held[a] \in Handles
        /\ app[held[a]] # None /\ app[held[a]].name = n
  BY <1>2, Holding DEF InOrder
<1>7. pc[a] \in DeployPcs \cup RemovePcs => by_name[n] = Nobody
  BY <1>2 DEF InOrder
<1>8. ASSUME NEW t
      PROVE  \A s : Goto(a, s) => pc'[a] = s
  BY <1>1 DEF Goto
<1>9. \A t : Return(a, t) => pc'[a] = "idle"
  BY <1>1 DEF Return, Goto
<1>10. CASE DeployWrite(a) \/ DeployCollides(a)
  <2>1. by_name'[n] = Nobody /\ pc'[a] # "idle"
    BY <1>1, <1>7, <1>10 DEF DeployWrite, DeployCollides, Goto, memory, DeployPcs
  <2>2. DeployWrite(a) => spec_file'[n] = [sub |-> req[a].sub, conf |-> req[a].conf]
    BY <1>1 DEF DeployWrite
  <2>3. pc'[a] = "insert" => DeployWrite(a)
    BY <1>1, <1>10 DEF DeployCollides, Goto
  <2>4. pc'[a] # "unlink_rollouts"
    BY <1>1, <1>10 DEF DeployWrite, DeployCollides, Goto
  <2>. QED
    BY <1>1, <1>5, <2>1, <2>2, <2>3, <2>4 DEF MirroredAt
<1>11. CASE DeployInsert(a)
  <2>1. PICK h \in Handles :
          /\ app' = [app EXCEPT ![h] = NewHandle(n, req[a].sub, req[a].conf, None)]
          /\ by_name' = [by_name EXCEPT ![n] = h]
    BY <1>11 DEF DeployInsert, try_insert
  <2>2. app'[h].sub = req[a].sub /\ app'[h].conf = req[a].conf /\ app'[h].tag = None /\ by_name'[n] = h
    BY <1>1, <2>1 DEF NewHandle
  <2>3. spec_file'[n] = [sub |-> req[a].sub, conf |-> req[a].conf] /\ pc'[a] = "idle"
    BY <1>1, <1>9, <1>11 DEF DeployInsert, Mirrored, disk
  <2>4. spec_file'[n] \in Specs
    BY <1>2, <1>11, <2>3 DEF DeployInsert, InOrder, DeployPcs, Specs
  <2>. QED
    BY <2>2, <2>3, <2>4, NobodyAssumption, NoneAssumption DEF MirroredAt
<1>12. CASE DeployDiscard(a)
  <2>1. by_name'[n] = Nobody /\ spec_file'[n] = None /\ pc'[a] = "idle"
    BY <1>1, <1>7, <1>9, <1>12 DEF DeployDiscard, discard_failed_spec, memory, DeployPcs
  <2>. QED
    BY <2>1 DEF MirroredAt
<1>13. CASE UpdateReplace(a)
  <2>1. /\ pc[a] = "replace" /\ pc'[a] \in {"persist", "persist_only"}
        /\ by_name' = by_name /\ spec_file' = spec_file /\ rollouts_file' = rollouts_file
    BY <1>1, <1>13 DEF UpdateReplace, Goto, disk
  <2>2. app'[held[a]].tag = app[held[a]].tag
    <3>1. app'[held[a]] = [app[held[a]] EXCEPT !.conf = req[a].conf]
      BY <1>1, <1>6, <1>13 DEF UpdateReplace, UpdatePcs
    <3>. QED
      BY <1>1, <1>6, <2>1, <3>1 DEF Apps, UpdatePcs
  <2>. QED
    BY <1>2, <1>3, <1>4, <1>6, <2>1, <2>2 DEF MirroredAt, UpdatePcs
<1>14. CASE UpdatePersist(a)
  <2>1. /\ pc[a] \in {"persist", "persist_only"} /\ pc'[a] \in {"apply", "done"}
        /\ by_name' = by_name /\ app' = app /\ rollouts_file' = rollouts_file
    BY <1>1, <1>14 DEF UpdatePersist, Goto, memory
  <2>2. spec_file'[n] = [sub |-> app[held[a]].sub, conf |-> app[held[a]].conf]
    BY <1>1, <1>6, <1>14 DEF UpdatePersist, persist_spec, UpdatePcs
  <2>3. spec_file'[n] \in Specs
    BY <1>1, <1>6, <2>1, <2>2 DEF Specs, Apps, UpdatePcs
  <2>. QED
    BY <1>2, <1>3, <1>6, <2>1, <2>2, <2>3, NoneAssumption DEF MirroredAt, UpdatePcs
<1>15. CASE RolloutRecord(a)
  <2>1. /\ pc[a] = "record" /\ pc'[a] = "durable"
        /\ by_name' = by_name /\ spec_file' = spec_file /\ rollouts_file' = rollouts_file
    BY <1>1, <1>15 DEF RolloutRecord, Goto, disk
  <2>2. app'[held[a]].sub = app[held[a]].sub /\ app'[held[a]].conf = app[held[a]].conf
    <3>1. app'[held[a]] = [app[held[a]] EXCEPT !.tag = req[a].tag]
      BY <1>1, <1>6, <1>15 DEF RolloutRecord, RolloutPcs
    <3>. QED
      BY <1>1, <1>6, <2>1, <3>1 DEF Apps, RolloutPcs
  <2>. QED
    BY <1>2, <1>3, <1>4, <1>6, <2>1, <2>2 DEF MirroredAt, RolloutPcs
<1>16. CASE RolloutPersist(a)
  <2>1. /\ pc[a] = "durable" /\ pc'[a] = "apply"
        /\ by_name' = by_name /\ app' = app /\ spec_file' = spec_file
    BY <1>1, <1>16 DEF RolloutPersist, Goto, memory
  <2>2. rollouts_file'[n] = app[held[a]].tag
    BY <1>1, <1>6, <1>16 DEF RolloutPersist, persist_rollouts, RolloutPcs
  <2>. QED
    BY <1>2, <1>3, <1>6, <2>1, <2>2 DEF MirroredAt, RolloutPcs
<1>17. CASE /\ pc[a] \in {"done"} \cup ApplyPcs /\ pc'[a] \in {"idle"} \cup ApplyPcs
            /\ SameApps /\ UNCHANGED <<by_name, disk>>
  <2>1. by_name' = by_name /\ spec_file' = spec_file /\ rollouts_file' = rollouts_file
    BY <1>17 DEF disk
  <2>2. app'[held[a]].sub = app[held[a]].sub /\ app'[held[a]].conf = app[held[a]].conf /\ app'[held[a]].tag = app[held[a]].tag
    BY <1>6, <1>17 DEF SameApps, UpdatePcs
  <2>. QED
    BY <1>2, <1>3, <1>6, <1>17, <2>1, <2>2 DEF MirroredAt, UpdatePcs, ApplyPcs
<1>18. CASE RemoveStop(a)
  <2>1. by_name'[n] = Nobody /\ pc'[a] = "unlink"
    BY <1>1, <1>7, <1>18 DEF RemoveStop, Goto, RemovePcs
  <2>. QED
    BY <1>5, <2>1 DEF MirroredAt
<1>19. CASE RemoveSpec(a)
  <2>1. by_name'[n] = Nobody /\ pc'[a] = "unlink_rollouts" /\ spec_file'[n] = None
    BY <1>1, <1>7, <1>19 DEF RemoveSpec, Goto, RemovePcs, memory
  <2>. QED
    BY <1>1, <2>1 DEF MirroredAt
<1>20. CASE RemoveRollouts(a)
  <2>1. by_name'[n] = Nobody /\ pc'[a] = "idle" /\ spec_file'[n] = None
    BY <1>1, <1>7, <1>9, <1>20 DEF RemoveRollouts, RemovePcs, Mirrored
  <2>. QED
    BY <2>1 DEF MirroredAt
<1>. DEFINE Apply == /\ pc[a] \in {"done"} \cup ApplyPcs /\ pc'[a] \in {"idle"} \cup ApplyPcs
                     /\ SameApps /\ UNCHANGED <<by_name, disk>>
<1>21. ASSUME \/ Done(a) \/ ApplyCold(a) \/ ApplyConflicts(a) \/ ApplyReturns(a) \/ ApplyBlueGreen(a)
              \/ ApplyFails(a) \/ Build(a) \/ RollBack(a) \/ SwitchOver(a) \/ Drained(a) \/ Released(a)
       PROVE  Apply
  <2>1. \A s : Goto(a, s) => pc'[a] = s
    BY <1>1 DEF Goto
  <2>2. pc[a] \in {"done"} \cup ApplyPcs /\ pc'[a] \in {"idle"} \cup ApplyPcs /\ UNCHANGED <<by_name, disk>>
    BY <1>9, <1>21, <2>1 DEF Done, ApplyCold, ApplyConflicts, ApplyReturns, ApplyBlueGreen, ApplyFails, Build,
                             RollBack, SwitchOver, Drained, Released, memory, ApplyPcs
  <2>3. ~DeployInsert(a) /\ ~RemoveRollouts(a) /\ ~UpdateReplace(a) /\ ~RolloutRecord(a)
    BY <2>2 DEF DeployInsert, RemoveRollouts, UpdateReplace, RolloutRecord, ApplyPcs
  <2>. QED
    BY <2>2, <2>3, HandlerSame
<1>. QED
  BY <1>10, <1>11, <1>12, <1>13, <1>14, <1>15, <1>16, <1>17, <1>18, <1>19, <1>20, <1>21 DEF Handler
LEMMA HandlerAcked ==
  ASSUME OwnApps, Typed, RequestsInOrder, Indexed, Acked, NEW a \in Operators, Handler(a), HandlerScope(a),
         NEW n \in Names, n = req[a].name
  PROVE  /\ AckedAt(n)'
         /\ pc'[a] \in {"durable"} \cup ApplyPcs /\ req'[a].kind = "rollout" => app'[held'[a]].tag = req'[a].tag
<1>1. /\ phase # "down" /\ phase' = phase /\ pc[a] # "idle"
      /\ pc'[a] # "idle" => req'[a] = req[a] /\ held'[a] = held[a] /\ told' = told /\ told_tag' = told_tag
      /\ pc \in [Operators -> Pcs] /\ app \in [Handles -> Apps \cup {None}]
      /\ by_name \in [Names -> Handles \cup {Nobody}]
      /\ told \in [Names -> Confs \cup {"removed", "unknown"}] /\ told_tag \in [Names -> Tags \cup {None}]
      /\ "unknown" \notin Confs /\ "removed" \notin Confs
  BY NoneAssumption DEF HandlerScope, Typed
<1>2. AckedAt(n) /\ InOrder(a)
  BY DEF Acked, RequestsInOrder
<1>3. told[n] = "unknown" /\ (req[a].kind # "update" => told_tag[n] = None)
  BY <1>1, <1>2 DEF InOrder
<1>4. pc[a] \in UpdatePcs \cup RolloutPcs \cup ApplyPcs =>
        /\ by_name[n] # Nobody /\ held[a] = by_name[n] /\ held[a] \in Handles
        /\ app[held[a]] # None /\ app[held[a]] \in Apps
  BY <1>1, <1>2, Holding DEF InOrder
<1>5. told_tag[n] # None => by_name[n] # Nobody /\ app[by_name[n]].tag = told_tag[n]
  BY <1>1, <1>2 DEF AckedAt
<1>6. ASSUME NEW t, Return(a, t)
      PROVE  /\ pc'[a] = "idle" /\ told'[n] = t
             /\ told_tag'[n] = IF req[a].kind = "rollout" /\ t # "unknown" THEN req[a].tag ELSE told_tag[n]
  BY <1>1, <1>6 DEF Return, Goto
<1>7. \A s : Goto(a, s) => pc'[a] = s
  BY <1>1 DEF Goto
<1>8. pc[a] \in {"durable"} \cup ApplyPcs /\ req[a].kind = "rollout" => app[held[a]].tag = req[a].tag
  BY DEF Acked
<1>9. CASE SameApps /\ by_name' = by_name /\ pc'[a] # "idle"
          /\ (pc'[a] \in {"durable"} \cup ApplyPcs /\ req[a].kind = "rollout" => pc[a] \in {"durable"} \cup ApplyPcs)
  <2>1. told'[n] = "unknown" /\ told_tag'[n] = told_tag[n] /\ by_name'[n] = by_name[n]
    BY <1>1, <1>3, <1>9
  <2>2. told_tag[n] # None => app'[by_name[n]].tag = told_tag[n]
    <3>1. by_name[n] # Nobody => by_name[n] \in Handles /\ app[by_name[n]] # None
      BY <1>1 DEF Indexed
    <3>. QED
      BY <1>5, <1>9, <3>1 DEF SameApps
  <2>3. pc[a] \in {"durable"} \cup ApplyPcs => app'[held[a]].tag = app[held[a]].tag
    BY <1>4, <1>9 DEF SameApps, RolloutPcs
  <2>. QED
    BY <1>1, <1>5, <1>8, <1>9, <2>1, <2>2, <2>3 DEF AckedAt
<1>10. CASE UpdateReplace(a)
  <2>1. pc[a] = "replace" /\ pc'[a] \in {"persist", "persist_only"} /\ by_name' = by_name
    BY <1>7, <1>10 DEF UpdateReplace
  <2>2. app'[held[a]].tag = app[held[a]].tag
    <3>1. app'[held[a]] = [app[held[a]] EXCEPT !.conf = req[a].conf]
      BY <1>1, <1>4, <1>10 DEF UpdateReplace, UpdatePcs
    <3>. QED
      BY <1>4, <2>1, <3>1 DEF Apps, UpdatePcs
  <2>3. told'[n] = "unknown" /\ told_tag'[n] = told_tag[n]
    BY <1>1, <1>3, <2>1
  <2>. QED
    BY <1>1, <1>4, <1>5, <2>1, <2>2, <2>3 DEF AckedAt, UpdatePcs, ApplyPcs
<1>11. CASE RolloutRecord(a)
  <2>1. pc[a] = "record" /\ pc'[a] = "durable" /\ by_name' = by_name
    BY <1>7, <1>11 DEF RolloutRecord
  <2>2. app'[held[a]].tag = req[a].tag
    <3>1. app'[held[a]] = [app[held[a]] EXCEPT !.tag = req[a].tag]
      BY <1>1, <1>4, <1>11 DEF RolloutRecord, RolloutPcs
    <3>. QED
      BY <1>4, <2>1, <3>1 DEF Apps, RolloutPcs
  <2>3. req[a].kind = "rollout"
    BY <1>2, <2>1 DEF InOrder, RolloutPcs
  <2>4. told'[n] = "unknown" /\ told_tag'[n] = None
    BY <1>1, <1>3, <2>1, <2>3
  <2>. QED
    BY <1>1, <2>1, <2>2, <2>4 DEF AckedAt
<1>12. CASE DeployInsert(a)
  <2>1. PICK h \in Handles :
          /\ app' = [app EXCEPT ![h] = NewHandle(n, req[a].sub, req[a].conf, None)]
          /\ by_name' = [by_name EXCEPT ![n] = h]
    BY <1>12 DEF DeployInsert, try_insert
  <2>2. app'[h].conf = req[a].conf /\ by_name'[n] = h
    BY <1>1, <2>1 DEF NewHandle
  <2>3. req[a].kind = "deploy" /\ req[a].conf \in Confs
    BY <1>2, <1>12 DEF DeployInsert, InOrder, DeployPcs
  <2>4. told'[n] = req[a].conf /\ told_tag'[n] = None /\ pc'[a] = "idle"
    BY <1>3, <1>6, <1>12, <2>3 DEF DeployInsert
  <2>. QED
    BY <1>1, <2>2, <2>3, <2>4, NobodyAssumption DEF AckedAt, ApplyPcs
<1>13. CASE DeployDiscard(a) \/ RemoveRollouts(a)
  <2>1. by_name[n] = Nobody /\ req[a].kind \in {"deploy", "remove"}
    BY <1>2, <1>13 DEF DeployDiscard, RemoveRollouts, InOrder, DeployPcs, RemovePcs
  <2>2. by_name' = by_name
    BY <1>13 DEF DeployDiscard, RemoveRollouts, memory
  <2>3. told'[n] = "removed" /\ told_tag'[n] = None /\ pc'[a] = "idle"
    BY <1>3, <1>6, <1>13, <2>1 DEF DeployDiscard, RemoveRollouts
  <2>. QED
    BY <1>1, <2>1, <2>2, <2>3 DEF AckedAt, ApplyPcs
<1>14. CASE Done(a) \/ ApplyConflicts(a) \/ ApplyReturns(a) \/ ApplyFails(a) \/ RollBack(a) \/ Released(a)
  <2>1. \E t \in {"unknown", app[held[a]].conf} : Return(a, t)
    BY <1>14 DEF Done, ApplyConflicts, ApplyReturns, ApplyFails, RollBack, Released, Outcome
  <2>2. PICK t \in {"unknown", app[held[a]].conf} : Return(a, t)
    BY <2>1
  <2>3. pc[a] \in {"done"} \cup ApplyPcs /\ by_name' = by_name
    BY <1>14 DEF Done, ApplyConflicts, ApplyReturns, ApplyFails, RollBack, Released, memory, ApplyPcs
  <2>4. SameApps
    BY <1>14, <2>3, HandlerSame DEF DeployInsert, RemoveRollouts, UpdateReplace, RolloutRecord, ApplyPcs
  <2>5. /\ by_name[n] # Nobody /\ held[a] = by_name[n] /\ held[a] \in Handles
        /\ app[held[a]] # None /\ app[held[a]].conf \in Confs
    BY <1>4, <2>3 DEF Apps, UpdatePcs
  <2>6. app'[held[a]].conf = app[held[a]].conf /\ app'[held[a]].tag = app[held[a]].tag
    BY <2>4, <2>5 DEF SameApps
  <2>7. pc[a] = "done" => req[a].kind = "update"
    BY <1>2 DEF InOrder, UpdatePcs
  <2>8. told'[n] \in {"unknown", app[held[a]].conf} /\ pc'[a] = "idle"
    BY <1>6, <2>2
  <2>9. told_tag'[n] # None => app[held[a]].tag = told_tag'[n]
    <3>1. CASE req[a].kind = "rollout" /\ t # "unknown"
      BY <1>6, <1>8, <2>2, <2>3, <2>7, <3>1
    <3>2. CASE ~(req[a].kind = "rollout" /\ t # "unknown")
      BY <1>5, <1>6, <2>2, <2>5, <3>2
    <3>. QED
      BY <3>1, <3>2
  <2>. QED
    BY <1>1, <2>3, <2>5, <2>6, <2>8, <2>9 DEF AckedAt, ApplyPcs
<1>15. ASSUME \/ DeployWrite(a) \/ DeployCollides(a) \/ UpdatePersist(a) \/ RolloutPersist(a) \/ ApplyCold(a)
              \/ ApplyBlueGreen(a) \/ Build(a) \/ SwitchOver(a) \/ Drained(a) \/ RemoveStop(a) \/ RemoveSpec(a)
       PROVE  /\ SameApps /\ by_name' = by_name /\ pc'[a] # "idle"
              /\ (pc'[a] \in {"durable"} \cup ApplyPcs /\ req[a].kind = "rollout" => pc[a] \in {"durable"} \cup ApplyPcs)
  <2>1. by_name' = by_name /\ pc'[a] # "idle"
    BY <1>7, <1>15 DEF DeployWrite, DeployCollides, UpdatePersist, RolloutPersist, ApplyCold, ApplyBlueGreen,
                       Build, SwitchOver, Drained, RemoveStop, RemoveSpec, memory
  <2>2. pc[a] \notin {"replace", "record", "unlink_rollouts"}
    BY <1>15 DEF DeployWrite, DeployCollides, UpdatePersist, RolloutPersist, ApplyCold, ApplyBlueGreen,
                 Build, SwitchOver, Drained, RemoveStop, RemoveSpec
  <2>3. ~DeployInsert(a)
    BY <1>6, <2>1 DEF DeployInsert
  <2>4. SameApps
    BY <2>2, <2>3, HandlerSame DEF RemoveRollouts, UpdateReplace, RolloutRecord
  <2>5. DeployWrite(a) \/ DeployCollides(a) \/ RemoveStop(a) \/ RemoveSpec(a) => pc'[a] \notin {"durable"} \cup ApplyPcs
    BY <1>7 DEF DeployWrite, DeployCollides, RemoveStop, RemoveSpec, ApplyPcs
  <2>6. UpdatePersist(a) => req[a].kind # "rollout"
    BY <1>2 DEF UpdatePersist, InOrder, UpdatePcs
  <2>7. RolloutPersist(a) \/ ApplyCold(a) \/ ApplyBlueGreen(a) \/ Build(a) \/ SwitchOver(a) \/ Drained(a) =>
          pc[a] \in {"durable"} \cup ApplyPcs
    BY DEF RolloutPersist, ApplyCold, ApplyBlueGreen, Build, SwitchOver, Drained, ApplyPcs
  <2>. QED
    BY <1>15, <2>1, <2>4, <2>5, <2>6, <2>7
<1>. QED
  BY <1>9, <1>10, <1>11, <1>12, <1>13, <1>14, <1>15 DEF Handler
\* When the process ends, what an operator knows is on disk: only the file of a
\* request that was at work can be cut short.
LEMMA EndsKeep ==
  ASSUME Typed, RequestsInOrder, Indexed, Mirrored, Acked, Ends
  PROVE  RequestsInOrder' /\ Indexed' /\ Mirrored' /\ Acked'
<1>1. /\ phase # "down" /\ Forget /\ CutShort /\ told' = told /\ told_tag' = told_tag
  BY EndsFrame
<1>2. /\ \A a \in Operators : pc'[a] = "idle" /\ req'[a] = NoRequest /\ held'[a] = Nobody
      /\ \A h \in Handles : app'[h] = None
      /\ \A n \in Names : by_name'[n] = Nobody
      /\ \A s \in Subs : by_subdomain'[s] = Nobody
      /\ phase' = "down"
  BY <1>1 DEF Forget
<1>3. RequestsInOrder' /\ Indexed' /\ Mirrored'
  BY <1>2 DEF RequestsInOrder, InOrder, Indexed, Mirrored, DeployPcs, UpdatePcs, RolloutPcs, ApplyPcs,
              RemovePcs, Registered
<1>4. PICK specs \in SUBSET (At("write") \cup At("persist") \cup At("persist_only")),
           histories \in SUBSET At("durable") :
        /\ spec_file' = [n \in Names |-> IF n \in specs THEN Torn ELSE spec_file[n]]
        /\ rollouts_file' = [n \in Names |-> IF n \in histories THEN None ELSE rollouts_file[n]]
  BY <1>1 DEF CutShort
<1>5. ASSUME NEW n \in Names, told[n] # "unknown"
      PROVE  /\ n \notin specs
             /\ \A a \in Operators : req[a].name # n
             /\ spec_file'[n] = spec_file[n]
  <2>1. \A a \in Operators : req[a].name # n
    BY <1>5, NoneAssumption DEF RequestsInOrder, InOrder, NoRequest
  <2>2. n \notin specs
    BY <1>4, <2>1 DEF At
  <2>. QED
    BY <1>4, <2>1, <2>2
<1>6. ASSUME NEW n \in Names, told[n] = "removed"
      PROVE  spec_file'[n] = None
  <2>1. by_name[n] = Nobody /\ MirroredAt(n)
    BY <1>1, <1>6 DEF Acked, AckedAt, Mirrored
  <2>. QED
    BY <1>5, <1>6, <2>1 DEF MirroredAt
<1>7. ASSUME NEW n \in Names, told[n] \in Confs
      PROVE  spec_file'[n] \in Specs /\ spec_file'[n].conf = told[n]
  <2>1. by_name[n] # Nobody /\ app[by_name[n]].conf = told[n] /\ MirroredAt(n) /\ told[n] # "unknown"
    BY <1>1, <1>7, NoneAssumption DEF Acked, AckedAt, Mirrored
  <2>2. ~At1(n, {"persist", "persist_only"})
    BY <1>5, <2>1 DEF At1
  <2>3. spec_file[n] = [sub |-> app[by_name[n]].sub, conf |-> app[by_name[n]].conf]
    BY <2>1, <2>2 DEF MirroredAt
  <2>4. app[by_name[n]] \in Apps
    BY <2>1 DEF Indexed, Typed
  <2>. QED
    BY <1>5, <2>1, <2>3, <2>4 DEF Specs, Apps
<1>8. ASSUME NEW n \in Names, told_tag[n] # None
      PROVE  spec_file'[n] # None /\ rollouts_file'[n] = told_tag[n]
  <2>1. by_name[n] # Nobody /\ app[by_name[n]].tag = told_tag[n] /\ MirroredAt(n)
    BY <1>1, <1>8 DEF Acked, AckedAt, Mirrored
  <2>2. \A a \in Operators : pc[a] = "durable" => req[a].name # n
    BY <1>8 DEF RequestsInOrder, InOrder, RolloutPcs
  <2>3. rollouts_file[n] = told_tag[n] /\ spec_file[n] # None
    BY <1>8, <2>1, <2>2 DEF MirroredAt, At1
  <2>4. n \notin histories
    BY <1>4, <2>2 DEF At
  <2>. QED
    BY <1>4, <2>3, <2>4, NoneAssumption
<1>9. \A n \in Names : AckedAt(n)'
  BY <1>1, <1>2, <1>6, <1>7, <1>8 DEF AckedAt
<1>. QED
  BY <1>2, <1>3, <1>9 DEF Acked, ApplyPcs

\* The registry that is loaded is the one that was on disk.
LEMMA LoadKeeps ==
  ASSUME Typed, RequestsInOrder, Mirrored, Acked, Load
  PROVE  /\ RequestsInOrder' /\ Indexed' /\ Mirrored' /\ Acked' /\ Booting'
         /\ \A h \in Handles : app'[h] # None => app'[h].state = "Stopped"
<1>1. /\ phase = "down" /\ phase' = "reattach"
      /\ spec_file' = spec_file /\ rollouts_file' = rollouts_file
      /\ box' = box /\ net' = net
      /\ pc' = pc /\ req' = req /\ held' = held /\ told' = told /\ told_tag' = told_tag
  BY DEF Load, disk, client, host
<1>2. \A a \in Operators : pc[a] = "idle" /\ req[a] = NoRequest /\ held[a] = Nobody
  BY <1>1 DEF RequestsInOrder, InOrder
<1>3. PICK f \in [Stored -> Handles] :
        /\ \A m, n \in Stored : f[m] = f[n] => m = n
        /\ \A n \in Stored :
             /\ spec_file[n] \in Specs
             /\ app'[f[n]] = NewHandle(n, spec_file[n].sub, spec_file[n].conf, rollouts_file[n])
             /\ app'[f[n]] \in Apps
        /\ \A h \in Handles : h \in todo' \/ app'[h] = None
        /\ todo' = {f[n] : n \in Stored}
        /\ by_name' = [n \in Names |-> IF n \in Stored THEN f[n] ELSE Nobody]
        /\ \A s \in Subs :
             by_subdomain'[s] # Nobody =>
               \E n \in Stored : spec_file[n].sub = s /\ by_subdomain'[s] = f[n]
        /\ \A n \in Stored : spec_file[n].sub \notin clashed' => by_subdomain'[spec_file[n].sub] = f[n]
  BY LoadFrame
<1>4. \A n \in Stored :
        /\ n \in Names /\ f[n] \in Handles /\ f[n] # Nobody
        /\ app'[f[n]] # None /\ app'[f[n]].name = n /\ app'[f[n]].sub = spec_file[n].sub
        /\ app'[f[n]].conf = spec_file[n].conf /\ app'[f[n]].tag = rollouts_file[n]
        /\ app'[f[n]].state = "Stopped"
        /\ by_name'[n] = f[n]
  <2>1. SUFFICES ASSUME NEW n \in Stored
                 PROVE  /\ n \in Names /\ f[n] \in Handles /\ f[n] # Nobody
                        /\ app'[f[n]] # None /\ app'[f[n]].name = n /\ app'[f[n]].sub = spec_file[n].sub
                        /\ app'[f[n]].conf = spec_file[n].conf /\ app'[f[n]].tag = rollouts_file[n]
                        /\ app'[f[n]].state = "Stopped"
                        /\ by_name'[n] = f[n]
    OBVIOUS
  <2>2. n \in Names /\ f[n] \in Handles /\ f[n] # Nobody
    BY <1>3, NobodyAssumption DEF Stored
  <2>3. app'[f[n]] = NewHandle(n, spec_file[n].sub, spec_file[n].conf, rollouts_file[n]) /\ app'[f[n]] \in Apps
    BY <1>3
  <2>4. by_name'[n] = f[n]
    BY <1>3, <2>2
  <2>. QED
    BY <2>2, <2>3, <2>4, NoneAssumption DEF NewHandle
<1>4a. \A h \in Handles : h \in todo' \/ app'[h] # None => \E n \in Stored : h = f[n]
  <2>1. todo' = {f[n] : n \in Stored} /\ \A h \in Handles : h \in todo' \/ app'[h] = None
    BY <1>3
  <2>. QED
    BY <2>1
<1>5. \A n \in Names : by_name'[n] # Nobody => n \in Stored
  BY <1>3
<1>6. Registered' = todo'
  <2>1. \A h \in todo' : h \in Registered'
    <3>1. \A h \in todo' : \E n \in Stored : h = f[n]
      BY <1>3
    <3>. QED
      BY <1>4, <3>1 DEF Registered
  <2>2. \A h \in Registered' : h \in todo'
    <3>1. \A h \in Handles : h \in todo' \/ app'[h] = None
      BY <1>3
    <3>. QED
      BY <3>1 DEF Registered
  <2>. QED
    BY <2>1, <2>2
<1>7. RequestsInOrder'
  BY <1>1, <1>2 DEF RequestsInOrder, InOrder, DeployPcs, UpdatePcs, RolloutPcs, ApplyPcs, RemovePcs
<1>8. Indexed'
  <2>1. \A n \in Names : by_name'[n] # Nobody => app'[by_name'[n]] # None /\ app'[by_name'[n]].name = n
    BY <1>4, <1>5
  <2>2. \A s \in Subs : by_subdomain'[s] # Nobody =>
          by_subdomain'[s] \in Registered' /\ app'[by_subdomain'[s]].sub = s
    <3>1. \A s \in Subs : by_subdomain'[s] # Nobody =>
            \E n \in Stored : spec_file[n].sub = s /\ by_subdomain'[s] = f[n]
      BY <1>3
    <3>2. \A n \in Stored : f[n] \in todo'
      BY <1>3
    <3>. QED
      BY <1>4, <1>6, <3>1, <3>2
  <2>3. \A h \in Registered' : app'[h].sub \notin clashed' => by_subdomain'[app'[h].sub] = h
    <3>1. \A n \in Stored : spec_file[n].sub \notin clashed' => by_subdomain'[spec_file[n].sub] = f[n]
      BY <1>3
    <3>2. \A h \in Registered' : \E n \in Stored : h = f[n]
      BY <1>4a DEF Registered
    <3>. QED
      BY <1>4, <3>1, <3>2
  <2>4. \A h \in Handles : app'[h] # None => by_name'[app'[h].name] = h
    BY <1>4a, <1>4
  <2>. QED
    BY <1>1, <2>1, <2>2, <2>3, <2>4 DEF Indexed
<1>9. Mirrored'
  <2>1. ASSUME NEW n \in Names
        PROVE  MirroredAt(n)'
    <3>1. CASE n \in Stored
      <4>1. spec_file[n] = [sub |-> app'[f[n]].sub, conf |-> app'[f[n]].conf] /\ spec_file[n] # None
        <5>1. spec_file[n] \in Specs
          BY <1>3, <3>1
        <5>. QED
          BY <1>4, <3>1, <5>1, NoneAssumption DEF Specs
      <4>. QED
        BY <1>1, <1>4, <3>1, <4>1 DEF MirroredAt
    <3>2. CASE n \notin Stored
      BY <1>1, <1>5, <3>2 DEF MirroredAt, Stored
    <3>. QED
      BY <3>1, <3>2
  <2>. QED
    BY <1>1, <1>2, <2>1 DEF Mirrored
<1>10. Acked'
  <2>1. ASSUME NEW n \in Names
        PROVE  AckedAt(n)'
    <3>1. /\ told[n] = "removed" => spec_file[n] = None
          /\ told[n] \in Confs => spec_file[n] \in Specs /\ spec_file[n].conf = told[n]
          /\ told_tag[n] # None => spec_file[n] # None /\ rollouts_file[n] = told_tag[n]
      BY <1>1 DEF Acked, AckedAt
    <3>2. spec_file[n] = None => by_name'[n] = Nobody
      BY <1>5 DEF Stored
    <3>3. spec_file[n] # None => n \in Stored
      BY DEF Stored
    <3>. QED
      BY <1>1, <1>4, <3>1, <3>2, <3>3, NoneAssumption DEF AckedAt
  <2>. QED
    BY <1>1, <1>2, <2>1 DEF Acked, ApplyPcs
<1>11. Booting'
  <2>1. \A h \in Handles : h \in todo' \/ app'[h] = None
    BY <1>3
  <2>. QED
    BY <1>4a, <1>1, <1>4, <1>6, <2>1 DEF Booting
<1>12. \A h \in Handles : app'[h] # None => app'[h].state = "Stopped"
  BY <1>4a, <1>4
<1>. QED
  BY <1>7, <1>8, <1>9, <1>10, <1>11, <1>12
-----------------------------------------------------------------------------
(* The host *)

\* No two handles are of one app: the second of a name is made when the first
\* is gone.
LEMMA OneHandle ==
  ASSUME OwnApps, Typed, RequestsInOrder, Indexed, NEW g \in Handles, NEW h \in Handles,
         app[g] # None, app[h] # None, app[g].name = app[h].name
  PROVE  g = h
<1>1. \A k \in Handles : app[k] # None =>
        by_name[app[k].name] = k
          \/ \E a \in Operators : pc[a] \in RemovePcs /\ held[a] = k /\ req[a].name = app[k].name
               /\ by_name[app[k].name] = Nobody
  BY DEF Indexed, RequestsInOrder, InOrder
<1>2. \A a, b \in Operators : pc[a] \in RemovePcs /\ pc[b] \in RemovePcs /\ req[a].name = req[b].name => a = b
  BY OneEach DEF RemovePcs
<1>. QED
  BY <1>1, <1>2, NobodyAssumption

\* The request that holds a handle is the only one to hold it.
LEMMA OneHolder ==
  ASSUME OwnApps, Typed, RequestsInOrder, Indexed, NEW a \in Operators, NEW b \in Operators,
         held[a] \in Handles, held[b] = held[a]
  PROVE  a = b
<1>1. \A c \in Operators : held[c] \in Handles =>
        pc[c] # "idle" /\ pc[c] \in UpdatePcs \cup RolloutPcs \cup ApplyPcs \cup RemovePcs
  BY NobodyAssumption DEF RequestsInOrder, InOrder, Typed, Pcs
<1>2. app[held[a]].name = req[a].name /\ app[held[b]].name = req[b].name
  BY <1>1, Holding
<1>. QED
  BY <1>1, <1>2, OneEach

\* A container that a step leaves alone.
Alone(c) ==
  /\ box'[c] = box[c]
  /\ c \in net' <=> c \in net
  /\ c \in claims' <=> c \in claims
  /\ c \in left' <=> c \in left

\* What is out of the reach of a step keeps its shape.
LEMMA ShapeStays ==
  ASSUME Typed, NEW g \in Handles, app[g] # None, app'[g] # None,
         app'[g].name = app[g].name, app'[g].state = app[g].state, app'[g].slot = app[g].slot,
         app'[g].boots = app[g].boots,
         \A s \in Slots : Alone(<<app[g].name, s>>),
         \A b \in Operators : held[b] = g /\ pc[b] \in {"build", "switch", "drain", "release"} =>
                                held'[b] = held[b] /\ pc'[b] = pc[b],
         Shape(g)
  PROVE  Shape(g)'
<1>1. /\ Current(g)' = Current(g) /\ Opposite(g)' = Opposite(g)
      /\ Alone(Current(g)) /\ Alone(Opposite(g)) /\ (Building(g)' <=> Building(g))
  BY Containing DEF Current, Opposite, Typed, Apps, Other, Slots, Building
<1>2. /\ Current(g) \in Taken' <=> Current(g) \in Taken
      /\ Opposite(g) \in Taken' <=> Opposite(g) \in Taken
  BY <1>1 DEF Taken, Alone
<1>3. Own(g)'
  BY <1>1, <1>2 DEF Shape, Own, Alone
<1>. QED
  BY <1>1, <1>2, <1>3 DEF Shape

LEMMA WorkStays ==
  ASSUME Typed, NEW b \in Operators, pc'[b] = pc[b], held'[b] = held[b],
         pc[b] \in {"build", "switch", "drain", "release", "unlink", "unlink_rollouts"} =>
           LET g == held[b]
           IN  /\ g \in Handles /\ app[g] # None /\ app'[g].name = app[g].name
               /\ app'[g].state = app[g].state /\ app'[g].slot = app[g].slot
               /\ app'[g].boots = app[g].boots
               /\ \A s \in Slots : Alone(<<app[g].name, s>>),
         AtWork(b)
  PROVE  AtWork(b)'
<1>. SUFFICES ASSUME pc[b] \in {"build", "switch", "drain", "release", "unlink", "unlink_rollouts"}
              PROVE  AtWork(b)'
  BY DEF AtWork
<1>1. /\ Opposite(held[b])' = Opposite(held[b]) /\ app'[held[b]].state = app[held[b]].state
      /\ app'[held[b]].boots = app[held[b]].boots
      /\ Alone(Opposite(held[b]))
  BY Containing DEF Opposite, Typed, Apps, Other, Slots
<1>2. Opposite(held[b]) \in Taken' <=> Opposite(held[b]) \in Taken
  BY <1>1 DEF Taken, Alone
<1>. QED
  BY <1>1, <1>2 DEF AtWork, Alone
\* A step at one app, while everything is claimed.
LEMMA AtApp ==
  ASSUME OwnApps, Typed, RequestsInOrder, Indexed, Accounted,
         claims = {}, claims' = {}, phase # "down",
         NEW h \in Handles, app[h] # None, app'[h] # None, app'[h].name = app[h].name,
         \A g \in Handles \ {h} : app'[g] = app[g],
         net' \subseteq Containers,
         \A c \in Containers : c[1] # app[h].name => Alone(c),
         \A b \in Operators : held[b] \in Handles \ {h} => pc'[b] = pc[b] /\ held'[b] = held[b],
         box'[Current(h)] # "absent" => Current(h) \in net' \cup left',
         box'[Opposite(h)] # "absent" => Opposite(h) \in net' \cup left',
         Shape(h)',
         \A b \in Operators : held[b] \notin Handles \ {h} => AtWork(b)'
  PROVE  Accounted'
<1>1. Taken = net \ left /\ Taken' = net' \ left'
  BY DEF Taken
<1>2. \A c \in Containers : c = <<c[1], c[2]>> /\ c[1] \in Names /\ c[2] \in Slots
  BY DEF Containers
<1>3. \A c \in Containers : c[1] = app[h].name => c \in {Current(h), Opposite(h)}
  BY <1>2, Containing
<1>4. ASSUME NEW g \in Handles \ {h}, app[g] # None
      PROVE  \A s \in Slots : Alone(<<app[g].name, s>>)
  <2>1. app[g].name # app[h].name
    BY <1>4, OneHandle
  <2>. QED
    BY <1>4, <2>1, Containing
<1>5. Endpoints'
  <2>1. \A c \in Containers : box'[c] # "absent" => c \in net' \cup left'
    <3>1. \A c \in Containers : c[1] # app[h].name /\ box'[c] # "absent" => c \in net' \cup left'
      BY DEF Accounted, Endpoints, Alone
    <3>. QED
      BY <1>3, <3>1
  <2>2. ASSUME NEW c \in Taken'
        PROVE  \E k \in Handles : app'[k] # None /\ app'[k].name = c[1]
    <3>1. CASE c[1] = app[h].name
      BY <3>1
    <3>2. CASE c[1] # app[h].name
      <4>1. c \in Taken
        BY <1>1, <2>2, <3>2 DEF Alone
      <4>2. PICK k \in Handles : app[k] # None /\ app[k].name = c[1]
        BY <4>1 DEF Accounted, Endpoints
      <4>. QED
        BY <3>2, <4>2
    <3>. QED
      BY <3>1, <3>2
  <2>. QED
    BY <2>1, <2>2 DEF Endpoints
<1>6. ASSUME NEW g \in Handles, app'[g] # None
      PROVE  Shape(g)'
  <2>1. CASE g = h
    BY <2>1
  <2>2. CASE g # h
    <3>1. app[g] # None /\ app'[g] = app[g] /\ Shape(g)
      BY <1>6, <2>2 DEF Accounted
    <3>2. \A b \in Operators : held[b] = g => held'[b] = held[b] /\ pc'[b] = pc[b]
      BY <2>2
    <3>. QED
      BY <1>4, <1>6, <2>2, <3>1, <3>2, ShapeStays
  <2>. QED
    BY <2>1, <2>2
<1>7. ASSUME NEW b \in Operators, held[b] \in Handles \ {h}
      PROVE  AtWork(b)'
  <2>1. pc[b] \in UpdatePcs \cup RolloutPcs \cup ApplyPcs \cup RemovePcs
    BY <1>7, NobodyAssumption DEF RequestsInOrder, InOrder, Typed, Pcs
  <2>2. app[held[b]] # None /\ app'[held[b]] = app[held[b]]
    BY <1>7, <2>1, Holding
  <2>3. AtWork(b) /\ pc'[b] = pc[b] /\ held'[b] = held[b]
    BY <1>7 DEF Accounted
  <2>. QED
    BY <1>4, <1>7, <2>2, <2>3, WorkStays
<1>. QED
  BY <1>5, <1>6, <1>7 DEF Accounted
\* A step of the controller: the app changes its state, and the current
\* container and endpoint with it.
LEMMA StateSteps ==
  ASSUME OwnApps, Typed, RequestsInOrder, Indexed, Accounted,
         claims = {}, claims' = {}, phase # "down",
         NEW h \in Handles, app[h] # None, app'[h] # None, app'[h].name = app[h].name,
         app'[h].slot = app[h].slot,
         \A g \in Handles \ {h} : app'[g] = app[g],
         net' \subseteq Containers, UNCHANGED <<pc, held>>,
         app[h].state # "RollingOver", app'[h].state # "RollingOver",
         app[h].state = "Stopped" => h \in Registered,
         \A c \in Containers \ {Current(h)} : Alone(c),
         box'[Current(h)] # "absent" => Current(h) \in net' \cup left',
         Own(h)'
  PROVE  Accounted'
<1>1. Taken = net \ left /\ Taken' = net' \ left'
  BY DEF Taken
<1>2. /\ Current(h) \in Containers /\ Opposite(h) \in Containers /\ Current(h) # Opposite(h)
      /\ Current(h)[1] = app[h].name
      /\ Current(h)' = Current(h) /\ Opposite(h)' = Opposite(h)
  BY Containing DEF Current, Opposite
<1>3. Shape(h) /\ (box[Opposite(h)] # "absent" => Opposite(h) \in net \cup left)
  BY <1>2 DEF Accounted, Endpoints
<1>3a. Alone(Opposite(h)) /\ (Opposite(h) \in Taken' <=> Opposite(h) \in Taken)
  BY <1>1, <1>2 DEF Alone
<1>4. Shape(h)'
  BY <1>2, <1>3, <1>3a DEF Shape
<1>5. ASSUME NEW b \in Operators, held[b] = h
      PROVE  AtWork(b)'
  <2>1. AtWork(b)
    BY DEF Accounted
  <2>2. pc[b] \notin {"build", "switch"}
    BY <1>5, <2>1 DEF AtWork
  <2>3. pc[b] \notin {"unlink", "unlink_rollouts"}
    <3>1. pc[b] \in RemovePcs => app[h].name = req[b].name /\ by_name[req[b].name] = Nobody
      BY <1>5 DEF RequestsInOrder, InOrder
    <3>2. h \in Registered => pc[b] \notin RemovePcs
      BY <3>1, NobodyAssumption DEF Registered
    <3>. QED
      BY <1>5, <2>1, <3>2 DEF AtWork, RemovePcs
  <2>. QED
    BY <1>2, <1>3a, <1>5, <2>1, <2>2, <2>3 DEF AtWork, Alone
<1>6. ASSUME NEW b \in Operators, held[b] \notin Handles
      PROVE  AtWork(b)'
  <2>1. pc[b] \notin UpdatePcs \cup RolloutPcs \cup ApplyPcs \cup RemovePcs
    BY <1>6, Holding
  <2>. QED
    BY <2>1 DEF AtWork, ApplyPcs, RemovePcs
<1>7. \A b \in Operators : held[b] \notin Handles \ {h} => AtWork(b)'
  BY <1>5, <1>6
<1>8. \A c \in Containers : c[1] # app[h].name => Alone(c)
  BY <1>2
<1>9. box'[Opposite(h)] # "absent" => Opposite(h) \in net' \cup left'
  BY <1>3, <1>3a DEF Alone
<1>. QED
  BY <1>4, <1>7, <1>8, <1>9, AtApp

LEMMA StartBeginsAccounted ==
  ASSUME OwnApps, Typed, RequestsInOrder, Indexed, Accounted,
         claims = {}, claims' = {}, phase # "down", UNCHANGED <<pc, held>>,
         NEW h \in Handles, app[h] # None, h \in Registered, StartBegins(h) \/ ThawBegins(h)
  PROVE  Accounted'
<1>. USE DEF AppStates
<1>1. /\ Typed /\ Current(h) \in Containers /\ Own(h)
      /\ net \subseteq Containers /\ Taken = net \ left /\ Taken' = net' \ left'
      /\ box[Current(h)] # "absent" => Current(h) \in net \cup left
  BY Containing DEF Accounted, Endpoints, Shape, Taken, Typed
<1>2. CASE StartBegins(h)
  <2>1. /\ app[h].state = "Stopped" /\ SetBuild(h, "Starting") /\ Allocates(Current(h), app[h].conf)
        /\ UNCHANGED <<box, left>>
    BY <1>2 DEF StartBegins
  <2>2. /\ app'[h] # None /\ app'[h].state = "Starting" /\ app'[h].slot = app[h].slot /\ app'[h].name = app[h].name
        /\ app'[h].boots = app[h].conf /\ app'[h].boots # None
        /\ \A g \in Handles \ {h} : app'[g] = app[g]
    BY <1>1, <2>1, SettingBuild, NoneAssumption DEF SameApps
  <2>3. /\ net' \subseteq Containers /\ Current(h)' = Current(h)
        /\ \A c \in Containers \ {Current(h)} : Alone(c)
    BY <1>1, <2>1, <2>2 DEF Allocates, Current, Alone
  <2>4. /\ app[h].conf \in Unparsed => net' = net
        /\ app[h].conf \notin Unparsed => Current(h) \in net'
    BY <2>1 DEF Allocates
  <2>5. /\ Current(h) \notin net \ left
        /\ box'[Current(h)] # "absent" => Current(h) \in left'
    BY <1>1, <2>1 DEF Own
  <2>6. Own(h)'
    BY <1>1, <2>1, <2>2, <2>3, <2>4, <2>5 DEF Own, Building
  <2>. QED
    BY <1>1, <2>1, <2>2, <2>3, <2>5, <2>6, StateSteps
<1>3. CASE ThawBegins(h)
  <2>1. app[h].state = "Frozen" /\ SetState(h, "Starting") /\ UNCHANGED <<box, net, left>>
    BY <1>3 DEF ThawBegins, host
  <2>2. /\ app'[h] # None /\ app'[h].state = "Starting" /\ app'[h].slot = app[h].slot /\ app'[h].name = app[h].name
        /\ app'[h].boots = None
        /\ \A g \in Handles \ {h} : app'[g] = app[g]
    BY <1>1, <2>1, Setting, NoneAssumption DEF SameApps
  <2>3. /\ Current(h)' = Current(h) /\ Current(h) \in net \ left /\ box[Current(h)] = "paused"
    BY <1>1, <2>1, <2>2 DEF Own, Building, Current
  <2>4. Own(h)'
    BY <1>1, <2>1, <2>2, <2>3 DEF Own, Building
  <2>. QED
    BY <1>1, <2>1, <2>2, <2>3, <2>4, StateSteps DEF Alone
<1>. QED
  BY <1>2, <1>3

LEMMA ControllerAccounted ==
  ASSUME OwnApps, Typed, RequestsInOrder, Indexed, Accounted, NEW h \in Handles, Controller(h)
  PROVE  Accounted'
<1>. USE DEF AppStates
<1>1. app[h] # None /\ phase \in {"eager", "up", "stopping"}
  BY DEF Controller, Wanted, StartSucceeds, StartRefused, StartFails, Launching, Freeze, Resume, Thaws,
         ThawFails, StopBegins, StopEnds, Alive
<1>2. /\ claims = {} /\ claims' = {} /\ UNCHANGED <<pc, held>> /\ phase # "down"
  BY <1>1, ControllerFrame DEF Accounted, Endpoints, Steady, client
<1>. DEFINE C == Current(h)
<1>3. /\ Typed /\ C \in Containers /\ Own(h) /\ net \subseteq Containers
      /\ box \in [Containers -> {"absent", "created", "running", "paused"}]
      /\ Taken = net \ left /\ Taken' = net' \ left'
      /\ box[C] # "absent" => C \in net \cup left
  BY <1>1, <1>2, Containing DEF Accounted, Endpoints, Shape, Taken, Typed
<1>4. ASSUME NEW s \in AppStates, SetState(h, s)
      PROVE  /\ app'[h] # None /\ app'[h].state = s /\ app'[h].slot = app[h].slot /\ app'[h].name = app[h].name
             /\ app'[h].boots = None /\ Current(h)' = C
             /\ \A g \in Handles \ {h} : app'[g] = app[g]
  BY <1>1, <1>3, <1>4, Setting, NoneAssumption DEF SameApps, Current
<1>5. ASSUME NEW s \in AppStates \ {"RollingOver"}, SetState(h, s),
             app[h].state \notin {"Stopped", "RollingOver"}, net' \subseteq Containers,
             \A c \in Containers \ {C} : Alone(c),
             box'[C] # "absent" => C \in net' \cup left', Own(h)'
      PROVE  Accounted'
  BY <1>1, <1>2, <1>3, <1>4, <1>5, StateSteps
<1>. HIDE DEF C
<1>6. CASE Wanted(h) \/ Resume(h)
  <2>1. by_subdomain[app[h].sub] = h
    BY <1>6 DEF Wanted, Resume
  <2>2. h \in Registered
    BY <1>1, <2>1, NobodyAssumption DEF Indexed, Typed, Apps
  <2>. QED
    BY <1>1, <1>2, <1>6, <2>2, StartBeginsAccounted DEF Wanted, Resume
<1>7. ASSUME Launching(h)
      PROVE  /\ app[h].state = "Starting" /\ Building(h) /\ app[h].boots # None
             /\ app[h].boots \in Unparsed => C \notin net \ left
             /\ app[h].boots \notin Unparsed => C \in net
             /\ box[C] # "absent" => C \in left
  BY <1>3, <1>7 DEF Launching, Own, Building, C
<1>8. CASE StartSucceeds(h)
  <2>1. /\ Launching(h) /\ app[h].boots \notin Unparsed /\ SetState(h, "Running") /\ net' = net
        /\ box' = [box EXCEPT ![C] = "running"] /\ left' = left \ {C}
    BY <1>8 DEF StartSucceeds, CanLaunch, Boots, C
  <2>2. box'[C] = "running" /\ \A c \in Containers \ {C} : Alone(c)
    BY <1>2, <1>3, <2>1 DEF Alone
  <2>3. Own(h)'
    BY <1>3, <1>4, <1>7, <2>1, <2>2 DEF Own, Building
  <2>. QED
    BY <1>3, <1>5, <1>7, <2>1, <2>2, <2>3
<1>9. CASE StartRefused(h)
  <2>1. /\ Launching(h) /\ SetState(h, "Stopped") /\ Releases(C, app[h].boots) /\ UNCHANGED <<box, left>>
    BY <1>9 DEF StartRefused, C
  <2>2. net' \subseteq Containers /\ C \notin net' \ left' /\ \A c \in Containers \ {C} : Alone(c)
    BY <1>2, <1>3, <1>7, <2>1 DEF Alone, Releases
  <2>3. Own(h)'
    BY <1>3, <1>4, <2>1, <2>2 DEF Own, Building
  <2>. QED
    BY <1>5, <1>7, <2>1, <2>2, <2>3
<1>10. CASE StartFails(h)
  <2>1. /\ Launching(h) /\ SetState(h, "Stopped") /\ net' = net \ {C}
        /\ \/ Reaps({C}) /\ left' = left \ {C}
           \/ \E status \in {"created", "running"} :
                box' = [box EXCEPT ![C] = status] /\ left' = left \cup {C}
    BY <1>10 DEF StartFails, CanLaunch, Releases, C
  <2>2. /\ net' \subseteq Containers /\ C \notin net'
        /\ \A c \in Containers \ {C} : Alone(c)
        /\ box'[C] # "absent" => C \in left'
    BY <1>2, <1>3, <2>1 DEF Alone, Reaps
  <2>3. Own(h)'
    BY <1>3, <1>4, <2>1, <2>2 DEF Own, Building
  <2>. QED
    BY <1>5, <1>7, <2>1, <2>2, <2>3
<1>11. CASE Freeze(h)
  <2>1. /\ SetState(h, "Frozen") /\ app[h].state = "Running" /\ net' = net /\ left' = left
        /\ box' = [box EXCEPT ![C] = "paused"]
    BY <1>11 DEF Freeze, C
  <2>2. box'[C] = "paused" /\ C \in net \ left /\ \A c \in Containers \ {C} : Alone(c)
    BY <1>2, <1>3, <2>1 DEF Alone, Own, Building, C
  <2>3. Own(h)'
    BY <1>3, <1>4, <2>1, <2>2 DEF Own, Building
  <2>. QED
    BY <1>3, <1>5, <2>1, <2>2, <2>3
<1>12. ASSUME app[h].state = "Starting", app[h].boots = None
       PROVE  C \in net \ left /\ box[C] = "paused"
  BY <1>3, <1>12 DEF Own, Building, C
<1>13. CASE Thaws(h)
  <2>1. /\ SetState(h, "Running") /\ app[h].state = "Starting" /\ app[h].boots = None
        /\ net' = net /\ left' = left /\ box' = [box EXCEPT ![C] = "running"]
    BY <1>13 DEF Thaws, C
  <2>2. box'[C] = "running" /\ \A c \in Containers \ {C} : Alone(c)
    BY <1>2, <1>3, <2>1 DEF Alone
  <2>3. Own(h)'
    BY <1>3, <1>4, <1>12, <2>1, <2>2 DEF Own, Building
  <2>. QED
    BY <1>3, <1>5, <1>12, <2>1, <2>2, <2>3
<1>14. CASE ThawFails(h)
  <2>1. /\ SetState(h, "Stopped") /\ app[h].state = "Starting" /\ left' = left \cup {C} /\ UNCHANGED <<box, net>>
    BY <1>14 DEF ThawFails, C
  <2>2. \A c \in Containers \ {C} : Alone(c)
    BY <1>2, <2>1 DEF Alone
  <2>3. Own(h)'
    BY <1>3, <1>4, <2>1 DEF Own, Building
  <2>. QED
    BY <1>3, <1>5, <2>1, <2>2, <2>3
<1>15. CASE StopBegins(h)
  <2>1. /\ SetState(h, "Stopping") /\ app[h].state \in {"Frozen", "Running"} /\ net' = net /\ left' = left
        /\ Reaps({C})
    BY <1>15 DEF StopBegins, C
  <2>2. box'[C] = "absent" /\ C \in net \ left /\ \A c \in Containers \ {C} : Alone(c)
    BY <1>2, <1>3, <2>1 DEF Alone, Own, Building, Reaps, C
  <2>3. Own(h)'
    BY <1>3, <1>4, <2>1, <2>2 DEF Own, Building
  <2>. QED
    BY <1>3, <1>5, <2>1, <2>2, <2>3
<1>16. CASE StopEnds(h)
  <2>1. /\ SetState(h, "Stopped") /\ app[h].state = "Stopping" /\ net' = net \ {C} /\ UNCHANGED <<box, left>>
    BY <1>16 DEF StopEnds, C
  <2>2. box[C] = "absent" /\ \A c \in Containers \ {C} : Alone(c)
    BY <1>2, <1>3, <2>1 DEF Alone, Own, C
  <2>3. Own(h)'
    BY <1>3, <1>4, <2>1 DEF Own, Building
  <2>. QED
    BY <1>3, <1>5, <2>1, <2>2, <2>3
<1>. QED
  BY <1>6, <1>8, <1>9, <1>10, <1>11, <1>13, <1>14, <1>15, <1>16 DEF Controller
\* What only removes a container that nothing is said of.
LEMMA ExitAccounted ==
  ASSUME Typed, RequestsInOrder, Indexed, Accounted, NEW c \in Containers, Exit(c)
  PROVE  Accounted'
<1>1. /\ box[c] = "running" /\ box'[c] = "absent" /\ \A d \in Containers \ {c} : box'[d] = box[d]
      /\ net' = net /\ claims' = claims /\ left' = left
      /\ app' = app /\ phase' = phase /\ pc' = pc /\ held' = held
  BY DEF Exit, Reaps, process, memory, client
<1>2. Taken' = Taken
  BY <1>1 DEF Taken
<1>3. Endpoints'
  BY <1>1, <1>2 DEF Accounted, Endpoints
<1>4. ASSUME NEW h \in Handles, app'[h] # None
      PROVE  Shape(h)'
  <2>1. /\ Shape(h) /\ app[h] # None /\ Current(h)' = Current(h) /\ Opposite(h)' = Opposite(h)
        /\ Current(h) \in Containers /\ (Building(h)' <=> Building(h))
    BY <1>1, <1>4, Containing DEF Accounted, Current, Opposite, Building
  <2>2. box'[Current(h)] \in {"absent", box[Current(h)]} /\ (box[Current(h)] # "running" => box'[Current(h)] = box[Current(h)])
    BY <1>1, <2>1
  <2>3. Own(h)'
    BY <1>1, <1>2, <2>1, <2>2 DEF Shape, Own
  <2>. QED
    BY <1>1, <1>2, <2>1, <2>3 DEF Shape
<1>5. ASSUME NEW a \in Operators
      PROVE  AtWork(a)'
  <2>1. AtWork(a) /\ Opposite(held[a])' = Opposite(held[a])
    BY <1>1 DEF Accounted, Opposite
  <2>2. pc[a] \in ApplyPcs => Opposite(held[a]) \in Containers
    BY Holding, Containing
  <2>3. pc[a] \in ApplyPcs =>
          box'[Opposite(held[a])] = box[Opposite(held[a])]
            \/ box'[Opposite(held[a])] = "absent"
    BY <1>1, <2>2
  <2>. QED
    BY <1>1, <1>2, <2>1, <2>3 DEF AtWork, ApplyPcs
<1>. QED
  BY <1>3, <1>4, <1>5 DEF Accounted

\* Until the process serves no request is at work.
LEMMA BootIdle ==
  ASSUME Typed, RequestsInOrder, phase \notin {"up", "stopping"}
  PROVE  \A a \in Operators : pc[a] = "idle" /\ held[a] = Nobody
BY DEF RequestsInOrder, InOrder

\* What touches no app, no container and no request.
LEMMA SameHost ==
  ASSUME Accounted, UNCHANGED <<app, box, net, left, claims, pc, held>>,
         phase' # "reattach" => claims = {}, phase' # "down" => phase # "down"
  PROVE  Accounted'
<1>1. /\ Taken' = Taken
      /\ \A h \in Handles : /\ Current(h)' = Current(h) /\ Opposite(h)' = Opposite(h)
                            /\ Building(h)' <=> Building(h)
      /\ \A a \in Operators : Opposite(held[a])' = Opposite(held[a])
  BY DEF Taken, Current, Opposite, Building
<1>2. Endpoints'
  BY <1>1 DEF Accounted, Endpoints
<1>3. ASSUME NEW h \in Handles, app'[h] # None
      PROVE  Shape(h)'
  <2>1. Shape(h)
    BY <1>3 DEF Accounted
  <2>2. Own(h)'
    BY <1>1, <2>1 DEF Shape, Own
  <2>. QED
    BY <1>1, <2>1, <2>2 DEF Shape
<1>4. \A a \in Operators : AtWork(a)'
  BY <1>1 DEF Accounted, AtWork
<1>. QED
  BY <1>2, <1>3, <1>4 DEF Accounted

\* During the boot an app that is not claimed yet has nothing.
LEMMA ReattachAccounted ==
  ASSUME OwnApps, Typed, RequestsInOrder, Indexed, Accounted, Booting, NEW h \in Handles, Reattach(h)
  PROVE  Accounted' /\ Booting'
<1>1. /\ phase = "reattach" /\ phase' = phase /\ h \in todo /\ todo' = todo \ {h}
      /\ h \in Registered /\ app[h] # None /\ app[h].state = "Stopped"
      /\ by_name' = by_name /\ pc' = pc /\ held' = held
  BY DEF Reattach, Booting, Registered, client
<1>2. \A a \in Operators : pc[a] = "idle" /\ held[a] = Nobody
  BY <1>1, BootIdle
<1>3. Current(h) \notin Taken /\ Opposite(h) \notin Taken
  BY <1>1, <1>2 DEF Accounted, Shape, Own
<1>4. \A s \in Slots : <<app[h].name, s>> \in Containers /\ <<app[h].name, s>> \notin Taken
  BY <1>1, <1>3, Containing
<1>5. /\ \A c \in Containers : c = <<c[1], c[2]>> /\ c[2] \in Slots
      /\ box \in [Containers -> {"absent", "created", "running", "paused"}] /\ net \subseteq Containers
      /\ claims \subseteq net /\ (\A c \in Containers : box[c] # "absent" => c \in net \cup left)
  BY DEF Containers, Typed, Accounted, Endpoints
<1>. DEFINE Off(c) == c[1] # app[h].name
            Quiet(c) == box'[c] \notin {"running", "paused"}
<1>6. /\ \A c \in Containers : Off(c) => Alone(c)
      /\ \A g \in Handles \ {h} : app'[g] = app[g]
      /\ app'[h] # None /\ app'[h].name = app[h].name
      /\ app'[h].state \in {"Stopped", "Running", "Frozen"}
      /\ claims' \subseteq claims /\ claims' \subseteq net' /\ net' \subseteq net
      /\ \A c \in Containers : box'[c] # "absent" => c \in net' \cup left'
      /\ Shape(h)'
      /\ \A s \in Slots : <<app[h].name, s>> \in claims' => Quiet(<<app[h].name, s>>)
      /\ \A c \in Containers : box'[c] \in {"absent", box[c]}
  <2>1. ASSUME app' = app, \A s \in Slots : <<app[h].name, s>> \notin Taken'
        PROVE  Shape(h)'
    <3>1. Current(h)' \notin Taken' /\ Opposite(h)' \notin Taken'
      BY <1>1, <2>1, Containing DEF Current, Opposite, Typed, Apps, Other, Slots
    <3>2. app'[h].state = "Stopped"
      BY <1>1, <2>1
    <3>. QED
      BY <3>1, <3>2 DEF Shape, Own, Building
  <2>2. CASE ReattachNone(h)
    <3>1. app' = app /\ box' = box /\ net' = net /\ claims' = claims /\ left' = left
      BY <2>2 DEF ReattachNone, host
    <3>2. \A s \in Slots : box[<<app[h].name, s>>] \notin {"running", "paused"}
      BY <2>2 DEF ReattachNone, Live
    <3>3. Taken' = Taken
      BY <3>1 DEF Taken
    <3>4. Shape(h)'
      BY <1>4, <2>1, <3>1, <3>3
    <3>. QED
      BY <1>1, <1>5, <3>1, <3>2, <3>4 DEF Alone
  <2>3. CASE ReattachOne(h)
    <3>1. PICK s \in Slots :
            LET c == <<app[h].name, s>>
            IN  /\ Live(h) = {s}
                /\ c \in claims
                /\ claims' = claims \ {c}
                /\ app' = [app EXCEPT ![h].slot = s,
                     ![h].state = IF box[c] = "paused" THEN "Frozen" ELSE "Running"]
                /\ left' = left \ {c}
                /\ UNCHANGED <<box, runs, net>>
      BY <2>3 DEF ReattachOne
    <3>. DEFINE c == <<app[h].name, s>>
                u == IF box[c] = "paused" THEN "Frozen" ELSE "Running"
    <3>2. /\ box' = box /\ net' = net /\ c \in net /\ c \in Containers
          /\ claims' = claims \ {c} /\ left' = left \ {c}
      BY <1>4, <1>5, <3>1
    <3>. DEFINE r == [app[h] EXCEPT !.slot = s, !.state = u]
    <3>3. app' = [app EXCEPT ![h] = r] /\ app[h] \in Apps /\ app \in [Handles -> Apps \cup {None}]
      BY <1>1, <3>1 DEF Typed
    <3>3a. u \in {"Running", "Frozen"} /\ u \in AppStates
      BY DEF AppStates
    <3>3b. r \in Apps /\ r.state = u /\ r.slot = s /\ r.name = app[h].name
      <4>. HIDE DEF u
      <4>. QED
        BY <3>3, <3>3a DEF Apps
    <3>4. /\ app'[h] \in Apps /\ app'[h] # None /\ app'[h].state = u /\ app'[h].slot = s
          /\ app'[h].name = app[h].name
          /\ \A g \in Handles \ {h} : app'[g] = app[g]
      <4>. HIDE DEF r
      <4>. QED
        BY <3>3, <3>3b, NoneAssumption
    <3>5. /\ \A o \in Slots \ {s} : box[<<app[h].name, o>>] \notin {"running", "paused"}
          /\ box[c] \in {"running", "paused"}
      BY <3>1 DEF Live
    <3>6. Current(h)' = c /\ Opposite(h)' = <<app[h].name, Other(s)>> /\ Other(s) \in Slots \ {s}
      BY <3>4 DEF Current, Opposite, Other, Slots
    <3>7. c \in Taken' /\ Opposite(h)' \notin Taken'
      BY <1>4, <3>2, <3>6 DEF Taken
    <3>8. Shape(h)'
      BY <3>2, <3>4, <3>5, <3>6, <3>7 DEF Shape, Own, Building
    <3>9. \A o \in Slots : <<app[h].name, o>> \in claims' => Quiet(<<app[h].name, o>>)
      BY <3>2, <3>5
    <3>10. \A d \in Containers : Off(d) => Alone(d)
      BY <3>2 DEF Alone
    <3>11. \A d \in Containers : box'[d] # "absent" => d \in net' \cup left'
      BY <1>5, <3>2
    <3>. QED
      BY <1>5, <3>2, <3>4, <3>8, <3>9, <3>10, <3>11
  <2>4. CASE ReattachFails(h)
    <3>1. PICK s \in Slots :
            LET c == <<app[h].name, s>>
            IN  /\ Live(h) = {s}
                /\ claims' = claims \ {c}
                /\ left' = left \cup {c}
                /\ UNCHANGED <<app, box, runs, net>>
      BY <2>4 DEF ReattachFails
    <3>2. \A r \in Slots \ {s} : box[<<app[h].name, r>>] \notin {"running", "paused"}
      BY <3>1 DEF Live
    <3>3. \A r \in Slots : <<app[h].name, r>> \notin Taken'
      BY <1>4, <3>1 DEF Taken
    <3>4. Shape(h)'
      BY <2>1, <3>1, <3>3
    <3>5. \A c \in Containers : Off(c) => Alone(c)
      BY <3>1 DEF Alone
    <3>6. \A c \in Containers : box'[c] # "absent" => c \in net' \cup left'
      BY <1>5, <3>1
    <3>7. \A r \in Slots : <<app[h].name, r>> \in claims' => Quiet(<<app[h].name, r>>)
      BY <3>1, <3>2
    <3>. QED
      BY <1>1, <1>5, <3>1, <3>4, <3>5, <3>6, <3>7
  <2>5. CASE PurgeBoth(h)
    <3>. DEFINE both == {<<app[h].name, s>> : s \in Slots}
    <3>1. /\ Reaps(both) /\ net' = net \ (both \cap claims) /\ left' = left \ (both \cap claims)
          /\ claims' = claims \ both /\ app' = app
      BY <2>5 DEF PurgeBoth
    <3>2. \A c \in Containers : box'[c] = IF c \in both THEN "absent" ELSE box[c]
      BY <3>1 DEF Reaps
    <3>3. \A s \in Slots : <<app[h].name, s>> \notin Taken'
      BY <1>4, <3>1 DEF Taken
    <3>4. Shape(h)'
      BY <2>1, <3>1, <3>3
    <3>5. \A c \in Containers : box'[c] # "absent" => c \in net' \cup left'
      BY <1>5, <3>1, <3>2
    <3>6. \A c \in Containers : Off(c) => Alone(c)
      BY <3>1, <3>2 DEF Alone
    <3>7. \A s \in Slots : <<app[h].name, s>> \in claims' => Quiet(<<app[h].name, s>>)
      BY <3>1
    <3>. QED
      BY <1>1, <1>5, <3>1, <3>2, <3>4, <3>5, <3>6, <3>7
  <2>. QED
    BY <2>2, <2>3, <2>4, <2>5 DEF Reattach
<1>. HIDE DEF Off
<1>7. \A g \in Handles \ {h} : app[g] # None => app[g].name # app[h].name
  BY <1>1, OneHandle
<1>8. Endpoints'
  <2>1. \A k \in Handles : app[k] # None => app'[k] # None /\ app'[k].name = app[k].name
    BY <1>6
  <2>2. ASSUME NEW c \in Taken'
        PROVE  \E k \in Handles : app'[k] # None /\ app'[k].name = c[1]
    <3>1. c \in Containers
      BY <1>5, <1>6, <2>2 DEF Taken
    <3>2. CASE Off(c)
      <4>1. c \in Taken
        BY <1>6, <2>2, <3>1, <3>2 DEF Taken, Alone
      <4>2. PICK k \in Handles : app[k] # None /\ app[k].name = c[1]
        BY <1>1, <4>1 DEF Accounted, Endpoints
      <4>. QED
        BY <2>1, <4>2
    <3>3. CASE ~Off(c)
      BY <1>6, <3>3 DEF Off
    <3>. QED
      BY <3>2, <3>3
  <2>. QED
    BY <1>1, <1>6, <2>2 DEF Endpoints
<1>9. ASSUME NEW g \in Handles, app'[g] # None
      PROVE  Shape(g)'
  <2>1. CASE g = h
    BY <1>6, <2>1
  <2>2. CASE g # h
    <3>1. app[g] # None /\ app'[g] = app[g] /\ Shape(g) /\ app[g].name # app[h].name
      BY <1>6, <1>7, <1>9, <2>2 DEF Accounted
    <3>2. \A s \in Slots : Alone(<<app[g].name, s>>)
      <4>1. \A s \in Slots : <<app[g].name, s>> \in Containers /\ Off(<<app[g].name, s>>)
        BY <3>1, Containing DEF Off
      <4>. QED
        BY <1>6, <4>1
    <3>. QED
      BY <1>1, <1>9, <3>1, <3>2, ShapeStays
  <2>. QED
    BY <2>1, <2>2
<1>10. \A a \in Operators : AtWork(a)'
  BY <1>1, <1>2 DEF AtWork
<1>11. Booting'
  <2>1. Registered' = Registered
    BY <1>1, <1>6 DEF Registered
  <2>2. todo' \subseteq Registered'
    BY <1>1, <2>1 DEF Booting
  <2>3. ASSUME NEW g \in Handles, app'[g] # None
        PROVE  /\ app'[g].state \in {"Stopped", "Running", "Frozen"}
               /\ g \in todo' => app'[g].state = "Stopped"
               /\ g \notin todo' => \A s \in Slots :
                    <<app'[g].name, s>> \in claims' => Quiet(<<app'[g].name, s>>)
    <3>1. CASE g = h
      BY <1>1, <1>6, <3>1
    <3>2. CASE g # h
      <4>1. app[g] # None /\ app'[g] = app[g]
        BY <1>6, <2>3, <3>2
      <4>2. \A s \in Slots : <<app[g].name, s>> \in Containers
        BY <4>1, Containing
      <4>3. \A s \in Slots : <<app[g].name, s>> \in claims' =>
              <<app[g].name, s>> \in claims /\ box'[<<app[g].name, s>>] \in {"absent", box[<<app[g].name, s>>]}
        BY <1>6, <4>2
      <4>. QED
        BY <1>1, <3>2, <4>1, <4>3 DEF Booting
    <3>. QED
      BY <3>1, <3>2
  <2>. QED
    BY <1>1, <2>2, <2>3 DEF Booting
<1>. QED
  BY <1>8, <1>9, <1>10, <1>11 DEF Accounted
LEMMA OrphanAccounted ==
  ASSUME OwnApps, Typed, RequestsInOrder, Indexed, Accounted, Booting, NEW c \in Containers, CleanupOrphan(c)
  PROVE  Accounted' /\ Booting'
<1>1. /\ phase = "reattach" /\ phase' = phase /\ todo = {} /\ todo' = todo
      /\ c \in claims /\ claims' = claims \ {c} /\ net' = net \ {c} /\ left' = left \ {c}
      /\ app' = app /\ by_name' = by_name /\ pc' = pc /\ held' = held
      /\ \A d \in Containers : box'[d] = IF d = c THEN "absent" ELSE box[d]
  BY DEF CleanupOrphan, Reaps, memory, client
<1>2. \A a \in Operators : pc[a] = "idle" /\ held[a] = Nobody
  BY <1>1, BootIdle
<1>3. Taken' = Taken /\ c \notin Taken
  BY <1>1 DEF Taken
<1>4. Endpoints'
  BY <1>1, <1>3 DEF Accounted, Endpoints
<1>5. ASSUME NEW h \in Handles, app'[h] # None
      PROVE  Shape(h)'
  <2>1. /\ Shape(h) /\ app[h] # None /\ Current(h)' = Current(h) /\ Opposite(h)' = Opposite(h)
        /\ Current(h) \in Containers /\ app[h] \in Apps /\ app[h].state \in {"Stopped", "Running", "Frozen"}
    BY <1>1, <1>5, Containing DEF Accounted, Current, Opposite, Booting
  <2>2. app[h].state # "Stopped" => box'[Current(h)] = box[Current(h)]
    BY <1>1, <1>3, <2>1 DEF Shape, Own, Building
  <2>3. Own(h)'
    BY <1>1, <1>3, <2>1, <2>2 DEF Shape, Own, Building
  <2>. QED
    BY <1>1, <1>3, <2>1, <2>3 DEF Shape
<1>6. \A a \in Operators : AtWork(a)'
  BY <1>1, <1>2 DEF AtWork
<1>7. Booting'
  <2>1. Registered' = Registered
    BY <1>1 DEF Registered
  <2>2. \A h \in Handles, s \in Slots : app[h] # None => <<app[h].name, s>> \in Containers
    BY Containing
  <2>. QED
    BY <1>1, <2>1, <2>2 DEF Booting
<1>. QED
  BY <1>4, <1>5, <1>6, <1>7 DEF Accounted

LEMMA TeardownAccounted ==
  ASSUME OwnApps, Typed, RequestsInOrder, Indexed, Accounted, NEW h \in Handles, Teardown(h)
  PROVE  Accounted'
<1>. USE DEF AppStates
<1>1. /\ phase = "stopping" /\ phase' = phase /\ claims = {} /\ claims' = {}
      /\ UNCHANGED <<pc, held>> /\ Typed
  BY DEF Teardown, Accounted, Endpoints, client
<1>2. CASE app[h] # None /\ app[h].state = "Running"
  <2>1. Current(h) \in Containers /\ net \subseteq Containers /\ Taken' = net' \ left'
    BY <1>1, <1>2, Containing DEF Taken, Typed
  <2>2. SetState(h, "Stopped") /\ Reaps({Current(h)}) /\ net' = net \ {Current(h)} /\ left' = left
    BY <1>2 DEF Teardown
  <2>3. /\ app'[h] # None /\ app'[h].state = "Stopped" /\ app'[h].slot = app[h].slot /\ app'[h].name = app[h].name
        /\ \A g \in Handles \ {h} : app'[g] = app[g]
    BY <1>1, <1>2, <2>2, Setting, NoneAssumption DEF SameApps
  <2>4. box'[Current(h)] = "absent" /\ \A c \in Containers \ {Current(h)} : Alone(c)
    BY <1>1, <2>1, <2>2 DEF Reaps, Alone
  <2>5. Current(h)' = Current(h)
    BY <2>3 DEF Current
  <2>6. Own(h)'
    BY <2>1, <2>2, <2>3, <2>5 DEF Own, Building
  <2>. QED
    BY <1>1, <1>2, <2>1, <2>2, <2>3, <2>4, <2>6, StateSteps
<1>3. CASE ~(app[h] # None /\ app[h].state = "Running")
  <2>1. app' = app /\ box' = box /\ net' = net /\ left' = left
    BY <1>3 DEF Teardown, host
  <2>. QED
    BY <1>1, <2>1, SameHost
<1>. QED
  BY <1>2, <1>3

LEMMA EagerAccounted ==
  ASSUME OwnApps, Typed, RequestsInOrder, Indexed, Accounted, Booting, NEW h \in Handles, Eager(h)
  PROVE  Accounted'
<1>1. /\ phase = "eager" /\ phase' = phase /\ claims = {} /\ claims' = {} /\ h \in Registered /\ app[h] # None
      /\ UNCHANGED <<pc, held>>
  BY DEF Eager, Accounted, Endpoints, client, Booting, Registered
<1>2. CASE StartBegins(h) \/ ThawBegins(h)
  BY <1>1, <1>2, StartBeginsAccounted
<1>3. CASE UNCHANGED <<app, host>>
  BY <1>1, <1>3, SameHost DEF host
<1>. QED
  BY <1>2, <1>3 DEF Eager

LEMMA TurnsAccounted ==
  ASSUME OwnApps, Typed, RequestsInOrder, Indexed, Accounted, Booting, Turns
  PROVE  Accounted' /\ Booting'
<1>1. CASE Interrupt \/ EagerBegins \/ EagerEnds
  <2>1. /\ app' = app /\ box' = box /\ net' = net /\ left' = left /\ claims' = claims /\ pc' = pc /\ held' = held
        /\ phase # "down" /\ phase' \notin {"down", "reattach"} /\ (phase = "reattach" => claims = {})
        /\ by_name' = by_name
    BY <1>1 DEF Interrupt, EagerBegins, EagerEnds, memory, host, client
  <2>2. Accounted'
    BY <2>1, SameHost DEF Accounted, Endpoints
  <2>3. phase' = "eager" => todo' \subseteq Registered
    BY <1>1 DEF Interrupt, EagerBegins, EagerEnds
  <2>4. Registered' = Registered
    BY <2>1 DEF Registered
  <2>. QED
    BY <2>1, <2>2, <2>3, <2>4 DEF Booting
<1>2. ASSUME NEW h \in Handles, Teardown(h)
      PROVE  Accounted' /\ Booting'
  BY <1>2, TeardownAccounted DEF Teardown, Booting
<1>3. ASSUME NEW h \in Handles, Eager(h)
      PROVE  Accounted' /\ Booting'
  <2>1. Registered' = Registered
    BY <1>3, TurnsFrame DEF Turns, Steady, SameApps, Registered
  <2>2. todo' \subseteq todo /\ phase = "eager" /\ phase' = phase
    BY <1>3 DEF Eager
  <2>. QED
    BY <1>3, <2>1, <2>2, EagerAccounted DEF Booting
<1>. QED
  BY <1>1, <1>2, <1>3, ReattachAccounted, OrphanAccounted DEF Turns
\* A request that changes nothing on the host, nor the state of an app.
LEMMA QuietSteps ==
  ASSUME OwnApps, Typed, RequestsInOrder, Indexed, Accounted,
         UNCHANGED <<phase, claims, box, net, left>>,
         \A k \in Handles :
           /\ app'[k] = None <=> app[k] = None
           /\ app[k] # None => /\ app'[k].name = app[k].name /\ app'[k].state = app[k].state
                               /\ app'[k].slot = app[k].slot /\ app'[k].boots = app[k].boots,
         NEW a \in Operators, pc[a] \notin {"build", "switch", "drain", "release"}, AtWork(a)',
         \A b \in Operators \ {a} : pc'[b] = pc[b] /\ held'[b] = held[b]
  PROVE  Accounted'
<1>1. Taken' = Taken /\ \A c : Alone(c)
  BY DEF Taken, Alone
<1>2. Endpoints'
  BY <1>1 DEF Accounted, Endpoints
<1>3. ASSUME NEW g \in Handles, app'[g] # None
      PROVE  Shape(g)'
  <2>1. app[g] # None /\ Shape(g)
    BY <1>3 DEF Accounted
  <2>2. \A b \in Operators : held[b] = g /\ pc[b] \in {"build", "switch", "drain", "release"} =>
          held'[b] = held[b] /\ pc'[b] = pc[b]
    OBVIOUS
  <2>. QED
    BY <1>1, <1>3, <2>1, <2>2, ShapeStays
<1>4. ASSUME NEW b \in Operators \ {a}
      PROVE  AtWork(b)'
  <2>1. pc[b] \in ApplyPcs \cup RemovePcs => held[b] \in Handles /\ app[held[b]] # None
    BY Holding
  <2>2. AtWork(b) /\ pc'[b] = pc[b] /\ held'[b] = held[b]
    BY DEF Accounted
  <2>. QED
    BY <1>1, <2>1, <2>2, WorkStays DEF ApplyPcs, RemovePcs
<1>. QED
  BY <1>2, <1>3, <1>4 DEF Accounted

\* A request that does, at the app it holds.
LEMMA AtHeld ==
  ASSUME OwnApps, Typed, RequestsInOrder, Indexed, Accounted, NEW a \in Operators, HandlerScope(a),
         claims' = claims, net' \subseteq Containers,
         held[a] \in Handles, app[held[a]] # None, app'[held[a]] # None,
         \A g \in Handles \ {held[a]} : app'[g] = app[g],
         box'[Current(held[a])] # "absent" => Current(held[a]) \in net' \cup left',
         box'[Opposite(held[a])] # "absent" => Opposite(held[a]) \in net' \cup left',
         NEW h \in Handles, h = held[a], Shape(h)', AtWork(a)'
  PROVE  Accounted'
<1>1. /\ phase # "down" /\ phase # "reattach" /\ app'[h].name = app[h].name
      /\ \A b \in Operators \ {a} : pc'[b] = pc[b] /\ held'[b] = held[b]
  BY DEF HandlerScope
<1>2. claims = {} /\ claims' = {}
  BY <1>1 DEF Accounted, Endpoints
<1>3. app[h].name = req[a].name
  <2>1. pc[a] \in UpdatePcs \cup RolloutPcs \cup ApplyPcs \cup RemovePcs
    BY NobodyAssumption DEF RequestsInOrder, InOrder, Typed, Pcs
  <2>. QED
    BY <2>1, Holding
<1>3a. \A c \in Containers : c[1] # app[h].name => Alone(c)
  BY <1>2, <1>3 DEF HandlerScope, Alone
<1>4. ASSUME NEW b \in Operators, held[b] \notin Handles \ {h}
      PROVE  AtWork(b)'
  <2>1. CASE b = a
    BY <2>1
  <2>2. CASE b # a
    <3>1. held[b] \notin Handles
      BY <1>4, <2>2, OneHolder
    <3>2. pc[b] \notin UpdatePcs \cup RolloutPcs \cup ApplyPcs \cup RemovePcs
      BY <3>1, Holding
    <3>. QED
      BY <1>1, <2>2, <3>2 DEF AtWork, ApplyPcs, RemovePcs
  <2>. QED
    BY <2>1, <2>2
<1>5. \A b \in Operators : held[b] \in Handles \ {h} => pc'[b] = pc[b] /\ held'[b] = held[b]
  BY <1>1
<1>. QED
  BY <1>1, <1>2, <1>3a, <1>4, <1>5, AtApp
\* The handlers that change the state of an app or the host.
LEMMA ActiveAccounted ==
  ASSUME OwnApps, Typed, RequestsInOrder, Indexed, Accounted, NEW a \in Operators, HandlerScope(a), Handler(a),
         NEW h \in Handles, h = held[a],
         \/ ApplyCold(a) \/ ApplyBlueGreen(a) \/ Build(a) \/ RollBack(a) \/ SwitchOver(a) \/ Drained(a)
         \/ Released(a) \/ RemoveStop(a)
  PROVE  Accounted'
<1>. USE DEF AppStates
<1>1. /\ phase \in {"up", "stopping"} /\ phase' = phase /\ claims = {} /\ claims' = {} /\ claims' = claims /\ Typed
      /\ app \in [Handles -> Apps \cup {None}] /\ pc \in [Operators -> Pcs]
      /\ box \in [Containers -> {"absent", "created", "running", "paused"}] /\ net \subseteq Containers
      /\ \A b \in Operators \ {a} : pc'[b] = pc[b] /\ held'[b] = held[b]
      /\ net' \subseteq Containers
      /\ Taken = net \ left /\ Taken' = net' \ left'
      /\ \A c \in Containers : box[c] # "absent" => c \in net \cup left
      /\ pc'[a] # "idle" => held'[a] = h
  BY HandlerTyped DEF HandlerScope, Accounted, Endpoints, process, HostTyped, Taken, Typed
<1>2. \A s : Goto(a, s) => pc'[a] = s
  BY <1>1 DEF Goto
<1>3. \A t : Return(a, t) => pc'[a] = "idle"
  BY <1>1 DEF Return, Goto
<1>4. pc[a] \in ApplyPcs \cup RemovePcs
  BY DEF ApplyCold, ApplyBlueGreen, Build, RollBack, SwitchOver, Drained, Released, RemoveStop, ApplyPcs, RemovePcs
<1>. DEFINE C == Current(h)
            O == Opposite(h)
<1>5. /\ app[h] # None /\ app[h] \in Apps /\ C \in Containers /\ O \in Containers /\ C # O
      /\ Shape(h) /\ Own(h) /\ AtWork(a) /\ \A b \in Operators : held[b] = h => b = a
      /\ box[C] # "absent" => C \in net \cup left
      /\ box[O] # "absent" => O \in net \cup left
  BY <1>1, <1>4, Holding, Containing, OneHolder DEF Accounted, Shape
<1>6. ASSUME NEW s \in AppStates, SetState(h, s) \/ SetBuild(h, s)
      PROVE  /\ app'[h] # None /\ app'[h].state = s
             /\ \A g \in Handles \ {h} : app'[g] = app[g]
             /\ Current(h)' = C /\ Opposite(h)' = O
  <2>1. /\ app'[h] # None /\ app'[h].state = s
        /\ \A g \in Handles \ {h} : app'[g] = app[g]
        /\ app'[h].slot = app[h].slot /\ app'[h].name = app[h].name
    <3>1. CASE SetState(h, s)
      BY <1>1, <1>5, <3>1, Setting, NoneAssumption DEF SameApps
    <3>2. CASE SetBuild(h, s)
      BY <1>1, <1>5, <3>2, SettingBuild, NoneAssumption DEF SameApps
    <3>. QED
      BY <1>6, <3>1, <3>2
  <2>. QED
    BY <2>1 DEF Current, Opposite
<1>6a. ASSUME NEW s \in AppStates, SetBuild(h, s)
       PROVE  app'[h].boots = app[h].conf /\ app[h].conf \in Confs /\ app[h].conf # None
  BY <1>1, <1>5, <1>6a, SettingBuild DEF SameApps
<1>6b. ASSUME NEW s \in AppStates, SetState(h, s)
       PROVE  app'[h].boots = None
  BY <1>1, <1>5, <1>6b, Setting
<1>7. app' = app => Current(h)' = C /\ Opposite(h)' = O /\ (Building(h)' <=> Building(h))
  BY DEF Current, Opposite, Building
<1>8. O \in net \ left => pc[a] \in {"build", "switch", "drain", "release"}
  BY <1>1, <1>5 DEF Shape
<1>9. app[h].state = "RollingOver" => pc[a] \in {"build", "switch"}
  BY <1>5 DEF Shape
<1>10. ASSUME app'[h] # None, \A g \in Handles \ {h} : app'[g] = app[g],
              box'[C] # "absent" => C \in net' \cup left', box'[O] # "absent" => O \in net' \cup left',
              Shape(h)', AtWork(a)'
       PROVE  Accounted'
  BY <1>1, <1>5, <1>10, AtHeld
<1>. HIDE DEF C, O
<1>11. CASE ApplyCold(a)
  <2>1. /\ pc[a] = "apply" /\ pc'[a] = "await"
        /\ app[h].state = "Stopped" /\ SetBuild(h, "Starting")
        /\ Allocates(C, app[h].conf) /\ box' = box /\ left' = left
    BY <1>2, <1>11 DEF ApplyCold, StartBegins, C
  <2>2. C \notin net \ left /\ O \notin net \ left
    BY <1>1, <1>5, <1>8, <2>1 DEF Own, C
  <2>3. /\ app[h].conf \in Unparsed => net' = net
        /\ app[h].conf \notin Unparsed => C \in net' /\ net' = net \cup {C}
    BY <2>1 DEF Allocates
  <2>4. O \notin net' \ left' /\ net \subseteq net'
    BY <1>5, <2>1, <2>2, <2>3
  <2>5. Own(h)'
    BY <1>1, <1>5, <1>6, <1>6a, <2>1, <2>2, <2>3 DEF Own, Building
  <2>6. Shape(h)'
    BY <1>1, <1>6, <2>1, <2>4, <2>5 DEF Shape
  <2>7. AtWork(a)'
    BY <2>1 DEF AtWork
  <2>. QED
    BY <1>5, <1>6, <1>10, <2>1, <2>4, <2>6, <2>7
<1>12. CASE ApplyBlueGreen(a)
  <2>1. /\ pc[a] = "apply" /\ pc'[a] = "build" /\ app[h].state \in {"Running", "Frozen"}
        /\ SetBuild(h, "RollingOver") /\ Allocates(O, app[h].conf) /\ left' = left
        /\ box' = [box EXCEPT ![C] = IF @ = "paused" THEN "running" ELSE @]
    BY <1>2, <1>12 DEF ApplyBlueGreen, C, O
  <2>2. C \in net \ left /\ O \notin net \ left /\ box[C] \in {"absent", "running", "paused"}
    BY <1>1, <1>5, <1>8, <2>1 DEF Own, Building, C
  <2>3. box'[C] \in {"absent", "running"} /\ box'[O] = box[O] /\ (box[O] # "absent" => O \in left)
    BY <1>1, <1>5, <2>1, <2>2
  <2>4. /\ app[h].conf \in Unparsed => net' = net
        /\ app[h].conf \notin Unparsed => O \in net'
        /\ net \subseteq net'
    BY <2>1 DEF Allocates
  <2>5. Own(h)'
    BY <1>1, <1>6, <1>6a, <2>1, <2>2, <2>3, <2>4 DEF Own, Building
  <2>6. Shape(h)'
    BY <1>1, <1>6, <2>1, <2>5 DEF Shape
  <2>7. AtWork(a)'
    BY <1>1, <1>5, <1>6, <1>6a, <2>1, <2>2, <2>3, <2>4 DEF AtWork
  <2>. QED
    BY <1>5, <1>6, <1>10, <2>1, <2>2, <2>3, <2>4, <2>6, <2>7
<1>13. CASE Build(a)
  <2>1. /\ pc[a] = "build" /\ pc'[a] = "switch" /\ app' = app /\ net' = net
        /\ box' = [box EXCEPT ![O] = "running"] /\ left' = left \ {O}
        /\ app[h].boots \notin Unparsed
    BY <1>2, <1>13 DEF Build, Boots, CanLaunch, memory, O
  <2>2. box'[O] = "running" /\ box'[C] = box[C] /\ app[h].state = "RollingOver" /\ O \in net
    BY <1>1, <1>5, <2>1 DEF AtWork, O
  <2>3. C \in net \ left /\ box[C] \in {"absent", "running"}
    BY <1>1, <1>5, <2>2 DEF Own, Building, C
  <2>4. Own(h)'
    BY <1>1, <1>5, <1>7, <2>1, <2>2, <2>3 DEF Own, Building
  <2>5. Shape(h)'
    BY <1>1, <1>7, <2>1, <2>4 DEF Shape
  <2>6. AtWork(a)'
    BY <1>1, <1>7, <2>1, <2>2 DEF AtWork
  <2>. QED
    BY <1>5, <1>10, <2>1, <2>2, <2>3, <2>5, <2>6
<1>14. CASE RollBack(a)
  <2>1. /\ pc[a] = "build" /\ pc'[a] = "idle" /\ SetState(h, "Running") /\ left' = left
        /\ Releases(O, app[h].boots) /\ Reaps({O})
    BY <1>3, <1>14 DEF RollBack, O
  <2>2. /\ app[h].state = "RollingOver" /\ app[h].boots \in Confs
        /\ app[h].boots \in Unparsed => O \notin net \ left
    BY <1>1, <1>5, <2>1 DEF AtWork, O
  <2>3. C \in net \ left /\ box[C] \in {"absent", "running"}
    BY <1>1, <1>5, <2>2 DEF Own, Building, C
  <2>4. O \notin net' \ left' /\ C \in net' /\ box'[C] = box[C] /\ box'[O] = "absent"
    BY <1>5, <2>1, <2>2, <2>3 DEF Releases, Reaps
  <2>5. Own(h)'
    BY <1>1, <1>6, <1>6b, <2>1, <2>3, <2>4 DEF Own, Building
  <2>6. Shape(h)'
    BY <1>1, <1>6, <2>1, <2>4, <2>5 DEF Shape
  <2>7. AtWork(a)'
    BY <2>1 DEF AtWork
  <2>. QED
    BY <1>6, <1>10, <2>1, <2>4, <2>6, <2>7
<1>15. CASE SwitchOver(a)
  <2>1. /\ pc[a] = "switch" /\ pc'[a] = "drain" /\ net' = net /\ box' = box /\ left' = left
        /\ app' = [app EXCEPT ![h].state = "Running", ![h].slot = Other(@), ![h].boots = None]
    BY <1>2, <1>15 DEF SwitchOver, host
  <2>2. Other(app[h].slot) \in Slots /\ Other(Other(app[h].slot)) = app[h].slot
    BY <1>5 DEF Other, Slots, Apps
  <2>3. /\ app'[h] # None /\ app'[h].state = "Running" /\ app'[h].slot = Other(app[h].slot)
        /\ app'[h].name = app[h].name /\ \A g \in Handles \ {h} : app'[g] = app[g]
    <3>. DEFINE r == [app[h] EXCEPT !.state = "Running", !.slot = Other(app[h].slot), !.boots = None]
    <3>1. app' = [app EXCEPT ![h] = r]
      BY <1>1, <1>5, <2>1 DEF Apps
    <3>2. r \in Apps /\ r.state = "Running" /\ r.slot = Other(app[h].slot) /\ r.name = app[h].name
      BY <1>5, <2>2 DEF Apps
    <3>. HIDE DEF r
    <3>. QED
      BY <1>1, <3>1, <3>2, NoneAssumption
  <2>5. Current(h)' = O /\ Opposite(h)' = C
    BY <2>2, <2>3 DEF Current, Opposite, C, O
  <2>6. app[h].state = "RollingOver" /\ O \in net \ left /\ box[O] \in {"absent", "running"}
    BY <1>1, <1>5, <2>1 DEF AtWork, O
  <2>7. C \in net \ left /\ box[C] \in {"absent", "running"}
    BY <1>1, <1>5, <2>6 DEF Own, Building, C
  <2>8. Own(h)'
    BY <1>1, <2>1, <2>3, <2>5, <2>6 DEF Own, Building
  <2>9. Shape(h)'
    BY <1>1, <2>1, <2>3, <2>8 DEF Shape
  <2>10. AtWork(a)'
    BY <2>1 DEF AtWork
  <2>. QED
    BY <1>10, <2>1, <2>3, <2>6, <2>7, <2>9, <2>10
<1>16. CASE Drained(a)
  <2>1. /\ pc[a] = "drain" /\ pc'[a] = "release" /\ app' = app /\ net' = net /\ left' = left /\ Reaps({O})
    BY <1>2, <1>16 DEF Drained, memory, O
  <2>2. box'[O] = "absent" /\ box'[C] = box[C]
    BY <1>5, <2>1 DEF Reaps, C, O
  <2>3. Own(h)'
    BY <1>1, <1>5, <1>7, <2>1, <2>2 DEF Own, C
  <2>4. Shape(h)'
    BY <1>1, <1>9, <2>1, <2>3 DEF Shape
  <2>5. AtWork(a)'
    BY <1>1, <1>7, <2>1, <2>2 DEF AtWork
  <2>. QED
    BY <1>5, <1>10, <2>1, <2>2, <2>4, <2>5
<1>17. CASE Released(a)
  <2>1. /\ pc[a] = "release" /\ pc'[a] = "idle" /\ app' = app /\ box' = box /\ left' = left /\ net' = net \ {O}
    BY <1>3, <1>17 DEF Released, memory, O
  <2>2. box[O] = "absent" /\ (C \in net' <=> C \in net) /\ O \notin net'
    BY <1>5, <2>1 DEF AtWork, C, O
  <2>3. Own(h)'
    BY <1>1, <1>5, <1>7, <2>1, <2>2 DEF Own, C
  <2>4. Shape(h)'
    BY <1>1, <1>7, <1>9, <2>1, <2>2, <2>3 DEF Shape
  <2>5. AtWork(a)'
    BY <2>1 DEF AtWork
  <2>. QED
    BY <1>5, <1>10, <2>1, <2>2, <2>4, <2>5
<1>18. CASE RemoveStop(a)
  <2>. DEFINE stopped == {<<app[h].name, s>> : s \in LiveSlots(h)}
              known == {<<app[h].name, s>> : s \in req[a].ids}
  <2>1. /\ pc[a] = "stop" /\ pc'[a] = "unlink" /\ SetState(h, "Stopped") /\ left' = left
        /\ Reaps(stopped \cup known) /\ net' = net \ stopped
    BY <1>2, <1>18 DEF RemoveStop
  <2>2. O \notin net \ left
    BY <1>1, <1>8, <2>1
  <2>3. C \notin net' \ left'
    <3>1. CASE app[h].state = "Stopped"
      BY <1>1, <1>5, <2>1, <3>1 DEF Own, C
    <3>2. CASE app[h].state # "Stopped"
      <4>1. app[h].slot \in LiveSlots(h)
        BY <1>5, <3>2 DEF LiveSlots, Apps
      <4>2. C = <<app[h].name, app[h].slot>>
        BY DEF C, Current
      <4>. QED
        BY <2>1, <4>1, <4>2
    <3>. QED
      BY <3>1, <3>2
  <2>4. \A c \in {C, O} : box'[c] # "absent" => c \in net' \cup left'
    <3>. SUFFICES ASSUME NEW c \in {C, O}, box'[c] # "absent"
                  PROVE  c \in net' \cup left'
      OBVIOUS
    <3>1. c \notin stopped /\ box[c] # "absent" /\ c \in Containers
      BY <1>5, <2>1 DEF Reaps
    <3>. QED
      BY <1>1, <2>1, <3>1
  <2>5. Own(h)'
    BY <1>1, <1>6, <2>1, <2>3 DEF Own, Building
  <2>6. Shape(h)'
    BY <1>1, <1>6, <2>1, <2>2, <2>5 DEF Shape
  <2>7. AtWork(a)'
    BY <1>1, <1>6, <2>1 DEF AtWork
  <2>. QED
    BY <1>6, <1>10, <2>1, <2>4, <2>6, <2>7
<1>. QED
  BY <1>11, <1>12, <1>13, <1>14, <1>15, <1>16, <1>17, <1>18

\* A new handle has nothing but what was left of an app of its name.
LEMMA InsertAccounted ==
  ASSUME OwnApps, Typed, RequestsInOrder, Indexed, Accounted, NEW a \in Operators, HandlerScope(a), Handler(a),
         DeployInsert(a)
  PROVE  Accounted'
<1>1. /\ phase \in {"up", "stopping"} /\ phase' = phase /\ claims = {} /\ claims' = {}
      /\ app \in [Handles -> Apps \cup {None}]
      /\ \A b \in Operators \ {a} : pc'[b] = pc[b] /\ held'[b] = held[b]
      /\ box' = box /\ net' = net /\ left' = left /\ net \subseteq Containers
      /\ Taken = net \ left /\ Taken' = Taken /\ \A c : Alone(c)
      /\ held[a] = Nobody /\ pc'[a] = "idle" /\ req[a].name \in Names
  BY DEF HandlerScope, Accounted, Endpoints, Typed, DeployInsert, process, host, Taken, Alone, RequestsInOrder, InOrder,
         DeployPcs, Return, Goto
<1>2. PICK h \in Handles :
        /\ app[h] = None /\ by_name[req[a].name] = Nobody
        /\ app' = [app EXCEPT ![h] = NewHandle(req[a].name, req[a].sub, req[a].conf, None)]
  BY DEF DeployInsert, try_insert, would_collide
<1>3. /\ app'[h].name = req[a].name /\ app'[h].slot = "a" /\ app'[h].state = "Stopped"
      /\ \A g \in Handles \ {h} : app'[g] = app[g]
  BY <1>1, <1>2 DEF NewHandle
<1>4. \A g \in Handles : app[g] # None => app[g].name # req[a].name
  <2>1. SUFFICES ASSUME NEW g \in Handles, app[g] # None, app[g].name = req[a].name
                 PROVE  FALSE
    OBVIOUS
  <2>2. PICK b \in Operators : pc[b] \in RemovePcs /\ held[b] = g
    BY <1>2, <2>1, NobodyAssumption DEF Indexed
  <2>3. req[b].name = req[a].name /\ pc[a] # "idle" /\ pc[b] # "idle"
    BY <2>1, <2>2, Holding DEF HandlerScope, RemovePcs
  <2>. QED
    BY <1>1, <2>2, <2>3, OneEach, NobodyAssumption
<1>5. \A c \in Taken : c[1] # req[a].name
  BY <1>1, <1>4 DEF Accounted, Endpoints
<1>6. \A g \in Handles : app[g] # None => app'[g] = app[g]
  BY <1>2, <1>3
<1>7. Endpoints'
  BY <1>1, <1>6 DEF Accounted, Endpoints
<1>8. Shape(h)'
  <2>1. Current(h)' = <<req[a].name, "a">> /\ Opposite(h)' = <<req[a].name, "b">>
    BY <1>3 DEF Current, Opposite, Other
  <2>2. Current(h)' \notin Taken /\ Opposite(h)' \notin Taken
    BY <1>5, <2>1
  <2>. QED
    BY <1>1, <1>3, <2>2 DEF Shape, Own, Building
<1>9. ASSUME NEW g \in Handles, app'[g] # None
      PROVE  Shape(g)'
  <2>1. CASE g = h
    BY <1>8, <2>1
  <2>2. CASE g # h
    <3>1. app[g] # None /\ app'[g] = app[g] /\ Shape(g)
      BY <1>3, <1>9, <2>2 DEF Accounted
    <3>2. \A b \in Operators : held[b] = g => held'[b] = held[b] /\ pc'[b] = pc[b]
      BY <1>1, NobodyAssumption
    <3>. QED
      BY <1>1, <1>9, <3>1, <3>2, ShapeStays
  <2>. QED
    BY <2>1, <2>2
<1>10. ASSUME NEW b \in Operators
       PROVE  AtWork(b)'
  <2>1. CASE b = a
    BY <1>1, <2>1 DEF AtWork
  <2>2. CASE b # a
    <3>1. pc[b] \in ApplyPcs \cup RemovePcs => held[b] \in Handles /\ app[held[b]] # None
      BY Holding
    <3>2. AtWork(b) /\ pc'[b] = pc[b] /\ held'[b] = held[b]
      BY <1>1, <2>2 DEF Accounted
    <3>. QED
      BY <1>1, <1>6, <3>1, <3>2, WorkStays DEF ApplyPcs, RemovePcs
  <2>. QED
    BY <2>1, <2>2
<1>. QED
  BY <1>7, <1>9, <1>10 DEF Accounted

\* The handle of an app that is removed goes when it has nothing any more.
LEMMA RemovalAccounted ==
  ASSUME OwnApps, Typed, RequestsInOrder, Indexed, Accounted, NEW a \in Operators, HandlerScope(a), Handler(a),
         RemoveRollouts(a)
  PROVE  Accounted'
<1>1. /\ phase \in {"up", "stopping"} /\ phase' = phase /\ claims = {} /\ claims' = {}
      /\ app \in [Handles -> Apps \cup {None}]
      /\ \A b \in Operators \ {a} : pc'[b] = pc[b] /\ held'[b] = held[b]
      /\ box' = box /\ net' = net /\ left' = left /\ net \subseteq Containers
      /\ Taken = net \ left /\ Taken' = Taken /\ \A c : Alone(c)
      /\ pc[a] = "unlink_rollouts" /\ pc'[a] = "idle"
  BY DEF HandlerScope, Accounted, Endpoints, Typed, RemoveRollouts, process, host, Taken, Alone, Return, Goto
<1>2. PICK h \in Handles : h = held[a] /\ app[h] # None /\ app[h].name = req[a].name
  BY <1>1, Holding DEF RemovePcs
<1>3. \A b \in Operators : held[b] = h => b = a
  BY <1>2, OneHolder
<1>4. app'[h] = None /\ \A g \in Handles \ {h} : app'[g] = app[g]
  BY <1>1, <1>2, <1>3 DEF RemoveRollouts
<1>5. app[h].state = "Stopped" /\ Shape(h)
  BY <1>1, <1>2 DEF Accounted, AtWork
<1>6. Current(h) \notin Taken /\ Opposite(h) \notin Taken
  BY <1>1, <1>3, <1>5 DEF Shape, Own
<1>7. \A c \in Taken : c[1] # app[h].name
  <2>1. \A c \in Containers : c = <<c[1], c[2]>> /\ c[2] \in Slots
    BY DEF Containers
  <2>2. \A c \in Containers : c[1] = app[h].name => c \in {Current(h), Opposite(h)}
    BY <1>2, <2>1, Containing
  <2>. QED
    BY <1>1, <1>6, <2>2
<1>8. Endpoints'
  <2>1. \A c \in Taken : \E g \in Handles : app[g] # None /\ app[g].name = c[1]
    BY <1>1 DEF Accounted, Endpoints
  <2>2. \A c \in Taken : \E g \in Handles \ {h} : app[g] # None /\ app[g].name = c[1]
    BY <1>7, <2>1
  <2>. QED
    BY <1>1, <1>4, <2>2 DEF Accounted, Endpoints
<1>9. ASSUME NEW g \in Handles, app'[g] # None
      PROVE  Shape(g)'
  <2>1. g # h /\ app[g] # None /\ app'[g] = app[g] /\ Shape(g)
    BY <1>4, <1>9 DEF Accounted
  <2>2. \A b \in Operators : held[b] = g => held'[b] = held[b] /\ pc'[b] = pc[b]
    BY <1>1, <1>2, <2>1
  <2>. QED
    BY <1>1, <1>9, <2>1, <2>2, ShapeStays
<1>10. ASSUME NEW b \in Operators
       PROVE  AtWork(b)'
  <2>1. CASE b = a
    BY <1>1, <2>1 DEF AtWork
  <2>2. CASE b # a
    <3>1. pc[b] \in ApplyPcs \cup RemovePcs => held[b] \in Handles \ {h} /\ app[held[b]] # None
      BY <1>3, <2>2, Holding
    <3>2. AtWork(b) /\ pc'[b] = pc[b] /\ held'[b] = held[b]
      BY <1>1, <2>2 DEF Accounted
    <3>. QED
      BY <1>1, <1>4, <3>1, <3>2, WorkStays DEF ApplyPcs, RemovePcs
  <2>. QED
    BY <2>1, <2>2
<1>. QED
  BY <1>8, <1>9, <1>10 DEF Accounted

LEMMA HandlerAccounted ==
  ASSUME OwnApps, Typed, RequestsInOrder, Indexed, Accounted, NEW a \in Operators, Handler(a), HandlerScope(a)
  PROVE  Accounted'
<1>. USE DEF AppStates
<1>1. /\ phase \in {"up", "stopping"} /\ phase' = phase /\ claims = {} /\ claims' = {} /\ Typed
      /\ app \in [Handles -> Apps \cup {None}] /\ pc \in [Operators -> Pcs]
      /\ box \in [Containers -> {"absent", "created", "running", "paused"}] /\ net \subseteq Containers
      /\ \A b \in Operators \ {a} : pc'[b] = pc[b] /\ held'[b] = held[b]
      /\ net' \subseteq Containers
      /\ pc'[a] # "idle" => held'[a] = held[a]
  BY HandlerTyped DEF HandlerScope, Accounted, Endpoints, process, HostTyped, Taken, Typed
<1>2. \A s : Goto(a, s) => pc'[a] = s
  BY <1>1 DEF Goto
<1>3. \A t : Return(a, t) => pc'[a] = "idle" /\ held'[a] = Nobody
  BY <1>1 DEF Return, Goto, Typed
<1>4. ASSUME pc[a] \in UpdatePcs \cup RolloutPcs \cup ApplyPcs \cup RemovePcs
      PROVE  /\ held[a] \in Handles /\ app[held[a]] # None /\ app[held[a]] \in Apps
             /\ Current(held[a]) \in Containers /\ Opposite(held[a]) \in Containers
             /\ Current(held[a]) # Opposite(held[a])
             /\ Shape(held[a]) /\ AtWork(a)
             /\ \A b \in Operators : held[b] = held[a] => b = a
  BY <1>4, Holding, Containing, OneHolder DEF Accounted
<1>6. CASE \/ DeployWrite(a) \/ DeployCollides(a) \/ DeployDiscard(a) \/ UpdatePersist(a) \/ Done(a)
           \/ RolloutPersist(a) \/ ApplyConflicts(a) \/ ApplyReturns(a) \/ ApplyFails(a) \/ RemoveSpec(a)
  <2>1. app' = app /\ UNCHANGED <<box, net, left>>
    BY <1>6 DEF DeployWrite, DeployCollides, DeployDiscard, UpdatePersist, Done, RolloutPersist,
                ApplyConflicts, ApplyReturns, ApplyFails, RemoveSpec, memory, host
  <2>2. pc[a] \notin {"build", "switch", "drain", "release"}
    BY <1>6 DEF DeployWrite, DeployCollides, DeployDiscard, UpdatePersist, Done, RolloutPersist,
                ApplyConflicts, ApplyReturns, ApplyFails, RemoveSpec
  <2>3. \/ pc'[a] \notin {"build", "switch", "drain", "release", "unlink", "unlink_rollouts"}
        \/ pc[a] = "unlink" /\ pc'[a] = "unlink_rollouts"
    BY <1>2, <1>3, <1>6 DEF DeployWrite, DeployCollides, DeployDiscard, UpdatePersist, Done, RolloutPersist,
                ApplyConflicts, ApplyReturns, ApplyFails, RemoveSpec
  <2>4. AtWork(a)'
    <3>1. AtWork(a)
      BY DEF Accounted
    <3>2. Opposite(held[a])' = Opposite(held[a]) \/ pc'[a] \notin {"unlink", "unlink_rollouts"}
      BY <1>1, <2>1, <2>3 DEF Opposite
    <3>. QED
      BY <1>1, <2>1, <2>3, <3>1, <3>2 DEF AtWork
  <2>. QED
    BY <1>1, <2>1, <2>2, <2>4, QuietSteps
<1>7. CASE UpdateReplace(a) \/ RolloutRecord(a)
  <2>1. UNCHANGED <<box, net, left>> /\ pc[a] \in {"replace", "record"} /\ pc'[a] \in {"persist", "persist_only", "durable"}
    BY <1>2, <1>7 DEF UpdateReplace, RolloutRecord, host
  <2>2. \/ app' = [app EXCEPT ![held[a]] = [app[held[a]] EXCEPT !.conf = req[a].conf]]
        \/ app' = [app EXCEPT ![held[a]] = [app[held[a]] EXCEPT !.tag = req[a].tag]]
    BY <1>7 DEF UpdateReplace, RolloutRecord
  <2>3. held[a] \in Handles /\ app[held[a]] \in Apps /\ app[held[a]] # None
    BY <1>4, <2>1 DEF UpdatePcs, RolloutPcs
  <2>4. /\ \A g \in Handles \ {held[a]} : app'[g] = app[g]
        /\ app'[held[a]].name = app[held[a]].name /\ app'[held[a]].state = app[held[a]].state
        /\ app'[held[a]].slot = app[held[a]].slot /\ app'[held[a]].boots = app[held[a]].boots
    BY <1>1, <2>2, <2>3 DEF Apps
  <2>5. app'[held[a]] # None
    BY <1>1, <2>1, <2>3, HandlerKeeps DEF DeployInsert, RemoveRollouts
  <2>6. AtWork(a)'
    BY <2>1 DEF AtWork
  <2>7. \A k \in Handles :
           /\ app'[k] = None <=> app[k] = None
           /\ app[k] # None => /\ app'[k].name = app[k].name /\ app'[k].state = app[k].state
                               /\ app'[k].slot = app[k].slot /\ app'[k].boots = app[k].boots
    BY <2>3, <2>4, <2>5
  <2>8. pc[a] \notin {"build", "switch", "drain", "release"} /\ UNCHANGED <<phase, claims, box, net, left>>
    BY <1>1, <2>1
  <2>. QED
    BY <1>1, <2>6, <2>7, <2>8, QuietSteps
<1>8. CASE \/ ApplyCold(a) \/ ApplyBlueGreen(a) \/ Build(a) \/ RollBack(a) \/ SwitchOver(a) \/ Drained(a)
           \/ Released(a) \/ RemoveStop(a)
  <2>1. pc[a] \in ApplyPcs \cup RemovePcs
    BY <1>8 DEF ApplyCold, ApplyBlueGreen, Build, RollBack, SwitchOver, Drained, Released, RemoveStop,
                ApplyPcs, RemovePcs
  <2>2. PICK h \in Handles : h = held[a]
    BY <1>4, <2>1
  <2>. QED
    BY <1>8, <2>2, ActiveAccounted
<1>. QED
  BY <1>6, <1>7, <1>8, InsertAccounted, RemovalAccounted DEF Handler
-----------------------------------------------------------------------------
(* The invariant is inductive *)

LEMMA RequestAccounted ==
  ASSUME OwnApps, Typed, RequestsInOrder, Indexed, Accounted, NEW a \in Operators, Request(a)
  PROVE  Accounted'
<1>1. /\ app' = app /\ UNCHANGED <<phase, claims, box, net, left>> /\ pc[a] = "idle"
      /\ \A b \in Operators \ {a} : pc'[b] = pc[b] /\ held'[b] = held[b]
  BY RequestFrame DEF process, host
<1>2. pc'[a] \in {"write", "done", "replace", "record", "stop"}
  BY RequestShape
<1>3. AtWork(a)'
  BY <1>2 DEF AtWork
<1>. QED
  BY <1>1, <1>3, QuietSteps

LEMMA EndsAccounted ==
  ASSUME Typed, Accounted, Ends
  PROVE  Accounted' /\ Booting'
<1>1. Forget /\ UNCHANGED host
  BY EndsFrame
<1>2. /\ \A a \in Operators : pc'[a] = "idle"
      /\ \A h \in Handles : app'[h] = None
      /\ claims' = {} /\ phase' = "down" /\ box' = box /\ net' = net /\ left' = left
  BY <1>1 DEF Forget, host
<1>. QED
  BY <1>2 DEF Accounted, Endpoints, AtWork, Booting

LEMMA LoadAccounted ==
  ASSUME Typed, RequestsInOrder, Mirrored, Acked, Accounted, Load
  PROVE  Accounted'
<1>1. /\ phase' = "reattach" /\ phase = "down" /\ net' = net /\ box' = box /\ pc' = pc
      /\ claims' \subseteq net /\ net \subseteq claims' \cup left' /\ left \subseteq left'
  BY DEF Load, client
<1>2. \A a \in Operators : pc[a] = "idle"
  BY <1>1, BootIdle
<1>3. Taken' = {}
  BY <1>1 DEF Taken
<1>4. \A h \in Handles : app'[h] # None => app'[h].state = "Stopped"
  BY LoadKeeps
<1>5. \A h \in Handles : app'[h] # None => Shape(h)'
  BY <1>3, <1>4 DEF Shape, Own, Building
<1>6. \A a \in Operators : AtWork(a)'
  BY <1>1, <1>2 DEF AtWork
<1>7. Endpoints'
  BY <1>1, <1>3 DEF Accounted, Endpoints
<1>. QED
  BY <1>5, <1>6, <1>7 DEF Accounted

RegistrationIInv ==
  /\ Typed /\ RequestsInOrder /\ Indexed /\ Mirrored /\ Acked /\ Accounted /\ Booting

LEMMA InitIInv == Init => RegistrationIInv
<1>. SUFFICES ASSUME Init
              PROVE  RegistrationIInv
  OBVIOUS
<1>. USE DEF Init
<1>1. Typed
  BY DEF Typed, Pcs, Requested, NoRequest
<1>2. RequestsInOrder
  BY DEF RequestsInOrder, InOrder, DeployPcs, UpdatePcs, RolloutPcs, ApplyPcs, RemovePcs
<1>3. Indexed
  BY DEF Indexed, Registered
<1>4. Mirrored
  BY DEF Mirrored, MirroredAt
<1>5. Acked
  BY NoneAssumption DEF Acked, AckedAt, ApplyPcs
<1>6. Accounted
  BY DEF Accounted, Endpoints, AtWork, Taken
<1>7. Booting
  BY DEF Booting
<1>. QED
  BY <1>1, <1>2, <1>3, <1>4, <1>5, <1>6, <1>7 DEF RegistrationIInv

LEMMA StepIInv == OwnApps /\ RegistrationIInv /\ [Next]_vars => RegistrationIInv'
<1>. SUFFICES ASSUME OwnApps, RegistrationIInv, [Next]_vars
              PROVE  RegistrationIInv'
  OBVIOUS
<1>1. /\ Typed /\ RequestsInOrder /\ Indexed /\ Mirrored /\ Acked /\ Accounted /\ Booting
  BY DEF RegistrationIInv
<1>2. Typed'
  BY <1>1, TypedStep
<1>3. CASE UNCHANGED vars
  <2>1. Steady /\ phase' = phase
    BY <1>3 DEF vars, Steady, SameApps, memory, process
  <2>2. RequestsInOrder' /\ Indexed' /\ Mirrored' /\ Acked'
    BY <1>1, <2>1, SteadyKeeps
  <2>3. Accounted'
    BY <1>1, <1>3, SameHost DEF Accounted, Endpoints, vars, process, memory, host, client
  <2>4. Booting'
    BY <1>1, <1>3 DEF Booting, Registered, vars, process, memory, host
  <2>. QED
    BY <1>2, <2>2, <2>3, <2>4 DEF RegistrationIInv
<1>4. ASSUME NEW a \in Operators, Request(a)
      PROVE  RegistrationIInv'
  <2>1. Booting'
    BY <1>1, <1>4, RequestFrame DEF Booting, process
  <2>. QED
    BY <1>1, <1>2, <1>4, <2>1, RequestKeeps, RequestAccounted DEF RegistrationIInv
<1>5. ASSUME NEW a \in Operators, Handler(a)
      PROVE  RegistrationIInv'
  <2>1. HandlerScope(a)
    BY <1>1, <1>5, HandlerFrame
  <2>2. RequestsInOrder'
    BY <1>1, <1>5, <2>1, OthersInOrder, OwnInOrder DEF RequestsInOrder
  <2>3. Indexed' /\ Accounted'
    BY <1>1, <1>5, <2>1, HandlerIndexed, HandlerAccounted
  <2>4. req[a].name \in Names /\ phase' # "down"
    BY <2>1 DEF HandlerScope
  <2>5. Mirrored'
    <3>1. \A n \in Names : MirroredAt(n)'
      BY <1>1, <1>5, <2>1, HandlerElsewhere, HandlerMirrored
    <3>2. /\ pc'[a] = "insert" => spec_file'[req'[a].name] = [sub |-> req'[a].sub, conf |-> req'[a].conf]
          /\ pc'[a] = "unlink_rollouts" => spec_file'[req'[a].name] = None
      BY <1>1, <1>5, <2>1, <2>4, HandlerMirrored
    <3>3. /\ \A b \in Operators \ {a} : pc'[b] = "insert" =>
               spec_file'[req'[b].name] = [sub |-> req'[b].sub, conf |-> req'[b].conf]
          /\ \A b \in Operators \ {a} : pc'[b] = "unlink_rollouts" => spec_file'[req'[b].name] = None
      <4>1. \A b \in Operators \ {a} : pc'[b] = "insert" =>
               spec_file'[req'[b].name] = [sub |-> req'[b].sub, conf |-> req'[b].conf]
        BY <1>1, <1>5, <2>1, HandlerElsewhere
      <4>2. \A b \in Operators \ {a} : pc'[b] = "unlink_rollouts" => spec_file'[req'[b].name] = None
        BY <1>1, <1>5, <2>1, HandlerElsewhere, Zenon
      <4>. QED
        BY <4>1, <4>2
    <3>. QED
      BY <3>1, <3>2, <3>3 DEF Mirrored
  <2>6. Acked'
    <3>1. \A n \in Names : AckedAt(n)'
      BY <1>1, <1>5, <2>1, HandlerElsewhere, HandlerAcked
    <3>2. \A b \in Operators :
            pc'[b] \in {"durable"} \cup ApplyPcs /\ req'[b].kind = "rollout" => app'[held'[b]].tag = req'[b].tag
      BY <1>1, <1>5, <2>1, <2>4, HandlerElsewhere, HandlerAcked
    <3>. QED
      BY <3>1, <3>2 DEF Acked
  <2>7. Booting'
    BY <2>1 DEF HandlerScope, Booting
  <2>. QED
    BY <1>2, <2>2, <2>3, <2>5, <2>6, <2>7 DEF RegistrationIInv
<1>6. ASSUME NEW h \in Handles, Controller(h)
      PROVE  RegistrationIInv'
  <2>1. Steady /\ phase' = phase /\ todo' = todo
    BY <1>1, <1>6, ControllerFrame
  <2>2. phase # "reattach"
    BY <1>6 DEF Controller, Wanted, StartSucceeds, StartRefused, StartFails, Launching, Freeze, Resume, Thaws,
           ThawFails, StopBegins, StopEnds, Alive
  <2>3. Booting'
    BY <1>1, <2>1, <2>2 DEF Booting, Registered, Steady, SameApps
  <2>. QED
    BY <1>1, <1>2, <1>6, <2>1, <2>3, SteadyKeeps, ControllerAccounted DEF RegistrationIInv
<1>7. ASSUME NEW c \in Containers, Exit(c)
      PROVE  RegistrationIInv'
  <2>1. Steady /\ UNCHANGED <<process, app>>
    BY <1>1, <1>7, ExitFrame
  <2>2. \A d \in Containers : box'[d] \in {"absent", box[d]}
    BY <1>7 DEF Exit, Reaps
  <2>3. \A h \in Handles, s \in Slots : app[h] # None => <<app[h].name, s>> \in Containers
    BY <1>1, Containing
  <2>4. Booting'
    BY <1>1, <2>1, <2>2, <2>3 DEF Booting, Registered, Steady, process
  <2>5. phase' = phase
    BY <2>1 DEF process
  <2>. QED
    BY <1>1, <1>2, <1>7, <2>1, <2>4, <2>5, SteadyKeeps, ExitAccounted DEF RegistrationIInv
<1>8. CASE Turns
  <2>1. /\ Steady /\ phase # "down" /\ phase' # "down"
        /\ phase \in {"up", "stopping"} => phase' \in {"up", "stopping"}
    BY <1>1, <1>8, TurnsFrame
  <2>. QED
    BY <1>1, <1>2, <1>8, <2>1, SteadyKeeps, TurnsAccounted DEF RegistrationIInv
<1>9. CASE Ends
  BY <1>1, <1>2, <1>9, EndsKeep, EndsAccounted DEF RegistrationIInv
<1>10. CASE Load
  BY <1>1, <1>2, <1>10, LoadKeeps, LoadAccounted DEF RegistrationIInv
<1>. QED
  BY <1>3, <1>4, <1>5, <1>6, <1>7, <1>8, <1>9, <1>10, Kinds

LEMMA IInvHolds ==
  ASSUME OwnApps
  PROVE  Spec => []RegistrationIInv
BY InitIInv, StepIInv, PTL DEF Spec
-----------------------------------------------------------------------------
(* The theorems *)

\* The three places an app is known in tell the same (registry.rs, store.rs,
\* boot.rs): both indexes and the files, when no request is at work on it.
THEOREM RegistryHolds ==
  ASSUME OwnApps
  PROVE  Spec => []RegistryInv
<1>1. RegistrationIInv => RegistryInv
  <2>. SUFFICES ASSUME RegistrationIInv
                PROVE  RegistryInv
    OBVIOUS
  <2>1. RegistrationTypeOK
    <3>1. ASSUME NEW h \in Handles, app[h] # None, app[h].state # "Stopped"
          PROVE  Current(h) \in net \/ (app[h].state = "Starting" /\ app[h].boots \in Unparsed)
      BY <3>1 DEF RegistrationIInv, Accounted, Shape, Own, Building, Taken
    <3>. QED
      BY <3>1 DEF RegistrationIInv, RegistrationTypeOK
  <2>2. IndexesAgree
    BY DEF RegistrationIInv, IndexesAgree, Indexed
  <2>3. ASSUME NEW n \in Names, Settled(n)
        PROVE  IF by_name[n] = Nobody THEN spec_file[n] = None
               ELSE LET h == by_name[n]
                    IN  /\ spec_file[n] = [sub |-> app[h].sub, conf |-> app[h].conf]
                        /\ app[h].tag \in {None, rollouts_file[n]}
    <3>1. MirroredAt(n) /\ \A pcs : ~At1(n, pcs)
      BY <2>3 DEF RegistrationIInv, Mirrored, Settled, At1
    <3>. QED
      BY <2>3, <3>1 DEF MirroredAt, Settled
  <2>. QED
    BY <2>1, <2>2, <2>3 DEF RegistryInv, StoreMirrors
<1>. QED
  BY <1>1, IInvHolds, PTL

\* What the admin API answered an operator with holds (crud.rs, rollout.rs),
\* however often the daemon has ended since, and at whichever step.
THEOREM AcksDurable ==
  ASSUME OwnApps
  PROVE  Spec => []AckedIsDurable
<1>1. RegistrationIInv => AckedIsDurable
  BY DEF RegistrationIInv, Acked, AckedAt, AckedIsDurable, Settled
<1>. QED
  BY <1>1, IInvHolds, PTL

\* Nothing of an earlier process, or of a step that went through, is left on the
\* host when the daemon serves (boot.rs, egress.rs): each container and each
\* endpoint is of an app that is in the state to have it, of a request that is
\* at work, or what a step that failed left in a slot that no app runs on.
THEOREM HostIsAccounted ==
  ASSUME OwnApps
  PROVE  Spec => []HostAccounted
<1>. DEFINE Held(c) ==
       \E h \in Registered :
         /\ c = Current(h)
         /\ app[h].state \in {"Starting", "Running", "Frozen", "Stopping"}
         /\ app[h].state = "Frozen" => box[c] = "paused"
         /\ box[c] = "paused" => app[h].state \in {"Frozen", "Starting"}
            Aside(c) ==
       /\ c \in left
       /\ \A h \in Registered : c = Current(h) => app[h].state \in {"Stopped", "Starting"}
<1>1. RegistrationIInv => HostAccounted
  <2>. SUFFICES ASSUME RegistrationIInv, phase = "up",
                       NEW c \in Containers, box[c] # "absent" \/ c \in net,
                       \A a \in Operators : req[a].name # c[1]
                PROVE  Held(c) \/ Aside(c)
    BY DEF HostAccounted
  <2>1. CASE c \in Taken
    <3>1. PICK h \in Handles : app[h] # None /\ app[h].name = c[1]
      BY <2>1 DEF RegistrationIInv, Accounted, Endpoints
    <3>2. \A a \in Operators : pc[a] \in ApplyPcs \cup RemovePcs => held[a] # h
      BY <3>1, Holding DEF RegistrationIInv
    <3>3. h \in Registered
      BY <3>1, <3>2 DEF RegistrationIInv, Indexed, Registered
    <3>4. Shape(h) /\ Own(h)
      BY <3>1 DEF RegistrationIInv, Accounted, Shape
    <3>5. Opposite(h) \notin Taken /\ app[h].state # "RollingOver"
      BY <3>2, <3>4 DEF Shape, ApplyPcs
    <3>6. c = Current(h)
      <4>1. c = <<c[1], c[2]>> /\ c[2] \in Slots
        BY DEF Containers
      <4>2. c \in {Current(h), Opposite(h)}
        BY <3>1, <4>1, Containing DEF RegistrationIInv
      <4>. QED
        BY <2>1, <3>5, <4>2
    <3>7. app[h].state \in AppStates
      BY <3>1 DEF RegistrationIInv, Typed, Apps
    <3>. QED
      BY <2>1, <3>3, <3>4, <3>5, <3>6, <3>7 DEF Own, Building, AppStates
  <2>2. CASE c \notin Taken
    <3>1. c \in left
      BY <2>2 DEF RegistrationIInv, Accounted, Endpoints, Taken
    <3>2. ASSUME NEW h \in Registered, c = Current(h)
          PROVE  app[h].state \in {"Stopped", "Starting"}
      BY <2>2, <3>2 DEF RegistrationIInv, Accounted, Shape, Own, Building, Registered
    <3>. QED
      BY <3>1, <3>2
  <2>. QED
    BY <2>1, <2>2
<1>. QED
  BY <1>1, IInvHolds, PTL

\* The boot keeps the endpoint of a container that outlived the daemon, does not
\* leave one whose claim it takes and whose allowlist parses, and when it is over
\* has the app on every one that was not left (boot.rs: reattach_running before
\* cleanup_orphans).
THEOREM SurvivorsStay ==
  ASSUME OwnApps
  PROVE  Spec => SurvivorsKept
<1>. DEFINE Kept(h, s) ==
       LET c == <<app[h].name, s>>
       IN  Live(h) = {s} /\ c \in net =>
             /\ c \in net'
             /\ c \in claims \ claims' /\ app[h].conf \notin Unparsed => c \notin left'
             /\ phase' = "eager" /\ c \notin left =>
                  /\ app[h].slot = s
                  /\ app[h].state = IF box[c] = "paused" THEN "Frozen" ELSE "Running"
            Keeps == phase = "reattach" /\ phase' # "down" =>
                       \A h \in Registered, s \in Slots : Kept(h, s)
<1>1. RegistrationIInv /\ [Next]_vars => [Keeps]_vars
  <2>. SUFFICES ASSUME RegistrationIInv, Next, phase = "reattach", phase' # "down",
                       NEW h \in Registered, NEW s \in Slots, Live(h) = {s}, <<app[h].name, s>> \in net
                PROVE  Kept(h, s)
    OBVIOUS
  <2>. DEFINE c == <<app[h].name, s>>
  <2>1. /\ Typed /\ RequestsInOrder /\ Indexed /\ Accounted /\ Booting /\ h \in Handles /\ app[h] # None
        /\ c \in Containers /\ box[c] \in {"running", "paused"}
    <3>1. Typed /\ h \in Handles /\ app[h] # None
      BY DEF RegistrationIInv, Registered
    <3>. QED
      BY <3>1, Containing DEF RegistrationIInv, Live
  <2>2. ASSUME NEW g \in Handles, Reattach(g)
        PROVE  Kept(h, s)
    <3>1. phase' = phase /\ app[g] # None
      BY <2>1, <2>2 DEF Reattach, Booting, Registered
    <3>2. app[g].name = app[h].name => g = h
      BY <2>1, <3>1, OneHandle
    <3>3. CASE ReattachNone(g)
      BY <3>1, <3>3 DEF ReattachNone, host
    <3>4. CASE ReattachOne(g)
      <4>1. net' = net /\ \E d : claims' = claims \ {d} /\ left' = left \ {d}
        BY <3>4 DEF ReattachOne
      <4>. QED
        BY <3>1, <4>1
    <3>5. CASE ReattachFails(g)
      <4>1. PICK r \in Slots :
              /\ <<app[g].name, r>> \notin claims \/ app[g].conf \in Unparsed
              /\ claims' = claims \ {<<app[g].name, r>>} /\ net' = net
        BY <3>5 DEF ReattachFails
      <4>2. c \in claims \ claims' => g = h /\ c = <<app[g].name, r>>
        BY <3>2, <4>1
      <4>. QED
        BY <3>1, <4>1, <4>2
    <3>6. CASE PurgeBoth(g)
      <4>1. /\ Live(g) = Slots /\ net' = net \ ({<<app[g].name, r>> : r \in Slots} \cap claims)
            /\ claims' = claims \ {<<app[g].name, r>> : r \in Slots}
        BY <3>6 DEF PurgeBoth
      <4>2. app[g].name # app[h].name
        BY <3>2, <4>1 DEF Slots
      <4>. QED
        BY <3>1, <4>1, <4>2
    <3>. QED
      BY <2>2, <3>3, <3>4, <3>5, <3>6 DEF Reattach
  <2>3. ASSUME NEW d \in Containers, CleanupOrphan(d)
        PROVE  Kept(h, s)
    <3>1. todo = {} /\ d \in claims /\ net' = net \ {d} /\ phase' = phase
      BY <2>3 DEF CleanupOrphan
    <3>2. c \notin claims
      BY <2>1, <3>1 DEF Booting
    <3>. QED
      BY <3>1, <3>2
  <2>4. ASSUME NEW d \in Containers, Exit(d)
        PROVE  Kept(h, s)
    BY <2>4 DEF Exit, process
  <2>5. CASE EagerBegins
    <3>1. claims = {} /\ claims' = claims /\ net' = net
      BY <2>5 DEF EagerBegins, host
    <3>2. ASSUME c \notin left
          PROVE  /\ app[h].slot = s
                 /\ app[h].state = IF box[c] = "paused" THEN "Frozen" ELSE "Running"
      <4>1. c \in Taken
        BY <3>1, <3>2 DEF Taken
      <4>2. \A a \in Operators : pc[a] = "idle"
        BY <2>1, BootIdle
      <4>3. Shape(h) /\ Own(h) /\ app[h].state \in {"Stopped", "Running", "Frozen"}
        BY <2>1 DEF Accounted, Booting, Shape
      <4>4. Opposite(h) \notin Taken
        BY <4>2, <4>3 DEF Shape
      <4>5. s = app[h].slot /\ c = Current(h)
        BY <2>1, <4>1, <4>4, Containing
      <4>. QED
        BY <2>1, <4>1, <4>3, <4>5 DEF Own, Building
    <3>. QED
      BY <3>1, <3>2
  <2>6. CASE Turns
    BY <2>2, <2>3, <2>5, <2>6 DEF Turns, Interrupt, EagerEnds, Teardown, Eager
  <2>7. \A a \in Operators : ~Handler(a) /\ ~Request(a)
    BY <2>1, HandlerFrame, RequestFrame DEF HandlerScope
  <2>8. \A g \in Handles : ~Controller(g)
    BY DEF Controller, Wanted, StartSucceeds, StartRefused, StartFails, Launching, Freeze, Resume, Thaws,
           ThawFails, StopBegins, StopEnds, Alive
  <2>9. ~Load
    BY DEF Load
  <2>10. ~Ends
    BY <2>1, EndsFrame DEF Forget
  <2>. HIDE DEF Kept
  <2>. QED
    BY <2>4, <2>6, <2>7, <2>8, <2>9, <2>10, Kinds
<1>. QED
  BY <1>1, IInvHolds, PTL DEF Spec, SurvivorsKept

=============================================================================
