------------------------------ MODULE Pressure ------------------------------
(***************************************************************************)
(* The timer-driven loops over all apps (ops/loops.rs): the idle half of   *)
(* the sweep, which freezes, and the memory-pressure loop, which stops the *)
(* least recently used frozen app once MemAvailable falls below lo_bytes   *)
(* and goes on until it has risen to hi_bytes.                             *)
(*                                                                         *)
(* An app is its AppState and its place in the order of last_access; what  *)
(* happens inside a start, a freeze or a stop is the subject of Lifecycle. *)
(***************************************************************************)
EXTENDS Naturals, Sequences, SequencesExt, FiniteSets

CONSTANTS
  Apps,
  NoApp,
  MemTotal,            \* of /proc/meminfo when the daemon starts
  MEM_PRESSURE_LO_CAP, \* 1 GiB
  MEM_PRESSURE_HI_CAP, \* 2 GiB
  NoReading, \* /proc/meminfo or its MemAvailable line is missing
  Loads      \* bounds what a behaviour contains: the clients it has, the apps
             \* they name, whether they may upgrade, what /proc/meminfo says

ASSUME PressureAssumption ==
  /\ IsFiniteSet(Apps) /\ NoApp \notin Apps
  /\ \A load \in Loads :
       load.apps \subseteq Apps /\ load.upgrades \in BOOLEAN /\ load.readings \subseteq Nat \cup {NoReading}
  /\ NoReading \notin Nat
  /\ {MemTotal, MEM_PRESSURE_LO_CAP, MEM_PRESSURE_HI_CAP} \subseteq Nat
  /\ MEM_PRESSURE_LO_CAP <= MEM_PRESSURE_HI_CAP

\* derive_mem_pressure_thresholds: 15 and 25 percent of the memory, capped.
lo_bytes == Min({(MemTotal * 15) \div 100, MEM_PRESSURE_LO_CAP})
hi_bytes == Min({(MemTotal * 25) \div 100, MEM_PRESSURE_HI_CAP})

VARIABLES
  load,             \* which of Loads this behaviour is under
  state,            \* state[a]: Stopped, Running or Frozen
  recency,          \* the apps in the order of last_access, the oldest first
  active_upgrades,  \* the counter of each AppHandle
  freezing,         \* the apps freeze has decided to freeze
  mem_available,
  evicting,
  unscanned,        \* the handles evict_lru_frozen has not looked at, or
                    \* nothing while the loop sleeps
  candidate,
  older,            \* the apps whose last_access lies before the candidate's
                    \* as it was when the scan read it
  steady,           \* since the scan began: frozen and untouched
  short             \* a reading below lo_bytes, and none of hi_bytes since

loopVars == <<evicting, unscanned, candidate, short>>
pressureVars == <<load, state, recency, active_upgrades, freezing, mem_available,
                  loopVars, older, steady>>

PressureInit ==
  /\ load \in Loads
  /\ state = [a \in Apps |-> "Stopped"]
  /\ recency \in SetToSeqs(Apps)
  /\ active_upgrades = [a \in Apps |-> 0]
  /\ freezing = {}
  /\ mem_available \in load.readings
  /\ evicting = FALSE
  /\ unscanned = {}
  /\ candidate = NoApp
  /\ older = {}
  /\ steady = {}
  /\ short = FALSE

Place(a) == CHOOSE i \in DOMAIN recency : recency[i] = a

\* last_access of a is before that of b.
Before(a, b) == Place(a) < Place(b)

\* seq after x, which occurs in it, has been taken out.
Without(seq, x) == RemoveAt(seq, CHOOSE i \in DOMAIN seq : seq[i] = x)

\* last_access of a is now.
Accessed(a) ==
  /\ recency' = Append(Without(recency, a), a)
  /\ older' = older \ {a}
  /\ steady' = steady \ {a}

\* A request has found the app ready, resumed or started it.
Touch(a) ==
  /\ state' = [state EXCEPT ![a] = "Running"]
  /\ Accessed(a)

-----------------------------------------------------------------------------
(* sweep_one: the idle timeout *)

\* The app is running, idle for long enough, and has no upgraded connection.
FreezeDecide(a) ==
  /\ a \notin freezing
  /\ state[a] = "Running"
  /\ active_upgrades[a] = 0
  /\ freezing' = freezing \cup {a}
  /\ UNCHANGED <<load, state, recency, active_upgrades, mem_available, loopVars, older, steady>>

\* The freezer call and the state that is written after it.
FreezeCommit(a) ==
  /\ a \in freezing
  /\ freezing' = freezing \ {a}
  /\ state' = [state EXCEPT ![a] = "Frozen"]
  /\ steady' = steady \ {a}
  /\ UNCHANGED <<load, recency, active_upgrades, mem_available, loopVars, older>>

-----------------------------------------------------------------------------
(* memory_pressure_loop *)

\* Other processes of the host take and give memory.
MemoryChanges ==
  /\ mem_available' \in load.readings
  /\ mem_available' # mem_available
  /\ UNCHANGED <<load, state, recency, active_upgrades, freezing, loopVars, older, steady>>

Asleep == unscanned = {} /\ candidate = NoApp

\* list_handles, and the locks still to be taken one after another.
BeginScan ==
  /\ evicting' = TRUE
  /\ unscanned' = Apps
  /\ steady' = {a \in Apps : state[a] = "Frozen"}
  /\ UNCHANGED <<candidate, older>>

StayAsleep == UNCHANGED <<unscanned, candidate, older, steady>>

\* Mutant: engages above lo_bytes as well.
Tick_at_hi ==
  /\ Asleep
  /\ mem_available # NoReading
  /\ short' = (mem_available < lo_bytes \/ (short /\ mem_available < hi_bytes))
  /\ IF mem_available < hi_bytes
     THEN BeginScan
     ELSE evicting' = FALSE /\ StayAsleep
  /\ UNCHANGED <<load, state, recency, active_upgrades, freezing, mem_available>>

\* One turn of the loop, up to the first lock of evict_lru_frozen.  A tick
\* without a reading is skipped.
Tick ==
  /\ Asleep
  /\ mem_available # NoReading
  /\ short' = (mem_available < lo_bytes \/ (short /\ mem_available < hi_bytes))
  /\ LET engaged == evicting \/ mem_available < lo_bytes
     IN  IF engaged /\ mem_available < hi_bytes
         THEN BeginScan
         ELSE evicting' = FALSE /\ StayAsleep
  /\ UNCHANGED <<load, state, recency, active_upgrades, freezing, mem_available>>

\* The candidate after the look at a, and whether the scan came up empty: then
\* the loop disengages.
Found(a, better) ==
  /\ unscanned' = unscanned \ {a}
  /\ IF state[a] = "Frozen" /\ (candidate = NoApp \/ better)
     THEN candidate' = a /\ older' = {b \in Apps : Before(b, a)}
     ELSE UNCHANGED <<candidate, older>>
  /\ evicting' = (unscanned' # {} \/ candidate' # NoApp)
  /\ UNCHANGED <<load, state, recency, active_upgrades, freezing, mem_available, steady, short>>

\* Mutant: the later of two is preferred.
Scan_latest(a) == a \in unscanned /\ Found(a, a \notin older)

\* Mutant: an app that is not frozen ends the scan.
Scan_stops_early(a) ==
  /\ a \in unscanned
  /\ \/ state[a] = "Frozen" /\ Found(a, a \in older)
     \/ /\ state[a] # "Frozen"
        /\ unscanned' = {} /\ candidate' = NoApp /\ evicting' = FALSE
        /\ UNCHANGED <<load, state, recency, active_upgrades, freezing, mem_available, older, steady, short>>

\* evict_lru_frozen looks at one handle under its lock.  The order of
\* list_handles is that of a hash map.
Scan(a) == a \in unscanned /\ Found(a, a \in older)

\* stop of the candidate, in whatever state it is by now.
Evict ==
  /\ unscanned = {} /\ candidate # NoApp
  /\ state' = [state EXCEPT ![candidate] = "Stopped"]
  /\ steady' = {}
  /\ older' = {}
  /\ candidate' = NoApp
  /\ UNCHANGED <<load, recency, active_upgrades, freezing, mem_available, evicting, unscanned, short>>
=============================================================================
