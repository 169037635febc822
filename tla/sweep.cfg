SPECIFICATION LifecycleSpec
CONSTANTS
  Requests = {r1, r2}
  Sweepers = {sweeper}
  Evictors = {}
  Removers = {}
  Deployers = {}
  Cancellable = {}
  Upgradable = {r2}
  IdleTimeout = TRUE
  Faults = {"crash", "launch", "readiness", "freezer"}
  IPs = {2, 3}
  Tags = {v1}
  NoTag = NoTag
  Nobody = Nobody
  Tasks <- MCTasks
INVARIANTS SingleStart FrozenIsPaused
PROPERTY ImplementsAppState
