SPECIFICATION LifecycleSpec
CONSTANTS
  Requests = {r1, r2}
  Sweepers = {sweeper}
  Evictors = {evictor}
  Removers = {}
  Deployers = {}
  Cancellable = {r1, r2}
  Upgradable = {}
  IdleTimeout = TRUE
  Faults = {"crash", "launch"}
  IPs = {2, 3}
  Tags = {v1}
  NoTag = NoTag
  Nobody = Nobody
  Tasks <- MCTasks
SYMMETRY RequestSymmetry
INVARIANTS StartHasOwner WaiterHasWaker
