SPECIFICATION RolloverSpec
CONSTANTS
  Requests = {}
  Sweepers = {}
  Evictors = {}
  Removers = {}
  Deployers = {d1, d2}
  Cancellable = {}
  Upgradable = {}
  IdleTimeout = FALSE
  Faults = {"pull", "readiness","launch", "detach"}
  IPs = {2, 3}
  Tags = {v1, v2}
  NoTag = NoTag
  Nobody = Nobody
  Tasks <- MCTasks
INVARIANTS RolloverTypeOK SingleRollover
PROPERTY ImplementsAppState
