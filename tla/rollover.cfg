SPECIFICATION RolloverSpec
CONSTANTS
  Requests = {r1, r2}
  Sweepers = {}
  Evictors = {}
  Removers = {}
  Deployers = {d1}
  Cancellable = {}
  Upgradable = {r1, r2}
  IdleTimeout = FALSE
  Faults = {"attach", "pull", "launch", "readiness", "drain_timeout"}
  IPs = {2, 3}
  Tags = {v1, v2}
  NoTag = NoTag
  Nobody = Nobody
  Tasks <- MCTasks
SYMMETRY RequestSymmetry
INVARIANTS ServingReachable RolloutTakesEffect NothingLeftBehind
PROPERTY NoOutage
