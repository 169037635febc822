SPECIFICATION FairRolloverSpec
CONSTANTS
  Requests = {r1}
  Sweepers = {s1}
  Evictors = {}
  Removers = {}
  Deployers = {d1}
  Cancellable = {}
  Upgradable = {}
  IdleTimeout = FALSE
  Faults = {"crash", "readiness"}
  IPs = {2, 3}
  Tags = {v1}
  NoTag = NoTag
  Nobody = Nobody
  Tasks <- MCTasks
CHECK_DEADLOCK FALSE
PROPERTIES OperationsEnd WaitersWake DeathNoticed
