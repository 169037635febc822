SPECIFICATION RolloverSpec
CONSTANTS
  Requests = {}
  Sweepers = {sweeper}
  Evictors = {}
  Removers = {remover}
  Deployers = {d1}
  Cancellable = {}
  Upgradable = {}
  IdleTimeout = TRUE
  Faults = {"crash", "launch", "delete"}
  IPs = {2, 3}
  Tags = {v1}
  NoTag = NoTag
  Nobody = Nobody
  Tasks <- MCTasks
CHECK_DEADLOCK FALSE
INVARIANTS AddressesDistinct RolloverHasOwner
