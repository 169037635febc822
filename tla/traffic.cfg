SPECIFICATION RouterSpec
CONSTANTS
  Apps = {a1, a2}
  NoApp = NoApp
  MemTotal = 20
  MEM_PRESSURE_LO_CAP = 2
  MEM_PRESSURE_HI_CAP = 20
  NoReading = NoReading
  Loads <- MCLoads
  Requests = {r1, r2}
  MAX_CONCURRENT_REQUESTS = 1
  MAX_CONCURRENT_UPGRADES = 1
  IDLE = 2
  MaxChunks = 1
INVARIANTS RouterInv HalfCloseDelivers QuietIsBounded
PROPERTIES SplicesEndForCause EvictsRightly PressureEvicts LimitsRelent
