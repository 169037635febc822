SPECIFICATION PullSpec
CONSTANTS
  Pulls = {t1, t2}
  Nobody = Nobody
  Refs = {latest, pinned}
  Pinned = {pinned}
  multi = multi
  single = single
  Images <- MCImages
  Index <- MCIndex
  Platform <- MCPlatform
  NoDigest = NoDigest
  Faults = {"registry", "extract"}
  Droppable = {t1}
  MaxPushes = 1
  MaxRestarts = 1
CHECK_DEADLOCK FALSE
INVARIANTS Coalesced PulledIsCached ResultWasCurrent
PROPERTY PullsReturn
