SPECIFICATION Spec
CONSTANTS
  o1 = o1
  o2 = o2
  Operators = {o1, o2}
  NamesOf <- MCNamesOf
  Names = {1, 2}
  Subs = {s1, s2}
  Confs = {idle, always, bad}
  AlwaysOn = {always}
  Malformed = {}
  Unparsed = {bad}
  Tags = {v1, v2}
  Handles = {h1, h2}
  Nobody = Nobody
  None = None
  Torn = Torn
  Faults = {"start", "exit", "torn", "resume", "discover"}
  MaxRequests = 3
  MaxRestarts = 2
SYMMETRY MCSymmetry
CHECK_DEADLOCK FALSE
INVARIANTS RegistryInv AckedIsDurable HostAccounted
PROPERTY SurvivorsKept
