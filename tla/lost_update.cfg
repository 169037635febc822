SPECIFICATION Spec
CONSTANTS
  o1 = o1
  o2 = o2
  Operators = {o1}
  NamesOf <- MCNamesOf
  Names = {1}
  Subs = {s1}
  Confs = {idle, always}
  AlwaysOn = {always}
  Malformed = {}
  Unparsed = {}
  Tags = {v1}
  Handles = {h1}
  Nobody = Nobody
  None = None
  Torn = Torn
  Faults = {}
  MaxRequests = 4
  MaxRestarts = 0
INVARIANT UpdateTakesEffect
CHECK_DEADLOCK FALSE
