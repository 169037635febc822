SPECIFICATION EgressSpec
CONSTANTS
  Names = {n1, n2}
  Queries = {q1}
  Domains <- MCDomains
  Addrs <- MCAddrs
  Lists <- MCLists
  Tokens = {"shop", "api", "evil", "com", "ip", "8", ".", "/", "*"}
  Literals = {"ip"}
  Separators = {"/", "*"}
  Hosts = {1, 2, 3}
  bridge_ip = 1
  Faults = {"attach", "nft", "upstream", "resume", "launch"}
  Bare = Bare
  MaxRestarts = 1
SYMMETRY MCSymmetry
INVARIANTS EndpointsInv Contained UpstreamIsAllowed
PROPERTIES NeighboursKeepEgress ImplementsPool
CHECK_DEADLOCK FALSE
