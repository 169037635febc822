SPECIFICATION SpecsSpec
CONSTANTS
  Alphanumeric = {"a"}
  MaxLabel = 3
  DockerIo <- MCDockerIo
  Localhost <- MCLocalhost
  RESERVED_MOUNT_PATHS <- MCReserved
  Tag = "bp1"
  MaxU32 = 99
  MaxText = 6
  MaxEntries = 2
CHECK_DEADLOCK FALSE
INVARIANTS MountsDistinct PartsRecovered EnvironmentResolved
