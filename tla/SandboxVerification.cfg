\* Two checks, one with reports; two attempts and two faults of any kind.
CONSTANTS
  Approved = {"unit", "junit"}
  Reporting = {"junit"}
  ConfigFile <- MCConfigFile
  MaxTotalTimeout = 4
  Paths <- MCPaths
  Heads <- MCHeads
  MaxAttempts = 2
  MaxFaults = 2
SPECIFICATION FairSpec
INVARIANTS
  VerdictSound
  NothingLeftRunning
  SelectionFollowsFilters
PROPERTIES
  VerificationEnds
CHECK_DEADLOCK FALSE
