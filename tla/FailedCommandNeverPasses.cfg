\* The run of SandboxVerification.cfg; a lost connection is one of the faults.
CONSTANTS
  Approved = {"unit", "junit"}
  Reporting = {"junit"}
  ConfigFile <- MCConfigFile
  MaxTotalTimeout = 4
  Paths <- MCPaths
  Heads <- MCHeads
  MaxAttempts = 2
  MaxFaults = 2
SPECIFICATION Spec
INVARIANTS
  FailedCommandNeverPasses
CHECK_DEADLOCK FALSE
