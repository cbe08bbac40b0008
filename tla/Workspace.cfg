\* Three attempts of the stages, three failures of any kind.
CONSTANTS
  MaxAttempts = 3
  MaxFailures = 3
SPECIFICATION FilesSpec
INVARIANTS
  TerminalLeavesNothing
  LeftoversNeverBlock
  LeftoversNeverRead
CHECK_DEADLOCK FALSE
