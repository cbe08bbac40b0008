\* Two processes of one runner, one activity, two drains and two faults.
CONSTANTS
  Tasks = {t1}
  MaxProcesses = 2
  Capacity = 1
  MaxDrains = 2
  MaxFaults = 2
SPECIFICATION FairSpec
INVARIANTS
  OwedDrainIsHeeded
  AvailableMeansRunning
PROPERTIES
  DrainLeavesWithItsProcess
  ToldToStopStops
CHECK_DEADLOCK FALSE
