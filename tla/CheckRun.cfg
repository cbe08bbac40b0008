\* Two runs of a head, three attempts of an update, two faults, and one call
\* that takes effect late; weak fairness.
SPECIFICATION FairCheckSpec
CONSTANTS
  MaxRuns = 2
  MaxAttempts = 3
  MaxFaults = 2
  MaxLate = 1
INVARIANT
  OneCheck
PROPERTIES
  AckedIsShown
  NewerRunWins
  FailuresRepaired
CHECK_DEADLOCK FALSE
