\* Three attempts, one fault, two pushes or edits; weak fairness.
CONSTANTS
  MaxAttempts = 3
  MaxFaults = 1
  MaxChanges = 2
SPECIFICATION FairSpec
PROPERTIES
  ImplementsContract
  LostAuthorityStagesNothing
  FaultsLoseNothing
CHECK_DEADLOCK FALSE
