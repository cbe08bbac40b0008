\* Three heads, two seconds, four deliveries.
SPECIFICATION Spec
CONSTANTS
  Heads = {1, 2, 3}
  MaxTime = 2
  MaxDeliveries = 4
INVARIANTS
  OpenWins
  HeadConverges
PROPERTIES
  RunsFollowHead
  AdmittedHeadHasRun
CHECK_DEADLOCK FALSE
