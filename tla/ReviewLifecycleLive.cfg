\* One head that is reviewed twice, one disturbance, weak fairness.
CONSTANTS
  Heads = {h1}
  MaxGen = 2
  MaxAttempts = 2
  Dispatchers = {d1}
  Disturbances = {"attempt", "dispatcher", "policy", "cancel"}
  MaxDisturbances = 1
SPECIFICATION FairSpec
INVARIANTS
  AcceptedIsHeld
  OneRunActive
  PublishedMeansReviewed
  ReviewedNeverWithdrawn
PROPERTIES
  RunsFollowContract
  AcceptedSettles
CHECK_DEADLOCK FALSE
