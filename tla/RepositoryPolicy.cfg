\* Two repositories, one of them with an old row, two syncs, two changes on
\* GitHub; a policy is on or paused; weak fairness.
SPECIFICATION FairSpec
CONSTANTS
  r1 = r1
  r2 = r2
  s1 = s1
  s2 = s2
  Repos = {r1, r2}
  Known = {r1}
  Syncs = {s1, s2}
  MaxBudget = 1
  MaxEvents = 2
INVARIANT
  RevocationHolds
PROPERTIES
  StartsWithinPolicy
  InventoryConverges
CHECK_DEADLOCK FALSE
