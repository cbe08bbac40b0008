\* Two runs, one with two findings, two dispatchers, one fault;
\* weak fairness of the dispatchers.
CONSTANTS
  r1 = r1  r2 = r2  f1 = f1  f2 = f2  f3 = f3
  Runs = {r1, r2}
  FindingsOf <- TwoFindingsAndOne
  Dispatchers = {d1, d2}
  MaxFaults = 1
SPECIFICATION FairSpec
INVARIANTS
  ApprovalIsWhole
  LastDecisionPending
PROPERTY
  DecisionsArrive
CHECK_DEADLOCK FALSE
