\* Two heads, two dispatchers; one of them dies or an execution expires.
CONSTANTS
  Heads = {h1, h2}
  MaxGen = 2
  MaxAttempts = 1
  Dispatchers = {d1, d2}
  Disturbances = {"expiry", "dispatcher"}
  MaxDisturbances = 1
SPECIFICATION Spec
SYMMETRY Symmetry
INVARIANT DecisionOfThisRun
PROPERTY GenerationAdvances
CHECK_DEADLOCK FALSE
