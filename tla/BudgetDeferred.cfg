SPECIFICATION Spec
CONSTANTS
  r1 = r1
  r2 = r2
  t1 = t1
  a1 = a1
  l1 = l1
  l2 = l2
  h1 = h1
  h2 = h2
  run1 = run1
  NoLane = NoLane
  NoRun = NoRun
  NoRow = NoRow
  Lanes = {l1, l2}
  Rows = {r1}
  Targets = {t1}
  Runs = {}
  Hosts = {h1}
  Bounded = {}
  Outcomes = {"sent", "queued", "transient", "permanent"}
  MaxAttempts = 2
  AttemptCap = 3
  TargetOf <- OneTarget
  AdapterOf <- OneAdapter
  Host <- OneHost
  Origins <- StagedOrigins
INVARIANTS
  AttemptsWithinBudget
CHECK_DEADLOCK FALSE
