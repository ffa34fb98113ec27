SPECIFICATION MCSpec
CONSTANTS
  w1 = w1
  w2 = w2
  w3 = w3
  Workers = {w1, w2, w3}
  MaxEntry = 2
  MaxTime = 4
  Leases = {2, 3}
  RetryDelay = 1
  BatchSize = 1
  MaxWait = 1
  Usages = {1, 2, 3, 4}
  Scopes = {"s", "t"}
  Excluded = {"t"}
  MinimumCoverage = 2
  Ratio <- HalfOfThem
  RolloutLimit = 1
  MaxEvaluations = 2
  MaxDecisions = 3
  Versions = {"v", "w", "x"}
  Queries <- MCQueries
  MinSamples = 2
  MaxUsages = 10
  MaxDate = 11
SYMMETRY WorkerSymmetry
CHECK_DEADLOCK FALSE
INVARIANT
  AppliesEarned
