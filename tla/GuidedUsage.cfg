SPECIFICATION MCSpec
CONSTANTS
  Verifiers = {v1}
  MaxLaunches = 1
  StepCount = 2
  MaxRev = 3
  Observed = {"auth"}
INVARIANTS
  SuccessEarned
  EffectKnown
PROPERTIES
  Finality
