SPECIFICATION Spec
CONSTANTS
  v1 = v1
  v2 = v2
  Verifiers = {v1, v2}
  MaxLaunches = 2
  StepCount = 1
  MaxRev = 1
  Observed = {}
INVARIANTS
  EffectKnown
