SPECIFICATION MCSpec
CONSTANTS
  s1 = s1
  s2 = s2
  c1 = c1
  c2 = c2
  Sessions = {s1, s2}
  Commands = {c1, c2}
  Groups = {1, 2}
  MaxTurns <- MCMaxTurns
  Kernel <- MCKernel
  Oversized <- MCOversized
  MaxVersions = 2
  MaxRestarts = 1
  Versions = {1, 2, 3}
  Models = {"m1", "m2"}
  Calibrated = {"m1"}
  Tasks <- RecallTasks
  AllowedKinds = {"procedure", "diagnostic"}
  CandidateMax = 1
  MinimumOverlap = 2
  RelativeMargin = 10
  RrfK = 60
  Requests = {1, 2, 3}
  Configurations = {1, 2}
  RequestId <- MCRequestId
  Nobody = 0
  MaxChildren = 2
INVARIANT ReceiptsReconcile
CHECK_DEADLOCK FALSE
