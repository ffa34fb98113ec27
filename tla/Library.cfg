SPECIFICATION MCSpec
CONSTANTS
  a1 = a1
  a2 = a2
  p1 = p1
  p2 = p2
  Nil = Nil
  Commands = {p1, p2}
  Actors = {a1, a2}
  PlainFields = {"title"}
  KernelField = "step"
  Contents = {"a", "b"}
  Malformed = "bad"
  Records = {"s"}
  MaxRead = 1
  MaxRev = 7
  Proposals <- MCProposals
  Edits <- MCEdits
  Components = {"step", "note"}
  KernelComponents = {"step"}
  PolicyComponents = {}
  Replaceable = {"note"}
  Texts = {"a", "b"}
  RevisionText = "b"
  Sources = {"s", "t"}
  Drafts <- MCDrafts
  Usages = {"u", "x"}
  Windows = {"w"}
  MaxVersions = 3
  MaxProposals = 2
  ProposalCommands = {"command"}
  MaxChanges = 2
  MaxRuns = 2
  MaxRestarts = 1
  Candidates = {"c", "d"}
  TabUsages = {"u", "x"}
  Undefined = Undefined
  MaxInspections = 1
  MaxTabRev = 2
  MaxFlight = 2
  MaxOps = 4
  Series <- MCSeries
  Slots = {1, 2}
  Role <- MCRole
  Outside = {"c"}
  Declarations <- MCDeclarations
  MaxRelations = 3
  MaxVersion = 2
  MaxTime = 1
  Text <- MCText
  Usable <- MCSeries
  Expired = {}
  Matchings <- MCMatchings
  Tasks <- MCTasks
CONSTRAINT MCBound
SYMMETRY MCSymmetry
CHECK_DEADLOCK FALSE
INVARIANTS
  CandidateSound
  VersionsSound
  PlanKeepsRelations
  ProposalsSound
  TabSound
PROPERTIES
  NotAskedAgain
  ActsOnWhatItSaw
  HistoryKept
