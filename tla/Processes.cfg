SPECIFICATION MCSpec
CONSTANTS
  main = main
  cli = cli
  Hosts = {main, cli}
  Nobody = Nobody
  MaxPending = 2
  MaxCalls = 3
  Processes = {main, cli}
  MaxStarts = 2
  s1 = s1
  d1 = d1
  Forgetter = Forgetter
  NoDelivery = NoDelivery
  NoJob = NoJob
CHECK_DEADLOCK FALSE
INVARIANTS
  QueueInvariant
  StartsSound
PROPERTIES
  SerialSpec
  SharedRowsKept
  EverythingEnds
  SessionsAdmitAgain
