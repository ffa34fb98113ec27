SPECIFICATION Spec
CONSTANTS
  s1 = s1
  d1 = d1
  d2 = d2
  Sessions = {s1}
  Deliveries = {d1}
  SessionOf <- MCOneSession
  Forgetter = Forgetter
  ForgetPlaces = {"host", "cli"}
  NoDelivery = NoDelivery
  NoJob = NoJob
  MaxRetirements = 2
INVARIANTS
  ForgottenIsNotDelivered
