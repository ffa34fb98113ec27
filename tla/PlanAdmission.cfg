SPECIFICATION MCSpec
CONSTANTS
  sc1 = sc1
  sc2 = sc2
  k1 = k1
  Usages = {u1, u2}
  Sessions = {s1, s2}
  Headless = Headless
  Tasks = {t1}
  Scopes = {sc1, sc2}
  ScopeOf <- MCScopeOf
  RootOf <- MCRootsApart
  Versions = {v1}
  Keys = {k1}
  NoKey = NoKey
  NoPlan = NoPlan
  NoClaim = NoClaim
  Ttl = 3
  LeaseTime = 1
  MaxRev = 2
  MaxClaims = 3
  MaxTime = 5
SYMMETRY MCSymmetry
INVARIANTS
  TypeOK
  AdmissionSound
PROPERTIES
  DecisionsFinal
  DeliveryAuthorized
