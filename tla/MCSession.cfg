SPECIFICATION Spec
CONSTANTS
  Clients = {c1, c2}
  Sessions = {s1, s2, s3, s4}
  Limit = 2
  NoClient = NoClient
  NoSession = NoSession
INVARIANTS
  TypeOK
  DisabledHoldsNothing
  NoLeakWithoutFault
PROPERTIES
  RefreshIdempotent
  GaveUpForGood
  DeadSessionNoticed
