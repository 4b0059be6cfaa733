SPECIFICATION ScenesSpec
CONSTANTS
  Process = {p1, p2}
  Request = {r1, r2}
  Nowhere = nowhere
  TTL = 1
  MaxTokens = 2
  MaxLogins = 2
  MaxFaults = 1
  Tab = {t1, t2}
  Operator = {alice, bob}
  Nobody = nobody
  MaxSessions = 2
  MaxCalls = 2
SYMMETRY Symmetric
INVARIANTS
  TypeOK
  SoleAdmin
  RevokedIsRefused
  SessionTrail
  PageFitsSession
PROPERTIES
  ActiveKept
  WritesAreOwn
