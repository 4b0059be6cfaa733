SPECIFICATION FairServerSpec
CONSTANTS
  shared = shared
  dev = dev
  Env = {shared, dev}
  Key = {k1}
  Value = {x, y}
  Nothing = nothing
  Call = {c1, c2}
  Lineage <- ChildOfShared
  MaxCommits = 4
  Process = {p1}
  Request = {r1}
  Nowhere = nowhere
  TTL = 1
  MaxTokens = 2
  MaxLogins = 2
  MaxFaults = 1
INVARIANTS
  TypeOK
  HistoryComplete
  RollbackHonest
  AuditReplays
  ListedIsStored
PROPERTIES
  HistoryAppendOnly
  EndedArePruned
