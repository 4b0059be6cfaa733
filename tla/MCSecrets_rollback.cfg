SPECIFICATION Spec
CONSTANTS
  shared = shared
  dev = dev
  Env = {shared, dev}
  Key = {k1}
  Value = {x, y}
  Nothing = nothing
  Call = {c1, c2}
  Lineage <- ChildOfShared
  MaxCommits = 4
SYMMETRY Symmetric
INVARIANT RollbackRefusesDeleted
