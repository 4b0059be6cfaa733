SPECIFICATION Spec
CONSTANTS
  Key = {k1}
  All = all
  Caller = {c1,c2}
  MaxFlights = 2
  MaxRev = 2
  MaxReloads = 2
INVARIANTS
  TypeOK
  NothingFromBeforeReload
  ReadsSeeReloads
  SingleFlight
  AcknowledgedMeansCurrent
PROPERTY HeadersAreBounded
