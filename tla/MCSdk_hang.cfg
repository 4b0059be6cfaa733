SPECIFICATION Spec
CONSTANTS
  Key = {k1}
  All = all
  Caller = {c1,c2}
  MaxFlights = 2
  MaxRev = 1
  MaxReloads = 1
PROPERTY EveryReadSettles
