SPECIFICATION Spec
CONSTANTS
  Worker = {w1}
  Nobody = nobody
  Kind = {k1}
  MaxAttempts = 2
  BatchSize = 1
  StaleAfter = 1
  Backoff <- DefaultBackoff
  InitialRegs = 1
  MaxRegs = 2
  MaxRows = 2
  MaxFaults = 0
INVARIANT DeliveryHeaderUnique
