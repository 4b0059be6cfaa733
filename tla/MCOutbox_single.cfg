SPECIFICATION FairSpec
CONSTANTS
  Worker = {w1}
  Nobody = nobody
  Kind = {k1}
  MaxAttempts = 2
  BatchSize = 2
  StaleAfter = 1
  Backoff <- DefaultBackoff
  InitialRegs = 1
  MaxRegs = 2
  MaxRows = 2
  MaxFaults = 1
INVARIANTS
  TypeOK
  LeaseIffInProgress
  AttemptsBounded
  WorksOnlyOnItsClaims
  DeliveredMeansAcked
  SentOnlyToSubscriber
PROPERTY
  ImplementsLedger
  EveryRowSettles
