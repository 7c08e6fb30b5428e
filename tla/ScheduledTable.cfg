CONSTANTS
  Tasks <- TableTasks
  Kind <- TableKind
  Aggregate <- TableAggregate
  Workers = {w1, w2}
  None = None
  Lease = 2
  RetryDelay = 1
  DeferDelay = 1
  MaxAttempts = 2
  MaxStall = 1
  DueDelays = {0, 1}
  MaxTime = 3
  MaxClaims = 3
CONSTRAINT OnePair
SYMMETRY Symmetry
CHECK_DEADLOCK FALSE
SPECIFICATION Spec
INVARIANTS OneLiveBoardLease FencedClaims AttemptsAccountForClaims OneLiveResponsibility
PROPERTIES ImplementsLeasedWork SettledWorkStaysSettled
