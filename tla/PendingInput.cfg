CONSTANTS
  Messages = {m1, m2}
  Handlers = {h1, h2}
  Schedulers = {s1}
  Recoverers = {r1}
  Background = TRUE
  Quiet = 1
  AckDelay = 1
  Lease = 1
  MaxBatches = 2
  MaxVersion = 2
  MaxCrashes = 1
CHECK_DEADLOCK FALSE
SPECIFICATION FairSpec
INVARIANT SettledBatchIsComplete
INVARIANT OneRunPerLease
PROPERTY SettledBatchStaysSettled
PROPERTY WaitingInputIsSettled
