CONSTANTS
  Messages = {m1, m2}
  Handlers = {h1}
  Schedulers = {s1}
  Recoverers = {}
  Background = TRUE
  Quiet = 1
  AckDelay = 1
  Lease = 2
  MaxBatches = 2
  MaxVersion = 2
  MaxCrashes = 1
CHECK_DEADLOCK FALSE
SPECIFICATION FairSpec
PROPERTY AbandonedBatchIsReclaimed
