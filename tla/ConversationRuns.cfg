CONSTANTS
  m1 = m1
  m2 = m2
  x = x
  q1 = q1
  q2 = q2
  s1 = s1
  p1 = p1
  p2 = p2
  Messages = {m1, m2, x}
  Channel <- MCChannel
  Requests = {q1, q2}
  Background = {s1}
  Process <- MCProcess
  None = None
  MaxSteps = 1
  MaxAttempts = 2
  MaxRuns = 2
  LockExpires = TRUE
  MaxFaults = 1
CHECK_DEADLOCK FALSE
SPECIFICATION FairSpec
INVARIANT PendingRepliesAreCurrent
INVARIANT CompletedRunHasResult
INVARIANT ShownReplyIsTheResult
INVARIANT LatestClaimWrites
PROPERTY ResultIsKept
PROPERTY UnfinishedRunEnds
