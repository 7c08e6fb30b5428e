CONSTANTS
  a = a
  b = b
  o = o
  da = da
  db = db
  g1 = g1
  g2 = g2
  Customers = {a, b, o}
  Demands = {da, db}
  Owner <- MCOwner
  Games = {g1, g2}
  Suits <- MCOneEach
  Seats = 2
  Hosts <- MCOneGame
  Guests = {o}
  Tools = {"create_game", "join_game", "record_candidate_reply", "record_registered_member_withdrawal"}
  Threads = {t1, t2}
  None = None
  Lapsing = {db}
  LockWaits = TRUE
  MaxCalls = 2
  MaxDeaths = 1
CHECK_DEADLOCK FALSE
SPECIFICATION FairSpec
INVARIANTS OneNoticePerMatch ClaimIsNotForgotten OneThreadPerConversation
PROPERTY EndedDemandStaysEnded
PROPERTY EveryRunEnds
