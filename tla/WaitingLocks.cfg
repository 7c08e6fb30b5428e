CONSTANTS
  a = a
  b = b
  o = o
  da = da
  db = db
  g1 = g1
  g2 = g2
  Customers = {a, b}
  Demands = {da, db}
  Owner <- MCOwner
  Games = {g1, g2}
  Suits <- MCSuits
  Seats = 3
  Hosts <- MCNoGame
  Guests = {}
  Tools = {"create_game"}
  Threads = {t1, t2}
  None = None
  Lapsing = {db}
  LockWaits = FALSE
  MaxCalls = 2
  MaxDeaths = 0
CHECK_DEADLOCK FALSE
SPECIFICATION FairSpec
PROPERTY EveryRunEnds
