CONSTANTS
  k1 = k1
  k2 = k2
  k3 = k3
  k4 = k4
  k5 = k5
  g1 = g1
  g2 = g2
  t1 = t1
  t2 = t2
  t3 = t3
  Keys = {k1, k2, k3, k4, k5}
  Retryable = {k3}
  Permitted = {k1, k2, k3, k5}
  Threads = {t1, t2, t3}
  Process <- MCProcess
  None = None
  MaxCalls = 3
  MaxLapses = 2
  MaxCrashes = 1
  Rooms = {1, 2}
  Inventories <- MCInventories
  Games = {g1, g2}
  Request <- MCRequest
SYMMETRY Symmetry
CHECK_DEADLOCK FALSE
SPECIFICATION Spec
INVARIANTS EffectsPerLostClaim AnswersAgree NoRoomBookedTwice AnswersHoldRooms
PROPERTY RememberedResultStays
