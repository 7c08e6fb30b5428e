SPECIFICATION Spec
CONSTANTS
  Games = {g1}
  Customers = {a, b}
  Windows <- MCOptions
  Processes = {p1, p2}
  SeatsTotal = 2
  MaxDrafts = 0
  MaxTime = 1
PROPERTY ClosedGamesStayClosed
