SPECIFICATION Spec
CONSTANTS
  Games = {g1, g2}
  Customers = {a, b}
  Windows <- MCOptions
  Processes = {p1}
  SeatsTotal = 2
  MaxDrafts = 0
  MaxTime = 1
INVARIANT OneCommitmentPerWindow
SYMMETRY Symmetry
