SPECIFICATION Spec
CONSTANTS
  Games = {g1, g2}
  Customers = {a, b}
  Windows <- MCWindows
  Processes = {p1}
  SeatsTotal = 2
  MaxDrafts = 2
  MaxTime = 1
CONSTRAINT InvitedOrProcessed
SYMMETRY Symmetry
INVARIANTS TypeOK TableIsNotOverbooked FilledGameIsFull OneUndecidedInvitation
PROPERTIES WinnerTakesItsPlayers SeatAndInvitationGoTogether ImplementsCommitments
