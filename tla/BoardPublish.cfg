CONSTANTS
  Games <- TwoGames
  Seats <- TwoGamesSeats
  Publications <- EnoughPublications
  Workers = {w1, w2}
  None = None
  MaxAttempts = 2
  MaxChanges = 3
  MaxFaults = 1
CHECK_DEADLOCK FALSE
SPECIFICATION FairSpec
INVARIANTS TypeOK QuotedNumberMeansItsGame UnquotedNumberMeansLastBoard NoChangeIsForgotten
PROPERTIES BoardSettles ImplementsLeasedWork
