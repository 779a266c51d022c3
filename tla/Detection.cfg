CONSTANTS
  Goroutine = {g1, g2}
  Nothing = Nothing
  Client = {c}
  Request <- Mixed
  WindowSize = 3
  MinLength = 2
  Limit <- Limits
  IdorLimit = 2
  ScrapeLimit = 3
  MaxRequests = 4
  Token = {t1, t2}
  Short = {t2}
  Address = {a, b}
  MaxFlags = 3
  Number = {n1, n2, n3}
  MaxEvents = 4
  Incident = {i1}
  MaxTransitions = 3
  MaxFaults = 1
SPECIFICATION Spec
SYMMETRY Interchangeable
INVARIANTS
  TypeOK
  ViolationsAreEarned
  SettledWindowsAreClean
  OneWindowPerClient
  SharedTokensAreFlagged
  EventsAccounted
  CountsOwnSource
  DuplicatesBounded
  StatusHasEffect
  TrailIsSound
CHECK_DEADLOCK FALSE
