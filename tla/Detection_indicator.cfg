CONSTANTS
  Goroutine = {g1}
  Address = {a}
  Nothing = Nothing
  Client = {c}
  Request <- Mixed
  WindowSize = 3
  MinLength = 2
  Limit <- Limits
  IdorLimit = 2
  ScrapeLimit = 3
  MaxRequests = 3
  Token = {t1}
  Short = {}
  MaxFlags = 1
  Number = {n1}
  MaxEvents = 1
  Incident = {i1}
  MaxTransitions = 1
  MaxFaults = 0
SPECIFICATION Spec
INVARIANTS ViolatorIsIndicated
CHECK_DEADLOCK FALSE
