CONSTANTS
  FirstId <- ScaledIds
  Gap = 2
  Written <- SomeIds
  MaxRows = 0
  Content = {a, b}
  NoContent = NoContent
  Saver = {s1}
  Limit = 2
  MaxSaved = 1
  ByKey = {rules}
  ById = {policies}
  Key = {k, l}
  Value <- Values
  Fixed <- OneColumn
  NoBundle = NoBundle
  MaxId <- Ids
  Handler = {h1}
  Nothing = Nothing
  Rule = {r}
  Seeded = {}
  Watched = {}
  MaxEntries = 3
  Feature = {f, g}
  Size <- BodySizes
  Floor = 3
  MaxInt = 5
  MaxRequests = 1
  MaxFaults = 0
SPECIFICATION Spec
INVARIANTS EnforcedWasApproved
CHECK_DEADLOCK FALSE
