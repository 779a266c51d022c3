CONSTANTS
  FirstId <- ScaledIds
  Gap = 2
  Written <- SomeIds
  MaxRows = 4
  Content = {a, b}
  NoContent = NoContent
  Saver = {s1, s2}
  Limit = 2
  MaxSaved = 4
  ByKey = {rules}
  ById = {policies}
  Key = {k, l}
  Value <- Values
  Fixed <- OneColumn
  NoBundle = NoBundle
  MaxId <- Ids
  Handler = {h1, h2}
  Nothing = Nothing
  Rule = {r}
  Seeded = {}
  Watched = {}
  MaxEntries = 4
  Feature = {f, g}
  Size <- BodySizes
  Floor = 3
  MaxInt = 5
  MaxRequests = 3
  MaxFaults = 1
SPECIFICATION Spec
SYMMETRY Interchangeable
INVARIANTS
  TypeOK
  ValidatedTextIsSound
  StatusIsAudited
  OnlyObservedIsAllowed
  ObservationsAreKept
  TextIsWellFormed
  HistoryIsSound
  RowsAreDistinct
PROPERTIES
  PoliciesAreFixed
  NewestSurvives
  RestoreIsAtomic
CHECK_DEADLOCK FALSE
