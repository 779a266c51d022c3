CONSTANTS
  Rule = {r}
  NumSections = 3
  DefaultRules = {r}
  Handler = {h1, h2}
  NoSnapshot = NoSnapshot
  MaxVersion = 3
  MaxSnapshots = 1
SPECIFICATION Spec
SYMMETRY Requests
INVARIANTS TypeOK AssembledWasStored
PROPERTIES UndisturbedSyncPublishesStore PublishesAtomically
