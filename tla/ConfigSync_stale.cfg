CONSTANTS
  Rule = {r}
  NumSections = 2
  DefaultRules = {r}
  Handler = {h1, h2}
  NoSnapshot = NoSnapshot
  MaxVersion = 3
  MaxSnapshots = 1
SPECIFICATION FairSyncSpec
INVARIANTS QuiescentAgreement
CHECK_DEADLOCK FALSE
