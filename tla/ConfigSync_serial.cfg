CONSTANTS
  Rule = {r}
  NumSections = 3
  DefaultRules = {r}
  Handler = {h1}
  NoSnapshot = NoSnapshot
  MaxVersion = 4
  MaxSnapshots = 1
SPECIFICATION FairSyncSpec
INVARIANTS QuiescentAgreement
PROPERTIES EditsReachEnvoy
CHECK_DEADLOCK FALSE
