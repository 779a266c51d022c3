CONSTANTS
  Process = {p1, p2}
  Replica = {s1}
  Timely = {p1}
  NoInstance = NoInstance
  LeaseTicks = 2
  StaleTicks = 3
  MaxUpsets = 2
SPECIFICATION FairSpec
INVARIANTS TypeOK LeaderIsActive
PROPERTIES LeaseIsHonoured LeadershipRecovers
