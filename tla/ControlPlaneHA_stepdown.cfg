CONSTANTS
  Process = {p1}
  Replica = {s1, s2}
  Timely = {p1}
  NoInstance = NoInstance
  LeaseTicks = 3
  StaleTicks = 5
  MaxUpsets = 1
SPECIFICATION Spec
INVARIANTS AtMostOneLeader
