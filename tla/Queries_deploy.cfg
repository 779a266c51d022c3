CONSTANTS
  Tool = {"simulator"}
  Made <- Tools
  Question = {q1, q2}
  None = None
  MaxCalls = 1
  Page = {"blocked"}
  MaxRequests = 1
SPECIFICATION MCSpec
INVARIANTS DeployedWasSimulated
