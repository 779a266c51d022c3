CONSTANTS
  Tool = {"simulator", "surge", "replay", "probe", "single", "batch", "regression", "lookup",
          "indicators", "logs", "explain", "whyNot", "correlate", "redact", "timeline", "event",
          "snapshot", "diff", "spec"}
  Made <- Tools
  Question = {q1, q2, q3}
  None = None
  MaxCalls = 3
  Page = {"blocked", "cve", "dlp", "alerts", "nodes", "assets", "schemas", "onboarding",
          "events", "flight"}
  MaxRequests = 2
SPECIFICATION MCSpec
INVARIANTS TypeOK LockedToolsAnswerInOrder LatestIsShown
PROPERTIES AskingEnds FlagsAreReleased
