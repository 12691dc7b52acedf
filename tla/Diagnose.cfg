\* Three processes, two values, two tokens; logs of at most two lines.
CONSTANTS
  Values = {v1, v2}
  Tokens <- SomeTokens
  Profiles = {f1}
  NoProfile = NoProfile
  MaxRuns = 3
  NoTime = NoTime
  Lines <- SomeLines
  MaxLines = 2
SPECIFICATION Spec
INVARIANTS OnlyTokensLeave SomethingToAsk
\* The tool is not started more than MaxRuns times.
CHECK_DEADLOCK FALSE
