\* One change of a file, with two lines of text.
SPECIFICATION SplitSpec
CONSTANTS
  Worktrees = {w1}
  MaxOutside = 0
  MaxFaults = 0
  Boots = 0
  MaxEdits = 0
  MaxInspections = 0
  MaxLines = 2
  MaxHunks = 1
  Paths = {1}
  Budgets = {b1}
  MaxUsize = 15
  MaxText = 1
  MaxCalls = 1
  MaxCommits = 1
  MaxOthers = 0
  MaxTrouble = 0
  Privileged = FALSE
  MaxWrites = 1
  MaxReviews = 2
  MaxFailures = 0
  Issues = {i1, i2}
  MaxRoundsOfCall = 2
  MaxFindings = 2
  MaxVersions = 2
  MaxPrepares = 2
  MaxLapses = 1
  Approvals = {a1, a2}
  Callers = {c1, c2}
  Contexts = {x, y}
  MaxMoves = 1
  MaxSteps = 1
  OutputLimit = 3
  ChannelSize = 1
  MaxPrints = 0
  MaxRuns = 0
  MaxBreaks = 0
INVARIANT PayloadIsProtected
CHECK_DEADLOCK FALSE
