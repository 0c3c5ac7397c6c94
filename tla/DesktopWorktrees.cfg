\* Two worktrees of one project; and what is read and recorded of others, one at a time.
SPECIFICATION SplitSpec
CONSTANTS
  Worktrees = {w1, w2}
  MaxOutside = 1
  MaxFaults = 1
  Boots = 1
  MaxEdits = 3
  MaxInspections = 1
  MaxLines = 3
  MaxHunks = 2
  Paths = {1, 2}
  Budgets = {b1, b2}
  MaxUsize = 15
  MaxText = 2
  MaxCalls = 4
  MaxCommits = 2
  MaxOthers = 2
  MaxTrouble = 2
  Privileged = TRUE
  MaxWrites = 3
  MaxReviews = 2
  MaxFailures = 2
  Issues = {i1, i2}
  MaxRoundsOfCall = 2
  MaxFindings = 2
  MaxVersions = 2
  MaxPrepares = 2
  MaxLapses = 1
  Approvals = {a1, a2}
  Callers = {c1, c2}
  Contexts = {x, y}
  MaxMoves = 1
  MaxSteps = 2
  OutputLimit = 3
  ChannelSize = 2
  MaxPrints = 2
  MaxRuns = 1
  MaxBreaks = 1
INVARIANTS
  SplitTypeOK OneHolder RowsMatchDisk ShownWasReal
  ExtractionIsExact TreeIsAccountedFor GateIsSound
PROPERTIES BrokenStaysBroken
CHECK_DEADLOCK FALSE
