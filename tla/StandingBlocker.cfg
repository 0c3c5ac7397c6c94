\* A repair that fails, a review that is retried.
SPECIFICATION Spec
CONSTANTS
  Kinds = {"codex"}
  Modes = {"manual"}
  Issues = {b1}
  Stray = {}
  MaxRounds = 1
  MaxReviewRetries = 1
  MaxTree = 1
  MaxVals = 4
  MaxTarget = 0
  MaxLives = 1
  Committers = {}
  Orphans = FALSE
  ChecksEdit = FALSE
INVARIANT GateHasNoStandingBlocker
CHECK_DEADLOCK FALSE
