\* Two repair rounds with an API provider.
SPECIFICATION Spec
CONSTANTS
  Kinds = {"api"}
  Modes = {"manual"}
  Issues = {b1}
  Stray = {}
  MaxRounds = 2
  MaxReviewRetries = 1
  MaxTree = 1
  MaxVals = 4
  MaxTarget = 0
  MaxLives = 1
  Committers = {}
  Orphans = FALSE
  ChecksEdit = FALSE
INVARIANT RepairIsAccepted
CHECK_DEADLOCK FALSE
