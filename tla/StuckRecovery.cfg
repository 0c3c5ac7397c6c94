\* A restart while a Claude turn runs.
SPECIFICATION FairSpec
CONSTANTS
  Kinds = {"claude"}
  Modes = {"manual"}
  Issues = {b1}
  Stray = {}
  MaxRounds = 1
  MaxReviewRetries = 1
  MaxTree = 1
  MaxVals = 3
  MaxTarget = 0
  MaxLives = 2
  Committers = {}
  Orphans = FALSE
  ChecksEdit = FALSE
PROPERTY RecoverySettles
CHECK_DEADLOCK FALSE
