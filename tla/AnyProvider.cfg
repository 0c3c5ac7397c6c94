\* Every provider and mode, orphaned providers, checks that edit, one restart.
SPECIFICATION Spec
CONSTANTS
  Kinds <- AllKinds
  Modes <- WorkflowMode
  Issues = {b1, b2}
  Stray = {b2}
  MaxRounds = 1
  MaxReviewRetries = 1
  MaxTree = 1
  MaxVals = 4
  MaxTarget = 1
  MaxLives = 2
  Committers = {}
  Orphans = TRUE
  ChecksEdit = TRUE
INVARIANTS TypeOK GateIsClean PickedAtMostOnce RecoveringHasNoOwner
PROPERTIES StoreNeverRefuses HumanDecides
CHECK_DEADLOCK FALSE
