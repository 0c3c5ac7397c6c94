\* No OMP, no orphans, checks that only read; two blockers and two rounds.
SPECIFICATION Spec
CONSTANTS
  Kinds <- QuietKinds
  Modes <- WorkflowMode
  Issues = {b1, b2}
  Stray = {}
  MaxRounds = 2
  MaxReviewRetries = 1
  MaxTree = 2
  MaxVals = 4
  MaxTarget = 1
  MaxLives = 2
  Committers = {"claude"}
  Orphans = FALSE
  ChecksEdit = FALSE
INVARIANTS ReleasedTreeWasReviewed StageHasQuietTree RepairHasWork
SYMMETRY IssueSymmetry
CHECK_DEADLOCK FALSE
