\* The desktop application: every kind of run, one line of output, one fault, one
\* restart, a live channel of two events, one cancellation of a context.  The
\* bridge: two requests of two ids, or one and one change of the store, one restart.
\* The supervisor: no automatic integration, one restart, providers that commit.
SPECIFICATION AppsFairSpec
CONSTANTS
  Kinds <- AllRuns
  Capacity = 2
  MaxLines = 1
  MaxFaults = 1
  Asking <- Askers
  Deciders = {d1, d2}
  MaxCancels = 1
  Boots = 1
  Ids = {r1, r2}
  FirstId = r1
  Intents <- TwoIntents
  Loose <- LooseIntent
  Gates <- OneGate
  GateOf <- GateMap
  Kept <- OneGate
  NoGate = "ungated"
  NoId = "no id"
  StoreFails = TRUE
  MaxSends = 2
  MaxVersion = 2
  MaxProcesses = 2
  TaskKinds <- AllTasks
  Modes = {"manual", "direct_edit"}
  Issues = {b1}
  MaxRounds = 1
  MaxReviewRetries = 1
  MaxTree = 1
  MaxVals = 3
  MaxLives = 2
  Committers = {"claude"}
INVARIANTS AppsTypeOK OneEnding ShownIsHistory NothingLeftRunning EndedContextEndsRun CalledAtMostOnce AcceptanceIsFinal
PROPERTIES SettledStays CancelSettles EndIsShown GateSettles ViewConverges ReviewSettles TurnIsConsumed
CHECK_DEADLOCK FALSE
