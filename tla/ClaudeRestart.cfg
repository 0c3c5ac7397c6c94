\* Claude runs, one restart.
SPECIFICATION Spec
CONSTANTS
  Kinds <- ClaudeOnly
  Capacity = 1
  MaxLines = 0
  MaxFaults = 0
  Asking <- ClaudeOnly
  Deciders = {d1}
  MaxCancels = 1
  Boots = 1
INVARIANTS RestartEndsContexts
CHECK_DEADLOCK FALSE
