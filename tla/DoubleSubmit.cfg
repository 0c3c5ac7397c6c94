\* One request, a second attempt at it, and a process that ends.
SPECIFICATION Spec
CONSTANTS
  Ids = {r1}
  Intents <- StartTask
  Loose = {}
  Gates <- Submissions
  GateOf <- StartGate
  Kept <- Submissions
  NoGate = "ungated"
  NoId = "no id"
  StoreFails = TRUE
  MaxSends = 1
  MaxVersion = 2
  MaxProcesses = 2
INVARIANT GatesOpenAtTheEnd
CHECK_DEADLOCK FALSE
