SPECIFICATION Spec
CONSTANTS
  Turns = 2
  Calls = 3
  Frames = 3
  Faults = 1
  QueueLimit = 2
  MaxPending = 1
  Sessions = {s1, s2}
  First = s1
  Lines = 3
  Rounds = 3
  MaxCalls = 2
  StoreFaults = 1
  CustomRoles = {"reviewer", "repair"}
  Mutations = 2
  SaveFaults = 1
  MaxLines = 4
  LaterLines = 1
  MaxUnits = 15
  Replies = 2
  MaxModels = 3
  MaxPages = 2
  MaxShifts = 1
INVARIANTS
  TypeOK
  TurnRecorded
  RequestsSettled
  ProcessIsAccountedFor
  ChatIsFaithful
  CancelBounds
  RunSettles
  SettingsAgree
CHECK_DEADLOCK FALSE
