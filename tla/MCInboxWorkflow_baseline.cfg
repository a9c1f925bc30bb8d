SPECIFICATION Spec
CONSTANTS
  Files <- MCFiles
  Holds <- MCHolds
  Absent = Absent
  Null = Null
  NotText = NotText
  NotJson = NotJson
  NotAnObject = NotAnObject
  NoIdentity = NoIdentity
  Batches <- NoBatches
  Pulls <- BaselinePulls
  Declared = "public"
  MaxPushes = 2
INVARIANTS
  GreenBreaksNothing
CHECK_DEADLOCK FALSE
