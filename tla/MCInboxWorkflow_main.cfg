SPECIFICATION Spec
CONSTANTS
  Files <- MCFiles
  Holds <- MCHolds
  Absent = Absent
  Null = Null
  NotText = NotText
  NotJson = NotJson
  NotAnObject = NotAnObject
  NoIdentity = NoIdentity
  Batches <- MCBatches
  Pulls <- MainPulls
  Declared = "public"
  MaxPushes = 3
INVARIANTS
  TypeOK
  OneOpenIssue
  AppKeepsTheRules
  BreachesAreNamed
PROPERTIES
  RedIsReported
CHECK_DEADLOCK FALSE
