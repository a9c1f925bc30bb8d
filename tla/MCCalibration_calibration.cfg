SPECIFICATION Spec
CONSTANTS
  Worlds <- MCWorlds
  Bridges <- MCBridges
  MaxRuns = 2
  RecordNumbers <- MCRecordNumbers
  Titles <- MCTitles
  NoIndex = NoIndex
  NoDir = NoDir
  NoStub = NoStub
  NoTitle = NoTitle
  NotBuilt = NotBuilt
  NoFile = NoFile
  Torn = Torn
INVARIANTS
  TypeOK
  ScoreIsCalibration
  GreenIsStillTrue
  MutantsBreakTheirGate
CHECK_DEADLOCK FALSE
