SPECIFICATION Spec
CONSTANTS
  Registry <- MCRegistry
  Own <- MCOwn
  Checkouts <- MCCheckouts
  Asks <- BridgeAsks
  Initialize <- BridgeHandshake
  Replies <- BridgeReplies
  Payloads <- BridgePayloads
  Timeout = 1
  MaxCalls = 4
  MaxLines = 2
  Chatter = {"request", "undecodable"}
  NoRow = NoRow
  NoTitle = NoTitle
  NoVerdict = NoVerdict
  NoLine = NoLine
  EOF = EOF
CHECK_DEADLOCK FALSE
INVARIANTS
  TypeOK
  VerdictOverAnswers
  McpTypeOK
  NoServerLeft
  ReturnsOwnAnswer
PROPERTIES
  KeepsItsPromise
  GateEnds
