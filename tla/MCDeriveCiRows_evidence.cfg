SPECIFICATION Spec
CONSTANTS
  e1 = e1
  e2 = e2
  e3 = e3
  e4 = e4
  e5 = e5
  c1 = c1
  c2 = c2
  Runs = {e1, e2, e3, e4, e5}
  Entry <- EvidenceEntry
  Commits = {c1}
  IndexAt <- EvidenceIndex
  Paths <- MCPaths
  Heads <- MCHeads
  Days <- MCDays
  Pulls <- MCPulls
  Branches <- MCBranches
  Hosts <- EvidenceHosts
  MayBecome <- Still
  Declarations <- EvidenceDeclarations
  NoFile = NoFile
  Torn = Torn
  NotRead = NotRead
  NoHead = NoHead
  NoDay = NoDay
  NoTask = NoTask
  NoCommit = NoCommit
  All = All
INVARIANTS
  RowsRestOnEvidence
  FiledWhereItBelongs
PROPERTIES
  NoRowFromAPartialBatch
