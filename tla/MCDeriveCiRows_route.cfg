SPECIFICATION Spec
CONSTANTS
  e1 = e1
  e2 = e2
  e3 = e3
  e4 = e4
  e5 = e5
  c1 = c1
  c2 = c2
  Runs = {e1, e2}
  Entry <- RerunEntry
  Commits = {c1, c2}
  IndexAt <- RerunIndex
  Paths <- MCPaths
  Heads <- RerunHeads
  Days <- MCDays
  Pulls <- RerunPulls
  Branches <- RerunBranches
  Hosts <- RerunHosts
  MayBecome <- RerunMoves
  Declarations <- RerunDeclarations
  NoFile = NoFile
  Torn = Torn
  NotRead = NotRead
  NoHead = NoHead
  NoDay = NoDay
  NoTask = NoTask
  NoCommit = NoCommit
  All = All
INVARIANT
  RouteNamesOneRun
