SPECIFICATION Spec
CONSTANTS
  Lists <- MCLists
  Runs <- MCRuns
  Row <- MCRow
  Events <- MCEvents
  Unbounded = Unbounded
  NotADate = NotADate
  NotAPrice = NotAPrice
  NotACount = NotACount
  NoSplit = NoSplit
  NoId = NoId
  NoVendor = NoVendor
  None = None
INVARIANTS
  TypeOK
  FiguresAreBills
  BreakdownsAddUp
  LabelNamesOneFigure
PROPERTIES
  NewerListsDoNotReachBack
