CONSTANTS
  Entries <- MCEntries
  Bases <- MCBases
  Pages <- MCPages
  NL = NL
  CR = CR
  FENCE = FENCE
  MISSING = MISSING
  NoBlock = NoBlock
  Deleted = Deleted
  p = p
  q = q
  link = link
  other = other
  key = key
  key2 = key2
  word = word
  word2 = word2
SPECIFICATION Spec
INVARIANT
  FrontmatterIsNoChange
CHECK_DEADLOCK FALSE
