SPECIFICATION Spec
CONSTANT
  Checkouts <- MCSemantic
CHECK_DEADLOCK FALSE
INVARIANT
  EmptyIsNeverClean
