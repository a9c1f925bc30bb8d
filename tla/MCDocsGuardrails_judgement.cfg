SPECIFICATION Spec
CONSTANT
  Checkouts <- MCJudgements
CHECK_DEADLOCK FALSE
INVARIANTS
  TypeOK
  TrueDoneIsBacked
  FalseDoneIsGrounded
  SameGates
