SPECIFICATION Spec
CONSTANTS
  Window = 2
  Threshold = 1
  MaxOpens = 1
  MaxBytes = 2
  MaxPings = 1
  Writers = {0}
  Quitters = {1}
INVARIANTS
  TypeOK
  CreditBounded
  BytesAccounted
  OpenIsAnswered
  
CHECK_DEADLOCK FALSE
