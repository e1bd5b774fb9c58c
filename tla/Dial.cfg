SPECIFICATION Spec
CONSTANTS
  Thread = {t1, t2}
  MaxSessions = 3
  MaxConns = 4
INVARIANTS
  TypeOK
  
  
  
CHECK_DEADLOCK FALSE
