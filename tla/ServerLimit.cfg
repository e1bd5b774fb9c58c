CONSTANTS
  Conn = {a, b, c}
  NoConn = NoConn
  Worker = {w1, w2}
  Limit = 2
  MaxStarts = 1
SPECIFICATION FairSpec
PROPERTIES RefusedOnlyWhenBusy
CHECK_DEADLOCK FALSE
