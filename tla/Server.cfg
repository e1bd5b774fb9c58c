CONSTANTS
  Conn = {a, b, c}
  NoConn = NoConn
  Worker = {w1, w2}
  Limit = 2
  MaxStarts = 2
SPECIFICATION FairSpec
INVARIANTS TypeOK QuietAfterStop
PROPERTIES ConnectionIsAnswered StopEventuallyReturns
CHECK_DEADLOCK FALSE
