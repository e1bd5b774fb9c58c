CONSTANTS
  Bits = 3
  K = 2
  myid = 0
  Contact <- MCContact
  Broken <- MCBroken
  NoAddr = NoAddr
  MaxBlacklisted = 2
  PingWait = 0
  Recent = 0
  Answered = 0
SPECIFICATION Spec
INVARIANTS TypeOK TableIsPartition ReplyIsClosest
PROPERTIES OnlySilentNodesLeave OffendersStayOut
