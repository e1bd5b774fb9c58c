SPECIFICATION FairSpec
CONSTANTS
  Thread = {r1, r2}
  Pump = pump
  Messages = 2
  Size = 2
PROPERTIES
  HandledEventually
CHECK_DEADLOCK FALSE
