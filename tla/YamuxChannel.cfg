SPECIFICATION FairSpec
CONSTANTS
  Thread = {r1, r2}
  Pump = pump
  Messages = 2
  Size = 2
INVARIANTS
  TypeOK
  
  BytesInOrder
  MessagesInOrder

  
CHECK_DEADLOCK FALSE
