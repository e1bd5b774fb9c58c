CONSTANTS
  Peer = {1, 2}
  Known = {2}
  Tokenless = {2}
  Broken = {2}
  Rotating = {1}
  SEARCH_NODES = 2
  Goal = 1
  Parallel = 1
  Port = {0, 7, 8}
  FirstPort = {7}
  Short = 1
  Wait = 0
  Jitter = 0
  Expire = 1
  Answered = 1
  MaxCalls = 2
  MaxSecrets = 2
  MaxPackets = 2
  NoToken = NoToken
SPECIFICATION FairSpec
INVARIANTS TypeOK NodesInOrder 
PROPERTIES SearchEnds
