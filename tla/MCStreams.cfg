SPECIFICATION FairSpec
CONSTANTS
  c0 = c0
  c1 = c1
  Clients <- TwoClients
  HEADER = 2
  CHUNK = 2
  CHANNEL = 2
  PayloadLen = 3
  BufferSize = 3
  Capacity = 8
  Waits = TRUE
  MaxPackets = 2
INVARIANTS TypeOK ReaderInStep MatchIsSound NoFalseAlarm
PROPERTIES StreamsDrain StopEndsClients
CHECK_DEADLOCK FALSE
