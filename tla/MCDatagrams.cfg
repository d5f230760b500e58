SPECIFICATION Spec
CONSTANTS
  c0 = c0
  c1 = c1
  Clients <- TwoClients
  ClientId <- OwnIds
  MaxSeq = 2
  MaxReceived = 4
  Waits = TRUE
  PacketSize = 1
  BufferSize = 1
  Settled = TRUE
INVARIANTS TypeOK MatchIsSound NoFalseAlarm NoFalseFlags
CHECK_DEADLOCK FALSE
