SPECIFICATION CommandsLiveSpec
CONSTANTS
  r1 = "r1"
  r2 = "r2"
  ann = ann
  Requests <- TwoRequests
  torn = torn
  Torn <- TornFile
  Emails <- OneEmail
INVARIANTS CommandsTypeOK AdminUpdatesSerialise
PROPERTIES CommandsReturn
