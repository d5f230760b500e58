SPECIFICATION Spec
CONSTANTS
  shell = shell
  profile = profile
  Sessions <- OneSession
  Runners <- OneRunner
  MaxId = 4
  MaxLegacy = 2
  StatementsMayFail = FALSE
INVARIANTS TypeOK IdsUnique
PROPERTIES ImplementsLedger
