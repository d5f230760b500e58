SPECIFICATION Spec
CONSTANTS
  shell = shell
  profile = profile
  Sessions <- OneSession
  Runners <- OneRunner
  MaxId = 3
  MaxLegacy = 1
  StatementsMayFail = TRUE
PROPERTY FinishedIsFinal
