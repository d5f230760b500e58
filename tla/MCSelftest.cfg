SPECIFICATION SelftestFairSpec
CONSTANTS
  shell = shell
  s0 = s0
  Operators <- OneOperator
  Shell = shell
  Selftests <- OneSelftest
  MaxRuns = 2
INVARIANT LegsRecordedOnce
PROPERTY LegsGetVerdict
CONSTRAINT SessionIsQuiet
CHECK_DEADLOCK FALSE
