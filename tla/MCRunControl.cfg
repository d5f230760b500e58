SPECIFICATION FairSpec
CONSTANTS
  shell = shell
  Operators <- OneOperator
  Shell = shell
  MaxRuns = 2
INVARIANTS TypeOK TrafficHasRow OneExternalRow ClosedIsStopped
PROPERTIES StopEndsTraffic
CHECK_DEADLOCK FALSE
