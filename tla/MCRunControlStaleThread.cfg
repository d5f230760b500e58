SPECIFICATION Spec
CONSTANTS
  shell = shell
  Operators <- OneOperator
  Shell = shell
  MaxRuns = 2
INVARIANT OutcomeIsOwn
CHECK_DEADLOCK FALSE
