SPECIFICATION FairSpec
CONSTANTS
  p0 = p0
  p1 = p1
  Posts <- TwoPosts
  MaxRuns = 2
INVARIANTS TypeOK PostIsBusy
PROPERTIES StatusSettles PortComesBack
CHECK_DEADLOCK FALSE
