SPECIFICATION FairSpec
CONSTANTS
  h0 = h0
  h1 = h1
  Hosts <- TwoHosts
  RunId <- OwnRunIds
  MaxRuns = 2
  Interactive = FALSE
INVARIANTS TypeOK BothSidesAgree
PROPERTIES KeepsServing DebriefEnds PortIsFreed
