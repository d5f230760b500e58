SPECIFICATION Spec
CONSTANTS
  t1 = t1
  t2 = t2
  Threads <- TwoThreads
  Protocols <- UdpAndIp
  Lags <- LateOrAhead
  Misses <- JustTwo
  MaxTime = 2
  MaxSent = 1
  MaxRuns = 2
  MaxLegs = 1
  MaxSettings = 1
  LimitValues <- JustOne
  MaxJitter = 1
SYMMETRY Symmetry
INVARIANTS TypeOK JitterBounded
PROPERTIES FailureIsExplained
CONSTRAINT Interference
CHECK_DEADLOCK FALSE
