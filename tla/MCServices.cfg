SPECIFICATION FairSpec
CONSTANTS
  o1 = o1
  o2 = o2
  local = local
  public = public
  Operators <- TwoOperators
  Addresses <- TwoAddresses
  MaxListeners = 2
  MaxStarts = 2
INVARIANTS TypeOK StatusRowsBalance StatusIsTrue
PROPERTIES SwitchedOffStops
