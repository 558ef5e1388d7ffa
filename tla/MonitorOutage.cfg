SPECIFICATION FairMSpec
CONSTANTS
  Messages = {m1, m2}
  MaxStarts = 2
  MaxFails = 1
INVARIANT OutageIsVisible
CHECK_DEADLOCK FALSE
