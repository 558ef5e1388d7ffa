\* Two messages, two starts, one failed query.
SPECIFICATION FairMSpec
CONSTANTS
  Messages = {m1, m2}
  MaxStarts = 2
  MaxFails = 1
INVARIANTS NothingUncounted
PROPERTY DeadLettersWarned
CHECK_DEADLOCK FALSE
