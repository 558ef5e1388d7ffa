\* Three connections for two slots.
SPECIFICATION Spec
CONSTANTS
  Conns = {c1, c2, c3}
  MaxConnections = 2
  MaxTxn = 2
SYMMETRY ConnSymmetry
INVARIANTS SlotsConserved AnswersAreTrue EnvelopeOfOneTransaction
CHECK_DEADLOCK FALSE
