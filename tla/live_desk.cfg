SPECIFICATION Spec
CONSTANTS
  Ids = {i1, i2}
  Callers = {c1, c2}
  Modes = {"DEMO", "LIVE"}
  MaxOpen = 1
  MaxSends = 3
  None = none
SYMMETRY Symmetry
INVARIANTS TypeOK GateCoherent PositionsWithinLimit SentAgainOnlyAfterRaise ArmedIsEarned
