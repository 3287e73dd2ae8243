SPECIFICATION ScrollSpec
CONSTANTS
  Rows = {a, b, c, d}
  Limit = 2
  MaxKey = 4
  Lag = 1
SYMMETRY Symmetry
INVARIANTS
  HistoryIsComplete
  NoneTwice
  RoomsAreListed
