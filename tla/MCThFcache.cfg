SPECIFICATION Spec
CONSTANTS
  Names = {a, b}
  Blocks = {e1, e2, e3, e4}
  Responses = {r1, r2}
  Nothing = Nothing
  MaxCached = 2
  MaxLost = 1
SYMMETRY Symmetry
CHECK_DEADLOCK FALSE
INVARIANTS RefsExact SlotsAreLive
