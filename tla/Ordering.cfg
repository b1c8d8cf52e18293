SPECIFICATION Spec
CONSTANTS
  Kinds = {"task", "section"}
  Items = {1, 2, 3}
  Initial = 2
  Requests = {r1, r2}
  MinGap = 8
  Gap = 16
  MaxWrites = 3
SYMMETRY Symmetry
CHECK_DEADLOCK FALSE
INVARIANTS TypeOK LoopsOnlyIfReversed
PROPERTIES PlacedAsAsked
