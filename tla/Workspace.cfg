SPECIFICATION Spec
CONSTANTS
  Users = {u1, u2}
  Slugs = {s1}
  Values = {v1, v2}
  Requests = {r1, r2}
  MaxWorkspaces = 1
SYMMETRY Symmetry
CHECK_DEADLOCK FALSE
INVARIANTS RefusedForDeleted
PROPERTIES EditsKeepApart
