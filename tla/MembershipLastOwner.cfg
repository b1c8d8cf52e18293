SPECIFICATION Spec
CONSTANTS
  Founder = founder
  Users = {founder, u2}
  Invitations = {i1, i2}
  Requests = {r1, r2}
  MaxDeliveries = 2
  MaxRaces = 1
SYMMETRY Symmetry
CHECK_DEADLOCK FALSE
INVARIANT LastOwnerStays
