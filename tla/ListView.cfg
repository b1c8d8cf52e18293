SPECIFICATION ListViewSpec
CONSTANTS
  Nobody = nobody
  Users = {a, u}
  Admins = {a}
  Creator = u
  Sections = {general, s2}
  General = general
  Tasks = {k1}
  Requests = {r1, r2}
  MaxRows = 3
SYMMETRY Symmetry
CHECK_DEADLOCK FALSE
INVARIANTS TypeOK LiveTasksHaveSections OneProjectOwner AssigneesWereMembers ViewLosesNoTask
PROPERTIES FrozenProject
