SPECIFICATION MCSpec
CONSTANTS
  Person = {p1, p2}
  Company = {c1, c2}
  Request = {r1, r2}
  Admin = {}
  MaxInvitations = 2
  MaxEdits = 1
CHECK_DEADLOCK FALSE
INVARIANTS ActiveByOwnAct AdministratorByRight
SYMMETRY InterchangeableIds
