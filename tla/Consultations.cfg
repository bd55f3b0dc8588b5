SPECIFICATION Spec
CONSTANTS
  Doc = {1, 2}
  MaxSigners = 0
  Request = {r1, r2}
  Hook = {h1}
  MaxFaults = 1
  Email = {e1}
  NoEmail = NoEmail
  MaxTime = 3
  MaxQuery = 3
  Credits = 1
CHECK_DEADLOCK FALSE
INVARIANTS ConsultedWithConsent PaidOncePerWindow PaidIsStored
SYMMETRY InterchangeableIds
