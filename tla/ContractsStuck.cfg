SPECIFICATION MCSpec
CONSTANTS
  Doc = {1, 2}
  MaxSigners = 2
  Sender = {s1}
  Hook = {h1}
  ApiSignature = TRUE
  MaxFaults = 1
CHECK_DEADLOCK FALSE
PROPERTIES SignedActivates
