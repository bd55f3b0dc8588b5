SPECIFICATION MCSpec
CONSTANTS
  Doc = {1, 2, 3}
  MaxSigners = 3
  Sender = {s1, s2}
  Hook = {h1, h2}
  ApiSignature = TRUE
  MaxFaults = 1
CHECK_DEADLOCK FALSE
INVARIANTS ActiveBySignature SignedByClient RefusalIsReal SignersOfDeliveries
PROPERTIES SignatureKept FirstContractActivates
