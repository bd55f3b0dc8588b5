SPECIFICATION Spec
CONSTANTS
  Company = {a}
  Offering = {o}
  Study = {t1, t2, t3}
  Code = {}
  FullCode = {}
  Credits2 = {o}
  LocalTo = a
  Price = {4}
  Pack = {1}
  Session = {s1, s2}
  Buyer = {b1}
  Hook = {h1, h2}
  None = None
  Quantity <- MCQuantity
  ValidityDays <- MCValidityDays
  Charge <- MCCharge
  MinCharge = 2
  MaxRedemptions <- MCMaxRedemptions
  Scope <- MCScope
  ReversalKeepsTxnId = FALSE
  MaxDay = 0
  MaxEdits = 0
  MaxFaults = 0
  MaxResends = 0
CHECK_DEADLOCK FALSE
SYMMETRY InterchangeableIds
INVARIANTS LedgerMatches WithinQuantity PaidBeforeUse
PROPERTIES ConsumptionSurvives CreditsRefined
