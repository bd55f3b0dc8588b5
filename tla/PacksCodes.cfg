SPECIFICATION Spec
CONSTANTS
  Company = {a, b}
  Offering = {o}
  Study = {}
  Code = {k0, k1}
  FullCode = {k0}
  Credits2 = {o}
  LocalTo = a
  Price = {4}
  Pack = {1, 2}
  Session = {s1}
  Buyer = {b1, b2}
  Hook = {h1}
  None = None
  Quantity <- MCQuantity
  ValidityDays <- MCValidityDays
  Charge <- MCCharge
  MinCharge = 2
  MaxRedemptions <- MCMaxRedemptions
  Scope <- MCScope
  ReversalKeepsTxnId = FALSE
  MaxDay = 0
  MaxEdits = 2
  MaxFaults = 0
  MaxResends = 0
CHECK_DEADLOCK FALSE
SYMMETRY InterchangeableIds
INVARIANTS RedemptionInScope QuotaKept
PROPERTIES FreeGrantRedeems
