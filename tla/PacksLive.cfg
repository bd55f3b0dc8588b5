SPECIFICATION FairSpec
CONSTANTS
  Company = {a}
  Offering = {o}
  Study = {t1}
  Code = {}
  FullCode = {}
  Credits2 = {o}
  LocalTo = a
  Price = {4, 6}
  Pack = {1}
  Session = {s1}
  Buyer = {b1}
  Hook = {h1}
  None = None
  Quantity <- MCQuantity
  ValidityDays <- MCValidityDays
  Charge <- MCCharge
  MinCharge = 2
  MaxRedemptions <- MCMaxRedemptions
  Scope <- MCScope
  ReversalKeepsTxnId = TRUE
  MaxDay = 1
  MaxEdits = 1
  MaxFaults = 1
  MaxResends = 1
CHECK_DEADLOCK FALSE
PROPERTIES PaidBecomesUsable ConfirmationsAnswered UsableIsOnboarded
