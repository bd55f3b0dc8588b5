SPECIFICATION Spec
CONSTANTS
  Email = {root, e1, cl}
  Client = {cl}
  Root = root
  Manager = {m1, m2}
  MaxPortalFaults = 2
  Ticket = {t1, t2}
  Year = {1, 2}
  Study = {s1}
  Customer = {c1}
  CustomerOf <- CustomerOfStudy
  Asker = {a1, a2}
  Post = {p1}
  Editor = {d1, d2}
  MaxDate = 2
  PersonType = {natural, legal}
  Dimension = {x1, x2}
  Required = {x1}
  Default <- DefaultDimensions
  Saver = {v1, v2}
  MaxVersions = 3
CHECK_DEADLOCK FALSE
INVARIANTS AccountsBelong TicketsNumbered PublicIsDated NewestInForce
