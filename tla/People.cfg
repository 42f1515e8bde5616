SPECIFICATION UnionSpec
CONSTANTS
  Users = {u1}
  Null = Null
  Points = 3
  Prices = {1}
  Dates = {1}
  Window = 1
  AutoWindow = 1
  Grace = 1
  Period = 2
  Requests = {}
  ErrorsRefuse = TRUE
  MaxTime = 4
  MaxIntents = 0
  MaxRenewals = 1
  MaxClaims = 3
  MaxChanges = 2
  MaxFaults = 2
  u1 = u1
  u2 = u2
  d1 = d1
  d2 = d2
  k1 = k1
  k2 = k2
  c1 = c1
  c2 = c2
  f1 = f1
  f2 = f2
  q1 = q1
  s1 = s1
  g1 = g1
  g2 = g2
  h1 = h1
  a1 = a1
  a2 = a2
  e1 = e1
  e2 = e2
INVARIANTS TermsAndTickets ActsJustified
PROPERTIES DeletedOnlyWhenDue StepsInOrder PeopleSettle
CHECK_DEADLOCK FALSE
