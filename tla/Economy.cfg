SPECIFICATION UnionSpec
CONSTANTS
  Users = {u1}
  Groups = {g1}
  White = white
  Null = Null
  Kinds = {"white"}
  Prices = {1}
  Limit = 2
  Points = 2
  BoostCap = 1
  Days = {0, 1}
  Levels = TRUE
  MaxFaults = 1
  MaxTime = 2
  MaxCards = 2
  MaxRevision = 3
  u1 = u1
  p1 = p1
  p2 = p2
  x1 = x1
  x2 = x2
  r1 = r1
  r2 = r2
  c1 = c1
  c2 = c2
INVARIANTS WhitelistExact LedgersExact
PROPERTIES AgreedAndSolvent EconomySettles
CHECK_DEADLOCK FALSE
