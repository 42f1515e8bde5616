SPECIFICATION UnionSpec
CONSTANTS
  Users = {u1, u2}
  Tgs = {g1, g2}
  Null = Null
  Configs <- TwoRules
  Totals = {3}
  Parts = {2, 3}
  ConfirmBy = 1
  Ttl = 1
  SqlMax = 6
  Start = 4
  Deltas <- Loss
  MaxChanges = 1
  Tasks = {k1, k2}
  Worker = k1
  Nobody = Nobody
  Shares = 1
  Messages = 2
  Lease = 1
  Delay = 1
  MaxAttempts = 2
  MaxCrashes = 1
  Prompt = TRUE
  ServerErrorMayAccept = FALSE
INVARIANTS LedgerBalanced OneShareEach SharesExact EffectsInOrder
PROPERTIES ImplementsCardPost EverythingEnds
CHECK_DEADLOCK FALSE
