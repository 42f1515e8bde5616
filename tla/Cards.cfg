SPECIFICATION UnionSpec
CONSTANTS
  Workers = {w1, w2}
  Tokens = {t1, t2, t3, t4}
  NoToken = NoToken
  Lease = 2
  Delay = 1
  MaxRev = 2
  ServerErrorMayAccept = FALSE
  Senders = {p1, p2}
  Winners = {w}
  MaxEntries = 1
  MaxAttempts = 2
  MaxRecoveries = 1
  MaxFaults = 1
  Prompt = TRUE
  Null = Null
INVARIANTS AtMostOneCard ShownAsRecorded
PROPERTIES ImplementsCardPost CardsCatchUp
CHECK_DEADLOCK FALSE
