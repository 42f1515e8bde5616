SPECIFICATION UnionSpec
CONSTANTS
  Workers = {w1, w2}
  Tokens = {t1, t2, t3, t4}
  NoToken = NoToken
  Lease = 2
  Delay = 1
  MaxRev = 2
  Users = {u1, u2}
  Robot = robot
  Tables = {t1}
  Games = {"zjh", "holdem", "board"}
  Null = Null
  Points = 2
  Beans = 2
  Stake = 2
  BuyMax = 2
  MaxSeats = 2
  AutoHands = 1
  MaxChips = 5
  MaxTurns = 2
  MaxRequests = 4
  MaxChanges = 1
  FewRequests = 3
  u1 = u1
  t1 = t1
INVARIANTS DeletedIsGone TableMoney SeatsAgree
PROPERTIES ImplementsCardPost EnginesRight CentreSettles
CHECK_DEADLOCK FALSE
