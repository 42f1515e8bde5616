SPECIFICATION UnionSpec
CONSTANTS
  Users = {u1, u2, u3, u4, u5}
  Tgs = {a1, a2, a3, a4, a5}
  Null = Null
  Tables = {r1, r2}
  Topics = {1, 2}
  Seats = 5
  Stakes = {1}
  Start = 2
  Deltas <- Loss
  Lobby = 1
  MaxChanges = 2
  u1 = u1
  u2 = u2
  u3 = u3
  u4 = u4
  u5 = u5
  a1 = a1
  a2 = a2
  a3 = a3
  a4 = a4
  a5 = a5
  r1 = r1
  r2 = r2
  q1 = q1
  q2 = q2
  Pair = {u1, u2}
  Handles = {a1, a2}
  Company = {u1, u2, u3}
  Phones = {a1, a2, a3}
  MaxShifts = 1
  DuelStakes = {0, 2}
  Faces = {1, 2}
  MaxRounds = 3
  MaxRetries = 2
  MaxRelinks = 1
  ErrorsRefuse = TRUE
  Purse = 4
  Ante = 1
  MaxGuests = 2
  MaxSends = 2
  MaxDeletes = 2
  Messages <- Bets
  Capitals = {1}
  Multiple = 2
  Window = 1
  Wait = 3
  Period = 1
  Safety = 1
  LastTick = 5
  MaxResends = 1
  Cells = {1, 2}
  Requests = {q1, q2}
  Slots = {1}
  Cost = 1
  Rewards = {0, 2}
  PerPerson = 1
  Duration = 1
  Answer = 1
  Grace = 1
  MaxAttempts = 2
  MaxTime = 2
  MaxFaults = 1
INVARIANTS OneOpenTableEach PotsExact ShownOnce BetsAreBlind
PROPERTIES ResultIsFinal ImplementsWager GamesEnd
CHECK_DEADLOCK FALSE
