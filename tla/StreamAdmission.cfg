SPECIFICATION QSpec
CONSTANTS
  d1 = d1
  s1 = s1
  s2 = s2
  Sessions = {s1, s2}
  Devices = {d1}
  DeviceOf <- OneDevice
  Plays = {p1, p2}
  None = None
  Other = Other
  Policies <- EveryKind
  Grace = 1
  Restarts = 1
  Items = {i1}
  Rated = TRUE
  Shown = TRUE
  Direct = {p2}
  Age = 2
  Gap = 3
  Least = 1
  Null = Null
  MaxTime = 4
  MaxStarts = 1
  MaxReports = 4
  MaxPolls = 2
  MaxFaults = 1
INVARIANTS ViewingExact
PROPERTIES GrantWithinCap ReplacementKept SanctionedBeyondCap SeatsLapse
