SPECIFICATION Spec
CONSTANTS
  valid = valid
  invalid = invalid
  a = a
  b = b
  c = c
  IPs = {a, b, c, d, e}
  Conns = {k1, k2}
  HostEvents = {valid}
  Score <- OneScore
  Threshold = 2
  BanTime = 1
  BanTimeIncrement = 50
  ObservationTime = 2
  EntriesSoftLimit = 1
  EntriesHardLimit = 2
  BlockFiles <- NoList
  SafeFiles <- NoList
  MaxTime = 2
  MaxBanTime = 3
SYMMETRY Symmetry
INVARIANTS
  HostsWithinHardLimit
  BannedNearHardLimit
PROPERTIES
  EvictsOldestHosts
  EvictsShortestBans
CHECK_DEADLOCK FALSE
