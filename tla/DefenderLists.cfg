SPECIFICATION Spec
CONSTANTS
  valid = valid
  invalid = invalid
  a = a
  b = b
  c = c
  IPs = {a, b, c}
  Conns = {k1, k2}
  HostEvents = {valid, invalid}
  Score <- TwoScores
  Threshold = 3
  BanTime = 2
  BanTimeIncrement = 50
  ObservationTime = 2
  EntriesSoftLimit = 1
  EntriesHardLimit = 2
  BlockFiles <- BlocksB
  SafeFiles <- SparesA
  MaxTime = 3
  MaxBanTime = 5
INVARIANTS
  TypeOK
  
  SafeHostsNeverBanned
  BlockedHostsNeverServed
CHECK_DEADLOCK FALSE
