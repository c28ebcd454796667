SPECIFICATION FairSpec
CONSTANTS
  Users = {alice, bob}
  Sessions = {s1, s2}
  Readers = {}
  ScanUsers = {}
  Delayed = TRUE
  TrackQuota = 2
  Restricted = {alice, bob}
  ProviderErrors = TRUE
  Sizes <- PlusMinus
  MaxStorage = 1
  MaxDrift = 2
INVARIANTS
  TypeOK
  QuotaExact
PROPERTIES
  LedgerSpec
  EventuallyStored
