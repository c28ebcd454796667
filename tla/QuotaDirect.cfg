SPECIFICATION Spec
CONSTANTS
  Users = {alice, bob}
  Sessions = {s1}
  Readers = {r1}
  ScanUsers = {alice}
  Delayed = FALSE
  TrackQuota = 2
  Restricted = {alice}
  ProviderErrors = TRUE
  Sizes <- PlusMinus
  MaxStorage = 1
  MaxDrift = 1
INVARIANTS
  QuotaExact
  
PROPERTIES
  LedgerSpec
