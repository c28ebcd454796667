SPECIFICATION Spec
CONSTANTS
  Users = {alice}
  Sessions = {s1}
  Readers = {}
  ScanUsers = {alice}
  Delayed = TRUE
  TrackQuota = 1
  Restricted = {}
  ProviderErrors = FALSE
  Sizes <- PlusMinus
  MaxStorage = 1
  MaxDrift = 2
INVARIANT QuotaExact
