SPECIFICATION Spec
CONSTANTS
  Issuers <- MCIssuers
  Kids <- MCKids
  KidsOf <- MCKidsOf
  Metas = {roles, groups}
  Public = {roles}
  OriginsOf <- MCOriginsOf
  Calls = {c1}
  NoEntry = NoEntry
  NoKey = NoKey
  Unset = Unset
  Set = Set
  Native = FALSE
  Exclusive = TRUE
  Aftermath = TRUE
INVARIANTS TypeOK AdvertisedIsWired ProviderWhole AppliedMeansUsable
PROPERTIES ProviderSurvives TrustIsVisible SharedOriginStays
CHECK_DEADLOCK FALSE
