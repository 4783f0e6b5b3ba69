SPECIFICATION FairSpec
CONSTANTS
  site = site
  meter = meter
  reading = reading
  Site = {site}
  Meter = {meter}
  Reading = {reading}
  Parent <- MCParent
  Row <- MCRow
  Promoter = {p}
  Runner = {r}
  Overlap = FALSE
  None = None
  Old = Old
  MaxFailures = 1
INVARIANTS TypeOK FullCovers
PROPERTIES ImplementsLayer EventuallyInCore
