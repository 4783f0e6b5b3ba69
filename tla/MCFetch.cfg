SPECIFICATION Spec
CONSTANTS
  Record = {1, 2, 3}
  Instant <- MCInstant
  Dataset <- MCDataset
  Thread = {t, u}
  MaxMtime = 3
  Since = 2
  PageSize = 1
  MaxAttempts = 2
  BaseDelay = 1
  MaxDelay = 2
  RetryAfter = {5}
CHECK_DEADLOCK FALSE
INVARIANTS TypeOK CacheCoherent ServedFresh NothingTwice NothingSkipped PageBounded
PROPERTIES FetchEnds
