\* Two probes of a fast and a slow module that share a cache.
CONSTANTS
  Probes = {p1, p2}
  Modules = {"fast", "slow"}
  Caches = {"file"}
  CacheOf <- SharedCache
  RefreshInterval <- Intervals
  Retry = 2
  Timeouts = {0, 1, 3}
  Counters = {k1, k2}
  None = None
  MaxTime = 5
SPECIFICATION FairSpec
INVARIANTS TypeOK TimestampsTrue
PROPERTIES KeepsLease FetchesSpaced AnswersNeverGoBack EveryProbeAnswered
CHECK_DEADLOCK FALSE
