CONSTANTS
  Window <- MCWindow
  Names <- MCNames
  MAX_SKEW = 1
  MAX_DELAY = 1
  MAX_AHEAD = 1
  GAP_THRESHOLD = 2
  MAX_OUTPUT_ITEMS = 2
  Exports <- MCExports
  Forgeries <- MCForgeries
  MAX_GAP = 2
  MAX_EVENTS = 3
  MaxTime = 5
  MaxRows = 4
  MaxSwitches = 3
  TTL_COLLECTION = 2
  TTL_RAW = 5
  MAX_SPREAD = 0
  FUTURE_SECONDS = 0
  Targets = {t1, t2}
  One = t1
  TTL_SECONDS = 2
  MAX_COLLECTION_AGE = 3
  LOOKBACK = 5
  MAX_SPAN = 2
  LastMoment = 5
  MaxSamples = 3
SPECIFICATION EvidenceSpec
CHECK_DEADLOCK FALSE
INVARIANTS
  ReportIsSound
  ReportsAreAnswered
  AnsweredIsPossible
  ClaimsHappened
  DurationsAreBounds
  VerifiedIsComplete
  ClaimIsFresh
  DistinctMeansNewer
