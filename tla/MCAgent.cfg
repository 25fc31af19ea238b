CONSTANTS
  TTL_COLLECTION = 2
  TTL_RAW = 7
  MAX_SPREAD = 1
  FUTURE_SECONDS = 1
  Reference <- MCReference
  STEP = 7
  WITHIN = 4
  SampleKinds <- MCKinds
  Journals <- MCJournals
  Evidence <- MCEvidence
  CliReports <- MCCliReports
  Lies <- MCLies
SPECIFICATION AgentSpec
CHECK_DEADLOCK FALSE
INVARIANTS
  SlotsAreTrue
  PostWindowAdvances
  CorrelationIsReportable
  DecisionsAreWitnessed
  PassIsComplete
