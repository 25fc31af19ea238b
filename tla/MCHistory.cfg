CONSTANTS
  Requests = {r1, r2, r3}
  Senders = {r1, r2}
  MAX_HANDLERS = 2
  MAX_BLOCKS = 2
  NoOne = NoOne
SPECIFICATION HistorySpec
CHECK_DEADLOCK FALSE
INVARIANTS
  SlotsAccounted
  OnlyTheHolderReads
  EvidenceIsWhole
  LossEndsTheRead
PROPERTIES
  EveryRequestEnds
