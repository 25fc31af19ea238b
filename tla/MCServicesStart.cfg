SPECIFICATION ServicesSpec
CONSTANTS
  Procs = {p1, p2}
  MaxLives = 3
  Attempts = 2
  ForceRestart = TRUE
SYMMETRY Pids
INVARIANTS
  OneHolderUnlessRaced
  OneTailscaled
PROPERTIES
  AloneSucceeds
CHECK_DEADLOCK FALSE
