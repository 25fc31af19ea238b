SPECIFICATION RecoverySpec
CONSTANTS
  Jffs <- MCJffs
  Opt <- MCOpt
  Hook = "post-mount"
  SOURCE_FILES <- MCSourceFiles
  DIRECTORIES <- MCDirectories
  MaxChanges = 2
INVARIANTS
  RollbackReportIsTrue
CHECK_DEADLOCK FALSE
