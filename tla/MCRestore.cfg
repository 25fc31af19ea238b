SPECIFICATION RecoverySpec
CONSTANTS
  Jffs <- MCJffs
  Opt <- MCOpt
  Hook = "post-mount"
  SOURCE_FILES <- MCSourceFiles
  DIRECTORIES <- MCDirectories
  MaxChanges = 2
CHECK_DEADLOCK FALSE
INVARIANTS
  ReportsAreTrue
  PublishedIsOneInstant
PROPERTIES
  SnapshotComesFirst
