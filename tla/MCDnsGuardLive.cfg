SPECIFICATION MCFairSpec
CONSTANTS
  Procs = {"cron", "op"}
  Servers <- MCServers
  Independent <- MCIndependent
  LocalIP = "local"
  Checks <- MCChecks
  Threshold = 2
  MaxServers = 1
  CountLimit = 1
  QueryTimeout = 5
  WanChoices <- MCWanChoices
  FirmwareConfs <- MCFirmwareConfs
  MaxTrouble = 2
PROPERTIES
  FailsOpen
  Recovers
CHECK_DEADLOCK TRUE
