SPECIFICATION MCFairSpec
CONSTANTS
  Procs = {"cron", "desk"}
  Servers <- MCServers
  Independent <- MCIndependent
  LocalIP = "local"
  Checks <- MCChecks
  Threshold = 1
  MaxServers = 1
  CountLimit = 0
  QueryTimeout = 5
  WanChoices <- MCWanChoices
  FirmwareConfs <- MCFirmwareConfs
  Desk = "desk"
  UserModes <- MCUserModes
  OldSnapshots <- MCOldSnapshots
  IspDns <- MCIspDns
  ManualDns <- MCManualDns
  MaxTries = 2
  MaxTrouble = 1
VIEW MCView
PROPERTIES
  ScriptEnds
CHECK_DEADLOCK TRUE
