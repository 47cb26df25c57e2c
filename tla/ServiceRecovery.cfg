SPECIFICATION RecoverySpec
CONSTANTS
  NoNumber = NoNumber
  Installed <- MCInstalled
  OtherLines <- MCOtherLines
INVARIANTS
  TypeOK
  StatusMatchesWorker
  CleanStopReported
  FailureReported
  ServiceAsInstalled
PROPERTIES
  FailureIsRestarted
  StopEndsProcess
