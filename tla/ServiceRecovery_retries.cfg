SPECIFICATION RecoverySpec
CONSTANTS
  NoNumber = NoNumber
  Installed <- MCInstalled
  OtherLines <- MCOtherLines
INVARIANT RetriesAreLimited
