CONSTANTS
  Unit = 4
  Handlers <- GunnerHandlers
  Sources <- GunnerSources
  YokeId = 7
  Unheard = Unheard
  Depth = 2
  Values <- PitchValues
  MaxArrivals = 3
SPECIFICATION Spec
CHECK_DEADLOCK FALSE
INVARIANTS
  TypeOK
  DeviceInSync
  ExitsAreClean
  ChannelsFollowSources
PROPERTIES
  OneSourceMoves
  DeviceEventuallyFollows
  StopEndsRun
