CONSTANTS
  Unit = 4
  Handlers <- FireHandlers
  Sources <- FireSources
  YokeId = 7
  Unheard = Unheard
  Depth = 2
  Values <- PitchValues
  MaxArrivals = 4
SPECIFICATION Spec
CHECK_DEADLOCK FALSE
INVARIANT PrefilterIsRedundant
