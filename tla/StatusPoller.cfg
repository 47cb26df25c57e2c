SPECIFICATION Spec
CHECK_DEADLOCK FALSE
CONSTANTS
  Topics = {pitch, fire}
  Ours = {gunner}
  Foreign = {driver}
  Period = 2
  HeadStart = 4
  MaxAgo = 3
  MaxTotal = 3
INVARIANT RateOfWindow
