SPECIFICATION Spec
CONSTANTS
  NoNumber = NoNumber
  ArgumentSet <- MCArguments
  MaxArguments = 5
  Events = {first, second}
INVARIANTS
  
  UsageIsKept
PROPERTY EventEndsProcess
