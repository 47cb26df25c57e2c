CONSTANTS
  Unit = 4
  Mappings <- SharedNameMappings
  Messages <- SteeringMessages
  Silent = Silent
SPECIFICATION Spec
INVARIANT SumOfLastContributions
