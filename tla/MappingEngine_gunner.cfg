CONSTANTS
  Unit = 4
  Mappings <- GunnerMappings
  Messages <- GunnerMessages
  Silent = Silent
SPECIFICATION Spec
INVARIANTS
  TypeOK
  SumOfLastContributions
  LastWriterWins
  OrderIndependent
  RedeliveryHarmless
  ReportShowsState
PROPERTIES
  NoCrossTalk
  AtomicSpec
