SPECIFICATION Spec
CHECK_DEADLOCK FALSE
CONSTANTS
  Unit <- MCUnit
  Documents <- MCDocuments
  Prefix <- MCPrefix
  Absent = Absent
  Bad = Bad
  NoInt = NoInt
INVARIANTS
  TypeOK
  GroupsAreTheFile
  OnlyServable
