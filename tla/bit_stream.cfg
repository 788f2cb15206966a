SPECIFICATION Spec
CONSTANTS
  Items <- MCItems
  MaxCalls = 3
  None = None
INVARIANTS
  WriterKeepsBits
  ReadsWhatWasWritten
  OtherTypesAreRefused
  ListsEndWhereTheyEnd
CHECK_DEADLOCK FALSE
