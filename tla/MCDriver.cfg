CONSTANTS
  CommandLines <- MCCommandLines
  Libraries <- MCLibraries
  Names <- MCNames
  TypeNames <- MCTypeNames
  NULL = NULL
SPECIFICATION Spec
CHECK_DEADLOCK FALSE
INVARIANTS
  TypeOK
  ReadsAsMeant
  RecordsUsable
  LeavesOnly
PROPERTIES
  DeletedOnceByOwner
  ImplementsConversion
  ConversionEnds
