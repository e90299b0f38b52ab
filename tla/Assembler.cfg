CONSTANTS
  SourceFiles <- MCFiles
  MaxSections = 4
  MaxDefs = 2
  MaxOperands = 2
SPECIFICATION Spec
INVARIANTS
  TypeOK
  IdsLeadToData
  CodeComplete
  EventsLeadToCode
  NumbersInPlace
  
CHECK_DEADLOCK FALSE
