SPECIFICATION FairSpec
CONSTANTS
  Documents <- MCDocuments
  Template <- template
  Parts <- MCParts
  Reading <- MCReading
  Invalid = Invalid
  Absent = Absent
  NoDocument = NoDocument
  Mixed = Mixed
  Opens = {TRUE}
  MaxEdits = 2
  MaxSecond = 2
CHECK_DEADLOCK FALSE
PROPERTIES EditsTakeEffect
