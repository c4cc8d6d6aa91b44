SPECIFICATION FairSpec
CONSTANTS
  Documents <- MCDocuments
  Template <- template
  Parts <- MCParts
  Reading <- MCReading
  Invalid = Invalid
  Absent = Absent
  NoDocument = NoDocument
  Mixed = Mixed
  Opens = {TRUE, FALSE}
  MaxEdits = 3
  MaxSecond = 4
CHECK_DEADLOCK FALSE
INVARIANTS TypeOK
PROPERTIES LastGoodKept ReloadsSettle PatientEditsTakeEffect
