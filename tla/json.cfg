SPECIFICATION Spec
CONSTANTS
  Values <- MCValues
  Ignored <- MCIgnored
  Respellings <- MCRespellings
  MaxEdits = 2
INVARIANTS HandEditsRead DamageRefused WhatIsWrittenReads
CHECK_DEADLOCK FALSE
