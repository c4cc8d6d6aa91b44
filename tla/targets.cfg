SPECIFICATION Spec
CONSTANTS
  Wild = Wild
  Garbled = Garbled
  NoFile = NoFile
  Invalid = Invalid
  Starts <- MCStarts
  Exported <- MCExported
  Byte <- MCByte
INVARIANTS TypeOK OnlyThePlayersDamage TargetsStandAlone FindsTheOccurrence
CHECK_DEADLOCK FALSE
