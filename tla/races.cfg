SPECIFICATION FairSpec
CONSTANTS
  space = space
  w = w
  Keys <- MCKeys
  Space = space
  Worlds <- MCWorlds
  MaxPresses = 2
INVARIANTS TypeOK HeldBySequence
PROPERTIES SequenceEnds
