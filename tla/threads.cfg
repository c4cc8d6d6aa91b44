SPECIFICATION FairSpec
CONSTANTS
  Worlds <- MCWorlds
  MaxPending = 4
INVARIANTS TypeOK
PROPERTIES InOrder StopReturns TimerStandsDown
