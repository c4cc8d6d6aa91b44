SPECIFICATION Spec
CONSTANTS
  Worlds <- TakeOverWorlds
  MaxPending = 4
INVARIANTS NothingLeftDown
