SPECIFICATION FramesSpec
CONSTANTS
  space = space
  w = w
  f = f
  Keys <- MCKeys
  Injectable <- MCJumpKeys
  AndroidKeys = {}
  Backend = "DirectSymbols"
  KeyCallback = FALSE
  NoKey = NoKey
  Space = space
  MaxAge = 3
  Configs <- PatientConfigs
  PlayerKeys = {}
  Activities = {}
  FrameCallback = FALSE
  GameTickHook = TRUE
  MaxLag = 1
  MaxPending = 4
INVARIANTS TypeOK HeldBySequence GameAgrees NoCollapse CooldownStartsAtTheEnd
PROPERTIES HoldHonoured SequenceEnds
