SPECIFICATION ReportSpec
CONSTANTS
  space = space
  f = f
  Keys <- MCKeys
  Injectable <- MCKeys
  AndroidKeys <- MCJumpKeys
  Backend = "GameActivity"
  KeyCallback = TRUE
  NoKey = NoKey
  Space = space
  MaxAge = 1
  Configs <- DrivenConfigs
  PlayerKeys <- MCTriggers
  Activities <- GoodActivities
  FrameCallback = TRUE
  GameTickHook = FALSE
  MaxLag = 0
  MaxPending = 1
  WriteInterval = 2
INVARIANTS NoStuckKey
PROPERTIES ShutdownLetsGo ReportKeptCurrent AutoFireShows
