SPECIFICATION Spec
CONSTANTS
  onCreate = onCreate
  hurt = hurt
  gameTick = gameTick
  render = render
  server = server
  Hooks <- MCHooks
  Forgotten <- MCForgotten
  Threads <- MCThreads
INVARIANTS TypeOK JumpsLeadSomewhere PutBack CallsGoThrough
