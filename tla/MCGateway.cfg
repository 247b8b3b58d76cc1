SPECIFICATION FairSpec
CONSTANTS
  b = b
  s = s
  Conns <- MCConns
  Bots <- MCBots
  Addr <- MCAddr
  Permits = 1
  PerIp = 1
  MaxViolations = 2
  HelloBudget = 1
  Budget = 1
  SpectatorBudget = 1
  SilentBeats = 1
  OutboundBuffer = 1
  SpectatorBuffer = 1
  MatchTicks <- MCMatchTicks
INVARIANTS TypeOK SlotsAreReturned PromptBotIsKept
PROPERTIES RevokedIsCut SilentIsLetGo
CHECK_DEADLOCK FALSE
