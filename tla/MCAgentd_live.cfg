CONSTANTS
  r1 = r1
  r2 = r2
  a1 = a1
  c1 = c1
  NoHandler = NoHandler
  NoId = NoId
  NoCommand = NoCommand
  Handlers <- TwoHandlers
  ApprovalIds <- OneId
  Commands <- OneCommand
  Destructive <- OneCommand
  Wrecks = {}
  KeepBackups = 1
  MaxEvents = 3
  MaxBackups = 2
  MaxCrashes = 1
SPECIFICATION FairSpec
PROPERTIES
  EveryRequestAnswered
  PendingSettles
