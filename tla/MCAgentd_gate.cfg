CONSTANTS
  r1 = r1
  r2 = r2
  a1 = a1
  c1 = c1
  NoHandler = NoHandler
  NoId = NoId
  NoCommand = NoCommand
  Handlers <- TwoHandlers
  ApprovalIds <- OneId
  Commands <- OneCommand
  Destructive <- OneCommand
  Wrecks <- OneWreck
  KeepBackups = 1
  MaxEvents = 4
  MaxBackups = 1
  MaxCrashes = 1
SYMMETRY Symmetry
SPECIFICATION Spec
INVARIANTS
  TypeOK
  NoTornAppend
  AuditOnce
  ChainIntact
  AuditSound
PROPERTIES
  RefinesTickets
  AppendOnly
