CONSTANTS
  r1 = r1
  r2 = r2
  w1 = w1
  eth = eth
  alice = alice
  nginx = nginx
  Nginx = Nginx
  byHand = byHand
  a1 = a1
  a2 = a2
  chat1 = chat1
  chat2 = chat2
  chat3 = chat3
  sysLogs = sysLogs
  svcLogs = svcLogs
  list = list
  shell = shell
  None = None
  Absent = Absent
  Torn = Torn
  NoDoc = NoDoc
  NoSkill = NoSkill
  Requests <- TheRequests
  Wallets <- TheWallets
  Chains <- OneChain
  ChainOf <- AllEthereum
  Rules <- TheRules
  Amounts <- TheAmounts
  Destinations <- TheDestinations
  DECIMALS = 1
  MaxFixed = 29
  MaxDay = 2
  MaxCrashes = 1
  MaxFaults = 1
  Units <- TheUnits
  Lower <- TheLower
  Sightings <- TheSightings
  Written <- TheWritten
  Titles <- TheTitles
  ApplyRequests <- TheApplyRequests
  MinMentions = 1
  ConfidentMentions = 3
  MinPoints = 3
  ConfidentTrend = 35
  MaxObservations = 2
  MaxApprovals = 2
  MaxEdits = 1
  Sessions <- TheChats
  Tools <- TheTools
  Stem <- TheStems
  Logs <- TheLogs
  MinLength = 3
  MaxLength = 6
  MinSessions = 3
  SlugTools = 3
  BatchSize = 10
  MinExecutions = 2
  MaxLogChanges = 1
  MaxExecutions = 2
  MaxSkillTroubles = 1
  i1 = i1
  i2 = i2
  Incidents <- TheIncidents
  NoIncident = NoIncident
  loop1 = loop1
  t1 = t1
  t2 = t2
  LoopIds <- TheLoops
  Turns <- TheTurns
  MaxLoops = 1
  MaxIterations = 2
  MaxErrors = 2
  DailyCap = 1
  MaxUse = 1
  MaxDays = 1
  MaxMishaps = 1
  NoLoop = NoLoop
  NoTurn = NoTurn
  Client = Client
  Inherited = 2
  MaxRecords = 6
  MaxTroubles = 2
  Foci = {"teach"}
SPECIFICATION ServicesSpec
INVARIANTS
  ApprovalPerRun
