CONSTANTS
  p1 = p1
  p2 = p2
  p3 = p3
  s1 = s1
  daily = daily
  extra = extra
  added = added
  web = web
  db = db
  Switches <- TheSwitches
  Peers <- ThePeers
  Rosters <- TheRosters
  Percents <- ThePercents
  Timeouts <- TheTimeouts
  NoSwitch = NoSwitch
  Ids <- TheIds
  Triggers <- TheTriggers
  Actions <- TheActions
  Defaults <- TheDefaults
  Calendar <- TheCalendar
  Never = Never
  Unreadable = Unreadable
  MaxMinutes = 2
  MaxEvents = 1
  Names <- TheNames
  ConfigLists <- TheConfigLists
  NoFile = NoFile
  m1 = m1
  m2 = m2
  m3 = m3
  Senders <- TheSenders
  NoMessage = NoMessage
  friend = friend
  stranger = stranger
  i1 = i1
  i2 = i2
  c1 = c1
  c2 = c2
  t1 = t1
  t2 = t2
  Nobody = Nobody
  Remotes <- TheRemotes
  Invites <- TheInvites
  InviteFor <- TheInviteFor
  Conns <- TheConns
  Attempts <- TheAttempts
  MaxTries = 1
  MaxUnknown = 1
  MaxMeshEnds = 1
  MaxSealed = 4
SPECIFICATION DaemonsSpec
INVARIANTS
  QuorumBehindExecution
  OpenIsUndecided
  RunsCounted
  RemovedStaysOut
  NoOrphans
  StoppedStays
  QuietLinkLives
  ConnectedHasConnection
  NoPeerForgotten
  RemovedNotConnected
PROPERTIES
  DecisionIsFinal
  IntervalKept
  CrashIsNoticed
