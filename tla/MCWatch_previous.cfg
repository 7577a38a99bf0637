CONSTANTS
  s1 = s1
  s2 = s2
  w1 = w1
  w2 = w2
  None = None
  Sessions <- OneSession
  Watchers <- OneWatcher
  Ladder <- FullLadder
  Generation0 = 2
  MaxOrphans = 0
  MaxCuts = 0
  MaxCrashes = 0
SPECIFICATION Spec
PROPERTIES
  RollbackToPrevious
