CONSTANTS
  s1 = s1
  s2 = s2
  w1 = w1
  w2 = w2
  None = None
  Sessions <- OneSession
  Watchers <- TwoWatchers
  Ladder <- FullLadder
  Generation0 = 2
  MaxOrphans = 0
  MaxCuts = 0
  MaxCrashes = 1
SPECIFICATION Spec
INVARIANTS
  Escalation
