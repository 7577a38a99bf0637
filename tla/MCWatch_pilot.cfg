CONSTANTS
  s1 = s1
  s2 = s2
  w1 = w1
  w2 = w2
  None = None
  Sessions <- OneSession
  Watchers <- OneWatcher
  Ladder <- ShortLadder
  Generation0 = 2
  MaxOrphans = 1
  MaxCuts = 1
  MaxCrashes = 1
SPECIFICATION FairSpec
INVARIANTS
  LadderUntilRestart
PROPERTIES
  ProbationEnds
  BeginAnswered
