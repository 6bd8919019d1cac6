SPECIFICATION FairSpec
CONSTANTS
  PERCENTAGE_MULTIPLIER = 3
  MaxStep = 2
  Volume = {0, 3, 6}
  Truncated = {3}
  MaxPosts = 2
  MaxPolls = 2
CHECK_DEADLOCK FALSE
INVARIANT ScreenIsTrue
PROPERTY QuietIsFresh
PROPERTY RaiseNeverLowers
PROPERTY EveryGetEnds
