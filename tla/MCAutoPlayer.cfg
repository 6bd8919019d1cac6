SPECIFICATION FairSpec
CONSTANTS
  Stopper = {s1, s2}
  Waiter = {w1}
  Starter = starter
  Destroyer = destroyer
  NoThread = NoThread
  MaxSongs = 3
  MaxCalls = 3
CHECK_DEADLOCK FALSE
INVARIANT OneSongAtATime
PROPERTY RemovedWhenOver
PROPERTY StartSeen
PROPERTY StopEndsSong
PROPERTY EveryStopReturns
PROPERTY DestructionEnds
