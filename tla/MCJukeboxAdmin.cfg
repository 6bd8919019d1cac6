SPECIFICATION Spec
CONSTANTS
  User = {u1}
  Title = {t1,t2,t3}
  NoPath = NoPath
  Slot = {r1, r2}
  NoSlot = NoSlot
  t1 = t1
  t2 = t2
  t3 = t3
  NotMp3 = NotMp3
  MAX_SONG_PER_USER = 3
  DistinctSeconds = TRUE
  MaxSongs = 3
  MaxSecond = 3
  MaxStops = 1
  Uploads = {t1,t2,t3}
  AtMost <- AdminTraffic
  MaxRestarts = 0
SYMMETRY Symmetry
CHECK_DEADLOCK FALSE
INVARIANT CommittedOrders
PROPERTY RollbackLosesNothing
PROPERTY ImplementsPlaylist
