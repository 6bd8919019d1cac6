SPECIFICATION Spec
CONSTANTS
  User = {u1}
  Title = {t1,t2,t3}
  NoPath = NoPath
  Slot = {r1, r2}
  NoSlot = NoSlot
  t1 = t1
  t2 = t2
  t3 = t3
  NotMp3 = NotMp3
  MAX_SONG_PER_USER = 3
  DistinctSeconds = TRUE
  MaxSongs = 2
  MaxSecond = 3
  MaxStops = 1
  Uploads = {t1,t2,t3}
  AtMost <- DeletionTraffic
  MaxRestarts = 0
CHECK_DEADLOCK FALSE
PROPERTY StopHitsItsSong
