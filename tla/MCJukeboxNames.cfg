SPECIFICATION Spec
CONSTANTS
  User = {u1, u2}
  Title = {t1, t2}
  NoPath = NoPath
  Slot = {r1, r2}
  NoSlot = NoSlot
  t1 = t1
  t2 = t2
  t3 = t3
  NotMp3 = NotMp3
  MAX_SONG_PER_USER = 1
  DistinctSeconds = FALSE
  MaxSongs = 2
  MaxSecond = 2
  MaxStops = 1
  AtMost <- UserTraffic
  Uploads = {t1,t2,NotMp3}
  MaxRestarts = 0
CHECK_DEADLOCK FALSE
PROPERTY NewNameUnused
