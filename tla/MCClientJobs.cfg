SPECIFICATION Spec
CONSTANTS
  Slot = {s1, s2, s3}
  NoSlot = NoSlot
  Completed = Completed
  Command = {"reload", "login", "logout", "block", "delete"}
  MaxEvents = 3
SYMMETRY Symmetry
INVARIANT OneAtATime AdminIsAdmin NoCircle UpdatesAlone
CHECK_DEADLOCK FALSE
