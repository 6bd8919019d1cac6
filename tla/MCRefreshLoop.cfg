SPECIFICATION Spec
CONSTANTS
  Listener = {l1, l2, l3}
  Main = Main
  MaxStarts = 4
  MaxActive = 2
  MaxPeriods = 2
SYMMETRY Symmetry
CHECK_DEADLOCK FALSE
INVARIANT OneLoop
INVARIANT LoopFollowsView
