SPECIFICATION Spec
CONSTANTS
  LocalSong = {a, b}
  Upload = {u1, u2}
  List = {l1, l2}
  MAX_CONCURRENT_SENDING = 1
  MAX_OWNED = 2
SYMMETRY Symmetry
INVARIANT NotOfferedTwice LimitOfUploads SendingIsSent
