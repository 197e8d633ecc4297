SPECIFICATION Spec
CONSTANTS
  p1 = p1
  p2 = p2
  a1 = a1
  k1 = k1
  k2 = k2
  i1 = i1
  i2 = i2
  i3 = i3
  Procs = {p1, p2}
  Keys = {k1, k2}
  Labels = {a1}
  Nobody = Nobody
  Inodes = {i1, i2, i3}
  Empty = Empty
  Torn = Torn
  NoKey = NoKey
  NoFile = NoFile
  NoEntry = NoEntry
  NoVerdict = NoVerdict
  CacheFor = 1
  MaxClock = 2
  MaxDecisions = 4
CHECK_DEADLOCK FALSE
SYMMETRY CacheSymmetry
INVARIANT FallbackIsHonest
PROPERTY LastAnswerStands
