SPECIFICATION Spec
CONSTANTS
  t1 = t1
  t2 = t2
  old = old
  new = new
  Threads = {t1,t2}
  Tokens = {old, new}
  NoToken = NoToken
  NoCache = NoCache
  MaxWrites = 3
SYMMETRY TokenSymmetry
INVARIANT TokenIsCurrent
