SPECIFICATION Spec
CONSTANTS
  w1 = w1
  w2 = w2
  i1 = i1
  i2 = i2
  i3 = i3
  own = own
  second = second
  ops = ops
  Writers = {w1, w2}
  Inodes = {i1, i2, i3}
  NoFile = NoFile
  Empty = Empty
  Torn = Torn
  MaxWrites = 2
  Accounts = {own, second, ops}
  Own = own
  Logins = {second}
  Delegate = ops
  Key = Key
  NoAccount = NoAccount
  MaxDepth = 3
SYMMETRY LaunchSymmetry
INVARIANT BlocksAreKept RoutedRunsThere FailoverHolds ElsewhereIsMarked AgentsStayApart
