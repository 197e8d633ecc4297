SPECIFICATION NodeSpec
CONSTANTS
  Limit = 2
  MaxEvents = 4
  MaxRestarts = 1
  MaxOutages = 2
  N = 2
  Source <- MCSource
  Old = 2
  MaxAsk = 1
  MaxDowns = 1
  Minutes = 2
  Passes = {p1, p2}
  MaxFlaps = 3
  MaxStarts = 1
  MaxPasses = 4
  Scripts <- MCScripts
  MaxEnters = 3
  Quick = TRUE
  Fallbacks = 1
  MaxNetChanges = 3
INVARIANT InOrder AgeIsHonest OkMeansDone NoRestartIsLost PickersAreLeft UpKeepsThePort
PROPERTY BacklogReachesHub NewestStays AccountsAreSampled RunsEnd PromptsArePassed TunnelComesBack
CHECK_DEADLOCK FALSE
