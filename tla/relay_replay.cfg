SPECIFICATION SenderSpec
CONSTANTS
  h1 = h1
  h2 = h2
  p1 = p1
  p2 = p2
  ai = ai
  work = work
  Handlers = {h1, h2}
  Procs = {p1}
  Sids <- MCSids1
  Messages <- ReplayMessages
  AccountOf <- MCAccountOf
  AnySession = AnySession
  AnyAccount = AnyAccount
  Blank = Blank
  NoProc = NoProc
  NoSid = NoSid
  NoMessage = NoMessage
  Skew = 1
  MaxLag = 1
  MaxClock = 4
  MaxRegs = 1
  MaxRestarts = 1
  MaxRewrites = 1
  Reregisters = FALSE
SYMMETRY HandlerSymmetry
INVARIANT TypeOK AtMostOnce AnswerIsTruth
PROPERTY DeliversOnce OnlyFreshIsTaken
