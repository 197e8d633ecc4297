SPECIFICATION DeliverySpec
CONSTANTS
  h1 = h1
  h2 = h2
  p1 = p1
  p2 = p2
  ai = ai
  work = work
  Handlers = {h1}
  Procs = {p1, p2}
  Sids <- MCSids2
  Messages <- DeliveryMessages
  AccountOf <- MCAccountOf
  AnySession = AnySession
  AnyAccount = AnyAccount
  Blank = Blank
  NoProc = NoProc
  NoSid = NoSid
  NoMessage = NoMessage
  Skew = 1
  MaxLag = 1
  MaxClock = 0
  MaxRegs = 3
  MaxRestarts = 0
  MaxRewrites = 0
  Reregisters = TRUE
INVARIANT NewestLiveWins
PROPERTY NotFoundMeansNone HandlersGetOn EveryRequestEnds
