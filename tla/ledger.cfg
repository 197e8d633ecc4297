SPECIFICATION LedgerSpec
CONSTANTS
  Windows <- MCWindows
  Scoped <- MCScoped
  HubRecords <- Records
  Percents <- MCPercents
  MaxPercent = 105
  Resets <- MCResets
  NoReset = NoReset
  Unknown = Unknown
  Stale = 2
  ResetSoon = 2
  Fallback = 1
  MaxLate = 1
  MaxClock = 5
INVARIANT InForceIsFull HeadersCount NothingStaleDecides
