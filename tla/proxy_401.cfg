SPECIFICATION Spec
CONSTANTS
  r1 = r1
  r2 = r2
  k1 = k1
  Slots = {r1}
  Keys = {k1}
  NoKey = NoKey
  Labels <- MCLabels2
  NoLabel = NoLabel
  Unknown = Unknown
  Owns <- MCOwns
  Percents <- MCPercents
  SwitchAt = 90
  Hysteresis = 5
  MaxChanges = 1
  MaxRequests = 3
CHECK_DEADLOCK FALSE
INVARIANT NoSwapped401
