SPECIFICATION Spec
CONSTANTS
  Labels <- MCLabels
  Percents <- MCPercents
  NoLabel = NoLabel
  Unknown = Unknown
  SwitchAt = 90
  Hysteresis = 5
PROPERTY LeavingNeedsRise
