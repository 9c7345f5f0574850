SPECIFICATION Spec
CONSTANTS
  Tracks <- MCTracks
  Templates <- MCTemplates
  KeyOf <- MCKeyOf
  Overnight <- MCOvernight
  Instruments = {i1, i2}
  Quantities = {1, 2}
  LegQuantities = {2}
  MaxTicks = 1
  MaxGroups = 1
  MaxOrders = 2
  MaxLoss = 1
  Balance = 10
  None = None
  MaxOrderQty = 2
  MaxDailyLoss = 1
  MaxPositionPerInstrument = 2
  MaxMarginPercent = 80
  MarginUnit = 2
SYMMETRY Symmetry
INVARIANTS
  Arbitrated
  TypeOK
  ExposureExplained
  NoHoleInGroup
PROPERTIES
  SentAsSignalled
  StoppedMeansSilent
CHECK_DEADLOCK FALSE
