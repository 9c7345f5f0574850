SPECIFICATION Spec
CONSTANTS
  ClientOrderIds = {o1, o2}
  BrokerOrderIds = {b1, b2}
  Quantities = {0, 1, 2, 3}
  Prices = {3, 4}
  None = None
  Commands <- MCCommands
SYMMETRY Symmetry
INVARIANTS
  TypeOK
  FillsWithinOrder
  AcknowledgedOrdersCorrelated
  AverageIsVolumeWeighted
PROPERTIES
  ExecutedHistoryIsFixed
  CorrelationIsWriteOnce
CHECK_DEADLOCK FALSE
