SPECIFICATION Spec
CONSTANTS
  o1 = o1
  o2 = o2
  o3 = o3
  ClientOrderIds = {o1, o2}
  BrokerOrderIds = {b1, b2}
  Quantities = {1, 2}
  Commands <- MCCommands
  None = None
  Instrument = "I1"
  ExecutionPrice = 5
  Hours = {1, 2}
  FaultSets = {{"late notice"}}
SYMMETRY Symmetry
INVARIANT NeverOverSettled
CHECK_DEADLOCK FALSE
