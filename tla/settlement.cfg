SPECIFICATION Spec
CONSTANTS
  o1 = o1
  o2 = o2
  o3 = o3
  ClientOrderIds = {o1, o2, o3}
  BrokerOrderIds = {b1, b2}
  Quantities = {1, 2}
  Commands <- MCMismatch
  None = None
  Instrument = "I1"
  ExecutionPrice = 5
  Hours = {1, 2}
  FaultSets = {{"redelivery"}, {"redelivery", "loss", "lost answer", "false reject", "gap", "equal frames"}}
SYMMETRY Symmetry
INVARIANTS
  TypeOK
  SettledWhenDrained
  AtMostOnePhysicalOrder
PROPERTIES
  SettlesExactlyOnce
CHECK_DEADLOCK FALSE
