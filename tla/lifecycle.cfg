SPECIFICATION FairSpec
CONSTANTS
  Coordinators = {c1, c2}
  Callers = {k1, k2}
  Receivers = {r1}
  None = None
  Failures = {"start", "stop", "reconcile", "connect", "close", "stuck receive", "cancel"}
  BrokerDisconnects = TRUE
INVARIANTS
  TypeOK
  StartedMeansRunning
  AdmittedMeansQuiescent
PROPERTIES
  ReleasedWhenDrained
  CommandsEnd
