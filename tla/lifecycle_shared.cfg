SPECIFICATION Spec
CONSTANTS
  Coordinators = {c1, c2}
  Callers = {k1}
  Receivers = {r1}
  None = None
  Failures = {}
  BrokerDisconnects = TRUE
INVARIANT NoSecondOwner
