SPECIFICATION Spec
CONSTANTS
  c1 = c1
  c2 = c2
  c3 = c3
  c4 = c4
  Callers = {c1, c2, c3, c4}
  Unserializable = {c1, c2}
  FailureThreshold = 3
  OpenTimeout = 2
INVARIANTS
  Inv
  ProbeInFlight
PROPERTIES
  OneAdmissionPerTimeout
  RecoversForGood
  RejectionEnds
