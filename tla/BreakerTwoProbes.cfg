SPECIFICATION SafetySpec
CONSTANTS
  c1 = c1
  c2 = c2
  c3 = c3
  c4 = c4
  Callers = {c1, c2, c3}
  Unserializable = {}
  FailureThreshold = 3
  OpenTimeout = 2
INVARIANT AtMostOneProbe
