SPECIFICATION Spec
CONSTANTS
  p1 = p1
  p2 = p2
  Providers = {p1, p2}
  Published <- MCPublished
  Address <- MCAddress
  Configured <- MCConfigured
  MaxStarts = 2
  MaxFaults = 0
  BufSize = 12
  PortSize = 100
CHECK_DEADLOCK FALSE
INVARIANT ExitsOnlyOnFault
