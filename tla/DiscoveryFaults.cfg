SPECIFICATION Spec
CONSTANTS
  c1 = c1
  c2 = c2
  h1 = h1
  h2 = h2
  Zk = Zk
  Callers = {c1}
  MaxNode = 2
  Hosts = {h1,h2}
  MaxEdits = 1
  MaxLoss = 2
  MethodMayBeMissing = TRUE
INVARIANTS
  WrongEntryIsNoticed
PROPERTIES
  GoneIsEvicted
