SPECIFICATION SafetySpec
CONSTANTS
  c1 = c1
  c2 = c2
  h1 = h1
  h2 = h2
  Zk = Zk
  Callers = {c1}
  MaxNode = 1
  Hosts = {h1}
  MaxEdits = 0
  MaxLoss = 0
  MethodMayBeMissing = TRUE
INVARIANT NeverDeaf
