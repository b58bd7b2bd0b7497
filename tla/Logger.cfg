SPECIFICATION Spec
CONSTANTS
  t1 = t1
  t2 = t2
  Threads = {t1, t2}
  MaxLines = 3
  MaxTime = 2
CHECK_DEADLOCK FALSE
INVARIANTS
  TypeOK
  SleepsOnlyIfEmpty
  StampAfterLastWrite
  LabelIsOwnOrLater
PROPERTIES
  WritesInOrder
  EveryLineIsWritten
