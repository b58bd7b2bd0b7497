SPECIFICATION Spec
CONSTANTS
  Calls <- MCCalls
  Target <- MCTarget
  Request <- MCRequest
  Methods <- MCMethods
  Response <- MCResponse
  Unit <- MCUnit
  Header <- MCHeader
  Args <- MCArgs
  ReadHeader <- MCReadHeader
  ReadArgs <- MCReadArgs
  Reply <- MCReply
  ReadReply <- MCReadReply
  SizeUnits = 2
  MaxSize = 20
  MaxHeader = 5
  MaxFrame = 15
  MaxReply = 3
  MaxText = 7
  MaxCalls = 3
CHECK_DEADLOCK FALSE
INVARIANTS
  TypeOK
  CleanBetweenCalls
  NoStuckFrame
  FailsForAReason
  NoMutualWait
PROPERTIES
  KeepsPromises
  KeepsMessages
  CallEnds
