SPECIFICATION Spec
CONSTANTS
  c1 = c1
  c2 = c2
  ch1 = ch1
  ch2 = ch2
  a1 = a1
  a2 = a2
  Nil = Nil
  Callers = {c1,c2}
  Unserializable = {}
  Channels = {ch1}
  ChannelOf <- OneChannel
  Address = {a1,a2}
  MaxFd = 2
  ClientLong = TRUE
  ServerLong = TRUE
  FailureThreshold = 2
  OpenTimeout = 1
INVARIANTS
  TypeOK
  OwnReply
  NoLeak
  NoSharing
  CleanWhenIdle
PROPERTIES
  ReportsOnce
  KeepsMessages
  WaitsEnd
