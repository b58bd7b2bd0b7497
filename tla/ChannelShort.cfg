SPECIFICATION Spec
CONSTANTS
  c1 = c1
  c2 = c2
  ch1 = ch1
  ch2 = ch2
  a1 = a1
  a2 = a2
  Nil = Nil
  Callers = {c1,c2}
  Unserializable = {c1}
  Channels = {ch1}
  ChannelOf <- OneChannel
  Address = {a1}
  MaxFd = 1
  ClientLong = FALSE
  ServerLong = FALSE
  FailureThreshold = 1
  OpenTimeout = 1
PROPERTY EveryCallEnds
