\* One client, one stream at a time, against a limit of one.
CONSTANTS
  StreamId = {s1, s2}
  MaxConcurrentStreams = 1
  NoStream = NoStream
  NoSession = NoSession
  Client = {c1}
  MaxCopies = 1
SPECIFICATION Spec
PROPERTY
  LimitIsOnConcurrentStreams
CHECK_DEADLOCK FALSE
