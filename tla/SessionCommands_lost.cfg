\* Two clients and one stream are enough to lose an update.
CONSTANTS
  StreamId = {s1}
  MaxConcurrentStreams = 1
  NoStream = NoStream
  NoSession = NoSession
  Client = {c1, c2}
  MaxCopies = 1
SPECIFICATION Spec
PROPERTY
  FinishedStaysFinished
CHECK_DEADLOCK FALSE
