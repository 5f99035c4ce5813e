\* One client and one stream; publications are counted up to two.
CONSTANTS
  StreamId = {s1}
  MaxConcurrentStreams = 1
  NoStream = NoStream
  NoSession = NoSession
  Client = {c1}
  MaxCopies = 2
SPECIFICATION Spec
INVARIANT
  EventsPublishedOnce
CHECK_DEADLOCK FALSE
