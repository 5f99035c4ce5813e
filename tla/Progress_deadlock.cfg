CONSTANTS
  Parts = {"repository"}
  Client = {c1, c2}
  SessionId = {s1, s2}
  Absent = Absent
  MaxVersion = 2
  MaxStreams = 0
  StreamId = {t1, t2, t3}
  NoStream = NoStream
  MaxConcurrentStreams = 3
  MaxFailures = 1
  Capacity = 1
  MaxRequests = 1
  MaxParties = 3
  StreamCall = {r1, r2}
  NoCall = NoCall
  LastFrame = 3
  Socket = {w1, w2, w3}
  NoSocket = NoSocket
  MaxReconnectAttempts = 2
SPECIFICATION Spec
PROPERTY EveryCallIsAnswered
\* Bounded calls end every behaviour.
CHECK_DEADLOCK FALSE
