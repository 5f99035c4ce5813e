CONSTANTS
  Parts = {"workflows", "repository", "sockets", "js", "wires"}
  Client = {c1, c2}
  SessionId = {s1, s2}
  Absent = Absent
  MaxVersion = 2
  MaxStreams = 0
  StreamId = {t1, t2, t3}
  NoStream = NoStream
  MaxConcurrentStreams = 2
  MaxFailures = 1
  Capacity = 1
  MaxRequests = 1
  MaxParties = 3
  StreamCall = {r1, r2}
  NoCall = NoCall
  LastFrame = 3
  Socket = {w1, w2, w3}
  NoSocket = NoSocket
  MaxReconnectAttempts = 2
SPECIFICATION Spec
INVARIANTS
  TypeOK
  ShutdownReportsTheTruth
  PreparingIsAttendedTo
  ResolvedWithItsOwn
PROPERTIES
  CloseCancelsOnlyUnseen
  ShutdownCloses
  AnsweredOrDeadlocked
  SocketsDeliver
  EveryCallSettles
\* Bounded calls end every behaviour, and remove_session and
\* get_session_health can wait for each other.
CHECK_DEADLOCK FALSE
