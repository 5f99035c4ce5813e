CONSTANTS
  Parts = {"events", "publishers", "adaptive", "streams", "writer", "rebuild",
           "compression", "repository", "streamStore", "frameStore", "cache", "buffers", "metrics",
           "sessionQueries", "eventQueries", "http", "parser", "history",
           "paths", "rules", "values", "streamFrames", "semantics", "responses"}
  c1 = c1
  c2 = c2
  c3 = c3
  s1 = s1
  s2 = s2
  s3 = s3
  Absent = Absent
  MaxSubscribers = 2
  MaxEvents = 4
  BatchSizes = {1, 2}
  Caller = {c1, c2}
  Compositions <- SomeCompositions
  RetrySettings = {0, 2}
  LogLimit = 2
  DrainSize = 1
  MaxPublished = 3
  Client = {c1, c2}
  SessionId = {s1, s2}
  MaxVersion = 3
  MaxStreams = 1
  \* A priority below and one above that which DropLowPriority asks for, and
  \* thresholds of no frame and of two.  Block and DropOldest do what the others
  \* do while the queue is below its threshold.
  BackpressureStrategy = {"DropLowPriority", "Error"}
  Priorities = {25, 80}
  BufferSizes = {1, 4}
  MaxFrames = 3
  Monitor = {c3}
  MaxConnections = 1
  StreamId = {s3}
  MaxConcurrentStreams = 1
  MaxFailures = 1
  StoredId = {s1, s2}
  MaxStores = 3
  EntryKey = {s1, s2}
  EntrySize = {1, 2}
  MaxSets = 4
  Thread = {c1, c2, c3}
  Capacities = {1024, 1025, 4194305}
  BucketLimit = 2
  MaxGets = 3
  Settings <- SomeSettings
  Durations = {1, 4}
  SeriesLimit = 1
  SeriesDrain = 1
  MaxCounted = 1
  PoolCapacity = 1
  Headers <- SomeHeaders
  EventData = {"e"}
  Requests <- SomeRequests
  FrameLists <- SomeFrameLists
  MaxResponses = 3
SPECIFICATION MCSpec
INVARIANTS
  MCTypeOK
  StoredWasSeenByAll
  OkMeansReceived
  AdaptsTheRightWay
  ParsesJson
  FramesComeOut
  NothingIsLostUnnoticed
  PictureIsTrue
  ConditionalSaveDiscardsNobody
  LookupMissesNothing
  PathsLeadToValues
  HoldsWhatItSays
  TablesAgree
  ConnectionsFollowSessions
\* Bounded calls, events and frames end every behaviour.
CHECK_DEADLOCK FALSE
