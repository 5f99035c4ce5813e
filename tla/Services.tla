------------------------------ MODULE Services ------------------------------
(***************************************************************************)
(* The services whose clients are answered: the event service, the event   *)
(* publishers, the versioned session repository, the stream writers and    *)
(* the handlers behind the HTTP routes; and the stores they are built on:  *)
(* the streams of a session, the cache, the buffers, the metrics (declared *)
(* in Reporting) and the pooled responses.  They share no state; each      *)
(* behaviour exercises one of them, chosen at the start, or none of them.  *)
(***************************************************************************)
EXTENDS Reporting

CONSTANTS
  Parts,                                                    \* what is exercised
  Absent,
  MaxSubscribers, MaxEvents, BatchSizes,                    \* EventService
  Compositions, RetrySettings, LogLimit, DrainSize,         \* EventPublishers
  MaxPublished,
  Client, MaxVersion, MaxStreams,                           \* SessionRepository
  BackpressureStrategy, Priorities, BufferSizes, MaxFrames,           \* FrameWriter
  Monitor, MaxConnections, MaxConcurrentStreams,            \* HttpApi
  MaxFailures,
  StoredId, MaxStores,                                      \* StreamStore
  EntryKey, EntrySize, MaxSets,                             \* CacheStore
  Thread, Capacities, BucketLimit, MaxGets,                 \* BufferPool
  PoolCapacity, Headers, EventData, Requests, FrameLists,   \* WebResponses
  MaxResponses

ASSUME EventsAssumption == MaxSubscribers \in Nat /\ MaxEvents \in Nat /\ BatchSizes \subseteq Nat

\* The log is shortened by at least one event and by no more than it may hold.
ASSUME PublishersAssumption ==
  /\ Compositions \subseteq Seq({"memory", "http"}) /\ RetrySettings \subseteq Nat
  /\ LogLimit \in Nat /\ DrainSize \in 1 .. LogLimit /\ MaxPublished \in Nat

\* A priority is a number, and more important the greater it is.
ASSUME WriterAssumption == Priorities \subseteq Nat

VARIABLES
  part,                                                     \* the component exercised
  subscribers, since, told, stored, serviceCall, handed,    \* EventService
  destinations, failFast, attempts, call, log, channel,     \* EventPublishers
  received, logged, answered, handedIn,
  sessions, nextVersion, repoCall, known, transaction,      \* SessionRepository
  backpressure, limit, closed, frames, writing, queue,      \* FrameWriter
  written, metrics, failed, dropped,
  connections, inUse, idle, due, touched, streamOf, held,   \* HttpApi
  expired, request, toldOf, failures,
  streams, listed, storeTask, stores, raced,                \* StreamStore
  data, cacheStats, owed, sets,                             \* CacheStore
  poolConfig, buckets, user, poolStats,                     \* BufferPool
  pools, responseStats, work, put, given, thrown,           \* WebResponses
  abandoned, begun, answer

Events     == INSTANCE EventService WITH call <- serviceCall, handedIn <- handed
Publishers == INSTANCE EventPublishers WITH MaxEvents <- MaxPublished
Repository == INSTANCE SessionRepository WITH call <- repoCall
Writing    == INSTANCE FrameWriter WITH
  strategy <- backpressure, threshold <- limit, handed <- frames, call <- writing,
  wire <- written
Http       == INSTANCE HttpApi WITH
  NoStream <- Absent, active <- inUse, sessions <- held, answered <- toldOf

Listing    == INSTANCE StreamStore WITH StreamId <- StoredId, task <- storeTask
Cache      == INSTANCE CacheStore WITH
  Key <- EntryKey, Size <- EntrySize, NoEntry <- Absent, stats <- cacheStats
Buffers    == INSTANCE BufferPool WITH stats <- poolStats, config <- poolConfig
Responses  == INSTANCE WebResponses WITH
  Thread <- Client, Capacity <- PoolCapacity, NoWork <- Absent, stats <- responseStats

\* An entry that is absent is not an entry.
ASSUME RepositoryAssumption == MaxVersion \in Nat /\ Absent \notin Repository!Entry

ASSUME HttpAssumption ==
  /\ MaxConnections \in Nat
  /\ Absent \notin StreamId /\ Absent \notin Http!Session

\* Sizes and capacities are counted in bytes.
ASSUME StoresAssumption ==
  /\ IsFiniteSet(Client) /\ IsFiniteSet(Thread)
  /\ IsFiniteSet(EntryKey)
  /\ EntrySize \subseteq Nat /\ Capacities \subseteq Nat
  /\ Absent \notin [size : EntrySize, expired : BOOLEAN]

\* Frames are text, nothing is not a builder, and no request has its Accept
\* header twice.
ASSUME ResponsesAssumption ==
  /\ FrameLists \subseteq Seq(STRING) /\ Absent \notin Responses!Builder
  /\ \A r \in Requests : {"accept", "Accept"} \cap DOMAIN r # {"accept", "Accept"}

\* What the part exercised does not use is absent.
Init ==
  /\ part \in Parts
  /\ \/ part = "events" /\ Events!Init
     \/ part # "events"
        /\ subscribers = Absent /\ since = Absent /\ told = Absent /\ stored = Absent
        /\ serviceCall = Absent /\ handed = Absent
  /\ \/ part = "publishers" /\ Publishers!Init
     \/ part # "publishers"
        /\ destinations = Absent /\ failFast = Absent /\ attempts = Absent /\ call = Absent
        /\ log = Absent /\ channel = Absent /\ received = Absent /\ logged = Absent
        /\ answered = Absent /\ handedIn = Absent
  /\ \/ part = "repository" /\ Repository!Init
     \/ part # "repository"
        /\ sessions = Absent /\ nextVersion = Absent /\ repoCall = Absent /\ known = Absent
        /\ transaction = Absent
  /\ \/ part = "writer" /\ Writing!Init
     \/ part # "writer"
        /\ backpressure = Absent /\ limit = Absent /\ closed = Absent /\ frames = Absent
        /\ writing = Absent /\ queue = Absent /\ written = Absent /\ metrics = Absent
        /\ failed = Absent /\ dropped = Absent
  /\ \/ part = "http" /\ Http!Init
     \/ part # "http"
        /\ connections = Absent /\ inUse = Absent /\ idle = Absent /\ due = Absent
        /\ touched = Absent /\ streamOf = Absent /\ held = Absent /\ expired = Absent
        /\ request = Absent /\ toldOf = Absent /\ failures = Absent
  /\ \/ part = "streamStore" /\ Listing!Init
     \/ part # "streamStore"
        /\ streams = Absent /\ listed = Absent /\ storeTask = Absent /\ stores = Absent
        /\ raced = Absent
  /\ \/ part = "cache" /\ Cache!Init
     \/ part # "cache"
        /\ data = Absent /\ cacheStats = Absent /\ owed = Absent /\ sets = Absent
  /\ \/ part = "buffers" /\ Buffers!Init
     \/ part # "buffers"
        /\ poolConfig = Absent /\ buckets = Absent /\ user = Absent /\ poolStats = Absent
  /\ \/ part = "metrics" /\ Metrics!Init
     \/ part # "metrics"
        /\ setting = Absent /\ gauges = Absent /\ sessionMetrics = Absent
        /\ streamMetrics = Absent /\ series = Absent /\ vectors = Absent /\ reportTask = Absent
        /\ sessionsBegun = Absent /\ sessionsEnded = Absent /\ timings = Absent
  /\ \/ part = "responses" /\ Responses!Init
     \/ part # "responses"
        /\ pools = Absent /\ responseStats = Absent /\ work = Absent /\ put = Absent
        /\ given = Absent /\ thrown = Absent /\ abandoned = Absent /\ begun = Absent
        /\ answer = Absent

eventVars      == << subscribers, since, told, stored, serviceCall, handed >>
publisherVars  == << destinations, failFast, attempts, call, log, channel,
                     received, logged, answered, handedIn >>
repositoryVars == << sessions, nextVersion, repoCall, known, transaction >>
writerVars     == << backpressure, limit, closed, frames, writing, queue,
                     written, metrics, failed, dropped >>
httpVars       == << connections, inUse, idle, due, touched, streamOf, held, expired,
                     request, toldOf, failures >>

listingVars    == << streams, listed, storeTask, stores, raced >>
cacheVars      == << data, cacheStats, owed, sets >>
bufferVars     == << poolConfig, buckets, user, poolStats >>
responseVars   == << pools, responseStats, work, put, given, thrown, abandoned, begun, answer >>

serviceVars == << eventVars, publisherVars, repositoryVars, writerVars, httpVars >>
storeVars   == << listingVars, cacheVars, bufferVars, metricVars, responseVars >>
vars        == << part, serviceVars, storeVars >>

\* Every part but the one exercised stays as it was.
Served ==
  \/ /\ part = "events" /\ Events!Next
     /\ UNCHANGED << publisherVars, repositoryVars, writerVars, httpVars >>
  \/ /\ part = "publishers" /\ Publishers!Next
     /\ UNCHANGED << eventVars, repositoryVars, writerVars, httpVars >>
  \/ /\ part = "repository" /\ Repository!Next
     /\ UNCHANGED << eventVars, publisherVars, writerVars, httpVars >>
  \/ /\ part = "writer" /\ Writing!Next
     /\ UNCHANGED << eventVars, publisherVars, repositoryVars, httpVars >>
  \/ /\ part = "http" /\ Http!Next
     /\ UNCHANGED << eventVars, publisherVars, repositoryVars, writerVars >>

Kept ==
  \/ /\ part = "streamStore" /\ Listing!Next
     /\ UNCHANGED << cacheVars, bufferVars, metricVars, responseVars >>
  \/ /\ part = "cache" /\ Cache!Next
     /\ UNCHANGED << listingVars, bufferVars, metricVars, responseVars >>
  \/ /\ part = "buffers" /\ Buffers!Next
     /\ UNCHANGED << listingVars, cacheVars, metricVars, responseVars >>
  \/ /\ part = "metrics" /\ Metrics!Next
     /\ UNCHANGED << listingVars, cacheVars, bufferVars, responseVars >>
  \/ /\ part = "responses" /\ Responses!Next
     /\ UNCHANGED << listingVars, cacheVars, bufferVars, metricVars >>

Next ==
  /\ UNCHANGED part
  /\ \/ Served /\ UNCHANGED storeVars
     \/ Kept /\ UNCHANGED serviceVars

Spec == Init /\ [][Next]_vars

-----------------------------------------------------------------------------
(* The properties, stated in the modules of the parts *)

\* Every part keeps its types and its bounds.
TypeOK ==
  /\ part = "events" => Events!TypeOK
  /\ part = "publishers" => Publishers!TypeOK
  /\ part = "repository" => Repository!TypeOK
  /\ part = "writer" => Writing!TypeOK
  /\ part = "http" => Http!TypeOK
  /\ part = "streamStore" => Listing!TypeOK
  /\ part = "cache" => Cache!TypeOK
  /\ part = "buffers" => Buffers!TypeOK
  /\ part = "metrics" => Metrics!TypeOK
  /\ part = "responses" => Responses!TypeOK

\* What is in the event store was seen by every subscriber of its time.
StoredWasSeenByAll == part = "events" => Events!StoredWasSeenByAll

\* A batch answered with Ok has arrived everywhere it was sent to.
OkMeansReceived == part = "publishers" => Publishers!OkMeansReceived

\* A conditional save that is accepted discards nobody else's save.
ConditionalSaveDiscardsNobody ==
  part = "repository" => Repository!ConditionalSaveDiscardsNobody

\* A call of a writer that is answered with Ok has written its frames, in
\* order and whole, or dropped them on purpose.
NothingIsLostUnnoticed == part = "writer" => Writing!NothingIsLostUnnoticed

\* The connection table follows the sessions behind the HTTP routes.
ConnectionsFollowSessions == part = "http" => Http!ConnectionsFollowSessions

\* The streams stored are the ones listed, unless a store and a delete raced;
\* the memory reported by the cache is no less than what it holds; a buffer
\* handed out is as large as was asked for; and a response holds what was put
\* in, though it is built of used objects.
HoldsWhatItSays ==
  /\ part = "streamStore" => Listing!ListedUnlessRaced
  /\ part = "cache" => Cache!MemoryIsNotUnderstated
  /\ part = "buffers" => Buffers!LargeEnough /\ Buffers!CountsAddUp
  /\ part = "responses" => Responses!ResponsesAreOnesOwn

\* Tables under different locks agree: the gauges of the metrics with the
\* entries, up to calls under way, and one collector with the other; and the
\* average kept beside them is within its bound.
TablesAgree ==
  part = "metrics" => /\ Metrics!GaugesAgreeWithEntries
                      /\ Metrics!CollectorsAgree /\ Metrics!AverageIsBounded
=============================================================================
