----------------------------- MODULE MCServices -----------------------------
(***************************************************************************)
(* Services for TLC, and with them the queries, the adapters frames go     *)
(* through, the values and the rebuilding of documents.  They share no     *)
(* state; each behaviour exercises one of them, chosen at the start, so    *)
(* that the state space is the sum of theirs.  What needs fairness is in   *)
(* Progress.                                                               *)
(***************************************************************************)
EXTENDS Services, TLC

CONSTANTS c1, c2, c3, s1, s2, s3

VARIABLES
  context, strategy, adjusting, threshold,                  \* AdaptiveStreaming
  adapter, format, size, priority, taken, buffer, out, seen, \* FrameStreams
  body, ended,
  document, wire, json, frameQueue, complete, skeletons,    \* Reconstruction
  losses, errors, client, asked, processed, behind,
  skeletonStrategy, contentStrategy, packed, compressed,    \* Compression
  active, shown,
  storedFrames, index, storing, framesStored, cleaned,      \* FrameStore
  cached, sending, streamed,
  session, order, slow, pager, visit,                            \* SessionQueries
  events, reader,                                           \* EventQueries
  text, fed, unparsed, cleared,                             \* ZeroCopyParser
  latencies, transfers, mistakes, resources, ever,          \* PerformanceHistory
  path, segments, pathRules, fieldRules, previous, usage,   \* JsonPaths, PriorityRules
  optimised,
  value, setsDone, lastSet,                                 \* JsonValues
  streamState, source, config, nextSequence, frameStats,    \* StreamFrames
  endedAt, made,
  useSonic, detect, parserStats, parsed, length,            \* SemanticDetection
  semantics, parses, time

\* In and out of order, and without a log
SomeCompositions == {<< "memory", "http" >>, << "http", "memory" >>, << "http" >>}

\* A value between every two thresholds of the code.
Adaptive == INSTANCE AdaptiveStreaming WITH
  Latency <- {40, 75, 100, 700, 1200, 1700, 2500},
  Bandwidth <- {3, 8, 30, 100, 150, 600},
  ErrorRate <- {0, 5, 10, 25, 40, 70, 150},
  Cpu <- {50, 75, 85, 95},
  Streams <- {0, 3, 4, 11, 51},
  \* One that wants too much and one that wants next to nothing
  CustomPlans <- {[threshold |-> 250, size |-> 2048, batch |-> 60, compress |-> FALSE,
                   adaptive |-> TRUE, latency |-> 20, bandwidth |-> 900],
                  [threshold |-> 5, size |-> 1, batch |-> 1, compress |-> FALSE,
                   adaptive |-> FALSE, latency |-> 5000, bandwidth |-> 1]},
  Batches <- {<< >>, << [priority |-> 255, size |-> 5000] >>,
              << [priority |-> 80, size |-> 12], [priority |-> 110, size |-> 90] >>,
              << [priority |-> 25, size |-> 1], [priority |-> 100, size |-> 300] >>}

\* Transfers of two speeds, and one in no time
History == INSTANCE PerformanceHistory WITH
  Window <- 3, FewSamples <- 2, Latencies <- {10, 2500},
  Transfers <- {[bits |-> 1, time |-> 1], [bits |-> 9, time |-> 2], [bits |-> 4, time |-> 0]},
  Cpus <- {50, 95}, errors <- mistakes,
  Batches <- UNION {[1 .. n -> [priority : {10, 50}, size : {3, 700, 5000}]] : n \in 0 .. 3}
               \cup {[i \in 1 .. n |-> [priority |-> 10 * i, size |-> i * i]] : n \in 4 .. 6}

Streams == INSTANCE FrameStreams WITH
  Priorities <- {1, 2, 3}, Length <- 4, Sizes <- {0, 1, 2, 3}

\* Documents with arrays of every length class at the root and below it,
\* nested objects, and keys of every priority.
Atom(a)      == [atom |-> a]
Object(f)    == [object |-> f]
Elements(as) == [array |-> [i \in DOMAIN as |-> Atom(as[i])]]

Documents ==
  {Atom("1"), Elements(<< "x" >>), Elements(<< "1", "true", "x" >>),
   Elements(<< "1", "true", "x", "y" >>),
   Object([id |-> Atom("1"), items |-> Elements(<< "x", "1" >>)]),
   Object([history |-> Elements(<< "x", "1" >>), name |-> Atom("x")]),
   Object([items |-> Elements(<< "1", "true", "x", "y" >>), kind |-> Atom("null")]),
   Object([items |-> Elements(<< >>), data |-> Object([name |-> Atom("1")])]),
   Object([meta |-> Object([id |-> Atom("true"),
                            stats |-> Object([title |-> Atom("x"),
                                              reviews |-> Elements(<< "x", "y", "1" >>)])])])}

Rebuild == INSTANCE Reconstruction WITH
  Keys <- << "data", "history", "id", "items", "kind", "meta", "name", "reviews",
             "stats", "title" >>,
  PatchSizes <- {1, 3}, LargeArray <- 1, LargeChunk <- 2, HugeArray <- 3, MaxLosses <- 2,
  Thresholds <- {25, 50, 75}, Missing <- Absent, queue <- frameQueue, threshold <- asked

\* Words worth a dictionary, in two orders; a run; a sequence of numbers; and
\* numbers that are indices of a dictionary.
Word(w)   == [string |-> w]
Number(n) == [number |-> n]
Array(as) == [array |-> as]

Samples ==
  {Object([team |-> Word("engineering"), lead |-> Word("engineering"),
           note |-> Word("ok"), n |-> Number(0)]),
   Array(<< Word("engineering"), Word("marketing"), Word("marketing") >>),
   Object([kind |-> Word("marketing"),
           xs |-> Array(<< Number(100), Number(101), Number(102) >>)]),
   Array(<< Object([n |-> Number(1)]), Object([n |-> Number(1)]), Object([n |-> Number(0)]) >>)}

Packing == INSTANCE Compression WITH
  Documents <- Samples,
  Length <- [engineering |-> 11, marketing |-> 9, ok |-> 2],
  Given <- {[kind |-> "None"], [kind |-> "Delta", bases |-> << "xs" >> :> 100],
            [kind |-> "Hybrid", dictionary |-> [marketing |-> 10, engineering |-> 11],
             bases |-> << >>]},
  Priorities <- {80, 50}, DictThreshold <- 8, RunThreshold <- 1, MaxFrames <- 2,
  wire <- packed, sent <- compressed

\* Two frames to a page; a threshold that some frames miss and one that none does
Frames == INSTANCE FrameStore WITH
  Writer <- {c1, c2}, NotStoring <- Absent, MaxFrames <- 3,
  Kinds <- {[time |-> 1, priority |-> 80], [time |-> 2, priority |-> 25]}, Ages <- {1},
  Caller <- {c1, c2}, Thresholds <- {10, 50}, Medium <- 50,
  PageSize <- 2, NotCached <- Absent, MaxCalls <- 2,
  frames <- storedFrames, stored <- framesStored, asked <- streamed

\* In either order, and with metadata for one session, for none
SomeSettings ==
  {[collectors |-> << "memory", "prometheus" >>, metadata |-> s1 :> {"gold"} @@ s2 :> {}],
   [collectors |-> << "memory", "prometheus" >>, metadata |-> s1 :> {} @@ s2 :> {}],
   [collectors |-> << "prometheus", "memory" >>, metadata |-> s1 :> {} @@ s2 :> {}]}

Searches == INSTANCE SessionQueries WITH
  StreamId <- {s3}, MaxConcurrentStreams <- 1, NoStream <- Absent, NotFound <- Absent,
  MaxSessions <- 3, Eventful <- {1}, Limits <- {2},
  Sorts <- {[field |-> "CreatedAt", ascending |-> TRUE],
            [field |-> "StreamCount", ascending |-> FALSE]},
  Filters <- {[after |-> 0, busy |-> "any"], [after |-> 1, busy |-> "no"]}

Happened(v, s, t) == [variant |-> v, session |-> s, stream |-> t]

Reading == INSTANCE EventQueries WITH
  Happenings <- {Happened("StreamCreated", s1, s3), Happened("SessionExpired", s1, Absent),
                 Happened("StreamFailed", s2, c1)},
  Queries <- {[session |-> s1, types |-> {"stream_created", "session_expired"}],
              [session |-> s1, types |-> {"session_expired", "frames_batched"}],
              [stream |-> s3]},
  Times <- {1, 2, 3}, Limits <- {1, 2}, MaxEvents <- 3

\* All texts of up to three characters, and all that come of five longer ones
\* by the replacement or the deletion of a character
Alphabet == {"{", "}", "[", "]", ",", ":", "\"", "\\", "0", "1", "-", ".", "e", "u", "b",
             " ", "null"}

LongTexts ==
  {<< "{", "\"", "b", "\"", ":", "[", "1", ",", "-", "0", ".", "1", "]", "}" >>,
   << " ", "[", "1", "e", "-", "1", ",", " ", "{", "}", "]", " " >>,
   << "{", "\"", "}", "\"", ":", "null", ",", "\"", "\"", " ", ":", "0", "}" >>,
   << "\"", "\\", "u", "0", "0", "1", "b", "\\", "\\", "\\", "\"", "\"" >>,
   << "[", "[", "[", "1", "]", "]", ",", "\"", "[", "\"", "]" >>}

AlmostTexts ==
  UNION {UNION {{[s EXCEPT ![i] = c] : c \in Alphabet} : i \in DOMAIN s}
           \cup {SubSeq(s, 1, i - 1) \o SubSeq(s, i + 1, Len(s)) : i \in DOMAIN s} :
         s \in LongTexts}

Parsing == INSTANCE ZeroCopyParser WITH
  Texts <- UNION {[1 .. n -> Alphabet] : n \in 0 .. 3} \cup AlmostTexts, MaxDepth <- 2,
  buffer <- unparsed

\* All texts of up to five characters of paths
Spelled == INSTANCE JsonPaths WITH
  Keys <- {<< "a" >>, << "1" >>, << "a", "~" >>, << "e'" >>, << "e'", "a" >>},
  Indices <- {<< "1" >>, << "1", "1" >>}, MaxDepth <- 4,
  Texts <- UNION {[1 .. n -> {"$", ".", "[", "]", "a", "1", "+", "~"}] : n \in 0 .. 5}

\* Rules that match what others match, sizes at every bound of the code, and
\* fields used more, less and as much as its two limits
Leaf == [type |-> "null", size |-> 0]

Rules == INSTANCE PriorityRules WITH
  Keys <- {<< "id" >>, << "users" >>, << "a" >>}, Indices <- {<< "1" >>}, MaxDepth <- 6,
  Texts <- {}, Default <- 50, MaxOptimised <- 2,
  Added <- << << "$" >>, << "users", "." >>, << >> >> :> 30
             @@ << << >>, << ".", "id" >>, << ".", "id" >> >> :> 40,
  Values <- {Leaf} \cup [type : {"string"}, size : {0, 49, 50, 1000, 1001}]
              \cup [type : {"array"}, size : {0, 10, 11, 100, 101}]
              \cup [type : {"object"}, size : {0, 10, 11, 20, 21}],
  Documents <-
    {Leaf, [fields |-> << "[" >> :> Leaf],
     [fields |-> << "a" >> :> [items |-> << Leaf, Leaf >>] @@ << "a", "1" >> :> Leaf],
     [items |-> << Leaf, [fields |-> << "a", "." >> :> Leaf @@ << "b" >> :> Leaf] >>]},
  Usages <-
    {[average |-> 4, counts |-> << "id" >> :> 9 @@ << "users" >> :> 0 @@ << "logs" >> :> 9],
     [average |-> 4, counts |-> << "id" >> :> 0 @@ << "users" >> :> 9 @@ << "name" >> :> 2],
     [average |-> 6, counts |-> << "id" >> :> 1 @@ << "logs" >> :> 0]}

\* Numbers of every kind, among them neighbours beyond 64 bits with a sign, and
\* a zero with one
Json(t, v)   == [type |-> t, is |-> v]
Integer(n)   == Json("i64", n)
JsonArray(s) == Json("Array", s)
Fields(f)    == Json("Object", f)

Contents == INSTANCE JsonValues WITH
  Keys <- << "", "a", "b" >>, Length <- [xyz |-> 3, a |-> 1, b |-> 1] @@ "" :> 0,
  Paths <- UNION {[1 .. n -> {"", "a"}] : n \in 1 .. 3}, MaxSets <- 2,
  Documents <-
    {Json("Null", << >>), Fields(<< >>),
     Fields([a |-> Fields([a |-> Integer(1), b |-> Json("u64", "beyond")])]),
     Fields("" :> JsonArray(<< Json("f64", "0.0"), JsonArray(<< Integer(1) >>) >>)
              @@ "a" :> Json("String", "xyz")),
     JsonArray(<< JsonArray(<< Integer(1), Json("f64", "-0.0") >>), Json("Bool", TRUE),
                  Json("f64", "1.5") >>),
     Fields([b |-> JsonArray(<< JsonArray(<< Integer(1) >>), Json("u64", "beyondByOne") >>),
             a |-> JsonArray(<< JsonArray(<< Integer(1), Json("u64", "beyond") >>) >>)])},
  Puts <- {Json("Null", << >>), Fields(<< >>),
           JsonArray(<< Json("f64", "-0.0"), JsonArray(<< Integer(1) >>) >>)},
  sets <- setsDone, last <- lastSet

\* Two documents of one shape, and patches for up to eight frames
Making == INSTANCE StreamFrames WITH
  Configs <- {"default", "other"}, MaxFrames <- 4, MaxPatches <- 7,
  Length <- [x \in {"a", "b", "c", "0"} |-> 1]
              @@ [xyz |-> 3, true |-> 4, false |-> 5, patches |-> 7, checksum |-> 8]
              @@ "17" :> 2 @@ "1.5" :> 3,
  Sources <-
    {Json("String", "xyz"), JsonArray(<< Json("Integer", "0") >>), Fields(<< >>),
     Fields([a |-> Json("String", "xyz"),
             b |-> Fields([a |-> Json("Integer", "17"),
                           c |-> JsonArray(<< Json("String", "xyz"), Json("Integer", "0") >>)])]),
     Fields([a |-> Json("String", "a"),
             b |-> Fields([a |-> Json("Integer", "0"), c |-> JsonArray(<< >>)])]),
     Fields([a |-> Json("Bool", "true"), b |-> Json("Float", "1.5"), c |-> Json("Null", << >>)])},
  state <- streamState, data <- source, stats <- frameStats, frames <- made

\* Objects with up to three of the keys that mean something; arrays of numbers,
\* and of rows that agree in some keys, in their number, or in neither
Shape(t, v)  == [type |-> t, is |-> v]
Items(s)     == Shape("array", s)
Row(keys)    == Shape("object", [k \in keys |-> Integer(1)])
UpTo(n, S)   == UNION {[1 .. k -> S] : k \in 0 .. n}

Numbers == {Integer(1), Json("u64", 7), Json("f64", 5), Shape("string", "Polygon"),
            Shape("null", "")}
Rows    == {Integer(1), Row({"a", "b", "c", "d", "e"}), Row({"a", "b", "c", "d", "f"}),
            Row({"a", "b", "c", "d", "e", "f"}), Row({"time"}), Row({"time", "timestamp", "a"}),
            Shape("object", [a |-> Shape("bool", TRUE), b |-> Shape("null", "")])}
Known   == {"timestamp", "time", "type", "coordinates", "coord", "data", "shape", "a"}
Leaves  == {Integer(2), Shape("string", "Polygon"), Items(<< Integer(3), Integer(4) >>)}

Meaning == INSTANCE SemanticDetection WITH
  Shapes <- Numbers
    \cup UNION {{Shape("object", f) : f \in [keys -> Leaves]} :
               keys \in {K \in SUBSET Known : Cardinality(K) <= 3}}
    \cup {Items(s) : s \in UpTo(3, Rows) \cup UpTo(3, Numbers)}
    \cup {Items([i \in 1 .. 1001 |-> Integer(1)])},
  Texts <- {Items(<< Integer(1), Integer(2), Json("f64", 1) >>), Row({"time", "a"}), Row({"a"}),
            Items([i \in 1 .. 2 |-> Row({"a"})]), Items([i \in 1 .. 3 |-> Row({"a"})])},
  Malformed <- Absent, Sizes <- {10, 99999, 100000, 104857601}, Times <- {1, 4}, MaxParses <- 3,
  stats <- parserStats, text <- parsed, size <- length

\* Requests that name up to two types or all, in a header of either case, or none; a header
\* that overwrites one of the builder's
MediaTypes == {"application/json", "application/x-ndjson", "text/event-stream",
               "application/octet-stream", "application/pjs-stream"}

SomeHeaders    == [x |-> "1"] @@ "Connection" :> "close"
SomeFrameLists == {<< >>, << "f", "g" >>}
SomeRequests   ==
  {<< >>, "x-pjs-stream" :> {}, "Accept" :> {} @@ "x-pjs-stream" :> {},
   "Accept" :> {"text/event-stream"}}
    \cup {"accept" :> types :
            types \in {S \in SUBSET MediaTypes : Cardinality(S) \in {0, 1, 2, 5}}}

\* What the part exercised does not use is absent.
MCInit ==
  /\ Init
  /\ \/ part = "adaptive" /\ Adaptive!Init
     \/ part # "adaptive"
        /\ context = Absent /\ strategy = Absent /\ adjusting = Absent /\ threshold = Absent
  /\ \/ part = "streams" /\ Streams!Init
     \/ part # "streams"
        /\ adapter = Absent /\ format = Absent /\ size = Absent /\ priority = Absent
        /\ taken = Absent /\ buffer = Absent /\ out = Absent /\ seen = Absent
        /\ body = Absent /\ ended = Absent
  /\ \/ part = "rebuild" /\ Rebuild!JsInit
     \/ part # "rebuild"
        /\ document = Absent /\ wire = Absent /\ json = Absent /\ frameQueue = Absent
        /\ complete = Absent /\ skeletons = Absent /\ losses = Absent /\ errors = Absent
        /\ client = Absent /\ asked = Absent /\ processed = Absent /\ behind = Absent
  /\ \/ part = "compression" /\ Packing!Init
     \/ part # "compression"
        /\ skeletonStrategy = Absent /\ contentStrategy = Absent /\ packed = Absent
        /\ compressed = Absent /\ active = Absent /\ shown = Absent
  /\ \/ part = "frameStore" /\ Frames!Init
     \/ part # "frameStore"
        /\ storedFrames = Absent /\ index = Absent /\ storing = Absent /\ framesStored = Absent
        /\ cleaned = Absent /\ cached = Absent /\ sending = Absent /\ streamed = Absent
  /\ \/ part = "sessionQueries" /\ Searches!Init
     \/ part # "sessionQueries"
        /\ session = Absent /\ order = Absent /\ slow = Absent /\ pager = Absent /\ visit = Absent
  /\ \/ part = "eventQueries" /\ Reading!Init
     \/ part # "eventQueries"
        /\ events = Absent /\ reader = Absent
  /\ \/ part = "parser" /\ Parsing!Init
     \/ part # "parser"
        /\ text = Absent /\ fed = Absent /\ unparsed = Absent /\ cleared = Absent
  /\ \/ part = "history" /\ History!Init
     \/ part # "history"
        /\ latencies = Absent /\ transfers = Absent /\ mistakes = Absent /\ resources = Absent
        /\ ever = Absent
  /\ \/ part = "values" /\ Contents!Init
     \/ part # "values"
        /\ value = Absent /\ setsDone = Absent /\ lastSet = Absent
  /\ \/ part = "streamFrames" /\ Making!Init
     \/ part # "streamFrames"
        /\ streamState = Absent /\ source = Absent /\ config = Absent /\ nextSequence = Absent
        /\ frameStats = Absent /\ endedAt = Absent /\ made = Absent
  /\ \/ part = "semantics" /\ Meaning!Init
     \/ part # "semantics"
        /\ useSonic = Absent /\ detect = Absent /\ parserStats = Absent /\ parsed = Absent
        /\ length = Absent /\ semantics = Absent /\ parses = Absent /\ time = Absent
  /\ \/ part = "rules" /\ Rules!RulesInit
     \/ part = "paths" /\ Spelled!Init
        /\ pathRules = Absent /\ fieldRules = Absent /\ previous = Absent /\ usage = Absent
        /\ optimised = Absent
     \/ part \notin {"rules", "paths"}
        /\ path = Absent /\ segments = Absent /\ pathRules = Absent /\ fieldRules = Absent
        /\ previous = Absent /\ usage = Absent /\ optimised = Absent

adaptiveVars  == << context, strategy, adjusting, threshold >>
streamVars    == << adapter, format, size, priority, taken, buffer, out, seen, body, ended >>
rebuildVars   == << document, wire, json, frameQueue, complete, skeletons,
                    losses, errors, client, asked, processed, behind >>
packingVars   == << skeletonStrategy, contentStrategy, packed, compressed,
                    active, shown >>
frameVars     == << storedFrames, index, storing, framesStored, cleaned, cached,
                    sending, streamed >>
searchVars    == << session, order, slow, pager, visit >>
readingVars   == << events, reader >>

parserVars    == << text, fed, unparsed, cleared >>

historyVars   == << latencies, transfers, mistakes, resources, ever >>

pathVars      == << path, segments >>
ruleVars      == << pathRules, fieldRules, previous, usage, optimised >>
valueVars     == << value, setsDone, lastSet >>
makingVars    == << streamState, source, config, nextSequence, frameStats, endedAt, made >>
meaningVars   == << useSonic, detect, parserStats, parsed, length, semantics, parses, time >>

deliveryVars == << adaptiveVars, streamVars,
                   rebuildVars, packingVars, parserVars, historyVars >>
lookupVars   == << frameVars, searchVars, readingVars >>
domainVars   == << pathVars, ruleVars, valueVars, makingVars, meaningVars >>

otherVars == << deliveryVars, lookupVars, domainVars >>
mcVars    == << vars, otherVars >>

Delivery ==
  \/ /\ part = "adaptive" /\ Adaptive!Next
     /\ UNCHANGED << streamVars, rebuildVars,
                     packingVars, parserVars, historyVars >>
  \/ /\ part = "streams" /\ Streams!Next
     /\ UNCHANGED << adaptiveVars, rebuildVars,
                     packingVars, parserVars, historyVars >>
  \/ /\ part = "rebuild" /\ Rebuild!JsNext
     /\ UNCHANGED << adaptiveVars, streamVars,
                     packingVars, parserVars, historyVars >>
  \/ /\ part = "compression" /\ Packing!Next
     /\ UNCHANGED << adaptiveVars, streamVars,
                     rebuildVars, parserVars, historyVars >>
  \/ /\ part = "parser" /\ Parsing!Next
     /\ UNCHANGED << adaptiveVars, streamVars,
                     rebuildVars, packingVars, historyVars >>
  \/ /\ part = "history" /\ History!Next
     /\ UNCHANGED << adaptiveVars, streamVars,
                     rebuildVars, packingVars, parserVars >>

Lookups ==
  \/ /\ part = "frameStore" /\ Frames!Next
     /\ UNCHANGED << searchVars, readingVars >>
  \/ /\ part = "sessionQueries" /\ Searches!Next
     /\ UNCHANGED << frameVars, readingVars >>
  \/ /\ part = "eventQueries" /\ Reading!Next
     /\ UNCHANGED << frameVars, searchVars >>

Domain ==
  \/ /\ part = "paths" /\ Spelled!Next
     /\ UNCHANGED << ruleVars, valueVars, makingVars, meaningVars >>
  \/ /\ part = "rules" /\ Rules!RulesNext
     /\ UNCHANGED << valueVars, makingVars, meaningVars >>
  \/ /\ part = "values" /\ Contents!Next
     /\ UNCHANGED << pathVars, ruleVars, makingVars, meaningVars >>
  \/ /\ part = "streamFrames" /\ Making!Next
     /\ UNCHANGED << pathVars, ruleVars, valueVars, meaningVars >>
  \/ /\ part = "semantics" /\ Meaning!Next
     /\ UNCHANGED << pathVars, ruleVars, valueVars, makingVars >>

\* Every part but the one exercised stays as it was.
MCNext ==
  \/ Next /\ UNCHANGED otherVars
  \/ /\ UNCHANGED vars
     /\ \/ Delivery /\ UNCHANGED << lookupVars, domainVars >>
        \/ Lookups /\ UNCHANGED << deliveryVars, domainVars >>
        \/ Domain /\ UNCHANGED << deliveryVars, lookupVars >>

MCSpec == MCInit /\ [][MCNext]_mcVars

-----------------------------------------------------------------------------
(* The properties, stated in the modules of the parts *)

\* Every part keeps its types and its bounds, and the commands of adaptive
\* streaming those that command validation asks for.
MCTypeOK ==
  CASE part \in {"events", "publishers", "repository", "writer", "http", "streamStore",
               "cache", "buffers", "metrics", "responses"} -> TypeOK
    [] part = "adaptive" -> Adaptive!TypeOK
    [] part = "streams" -> Streams!TypeOK
    [] part = "rebuild" -> Rebuild!JsTypeOK
    [] part = "compression" -> Packing!TypeOK
    [] part = "frameStore" -> Frames!TypeOK
    [] part = "sessionQueries" -> Searches!TypeOK
    [] part = "eventQueries" -> Reading!TypeOK
    [] part = "parser" -> Parsing!TypeOK
    [] part = "history" -> History!TypeOK
    [] part = "paths" -> Spelled!TypeOK
    [] part = "rules" -> Rules!RulesTypeOK
    [] part = "values" -> Contents!TypeOK
    [] part = "streamFrames" -> Making!TypeOK
    [] part = "semantics" -> Meaning!TypeOK

\* Worse measurements never lower a threshold, and an alarming error rate has
\* the last word on it; what they are measured by says what was recorded.
AdaptsTheRightWay ==
  /\ part = "adaptive" => Adaptive!WorseMeansStricter /\ Adaptive!AlarmsStand
                          /\ Adaptive!AdviceAgrees /\ Adaptive!EstimatesAreShares
  /\ part = "history" => History!HistoryIsTold

\* The parsers take JSON for what it is, in one go or bit by bit, and agree;
\* and they agree on what it means.
ParsesJson ==
  /\ part = "parser" => Parsing!ParsesJson
  /\ part = "semantics" => Meaning!DocumentsAreUnderstood

\* A stream adapter yields every frame once and in order, and keeps none; a
\* stream numbers the frames it makes without a gap and accounts for each; and
\* a stream that the orchestrator completes has sent its frames.
FramesComeOut ==
  /\ part = "frameStore" => Frames!CompletedMeansSent
  /\ part = "streams" => Streams!FramesComeOut
  /\ part = "streamFrames" => Making!StreamTellsItsFrames

\* A path is the text of its segments, the rules for paths and fields give every
\* value a priority that does not hang on their order, and what is set at a
\* path is found there.
PathsLeadToValues ==
  /\ part = "paths" => Spelled!PathsAreSegments
  /\ part = "rules" => Rules!RulesAreKept
  /\ part = "values" => Contents!ValuesAreKept

\* What is rebuilt from a skeleton and patches is a true picture at any time,
\* and the same in both languages; and what is decompressed mixes up no words.
PictureIsTrue ==
  /\ part = "rebuild" => Rebuild!PictureIsTrue /\ Rebuild!ClientsAgree
  /\ part = "compression" => Packing!NothingIsMixedUp

\* A stale index misses no frame, and without a cleanup finds none twice; a
\* search gone through page by page and events followed miss nothing either,
\* under the conditions the code can hold that.
LookupMissesNothing ==
  /\ part = "repository" => Repository!PagingFindsEachOnce
  /\ part = "frameStore" => Frames!LookupMissesNothing
  /\ part = "sessionQueries" => Searches!SearchFindsEachOnce /\ Searches!HealthFitsTheSession
                               /\ Searches!AnswersAgree
  /\ part = "eventQueries" => Reading!ReaderFollows /\ Reading!ExportsReplay

\* What is rebuilt in the end is the document that was streamed.
RebuildsTheDocument == part = "rebuild" => Rebuild!RebuildsTheDocument
=============================================================================
