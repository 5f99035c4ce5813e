----------------------------- MODULE WebResponses -----------------------------
(***************************************************************************)
(* Responses for web frameworks: built with headers and events from global *)
(* pools (infrastructure/integration/object_pool.rs), in the format that a *)
(* request prefers (streaming_adapter.rs, universal_adapter.rs and         *)
(* http/axum_extension.rs).                                                *)
(*                                                                         *)
(* What a thread does to a pool is one step here; ObjectPool has what      *)
(* happens in between.  A header with media types is the set of those it   *)
(* names, and frames are put into a body one after the other.              *)
(***************************************************************************)
EXTENDS Naturals, Sequences, FiniteSets, SequencesExt

CONSTANTS
  Thread,
  Capacity,    \* of each pool
  Headers,     \* names and values that are put in, as a function
  EventData,   \* that is put in as events
  Requests,    \* headers of requests: names with the media types they name
  FrameLists,  \* what may be streamed
  NoWork,
  MaxResponses \* bound: responses begun

VARIABLES
  pools,   \* pool -> the contents of the objects in its queue
  stats,   \* pool -> PoolStats
  work,    \* thread -> the builder it is at work with
  put,     \* history: thread -> the headers and events it has put in
  given, thrown, abandoned,  \* history: pool -> objects that went into responses, or
                             \* came back to a full pool; builders that were dropped
  begun,   \* history: responses begun
  answer   \* history: the last response for frames, with what it was made of

vars == << pools, stats, work, put, given, thrown, abandoned, begun, answer >>

Pool == {"map", "vec"}

-----------------------------------------------------------------------------
(* Formats *)

Json   == "application/json"
Ndjson == "application/x-ndjson"
Sse    == "text/event-stream"
Binary == "application/octet-stream"

\* StreamingFormat::from_accept_header
FromAcceptHeader(types) ==
  CASE Sse \in types                         -> Sse
    [] Sse \notin types /\ Ndjson \in types  -> Ndjson
    [] types \cap {Sse, Ndjson} = {} /\ Binary \in types -> Binary
    [] OTHER                                 -> Json

\* The header is looked for in lower case only.
PreferredStreamingFormat(request) ==
  IF "accept" \in DOMAIN request THEN FromAcceptHeader(request["accept"]) ELSE Json

Accepts(request, type) ==
  LET named == IF "accept" \in DOMAIN request THEN request["accept"]
               ELSE IF "Accept" \in DOMAIN request THEN request["Accept"] ELSE {}
  IN  type \in named

\* axum_extension: names of headers have no case there.
Accepted(request) == UNION {request[h] : h \in DOMAIN request \cap {"accept", "Accept"}}

\* handle_stream_request: a format that is asked for goes before the header.
StreamRequestFormat(request) ==
  CASE Sse \in Accepted(request) -> Sse
    [] Sse \notin Accepted(request) /\ Ndjson \in Accepted(request) -> Ndjson
    [] OTHER -> Json

\* pjs_middleware: the header of its own counts only beside an Accept header.
WantsPjs(request) ==
  /\ DOMAIN request \cap {"accept", "Accept"} # {}
  /\ Accepted(request) \cap {"application/pjs-stream", Sse} # {} \/ "x-pjs-stream" \in DOMAIN request

\* pjs_stream: the document in one piece in either case
PjsStream(request) == IF WantsPjs(request) THEN "application/pjs-stream" ELSE Json

-----------------------------------------------------------------------------
(* Bodies: items, each a sequence of pieces of text *)

\* The entries of one map put over those of another
Over(map, under) ==
  [key \in DOMAIN map \cup DOMAIN under |-> IF key \in DOMAIN map THEN map[key] ELSE under[key]]

Entry(key, value) == [k \in {key} |-> value]
SseHeaders == Over(Entry("Cache-Control", "no-cache"), Entry("Connection", "keep-alive"))

Response(type, headers, kind, items) ==
  [type |-> type, headers |-> headers, kind |-> kind, items |-> items]

Lines(frames) == [i \in DOMAIN frames |-> << frames[i] >>]

\* default_sse_response: all in one, unless the serializer (external) refuses;
\* then one by one, and the line ends are spelled out.
SseResponse(frames, refused) ==
  Response(Sse, Over(Entry("X-PJS-Session-ID", "session"), SseHeaders), "ServerSentEvents",
           IF refused THEN [i \in DOMAIN frames |-> << "data: ", frames[i], "\\n\\n" >>]
           ELSE << FlattenSeq([i \in DOMAIN frames |-> << "data: ", frames[i], "\n\n" >>]) >>)

\* create_streaming_response; the headers come from the pool.
StreamingResponse(format, headers, frames) ==
  CASE format = Json   -> Response(Json, headers, "Json", Lines(frames))
    [] format = Ndjson -> Response(Ndjson, headers, "ServerSentEvents", Lines(frames))
    [] format = Binary -> Response(Binary, headers, "Binary", << frames >>)

-----------------------------------------------------------------------------
(* Pools *)

Init ==
  /\ pools = [p \in Pool |-> << >>]
  /\ stats = [p \in Pool |-> [created |-> 0, reused |-> 0, returned |-> 0, size |-> 0, peak |-> 0]]
  /\ work = [t \in Thread |-> NoWork]
  /\ put = [t \in Thread |-> [headers |-> << >>, events |-> << >>]]
  /\ given = [p \in Pool |-> 0] /\ thrown = [p \in Pool |-> 0] /\ abandoned = 0
  /\ begun = 0 /\ answer = [response |-> NoWork]

\* What a builder is at work on, with headers of its own and those put in
HeaderMap == UNION {[names -> ToSet(Headers) \cup ToSet(SseHeaders)] :
                      names \in SUBSET (DOMAIN Headers \cup DOMAIN SseHeaders)}
Builder   == [pooled : {{"map"}}, type : {Json}, headers : HeaderMap]
               \cup [pooled : {Pool}, type : {Sse}, headers : HeaderMap, events : Seq(EventData)]

\* Mutant: an object is handed out as it came back.
AsItCame(content) == content

\* get_cow_hashmap and the like: clear, whatever the object held.
Cleaned(content) == << >>

Obtained(p) == IF pools[p] = << >> THEN << >> ELSE Cleaned(Head(pools[p]))

Larger(a, b) == IF a > b THEN a ELSE b

\* ObjectPool::get of every pool in a set
Get(ps) ==
  /\ pools' = [p \in Pool |-> IF p \in ps /\ pools[p] # << >> THEN Tail(pools[p]) ELSE pools[p]]
  /\ stats' = [p \in Pool |->
                 IF p \notin ps THEN stats[p]
                 ELSE IF pools[p] # << >>
                      THEN [stats[p] EXCEPT !.reused = @ + 1, !.size = @ - 1]
                      ELSE [stats[p] EXCEPT !.created = @ + 1,
                              !.peak = Larger(@, stats[p].created + 1 - stats[p].size)]]

\* PooledObject::drop of one object for each pool in a set
Return(contents) ==
  LET back == {p \in DOMAIN contents : Len(pools[p]) < Capacity}
  IN  /\ pools' = [p \in Pool |-> IF p \in back THEN Append(pools[p], contents[p]) ELSE pools[p]]
      /\ stats' = [p \in Pool |->
                     IF p \in back THEN [stats[p] EXCEPT !.returned = @ + 1, !.size = @ + 1]
                     ELSE stats[p]]
      /\ thrown' = [p \in Pool |-> thrown[p] + (IF p \in DOMAIN contents \ back THEN 1 ELSE 0)]

GlobalPoolStats ==
  LET created == stats["map"].created + stats["vec"].created
      reused  == stats["map"].reused + stats["vec"].reused
  IN  [created |-> created, reused |-> reused,
       percent |-> IF created + reused > 0 THEN (100 * reused) \div (created + reused) ELSE 0]

-----------------------------------------------------------------------------
(* Builders *)

Begin(t, builder, ps) ==
  /\ work[t] = NoWork /\ begun < MaxResponses
  /\ Get(ps)
  /\ work' = [work EXCEPT ![t] = builder]
  /\ put' = [put EXCEPT ![t] = [headers |-> << >>, events |-> << >>]]
  /\ begun' = begun + 1
  /\ UNCHANGED << given, thrown, abandoned, answer >>

\* PooledResponseBuilder::new
NewResponseBuilder(t) ==
  Begin(t, [pooled |-> {"map"}, type |-> Json, headers |-> Obtained("map")], {"map"})

\* PooledSSEBuilder::new
NewSseBuilder(t) ==
  Begin(t, [pooled |-> Pool, type |-> Sse, headers |-> Over(SseHeaders, Obtained("map")),
            events |-> Obtained("vec")], Pool)

Header(t, name) ==
  /\ work[t] # NoWork
  /\ work' = [work EXCEPT ![t].headers = Over(Entry(name, Headers[name]), @)]
  /\ put' = [put EXCEPT ![t].headers = Over(Entry(name, Headers[name]), @)]
  /\ UNCHANGED << pools, stats, given, thrown, abandoned, begun, answer >>

\* Bound: two events
Event(t, data) ==
  /\ work[t] # NoWork /\ "events" \in DOMAIN work[t] /\ Len(put[t].events) < 2
  /\ work' = [work EXCEPT ![t].events = Append(@, data)]
  /\ put' = [put EXCEPT ![t].events = Append(@, data)]
  /\ UNCHANGED << pools, stats, given, thrown, abandoned, begun, answer >>

\* json, binary and build take the objects: they do not come back.
Finish(t) ==
  /\ work[t] # NoWork
  /\ given' = [p \in Pool |-> given[p] + (IF p \in work[t].pooled THEN 1 ELSE 0)]
  /\ work' = [work EXCEPT ![t] = NoWork]
  /\ UNCHANGED << pools, stats, put, thrown, abandoned, begun, answer >>

\* A builder that is dropped gives back its objects with what is in them.
Abandon(t) ==
  /\ work[t] # NoWork
  /\ Return([p \in work[t].pooled |-> IF p = "map" THEN work[t].headers ELSE work[t].events])
  /\ abandoned' = abandoned + 1
  /\ work' = [work EXCEPT ![t] = NoWork]
  /\ UNCHANGED << put, given, begun, answer >>

\* auto_stream_response: events without the pool, all else with an object that
\* is taken at once.  The universal adapter then refuses to convert what it has
\* built; one made for a framework (external) answers with it.
AutoStreamResponse(t, format, frames, refused) ==
  /\ work[t] = NoWork /\ begun < MaxResponses /\ begun' = begun + 1
  /\ IF format = Sse
     THEN /\ answer' = [frames |-> frames, refused |-> refused,
                        response |-> SseResponse(frames, refused)]
          /\ UNCHANGED << pools, stats, given >>
     ELSE /\ ~refused /\ Get({"map"})
          /\ given' = [given EXCEPT !["map"] = @ + 1]
          /\ answer' = [frames |-> frames, refused |-> FALSE,
                        response |-> StreamingResponse(format, Obtained("map"), frames)]
  /\ UNCHANGED << work, put, thrown, abandoned >>

Next ==
  \E t \in Thread :
    \/ NewResponseBuilder(t) \/ NewSseBuilder(t)
    \/ \E name \in DOMAIN Headers : Header(t, name)
    \/ \E data \in EventData : Event(t, data)
    \/ Finish(t) \/ Abandon(t)
    \/ \E format \in {PreferredStreamingFormat(r) : r \in Requests},
          frames \in FrameLists, refused \in BOOLEAN :
         AutoStreamResponse(t, format, frames, refused)

Spec == Init /\ [][Next]_vars

-----------------------------------------------------------------------------
(* Properties *)

TypeOK ==
  /\ \A p \in Pool : Len(pools[p]) <= Capacity
  /\ work \in [Thread -> Builder \cup {NoWork}]
  /\ begun <= MaxResponses /\ abandoned <= begun
  /\ GlobalPoolStats.percent \in 0 .. 100

\* A response holds the headers and events that were put in by whoever built
\* it, and nothing of a response that was given up before.
NothingIsLeftOver ==
  /\ \A t \in Thread : work[t] # NoWork =>
       /\ work[t].headers = Over(put[t].headers, IF work[t].type = Sse THEN SseHeaders ELSE << >>)
       /\ "events" \in DOMAIN work[t] => work[t].events = put[t].events
  /\ answer.response # NoWork =>
       DOMAIN answer.response.headers \subseteq DOMAIN SseHeaders \cup {"X-PJS-Session-ID"}

\* No object is lost or in two places, and the statistics tell where they are.
\* Only a builder that was given up has its objects used again: all others
\* make the pool a detour.
ObjectsAreAccountedFor ==
  \A p \in Pool :
    LET held == Cardinality({t \in Thread : work[t] # NoWork /\ p \in work[t].pooled})
        s    == stats[p]
    IN  /\ s.created = Len(pools[p]) + held + given[p] + thrown[p]
        /\ s.size = Len(pools[p]) /\ s.returned - s.reused = s.size
        /\ s.reused <= abandoned
        /\ held <= s.peak /\ s.peak <= s.created

\* What a body says, read as its type is read
Frames(response) ==
  IF response.type = Sse
  THEN LET text   == FlattenSeq(response.items)
           events == 1 .. Len(text) \div 3
       IN  IF \A i \in events : text[3 * i - 2] = "data: " /\ text[3 * i] = "\n\n"
           THEN [i \in events |-> text[3 * i - 1]]
           ELSE << >>
  ELSE FlattenSeq(response.items)

\* A response holds every frame once and in order, unless events were written
\* with line ends that are none.
HoldsAllFrames ==
  answer.response # NoWork /\ ~answer.refused => Frames(answer.response) = answer.frames

\* A format is one that the request names, or JSON; and the adapters and the
\* extension choose the same for a request that names its header in lower case
\* and does not ask for bytes.
FormatsAreAccepted ==
  begun = 0 =>
    \A r \in Requests :
      /\ PreferredStreamingFormat(r) = Json \/ Accepts(r, PreferredStreamingFormat(r))
      /\ "Accept" \notin DOMAIN r /\ Binary \notin Accepted(r) =>
           PreferredStreamingFormat(r) = StreamRequestFormat(r)
      /\ PjsStream(r) # Json =>
           Accepts(r, Sse) \/ Accepts(r, PjsStream(r)) \/ "x-pjs-stream" \in DOMAIN r

ResponsesAreOnesOwn ==
  NothingIsLeftOver /\ ObjectsAreAccountedFor /\ HoldsAllFrames /\ FormatsAreAccepted
=============================================================================
