---------------------------- MODULE FrameStreams ----------------------------
(***************************************************************************)
(* Bodies made of streams of frames.  The adapters of infrastructure/http/ *)
(* streaming.rs: AdaptiveFrameStream passes frames on, BatchFrameStream    *)
(* collects them into batches, PriorityFrameStream reorders them through a *)
(* bounded heap.  FrameStream of axum_adapter.rs makes up the frames of    *)
(* stream_frames, and handle_sse_stream of axum_extension.rs sends those   *)
(* of a plan.  The consumer polls until the stream says None.  The inner   *)
(* stream has frames 1, 2, ... and may be pending before any of them.      *)
(* StreamProcessor of stream/mod.rs is handed frames instead, and hands    *)
(* them out by the buffer; one that is too large changes nothing in it.    *)
(*                                                                         *)
(* A body is a sequence of pieces: frames, and the marks between which a   *)
(* client looks for them.  How a frame is written is left out.             *)
(***************************************************************************)
EXTENDS Naturals, Sequences, FiniteSetsExt, SequencesExt

CONSTANTS
  Priorities,
  Length,  \* bound: frames of the inner stream
  Sizes    \* batch_size and buffer_size

VARIABLES
  adapter,
  format,    \* of the body, or the error that is answered instead
  size,      \* batch_size or buffer_size
  priority,  \* of each frame
  taken,     \* how many frames the inner stream has yielded
  buffer,    \* current_batch or priority_buffer
  out,       \* the frames yielded
  seen,      \* history: seen[i] is `taken` when out[i] was yielded
  body,      \* the pieces yielded
  ended      \* the adapter has said None

vars == << adapter, format, size, priority, taken, buffer, out, seen, body, ended >>

-----------------------------------------------------------------------------
(* Requests *)

Formats == {"json", "ndjson", "sse", "binary"}

\* StreamFormat::from_accept_header, with the types a header names
FromAcceptHeader(types) ==
  CASE "sse" \in types                          -> "sse"
    [] "sse" \notin types /\ "ndjson" \in types -> "ndjson"
    [] types = {"binary"}                       -> "binary"
    [] types = {}                               -> "json"

\* A session identifier, well-formed or not, and what the query may say
Params == [wellFormed : BOOLEAN, priority : {"none", "zero", "some"},
           format : {"none", "ndjson", "sse", "other"}]

\* What PjsError::into_response makes of the faults of a request
BadRequests == {"InvalidSessionId", "InvalidPriority"}

\* The checks stream_frames and stream_server_sent_events begin with.  The
\* session itself is not looked for.
Checked(params, answer) ==
  CASE ~params.wellFormed -> "InvalidSessionId"
    [] params.wellFormed /\ params.priority = "zero" -> "InvalidPriority"
    [] OTHER -> answer

StreamFrames(params) ==
  Checked(params, IF params.format \in {"sse", "ndjson"} THEN params.format ELSE "json")

StreamServerSentEvents(params) == Checked(params, "sse")

\* The frames of a plan of its own making are sent as events.
HandleSseStream == adapter = "plan" /\ format = "sse"

Init ==
  /\ \/ /\ adapter \in {"adaptive", "batch", "priority"}
        /\ format \in {FromAcceptHeader(types) : types \in SUBSET (Formats \ {"json"})}
     \/ /\ adapter = "FrameStream"
        /\ format \in UNION {{StreamFrames(p), StreamServerSentEvents(p)} : p \in Params}
     \/ HandleSseStream
     \/ adapter = "processor" /\ format = "none"
  /\ IF adapter \in {"batch", "priority", "processor"} THEN size \in Sizes ELSE size = 0
  /\ IF adapter = "priority" THEN priority \in [1 .. Length -> Priorities]
     ELSE priority = << >>
  /\ taken = 0
  /\ buffer = << >>
  /\ out = << >>
  /\ seen = << >>
  /\ body = << >>
  /\ ended = (format \in BadRequests)

-----------------------------------------------------------------------------
(* What is written *)

Frame(f) == [piece |-> "frame", frame |-> f]
Mark(m)  == [piece |-> m]

\* Mutant: NDJSON is written like JSON.
WrittenWithoutLines(f) ==
  IF format = "sse" THEN << Mark("data: "), Frame(f), Mark("\n\n") >> ELSE << Frame(f) >>

\* format_frame, and the items of format_batch
Written(f) ==
  CASE format = "sse"    -> << Mark("data: "), Frame(f), Mark("\n\n") >>
    [] format = "ndjson" -> << Frame(f), Mark("\n") >>
    [] OTHER             -> << Frame(f) >>

Each(frames) == FlattenSeq([i \in DOMAIN frames |-> Written(frames[i])])

JsonArray(frames) ==
  << Mark("["), Frame(Head(frames)) >>
    \o FlattenSeq([i \in DOMAIN Tail(frames) |-> << Mark(","), Frame(Tail(frames)[i]) >>])
    \o << Mark("]") >>

\* format_batch: the first batch has brackets of its own around it, and the
\* others a comma before.
WrittenBatch(frames) ==
  CASE format = "json"   -> IF body = << >>
                            THEN << Mark("[") >> \o JsonArray(frames) \o << Mark("]") >>
                            ELSE << Mark(",") >> \o JsonArray(frames)
    [] format = "binary" -> JsonArray(frames)
    [] OTHER             -> Each(frames)

\* create_json_response, create_ndjson_response and create_sse_response: only
\* events are given marks.
WrittenByResponse(f) ==
  IF format = "sse" THEN << Mark("data: "), Frame(f), Mark("\n\n") >> ELSE << Frame(f) >>

-----------------------------------------------------------------------------
(* poll_next *)

Is(a) == adapter = a /\ ~ended

\* FrameStream makes up five frames, whatever the session holds.
Available == IF adapter = "FrameStream" THEN 5 ELSE Length
Exhausted == taken = Available

Yield(frames, pieces) ==
  /\ out' = out \o frames
  /\ seen' = seen \o [i \in 1 .. Len(frames) |-> taken']
  /\ body' = body \o pieces

YieldNothing == UNCHANGED << out, seen, body >>
Constants    == UNCHANGED << adapter, format, size, priority >>

\* AdaptiveFrameStream::poll_next, and the stream over the frames of a plan
PassOn ==
  /\ Is("adaptive") \/ Is("plan")
  /\ IF Exhausted THEN ended' = TRUE /\ UNCHANGED taken /\ YieldNothing
     ELSE /\ taken' = taken + 1
          /\ Yield(<< taken + 1 >>, Written(taken + 1)) /\ UNCHANGED ended
  /\ Constants /\ UNCHANGED buffer

\* FrameStream::poll_next
MakeUp ==
  /\ Is("FrameStream")
  /\ IF Exhausted THEN ended' = TRUE /\ UNCHANGED taken /\ YieldNothing
     ELSE /\ taken' = taken + 1
          /\ Yield(<< taken + 1 >>, WrittenByResponse(taken + 1)) /\ UNCHANGED ended
  /\ Constants /\ UNCHANGED buffer

\* BatchFrameStream::poll_next, once round the loop: a frame is there ...
BatchTake ==
  /\ Is("batch") /\ ~Exhausted
  /\ taken' = taken + 1
  /\ LET batch == Append(buffer, taken + 1)
     IN  IF Len(batch) >= size THEN Yield(batch, WrittenBatch(batch)) /\ buffer' = << >>
         ELSE YieldNothing /\ buffer' = batch
  /\ Constants /\ UNCHANGED ended

\* ... or is not yet: half a batch is sent ...
BatchPending ==
  /\ Is("batch") /\ ~Exhausted
  /\ buffer # << >> /\ Len(buffer) >= size \div 2
  /\ buffer' = << >>
  /\ UNCHANGED taken /\ Yield(buffer, WrittenBatch(buffer))
  /\ Constants /\ UNCHANGED ended

\* Mutant: the end of the inner stream is passed on at once.
BatchEndAtOnce ==
  /\ Is("batch") /\ Exhausted
  /\ ended' = TRUE
  /\ YieldNothing
  /\ Constants /\ UNCHANGED << taken, buffer >>

\* ... or never will be: the rest is sent, then None.
BatchEnd ==
  /\ Is("batch") /\ Exhausted
  /\ ended' = (buffer = << >>)
  /\ buffer' = << >>
  /\ UNCHANGED taken
  /\ IF buffer = << >> THEN YieldNothing ELSE Yield(buffer, WrittenBatch(buffer))
  /\ Constants

\* PriorityFrameStream::poll_next: the buffer is filled as far as there is
\* room and the inner stream is ready, and one of the most important frames is
\* yielded.  An empty buffer is the end, even if the inner stream is pending.
PriorityPoll ==
  /\ Is("priority")
  /\ \E ready \in 0 .. Length - taken :
       /\ ready = 0 \/ Len(buffer) + ready <= size
       /\ taken' = taken + ready
       /\ LET filled == buffer \o [i \in 1 .. ready |-> taken + i]
              first  == Max({priority[f] : f \in ToSet(filled)})
          IN  IF filled = << >>
              THEN ended' = TRUE /\ YieldNothing /\ UNCHANGED buffer
              ELSE \E f \in ToSet(filled) :
                     /\ priority[f] = first
                     /\ Yield(<< f >>, Written(f))
                     /\ buffer' = SelectSeq(filled, LAMBDA g : g # f)
                     /\ UNCHANGED ended
  /\ Constants

\* StreamProcessor::process_frame, of a frame that is not too large
ProcessFrame ==
  /\ Is("processor") /\ ~Exhausted
  /\ taken' = taken + 1
  /\ LET frames == Append(buffer, taken + 1)
     IN  IF Len(frames) >= size
         THEN buffer' = << >> /\ Yield(frames, [i \in DOMAIN frames |-> Frame(frames[i])])
         ELSE buffer' = frames /\ YieldNothing
  /\ Constants /\ UNCHANGED ended

\* StreamProcessor::flush, at any time; here the last call once all is taken
Flush ==
  /\ Is("processor")
  /\ buffer' = << >>
  /\ ended' = Exhausted
  /\ UNCHANGED taken
  /\ Yield(buffer, [i \in DOMAIN buffer |-> Frame(buffer[i])])
  /\ Constants

\* StreamProcessor::stats
Stats == [processed |-> taken, buffered |-> Len(buffer)]

Next ==
  \/ PassOn \/ MakeUp
  \/ BatchTake \/ BatchPending \/ BatchEnd
  \/ PriorityPoll
  \/ ProcessFrame \/ Flush

Spec == Init /\ [][Next]_vars

-----------------------------------------------------------------------------
(* Properties *)

TypeOK ==
  /\ format \in Formats \cup BadRequests \cup {"none"}
  /\ taken \in 0 .. Available
  /\ buffer \in Seq(1 .. Available)
  /\ Len(buffer) <= Max({size, 1})
  /\ out \in Seq(1 .. Available)
  /\ ended \in BOOLEAN

\* Every frame taken from the inner stream comes out once, and when the
\* adapter says None nothing is left in it; only the priority stream may say
\* so before the inner stream has ended.  The processor's counts tell what it
\* has given back, and it never keeps a full buffer.
AllComeOut ==
  /\ IsInjective(out)
  /\ ToSet(out) \cup ToSet(buffer) = 1 .. taken
  /\ ToSet(out) \cap ToSet(buffer) = {}
  /\ ended => buffer = << >>
  /\ ended /\ adapter # "priority" /\ format \notin BadRequests => Exhausted
  /\ adapter = "processor" => /\ Stats.processed = Stats.buffered + Len(out)
                              /\ Stats.buffered < Max({size, 1})

\* Frames keep their order, except that the priority stream lets a frame pass
\* less important ones it has seen: a less important frame is never ahead of
\* one that was in the buffer with it.
OrderIsKept ==
  IF adapter = "priority"
  THEN \A i, j \in DOMAIN out :
         i < j /\ priority[out[i]] < priority[out[j]] => out[j] > seen[i]
  ELSE out \o buffer = [i \in 1 .. taken |-> i]

\* Every frame of the body stands between two marks.
Between(before, after) ==
  \A i \in DOMAIN body :
    body[i].piece = "frame" =>
      /\ before # "" => i > 1 /\ body[i - 1] = Mark(before)
      /\ i < Len(body) /\ body[i + 1] = Mark(after)

\* How many arrays are open after i pieces
Depth(i) ==
  Cardinality({k \in 1 .. i : body[k].piece = "["})
    - Cardinality({k \in 1 .. i : body[k].piece = "]"})

IsOneValue ==
  \/ Len(body) = 1
  \/ \A i \in DOMAIN body : (Depth(i) = 0) <=> (i = Len(body))

\* A client finds in the body the frames that were yielded.  Events end with
\* an empty line and lines of NDJSON with a newline, but for those of
\* stream_frames, which nothing ends; and a JSON body is a value of its own
\* only while it holds one frame, or one batch.
FramesCanBeToldApart ==
  /\ LET frames == SelectSeq(body, LAMBDA p : p.piece = "frame")
     IN  out = [i \in DOMAIN frames |-> frames[i].frame]
  /\ format = "sse" => Between("data: ", "\n\n")
  /\ format = "ndjson" => IF adapter = "FrameStream" THEN Len(body) = Len(out) ELSE Between("", "\n")
  /\ format = "json" /\ body # << >> =>
       /\ Len(out) = 1 => IsOneValue
       /\ IsOneValue => Len(out) <= (IF adapter = "batch" THEN Max({size, 1}) ELSE 1)

FramesComeOut == AllComeOut /\ OrderIsKept /\ FramesCanBeToldApart
=============================================================================
