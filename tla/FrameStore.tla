----------------------------- MODULE FrameStore -----------------------------
(***************************************************************************)
(* InMemoryFrameRepository (infrastructure/adapters/repository_adapters.rs)*)
(* and StreamingOrchestrator (domain/services/streaming_orchestrator.rs),  *)
(* which sends the frames of a stream that matter enough.                  *)
(*                                                                         *)
(* The frames of a stream are a list; an index remembers positions in it.  *)
(* store_frame pushes under one lock and indexes under another.  Every     *)
(* frame is indexed under the same path, "$.priority", whatever it holds.  *)
(* cleanup_old_frames shortens the lists and never looks at the index.     *)
(*                                                                         *)
(* The orchestrator keeps what it has read of the repository in a cache    *)
(* for five minutes, under a key for the stream and the threshold.  Its    *)
(* session, cache, writer, events, publisher and metrics are ports: each   *)
(* call of one is awaited and may fail, which ends the call at once.       *)
(*                                                                         *)
(* One stream is modelled: the index is filtered by stream on every read.  *)
(* store_frames is store_frame in a loop; sizes, durations and throughput  *)
(* are left out.                                                           *)
(***************************************************************************)
EXTENDS Naturals, Sequences, FiniteSets, SequencesExt

CONSTANTS
  Writer,
  NotStoring,
  MaxFrames,   \* bound: frames ever stored
  Kinds,       \* of frames: their time stamp and priority
  Ages,        \* that cleanup_old_frames is called with
  Caller,      \* of the orchestrator
  Thresholds,  \* that stream_with_priority is called with
  Medium,      \* Priority::MEDIUM
  PageSize,    \* the limit of the query
  NotCached,
  MaxCalls     \* bound: streams the orchestrator is asked for

VARIABLES
  frames,   \* frames[stream]
  index,    \* frame_indices["$.priority"], the positions of this stream
  storing,  \* the position a writer has pushed to and not yet indexed
  stored,   \* how many frames have been pushed
  cleaned,  \* whether a cleanup has removed any, as long as there is an index
  cached,   \* the cache: threshold -> what was read
  sending,  \* the call each caller of the orchestrator is in
  asked     \* how many streams the orchestrator has been asked for

vars == << frames, index, storing, stored, cleaned, cached, sending, asked >>

repository   == << frames, index, storing, stored, cleaned >>
orchestrator == << cached, sending, asked >>

\* Positions count from 0, as in the code.
Positions    == 0 .. Len(frames) - 1

NotSending == [stage |-> "none"]

Init ==
  /\ frames = << >>
  /\ index = << >>
  /\ storing = [w \in Writer |-> NotStoring]
  /\ stored = 0
  /\ cleaned = FALSE
  /\ cached = [t \in Thresholds |-> NotCached]
  /\ sending = [c \in Caller |-> NotSending]
  /\ asked = 0

-----------------------------------------------------------------------------
(* The repository *)

\* store_frame: the position is read and the frame pushed under one lock ...
Push(w, kind) ==
  /\ storing[w] = NotStoring
  /\ stored < MaxFrames
  /\ storing' = IF asked = 0 THEN [storing EXCEPT ![w] = Len(frames)]
                ELSE storing   \* bound: the orchestrator reads no index, and none is kept
  /\ frames' = Append(frames, [id |-> stored, time |-> kind.time, priority |-> kind.priority])
  /\ stored' = stored + 1
  /\ UNCHANGED << index, cleaned, orchestrator >>

\* Mutant: the position is taken anew when the index is written.
IndexTheLast(w) ==
  /\ storing[w] # NotStoring
  /\ index' = IF frames = << >> THEN index ELSE Append(index, Len(frames) - 1)
  /\ storing' = [storing EXCEPT ![w] = NotStoring]
  /\ UNCHANGED << frames, stored, cleaned, orchestrator >>

\* ... build_frame_index: the position goes into the index under another.
Index(w) ==
  /\ storing[w] # NotStoring
  /\ index' = Append(index, storing[w])
  /\ storing' = [storing EXCEPT ![w] = NotStoring]
  /\ UNCHANGED << frames, stored, cleaned, orchestrator >>

\* cleanup_old_frames: what is not younger goes, the index stays.
Cleanup(older_than) ==
  /\ frames' = SelectSeq(frames, LAMBDA f : f.time > older_than)
  /\ cleaned' = (cleaned \/ (asked = 0 /\ frames' # frames))
  /\ UNCHANGED << index, storing, stored, orchestrator >>

\* get_frames_by_path: the positions of the index that exist.
Lookup == SelectSeq(index, LAMBDA position : position \in Positions)

\* get_frames_by_stream: those that matter enough, a page of them, as they were
\* stored.  The order that is asked for, by priority, is not looked at: what a
\* page leaves out may matter more than what it has.
Page(threshold) ==
  LET wanted == SelectSeq(frames, LAMBDA f : f.priority >= threshold)
  IN  SubSeq(wanted, 1, Min({PageSize, Len(wanted)}))

-----------------------------------------------------------------------------
(* The orchestrator *)

Reached(c, stage) == sending[c].stage = stage
Advance(c, stage) == sending' = [sending EXCEPT ![c].stage = stage]

Read(got, upTo) == [frames |-> got, upTo |-> upTo]

\* Mutant: the key has the stream in it and not the threshold.
KeyOfStream(threshold) == Medium

CacheKey(threshold) == threshold

\* What is still to be sent of what was read, and what has been sent
Write(call, read) ==
  [stage |-> "write", threshold |-> call.threshold, read |-> read,
   rest |-> read.frames, sent |-> << >>]

\* The session is there, or the call ends before it has done anything; then
\* the cache is asked, whose entry may have outlived its five minutes.
StreamWithPriority(c, threshold) ==
  /\ Reached(c, "none") /\ asked < MaxCalls
  /\ asked = 0 => frames = << >> /\ \A w \in Writer : storing[w] = NotStoring  \* bound, as for Push
  /\ asked' = asked + 1
  /\ LET call == [stage |-> "fetch", threshold |-> threshold]
     IN  \E hit \in {cached[CacheKey(threshold)], NotCached} :
           sending' = [sending EXCEPT ![c] = IF hit = NotCached THEN call ELSE Write(call, hit)]
  /\ UNCHANGED << repository, cached >>

\* batch_stream_multiple is this again and again, until one fails.
AdaptiveStream(c) == StreamWithPriority(c, Medium)

Fetch(c) ==
  /\ Reached(c, "fetch")
  /\ sending' = [sending EXCEPT
       ![c] = [stage |-> "remember", threshold |-> @.threshold,
               read |-> Read(Page(@.threshold), stored)]]
  /\ UNCHANGED << repository, cached, asked >>

\* Whatever was remembered since the fetch is overwritten.
Remember(c) ==
  /\ Reached(c, "remember")
  /\ cached' = [cached EXCEPT ![CacheKey(sending[c].threshold)] = sending[c].read]
  /\ sending' = [sending EXCEPT ![c] = Write(@, @.read)]
  /\ UNCHANGED << repository, asked >>

OfPriority(p, fs)  == SelectSeq(fs, LAMBDA f : f.priority = p)
NotOfPriority(p, fs) == SelectSeq(fs, LAMBDA f : f.priority # p)

\* Mutant: the completion is on record, and published, when the rest is to come.
WriteGroupLast(c) ==
  /\ Reached(c, "write")
  /\ Advance(c, "complete")
  /\ UNCHANGED << repository, cached, asked >>

\* A group of frames of one priority is written, the most important first.
WriteGroup(c) ==
  /\ Reached(c, "write")
  /\ LET call == sending[c]
         p    == Max({f.priority : f \in ToSet(call.rest)})
     IN  IF call.rest = << >>
         THEN Advance(c, "complete")
         ELSE sending' = [sending EXCEPT ![c].sent = @ \o OfPriority(p, call.rest),
                                         ![c].rest = NotOfPriority(p, @)]
  /\ UNCHANGED << repository, cached, asked >>

\* store_event, as number 0 whatever there was before; publish; record_timing;
\* and the answer
Complete(c) ==
  /\ Reached(c, "complete")
  /\ sending' = [sending EXCEPT ![c] = NotSending]
  /\ UNCHANGED << repository, cached, asked >>

\* A port fails.  What has been written, remembered or recorded stays so.
Fail(c) ==
  /\ ~Reached(c, "none")
  /\ sending' = [sending EXCEPT ![c] = NotSending]
  /\ UNCHANGED << repository, cached, asked >>

Next ==
  \/ \E w \in Writer : Index(w) \/ \E kind \in Kinds : Push(w, kind)
  \/ \E older_than \in Ages : Cleanup(older_than)
  \/ \E c \in Caller :
       \/ AdaptiveStream(c)
       \/ \E threshold \in Thresholds \ {Medium} : StreamWithPriority(c, threshold)
       \/ Fetch(c) \/ Remember(c) \/ WriteGroup(c)
       \/ Complete(c) \/ Fail(c)

Spec == Init /\ [][Next]_vars

-----------------------------------------------------------------------------
(* Properties *)

TypeOK ==
  /\ \A f \in ToSet(frames) : f.id < stored /\ [time |-> f.time, priority |-> f.priority] \in Kinds
  /\ index \in Seq(0 .. MaxFrames - 1)
  /\ storing \in [Writer -> 0 .. MaxFrames - 1 \cup {NotStoring}]
  /\ stored \in 0 .. MaxFrames
  /\ cleaned \in BOOLEAN
  /\ DOMAIN cached = Thresholds /\ DOMAIN sending = Caller
  /\ asked \in 0 .. MaxCalls

\* Positions shift when old frames are cleaned away, and the index is not
\* told; even so no lookup misses a frame, unless it is one whose writer has
\* not come to index it.  What the stale index costs: a frame that took the
\* place of another is found twice, and only a cleanup brings that about.
LookupMissesNothing ==
  asked = 0 =>
  /\ \A position \in Positions :
       \/ \E i \in DOMAIN Lookup : Lookup[i] = position
       \/ \E w \in Writer : storing[w] = position
  /\ cleaned \/ \A i, j \in DOMAIN index : index[i] = index[j] => i = j

\* What was read for a threshold, by this call or by one before it that left it
\* in the cache: nothing that matters less, and of what was stored up to then
\* nothing is missing that is in the repository to this day, but for what
\* comes after a full page.
IsAPage(read, threshold) ==
  /\ \A f \in ToSet(read.frames) : f.priority >= threshold /\ f.id < read.upTo
  /\ \A f \in ToSet(frames) \ ToSet(read.frames) :
       f.priority >= threshold /\ f.id < read.upTo =>
         /\ Len(read.frames) = PageSize
         /\ \A g \in ToSet(read.frames) : g.id < f.id

Before(f, g) == f.priority > g.priority \/ (f.priority = g.priority /\ f.id < g.id)

\* A completed stream has sent a whole page that fits the threshold of its own
\* call, each frame once and more important ones first, although others cache
\* pages, store and clean up in between.
CompletedMeansSent ==
  /\ \A key \in Thresholds : cached[key] # NotCached => IsAPage(cached[key], key)
  /\ \A c \in Caller :
       sending[c].stage \in {"remember", "write", "complete"} =>
         LET call == sending[c]
         IN  /\ IsAPage(call.read, call.threshold)
             /\ call.stage # "remember" =>
                  \A i, j \in DOMAIN call.sent : i < j => Before(call.sent[i], call.sent[j])
             /\ call.stage = "complete" =>
                  /\ Len(call.sent) = Len(call.read.frames)
                  /\ ToSet(call.sent) = ToSet(call.read.frames)
=============================================================================
