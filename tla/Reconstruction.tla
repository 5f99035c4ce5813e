--------------------------- MODULE Reconstruction ---------------------------
(***************************************************************************)
(* PriorityStreamer (stream/priority.rs), which takes a JSON document      *)
(* apart into a skeleton and patches ordered by priority, and              *)
(* JsonReconstructor (stream/reconstruction.rs), which puts it together.   *)
(*                                                                         *)
(* A JSON value is [atom |-> ...], [array |-> sequence] or [object |->     *)
(* function of keys].  Long strings, which get a lower priority as some    *)
(* keys do, are left out, and so are the checksum and the timings.  The    *)
(* streamer makes Set and Append patches only, under paths of keys, so     *)
(* that merging, deleting and indices in paths do not occur.               *)
(*                                                                         *)
(* The same frames as the JavaScript client takes them, next to the        *)
(* reconstructor in Rust.  One client is processStream of core/client.ts   *)
(* over the JsonReconstructor of core/json-reconstructor.ts.  A second one *)
(* is behind a FrameProcessor (core/frame-processor.ts) in its strict      *)
(* mode, which checks the order of frames and refuses less important ones; *)
(* the package exports it, and PJSClient makes one and never calls it.     *)
(* What it refuses is dropped.  Progress, memory statistics and rendering  *)
(* are left out.                                                           *)
(***************************************************************************)
EXTENDS Naturals, Sequences, SequencesExt, TLC

CONSTANTS
  Documents,     \* what is streamed
  Keys,          \* the order in which a map is gone through
  PatchSizes,    \* StreamerConfig::max_patch_size, 100 by default
  LargeArray,    \* arrays longer than this are cut, 10 in the code
  LargeChunk,    \* more elements than this are less important, 50 in the code
  HugeArray,     \* and so is a field with more than this, 100 in the code
  MaxLosses,     \* bound: frames that do not arrive
  Thresholds,    \* FrameProcessorConfig::priorityThreshold
  Missing        \* undefined

VARIABLES
  document,   \* what is streamed
  wire,       \* the frames of the plan that have not arrived
  json,       \* JsonReconstructor::current_state
  queue,      \* frame_queue
  complete,   \* is_complete
  skeletons,  \* stats.skeleton_frames
  losses,     \* how many frames were lost
  errors,     \* history: how many frames could not be applied
  client,     \* what processStream has made, and of its promise
  threshold,
  processed,  \* receivedFrameTypes of the frame processor
  behind      \* the client behind it

vars   == << document, wire, json, queue, complete, skeletons, losses, errors >>
jsVars == << client, threshold, processed, behind >>

Critical   == 100
High       == 80
Medium     == 50
Low        == 25
Background == 10

IsObject(value) == "object" \in DOMAIN value
IsArray(value)  == "array" \in DOMAIN value

\* calculate_field_priority
FieldPriority(key, value) ==
  CASE key \in {"id", "uuid", "status", "type", "kind"}        -> Critical
    [] key \in {"name", "title", "label", "email", "username"} -> High
    [] key \in {"analytics", "stats", "meta"}                  -> Low
    [] key \in {"reviews", "comments", "logs", "history"}      -> Background
    [] OTHER -> IF IsArray(value) /\ Len(value.array) > HugeArray THEN Background ELSE Medium

\* calculate_array_priority, of the elements of one chunk
ArrayPriority(path, elements) ==
  IF \/ Len(elements) > LargeChunk
     \/ path # << >> /\ Last(path) \in {"reviews", "comments", "logs"}
  THEN Background ELSE Medium

Null  == [atom |-> "null"]
Empty == [array |-> << >>]

\* Mutant: the skeleton has the keys of the document and nothing below them.
SkeletonOfKeys(value) ==
  IF IsObject(value) THEN [object |-> [key \in DOMAIN value.object |-> Null]]
  ELSE IF IsArray(value) THEN Empty ELSE Null

\* generate_skeleton
RECURSIVE Skeleton(_)
Skeleton(value) ==
  IF IsArray(value) THEN Empty
  ELSE IF ~IsObject(value) THEN Null
  ELSE [object |-> [key \in DOMAIN value.object |->
          LET field == value.object[key]
          IN  IF IsObject(field) \/ IsArray(field) THEN Skeleton(field)
              ELSE CASE field.atom \in {"true", "false"} -> [atom |-> "false"]
                     [] field.atom \in {"0", "1"}        -> [atom |-> "0"]
                     [] OTHER                            -> Null]]

\* slice::chunks
RECURSIVE Chunks(_, _)
Chunks(s, size) ==
  IF s = << >> THEN << >>
  ELSE IF Len(s) <= size THEN << s >>
  ELSE << SubSeq(s, 1, size) >> \o Chunks(SubSeq(s, size + 1, Len(s)), size)

\* extract_patches: a field is set as a whole, and then what is in it once
\* more; the elements of an array are appended.
RECURSIVE Patches(_, _, _)
Patches(value, path, size) ==
  IF IsArray(value) THEN
    LET chunks == IF Len(value.array) > LargeArray THEN Chunks(value.array, size)
                  ELSE IF value.array = << >> THEN << >> ELSE << value.array >>
    IN  [i \in DOMAIN chunks |->
           [op |-> "Append", path |-> path, value |-> [array |-> chunks[i]],
            priority |-> ArrayPriority(path, chunks[i])]]
  ELSE IF ~IsObject(value) THEN << >>
  ELSE LET OfField(key) ==
             << [op |-> "Set", path |-> Append(path, key), value |-> value.object[key],
                 priority |-> FieldPriority(key, value.object[key])] >>
               \o Patches(value.object[key], Append(path, key), size)
           keys == SelectSeq(Keys, LAMBDA key : key \in DOMAIN value.object)
       IN  FlattenSeq([i \in DOMAIN keys |-> OfField(keys[i])])

\* patches.sort_by, which is stable, and the cutting into frames
Sorted(patches) ==
  LET Of(p) == SelectSeq(patches, LAMBDA patch : patch.priority = p)
  IN  << Of(Critical), Of(High), Of(Medium), Of(Low), Of(Background) >>

Analyze(value, size) ==
  LET groups == Sorted(Patches(value, << >>, size))
      Frame(patches) == [kind |-> "Patch", patches |-> patches]
      frames == FlattenSeq([i \in DOMAIN groups |-> Chunks(groups[i], size)])
  IN  << [kind |-> "Skeleton", data |-> Skeleton(value)] >>
        \o [i \in DOMAIN frames |-> Frame(frames[i])]
        \o << [kind |-> "Complete"] >>
-----------------------------------------------------------------------------
(* The patches applied *)

\* get_mut_at_path: the value at a path, where there is one
RECURSIVE Reaches(_, _)
Reaches(value, path) ==
  path = << >> \/ /\ IsObject(value) /\ Head(path) \in DOMAIN value.object
                   /\ Reaches(value.object[Head(path)], Tail(path))

RECURSIVE At(_, _)
At(value, path) ==
  IF path = << >> THEN value ELSE At(value.object[Head(path)], Tail(path))

\* set_at_path; the last key may be new
RECURSIVE SetAt(_, _, _)
SetAt(value, path, new) ==
  IF path = << >> THEN new
  ELSE LET field == IF Len(path) = 1 THEN new
                    ELSE SetAt(value.object[Head(path)], Tail(path), new)
       IN  [object |-> (Head(path) :> field) @@ value.object]

\* apply_patch fails, or gives the new value.
Applies(value, patch) ==
  IF patch.op = "Append" THEN Reaches(value, patch.path) /\ IsArray(At(value, patch.path))
  ELSE Reaches(value, Front(patch.path)) /\ IsObject(At(value, Front(patch.path)))

Applied(value, patch) ==
  SetAt(value, patch.path,
        IF patch.op = "Set" THEN patch.value
        ELSE [array |-> At(value, patch.path).array \o patch.value.array])

\* The patches of a frame, up to the first that fails
RECURSIVE AppliedAll(_, _)
AppliedAll(value, patches) ==
  IF patches = << >> THEN [json |-> value, ok |-> TRUE]
  ELSE IF ~Applies(value, Head(patches)) THEN [json |-> value, ok |-> FALSE]
  ELSE AppliedAll(Applied(value, Head(patches)), Tail(patches))

-----------------------------------------------------------------------------
Init ==
  /\ document \in Documents
  /\ \E size \in PatchSizes : wire = Analyze(document, size)
  /\ json = Null
  /\ queue = << >>
  /\ complete = FALSE
  /\ skeletons = 0
  /\ losses = 0
  /\ errors = 0

AddFrame ==
  /\ wire # << >>
  /\ queue' = Append(queue, Head(wire))
  /\ wire' = Tail(wire)
  /\ UNCHANGED << document, json, complete, skeletons, losses, errors >>

Lose ==
  /\ wire # << >> /\ losses < MaxLosses
  /\ wire' = Tail(wire)
  /\ losses' = losses + 1
  /\ UNCHANGED << document, json, queue, complete, skeletons, errors >>

\* process_next_frame; process_all_frames is the same again and again, until
\* a frame fails.  A frame that fails keeps what it has done and is gone.
Process ==
  /\ queue # << >>
  /\ queue' = Tail(queue)
  /\ LET frame == Head(queue)
     IN  \/ /\ frame.kind = "Skeleton"
            /\ json' = frame.data
            /\ skeletons' = skeletons + 1
            /\ UNCHANGED << complete, errors >>
         \/ /\ frame.kind = "Patch"
            /\ LET result == AppliedAll(json, frame.patches)
               IN  /\ json' = result.json
                   /\ errors' = IF result.ok THEN errors ELSE errors + 1
            /\ UNCHANGED << complete, skeletons >>
         \/ /\ frame.kind = "Complete"
            /\ complete' = TRUE
            /\ UNCHANGED << json, skeletons, errors >>
  /\ UNCHANGED << document, wire, losses >>

\* reset, and another document
Reset ==
  /\ complete
  /\ document' \in Documents
  /\ \E size \in PatchSizes : wire' = Analyze(document', size)
  /\ json' = Null
  /\ queue' = << >>
  /\ complete' = FALSE
  /\ skeletons' = 0
  /\ losses' = 0
  /\ errors' = 0

Next == AddFrame \/ Lose \/ Process \/ Reset

Spec == Init /\ [][Next]_vars

-----------------------------------------------------------------------------
(* Properties *)

TypeOK ==
  /\ document \in Documents
  /\ complete \in BOOLEAN
  /\ skeletons \in 0 .. 1
  /\ losses \in 0 .. MaxLosses

\* What is shown so far: every object has its keys, and every other value is
\* the true one or the skeleton's; an array has elements of the true one only.
RECURSIVE Shows(_, _, _)
Shows(shown, value, skeleton) ==
  IF IsObject(value)
  THEN /\ IsObject(shown) /\ DOMAIN shown.object = DOMAIN value.object
       /\ \A key \in DOMAIN value.object :
            Shows(shown.object[key], value.object[key], skeleton.object[key])
  ELSE IF IsArray(value)
  THEN IsArray(shown) /\ ToSet(shown.array) \subseteq ToSet(value.array)
  ELSE shown \in {value, skeleton}

\* Shown in full: as before, and nothing of the true value is missing.
RECURSIVE ShowsAll(_, _)
ShowsAll(shown, value) ==
  IF IsObject(value)
  THEN /\ IsObject(shown) /\ DOMAIN shown.object = DOMAIN value.object
       /\ \A key \in DOMAIN value.object : ShowsAll(shown.object[key], value.object[key])
  ELSE IF IsArray(value)
  THEN IsArray(shown) /\ ToSet(shown.array) = ToSet(value.array)
  ELSE shown = value

\* From the skeleton on, every intermediate state is a true picture of the
\* document with parts left out, every patch finds its place, even if other
\* patches were lost; and if none was lost the picture is complete in the
\* end, except for the order and number of array elements, and for a
\* document that is a bare value, of which only null arrives.
PictureIsTrue ==
  skeletons > 0 =>
    /\ Shows(json, document, Skeleton(document))
    /\ errors = 0
    /\ complete /\ losses = 0 /\ (IsObject(document) \/ IsArray(document))
         => ShowsAll(json, document)

\* When all has arrived, the document has: what the module of the
\* reconstructor says of itself, and false for arrays.
RebuildsTheDocument == complete /\ losses = 0 => json = document

-----------------------------------------------------------------------------
(* The other end of the protocol: json-reconstructor.ts *)

Waiting == [doc |-> Missing, promise |-> "open"]

\* resolvePath finds the parent: keys that are missing on the way are made.
\* The root has none.
RECURSIVE Resolves(_, _)
Resolves(value, path) ==
  /\ path # << >> /\ IsObject(value)
  /\ \/ Len(path) = 1
     \/ Head(path) \notin DOMAIN value.object
     \/ Resolves(value.object[Head(path)], Tail(path))

\* Mutant: what was appended before is overwritten.
Overwritten(old, patch) == patch.value

\* setPatchValue and appendPatchValue
Patched(old, patch) ==
  IF patch.op = "Set" THEN patch.value
  ELSE [array |-> (IF IsArray(old) THEN old.array ELSE << >>) \o patch.value.array]

RECURSIVE PatchedAt(_, _, _)
PatchedAt(value, path, patch) ==
  LET key  == Head(path)
      old  == IF key \in DOMAIN value.object THEN value.object[key]
              ELSE IF Len(path) = 1 THEN Null ELSE [object |-> << >>]
      new  == IF Len(path) = 1 THEN Patched(old, patch) ELSE PatchedAt(old, Tail(path), patch)
  IN  [object |-> (key :> new) @@ value.object]

\* The loop over frame.patches: those before an error stay applied.
RECURSIVE PatchedAll(_, _)
PatchedAll(c, patches) ==
  IF patches = << >> THEN c
  ELSE IF ~Resolves(c.doc, Head(patches).path) THEN [c EXCEPT !.promise = "rejected"]
  ELSE PatchedAll([c EXCEPT !.doc = PatchedAt(@, Head(patches).path, Head(patches))],
                  Tail(patches))

\* frameHandler; a promise that is settled ends the stream.  A document that
\* is null is taken for none.
Handled(c, frame) ==
  IF c.promise # "open" THEN c
  ELSE CASE frame.kind = "Skeleton" -> [c EXCEPT !.doc = frame.data]
         [] frame.kind = "Complete" -> [c EXCEPT !.promise = "resolved"]
         [] frame.kind = "Patch" ->
              IF c.doc \in {Missing, Null} THEN [c EXCEPT !.promise = "rejected"]
              ELSE PatchedAll(c, frame.patches)

-----------------------------------------------------------------------------
(* frame-processor.ts *)

\* Priority of types/index.ts: High is another number than in Rust.
JsPriorities == {100, 75, 50, 25, 10}

\* normalizePriority
Normalized(p) ==
  LET Distance(q) == IF p < q THEN q - p ELSE p - q
  IN  CHOOSE q \in JsPriorities : \A o \in JsPriorities :
        Distance(q) < Distance(o) \/ (Distance(q) = Distance(o) /\ q >= o)

PriorityOf(frame) == IF frame.kind = "Skeleton" THEN Critical ELSE frame.patches[1].priority

\* processFrame: a Complete frame bears no priority and is refused for that.
Passes(frame) ==
  /\ frame.kind # "Complete"
  /\ Normalized(PriorityOf(frame)) >= threshold
  /\ frame.kind = "Patch" => "Skeleton" \in processed

-----------------------------------------------------------------------------
JsInit ==
  /\ Init
  /\ client = Waiting
  /\ threshold \in Thresholds
  /\ processed = {}
  /\ behind = Waiting

Arrive ==
  /\ AddFrame
  /\ client' = Handled(client, Head(wire))
  /\ IF Passes(Head(wire))
     THEN /\ processed' = processed \cup {Head(wire).kind}
          /\ behind' = Handled(behind, Head(wire))
     ELSE UNCHANGED << processed, behind >>
  /\ UNCHANGED threshold

NextStream ==
  /\ Reset
  /\ client' = Waiting
  /\ processed' = {}
  /\ behind' = Waiting
  /\ UNCHANGED threshold

JsNext ==
  \/ Arrive
  \/ (Lose \/ Process) /\ UNCHANGED jsVars
  \/ NextStream

JsSpec == JsInit /\ [][JsNext]_<< vars, jsVars >>

-----------------------------------------------------------------------------
(* Properties *)

JsTypeOK ==
  /\ TypeOK
  /\ client.promise \in {"open", "resolved", "rejected"}
  /\ behind.promise \in {"open", "rejected"}
  /\ processed \subseteq {"Skeleton", "Patch"}

SkeletonLost ==
  skeletons = 0 /\ \A frame \in ToSet(queue \o wire) : frame.kind # "Skeleton"

\* Two implementations in two languages make the same of the same frames,
\* lost ones included: where the client in JavaScript has not given up, and
\* the one in Rust has caught up, both have the same document.  It gives up
\* only without a skeleton, or on an array at the root, whose path it does
\* not know.  Behind a strict processor nothing but that array stops it, what
\* it has is a true picture, and when no frame was lost nothing is missing
\* from the fields as important as asked for.
ClientsAgree ==
  /\ queue = << >> /\ skeletons > 0 /\ client.promise # "rejected" => client.doc = json
  /\ client.promise = "rejected" => SkeletonLost \/ IsArray(document)
  /\ behind.promise = "rejected" => IsArray(document)
  /\ behind.doc # Missing =>
       /\ Shows(behind.doc, document, Skeleton(document))
       /\ complete /\ losses = 0 /\ IsObject(document) =>
            \A key \in DOMAIN document.object :
              Normalized(FieldPriority(key, document.object[key])) >= threshold =>
                ShowsAll(behind.doc.object[key], document.object[key])
=============================================================================
