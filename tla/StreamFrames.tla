----------------------------- MODULE StreamFrames -----------------------------
(***************************************************************************)
(* The frames of one Stream (domain/entities/stream.rs and frame.rs): made *)
(* while it is streaming, numbered, checked, and counted in statistics.    *)
(*                                                                         *)
(* Source data and payloads are values as in JsonValues, with a number for *)
(* its notation.  No patch is ever extracted from the source data; how     *)
(* patches would be batched is checked for patches given.                  *)
(***************************************************************************)
EXTENDS Naturals, Sequences, FiniteSets, SequencesExt, TLC

CONSTANTS
  Sources,    \* source data
  Length,     \* the length of each key, string and notation of a number
  Configs,    \* configurations
  MaxFrames,  \* bound: frames of the stream
  MaxPatches  \* bound: patches that are batched

VARIABLES
  state, data, config,
  nextSequence,
  stats,   \* frames by type, bytes in all, and those of critical and of high priority
  endedAt, \* whether completed_at is set
  frames   \* history: the frames made

vars == << state, data, config, nextSequence, stats, endedAt, frames >>

CRITICAL == 100
HIGH     == 80
MEDIUM   == 50

Value(t, v) == [type |-> t, is |-> v]
Null        == Value("Null", << >>)
Array(s)    == Value("Array", s)
Object(f)   == Value("Object", f)

Types    == {"Skeleton", "Patch", "Complete"}
Active   == {"Preparing", "Streaming"}
Finished == {"Completed", "Failed", "Cancelled"}

Total(f) == FoldFunction(+, 0, f)

-----------------------------------------------------------------------------
(* Payloads *)

\* Mutant: a string below an object is kept.
RECURSIVE SkeletonWithStrings(_)
SkeletonWithStrings(v) ==
  CASE v.type = "Object"  -> Object([k \in DOMAIN v.is |-> SkeletonWithStrings(v.is[k])])
    [] v.type = "Array"   -> Array(<< >>)
    [] OTHER              -> v

\* Values keep their type, but for strings; at the root all but objects and
\* arrays become null.
Blank(v) ==
  CASE v.type = "Integer" -> Value("Integer", "0")
    [] v.type = "Float"   -> Value("Float", "0")
    [] v.type = "Bool"    -> Value("Bool", "false")
    [] v.type = "Array"   -> Array(<< >>)
    [] OTHER              -> Null

RECURSIVE GenerateSkeleton(_)
GenerateSkeleton(v) ==
  CASE v.type = "Object" ->
         Object([k \in DOMAIN v.is |->
                   IF v.is[k].type = "Object" THEN GenerateSkeleton(v.is[k]) ELSE Blank(v.is[k])])
    [] v.type = "Array" -> Array(<< >>)
    [] OTHER            -> Null

\* The length of a value that is displayed: quotes, colons and commas.
RECURSIVE TextLength(_)
TextLength(v) ==
  LET commas(n) == IF n > 0 THEN n - 1 ELSE 0
  IN  CASE v.type = "Null"   -> 4
        [] v.type = "String" -> Length[v.is] + 2
        [] v.type = "Array"  -> 2 + commas(Len(v.is)) + Total([i \in DOMAIN v.is |-> TextLength(v.is[i])])
        [] v.type = "Object" -> 2 + commas(Cardinality(DOMAIN v.is))
                                  + Total([k \in DOMAIN v.is |-> Length[k] + 3 + TextLength(v.is[k])])
        [] OTHER             -> Length[v.is]

EstimatedSize(frame) == TextLength(frame.payload) + 200

-----------------------------------------------------------------------------
(* Frames *)

Frame(type, priority, sequence, payload) ==
  [type |-> type, priority |-> priority, sequence |-> sequence, payload |-> payload]

Skeleton(sequence, payload) == Frame("Skeleton", CRITICAL, sequence, payload)

Complete(sequence, checksum) ==
  Frame("Complete", CRITICAL, sequence,
        Object(IF checksum THEN [checksum |-> Value("String", "checksum")] ELSE << >>))

Patch(sequence, priority, patches) ==
  Frame("Patch", priority, sequence, Object([patches |-> Array(patches)]))

Validate(frame) ==
  CASE frame.type \in {"Skeleton", "Complete"} -> frame.priority >= CRITICAL
    [] frame.type = "Patch" -> /\ frame.payload.type = "Object"
                               /\ "patches" \in DOMAIN frame.payload.is
                               /\ frame.payload.is.patches.type = "Array"

ExtractPatches(source) == << >>

\* The frames of one batch would all have the same sequence number.
BatchPatchesIntoFrames(patches, max) ==
  LET n    == Len(patches)
      size == (n + max - 1) \div max
      Chunk(i) == SubSeq(patches, (i - 1) * size + 1, IF i * size < n THEN i * size ELSE n)
  IN  IF n = 0 THEN << >>
      ELSE [i \in 1 .. (n + size - 1) \div size |-> Patch(nextSequence, MEDIUM, Chunk(i))]

-----------------------------------------------------------------------------
(* The stream *)

Init ==
  /\ state = "Preparing" /\ data \in Sources /\ config \in Configs
  /\ nextSequence = 1 /\ endedAt = FALSE /\ frames = << >>
  /\ stats = [count |-> [t \in Types |-> 0], bytes |-> 0, critical |-> 0, high |-> 0]

\* record_frame_created
Recorded(s, frame) ==
  LET size == EstimatedSize(frame)
      critical == frame.type # "Patch" \/ frame.priority >= CRITICAL
  IN  [count    |-> [s.count EXCEPT ![frame.type] = @ + 1],
       bytes    |-> s.bytes + size,
       critical |-> s.critical + (IF critical THEN size ELSE 0),
       high     |-> s.high + (IF ~critical /\ frame.priority >= HIGH THEN size ELSE 0)]

Record(new) ==
  /\ state = "Streaming"
  /\ Len(frames) + Len(new) <= MaxFrames
  /\ frames' = frames \o new
  /\ nextSequence' = nextSequence + Len(new)
  /\ stats' = FoldLeft(Recorded, stats, new)
  /\ UNCHANGED << state, data, config, endedAt >>

CreateSkeletonFrame == Record(<< Skeleton(nextSequence, GenerateSkeleton(data)) >>)

CreatePatchFrames(max) == Record(BatchPatchesIntoFrames(ExtractPatches(data), max))

\* Frames may follow, another completion frame too.
CreateCompletionFrame(checksum) == Record(<< Complete(nextSequence, checksum) >>)

Becomes(new, from) ==
  /\ state \in from
  /\ state' = new /\ endedAt' = (new \in Finished)
  /\ UNCHANGED << data, config, nextSequence, stats, frames >>

StartStreaming  == Becomes("Streaming", {"Preparing"})
CompleteStream  == Becomes("Completed", {"Streaming"})
Fail            == Becomes("Failed", Active)
Cancel          == Becomes("Cancelled", Active)

UpdateConfig(c) ==
  /\ state \in Active /\ config' = c
  /\ UNCHANGED << state, data, nextSequence, stats, endedAt, frames >>

Next ==
  \/ StartStreaming \/ CompleteStream \/ Fail \/ Cancel
  \/ \E c \in Configs : UpdateConfig(c)
  \/ CreateSkeletonFrame
  \/ CreatePatchFrames(1)
  \/ \E checksum \in BOOLEAN : CreateCompletionFrame(checksum)

Spec == Init /\ [][Next]_vars

\* In hundredths
Least(a, b) == IF a < b THEN a ELSE b
Progress(s, count) ==
  CASE s = "Preparing"               -> 0
    [] s = "Streaming" /\ count = 0  -> 10
    [] s = "Streaming" /\ count > 0  -> Least(count, 90)
    [] s = "Completed"               -> 100
    [] s \in {"Failed", "Cancelled"} -> Least(count, 99)

-----------------------------------------------------------------------------
(* Properties *)

TypeOK ==
  /\ state \in Active \cup Finished /\ endedAt = (state \in Finished)
  /\ config \in Configs /\ Len(frames) <= MaxFrames
  /\ \A i \in DOMAIN frames : frames[i].type \in Types /\ Validate(frames[i])

\* The frames are numbered from one without a gap, whatever the stream went
\* through, and the statistics account for each of them, with every byte.
StatsTellTheFrames ==
  LET OfType(t) == SelectSeq(frames, LAMBDA f : f.type = t)
      SizeOf(s) == Total([i \in DOMAIN s |-> EstimatedSize(s[i])])
  IN  /\ \A i \in DOMAIN frames : frames[i].sequence = i
      /\ nextSequence = Len(frames) + 1
      /\ \A t \in Types : stats.count[t] = Len(OfType(t))
      /\ stats.bytes = SizeOf(frames) /\ stats.critical + stats.high <= stats.bytes
      /\ stats.critical >= SizeOf(OfType("Skeleton")) + SizeOf(OfType("Complete"))

\* Same keys in the same objects
RECURSIVE SameShape(_, _)
SameShape(v, w) ==
  /\ v.type = "Object" <=> w.type = "Object"
  /\ v.type = "Array" <=> w.type = "Array"
  /\ v.type = "Object" => /\ DOMAIN v.is = DOMAIN w.is
                          /\ \A k \in DOMAIN v.is : SameShape(v.is[k], w.is[k])

\* A skeleton shows the shape of the source data and nothing it says: whatever
\* has the same shape and types has the same skeleton, and it has that itself.
RECURSIVE SameTypes(_, _)
SameTypes(v, w) ==
  v.type = w.type /\ (v.type = "Object" => /\ DOMAIN v.is = DOMAIN w.is
                                           /\ \A k \in DOMAIN v.is : SameTypes(v.is[k], w.is[k]))

SkeletonsShowShapes ==
  LET skeleton == GenerateSkeleton(data)
  IN  /\ SameShape(skeleton, data) /\ GenerateSkeleton(skeleton) = skeleton
      /\ \A other \in Sources : SameTypes(data, other) => GenerateSkeleton(other) = skeleton

\* Patches are batched in order, each in one frame, in no more frames than
\* asked for and none of them empty.
BatchesHoldAll ==
  \A n \in 0 .. MaxPatches : \A max \in 1 .. MaxPatches + 1 :
    LET patches == [i \in 1 .. n |-> i]
        batch   == BatchPatchesIntoFrames(patches, max)
        In(i)   == batch[i].payload.is.patches.is
    IN  /\ Len(batch) <= max
        /\ \A i \in DOMAIN batch : In(i) # << >>
        /\ FlattenSeq([i \in DOMAIN batch |-> In(i)]) = patches

\* Progress is reported as whole only of a completed stream, and falls only
\* where the first frame is made, or a stream ends before it.
ProgressGrows ==
  \A n \in 0 .. 101 :
    /\ \A s \in Active \cup Finished :
         /\ Progress(s, n) = 100 <=> s = "Completed"
         /\ s # "Streaming" \/ n > 0 => Progress(s, n) <= Progress(s, n + 1)
    /\ n > 0 => \A s \in Finished : Progress("Streaming", n) <= Progress(s, n)

StreamTellsItsFrames ==
  /\ StatsTellTheFrames /\ SkeletonsShowShapes
  /\ state = "Preparing" => BatchesHoldAll /\ ProgressGrows
=============================================================================
