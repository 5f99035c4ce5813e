----------------------------- MODULE Compression -----------------------------
(***************************************************************************)
(* Compression of frames: SchemaAnalyzer and SchemaCompressor              *)
(* (compression/mod.rs), StreamingCompressor and StreamingDecompressor     *)
(* (stream/compression_integration.rs).                                    *)
(*                                                                         *)
(* A JSON value is [string |-> ...], [number |-> an integer],              *)
(* [array |-> sequence] or [object |-> function of keys]; a number made by *)
(* the delta encoding is a float, [float |-> ...], which is no index.      *)
(* Sizes, ratios and times are left out.  A path with more than two        *)
(* numbers, which the choice of Delta asks for, does not exist where no    *)
(* key has a dot: the analysis chooses None, Dictionary or RunLength.  The *)
(* other strategies are those an application gives.                        *)
(***************************************************************************)
EXTENDS Integers, Sequences, FiniteSetsExt, SequencesExt, TLC

CONSTANTS
  Documents,      \* the data of frames, and what is analysed
  Length,         \* the length of each string
  Given,          \* strategies an application gives
  Priorities,
  DictThreshold,  \* string_dict_threshold, 50 in the code
  RunThreshold,   \* run_length_threshold, 20 in the code
  MaxFrames       \* bound: frames compressed

VARIABLES
  skeletonStrategy,  \* of skeleton_compressor
  contentStrategy,   \* of content_compressor
  wire,              \* compressed frames under way, in any order
  sent,              \* how many were compressed
  active,            \* StreamingDecompressor::active_dictionary
  shown              \* history: the frame decompressed last, with the dictionary then

vars == << skeletonStrategy, contentStrategy, wire, sent, active, shown >>

Is(kind, value) == kind \in DOMAIN value
Items(value) ==
  IF Is("array", value) THEN DOMAIN value.array
  ELSE IF Is("object", value) THEN DOMAIN value.object ELSE {}
Item(value, i) == IF Is("array", value) THEN value.array[i] ELSE value.object[i]

NoStrategy == [kind |-> "None"]
Nothing    == [kind |-> "nothing"]

-----------------------------------------------------------------------------
(* The analysis *)

\* analyze_string_pattern: how often each string occurs
RECURSIVE Occurrences(_, _)
Occurrences(value, s) ==
  IF Is("string", value) THEN IF value.string = s THEN 1 ELSE 0
  ELSE MapThenSumSet(LAMBDA i : Occurrences(Item(value, i), s), Items(value))

Repeated(value) == {s \in DOMAIN Length : Occurrences(value, s) > 1 /\ Length[s] > 3}

\* analyze_array_patterns: objects with the keys of the first one, and equal
\* primitive elements, in arrays of more than two; each pattern of n counts n - 1.
RepeatsIn(array) ==
  LET Same(i) == Cardinality({j \in DOMAIN array : array[j] = array[i]})
      firsts  == {i \in DOMAIN array : /\ Is("string", array[i]) \/ Is("number", array[i])
                                       /\ \A j \in 1 .. i - 1 : array[j] # array[i]}
      alike   == {i \in DOMAIN array : /\ Is("object", array[1]) /\ Is("object", array[i])
                                       /\ DOMAIN array[i].object = DOMAIN array[1].object}
  IN  IF Len(array) <= 2 THEN 0
      ELSE MapThenSumSet(LAMBDA i : Same(i) - 1, firsts) + Max({Cardinality(alike), 1}) - 1

RECURSIVE Runs(_)
Runs(value) ==
  (IF Is("array", value) THEN RepeatsIn(value.array) ELSE 0)
    + MapThenSumSet(LAMBDA i : Runs(Item(value, i)), Items(value))

\* determine_strategy; the indices follow the order of a HashMap.
Strategies(value) ==
  LET words == Repeated(value)
      score == MapThenSumSet(LAMBDA s : (Occurrences(value, s) - 1) * Length[s], words)
  IN  IF score > DictThreshold
      THEN {[kind |-> "Dictionary", dictionary |-> [s \in words |-> index[s] - 1]] :
              index \in {f \in [words -> 1 .. Cardinality(words)] : IsInjective(f)}}
      ELSE IF Runs(value) > RunThreshold THEN {[kind |-> "RunLength"]}
      ELSE {NoStrategy}

-----------------------------------------------------------------------------
(* The encodings *)

OverChildren(value, Encode(_)) ==
  IF Is("array", value) THEN [array |-> [i \in DOMAIN value.array |-> Encode(value.array[i])]]
  ELSE [object |-> [key \in DOMAIN value.object |-> Encode(value.object[key])]]

IsLeaf(value) == ~Is("array", value) /\ ~Is("object", value)

\* replace_strings_with_indices
RECURSIVE WithIndices(_, _)
WithIndices(value, dictionary) ==
  IF Is("string", value) /\ value.string \in DOMAIN dictionary
  THEN [number |-> dictionary[value.string]]
  ELSE IF IsLeaf(value) THEN value
  ELSE OverChildren(value, LAMBDA v : WithIndices(v, dictionary))

\* apply_run_length_encoding: what is in a long array is not gone into.
EncodedRun(run) ==
  IF Len(run) = 1 THEN run[1]
  ELSE [object |-> [rle_value |-> run[1], rle_count |-> [number |-> Len(run)]]]

RunsOf(array) ==
  FoldLeft(LAMBDA runs, item : IF runs # << >> /\ Last(runs)[1] = item
                               THEN Append(Front(runs), Append(Last(runs), item))
                               ELSE Append(runs, << item >>), << >>, array)

RECURSIVE WithRuns(_)
WithRuns(value) ==
  IF Is("array", value) /\ Len(value.array) > 2
  THEN LET runs == RunsOf(value.array)
       IN  [array |-> [i \in DOMAIN runs |-> EncodedRun(runs[i])]]
  ELSE IF IsLeaf(value) THEN value
  ELSE OverChildren(value, WithRuns)

\* compress_numeric_array_with_delta: if it is shorter in print
Printed(n) == Len(ToString(n))

Deltas(array, base) ==
  LET delta(i) == array[i].number - base
  IN  IF MapThenSumSet(LAMBDA i : Printed(delta(i)), DOMAIN array)
           < MapThenSumSet(LAMBDA i : Printed(array[i].number), DOMAIN array)
      THEN << [object |-> [delta_base |-> [float |-> base],
                           delta_type |-> [string |-> "numeric_sequence"]]] >>
             \o [i \in DOMAIN array |-> [float |-> delta(i)]]
      ELSE array

\* apply_delta_recursive; bases are kept for paths of arrays.
RECURSIVE WithDeltas(_, _, _)
WithDeltas(value, path, bases) ==
  IF Is("array", value) THEN
    IF Len(value.array) > 2 /\ \A i \in DOMAIN value.array : Is("number", value.array[i])
    THEN [array |-> Deltas(value.array, IF path \in DOMAIN bases THEN bases[path]
                                        ELSE value.array[1].number)]
    ELSE [array |-> [i \in DOMAIN value.array |->
                       WithDeltas(value.array[i], Append(path, ToString(i)), bases)]]
  ELSE IF Is("object", value)
  THEN [object |-> [key \in DOMAIN value.object |->
                      WithDeltas(value.object[key], Append(path, key), bases)]]
  ELSE value

\* SchemaCompressor::compress
Compressed(value, strategy) ==
  CASE strategy.kind = "None"       -> value
    [] strategy.kind = "Dictionary" -> WithIndices(value, strategy.dictionary)
    [] strategy.kind = "RunLength"  -> WithRuns(value)
    [] strategy.kind = "Delta"      -> WithDeltas(value, << >>, strategy.bases)
    [] strategy.kind = "Hybrid"     ->
         WithDeltas(WithIndices(value, strategy.dictionary), << >>, strategy.bases)

\* decompress_dictionary; the decoders of runs and deltas are not written,
\* and give what they get.
RECURSIVE WithStrings(_, _)
WithStrings(value, words) ==
  IF Is("number", value)
  THEN IF value.number % 65536 \in DOMAIN words /\ value.number >= 0
       THEN [string |-> words[value.number % 65536]] ELSE value
  ELSE IF IsLeaf(value) THEN value
  ELSE OverChildren(value, LAMBDA v : WithStrings(v, words))

UsesDictionary(strategy) == strategy.kind \in {"Dictionary", "Hybrid"}

Decompressed(data, strategy, words) ==
  IF UsesDictionary(strategy) THEN WithStrings(data, words) ELSE data

\* create_decompression_metadata
Metadata(strategy) ==
  IF ~UsesDictionary(strategy) THEN << >>
  ELSE LET words == DOMAIN strategy.dictionary
       IN  [index \in {strategy.dictionary[s] : s \in words} |->
              CHOOSE s \in words : strategy.dictionary[s] = index]
-----------------------------------------------------------------------------
(* The streams *)

Init ==
  /\ skeletonStrategy \in Given
  /\ contentStrategy \in Given
  /\ wire = {}
  /\ sent = 0
  /\ active = << >>
  /\ shown = Nothing

\* optimize_for_data: the samples are analysed as one array.
OptimizeForData(skeleton, samples) ==
  /\ sent < MaxFrames
  /\ skeletonStrategy' \in Strategies(skeleton)
  /\ IF samples = << >> THEN UNCHANGED contentStrategy
     ELSE contentStrategy' \in Strategies([array |-> samples])
  /\ UNCHANGED << wire, sent, active, shown >>

\* select_compressor_for_priority
StrategyFor(priority) == IF priority \in {80, 100} THEN skeletonStrategy ELSE contentStrategy

CompressFrame(data, priority) ==
  /\ sent < MaxFrames
  /\ sent' = sent + 1
  /\ wire' = wire \cup {[id |-> sent + 1, frame |-> data, strategy |-> StrategyFor(priority),
                         data |-> Compressed(data, StrategyFor(priority))]}
  /\ UNCHANGED << skeletonStrategy, contentStrategy, active, shown >>

\* Mutant: what the dictionary has is kept.
UpdateContextOnce(words) == active' = active @@ words

\* update_context
UpdateContext(words) == active' = words @@ active

DecompressFrame(f) ==
  /\ wire' = wire \ {f}
  /\ UpdateContext(Metadata(f.strategy))
  /\ shown' = [kind |-> f.strategy.kind, frame |-> f.frame,
               out |-> Decompressed(f.data, f.strategy, active')]
  /\ UNCHANGED << skeletonStrategy, contentStrategy, sent >>

Lose(f) ==
  /\ wire' = wire \ {f}
  /\ UNCHANGED << skeletonStrategy, contentStrategy, sent, active, shown >>

Next ==
  \/ \E skeleton, sample \in Documents :
       OptimizeForData(skeleton, << sample >>) \/ OptimizeForData(skeleton, << >>)
  \/ \E data \in Documents, priority \in Priorities : CompressFrame(data, priority)
  \/ \E f \in wire : DecompressFrame(f) \/ Lose(f)

Spec == Init /\ [][Next]_vars

-----------------------------------------------------------------------------
(* Properties *)

TypeOK ==
  /\ Cardinality(wire) <= sent /\ sent <= MaxFrames
  /\ \A i \in DOMAIN active : active[i] \in DOMAIN Length
  /\ shown = Nothing \/ shown.frame \in Documents

\* What a client that undoes the runs and the deltas itself would have
Unrun(item) ==
  IF Is("object", item) /\ "rle_value" \in DOMAIN item.object
  THEN [i \in 1 .. item.object.rle_count.number |-> item.object.rle_value]
  ELSE << item >>

IsDelta(array) ==
  array # << >> /\ Is("object", array[1]) /\ "delta_base" \in DOMAIN array[1].object

Undelta(array) ==
  [i \in 1 .. Len(array) - 1 |->
     [number |-> array[i + 1].float + array[1].object.delta_base.float]]

RECURSIVE Undone(_)
Undone(value) ==
  IF Is("array", value)
  THEN IF IsDelta(value.array) THEN [array |-> Undelta(value.array)]
       ELSE LET flat == FlattenSeq([i \in DOMAIN value.array |-> Unrun(value.array[i])])
            IN  [array |-> [i \in DOMAIN flat |-> Undone(flat[i])]]
  ELSE IF IsLeaf(value) THEN value
  ELSE OverChildren(value, Undone)

\* The same, but that a number may have become the string it stands for in
\* the dictionary, and in an encoded array a string its number.
StandsFor(number, string) ==
  /\ Is("number", number) /\ Is("string", string)
  /\ number.number \in DOMAIN active /\ active[number.number] = string.string

RECURSIVE Alike(_, _)
Alike(value, out) ==
  IF IsLeaf(value)
  THEN \/ out = value
       \/ StandsFor(value, out) /\ shown.kind \in {"Dictionary", "Hybrid"}
       \/ StandsFor(out, value) /\ shown.kind = "Hybrid"
  ELSE IF Is("array", value)
  THEN /\ Is("array", out) /\ Len(out.array) = Len(value.array)
       /\ \A i \in DOMAIN value.array : Alike(value.array[i], out.array[i])
  ELSE /\ Is("object", out) /\ DOMAIN out.object = DOMAIN value.object
       /\ \A key \in DOMAIN value.object : Alike(value.object[key], out.object[key])

\* Frames under any strategies, in any order and with losses: what comes out
\* of the decompressor has everything in its place, up to runs and deltas,
\* which are left to the client, and up to numbers that are taken for words.
\* In particular a word is never replaced by another one, although the
\* dictionaries of the two compressors and of earlier analyses use the same
\* indices.
NothingIsMixedUp == shown # Nothing => Alike(shown.frame, Undone(shown.out))

\* What is decompressed is what was compressed.
LosslessRoundTrip == shown # Nothing => shown.out = shown.frame
=============================================================================
