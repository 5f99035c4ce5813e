--------------------------- MODULE SemanticDetection ---------------------------
(***************************************************************************)
(* Parser (parser/mod.rs) over its two parsers, each of which detects what *)
(* a document means: SonicParser (parser/sonic.rs with parser/simd/mod.rs) *)
(* and, where that fails or is not used, SimpleParser (parser/simple.rs);  *)
(* and the strategy that a meaning recommends (semantic.rs).               *)
(*                                                                         *)
(* Documents are given as parsed.  The libraries beneath are external:     *)
(* sonic-rs may refuse a document that serde_json takes.  The hybrid       *)
(* parser (parser/hybrid.rs) is not compiled.                              *)
(***************************************************************************)
EXTENDS Integers, Sequences, FiniteSets, TLC

CONSTANTS
  Shapes,     \* documents whose meaning is compared
  Texts,      \* documents that are parsed, or Malformed
  Malformed,
  Sizes,      \* how long a text may be
  Times,      \* how long parsing it may take
  MaxParses   \* bound: how often a text is parsed

VARIABLES
  useSonic, detect,  \* how the parser is set up
  stats,             \* of the sonic parser: parses, average time, bytes
  text, size,        \* what was parsed last
  semantics,         \* what came of it
  parses, time       \* history: all parses, and the time of those that count

vars == << useSonic, detect, stats, text, size, semantics, parses, time >>

Megabyte == 1024 * 1024
MaxSize  == 100 * Megabyte

Value(t, v) == [type |-> t, is |-> v]
Numbers     == {"i64", "u64", "f64"}

Generic  == [kind |-> "Generic"]
None     == [kind |-> "None"]
Refused  == [kind |-> "Refused"]

IsNumber(v)  == v.type \in Numbers
IsObject(v)  == v.type = "object"
Keys(v)      == DOMAIN v.is
Elements(v)  == {v.is[i] : i \in DOMAIN v.is}

-----------------------------------------------------------------------------
(* What both detect in the same way *)

NumericArray(v) == [kind |-> "NumericArray", dtype |-> v.is[1].type, length |-> Len(v.is)]

IsNumericArray(v) == Len(v.is) > 2 /\ \A e \in Elements(v) : IsNumber(e)

HasTimestamp(v) == Keys(v) \cap {"timestamp", "time"} # {}

IsTimeSeriesArray(v) == Len(v.is) >= 2 /\ \A e \in Elements(v) : IsObject(e) /\ HasTimestamp(e)

\* An array of points is taken to have these fields, whatever it has.
TimeSeriesArray == [kind |-> "TimeSeries", timestamp |-> "timestamp", values |-> {"value"}]

TimestampField(v) == IF "timestamp" \in Keys(v) THEN "timestamp" ELSE "time"
ValueFields(v)    == {k \in Keys(v) \ {TimestampField(v)} : IsNumber(v.is[k])}
IsPoint(v)        == HasTimestamp(v) /\ ValueFields(v) # {}
Point(v) == [kind |-> "TimeSeries", timestamp |-> TimestampField(v), values |-> ValueFields(v)]

GeometryType(v) == IF v.is["type"].type = "string" THEN v.is["type"].is ELSE "Point"
Geospatial(v)   == [kind |-> "Geospatial", geometry |-> GeometryType(v)]

Table(v, ColumnType(_)) ==
  [kind |-> "Table", rows |-> Len(v.is),
   columns |-> [k \in Keys(v.is[1]) |-> ColumnType(v.is[1].is[k])]]

-----------------------------------------------------------------------------
(* SimpleParser::detect_semantic_type *)

\* More than four keys in five are in both.
Similar(a, b) == 5 * Cardinality(Keys(a) \cap Keys(b)) > 4 * Cardinality(Keys(a) \cup Keys(b))

IsTabular(v) ==
  Len(v.is) >= 2 /\ \A e \in Elements(v) : IsObject(e) /\ IsObject(v.is[1]) /\ Similar(v.is[1], e)

DetectColumnType(v) ==
  CASE IsNumber(v)                            -> v.type
    [] v.type \in {"string", "bool", "array"} -> v.type
    [] OTHER                                  -> "json"

Dimensions(v) == SelectSeq(v.is["shape"].is, LAMBDA d : d.type \in {"i64", "u64"} /\ d.is >= 0)

IsMatrix(v) ==
  /\ {"data", "shape"} \subseteq Keys(v)
  /\ v.is["data"].type = "array" /\ v.is["shape"].type = "array"
  /\ Dimensions(v) # << >>

\* Mutant: a number is enough for an array of numbers.
SimpleTypeOfAny(v) ==
  CASE v.type = "array" /\ (\E e \in Elements(v) : IsNumber(e)) -> NumericArray(v)
    [] OTHER -> Generic

SimpleType(v) ==
  CASE v.type = "array" ->
         CASE IsNumericArray(v)    -> NumericArray(v)
           [] ~IsNumericArray(v) /\ IsTimeSeriesArray(v) -> TimeSeriesArray
           [] OTHER                -> IF IsTabular(v) THEN Table(v, DetectColumnType) ELSE Generic
    [] IsObject(v) ->
         IF {"type", "coordinates"} \subseteq Keys(v) THEN Geospatial(v)
         ELSE IF IsPoint(v) THEN Point(v)
         ELSE IF IsMatrix(v)
              THEN [kind |-> "Matrix", dimensions |-> [i \in DOMAIN Dimensions(v) |-> Dimensions(v)[i].is]]
         ELSE Generic
    [] OTHER -> Generic

-----------------------------------------------------------------------------
(* SonicParser::detect_semantic_type_sonic *)

\* SimdClassifier::scan_object_keys, and vectorized_key_scan for more than 16
Scan(v) ==
  [timestamp   |-> HasTimestamp(v),
   coordinates |-> Keys(v) \cap {"coordinates", "coord"} # {},
   type        |-> "type" \in Keys(v),
   count       |-> Cardinality(Keys(v))]

Apart(a, b) == IF a > b THEN a - b ELSE b - a

\* As many keys, give or take one in five, whatever they are
IsHomogeneous(v) ==
  /\ Len(v.is) >= 3 /\ \A e \in Elements(v) : IsObject(e)
  /\ \A e \in Elements(v) : Apart(Scan(e).count, Scan(v.is[1]).count) <= Scan(v.is[1]).count \div 5

SonicColumnType(v) ==
  CASE IsNumber(v)                   -> "f64"
    [] v.type \in {"string", "bool"} -> v.type
    [] OTHER                         -> "json"

SonicType(v) ==
  CASE v.type = "array" /\ v.is # << >> ->
         CASE IsNumericArray(v)    -> NumericArray(v)
           [] ~IsNumericArray(v) /\ IsTimeSeriesArray(v) -> TimeSeriesArray
           [] OTHER                -> IF IsHomogeneous(v) THEN Table(v, SonicColumnType) ELSE Generic
    [] IsObject(v) ->
         IF Scan(v).type /\ Scan(v).coordinates THEN Geospatial(v)
         ELSE IF IsPoint(v) THEN Point(v) ELSE Generic
    [] OTHER -> Generic

-----------------------------------------------------------------------------
(* SemanticMeta::processing_strategy *)

IsSimdFriendly(t) == t.kind \in {"NumericArray", "Matrix"}
IsColumnar(t)     == t.kind \in {"Table", "TimeSeries"}

ProcessingStrategy(t, hints) ==
  IF hints.gpu THEN "Gpu"
  ELSE IF hints.simd /\ IsSimdFriendly(t) THEN "Simd"
  ELSE CASE t.kind = "NumericArray" /\ t.length > 1000 -> "Simd"
         [] t.kind = "Table" /\ t.rows > 10000         -> "Columnar"
         [] t.kind = "TimeSeries"                      -> "Streaming"
         [] OTHER                                      -> "Generic"

-----------------------------------------------------------------------------
(* The parser *)

Init ==
  /\ useSonic \in BOOLEAN /\ detect \in BOOLEAN
  /\ stats = [parses |-> 0, average |-> 0, bytes |-> 0]
  /\ text = Malformed /\ size = 0 /\ semantics = Refused
  /\ parses = 0 /\ time = 0

Taken(t, n) == t # Malformed /\ n <= MaxSize

\* Mutant: the average of the time so far and the time of this parse.
CountedTwice(s, n, elapsed) ==
  [parses  |-> s.parses + 1, bytes |-> s.bytes + n,
   average |-> (s.average * s.parses + elapsed) \div (IF s.parses = 0 THEN 1 ELSE s.parses)]

Counted(s, n, elapsed) ==
  [parses  |-> s.parses + 1, bytes |-> s.bytes + n,
   average |-> (s.average * s.parses + elapsed) \div (s.parses + 1)]

\* SonicParser::parse: detection stops at a size; what is generic is left out.
ParseSonic(t, n, elapsed) ==
  /\ useSonic /\ Taken(t, n)
  /\ semantics' = IF detect /\ n < 100000 /\ SonicType(t) # Generic THEN SonicType(t) ELSE None
  /\ stats' = Counted(stats, n, elapsed) /\ time' = time + elapsed

\* SimpleParser::parse
ParseSimple(t, n) ==
  /\ semantics' = IF ~Taken(t, n) THEN Refused
                  ELSE IF detect THEN SimpleType(t) ELSE Generic
  /\ UNCHANGED << stats, time >>

\* Whatever sonic refuses the other parser is given.
Parse(t, n) ==
  /\ parses < MaxParses
  /\ text' = t /\ size' = n /\ parses' = parses + 1
  /\ (\E elapsed \in Times : ParseSonic(t, n, elapsed)) \/ ParseSimple(t, n)
  /\ UNCHANGED << useSonic, detect >>

Next == \E t \in Texts \cup {Malformed}, n \in Sizes : Parse(t, n)

Spec == Init /\ [][Next]_vars

-----------------------------------------------------------------------------
(* Properties *)

Kinds == {"NumericArray", "TimeSeries", "Table", "Geospatial", "Matrix", "Generic", "None", "Refused"}

TypeOK ==
  /\ semantics.kind \in Kinds /\ parses \in 0 .. MaxParses
  /\ stats.parses <= parses /\ semantics.kind # "Refused" => Taken(text, size)

\* Where the rules of the two parsers differ
OnlyOneKnows(v) ==
  \/ IsObject(v) /\ (IsMatrix(v) \/ {"coord", "type"} \subseteq Keys(v))
  \/ /\ v.type = "array" /\ \A e \in Elements(v) : IsObject(e)
     /\ Len(v.is) = 2 \/ \E e \in Elements(v) : Keys(e) # Keys(v.is[1])

\* The types of columns aside
Meaning(t) == IF t.kind = "Table" THEN [t EXCEPT !.columns = DOMAIN @] ELSE t

\* Both parsers take a document for the same, but for a matrix, the short name
\* of coordinates, a table of two rows and one whose rows differ in their
\* keys.
DetectorsAgree ==
  parses = 0 => \A v \in Shapes : ~OnlyOneKnows(v) => Meaning(SimpleType(v)) = Meaning(SonicType(v))

\* What is said of a document is true of it: numbers are counted, a point has
\* the fields that are named, with numbers for values, and rows have, in the
\* slower parser, most columns.
ClaimsAreTrue ==
  parses = 0 =>
    \A v \in Shapes : \A t \in {SimpleType(v), SonicType(v)} :
      /\ t.kind = "NumericArray" => \A i \in 1 .. t.length : IsNumber(v.is[i])
      /\ t.kind = "TimeSeries" /\ IsObject(v) =>
           t.timestamp \in Keys(v) /\ \A k \in t.values : IsNumber(v.is[k]) /\ k # t.timestamp
      /\ t.kind = "Table" /\ t = SimpleType(v) =>
           \A e \in Elements(v) : 2 * Cardinality(Keys(e) \cap DOMAIN t.columns) > Cardinality(Keys(e))

\* A parser that falls back gives no other meaning than the one that does not,
\* unless the document is one only one of them knows, or too long for the
\* faster one to look at.
FallbackMeansTheSame ==
  /\ semantics.kind = "Refused" /\ parses > 0 => ~Taken(text, size)
  /\ detect /\ Taken(text, size) /\ size < 100000 /\ ~OnlyOneKnows(text) =>
       \/ Meaning(semantics) = Meaning(SimpleType(text))
       \/ semantics = None /\ SimpleType(text) = Generic

\* The average time is kept as a whole number: it is never above the true one,
\* and below it by less than half as much as there were parses.
AverageIsLow ==
  LET n == stats.parses
  IN  stats.average * n <= time /\ 2 * (time - stats.average * n) <= n * (n - 1)

\* Without a hint for a processor of its own kind a strategy is recommended
\* only for what is fit for it.
StrategyFits ==
  \A simd \in BOOLEAN : \A v \in {SimpleType(s) : s \in IF parses = 0 THEN Shapes ELSE {}} :
    LET strategy == ProcessingStrategy(v, [gpu |-> FALSE, simd |-> simd])
    IN  /\ strategy = "Simd" => IsSimdFriendly(v)
        /\ strategy \in {"Columnar", "Streaming"} => IsColumnar(v)

DocumentsAreUnderstood ==
  DetectorsAgree /\ ClaimsAreTrue /\ FallbackMeansTheSame /\ AverageIsLow /\ StrategyFits
=============================================================================
