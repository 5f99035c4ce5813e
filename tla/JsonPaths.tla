----------------------------- MODULE JsonPaths -----------------------------
(***************************************************************************)
(* JsonPath (domain/value_objects/json_path.rs): paths such as $.a[1].b,   *)
(* kept as texts, grown segment by segment, and taken apart again by       *)
(* searching the text for its last dot or bracket.                         *)
(*                                                                         *)
(* A text is a sequence of characters: "a" stands for any that may be in a *)
(* key, "e'" for one that takes two bytes, "1" for a digit, "~" for one    *)
(* that no key may have.  Numbers too large for an index are left out.     *)
(***************************************************************************)
EXTENDS Naturals, Sequences, FiniteSets, SequencesExt

CONSTANTS
  Keys,       \* what is appended as a key
  Indices,    \* what is appended as an index, as texts
  MaxDepth,   \* bound: how deep a path may grow
  Texts       \* what may be given to JsonPath::new

VARIABLES
  path,     \* the text
  segments  \* history: the segments it was made of

vars == << path, segments >>

Root     == << "$" >>
KeyChars == {"a", "e'", "1"}
Digits   == {"1"}

Key(k)   == [type |-> "Key", text |-> k]
Index(i) == [type |-> "Index", text |-> i]
NoSegment == [type |-> "None", text |-> << >>]

-----------------------------------------------------------------------------
(* Searching a text *)

\* The last position of a character, or 0
Rfind(s, char) == SelectLastInSeq(s, LAMBDA c : c = char)

\* The first position from i on of one of these characters, or past the end
Find(s, i, chars) ==
  CHOOSE j \in i .. Len(s) + 1 :
    /\ j = Len(s) + 1 \/ s[j] \in chars
    /\ \A k \in i .. j - 1 : s[k] \notin chars

\* str::parse::<usize>: a plus sign is allowed.
IsIndex(s) ==
  LET digits == IF s # << >> /\ Head(s) = "+" THEN Tail(s) ELSE s
  IN  digits # << >> /\ ToSet(digits) \subseteq Digits

-----------------------------------------------------------------------------
(* JsonPath::new: validate *)

RECURSIVE ValidFrom(_, _)

\* A bracket need not be closed at the end of the text.
ValidFrom(s, i) ==
  \/ i > Len(s)
  \/ /\ i <= Len(s) /\ s[i] = "."
     /\ LET end == Find(s, i + 1, {".", "["})
            key == SubSeq(s, i + 1, end - 1)
        IN  key # << >> /\ ToSet(key) \subseteq KeyChars /\ ValidFrom(s, end)
  \/ /\ i <= Len(s) /\ s[i] = "["
     /\ LET end == Find(s, i + 1, {"]"})
        IN  IsIndex(SubSeq(s, i + 1, end - 1)) /\ ValidFrom(s, end + 1)

Validate(s) == s # << >> /\ Head(s) = "$" /\ ValidFrom(s, 2)

-----------------------------------------------------------------------------
(* Taking paths apart *)

\* parent: the last dot is looked for before the last bracket.
Parent(s) ==
  CASE Rfind(s, ".") > 2                        -> SubSeq(s, 1, Rfind(s, ".") - 1)
    [] Rfind(s, ".") = 0 /\ Rfind(s, "[") > 2   -> SubSeq(s, 1, Rfind(s, "[") - 1)
    [] OTHER                                    -> Root

\* last_segment: the last bracket is looked for before the last dot.
LastSegment(s) ==
  LET open  == Rfind(s, "[")
      close == Rfind(s, "]")
      dot   == Rfind(s, ".")
      key   == SubSeq(s, dot + 1, Find(s, dot + 1, {"["}) - 1)
  IN  IF 0 < open /\ open < close /\ IsIndex(SubSeq(s, open + 1, close - 1))
      THEN Index(SubSeq(s, open + 1, close - 1))
      ELSE IF dot > 0 /\ key # << >> THEN Key(key) ELSE NoSegment

\* Mutant: the dots alone.
DepthByDots(s) == Cardinality({i \in DOMAIN s : s[i] = "."})

\* depth: dots and brackets; what is in brackets is skipped.
Depth(s) ==
  LET skipped(i) == \E j \in 1 .. i - 1 : s[j] = "[" /\ Find(s, j, {"]"}) >= i
  IN  Cardinality({i \in DOMAIN s : s[i] \in {".", "["} /\ ~skipped(i)})

Bytes(s) == Len(s) + Cardinality({i \in DOMAIN s : s[i] = "e'"})

\* is_prefix_of: the length is in bytes, the character after is counted in
\* characters.
IsPrefixOf(s, other) ==
  /\ Bytes(s) < Bytes(other) /\ IsPrefix(s, other)
  /\ Bytes(s) < Len(other) /\ other[Bytes(s) + 1] \in {".", "["}

-----------------------------------------------------------------------------
(* Putting them together *)

Init == path = Root /\ segments = << >>

AppendKey(key) ==
  /\ key # << >> /\ ToSet(key) \cap {".", "[", "]"} = {}
  /\ path' = path \o << "." >> \o key
  /\ segments' = Append(segments, Key(key))

AppendIndex(i) ==
  /\ path' = path \o << "[" >> \o i \o << "]" >>
  /\ segments' = Append(segments, Index(i))

Next ==
  /\ Len(segments) < MaxDepth
  /\ (\E key \in Keys : AppendKey(key)) \/ \E i \in Indices : AppendIndex(i)

Spec == Init /\ [][Next]_vars

-----------------------------------------------------------------------------
(* What paths are *)

\* The text of one segment
TextOf(segment) ==
  IF segment.type = "Key" THEN << "." >> \o segment.text
  ELSE << "[" >> \o segment.text \o << "]" >>

PathOf(s) == Root \o FlattenSeq([i \in DOMAIN s |-> TextOf(s[i])])

\* A text made of segments
RECURSIVE AreSegments(_)
AreSegments(s) ==
  \/ s = << >>
  \/ \E k \in 2 .. Len(s) :
       LET first == SubSeq(s, 1, k)
       IN  /\ \/ Head(s) = "." /\ ToSet(Tail(first)) \subseteq KeyChars
              \/ Head(s) = "[" /\ s[k] = "]" /\ IsIndex(SubSeq(s, 2, k - 1))
           /\ AreSegments(SubSeq(s, k + 1, Len(s)))

IsPath(s) == s # << >> /\ Head(s) = "$" /\ AreSegments(Tail(s))

Before(n) == SubSeq(segments, 1, n)

IsAscii(s) == "e'" \notin ToSet(s)

-----------------------------------------------------------------------------
(* Properties *)

TypeOK ==
  /\ path = PathOf(segments)
  /\ Len(segments) <= MaxDepth

\* A text is accepted if it is a path, or one but for the last bracket; so is
\* what is put together, unless a key has a character that append_key lets
\* pass and new does not.
ValidatesPaths ==
  /\ segments = << >> => \A s \in Texts : Validate(s) <=> IsPath(s) \/ IsPath(Append(s, "]"))
  /\ Validate(path) <=>
       \A i \in DOMAIN segments : segments[i].type = "Key" => ToSet(segments[i].text) \subseteq KeyChars

\* The depth is the number of segments; and where a path has no index, or ends
\* in the only one, the last segment is what was appended last, and the parent
\* what it was appended to.  Otherwise the last segment is the last index, and
\* the parent of a path that ends in an index is that of the key before.
TakesPathsApart ==
  LET n       == Len(segments)
      indices == {i \in 1 .. n : segments[i].type = "Index"}
      keys    == 1 .. n \ indices
      LastOf(S) == CHOOSE i \in S : \A j \in S : j <= i
  IN  /\ Depth(path) = n
      /\ n > 0 =>
           /\ LastSegment(path) =
                segments[IF indices # {} THEN LastOf(indices) ELSE n]
           /\ Parent(path) =
                PathOf(Before(IF keys # {} THEN LastOf(keys) - 1 ELSE n - 1))

\* A path is a prefix of another when it has some of its segments, as long as
\* all its characters take one byte.
PrefixesAreAncestors ==
  \A n \in 0 .. Len(segments) :
    LET ancestor == PathOf(Before(n))
        Siblings == {PathOf(Append(Before(n), s)) : s \in {Key(k) : k \in Keys} \cup {Index(i) : i \in Indices}}
    IN  /\ IsAscii(ancestor) => (IsPrefixOf(ancestor, path) <=> n < Len(segments))
        /\ \A other \in Siblings :
             IsAscii(other) => (IsPrefixOf(other, path) <=>
                                  n + 1 < Len(segments) /\ other = PathOf(Before(n + 1)))

PathsAreSegments == ValidatesPaths /\ TakesPathsApart /\ PrefixesAreAncestors
=============================================================================
