--------------------------- MODULE ZeroCopyParser ---------------------------
(***************************************************************************)
(* ZeroCopyParser with the IncrementalParser built on it                   *)
(* (parser/zero_copy.rs), and SimdZeroCopyParser (parser/                  *)
(* simd_zero_copy.rs), which goes another way about long texts.            *)
(*                                                                         *)
(* A text is a sequence of characters; true, false and null count as one.  *)
(* A value refers to a part of the text, or to a string made from it.  The *)
(* length from which the SIMD way is taken, and the alignment of the text  *)
(* in memory, are left open: every text is parsed all ways.  UTF-8 and the *)
(* statistics of the SIMD parser are left out.                             *)
(***************************************************************************)
EXTENDS Naturals, Sequences, FiniteSets, SequencesExt

CONSTANTS
  Texts,    \* what is parsed
  MaxDepth  \* max_depth, 64 by default

VARIABLES
  text,    \* what arrives, bit by bit
  fed,     \* how much of it has
  buffer,  \* IncrementalParser::buffer
  cleared  \* history: the lengths of the buffers that were taken for a value

vars == << text, fed, buffer, cleared >>

Digits  == {"0", "1"}
Words   == {"true", "false", "null"}
Opening == {"{", "["}
Closing(open) == IF open = "{" THEN "}" ELSE "]"

Char(s, i) == IF i \in DOMAIN s THEN s[i] ELSE "end"

\* The first position from i on where there is none of these characters
Beyond(s, i, chars) ==
  CHOOSE j \in i .. Len(s) + 1 :
    Char(s, j) \notin chars /\ \A k \in i .. j - 1 : Char(s, k) \in chars

SkipSpace(s, i) == Beyond(s, i, {" "})

Failed          == [end |-> 0]
Ok(end, value)  == [end |-> end, value |-> value]
Slice(kind, s)  == [kind |-> kind, slice |-> s]

-----------------------------------------------------------------------------
(* zero_copy.rs *)

\* unescape_string: a unicode escape is skipped over.  NoString is an error.
NoString == << "error" >>

RECURSIVE Unescaped(_)
Unescaped(s) ==
  LET rest(n) == Unescaped(SubSeq(s, n, Len(s)))
      With(prefix, others) == IF others = NoString THEN NoString ELSE prefix \o others
  IN  IF s = << >> THEN << >>
      ELSE IF Head(s) # "\\" \/ Len(s) = 1 THEN With(<< Head(s) >>, rest(2))
      ELSE CASE s[2] \in {"\"", "\\"} -> With(<< s[2] >>, rest(3))
             [] s[2] = "b" -> With(<< "BS" >>, rest(3))
             [] s[2] = "t" -> With(<< "TAB" >>, rest(3))
             [] s[2] = "u" -> IF Len(s) > 5 THEN rest(7) ELSE NoString
             [] OTHER -> NoString

\* The closing quote, with escapes skipped
RECURSIVE Quote(_, _)
Quote(s, i) ==
  CASE Char(s, i) = "\"" -> i
    [] Char(s, i) = "\\" -> Quote(s, i + 2)
    [] i > Len(s)        -> 0
    [] OTHER             -> Quote(s, i + 1)

\* parse_string
ParseString(s, i) ==
  LET close == Quote(s, i + 1)
      slice == SubSeq(s, i + 1, close - 1)
  IN  IF close = 0 THEN Failed
      ELSE IF ~Contains(slice, "\\") THEN Ok(close + 1, Slice("Borrowed", slice))
      ELSE IF Unescaped(slice) = NoString THEN Failed
      ELSE Ok(close + 1, Slice("Owned", Unescaped(slice)))

\* parse_number: the end of each part, or 0
DigitsAt(s, i) == IF Char(s, i) \in Digits THEN Beyond(s, i, Digits) ELSE 0

ParseNumber(s, i) ==
  LET start    == IF Char(s, i) = "-" THEN i + 1 ELSE i
      integer  == IF Char(s, start) = "0" THEN start + 1 ELSE DigitsAt(s, start)
      decimal  == IF Char(s, integer) = "." THEN DigitsAt(s, integer + 1) ELSE integer
      sign     == IF Char(s, decimal + 1) \in {"+", "-"} THEN decimal + 2 ELSE decimal + 1
      exponent == IF Char(s, decimal) = "e" THEN DigitsAt(s, sign) ELSE decimal
  IN  IF 0 \in {integer, decimal, exponent} THEN Failed
      ELSE Ok(exponent, Slice("Number", SubSeq(s, i, exponent - 1)))

\* parse_value; room is how much deeper values may be nested.
RECURSIVE ParseValue(_, _, _), Items(_, _, _, _, _), ItemsLax(_, _, _, _, _)

\* One element of an array, or a key, a colon and a value
Item(s, i, open, room) ==
  LET key   == ParseValue(s, i, room).end
      colon == SkipSpace(s, key)
  IN  IF open = "[" \/ key = 0 THEN key
      ELSE IF Char(s, colon) = ":" THEN ParseValue(s, colon + 1, room).end ELSE 0

\* Mutant: the next item may come without a comma.
ItemsLax(s, i, open, room, first) ==
  IF Char(s, i) = Closing(open) THEN i + 1
  ELSE IF i > Len(s) THEN 0
  ELSE LET start == IF Char(s, i) = "," THEN SkipSpace(s, i + 1) ELSE i
           item  == Item(s, start, open, room)
       IN  IF item = 0 THEN 0 ELSE ItemsLax(s, SkipSpace(s, item), open, room, FALSE)

\* The loops of parse_object and parse_array, to the end of the container
Items(s, i, open, room, first) ==
  IF Char(s, i) = Closing(open) THEN i + 1
  ELSE IF i > Len(s) \/ (~first /\ Char(s, i) # ",") THEN 0
  ELSE LET item == Item(s, IF first THEN i ELSE SkipSpace(s, i + 1), open, room)
       IN  IF item = 0 THEN 0 ELSE Items(s, SkipSpace(s, item), open, room, FALSE)

ParseContainer(s, i, room) ==
  LET end == Items(s, SkipSpace(s, i + 1), s[i], room - 1, TRUE)
  IN  IF room = 0 \/ end = 0 THEN Failed
      ELSE Ok(end, Slice(IF s[i] = "{" THEN "Object" ELSE "Array", SubSeq(s, i, end - 1)))

ParseValue(s, from, room) ==
  LET i == SkipSpace(s, from)
  IN  CASE Char(s, i) = "\""               -> ParseString(s, i)
        [] Char(s, i) \in Opening          -> ParseContainer(s, i, room)
        [] Char(s, i) \in Words            -> Ok(i + 1, Slice("Word", << s[i] >>))
        [] Char(s, i) \in Digits \cup {"-"} -> ParseNumber(s, i)
        [] OTHER                           -> Failed

\* parse_lazy
ParseLazy(s) == ParseValue(s, 1, MaxDepth)

\* value_type
ValueType(v) ==
  CASE v.kind \in {"Borrowed", "Owned"} -> "String"
    [] v.kind = "Word" -> IF v.slice = << "null" >> THEN "Null" ELSE "Boolean"
    [] v.kind \in {"Number", "Object", "Array"} -> v.kind

\* as_bytes, of what refers to the text, and as_str, as_boolean and is_null: what
\* a value is not is an error.
NoValue == << "error" >>

AsBytes(v)   == IF v.kind \in {"Owned", "Word"} THEN NoValue ELSE v.slice
AsStr(v)     == IF ValueType(v) = "String" THEN v.slice ELSE NoValue
AsBoolean(v) == IF ValueType(v) = "Boolean" THEN v.slice ELSE NoValue
IsNull(v)    == ValueType(v) = "Null"

\* What f64::from_str takes: digits on one side of the point are enough.
IsFloat(s) ==
  LET Part(u, chars) == ToSet(u) \subseteq chars
      Signed(u, Body(_)) == \/ Body(u)
                            \/ u # << >> /\ Head(u) \in {"-", "+"} /\ Body(Tail(u))
      Whole(u) == u # << >> /\ Part(u, Digits)
      Point(u) == /\ Part(u, Digits \cup {"."}) /\ ~Part(u, {"."})
                  /\ Cardinality({i \in DOMAIN u : u[i] = "."}) <= 1
  IN  \/ Signed(s, Point)
      \/ \E k \in DOMAIN s : /\ s[k] = "e" /\ Signed(SubSeq(s, 1, k - 1), Point)
                            /\ Signed(SubSeq(s, k + 1, Len(s)), Whole)

\* as_number: the text it is read from
AsNumber(v) == IF v.kind = "Number" /\ IsFloat(v.slice) THEN v.slice ELSE NoValue

\* to_string_lossy
ToStringLossy(v) == v.slice

\* Bytes of characters
Bytes(s) ==
  LET bytes(c) == IF c = "false" THEN 5 ELSE IF c \in Words THEN 4 ELSE 1
  IN  FoldLeft(LAMBDA sum, c : sum + bytes(c), 0, s)

\* Mutant: an unescaped string counts as copied and as referred to.
MemoryUsageTwice(v) ==
  [allocated  |-> IF v.kind = "Owned" THEN Bytes(v.slice) ELSE 0, referenced |-> Bytes(v.slice)]

\* memory_usage
MemoryUsage(v) ==
  [allocated  |-> IF v.kind = "Owned" THEN Bytes(v.slice) ELSE 0,
   referenced |-> IF v.kind = "Owned" THEN 0 ELSE Bytes(v.slice)]

\* MemoryUsage::total and MemoryUsage::efficiency, in percent
Total(usage)      == usage.allocated + usage.referenced
Efficiency(usage) == IF Total(usage) = 0 THEN 100 ELSE (100 * usage.referenced) \div Total(usage)

-----------------------------------------------------------------------------
(* simd_zero_copy.rs *)

\* simd_unescape_string, of a text from quote to quote
RECURSIVE SimdUnescaped(_)
SimdUnescaped(s) ==
  LET rest(n) == SimdUnescaped(SubSeq(s, n, Len(s)))
  IN  IF s = << >> THEN << >>
      ELSE IF Head(s) # "\\" \/ Len(s) = 1 THEN << Head(s) >> \o rest(2)
      ELSE << (IF s[2] = "t" THEN "TAB" ELSE s[2]) >> \o rest(3)

Count(s, char) == Cardinality({i \in DOMAIN s : s[i] = char})

\* parse_with_simd: the type is guessed from the first character; braces are
\* counted if the text is aligned.
ParseSimd(s, aligned) ==
  LET i == SkipSpace(s, 1)
      inside == SubSeq(s, i + 1, Len(s) - 1)
      Whole(kind) == Ok(Len(s) + 1, Slice(kind, s))
  IN  CASE Char(s, i) \in Opening ->
             IF aligned /\ Count(s, s[i]) # Count(s, Closing(s[i])) THEN Failed
             ELSE Whole(IF s[i] = "{" THEN "Object" ELSE "Array")
        [] Char(s, i) = "\"" ->
             Ok(Len(s) + 1, IF ~Contains(s, "\\") THEN Slice("Borrowed", inside)
                            ELSE Slice("Owned", SimdUnescaped(SubSeq(s, 2, Len(s) - 1))))
        [] Char(s, i) \in Digits \cup {"-"} ->
             IF ToSet(s) \subseteq Digits \cup {".", "-", "+", "e"} THEN Whole("Number")
             ELSE Failed
        [] Char(s, i) = "null" -> Ok(Len(s) + 1, Slice("Word", << "null" >>))
        [] Char(s, i) \in Words -> IF Len(s) = 1 THEN Whole("Word") ELSE Failed
        [] OTHER -> Failed

-----------------------------------------------------------------------------
(* The incremental parser *)

Init ==
  /\ text \in Texts
  /\ fed = 0
  /\ buffer = << >>
  /\ cleared = << >>

Feed ==
  /\ fed < Len(text)
  /\ fed' = fed + 1
  /\ buffer' = Append(buffer, text[fed'])
  /\ UNCHANGED << text, cleared >>

\* parse_available: after a value the whole buffer is cleared, and the value
\* is not returned; an error is taken for a value that is not yet complete.
ParseAvailable ==
  /\ buffer # << >>
  /\ ParseLazy(buffer) # Failed
  /\ buffer' = << >>
  /\ cleared' = Append(cleared, Len(buffer))
  /\ UNCHANGED << text, fed >>

Next == Feed \/ ParseAvailable

Spec == Init /\ [][Next]_vars

-----------------------------------------------------------------------------
(* What JSON is *)

\* s without the space around it
Trimmed(s) ==
  LET i == SkipSpace(s, 1)
  IN  IF i > Len(s) THEN << >>
      ELSE SubSeq(s, i, CHOOSE j \in i .. Len(s) : s[j] # " " /\ \A k \in j + 1 .. Len(s) : s[k] = " ")

AllDigits(s) == s # << >> /\ ToSet(s) \subseteq Digits

\* Every way to cut s in two
Cuts(s) == {<< SubSeq(s, 1, k), SubSeq(s, k + 1, Len(s)) >> : k \in 0 .. Len(s)}

IsInteger(s) ==
  LET Unsigned(u) == AllDigits(u) /\ (u[1] = "0" => Len(u) = 1)
  IN  Unsigned(s) \/ (s # << >> /\ Head(s) = "-" /\ Unsigned(Tail(s)))

IsDecimal(s) ==
  \/ IsInteger(s)
  \/ \E c \in Cuts(s) : IsInteger(c[1]) /\ c[2] # << >> /\ Head(c[2]) = "." /\ AllDigits(Tail(c[2]))

IsNumber(s) ==
  \/ IsDecimal(s)
  \/ \E c \in Cuts(s) :
       /\ IsDecimal(c[1]) /\ c[2] # << >> /\ Head(c[2]) = "e"
       /\ \/ AllDigits(Tail(c[2]))
          \/ Len(c[2]) > 1 /\ c[2][2] \in {"+", "-"} /\ AllDigits(SubSeq(c[2], 3, Len(c[2])))

\* What may be between quotes.  As the parser has it, lax, anything may
\* follow \u: the next four characters are skipped whatever they are, also
\* half of another escape.
RECURSIVE IsContent(_, _)
IsContent(s, lax) ==
  \/ s = << >>
  \/ Head(s) \notin {"\"", "\\"} /\ IsContent(Tail(s), lax)
  \/ /\ Len(s) > 1 /\ Head(s) = "\\" /\ s[2] \in {"\"", "\\", "b", "t"}
     /\ IsContent(SubSeq(s, 3, Len(s)), lax)
  \/ /\ Len(s) > 5 /\ Head(s) = "\\" /\ s[2] = "u"
     /\ \/ lax
        \/ /\ \A k \in 3 .. 6 : s[k] \in Digits \cup {"b", "e"}
           /\ IsContent(SubSeq(s, 7, Len(s)), lax)

Enclosed(s, open, close) == Len(s) > 1 /\ Head(s) = open /\ Last(s) = close
Inner(s) == SubSeq(s, 2, Len(s) - 1)

IsString(s, lax) == Enclosed(s, "\"", "\"") /\ IsContent(Inner(s), lax)

\* A value, nested no deeper than depth.  As the parser has it, a key may be
\* any value.
RECURSIVE IsValue(_, _, _), AreItems(_, _, _, _)

IsMember(s, depth, lax) ==
  \E c \in Cuts(s) :
    /\ c[2] # << >> /\ Head(c[2]) = ":"
    /\ LET key == Trimmed(c[1])
       IN  IF lax THEN IsValue(key, depth, lax) ELSE IsString(key, lax)
    /\ IsValue(Trimmed(Tail(c[2])), depth, lax)

AreItems(s, open, depth, lax) ==
  LET IsItem(u) == IF open = "{" THEN IsMember(u, depth, lax) ELSE IsValue(Trimmed(u), depth, lax)
  IN  \/ IsItem(s)
      \/ \E c \in Cuts(s) : /\ c[2] # << >> /\ Head(c[2]) = ","
                            /\ IsItem(c[1]) /\ AreItems(Tail(c[2]), open, depth, lax)

IsValue(s, depth, lax) ==
  \/ Len(s) = 1 /\ s[1] \in Words
  \/ IsNumber(s)
  \/ IsString(s, lax)
  \/ /\ depth > 0
     /\ \E open \in Opening :
          /\ Enclosed(s, open, Closing(open))
          /\ Trimmed(Inner(s)) = << >> \/ AreItems(Inner(s), open, depth - 1, lax)

IsJson(s) == IsValue(Trimmed(s), MaxDepth, FALSE)

\* A character between two quotes that enclose a string
InString(s, i) == Cardinality({k \in 1 .. i - 1 : s[k] = "\"" /\ (k = 1 \/ s[k - 1] # "\\")}) % 2 = 1

-----------------------------------------------------------------------------
(* Properties *)

TypeOK ==
  /\ text \in Texts
  /\ buffer = SubSeq(text, fed - Len(buffer) + 1, fed)

\* A text that is JSON is parsed to its end; and what is parsed of any text is
\* JSON, but for keys that are not strings and for what follows \u.
FollowsTheGrammar ==
  LET result == ParseLazy(text)
  IN  /\ IsJson(text) => /\ result # Failed
                         /\ Trimmed(SubSeq(text, result.end, Len(text))) = << >>
      /\ result # Failed =>
           IsValue(Trimmed(SubSeq(text, 1, result.end - 1)), MaxDepth, TRUE)

\* Both ways of parsing make the same of a JSON text without space around it,
\* except of a string with an escape other than of a quote, a backslash and a
\* tab, and of an aligned text with braces in its strings.
WaysAgree ==
  IsJson(text) /\ Trimmed(text) = text =>
    LET result == ParseLazy(text).value
    IN  \/ Head(text) = "\"" /\ \E i \in 1 .. Len(text) - 1 : text[i] = "\\" /\ text[i + 1] \in {"b", "u"}
        \/ /\ ParseSimd(text, FALSE).value = result
           /\ \/ \E i \in DOMAIN text : text[i] \in {"{", "}", "[", "]"} /\ InString(text, i)
              \/ ParseSimd(text, TRUE) # Failed /\ ParseSimd(text, TRUE).value = result

\* However a text that is an object, an array or a string comes in, nothing
\* of it is thrown away before it is whole.
WholeWhenCleared ==
  IsJson(text) /\ Head(Trimmed(text)) \in Opening \cup {"\""} /\ cleared # << >> =>
    Trimmed(SubSeq(text, cleared[1] + 1, Len(text))) = << >>

\* A value that was parsed can be read as what it says it is and as nothing
\* else.  Its text is that of the value again, but for strings, which have
\* lost their quotes; and what it claims to occupy is within the text parsed,
\* all of it referred to unless there was an escape.
ReadsAsItsType ==
  ParseLazy(text) # Failed =>
    LET result == ParseLazy(text)
        parsed == Trimmed(SubSeq(text, 1, result.end - 1))
        v      == result.value
        usage  == MemoryUsage(v)
        read   == {t \in {"String", "Number", "Boolean", "Null"} :
                     \/ t = "String" /\ AsStr(v) # NoValue
                     \/ t = "Number" /\ AsNumber(v) # NoValue
                     \/ t = "Boolean" /\ AsBoolean(v) # NoValue
                     \/ t = "Null" /\ IsNull(v)}
    IN  /\ read = {ValueType(v)} \ {"Object", "Array"}
        /\ IF ValueType(v) = "String" THEN Bytes(ToStringLossy(v)) + 2 <= Bytes(parsed)
           ELSE ToStringLossy(v) = parsed /\ ParseLazy(ToStringLossy(v)).value = v
        /\ AsBytes(v) \in {NoValue, parsed, Inner(parsed)}
        /\ Total(usage) <= Bytes(parsed)
        /\ v.kind = "Owned" => Total(usage) < Bytes(Inner(parsed))
        /\ Efficiency(usage) < 100 => Contains(parsed, "\\")

\* By the SIMD way too a JSON number can be read, though it takes for numbers
\* also what cannot.
NumbersAreReadable ==
  LET result == ParseSimd(text, FALSE)
  IN  IsJson(text) /\ result # Failed /\ result.value.kind = "Number" =>
        AsNumber(result.value) # NoValue

ParsesJson ==
  /\ fed = 0 => FollowsTheGrammar /\ WaysAgree /\ ReadsAsItsType /\ NumbersAreReadable
  /\ WholeWhenCleared
=============================================================================
