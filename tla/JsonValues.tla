------------------------------ MODULE JsonValues ------------------------------
(***************************************************************************)
(* JsonData (domain/value_objects/json_data.rs): the domain's own JSON     *)
(* values, made from those of serde_json, read and changed under paths     *)
(* with dots, compared, hashed and measured.                               *)
(*                                                                         *)
(* A value has a type and what it is: the items of an array as a sequence, *)
(* the fields of an object as a function, a float as its notation, so that *)
(* "-0.0" and "0.0" are two.  A path is the sequence of its parts.         *)
(***************************************************************************)
EXTENDS Integers, Sequences, FiniteSets, SequencesExt, TLC

CONSTANTS
  Documents,  \* values of serde_json
  Keys,       \* keys of objects, as a sequence in their order
  Length,     \* the length of each key and string
  Paths,      \* what is got and set
  Puts,       \* what is set, values of serde_json
  MaxSets     \* bound: how often something is set

VARIABLES
  value,  \* the value
  sets,   \* history: how often something was set
  last    \* history: the last set: the value before, path, what was set, answer

vars == << value, sets, last >>

Value(t, v)  == [type |-> t, is |-> v]
Object(f)    == Value("Object", f)
NoValue      == Value("None", << >>)
NothingYet   == [before |-> NoValue, path |-> << >>, put |-> NoValue, answer |-> FALSE]

-----------------------------------------------------------------------------
(* From<serde_json::Value> *)

\* Numbers are of 64 bits with a sign, or, beyond them, without, or floats.
\* Those beyond become floats, which tell neighbours apart no longer.
AsFloat == [beyond |-> "2^63", beyondByOne |-> "2^63"]

RECURSIVE FromJson(_)
FromJson(j) ==
  CASE j.type = "i64"    -> Value("Integer", j.is)
    [] j.type = "u64"    -> Value("Float", AsFloat[j.is])
    [] j.type = "f64"    -> Value("Float", j.is)
    [] j.type = "Array"  -> Value("Array", [i \in DOMAIN j.is |-> FromJson(j.is[i])])
    [] j.type = "Object" -> Object([k \in DOMAIN j.is |-> FromJson(j.is[k])])
    [] OTHER             -> j

-----------------------------------------------------------------------------
(* get_path and set_path *)

RECURSIVE GetPath(_, _)
GetPath(v, parts) ==
  CASE parts = << >> -> v
    [] parts # << >> /\ v.type = "Object" /\ Head(parts) \in DOMAIN v.is ->
         GetPath(v.is[Head(parts)], Tail(parts))
    [] OTHER -> NoValue

\* Mutant: a value that is no object gives way to one.
RECURSIVE SetPathByForce(_, _, _)
SetPathByForce(v, parts, new) ==
  LET fields == IF v.type = "Object" THEN v.is ELSE << >>
      child  == IF Head(parts) \in DOMAIN fields THEN fields[Head(parts)] ELSE Object(<< >>)
  IN  [answer |-> v.type = "Object",
       value  |-> Object(Head(parts) :> (IF Len(parts) = 1 THEN new
                                         ELSE SetPathByForce(child, Tail(parts), new).value) @@ fields)]

RECURSIVE SetPath(_, _, _)

\* Objects that are missing on the way are put in before the rest is known to
\* succeed.
SetPath(v, parts, new) ==
  IF v.type # "Object" THEN [answer |-> FALSE, value |-> v]
  ELSE IF Len(parts) = 1 THEN [answer |-> TRUE, value |-> Object(Head(parts) :> new @@ v.is)]
  ELSE LET child == IF Head(parts) \in DOMAIN v.is THEN v.is[Head(parts)] ELSE Object(<< >>)
           below == SetPath(child, Tail(parts), new)
       IN  [answer |-> below.answer, value |-> Object(Head(parts) :> below.value @@ v.is)]

-----------------------------------------------------------------------------
(* Eq, Hash and memory_size *)

\* Floats are compared by what they stand for: a zero has no sign, and nothing
\* is equal to NaN.
SameNumber(a, b) == a # "NaN" /\ (a = b \/ {a, b} \subseteq {"0.0", "-0.0"})

RECURSIVE Equal(_, _)
Equal(a, b) ==
  /\ a.type = b.type
  /\ CASE a.type = "Float" -> SameNumber(a.is, b.is)
       [] a.type \in {"Array", "Object"} ->
            /\ DOMAIN a.is = DOMAIN b.is
            /\ \A i \in DOMAIN a.is : Equal(a.is[i], b.is[i])
       [] OTHER -> a.is = b.is

\* What a hasher is fed with: a tag for the type, floats by their bits, arrays
\* with their length, and the fields of an object in the order of their keys.
RECURSIVE Hash(_)
Hash(v) ==
  CASE v.type = "Array" ->
         << "5", ToString(Len(v.is)) >> \o FlattenSeq([i \in DOMAIN v.is |-> Hash(v.is[i])])
    [] v.type = "Object" ->
         LET keys == SelectSeq(Keys, LAMBDA k : k \in DOMAIN v.is)
         IN  << "6", ToString(Len(keys)) >>
               \o FlattenSeq([i \in DOMAIN keys |-> << keys[i] >> \o Hash(v.is[keys[i]])])
    [] v.type = "Null" -> << "0" >>
    [] OTHER -> << CASE v.type = "Bool"  -> "1" [] v.type = "Integer" -> "2"
                     [] v.type = "Float" -> "3" [] v.type = "String"  -> "4", ToString(v.is) >>

Total(f) == FoldFunction(+, 0, f)

\* Characters are counted as two bytes each.
RECURSIVE MemorySize(_)
MemorySize(v) ==
  CASE v.type \in {"Null", "Bool"}     -> 1
    [] v.type \in {"Integer", "Float"} -> 8
    [] v.type = "String" -> 2 * Length[v.is]
    [] v.type = "Array"  -> 8 + Total([i \in DOMAIN v.is |-> MemorySize(v.is[i])])
    [] v.type = "Object" -> 16 + Total([k \in DOMAIN v.is |-> 2 * Length[k] + MemorySize(v.is[k])])

-----------------------------------------------------------------------------

Init ==
  /\ value \in {FromJson(d) : d \in Documents}
  /\ sets = 0 /\ last = NothingYet

Set(path, put) ==
  LET done == SetPath(value, path, put)
  IN  /\ sets < MaxSets
      /\ value' = done.value /\ sets' = sets + 1
      /\ last' = [before |-> value, path |-> path, put |-> put, answer |-> done.answer]

Next == \E path \in Paths, put \in {FromJson(j) : j \in Puts} : Set(path, put)

Spec == Init /\ [][Next]_vars

-----------------------------------------------------------------------------
(* Properties *)

\* The type invariant: values are built of the types there are, and are of
\* some size.
TypeOK == MemorySize(value) > 0 /\ sets \in 0 .. MaxSets

Apart(p, q) == ~IsPrefix(p, q) /\ ~IsPrefix(q, p)

\* What was set is found where it was set, and nothing else is found changed,
\* objects on the way being put in at most where nothing was; a set that is
\* refused changes nothing at all.
SetIsFound ==
  LET path == last.path
      old  == GetPath(last.before, path)
  IN  sets > 0 =>
        IF ~last.answer THEN value = last.before
        ELSE /\ GetPath(value, path) = last.put
             /\ \A q \in Paths : Apart(path, q) => GetPath(value, q) = GetPath(last.before, q)
             /\ \A q \in Paths : IsPrefix(q, path) /\ q # path =>
                  GetPath(last.before, q).type \in {"Object", "None"}
             /\ old # NoValue =>
                  MemorySize(value) - MemorySize(last.before)
                    = MemorySize(last.put) - MemorySize(old)

\* All values in a value, itself included
RECURSIVE Within(_)
Within(v) ==
  {v} \cup (IF v.type \in {"Array", "Object"} THEN UNION {Within(v.is[i]) : i \in DOMAIN v.is} ELSE {})

\* Equal values feed a hasher alike, and different ones differently, as long
\* as they hold no zero with a sign: such values are equal and found under
\* different hashes.  A value that holds NaN is not equal to itself, but it
\* cannot come from JSON.
EqualHashAlike ==
  LET seen == (Within(value) \cup Within(last.before) \cup Within(last.put)) \ {NoValue}
      HasSign(v) == Value("Float", "-0.0") \in Within(v)
  IN  \A a, b \in seen : ~HasSign(a) /\ ~HasSign(b) => (Equal(a, b) <=> Hash(a) = Hash(b))

ValuesAreKept == SetIsFound /\ EqualHashAlike
=============================================================================
