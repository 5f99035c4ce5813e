---------------------------- MODULE PriorityRules ----------------------------
(***************************************************************************)
(* PriorityService (domain/services/priority_service.rs): the priority of  *)
(* the value at a path, by rules for paths, patterns of paths, fields and  *)
(* types, and by what the path and the value look like; and the rules for  *)
(* fields, changed by how often they are used.                             *)
(*                                                                         *)
(* Paths are those of JsonPaths, with a name for a character.  A pattern   *)
(* is the sequence of the texts between its asterisks, so that one with no *)
(* asterisk is a sequence of one.                                          *)
(***************************************************************************)
EXTENDS JsonPaths, TLC

CONSTANTS
  Default,       \* default_priority
  Added,         \* path rules that may be added: patterns with a priority
  Values,        \* types with sizes
  Documents,     \* whose values are given priorities
  Usages,        \* statistics the rules may be optimised by
  MaxOptimised   \* bound: how often the rules are optimised

VARIABLES
  pathRules, fieldRules,  \* the rules, by pattern and by field
  previous, usage,        \* history: the rules before, and what changed them
  optimised               \* history: how often they have been optimised

ruleVars == << pathRules, fieldRules, previous, usage, optimised >>

CRITICAL   == 100
HIGH       == 80
MEDIUM     == 50
LOW        == 25
BACKGROUND == 10

IncreaseBy(p, delta) == IF p + delta > 255 THEN 255 ELSE p + delta
DecreaseBy(p, delta) == IF p > delta THEN p - delta ELSE 1

-----------------------------------------------------------------------------
(* add_default_rules *)

Named(names, p) == [field \in {<< n >> : n \in names} |-> p]

DefaultFieldRules ==
  Named({"id", "uuid", "status", "state", "error"}, CRITICAL)
    @@ Named({"name", "title", "label", "description", "message"}, HIGH)
    @@ Named({"content", "body", "value", "data"}, MEDIUM)
    @@ Named({"created_at", "updated_at", "version", "metadata"}, LOW)
    @@ Named({"analytics", "debug", "trace", "logs"}, BACKGROUND)

DefaultPathRules ==
  << << "$", ".", "error" >> >> :> CRITICAL
    @@ << << "$", "." >>, << ".", "id" >> >> :> CRITICAL
    @@ << << "$", ".", "users", "[" >>, << "]", ".", "id" >> >> :> CRITICAL
    @@ << << "$", "." >>, << ".", "analytics" >> >> :> BACKGROUND

\* No value is of type object_deep.
TypeRules == [array_large |-> LOW, string_long |-> LOW, object_deep |-> LOW]

-----------------------------------------------------------------------------
(* path_matches_pattern *)

From(s, i) == SubSeq(s, i, Len(s))

\* Where a text is found in a path
Found(part, s) == {k \in 1 .. Len(s) + 1 - Len(part) : IsPrefix(part, From(s, k))}

RECURSIVE PartsMatch(_, _, _)

\* The parts from the i-th on, in what is left of the path: the first at its
\* start, the last at its end, those between where they are found first.
PartsMatch(s, pattern, i) ==
  LET part == pattern[i]
  IN  \/ i > Len(pattern)
      \/ i <= Len(pattern) /\ part = << >> /\ PartsMatch(s, pattern, i + 1)
      \/ /\ i <= Len(pattern) /\ part # << >>
         /\ CASE i = 1 -> IsPrefix(part, s) /\ PartsMatch(From(s, Len(part) + 1), pattern, i + 1)
              [] i > 1 /\ i = Len(pattern) -> IsSuffix(part, s)
              [] OTHER ->
                   \E k \in Found(part, s) :
                     /\ \A j \in Found(part, s) : k <= j
                     /\ PartsMatch(From(s, k + Len(part)), pattern, i + 1)

\* Mutant: every part is looked for in all of the path.
PathHasParts(s, pattern) ==
  IF Len(pattern) = 1 THEN s = pattern[1]
  ELSE \A i \in DOMAIN pattern : pattern[i] = << >> \/ Found(pattern[i], s) # {}

PathMatchesPattern(s, pattern) ==
  IF Len(pattern) = 1 THEN s = pattern[1] ELSE PartsMatch(s, pattern, 1)

-----------------------------------------------------------------------------
(* calculate_priority *)

TypeName(v) ==
  CASE v.type = "string" /\ v.size > 1000 -> "string_long"
    [] v.type = "array" /\ v.size > 100   -> "array_large"
    [] v.type = "object" /\ v.size > 20   -> "object_large"
    [] OTHER                              -> v.type

ApplyHeuristicPriority(s, v) ==
  LET depth   == Depth(s)
      shallow == CASE depth = 1 -> IncreaseBy(Default, 20)
                   [] depth = 2 -> IncreaseBy(Default, 10)
                   [] depth > 5 -> DecreaseBy(Default, 10)
                   [] OTHER     -> Default
  IN  CASE v.type = "string" /\ v.size < 50 -> IncreaseBy(shallow, 5)
        [] v.type = "array" /\ v.size > 10  -> DecreaseBy(shallow, 15)
        [] v.type = "object" /\ v.size > 10 -> DecreaseBy(shallow, 10)
        [] OTHER                            -> shallow

\* The rules for patterns are kept in a hash map: any that matches may come
\* first.
ByPathRules(s) ==
  IF << s >> \in DOMAIN pathRules THEN {pathRules[<< s >>]}
  ELSE {pathRules[p] : p \in {p \in DOMAIN pathRules : PathMatchesPattern(s, p)}}

CalculatePriority(s, v) ==
  LET ruled == ByPathRules(s)
      last  == LastSegment(s)
  IN  IF ruled # {} THEN ruled
      ELSE IF last.type = "Key" /\ last.text \in DOMAIN fieldRules THEN {fieldRules[last.text]}
      ELSE IF TypeName(v) \in DOMAIN TypeRules THEN {TypeRules[TypeName(v)]}
      ELSE {ApplyHeuristicPriority(s, v)}

-----------------------------------------------------------------------------
(* calculate_priorities: documents are objects with fields, arrays with    *)
(* items, and values                                                       *)

Failed == {<< >>}

IsObject(d) == "fields" \in DOMAIN d
IsArray(d)  == "items" \in DOMAIN d

AsValue(d) ==
  CASE IsObject(d) -> [type |-> "object", size |-> Cardinality(DOMAIN d.fields)]
    [] IsArray(d)  -> [type |-> "array", size |-> Len(d.items)]
    [] OTHER       -> d

MayBeAppended(key) == key # << >> /\ ToSet(key) \cap {".", "[", "]"} = {}

RECURSIVE PathsIn(_, _)

\* The paths that get a priority; with a key that no path can have none does.
PathsIn(d, s) ==
  LET children == CASE IsObject(d) -> {PathsIn(d.fields[k], s \o << "." >> \o k) : k \in DOMAIN d.fields}
                    [] IsArray(d)  -> {PathsIn(d.items[i], s \o << "[", ToString(i - 1), "]" >>)
                                       : i \in DOMAIN d.items}
                    [] OTHER       -> {}
      refused  == IsObject(d) /\ \E k \in DOMAIN d.fields : ~MayBeAppended(k)
  IN  IF refused \/ Failed \in children
      THEN Failed
      ELSE {s} \cup UNION children

-----------------------------------------------------------------------------
(* Changing the rules *)

RulesInit ==
  /\ Init
  /\ pathRules = DefaultPathRules /\ fieldRules = DefaultFieldRules
  /\ previous = DefaultFieldRules /\ usage = << >> /\ optimised = 0

\* Rules are changed before paths are grown.
AddPathRule(pattern) ==
  /\ segments = << >> /\ pathRules' = pattern :> Added[pattern] @@ pathRules
  /\ UNCHANGED << vars, fieldRules, previous, usage, optimised >>

Current(rules, field) == IF field \in DOMAIN rules THEN rules[field] ELSE Default

\* Often used fields are raised, then seldom used ones lowered; one that had no
\* rule gets one.
OptimizeRules(counts, average) ==
  LET frequent == {f \in DOMAIN counts : counts[f] > 2 * average}
      rare     == {f \in DOMAIN counts : counts[f] < average \div 3}
      raised   == [f \in frequent |-> IncreaseBy(Current(fieldRules, f), 10)] @@ fieldRules
  IN  /\ segments = << >> /\ optimised < MaxOptimised
      /\ fieldRules' = [f \in rare |-> DecreaseBy(Current(raised, f), 5)] @@ raised
      /\ previous' = fieldRules /\ usage' = [counts |-> counts, average |-> average]
      /\ optimised' = optimised + 1
      /\ UNCHANGED << vars, pathRules >>

\* Bound: with rules that were changed, paths of two segments are enough.
Grow ==
  /\ (optimised = 0 /\ pathRules = DefaultPathRules) \/ Len(segments) < 2
  /\ Next /\ UNCHANGED ruleVars

RulesNext ==
  \/ Grow
  \/ \E pattern \in DOMAIN Added : AddPathRule(pattern)
  \/ \E u \in Usages : OptimizeRules(u.counts, u.average)

RulesSpec == RulesInit /\ [][RulesNext]_<< vars, ruleVars >>

-----------------------------------------------------------------------------
(* Properties *)

RulesTypeOK ==
  /\ TypeOK
  /\ \A p \in DOMAIN pathRules : pathRules[p] \in 1 .. 255
  /\ \A f \in DOMAIN fieldRules : fieldRules[f] \in 1 .. 255
  /\ optimised <= MaxOptimised

\* What an asterisk means: any text
RECURSIVE Glob(_, _)
Glob(s, pattern) ==
  IF Len(pattern) = 1 THEN s = pattern[1]
  ELSE /\ IsPrefix(pattern[1], s)
       /\ \E i \in Len(pattern[1]) .. Len(s) : Glob(From(s, i + 1), Tail(pattern))

\* The search for one part after the other finds a match if there is one, and
\* the path rules of the service agree wherever two of them match: what comes
\* first in the hash map makes no difference until rules are added.
PatternsAgree ==
  /\ \A p \in DOMAIN Added \cup DOMAIN pathRules : PathMatchesPattern(path, p) <=> Glob(path, p)
  /\ pathRules = DefaultPathRules => Cardinality(ByPathRules(path)) <= 1

\* From a default of MEDIUM on, a larger value of a type is never given a
\* higher priority than a smaller one in its place, and one below an unnamed
\* field none higher than in that field.
LargerIsLater ==
  Default >= MEDIUM /\ pathRules = DefaultPathRules =>
    LET Priority(s) == [v \in Values |-> CHOOSE p \in CalculatePriority(s, v) : TRUE]
        here    == Priority(path)
        unnamed == \A i \in DOMAIN segments :
                     segments[i].type = "Key" => segments[i].text \notin DOMAIN fieldRules
    IN  /\ \A v, w \in Values : v.type = w.type /\ v.size < w.size => here[w] <= here[v]
        /\ unnamed /\ Len(segments) > 1 =>
             LET above == Priority(PathOf(Before(Len(segments) - 1)))
             IN  \A v \in Values : here[v] <= above[v]

\* Optimising never turns two fields round of which the one with the higher
\* priority is used as often at least; and lowers none that is used often and
\* had a rule.
UseDecides ==
  optimised > 0 =>
    \A f, g \in DOMAIN usage.counts \cap DOMAIN previous :
      /\ usage.counts[f] >= usage.counts[g] /\ previous[f] >= previous[g] =>
           fieldRules[f] >= fieldRules[g]
      /\ usage.counts[f] > 2 * usage.average => fieldRules[f] >= previous[f]

\* Every value of a document gets a priority under a path of its own, or, for
\* a key that paths do not have, none of them any.
RECURSIVE Size(_)
Size(d) ==
  LET children == CASE IsObject(d) -> d.fields [] IsArray(d) -> d.items [] OTHER -> << >>
  IN  1 + FoldFunction(+, 0, [c \in DOMAIN children |-> Size(children[c])])

RECURSIVE HasStrangeKey(_)
HasStrangeKey(d) ==
  \/ IsObject(d) /\ \E k \in DOMAIN d.fields : ~MayBeAppended(k) \/ HasStrangeKey(d.fields[k])
  \/ IsArray(d) /\ \E i \in DOMAIN d.items : HasStrangeKey(d.items[i])

AllOrNone ==
  segments = << >> =>
    \A d \in Documents :
      IF HasStrangeKey(d) THEN PathsIn(d, Root) = Failed
      ELSE Cardinality(PathsIn(d, Root)) = Size(d)

RulesAreKept == PatternsAgree /\ LargerIsLater /\ UseDecides /\ AllOrNone
=============================================================================
