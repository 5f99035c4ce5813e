-------------------------- MODULE Reporting_proofs --------------------------
(***************************************************************************)
(* The metrics agree with each other, proved for any number of callers,    *)
(* sessions and streams and any durations: what holds at the start and     *)
(* what every step preserves.  Stores_proofs makes theorems of it.         *)
(*                                                                         *)
(* The first part is about sums over the entries of a table and about      *)
(* sequences put together from others, for the other stores as well.  The  *)
(* operators of the library for both are recursive; what is proved of them *)
(* here is proved by induction over sets of numbers and of subsets, that   *)
(* is, by the library's theorem that a set under a well-founded relation   *)
(* has a least element.                                                    *)
(***************************************************************************)
EXTENDS Reporting, SequencesExt, FiniteSetTheorems, WellFoundedInduction, TLAPS

-----------------------------------------------------------------------------
(* Induction *)

\* What holds of zero, and of a number's successor with the number, holds of all.
LEMMA NumberInduction ==
  ASSUME NEW Good, 0 \in Good, \A n \in Nat : n \in Good => n + 1 \in Good
  PROVE  Nat \subseteq Good
<1> DEFINE Less == {p \in Nat \X Nat : p[1] < p[2]}
<1> SUFFICES ASSUME Nat \ Good # {} PROVE FALSE
  OBVIOUS
<1>1. IsWellFoundedOn(Less, Nat)
  BY NatLessThanWellFounded DEF OpToRel
<1>2. PICK n \in Nat \ Good : \A m \in Nat \ Good : << m, n >> \notin Less
  <2> HIDE DEF Less
  <2> QED
    BY <1>1, WFMin
<1>3. n - 1 \in Nat /\ << n - 1, n >> \in Less
  BY <1>2
<1>4. n - 1 \in Good
  BY <1>2, <1>3
<1>5. QED
  BY <1>2, <1>3, <1>4

\* What holds of a set when it holds of its proper subsets holds of all finite sets.
LEMMA SubsetInduction ==
  ASSUME NEW S, IsFiniteSet(S), NEW Good,
         \A T \in SUBSET S : (\A U \in SUBSET T : U # T => U \in Good) => T \in Good
  PROVE  S \in Good
<1> DEFINE Bad == (SUBSET S) \ Good
<1> SUFFICES ASSUME S \notin Good PROVE FALSE
  OBVIOUS
<1>1. FiniteSubsetsOf(S) = SUBSET S
  BY FS_FiniteSubsetsOfFinite
<1>2. IsWellFoundedOn(StrictSubsetOrdering(S), SUBSET S)
  <2>1. IsWellFoundedOn(StrictSubsetOrdering(S), FiniteSubsetsOf(S))
    BY FS_StrictSubsetOrderingWellFounded
  <2>2. QED
    BY <1>1, <2>1
<1>3. Bad \subseteq SUBSET S /\ Bad # {}
  OBVIOUS
<1>4. PICK T \in Bad : \A U \in Bad : << U, T >> \notin StrictSubsetOrdering(S)
  <2> HIDE DEF Bad
  <2> QED
    BY <1>2, <1>3, WFMin
<1>5. ASSUME NEW U \in SUBSET T, U # T PROVE U \in Good
  <2>1. T \in SUBSET S /\ U \in SUBSET S
    BY <1>4
  <2>2. << U, T >> \in StrictSubsetOrdering(S)
    BY <1>5, <2>1, Zenon DEF StrictSubsetOrdering
  <2>3. QED
    BY <1>4, <2>1, <2>2
<1>6. QED
  BY <1>4, <1>5

-----------------------------------------------------------------------------
(* Sums *)

Pick(s)       == CHOOSE x \in s : TRUE
SumFrom(f, g, s) == IF s = {} THEN 0 ELSE f[Pick(s)] + g[s \ {Pick(s)}]

\* The function by which the library defines the sum of f over subsets of S
Sums(f, g, S) == g = [s \in SUBSET S |-> SumFrom(f, g, s)]

\* A set that is not empty has an element that is picked.
LEMMA Picked == ASSUME NEW s, s # {} PROVE Pick(s) \in s
BY DEF Pick

\* Sums over subsets of different sets agree where both are defined.
LEMMA SumsAgree ==
  ASSUME NEW f, NEW S, NEW T, NEW g, NEW h, Sums(f, g, S), Sums(f, h, T),
         NEW U \in SUBSET (S \cap T), IsFiniteSet(U)
  PROVE  g[U] = h[U]
<1> DEFINE Good == {V \in SUBSET U : g[V] = h[V]}
<1>1. ASSUME NEW V \in SUBSET U, \A W \in SUBSET V : W # V => W \in Good
      PROVE  V \in Good
  <2>1. V \in SUBSET S /\ V \in SUBSET T
    OBVIOUS
  <2>2. g[V] = SumFrom(f, g, V) /\ h[V] = SumFrom(f, h, V)
    BY <2>1 DEF Sums
  <2>3. CASE V = {}
    BY <2>2, <2>3 DEF SumFrom
  <2>4. CASE V # {}
    <3>1. V \ {Pick(V)} \in SUBSET V /\ V \ {Pick(V)} # V
      BY <2>4, Picked
    <3>2. g[V \ {Pick(V)}] = h[V \ {Pick(V)}]
      BY <1>1, <3>1
    <3>3. QED
      BY <2>2, <2>4, <3>2 DEF SumFrom
  <2>5. QED
    BY <2>3, <2>4
<1>2. U \in Good
  <2> HIDE DEF Good
  <2> QED
    BY <1>1, SubsetInduction
<1>3. QED
  BY <1>2

\* The sum over every subset of a finite set is defined.
LEMMA SumsExist ==
  ASSUME NEW f, NEW S, IsFiniteSet(S)
  PROVE  \E g : Sums(f, g, S)
<1> DEFINE Good == {T \in SUBSET S : \E g : Sums(f, g, T)}
<1>1. ASSUME NEW T \in SUBSET S, \A U \in SUBSET T : U # T => U \in Good
      PROVE  T \in Good
  <2> DEFINE Of(U) == CHOOSE g : Sums(f, g, U)
             Rest(s) == s \ {Pick(s)}
             At(s) == IF s = {} THEN 0 ELSE f[Pick(s)] + Of(Rest(s))[Rest(s)]
             g == [s \in SUBSET T |-> At(s)]
  <2>1. ASSUME NEW U \in SUBSET T, U # T PROVE Sums(f, Of(U), U)
    <3>1. \E h : Sums(f, h, U)
      BY <1>1, <2>1
    <3>2. QED
      BY <3>1, Zenon
  <2>2. ASSUME NEW s \in SUBSET T, s # {} PROVE g[Rest(s)] = Of(Rest(s))[Rest(s)]
    <3> DEFINE U == Rest(s)
    <3>1. U \in SUBSET T /\ U # T
      BY <2>2, Picked
    <3>2. Of(U)[U] = SumFrom(f, Of(U), U)
      <4>1. Sums(f, Of(U), U)
        BY <2>1, <3>1
      <4>2. QED
        <5> HIDE DEF U, Of
        <5> QED
          BY <4>1 DEF Sums
    <3>3. g[U] = At(U)
      <4> HIDE DEF At, U
      <4> QED
        BY <3>1
    <3>4. CASE U = {}
      <4>1. At(U) = 0
        BY <3>4
      <4>2. Of(U)[U] = 0
        <5> HIDE DEF U, Of
        <5> QED
          BY <3>2, <3>4 DEF SumFrom
      <4>3. QED
        BY <3>3, <4>1, <4>2
    <3>5. CASE U # {}
      <4> DEFINE V == Rest(U)
      <4>1. V \in SUBSET T /\ V # T /\ V \in SUBSET U
        BY <3>1, <3>5, Picked
      <4>2. Of(U)[V] = Of(V)[V]
        <5>1. Sums(f, Of(U), U) /\ Sums(f, Of(V), V)
          BY <2>1, <3>1, <4>1
        <5>2. V \in SUBSET (U \cap V) /\ IsFiniteSet(V)
          BY <4>1, FS_Subset
        <5> HIDE DEF Of, V, U
        <5> QED
          BY <5>1, <5>2, SumsAgree
      <4>3. At(U) = f[Pick(U)] + Of(V)[V]
        <5> HIDE DEF Of, U
        <5> QED
          BY <3>5
      <4>4. Of(U)[U] = f[Pick(U)] + Of(U)[V]
        <5> HIDE DEF U, Of
        <5> QED
          BY <3>2, <3>5 DEF SumFrom
      <4>5. QED
        BY <3>3, <4>2, <4>3, <4>4
    <3>6. QED
      BY <3>4, <3>5
  <2>3. ASSUME NEW s \in SUBSET T PROVE At(s) = SumFrom(f, g, s)
    <3>1. CASE s = {}
      BY <3>1 DEF SumFrom
    <3>2. CASE s # {}
      <4>1. At(s) = f[Pick(s)] + Of(Rest(s))[Rest(s)]
        <5> HIDE DEF Of
        <5> QED
          BY <3>2
      <4>2. SumFrom(f, g, s) = f[Pick(s)] + g[Rest(s)]
        <5> HIDE DEF g
        <5> QED
          BY <3>2 DEF SumFrom
      <4>3. g[Rest(s)] = Of(Rest(s))[Rest(s)]
        BY <2>2, <3>2
      <4> HIDE DEF At, g, Rest, Of
      <4> QED
        BY <4>1, <4>2, <4>3
    <3>3. QED
      BY <3>1, <3>2
  <2>4. g = [s \in SUBSET T |-> SumFrom(f, g, s)]
    <3>1. g = [s \in SUBSET T |-> At(s)]
      OBVIOUS
    <3> HIDE DEF g, At
    <3> QED
      BY <2>3, <3>1
  <2>5. \E h : Sums(f, h, T)
    <3> HIDE DEF g
    <3> QED
      BY <2>4 DEF Sums
  <2>6. QED
    BY <2>5
<1>2. S \in Good
  <2> HIDE DEF Good
  <2> QED
    BY <1>1, SubsetInduction
<1>3. QED
  BY <1>2

\* The library's sum is the value of such a function.
LEMMA SumIsDefined ==
  ASSUME NEW f, NEW S, IsFiniteSet(S)
  PROVE  \E g : Sums(f, g, S) /\ SumFunctionOnSet(f, S) = g[S]
<1> DEFINE g == CHOOSE g : g = [s \in SUBSET S |-> SumFrom(f, g, s)]
<1>1. Sums(f, g, S)
  <2>1. \E h : h = [s \in SUBSET S |-> SumFrom(f, h, s)]
    BY SumsExist DEF Sums
  <2>2. g = [s \in SUBSET S |-> SumFrom(f, g, s)]
    BY <2>1, Zenon
  <2>3. QED
    BY <2>2 DEF Sums
<1>2. SumFunctionOnSet(f, S) = g[S]
  BY Zenon DEF SumFunctionOnSet, FoldFunctionOnSet, MapThenFoldSet, SumFrom, Pick
<1>3. QED
  BY <1>1, <1>2

\* The sum over no elements is zero, any other adds the value of the element
\* picked to the sum over the rest.
LEMMA SumUnfolds ==
  ASSUME NEW f, NEW S, IsFiniteSet(S)
  PROVE  /\ S = {} => SumFunctionOnSet(f, S) = 0
         /\ S # {} => SumFunctionOnSet(f, S) = f[Pick(S)] + SumFunctionOnSet(f, S \ {Pick(S)})
<1>1. PICK g : Sums(f, g, S) /\ SumFunctionOnSet(f, S) = g[S]
  BY SumIsDefined
<1>2. g[S] = SumFrom(f, g, S)
  BY <1>1 DEF Sums
<1>3. CASE S = {}
  BY <1>1, <1>2, <1>3 DEF SumFrom
<1>4. CASE S # {}
  <2> DEFINE T == S \ {Pick(S)}
  <2>1. IsFiniteSet(T) /\ T \in SUBSET (S \cap T)
    BY FS_Subset
  <2>2. PICK h : Sums(f, h, T) /\ SumFunctionOnSet(f, T) = h[T]
    BY <2>1, SumIsDefined
  <2>3. g[T] = h[T]
    <3> HIDE DEF T
    <3> QED
      BY <1>1, <2>1, <2>2, SumsAgree
  <2>4. QED
    BY <1>1, <1>2, <1>4, <2>2, <2>3 DEF SumFrom
<1>5. QED
  BY <1>3, <1>4

\* A sum of numbers is a number.
LEMMA SumIsNat ==
  ASSUME NEW f, NEW S, IsFiniteSet(S), \A x \in S : f[x] \in Nat
  PROVE  SumFunctionOnSet(f, S) \in Nat
<1> DEFINE Good == {T \in SUBSET S : SumFunctionOnSet(f, T) \in Nat}
<1>1. ASSUME NEW T \in SUBSET S, \A U \in SUBSET T : U # T => U \in Good
      PROVE  T \in Good
  <2>1. IsFiniteSet(T)
    BY FS_Subset
  <2>2. CASE T = {}
    <3>1. SumFunctionOnSet(f, T) = 0
      BY <2>1, <2>2, SumUnfolds
    <3>2. QED
      BY <3>1
  <2>3. CASE T # {}
    <3>1. Pick(T) \in T /\ T \ {Pick(T)} \in SUBSET T /\ T \ {Pick(T)} # T
      BY <2>3, Picked
    <3>2. SumFunctionOnSet(f, T) = f[Pick(T)] + SumFunctionOnSet(f, T \ {Pick(T)})
      BY <2>1, <2>3, SumUnfolds
    <3>3. QED
      BY <1>1, <3>1, <3>2
  <2>4. QED
    BY <2>2, <2>3
<1>2. S \in Good
  <2> HIDE DEF Good
  <2> QED
    BY <1>1, SubsetInduction
<1>3. QED
  BY <1>2

\* It does not matter which element is added first.
LEMMA SumPeels ==
  ASSUME NEW f, NEW S, IsFiniteSet(S), \A x \in S : f[x] \in Nat
  PROVE  \A x \in S : SumFunctionOnSet(f, S) = f[x] + SumFunctionOnSet(f, S \ {x})
<1> DEFINE Sum(T) == SumFunctionOnSet(f, T)
           Good == {T \in SUBSET S : \A x \in T : Sum(T) = f[x] + Sum(T \ {x})}
<1>1. ASSUME NEW T \in SUBSET S, \A U \in SUBSET T : U # T => U \in Good
      PROVE  T \in Good
  <2> SUFFICES ASSUME NEW x \in T PROVE Sum(T) = f[x] + Sum(T \ {x})
    OBVIOUS
  <2> DEFINE p == Pick(T)
  <2>1. p \in T
    BY Picked
  <2>2. Sum(T) = f[p] + Sum(T \ {p})
    BY FS_Subset, SumUnfolds
  <2>3. CASE x = p
    BY <2>2, <2>3
  <2>4. CASE x # p
    <3> DEFINE U == (T \ {p}) \ {x}
    <3>1. Sum(T \ {p}) = f[x] + Sum(U)
      <4>1. T \ {p} \in Good /\ x \in T \ {p}
        BY <1>1, <2>1, <2>4
      <4>2. QED
        BY <4>1
    <3>2. Sum(T \ {x}) = f[p] + Sum(U)
      <4>1. T \ {x} \in Good /\ p \in T \ {x}
        BY <1>1, <2>1, <2>4
      <4>2. (T \ {x}) \ {p} = U
        OBVIOUS
      <4>3. Sum(T \ {x}) = f[p] + Sum((T \ {x}) \ {p})
        BY <4>1
      <4> HIDE DEF U, p
      <4> QED
        BY <4>2, <4>3
    <3>3. f[x] \in Nat /\ f[p] \in Nat
      BY <2>1
    <3>4. Sum(U) \in Nat
      <4>1. IsFiniteSet(U) /\ \A y \in U : f[y] \in Nat
        BY FS_Subset
      <4> HIDE DEF U
      <4> QED
        BY <4>1, SumIsNat
    <3> HIDE DEF Sum, p, U
    <3> QED
      BY <2>2, <3>1, <3>2, <3>3, <3>4
  <2>5. QED
    BY <2>3, <2>4
<1>2. S \in Good
  <2> HIDE DEF Good
  <2> QED
    BY <1>1, SubsetInduction
<1>3. QED
  BY <1>2

\* A sum depends on the values that are added alone.
LEMMA SumOfSame ==
  ASSUME NEW f, NEW g, NEW S, IsFiniteSet(S), \A x \in S : f[x] = g[x]
  PROVE  SumFunctionOnSet(f, S) = SumFunctionOnSet(g, S)
<1> DEFINE Good == {T \in SUBSET S : SumFunctionOnSet(f, T) = SumFunctionOnSet(g, T)}
<1>1. ASSUME NEW T \in SUBSET S, \A U \in SUBSET T : U # T => U \in Good
      PROVE  T \in Good
  <2>1. IsFiniteSet(T)
    BY FS_Subset
  <2>2. CASE T = {}
    BY <2>1, <2>2, SumUnfolds
  <2>3. CASE T # {}
    <3>1. Pick(T) \in T /\ T \ {Pick(T)} \in SUBSET T /\ T \ {Pick(T)} # T
      BY <2>3, Picked
    <3>2. /\ SumFunctionOnSet(f, T) = f[Pick(T)] + SumFunctionOnSet(f, T \ {Pick(T)})
          /\ SumFunctionOnSet(g, T) = g[Pick(T)] + SumFunctionOnSet(g, T \ {Pick(T)})
      BY <2>1, <2>3, SumUnfolds
    <3>3. QED
      BY <1>1, <3>1, <3>2
  <2>4. QED
    BY <2>2, <2>3
<1>2. S \in Good
  <2> HIDE DEF Good
  <2> QED
    BY <1>1, SubsetInduction
<1>3. QED
  BY <1>2

\* A value that changes changes the sum by as much.
LEMMA SumUpdated ==
  ASSUME NEW S, IsFiniteSet(S), NEW f \in [S -> Nat], NEW g \in [S -> Nat], NEW x \in S,
         \A y \in S : y # x => g[y] = f[y]
  PROVE  SumFunctionOnSet(g, S) + f[x] = SumFunctionOnSet(f, S) + g[x]
<1>1. IsFiniteSet(S \ {x})
  BY FS_Subset
<1>2. SumFunctionOnSet(f, S) = f[x] + SumFunctionOnSet(f, S \ {x})
  BY SumPeels
<1>3. SumFunctionOnSet(g, S) = g[x] + SumFunctionOnSet(g, S \ {x})
  BY SumPeels
<1>4. SumFunctionOnSet(g, S \ {x}) = SumFunctionOnSet(f, S \ {x})
  BY <1>1, SumOfSame
<1>5. SumFunctionOnSet(f, S \ {x}) \in Nat
  BY <1>1, SumIsNat
<1>6. QED
  BY <1>2, <1>3, <1>4, <1>5

\* A sum of zeros and ones counts the ones.
LEMMA SumCounts ==
  ASSUME NEW f, NEW S, IsFiniteSet(S), \A x \in S : f[x] \in {0, 1}
  PROVE  SumFunctionOnSet(f, S) = Cardinality({x \in S : f[x] = 1})
<1> DEFINE Ones(T) == {x \in T : f[x] = 1}
           Good == {T \in SUBSET S : SumFunctionOnSet(f, T) = Cardinality(Ones(T))}
<1>1. ASSUME NEW T \in SUBSET S, \A U \in SUBSET T : U # T => U \in Good
      PROVE  T \in Good
  <2>1. IsFiniteSet(T)
    BY FS_Subset
  <2>2. CASE T = {}
    <3>1. Ones(T) = {}
      BY <2>2
    <3>2. QED
      BY <2>1, <2>2, <3>1, SumUnfolds, FS_EmptySet
  <2>3. CASE T # {}
    <3> DEFINE p == Pick(T)
               U == T \ {p}
    <3>1. p \in T /\ U \in SUBSET T /\ U # T
      BY <2>3, Picked
    <3>2. SumFunctionOnSet(f, T) = f[p] + Cardinality(Ones(U))
      <4>1. SumFunctionOnSet(f, T) = f[p] + SumFunctionOnSet(f, U)
        BY <2>1, <2>3, SumUnfolds
      <4>2. QED
        BY <1>1, <3>1, <4>1
    <3>3. IsFiniteSet(Ones(U)) /\ Cardinality(Ones(U)) \in Nat
      <4>1. Ones(U) \subseteq T
        OBVIOUS
      <4> HIDE DEF Ones
      <4> QED
        BY <2>1, <4>1, FS_Subset, FS_CardinalityType
    <3>4. SumFunctionOnSet(f, T) = Cardinality(Ones(T))
      <4>1. f[p] \in {0, 1}
        BY <3>1
      <4>2. CASE f[p] = 0
        <5>1. Ones(T) = Ones(U)
          BY <3>1, <4>2
        <5> HIDE DEF U, Ones, p
        <5> QED
          BY <3>2, <3>3, <4>2, <5>1
      <4>3. CASE f[p] = 1
        <5>1. Ones(T) = Ones(U) \cup {p} /\ p \notin Ones(U)
          BY <3>1, <4>3
        <5>2. Cardinality(Ones(U) \cup {p}) = Cardinality(Ones(U)) + 1
          <6> HIDE DEF Ones, U, p
          <6> QED
            BY <3>3, <5>1, FS_AddElement
        <5> HIDE DEF U, Ones, p
        <5> QED
          BY <3>2, <3>3, <4>3, <5>1, <5>2
      <4>4. QED
        BY <4>1, <4>2, <4>3
    <3>5. QED
      BY <3>4
  <2>4. QED
    BY <2>2, <2>3
<1>2. S \in Good
  <2> HIDE DEF Good
  <2> QED
    BY <1>1, SubsetInduction
<1>3. QED
  BY <1>2

-----------------------------------------------------------------------------
(* Sequences put together from others *)

\* The function by which the library defines the sequence, up to its k-th part
Chain(seqs, g, k) ==
  g = [i \in 1 .. k |-> IF i = 1 THEN seqs[i] ELSE g[i - 1] \o seqs[i]]

\* Such a function exists for any number of parts.
LEMMA ChainsExist ==
  ASSUME NEW V, NEW seqs \in Seq(Seq(V))
  PROVE  \A n \in Nat : \E g : Chain(seqs, g, n)
<1> DEFINE Good == {k \in Nat : \E g : Chain(seqs, g, k)}
<1>1. 0 \in Good
  <2> DEFINE g == [i \in 1 .. 0 |-> << >>]
  <2>1. Chain(seqs, g, 0)
    BY DEF Chain
  <2>2. QED
    BY <2>1
<1>2. ASSUME NEW k \in Nat, k \in Good PROVE k + 1 \in Good
  <2>1. PICK g : Chain(seqs, g, k)
    BY <1>2
  <2> DEFINE Step(f, i) == IF i = 1 THEN seqs[i] ELSE f[i - 1] \o seqs[i]
             h == [i \in 1 .. k + 1 |-> Step(g, i)]
  <2>2. ASSUME NEW i \in 1 .. k PROVE h[i] = g[i]
    <3>1. g = [j \in 1 .. k |-> Step(g, j)]
      BY <2>1 DEF Chain
    <3>2. h[i] = Step(g, i)
      <4> HIDE DEF Step
      <4> QED
        OBVIOUS
    <3>3. g[i] = Step(g, i)
      <4> HIDE DEF Step
      <4> QED
        BY <3>1
    <3> QED
      BY <3>2, <3>3
  <2>3. ASSUME NEW i \in 1 .. k + 1 PROVE Step(g, i) = Step(h, i)
    <3>1. CASE i = 1
      BY <3>1
    <3>2. CASE i # 1
      <4>1. i - 1 \in 1 .. k
        BY <3>2
      <4>2. h[i - 1] = g[i - 1]
        BY <2>2, <4>1
      <4> HIDE DEF h
      <4> QED
        BY <4>2
    <3>3. QED
      BY <3>1, <3>2
  <2>4. h = [i \in 1 .. k + 1 |-> Step(h, i)]
    <3>1. h = [i \in 1 .. k + 1 |-> Step(g, i)]
      OBVIOUS
    <3> HIDE DEF h, Step
    <3> QED
      BY <2>3, <3>1
  <2>5. Chain(seqs, h, k + 1)
    <3> HIDE DEF h
    <3> QED
      BY <2>4 DEF Chain
  <2> HIDE DEF h
  <2> QED
    BY <2>5
<1>3. Nat \subseteq Good
  <2> HIDE DEF Good
  <2> QED
    BY <1>1, <1>2, NumberInduction
<1>4. QED
  BY <1>3

\* What holds of no parts, and stays true when a part is appended, holds of all
\* of them put together.
LEMMA FlattenInduction ==
  ASSUME NEW V, NEW seqs \in Seq(Seq(V)), NEW Good,
         << 0, << >> >> \in Good,
         \A k \in 0 .. Len(seqs) - 1 : \A s \in Seq(V) :
           << k, s >> \in Good => << k + 1, s \o seqs[k + 1] >> \in Good
  PROVE  FlattenSeq(seqs) \in Seq(V) /\ << Len(seqs), FlattenSeq(seqs) >> \in Good
<1> DEFINE n == Len(seqs)
<1>1. CASE n = 0
  <2>1. FlattenSeq(seqs) = << >>
    BY <1>1 DEF FlattenSeq
  <2>2. QED
    BY <1>1, <2>1
<1>2. CASE n # 0
  <2> DEFINE g == CHOOSE g : g = [i \in 1 .. n |-> IF i = 1 THEN seqs[i] ELSE g[i - 1] \o seqs[i]]
  <2>1. n \in Nat /\ \A i \in 1 .. n : seqs[i] \in Seq(V)
    OBVIOUS
  <2>2. Chain(seqs, g, n)
    <3>1. \E h : h = [i \in 1 .. n |-> IF i = 1 THEN seqs[i] ELSE h[i - 1] \o seqs[i]]
      BY <2>1, ChainsExist DEF Chain
    <3>2. g = [i \in 1 .. n |-> IF i = 1 THEN seqs[i] ELSE g[i - 1] \o seqs[i]]
      BY <3>1, Zenon
    <3>3. QED
      BY <3>2 DEF Chain
  <2>3. FlattenSeq(seqs) = g[n]
    BY <1>2, Zenon DEF FlattenSeq
  <2> HIDE DEF g
  <2>4. \A i \in 1 .. n : g[i] = IF i = 1 THEN seqs[i] ELSE g[i - 1] \o seqs[i]
    BY <2>2 DEF Chain
  <2> DEFINE Fine == {k \in Nat : k + 1 \in 1 .. n =>
                                    g[k + 1] \in Seq(V) /\ << k + 1, g[k + 1] >> \in Good}
  <2>5. 0 \in Fine
    <3>1. ASSUME 1 \in 1 .. n PROVE g[1] \in Seq(V) /\ << 1, g[1] >> \in Good
      <4>1. g[1] = seqs[1] /\ g[1] \in Seq(V)
        BY <2>1, <2>4, <3>1
      <4>2. << >> \o seqs[1] = seqs[1]
        BY <2>1, <3>1
      <4>3. 0 \in 0 .. Len(seqs) - 1 /\ << >> \in Seq(V) /\ << 0, << >> >> \in Good
        BY <3>1
      <4>4. << 0 + 1, << >> \o seqs[0 + 1] >> \in Good
        BY <4>3
      <4> QED
        BY <4>1, <4>2, <4>4
    <3> QED
      BY <3>1
  <2>6. ASSUME NEW k \in Nat, k \in Fine PROVE k + 1 \in Fine
    <3> DEFINE m == k + 1
    <3>1. ASSUME m + 1 \in 1 .. n PROVE g[m + 1] \in Seq(V) /\ << m + 1, g[m + 1] >> \in Good
      <4>1. m \in 1 .. n /\ m \in 0 .. n - 1 /\ m + 1 # 1 /\ (m + 1) - 1 = m
        BY <3>1
      <4>2. g[m] \in Seq(V) /\ << m, g[m] >> \in Good
        BY <2>6, <4>1
      <4>3. g[m + 1] = g[m] \o seqs[m + 1]
        BY <2>4, <3>1, <4>1
      <4>4. seqs[m + 1] \in Seq(V)
        BY <2>1, <3>1
      <4>5. << m + 1, g[m] \o seqs[m + 1] >> \in Good
        <5> HIDE DEF m
        <5> QED
          BY <4>1, <4>2
      <4> HIDE DEF m, Fine
      <4> QED
        BY <4>2, <4>3, <4>4, <4>5
    <3> QED
      BY <3>1
  <2>7. n - 1 \in Fine
    <3>1. Nat \subseteq Fine
      <4> HIDE DEF Fine
      <4> QED
        BY <2>5, <2>6, NumberInduction
    <3> HIDE DEF Fine
    <3> QED
      BY <1>2, <2>1, <3>1
  <2>8. QED
    BY <1>2, <2>1, <2>3, <2>7
<1>3. QED
  BY <1>1, <1>2

\* What is put together has the elements of its parts, and no other.
LEMMA FlattenHolds ==
  ASSUME NEW V, NEW seqs \in Seq(Seq(V))
  PROVE  /\ FlattenSeq(seqs) \in Seq(V)
         /\ \A x : (\E i \in DOMAIN FlattenSeq(seqs) : FlattenSeq(seqs)[i] = x)
                     <=> \E j \in DOMAIN seqs : \E i \in DOMAIN seqs[j] : seqs[j][i] = x
<1> DEFINE In(x, s) == \E i \in DOMAIN s : s[i] = x
           Same(k, s) == \A x : In(x, s) <=> \E j \in 1 .. k : In(x, seqs[j])
           Good == {p \in Nat \X Seq(V) : Same(p[1], p[2])}
<1>1. << 0, << >> >> \in Good
  <2>1. Same(0, << >>)
    OBVIOUS
  <2>2. << >> \in Seq(V)
    OBVIOUS
  <2> HIDE DEF Same
  <2> QED
    BY <2>1, <2>2
<1>2. ASSUME NEW k \in 0 .. Len(seqs) - 1, NEW s \in Seq(V), << k, s >> \in Good
      PROVE  << k + 1, s \o seqs[k + 1] >> \in Good
  <2> DEFINE t == seqs[k + 1]
  <2>1. t \in Seq(V) /\ s \o t \in Seq(V) /\ k + 1 \in Nat
    OBVIOUS
  <2>2. \A x : In(x, s \o t) <=> In(x, s) \/ In(x, t)
    <3> TAKE x
    <3>1. ASSUME NEW i \in DOMAIN (s \o t), (s \o t)[i] = x PROVE In(x, s) \/ In(x, t)
      <4>1. CASE i <= Len(s)
        BY <2>1, <3>1, <4>1
      <4>2. CASE i > Len(s)
        <5>1. i - Len(s) \in DOMAIN t /\ t[i - Len(s)] = x
          <6> HIDE DEF t
          <6> QED
            BY <2>1, <3>1, <4>2
        <5>2. QED
          BY <5>1
      <4>3. QED
        BY <2>1, <4>1, <4>2
    <3>2. ASSUME NEW i \in DOMAIN s, s[i] = x PROVE In(x, s \o t)
      <4>1. i \in DOMAIN (s \o t) /\ (s \o t)[i] = x
        <5> HIDE DEF t
        <5> QED
          BY <2>1, <3>2
      <4>2. QED
        BY <4>1
    <3>3. ASSUME NEW i \in DOMAIN t, t[i] = x PROVE In(x, s \o t)
      <4>1. i + Len(s) \in DOMAIN (s \o t) /\ (s \o t)[i + Len(s)] = x
        <5> HIDE DEF t
        <5> QED
          BY <2>1, <3>3
      <4>2. QED
        BY <4>1
    <3>4. QED
      BY <3>1, <3>2, <3>3
  <2>3. Same(k, s)
    BY <1>2
  <2>4. 1 .. k + 1 = (1 .. k) \cup {k + 1}
    OBVIOUS
  <2>5. Same(k + 1, s \o t)
    <3> HIDE DEF In
    <3> QED
      BY <2>2, <2>3, <2>4
  <2>6. << k + 1, s \o t >> \in Nat \X Seq(V)
    BY <2>1
  <2>7. QED
    <3> HIDE DEF Same
    <3> QED
      BY <2>5, <2>6
<1>3. FlattenSeq(seqs) \in Seq(V) /\ << Len(seqs), FlattenSeq(seqs) >> \in Good
  <2> HIDE DEF Good
  <2> QED
    BY <1>1, <1>2, FlattenInduction
<1>4. Same(Len(seqs), FlattenSeq(seqs)) /\ DOMAIN seqs = 1 .. Len(seqs)
  <2> HIDE DEF Same
  <2> QED
    BY <1>3
<1>5. QED
  BY <1>3, <1>4

-----------------------------------------------------------------------------
(* The metrics *)

Owes(r, step)    == \E i \in DOMAIN reportTask[r].todo : reportTask[r].todo[i] = step
At(step)         == {r \in Caller : Metrics!Doing(r, step)}
CallIs(r, names) == reportTask[r] # Metrics!Idle /\ reportTask[r].call \in names

\* Calls about a session or a stream, of which one has the attention of one caller
EntityCalls == {"session_created", "session_ended", "stream_created", "stream_completed"}
Quiet(id)   == \A r \in Caller : CallIs(r, EntityCalls) => reportTask[r].id # id

\* A step, and the one that is taken right after it and never otherwise
Follows == {<< "count session", "add session" >>, << "uncount session", "remove session" >>,
            << "count stream", "credit session" >>, << "credit session", "add stream" >>,
            << "uncount stream", "complete stream" >>}

Steps ==
  {"count session", "add session", "push", "uncount session", "remove session", "count stream",
   "credit session", "add stream", "uncount stream", "complete stream", "average", "count frames",
   "pjs_sessions_created_total", "pjs_active_sessions", "pjs_streams_created_total",
   "pjs_active_streams", "frame_processing", "frames_processed"}

InTurn(todo) ==
  /\ todo \in Seq(Steps) /\ todo # << >>
  /\ \A i, j \in DOMAIN todo : todo[i] = todo[j] => i = j
  /\ \A p \in Follows : \A i \in DOMAIN todo :
       /\ todo[i] = p[1] => i + 1 \in DOMAIN todo /\ todo[i + 1] = p[2]
       /\ i > 1 /\ todo[i] = p[2] => todo[i - 1] = p[1]

StepsOf ==
  [session_created  |-> {"count session", "add session", "push",
                         "pjs_sessions_created_total", "pjs_active_sessions"},
   session_ended    |-> {"uncount session", "remove session", "push", "pjs_active_sessions"},
   stream_created   |-> {"count stream", "credit session", "add stream",
                         "pjs_streams_created_total", "pjs_active_streams"},
   stream_completed |-> {"uncount stream", "complete stream", "pjs_active_streams"},
   timing           |-> {"average", "frame_processing"},
   frames           |-> {"count frames", "frames_processed"}]

NoMetadata == \A id \in SessionId : setting.metadata[id] = {}

\* What a call is about
IsAbout(t) ==
  \/ t.call = "session_created" /\ t.id \in SessionId /\ t.id \in sessionsBegun \ sessionsEnded
     /\ (NoMetadata => t.labels = << t.id >>)
  \/ t.call = "session_ended" /\ t.id \in SessionId /\ t.id \in sessionsEnded
     /\ t.labels = << t.id >>
  \/ t.call = "stream_created" /\ t.id \in StreamId /\ t.id \in sessionsBegun \ sessionsEnded
     /\ t.of \in SessionId /\ t.labels \in {<< t.id, t.of >>, << t.of, t.id >>}
  \/ t.call = "stream_completed" /\ t.id \in StreamId /\ t.id \in sessionsEnded
     /\ t.labels = << t.id >>
  \/ t.call = "timing" /\ t.id \in timings /\ t.labels = << >>
  \/ t.call = "frames" /\ t.id = 1 /\ t.labels = << >>

TaskFits(t) ==
  \/ t = Metrics!Idle
  \/ /\ t = [todo |-> t.todo, call |-> t.call, id |-> t.id, labels |-> t.labels, of |-> t.of]
     /\ InTurn(t.todo) /\ IsAbout(t)
     /\ \A i \in DOMAIN t.todo : t.todo[i] \in StepsOf[t.call]

TasksIInv ==
  /\ setting \in Settings
  /\ reportTask = [r \in Caller |-> reportTask[r]]
  /\ \A r \in Caller : TaskFits(reportTask[r])
  /\ \A q, r \in Caller : CallIs(q, EntityCalls) /\ CallIs(r, EntityCalls)
                            /\ reportTask[q].id = reportTask[r].id => q = r
  /\ sessionsEnded \subseteq sessionsBegun
  /\ sessionsBegun \subseteq SessionId \cup StreamId
  /\ \A name \in DOMAIN vectors :
       /\ vectors[name] = [labels |-> vectors[name].labels, values |-> vectors[name].values]
       /\ name \in {"frame_processing", "frames_processed"} => vectors[name].labels = 0

\* The entries follow the calls.
Open == {t \in DOMAIN streamMetrics : streamMetrics[t].open}

Entry(r, kind, id) ==
  /\ kind = "session_created" => (id \in DOMAIN sessionMetrics <=> ~Owes(r, "add session"))
  /\ kind = "session_ended" => (id \in DOMAIN sessionMetrics <=> Owes(r, "remove session"))
  /\ kind = "stream_created" =>
       /\ id \in DOMAIN streamMetrics <=> ~Owes(r, "add stream")
       /\ id \in Open <=> ~Owes(r, "add stream")
  /\ kind = "stream_completed" =>
       /\ id \in DOMAIN streamMetrics
       /\ id \in Open <=> Owes(r, "complete stream")

EntriesIInv ==
  /\ DOMAIN sessionMetrics \subseteq sessionsBegun \cap SessionId
  /\ DOMAIN streamMetrics \subseteq sessionsBegun \cap StreamId
  /\ \A t \in DOMAIN streamMetrics :
       streamMetrics[t] = [session |-> streamMetrics[t].session, open |-> streamMetrics[t].open]
  /\ \A r \in Caller : reportTask[r] # Metrics!Idle => Entry(r, reportTask[r].call, reportTask[r].id)
  /\ \A id \in SessionId : Quiet(id) /\ id \in sessionsBegun \ sessionsEnded => id \in DOMAIN sessionMetrics
  /\ \A id \in StreamId : Quiet(id) /\ id \in sessionsBegun \ sessionsEnded => id \in Open

\* The gauges count the entries, but for who is between the two.
StreamsOf(s)   == {t \in DOMAIN streamMetrics : streamMetrics[t].session = s}
Crediting(s) == {r \in At("add stream") : reportTask[r].of = s}

GaugeTypes ==
  /\ gauges = [active_sessions |-> gauges.active_sessions,
               total_sessions_created |-> gauges.total_sessions_created,
               active_streams |-> gauges.active_streams,
               total_streams_created |-> gauges.total_streams_created,
               frames_processed |-> gauges.frames_processed, average |-> gauges.average]
  /\ gauges.active_sessions \in Nat /\ gauges.active_streams \in Nat
  /\ gauges.total_sessions_created \in Nat
  /\ gauges.average \in Nat /\ gauges.frames_processed \in Nat

SessionGauge ==
  gauges.active_sessions + Cardinality(At("remove session"))
    = Cardinality(DOMAIN sessionMetrics) + Cardinality(At("add session"))

StreamGauge ==
  gauges.active_streams + Cardinality(At("complete stream"))
    = Cardinality(Open) + Cardinality(At("credit session")) + Cardinality(At("add stream"))

Credits ==
  \A s \in DOMAIN sessionMetrics :
    /\ sessionMetrics[s] \in Nat
    /\ sessionMetrics[s] <= Cardinality(StreamsOf(s)) + Cardinality(Crediting(s))

GaugesIInv == GaugeTypes /\ SessionGauge /\ StreamGauge /\ Credits

\* Without metadata the vectors of sessions show the sessions.
Values(name) == IF name \in DOMAIN vectors THEN vectors[name].values ELSE << >>

Told(name)    == {id \in SessionId : << id >> \in DOMAIN Values(name)}
Showing == {id \in SessionId : /\ << id >> \in DOMAIN Values("pjs_active_sessions")
                             /\ Values("pjs_active_sessions")[<< id >>] = 1}

SessionShown(r, kind, id) ==
  /\ kind = "session_created" =>
       /\ id \in Showing <=> ~Owes(r, "pjs_active_sessions")
       /\ id \in Told("pjs_sessions_created_total") <=> ~Owes(r, "pjs_sessions_created_total")
  /\ kind = "session_ended" =>
       /\ id \in Showing <=> Owes(r, "pjs_active_sessions")
       /\ id \in Told("pjs_sessions_created_total")

Singles == {<< id >> : id \in SessionId}

SessionVectorsIInv ==
  /\ \A name \in {"pjs_active_sessions", "pjs_sessions_created_total"} :
       /\ name \in DOMAIN vectors => vectors[name].labels = 1
       /\ DOMAIN Values(name) \subseteq Singles
  /\ \A l \in DOMAIN Values("pjs_active_sessions") : Values("pjs_active_sessions")[l] \in {0, 1}
  /\ \A l \in DOMAIN Values("pjs_sessions_created_total") :
       Values("pjs_sessions_created_total")[l] = 1
  /\ \A r \in Caller : reportTask[r] # Metrics!Idle =>
       SessionShown(r, reportTask[r].call, reportTask[r].id)
  /\ \A id \in SessionId :
       Quiet(id) => /\ id \in Showing <=> id \in sessionsBegun \ sessionsEnded
                    /\ id \in DOMAIN sessionMetrics <=> id \in sessionsBegun \ sessionsEnded
                    /\ id \in Told("pjs_sessions_created_total") <=> id \in sessionsBegun
  /\ gauges.total_sessions_created + Cardinality({r \in Caller : Owes(r, "count session")})
       = Cardinality(sessionsBegun \cap SessionId)

\* The vectors of streams show every stream there was.
Pairs == (StreamId \X SessionId) \cup (SessionId \X StreamId)
Sampled == {t \in StreamId : \E s \in SessionId :
              \/ << t, s >> \in DOMAIN Values("pjs_active_streams")
              \/ << s, t >> \in DOMAIN Values("pjs_active_streams")}

StreamShown(r, kind, id) ==
  /\ kind = "stream_created" /\ ~Owes(r, "pjs_active_streams") => id \in Sampled
  /\ kind = "stream_completed" => id \in Sampled

StreamVectorsIInv ==
  /\ \A name \in {"pjs_active_streams", "pjs_streams_created_total"} :
       name \in DOMAIN vectors => vectors[name].labels = 2
  /\ DOMAIN Values("pjs_active_streams") \subseteq Pairs
  /\ \A l \in DOMAIN Values("pjs_active_streams") : Values("pjs_active_streams")[l] = 1
  /\ \A r \in Caller : reportTask[r] # Metrics!Idle =>
       StreamShown(r, reportTask[r].call, reportTask[r].id)
  /\ \A id \in StreamId : Quiet(id) /\ id \in sessionsBegun => id \in Sampled

\* The average is below some duration.
AverageIInv ==
  /\ timings \subseteq Durations /\ IsFiniteSet(timings)
  /\ timings = {} => gauges.average = 0
  /\ timings # {} => \E m \in timings : gauges.average <= m

MetricsIInv ==
  /\ TasksIInv /\ EntriesIInv /\ GaugesIInv /\ StreamVectorsIInv /\ AverageIInv
  /\ NoMetadata => SessionVectorsIInv
-----------------------------------------------------------------------------
\* What a step of a call leaves to be done
LEMMA TaskMoves ==
  ASSUME NEW r \in Caller, InTurn(reportTask[r].todo), Metrics!Done(r),
         reportTask = [q \in Caller |-> reportTask[q]]
  PROVE  LET todo == reportTask[r].todo
         IN  /\ \A x : Owes(r, x)' <=> Owes(r, x) /\ x # Head(todo)
             /\ \A p \in Follows : Metrics!Doing(r, p[2])' <=> Metrics!Doing(r, p[1])
             /\ reportTask'[r] # Metrics!Idle =>
                  /\ reportTask'[r] = [reportTask[r] EXCEPT !.todo = Tail(@)]
                  /\ InTurn(Tail(todo))
             /\ \A q \in Caller \ {r} : reportTask'[q] = reportTask[q]
             /\ reportTask' = [q \in Caller |-> reportTask'[q]]
<1> DEFINE todo == reportTask[r].todo
           new  == reportTask'[r].todo
<1>1. /\ todo \in Seq(Steps) /\ todo # << >>
      /\ \A i, j \in DOMAIN todo : todo[i] = todo[j] => i = j
      /\ \A p \in Follows : \A i \in DOMAIN todo :
           /\ todo[i] = p[1] => i + 1 \in DOMAIN todo /\ todo[i + 1] = p[2]
           /\ i > 1 /\ todo[i] = p[2] => todo[i - 1] = p[1]
  BY DEF InTurn
<1>2. /\ reportTask'[r] = IF Len(todo) = 1 THEN Metrics!Idle ELSE [reportTask[r] EXCEPT !.todo = Tail(@)]
      /\ \A q \in Caller \ {r} : reportTask'[q] = reportTask[q]
      /\ reportTask' = [q \in Caller |-> reportTask'[q]]
  BY DEF Metrics!Done, Metrics!Then
<1>3. CASE Len(todo) = 1
  <2>1. new = << >> /\ reportTask'[r] = Metrics!Idle
    BY <1>2, <1>3 DEF Metrics!Idle
  <2>2. DOMAIN todo = {1} /\ Head(todo) = todo[1]
    BY <1>1, <1>3
  <2> HIDE DEF todo, new
  <2>3. \A x : Owes(r, x)' <=> Owes(r, x) /\ x # Head(todo)
    BY <2>1, <2>2 DEF Owes, todo, new
  <2>4. \A p \in Follows : ~Metrics!Doing(r, p[2])' /\ ~Metrics!Doing(r, p[1])
    <3>1. ASSUME NEW s PROVE ~Metrics!Doing(r, s)' /\ (Metrics!Doing(r, s) => todo[1] = s)
      BY <2>1, <2>2 DEF Metrics!Doing, todo, new
    <3>2. ASSUME NEW p \in Follows, todo[1] = p[1] PROVE FALSE
      <4>1. 1 \in DOMAIN todo
        BY <2>2
      <4>2. 1 + 1 \in DOMAIN todo
        BY <1>1, <3>2, <4>1
      <4>3. QED
        BY <2>2, <4>2
    <3>3. QED
      BY <3>1, <3>2, Zenon
  <2>5. QED
    BY <1>2, <2>1, <2>3, <2>4 DEF todo
<1>4. CASE Len(todo) # 1
  <2>1. /\ new = Tail(todo) /\ reportTask'[r] = [reportTask[r] EXCEPT !.todo = Tail(@)]
    BY <1>2, <1>4
  <2>2. /\ Len(todo) \in Nat /\ Len(todo) > 1 /\ DOMAIN todo = 1 .. Len(todo)
        /\ Tail(todo) \in Seq(Steps) /\ DOMAIN Tail(todo) = 1 .. Len(todo) - 1
        /\ \A i \in 1 .. Len(todo) - 1 : Tail(todo)[i] = todo[i + 1]
        /\ Head(todo) = todo[1] /\ Tail(todo) # << >> /\ Head(Tail(todo)) = todo[2]
    <3> HIDE DEF todo
    <3>1. Len(todo) \in Nat /\ Len(todo) > 1 /\ DOMAIN todo = 1 .. Len(todo) /\ Head(todo) = todo[1]
      <4>1. Len(todo) \in Nat /\ DOMAIN todo = 1 .. Len(todo) /\ Head(todo) = todo[1]
        BY <1>1
      <4>2. Len(todo) # 0
        BY <1>1
      <4>3. QED
        BY <1>4, <4>1, <4>2
    <3>2. Tail(todo) \in Seq(Steps) /\ Len(Tail(todo)) = Len(todo) - 1
      BY <1>1
    <3>3. DOMAIN Tail(todo) = 1 .. Len(todo) - 1
      BY <3>2
    <3>4. \A i \in 1 .. Len(todo) - 1 : Tail(todo)[i] = todo[i + 1]
      BY <1>1, <3>3
    <3>5. Tail(todo) # << >> /\ Head(Tail(todo)) = todo[2]
      BY <1>1, <3>1, <3>2, <3>4
    <3>6. QED
      BY <3>1, <3>2, <3>3, <3>4, <3>5
  <2> HIDE DEF todo, new
  <2>3. \A x : Owes(r, x)' <=> Owes(r, x) /\ x # Head(todo)
    <3> TAKE x
    <3>1. Owes(r, x) <=> \E i \in DOMAIN todo : todo[i] = x
      BY DEF Owes, todo
    <3>2. Owes(r, x)' <=> \E i \in DOMAIN Tail(todo) : Tail(todo)[i] = x
      BY <2>1 DEF Owes, new
    <3>3. ASSUME NEW i \in DOMAIN todo, todo[i] = x, x # todo[1]
          PROVE  i - 1 \in DOMAIN Tail(todo) /\ Tail(todo)[i - 1] = x
      BY <2>2, <3>3
    <3>4. ASSUME NEW i \in DOMAIN Tail(todo), Tail(todo)[i] = x
          PROVE  i + 1 \in DOMAIN todo /\ todo[i + 1] = x /\ x # todo[1]
      BY <1>1, <2>2, <3>4
    <3>5. QED
      BY <2>2, <3>1, <3>2, <3>3, <3>4
  <2>4. \A p \in Follows : Metrics!Doing(r, p[2])' <=> Metrics!Doing(r, p[1])
    <3> TAKE p \in Follows
    <3>1. 1 \in DOMAIN todo /\ 2 \in DOMAIN todo
      BY <2>2
    <3>2. todo[1] = p[1] <=> todo[2] = p[2]
      <4>1. todo[1] = p[1] => todo[1 + 1] = p[2]
        BY <1>1, <3>1
      <4>2. 2 > 1 /\ todo[2] = p[2] => todo[2 - 1] = p[1]
        BY <1>1, <3>1
      <4>3. 1 + 1 = 2 /\ 2 - 1 = 1
        OBVIOUS
      <4>4. QED
        BY <4>1, <4>2, <4>3
    <3>3. Metrics!Doing(r, p[1]) <=> todo[1] = p[1]
      BY <1>1, <2>2 DEF Metrics!Doing, todo
    <3>4. Metrics!Doing(r, p[2])' <=> todo[2] = p[2]
      BY <2>1, <2>2 DEF Metrics!Doing, new
    <3>5. QED
      BY <3>2, <3>3, <3>4
  <2>5. InTurn(Tail(todo))
    <3>1. \A i, j \in DOMAIN Tail(todo) : Tail(todo)[i] = Tail(todo)[j] => i = j
      <4> TAKE i, j \in DOMAIN Tail(todo)
      <4>1. i + 1 \in DOMAIN todo /\ j + 1 \in DOMAIN todo
        BY <2>2
      <4>2. QED
        BY <1>1, <2>2, <4>1
    <3>2. ASSUME NEW p \in Follows, NEW i \in DOMAIN Tail(todo)
          PROVE  /\ Tail(todo)[i] = p[1] => i + 1 \in DOMAIN Tail(todo) /\ Tail(todo)[i + 1] = p[2]
                 /\ i > 1 /\ Tail(todo)[i] = p[2] => Tail(todo)[i - 1] = p[1]
      <4>1. i \in Nat /\ i + 1 \in DOMAIN todo /\ Tail(todo)[i] = todo[i + 1]
        BY <2>2
      <4>2. ASSUME Tail(todo)[i] = p[1]
            PROVE  i + 1 \in DOMAIN Tail(todo) /\ Tail(todo)[i + 1] = p[2]
        <5>1. i + 1 + 1 \in DOMAIN todo /\ todo[i + 1 + 1] = p[2]
          BY <1>1, <4>1, <4>2
        <5>2. QED
          BY <2>2, <4>1, <5>1
      <4>3. ASSUME i > 1, Tail(todo)[i] = p[2] PROVE Tail(todo)[i - 1] = p[1]
        <5> DEFINE k == i + 1
        <5>1. k \in DOMAIN todo /\ k > 1 /\ todo[k] = p[2] /\ k - 1 = i
          BY <2>2, <4>1, <4>3
        <5> HIDE DEF k
        <5>2. todo[k - 1] = p[1]
          BY <1>1, <5>1
        <5>3. i - 1 \in DOMAIN Tail(todo) /\ Tail(todo)[i - 1] = todo[i - 1 + 1] /\ i - 1 + 1 = i
          BY <2>2, <4>1, <4>3
        <5>4. QED
          BY <5>1, <5>2, <5>3
      <4>4. QED
        BY <4>2, <4>3
    <3>3. QED
      BY <2>2, <3>1, <3>2 DEF InTurn
  <2>6. QED
    BY <1>2, <2>1, <2>3, <2>4, <2>5 DEF todo
<1>5. QED
  BY <1>3, <1>4

\* What a caller is doing it owes; and who owes the second step of two, and not
\* the first, is doing the second.
LEMMA WhatIsOwed ==
  ASSUME NEW r \in Caller, InTurn(reportTask[r].todo)
  PROVE  /\ \A x : Metrics!Doing(r, x) => Owes(r, x)
         /\ \A p \in Follows :
              /\ Owes(r, p[1]) => Owes(r, p[2])
              /\ Owes(r, p[2]) /\ ~Owes(r, p[1]) <=> Metrics!Doing(r, p[2])
<1> DEFINE todo == reportTask[r].todo
<1>1. /\ todo \in Seq(Steps) /\ todo # << >>
      /\ \A i, j \in DOMAIN todo : todo[i] = todo[j] => i = j
      /\ \A p \in Follows : \A i \in DOMAIN todo :
           /\ todo[i] = p[1] => i + 1 \in DOMAIN todo /\ todo[i + 1] = p[2]
           /\ i > 1 /\ todo[i] = p[2] => todo[i - 1] = p[1]
  BY DEF InTurn
<1>2. 1 \in DOMAIN todo /\ Head(todo) = todo[1] /\ \A i \in DOMAIN todo : i \in Nat /\ i > 0
      /\ (i > 1 => i - 1 \in DOMAIN todo)
  BY <1>1
<1> HIDE DEF todo
<1>3. \A x : /\ Owes(r, x) <=> \E i \in DOMAIN todo : todo[i] = x
             /\ Metrics!Doing(r, x) <=> todo[1] = x
  BY <1>1, <1>2 DEF Owes, Metrics!Doing, todo
<1>4. ASSUME NEW p \in Follows
      PROVE  /\ Owes(r, p[1]) => Owes(r, p[2])
             /\ Owes(r, p[2]) /\ ~Owes(r, p[1]) <=> Metrics!Doing(r, p[2])
  <2>1. ASSUME NEW i \in DOMAIN todo, todo[i] = p[1]
        PROVE  i + 1 \in DOMAIN todo /\ todo[i + 1] = p[2] /\ todo[1] # p[2]
    <3>1. i + 1 \in DOMAIN todo /\ todo[i + 1] = p[2]
      BY <1>1, <2>1
    <3>2. i + 1 # 1
      BY <1>2
    <3>3. QED
      BY <1>1, <1>2, <3>1, <3>2
  <2>2. ASSUME NEW i \in DOMAIN todo, todo[i] = p[2], i # 1
        PROVE  i - 1 \in DOMAIN todo /\ todo[i - 1] = p[1]
    <3>1. i > 1
      BY <1>2, <2>2
    <3>2. QED
      BY <1>1, <1>2, <2>2, <3>1
  <2>3. QED
    BY <1>2, <1>3, <2>1, <2>2
<1>5. QED
  BY <1>2, <1>3, <1>4
-----------------------------------------------------------------------------
\* A list of two lists
LEMMA FlattenTwo ==
  ASSUME NEW V, NEW a \in Seq(V), NEW b \in Seq(V)
  PROVE  FlattenSeq(<< a, b >>) = a \o b
<1> DEFINE Good == {<< 0, << >> >>, << 1, a >>, << 2, a \o b >>}
<1>1. << a, b >> \in Seq(Seq(V)) /\ Len(<< a, b >>) = 2
  OBVIOUS
<1>2. ASSUME NEW k \in 0 .. Len(<< a, b >>) - 1, NEW s \in Seq(V), << k, s >> \in Good
      PROVE  << k + 1, s \o << a, b >>[k + 1] >> \in Good
  <2>1. CASE k = 0
    <3>1. s = << >> /\ << >> \o a = a
      BY <1>2, <2>1
    <3>2. QED
      BY <2>1, <3>1
  <2>2. CASE k = 1
    <3>1. s = a
      BY <1>2, <2>2
    <3>2. QED
      BY <2>2, <3>1
  <2>3. k = 0 \/ k = 1
    <3>1. k \in 0 .. 1
      BY <1>1
    <3>2. QED
      BY <3>1
  <2>4. QED
    BY <2>1, <2>2, <2>3
<1>3. << 0, << >> >> \in Good
  OBVIOUS
<1> DEFINE seqs == << a, b >>
<1>4. << Len(seqs), FlattenSeq(seqs) >> \in Good
  <2>1. seqs \in Seq(Seq(V))
    BY <1>1
  <2>2. \A k \in 0 .. Len(seqs) - 1 : \A s \in Seq(V) :
          << k, s >> \in Good => << k + 1, s \o seqs[k + 1] >> \in Good
    BY <1>2
  <2> HIDE DEF Good, seqs
  <2>3. QED
    BY <1>3, <2>1, <2>2, FlattenInduction
<1>5. FlattenSeq(<< a, b >>) = a \o b
  <2>1. Len(seqs) = 2 /\ 2 # 0 /\ 2 # 1
    BY <1>1
  <2>2. << 2, FlattenSeq(seqs) >> \in Good
    BY <1>4, <2>1
  <2>3. \A f, g : << 2, f >> = << 2, g >> => f = g
    OBVIOUS
  <2>4. \A f : /\ << 2, f >> # << 0, << >> >>
               /\ << 2, f >> # << 1, a >>
    OBVIOUS
  <2>5. QED
    BY <2>2, <2>3, <2>4, Zenon
<1>6. QED
  BY <1>5

\* The pairs of steps, one by one
LEMMA FollowsAre ==
  ASSUME NEW p \in Follows
  PROVE  \/ p[1] = "count session" /\ p[2] = "add session"
         \/ p[1] = "uncount session" /\ p[2] = "remove session"
         \/ p[1] = "count stream" /\ p[2] = "credit session"
         \/ p[1] = "credit session" /\ p[2] = "add stream"
         \/ p[1] = "uncount stream" /\ p[2] = "complete stream"
<1>1. ASSUME NEW a, NEW b, p = << a, b >> PROVE p[1] = a /\ p[2] = b
  BY <1>1
<1>2. \/ p = << "count session", "add session" >> \/ p = << "uncount session", "remove session" >>
      \/ p = << "count stream", "credit session" >> \/ p = << "credit session", "add stream" >>
      \/ p = << "uncount stream", "complete stream" >>
  BY Zenon DEF Follows
<1>3. QED
  BY <1>1, <1>2, Zenon

\* What the steps of a call are
Fits(s, steps) == /\ InTurn(s) /\ \A p \in Follows : Head(s) # p[2]
                  /\ \A x : (\E i \in DOMAIN s : s[i] = x) <=> x \in steps

\* A collector that takes one step, two in a row or three in a row takes them in
\* turn.
LEMMA OneFits ==
  ASSUME NEW a, {a} \subseteq Steps,
         \A p \in Follows : a # p[2] /\ a # p[1]
  PROVE  Fits(<< a >>, {a})
<1> DEFINE s == << a >>
<1>1. s \in Seq(Steps) /\ s # << >> /\ Head(s) = a
  OBVIOUS
<1>2. DOMAIN s = 1 .. 1
  OBVIOUS
<1>3. s[1] = a
  OBVIOUS
<1> HIDE DEF s
<1>4. \A i : i \in DOMAIN s <=> i = 1
  BY <1>2
<1>5. \A i, j \in DOMAIN s : s[i] = s[j] => i = j
  BY <1>3, <1>4
<1>6. ASSUME NEW p \in Follows, NEW i \in DOMAIN s
      PROVE  /\ s[i] = p[1] => i + 1 \in DOMAIN s /\ s[i + 1] = p[2]
             /\ i > 1 /\ s[i] = p[2] => s[i - 1] = p[1]
  BY <1>3, <1>4
<1>7. InTurn(s)
  BY <1>1, <1>5, <1>6 DEF InTurn
<1>8. \A x : (\E i \in DOMAIN s : s[i] = x) <=> x \in {a}
  BY <1>3, <1>4
<1>9. \A p \in Follows : Head(s) # p[2]
  BY <1>1
<1>10. Fits(s, {a})
  BY <1>7, <1>8, <1>9 DEF Fits
<1>11. QED
  BY <1>10 DEF s

\* Two of them
LEMMA TwoFit ==
  ASSUME NEW a, NEW b, {a, b} \subseteq Steps, a # b,
         \A p \in Follows : a # p[2] /\ b # p[1] /\ (a = p[1] <=> b = p[2])
  PROVE  Fits(<< a, b >>, {a, b})
<1> DEFINE s == << a, b >>
<1>1. s \in Seq(Steps) /\ s # << >> /\ Head(s) = a
  OBVIOUS
<1>2. DOMAIN s = 1 .. 2
  OBVIOUS
<1>3. s[1] = a /\ s[2] = b
  OBVIOUS
<1> HIDE DEF s
<1>4. \A i : i \in DOMAIN s <=> i = 1 \/ i = 2
  BY <1>2
<1>5. \A i, j \in DOMAIN s : s[i] = s[j] => i = j
  BY <1>3, <1>4
<1>6. ASSUME NEW p \in Follows, NEW i \in DOMAIN s
      PROVE  /\ s[i] = p[1] => i + 1 \in DOMAIN s /\ s[i + 1] = p[2]
             /\ i > 1 /\ s[i] = p[2] => s[i - 1] = p[1]
  BY <1>3, <1>4
<1>7. InTurn(s)
  BY <1>1, <1>5, <1>6 DEF InTurn
<1>8. \A x : (\E i \in DOMAIN s : s[i] = x) <=> x \in {a, b}
  BY <1>3, <1>4
<1>9. \A p \in Follows : Head(s) # p[2]
  BY <1>1
<1>10. Fits(s, {a, b})
  BY <1>7, <1>8, <1>9 DEF Fits
<1>11. QED
  BY <1>10 DEF s

\* Three of them
LEMMA ThreeFit ==
  ASSUME NEW a, NEW b, NEW c, {a, b, c} \subseteq Steps, a # b, a # c, b # c,
         \A p \in Follows : a # p[2] /\ c # p[1] /\ (a = p[1] <=> b = p[2]) /\ (b = p[1] <=> c = p[2])
  PROVE  Fits(<< a, b, c >>, {a, b, c})
<1> DEFINE s == << a, b, c >>
<1>1. s \in Seq(Steps) /\ s # << >> /\ Head(s) = a
  OBVIOUS
<1>2. DOMAIN s = 1 .. 3
  OBVIOUS
<1>3. s[1] = a /\ s[2] = b /\ s[3] = c
  OBVIOUS
<1> HIDE DEF s
<1>4. \A i : i \in DOMAIN s <=> i = 1 \/ i = 2 \/ i = 3
  BY <1>2
<1>5. \A i, j \in DOMAIN s : s[i] = s[j] => i = j
  BY <1>3, <1>4
<1>6. ASSUME NEW p \in Follows, NEW i \in DOMAIN s
      PROVE  /\ s[i] = p[1] => i + 1 \in DOMAIN s /\ s[i + 1] = p[2]
             /\ i > 1 /\ s[i] = p[2] => s[i - 1] = p[1]
  BY <1>3, <1>4
<1>7. InTurn(s)
  BY <1>1, <1>5, <1>6 DEF InTurn
<1>8. \A x : (\E i \in DOMAIN s : s[i] = x) <=> x \in {a, b, c}
  BY <1>3, <1>4
<1>9. \A p \in Follows : Head(s) # p[2]
  BY <1>1
<1>10. Fits(s, {a, b, c})
  BY <1>7, <1>8, <1>9 DEF Fits
<1>11. QED
  BY <1>10 DEF s

\* Steps of two collectors, one after the other
LEMMA FitsJoin ==
  ASSUME NEW a, NEW b, NEW A, NEW B, Fits(a, A), Fits(b, B), A \cap B = {}
  PROVE  Fits(a \o b, A \cup B)
<1> DEFINE s == a \o b
           n == Len(a)
           m == Len(b)
<1>1. /\ a \in Seq(Steps) /\ a # << >> /\ b \in Seq(Steps) /\ b # << >>
      /\ \A i, j \in DOMAIN a : a[i] = a[j] => i = j
      /\ \A i, j \in DOMAIN b : b[i] = b[j] => i = j
      /\ \A x : (\E i \in DOMAIN a : a[i] = x) <=> x \in A
      /\ \A x : (\E i \in DOMAIN b : b[i] = x) <=> x \in B
  BY DEF Fits, InTurn
<1>2. ASSUME NEW p \in Follows
      PROVE  /\ \A i \in DOMAIN a : /\ a[i] = p[1] => i + 1 \in DOMAIN a /\ a[i + 1] = p[2]
                                    /\ i > 1 /\ a[i] = p[2] => a[i - 1] = p[1]
             /\ \A i \in DOMAIN b : /\ b[i] = p[1] => i + 1 \in DOMAIN b /\ b[i + 1] = p[2]
                                    /\ i > 1 /\ b[i] = p[2] => b[i - 1] = p[1]
             /\ Head(a) # p[2] /\ Head(b) # p[2]
  BY DEF Fits, InTurn
<1>3. /\ n \in Nat /\ n > 0 /\ m \in Nat /\ m > 0
      /\ DOMAIN a = 1 .. n /\ DOMAIN b = 1 .. m /\ Head(a) = a[1] /\ Head(b) = b[1]
  BY <1>1
<1>4. /\ s \in Seq(Steps) /\ Len(s) = n + m
      /\ \A i \in 1 .. n : s[i] = a[i]
      /\ \A i \in 1 .. m : s[n + i] = b[i]
  BY <1>1
<1>5. DOMAIN s = 1 .. n + m
  BY <1>4
<1> HIDE DEF s, n, m
<1>6. \A i \in DOMAIN s : \/ i \in 1 .. n /\ s[i] = a[i]
                          \/ i - n \in 1 .. m /\ s[i] = b[i - n]
  <2> SUFFICES ASSUME NEW i \in DOMAIN s, i \notin 1 .. n PROVE i - n \in 1 .. m /\ s[i] = b[i - n]
    BY <1>4
  <2>1. i - n \in 1 .. m /\ n + (i - n) = i
    BY <1>3, <1>5
  <2>2. QED
    BY <1>4, <2>1
<1>7. s # << >> /\ Head(s) = a[1]
  <2>1. Len(s) # 0 /\ 1 \in 1 .. n
    BY <1>3, <1>4
  <2>2. QED
    BY <1>4, <2>1
<1>8. \A x : (\E i \in DOMAIN s : s[i] = x) <=> x \in A \cup B
  <2> TAKE x
  <2>1. ASSUME NEW i \in DOMAIN s, s[i] = x PROVE x \in A \cup B
    BY <1>1, <1>3, <1>6, <2>1
  <2>2. ASSUME x \in A PROVE \E i \in DOMAIN s : s[i] = x
    <3>1. PICK i \in DOMAIN a : a[i] = x
      BY <1>1, <2>2
    <3>2. i \in DOMAIN s /\ s[i] = x
      BY <1>3, <1>4, <1>5, <3>1
    <3>3. QED
      BY <3>2
  <2>3. ASSUME x \in B PROVE \E i \in DOMAIN s : s[i] = x
    <3>1. PICK i \in DOMAIN b : b[i] = x
      BY <1>1, <2>3
    <3>2. n + i \in DOMAIN s /\ s[n + i] = x
      BY <1>3, <1>4, <1>5, <3>1
    <3>3. QED
      BY <3>2
  <2>4. QED
    BY <2>1, <2>2, <2>3
<1>9. \A i, j \in DOMAIN s : s[i] = s[j] => i = j
  <2> SUFFICES ASSUME NEW i \in DOMAIN s, NEW j \in DOMAIN s, s[i] = s[j] PROVE i = j
    OBVIOUS
  <2>1. CASE i \in 1 .. n /\ j \in 1 .. n
    BY <1>1, <1>3, <1>4, <2>1
  <2>2. CASE i \notin 1 .. n /\ j \notin 1 .. n
    <3>1. i - n \in DOMAIN b /\ j - n \in DOMAIN b /\ b[i - n] = b[j - n]
      BY <1>3, <1>6, <2>2
    <3>2. i - n = j - n
      BY <1>1, <3>1
    <3>3. QED
      BY <1>3, <1>5, <3>2
  <2>3. CASE i \in 1 .. n /\ j \notin 1 .. n
    <3>1. s[i] \in A /\ s[j] \in B
      BY <1>1, <1>3, <1>4, <1>6, <2>3
    <3>2. QED
      BY <3>1
  <2>4. CASE i \notin 1 .. n /\ j \in 1 .. n
    <3>1. s[j] \in A /\ s[i] \in B
      BY <1>1, <1>3, <1>4, <1>6, <2>4
    <3>2. QED
      BY <3>1
  <2>5. QED
    BY <2>1, <2>2, <2>3, <2>4
<1>10. ASSUME NEW p \in Follows, NEW i \in DOMAIN s
       PROVE  /\ s[i] = p[1] => i + 1 \in DOMAIN s /\ s[i + 1] = p[2]
              /\ i > 1 /\ s[i] = p[2] => s[i - 1] = p[1]
  <2>1. CASE i \in 1 .. n
    <3>1. i \in DOMAIN a /\ s[i] = a[i]
      BY <1>3, <1>4, <2>1
    <3>2. ASSUME s[i] = p[1] PROVE i + 1 \in DOMAIN s /\ s[i + 1] = p[2]
      <4>1. i + 1 \in DOMAIN a /\ a[i + 1] = p[2]
        BY <1>2, <3>1, <3>2
      <4>2. QED
        BY <1>3, <1>4, <1>5, <4>1
    <3>3. ASSUME i > 1, s[i] = p[2] PROVE s[i - 1] = p[1]
      <4>1. \A h \in DOMAIN a : h > 1 /\ a[h] = p[2] => a[h - 1] = p[1]
        BY <1>2, Zenon
      <4>2. a[i - 1] = p[1]
        BY <3>1, <3>3, <4>1
      <4>3. i - 1 \in 1 .. n
        BY <1>3, <2>1, <3>3
      <4>4. QED
        BY <1>4, <4>2, <4>3
    <3>4. QED
      BY <3>2, <3>3
  <2>2. CASE i \notin 1 .. n
    <3> DEFINE k == i - n
    <3>1. k \in DOMAIN b /\ s[i] = b[k] /\ i = n + k /\ k \in Nat /\ k > 0
      BY <1>3, <1>5, <1>6, <2>2
    <3> HIDE DEF k
    <3>2. ASSUME s[i] = p[1] PROVE i + 1 \in DOMAIN s /\ s[i + 1] = p[2]
      <4>1. k + 1 \in DOMAIN b /\ b[k + 1] = p[2]
        BY <1>2, <3>1, <3>2
      <4>2. k + 1 \in 1 .. m /\ n + (k + 1) = i + 1
        BY <1>3, <3>1, <4>1
      <4>3. QED
        BY <1>3, <1>4, <1>5, <4>1, <4>2
    <3>3. ASSUME i > 1, s[i] = p[2] PROVE s[i - 1] = p[1]
      <4>1. k # 1
        <5>1. b[1] # p[2]
          BY <1>2, <1>3
        <5>2. QED
          BY <3>1, <3>3, <5>1
      <4>2. b[k - 1] = p[1]
        <5>1. k > 1 /\ b[k] = p[2]
          BY <3>1, <3>3, <4>1
        <5>2. \A h \in DOMAIN b : h > 1 /\ b[h] = p[2] => b[h - 1] = p[1]
          BY <1>2, Zenon
        <5>3. QED
          BY <3>1, <5>1, <5>2
      <4>3. k - 1 \in 1 .. m /\ n + (k - 1) = i - 1
        BY <1>3, <3>1, <4>1
      <4>4. QED
        BY <1>4, <4>2, <4>3
    <3>4. QED
      BY <3>2, <3>3
  <2>3. QED
    BY <2>1, <2>2
<1>11. InTurn(s)
  BY <1>4, <1>7, <1>9, <1>10 DEF InTurn
<1>12. \A p \in Follows : Head(s) # p[2]
  BY <1>2, <1>3, <1>7
<1>13. Fits(s, A \cup B)
  BY <1>8, <1>11, <1>12 DEF Fits
<1>14. QED
  BY <1>13 DEF s

\* The steps of each collector in a call
BothFit(name, a, b) ==
  /\ Fits(Metrics!Memory[name], a) /\ Fits(Metrics!Prometheus[name], b)
  /\ StepsOf[name] = a \cup b /\ a \cap b = {}

\* What both collectors do for each call, in either order of the two
LEMMA SessionCreatedFits ==
  BothFit("session_created", {"count session", "add session", "push"},
          {"pjs_sessions_created_total", "pjs_active_sessions"})
<1>1. Fits(<< "count session", "add session", "push" >>, {"count session", "add session", "push"})
  <2>1. {"count session", "add session", "push"} \subseteq Steps
    BY DEF Steps
  <2>2. \A p \in Follows : "count session" # p[2] /\ "push" # p[1] /\
                          ("count session" = p[1] <=> "add session" = p[2]) /\
                          ("add session" = p[1] <=> "push" = p[2])
    BY FollowsAre
  <2>3. QED
    BY <2>1, <2>2, ThreeFit
<1>2. Fits(<< "pjs_sessions_created_total", "pjs_active_sessions" >>, {"pjs_sessions_created_total", "pjs_active_sessions"})
  <2>1. {"pjs_sessions_created_total", "pjs_active_sessions"} \subseteq Steps
    BY DEF Steps
  <2>2. \A p \in Follows : "pjs_sessions_created_total" # p[2] /\ "pjs_active_sessions" # p[1] /\
                          ("pjs_sessions_created_total" = p[1] <=> "pjs_active_sessions" = p[2])
    BY FollowsAre
  <2>3. QED
    BY <2>1, <2>2, TwoFit
<1>3. StepsOf["session_created"] = {"count session", "add session", "push"} \cup
      {"pjs_sessions_created_total", "pjs_active_sessions"}
  BY DEF StepsOf
<1>4. {"count session", "add session", "push"} \cap {"pjs_sessions_created_total", "pjs_active_sessions"} = {}
  OBVIOUS
<1>5. Metrics!Memory["session_created"] = << "count session", "add session", "push" >>
      /\ Metrics!Prometheus["session_created"] = << "pjs_sessions_created_total", "pjs_active_sessions" >>
  BY DEF Metrics!Memory, Metrics!Prometheus
<1>6. QED
  BY <1>1, <1>2, <1>3, <1>4, <1>5, Zenon DEF BothFit

\* session_ended
LEMMA SessionEndedFits ==
  BothFit("session_ended", {"uncount session", "remove session", "push"},
          {"pjs_active_sessions"})
<1>1. Fits(<< "uncount session", "remove session", "push" >>, {"uncount session", "remove session", "push"})
  <2>1. {"uncount session", "remove session", "push"} \subseteq Steps
    BY DEF Steps
  <2>2. \A p \in Follows : "uncount session" # p[2] /\ "push" # p[1] /\
                          ("uncount session" = p[1] <=> "remove session" = p[2]) /\
                          ("remove session" = p[1] <=> "push" = p[2])
    BY FollowsAre
  <2>3. QED
    BY <2>1, <2>2, ThreeFit
<1>2. Fits(<< "pjs_active_sessions" >>, {"pjs_active_sessions"})
  <2>1. {"pjs_active_sessions"} \subseteq Steps
    BY DEF Steps
  <2>2. \A p \in Follows : "pjs_active_sessions" # p[2] /\ "pjs_active_sessions" # p[1]
    BY FollowsAre
  <2>3. QED
    BY <2>1, <2>2, OneFits
<1>3. StepsOf["session_ended"] = {"uncount session", "remove session", "push"} \cup
      {"pjs_active_sessions"}
  BY DEF StepsOf
<1>4. {"uncount session", "remove session", "push"} \cap {"pjs_active_sessions"} = {}
  OBVIOUS
<1>5. Metrics!Memory["session_ended"] = << "uncount session", "remove session", "push" >>
      /\ Metrics!Prometheus["session_ended"] = << "pjs_active_sessions" >>
  BY DEF Metrics!Memory, Metrics!Prometheus
<1>6. QED
  BY <1>1, <1>2, <1>3, <1>4, <1>5, Zenon DEF BothFit

\* stream_created
LEMMA StreamCreatedFits ==
  BothFit("stream_created", {"count stream", "credit session", "add stream"},
          {"pjs_streams_created_total", "pjs_active_streams"})
<1>1. Fits(<< "count stream", "credit session", "add stream" >>, {"count stream", "credit session", "add stream"})
  <2>1. {"count stream", "credit session", "add stream"} \subseteq Steps
    BY DEF Steps
  <2>2. \A p \in Follows : "count stream" # p[2] /\ "add stream" # p[1] /\
                          ("count stream" = p[1] <=> "credit session" = p[2]) /\
                          ("credit session" = p[1] <=> "add stream" = p[2])
    BY FollowsAre
  <2>3. QED
    BY <2>1, <2>2, ThreeFit
<1>2. Fits(<< "pjs_streams_created_total", "pjs_active_streams" >>, {"pjs_streams_created_total", "pjs_active_streams"})
  <2>1. {"pjs_streams_created_total", "pjs_active_streams"} \subseteq Steps
    BY DEF Steps
  <2>2. \A p \in Follows : "pjs_streams_created_total" # p[2] /\ "pjs_active_streams" # p[1] /\
                          ("pjs_streams_created_total" = p[1] <=> "pjs_active_streams" = p[2])
    BY FollowsAre
  <2>3. QED
    BY <2>1, <2>2, TwoFit
<1>3. StepsOf["stream_created"] = {"count stream", "credit session", "add stream"} \cup
      {"pjs_streams_created_total", "pjs_active_streams"}
  BY DEF StepsOf
<1>4. {"count stream", "credit session", "add stream"} \cap {"pjs_streams_created_total", "pjs_active_streams"} = {}
  OBVIOUS
<1>5. Metrics!Memory["stream_created"] = << "count stream", "credit session", "add stream" >>
      /\ Metrics!Prometheus["stream_created"] = << "pjs_streams_created_total", "pjs_active_streams" >>
  BY DEF Metrics!Memory, Metrics!Prometheus
<1>6. QED
  BY <1>1, <1>2, <1>3, <1>4, <1>5, Zenon DEF BothFit

\* stream_completed
LEMMA StreamCompletedFits ==
  BothFit("stream_completed", {"uncount stream", "complete stream"},
          {"pjs_active_streams"})
<1>1. Fits(<< "uncount stream", "complete stream" >>, {"uncount stream", "complete stream"})
  <2>1. {"uncount stream", "complete stream"} \subseteq Steps
    BY DEF Steps
  <2>2. \A p \in Follows : "uncount stream" # p[2] /\ "complete stream" # p[1] /\
                          ("uncount stream" = p[1] <=> "complete stream" = p[2])
    BY FollowsAre
  <2>3. QED
    BY <2>1, <2>2, TwoFit
<1>2. Fits(<< "pjs_active_streams" >>, {"pjs_active_streams"})
  <2>1. {"pjs_active_streams"} \subseteq Steps
    BY DEF Steps
  <2>2. \A p \in Follows : "pjs_active_streams" # p[2] /\ "pjs_active_streams" # p[1]
    BY FollowsAre
  <2>3. QED
    BY <2>1, <2>2, OneFits
<1>3. StepsOf["stream_completed"] = {"uncount stream", "complete stream"} \cup
      {"pjs_active_streams"}
  BY DEF StepsOf
<1>4. {"uncount stream", "complete stream"} \cap {"pjs_active_streams"} = {}
  OBVIOUS
<1>5. Metrics!Memory["stream_completed"] = << "uncount stream", "complete stream" >>
      /\ Metrics!Prometheus["stream_completed"] = << "pjs_active_streams" >>
  BY DEF Metrics!Memory, Metrics!Prometheus
<1>6. QED
  BY <1>1, <1>2, <1>3, <1>4, <1>5, Zenon DEF BothFit

\* The time of a frame
LEMMA TimingFits ==
  BothFit("timing", {"average"},
          {"frame_processing"})
<1>1. Fits(<< "average" >>, {"average"})
  <2>1. {"average"} \subseteq Steps
    BY DEF Steps
  <2>2. \A p \in Follows : "average" # p[2] /\ "average" # p[1]
    BY FollowsAre
  <2>3. QED
    BY <2>1, <2>2, OneFits
<1>2. Fits(<< "frame_processing" >>, {"frame_processing"})
  <2>1. {"frame_processing"} \subseteq Steps
    BY DEF Steps
  <2>2. \A p \in Follows : "frame_processing" # p[2] /\ "frame_processing" # p[1]
    BY FollowsAre
  <2>3. QED
    BY <2>1, <2>2, OneFits
<1>3. StepsOf["timing"] = {"average"} \cup
      {"frame_processing"}
  BY DEF StepsOf
<1>4. {"average"} \cap {"frame_processing"} = {}
  OBVIOUS
<1>5. Metrics!Memory["timing"] = << "average" >>
      /\ Metrics!Prometheus["timing"] = << "frame_processing" >>
  BY DEF Metrics!Memory, Metrics!Prometheus
<1>6. QED
  BY <1>1, <1>2, <1>3, <1>4, <1>5, Zenon DEF BothFit

\* The count of frames
LEMMA FramesFits ==
  BothFit("frames", {"count frames"},
          {"frames_processed"})
<1>1. Fits(<< "count frames" >>, {"count frames"})
  <2>1. {"count frames"} \subseteq Steps
    BY DEF Steps
  <2>2. \A p \in Follows : "count frames" # p[2] /\ "count frames" # p[1]
    BY FollowsAre
  <2>3. QED
    BY <2>1, <2>2, OneFits
<1>2. Fits(<< "frames_processed" >>, {"frames_processed"})
  <2>1. {"frames_processed"} \subseteq Steps
    BY DEF Steps
  <2>2. \A p \in Follows : "frames_processed" # p[2] /\ "frames_processed" # p[1]
    BY FollowsAre
  <2>3. QED
    BY <2>1, <2>2, OneFits
<1>3. StepsOf["frames"] = {"count frames"} \cup
      {"frames_processed"}
  BY DEF StepsOf
<1>4. {"count frames"} \cap {"frames_processed"} = {}
  OBVIOUS
<1>5. Metrics!Memory["frames"] = << "count frames" >>
      /\ Metrics!Prometheus["frames"] = << "frames_processed" >>
  BY DEF Metrics!Memory, Metrics!Prometheus
<1>6. QED
  BY <1>1, <1>2, <1>3, <1>4, <1>5, Zenon DEF BothFit

\* The steps of a call, in either order of the collectors
LEMMA StepsFit ==
  ASSUME setting \in Settings, NEW name \in EntityCalls \cup {"timing", "frames"}
  PROVE  Fits(Metrics!Steps(name), StepsOf[name])
<1> DEFINE M == Metrics!Memory[name]
           P == Metrics!Prometheus[name]
<1>1. \/ Metrics!Steps(name) = FlattenSeq(<< M, P >>)
      \/ Metrics!Steps(name) = FlattenSeq(<< P, M >>)
  <2> DEFINE Of(c) == IF c = "memory" THEN M ELSE P
             L(s) == [i \in DOMAIN s |-> Of(s[i])]
  <2>1. Metrics!Steps(name) = FlattenSeq(L(setting.collectors))
    BY Zenon DEF Metrics!Steps, Metrics!FlattenSeq, FlattenSeq
  <2>2. Of("memory") = M /\ Of("prometheus") = P
    OBVIOUS
  <2>3. \A a, b : L(<< a, b >>) = << Of(a), Of(b) >>
    <3> HIDE DEF Of
    <3> QED
      OBVIOUS
  <2>4. setting.collectors = << "memory", "prometheus" >> \/ setting.collectors = << "prometheus", "memory" >>
    BY Zenon, MetricsAssumption
  <2>5. ASSUME NEW s, NEW a, NEW b, s = << a, b >> PROVE L(s) = << Of(a), Of(b) >>
    <3> HIDE DEF L, Of
    <3> QED
      BY <2>3, <2>5
  <2> HIDE DEF Of, L, M, P
  <2>6. L(setting.collectors) = << M, P >> \/ L(setting.collectors) = << P, M >>
    BY <2>2, <2>4, <2>5, Zenon
  <2>7. QED
    BY <2>1, <2>6, Zenon
<1>2. PICK a, b : BothFit(name, a, b)
  <2>1. \/ name = "session_created" \/ name = "session_ended" \/ name = "stream_created"
        \/ name = "stream_completed" \/ name = "timing" \/ name = "frames"
    BY DEF EntityCalls
  <2>2. name = "session_created" => \E a, b : BothFit(name, a, b)
    BY SessionCreatedFits, Zenon
  <2>3. name = "session_ended" => \E a, b : BothFit(name, a, b)
    BY SessionEndedFits, Zenon
  <2>4. name = "stream_created" => \E a, b : BothFit(name, a, b)
    BY StreamCreatedFits, Zenon
  <2>5. name = "stream_completed" => \E a, b : BothFit(name, a, b)
    BY StreamCompletedFits, Zenon
  <2>6. name = "timing" => \E a, b : BothFit(name, a, b)
    BY TimingFits, Zenon
  <2>7. name = "frames" => \E a, b : BothFit(name, a, b)
    BY FramesFits, Zenon
  <2>8. QED
    BY <2>1, <2>2, <2>3, <2>4, <2>5, <2>6, <2>7, Zenon
<1>3. Fits(M, a) /\ Fits(P, b) /\ StepsOf[name] = a \cup b /\ a \cap b = {}
  BY <1>2, Zenon DEF BothFit
<1> HIDE DEF M, P
<1>4. Fits(M \o P, StepsOf[name])
  BY <1>3, FitsJoin
<1>5. Fits(P \o M, StepsOf[name])
  <2>1. b \cap a = {} /\ b \cup a = a \cup b
    BY <1>3
  <2>2. Fits(P \o M, b \cup a)
    BY <1>3, <2>1, FitsJoin
  <2>3. QED
    BY <1>3, <2>1, <2>2, Zenon
<1>6. M \in Seq(Steps) /\ P \in Seq(Steps)
  BY <1>3 DEF Fits, InTurn
<1>7. FlattenSeq(<< M, P >>) = M \o P /\ FlattenSeq(<< P, M >>) = P \o M
  BY <1>6, FlattenTwo
<1>8. QED
  BY <1>1, <1>4, <1>5, <1>7, Zenon

-----------------------------------------------------------------------------
(* A step of a call: what it does to what is owed *)

Moved(r) ==
  /\ reportTask' = [q \in Caller |-> reportTask'[q]]
  /\ \A q \in Caller \ {r} : reportTask'[q] = reportTask[q]
  /\ \A x : Owes(r, x)' <=> Owes(r, x) /\ x # Head(reportTask[r].todo)
  /\ \A p \in Follows : Metrics!Doing(r, p[2])' <=> Metrics!Doing(r, p[1])
  /\ \A x : Metrics!Doing(r, x) => Owes(r, x)
  /\ reportTask[r] # Metrics!Idle
  /\ reportTask'[r] # Metrics!Idle =>
       /\ reportTask'[r].call = reportTask[r].call
       /\ reportTask'[r].id = reportTask[r].id
       /\ reportTask'[r].of = reportTask[r].of

\* What a call under way is, and that it has its next step still to take
LEMMA WhatATaskIs ==
  ASSUME TasksIInv, NEW r \in Caller, reportTask[r] # Metrics!Idle
  PROVE  LET t == reportTask[r]
         IN  /\ t = [todo |-> t.todo, call |-> t.call, id |-> t.id, labels |-> t.labels, of |-> t.of]
             /\ InTurn(t.todo) /\ IsAbout(t)
             /\ \A i \in DOMAIN t.todo : t.todo[i] \in StepsOf[t.call]
             /\ Head(t.todo) = t.todo[1] /\ 1 \in DOMAIN t.todo /\ t.todo # << >>
             /\ Head(t.todo) \in StepsOf[t.call]
             /\ Owes(r, Head(t.todo))
<1> DEFINE t == reportTask[r]
<1>1. /\ t = [todo |-> t.todo, call |-> t.call, id |-> t.id, labels |-> t.labels, of |-> t.of]
      /\ InTurn(t.todo) /\ IsAbout(t)
      /\ \A i \in DOMAIN t.todo : t.todo[i] \in StepsOf[t.call]
  <2>1. TaskFits(t)
    BY DEF TasksIInv
  <2>2. QED
    BY <2>1 DEF TaskFits
<1> DEFINE todo == t.todo
<1>2. todo \in Seq(Steps) /\ todo # << >>
  BY <1>1 DEF InTurn
<1> HIDE DEF todo
<1>3. Head(todo) = todo[1] /\ 1 \in DOMAIN todo
  BY <1>2
<1>4. QED
  BY <1>1, <1>2, <1>3 DEF todo, Owes

\* A task whose first step is gone
LEMMA TaskMoved ==
  ASSUME TasksIInv, NEW r \in Caller, reportTask[r] # Metrics!Idle, Metrics!Done(r)
  PROVE  /\ Moved(r)
         /\ reportTask'[r] # Metrics!Idle =>
              /\ reportTask'[r].labels = reportTask[r].labels
              /\ reportTask'[r].todo = Tail(reportTask[r].todo)
              /\ reportTask'[r] = [todo |-> reportTask'[r].todo, call |-> reportTask'[r].call,
                                   id |-> reportTask'[r].id, labels |-> reportTask'[r].labels,
                                   of |-> reportTask'[r].of]
              /\ InTurn(reportTask'[r].todo)
              /\ \A i \in DOMAIN reportTask'[r].todo :
                   reportTask'[r].todo[i] \in StepsOf[reportTask'[r].call]
<1> DEFINE todo == reportTask[r].todo
<1>1. InTurn(todo)
  BY WhatATaskIs
<1>2. reportTask = [q \in Caller |-> reportTask[q]]
  BY DEF TasksIInv
<1>3. /\ \A x : Owes(r, x)' <=> Owes(r, x) /\ x # Head(todo)
      /\ \A p \in Follows : Metrics!Doing(r, p[2])' <=> Metrics!Doing(r, p[1])
      /\ reportTask'[r] # Metrics!Idle =>
           /\ reportTask'[r] = [reportTask[r] EXCEPT !.todo = Tail(@)]
           /\ InTurn(Tail(todo))
      /\ \A q \in Caller \ {r} : reportTask'[q] = reportTask[q]
      /\ reportTask' = [q \in Caller |-> reportTask'[q]]
  BY <1>1, <1>2, TaskMoves, Zenon
<1>4. \A x : Metrics!Doing(r, x) => Owes(r, x)
  BY <1>1, WhatIsOwed, Zenon
<1>5. ASSUME reportTask'[r] # Metrics!Idle
      PROVE  LET u == reportTask'[r] IN
              /\ u.labels = reportTask[r].labels /\ u.call = reportTask[r].call
              /\ u.id = reportTask[r].id /\ u.of = reportTask[r].of
              /\ u.todo = Tail(todo)
              /\ u = [todo |-> u.todo, call |-> u.call, id |-> u.id, labels |-> u.labels, of |-> u.of]
              /\ InTurn(u.todo)
              /\ \A i \in DOMAIN u.todo : u.todo[i] \in StepsOf[u.call]
  <2> DEFINE t == reportTask[r]
             u == reportTask'[r]
  <2>1. /\ t = [todo |-> t.todo, call |-> t.call, id |-> t.id, labels |-> t.labels, of |-> t.of]
        /\ \A i \in DOMAIN t.todo : t.todo[i] \in StepsOf[t.call]
    BY WhatATaskIs
  <2>2. u = [t EXCEPT !.todo = Tail(@)] /\ InTurn(Tail(todo))
    BY <1>3, <1>5
  <2> HIDE DEF t, u
  <2>3. /\ u = [todo |-> Tail(t.todo), call |-> t.call, id |-> t.id, labels |-> t.labels, of |-> t.of]
    BY <2>1, <2>2
  <2>4. \A i \in DOMAIN u.todo : u.todo[i] \in StepsOf[u.call]
    <3> DEFINE s == t.todo
               rest == Tail(s)
    <3>1. s \in Seq(Steps) /\ s # << >>
      BY <1>1 DEF InTurn, t
    <3>2. u.todo = rest /\ u.call = t.call
      BY <2>3
    <3> HIDE DEF s
    <3>3. \A i \in DOMAIN rest : i + 1 \in DOMAIN s /\ rest[i] = s[i + 1]
      BY <3>1
    <3>4. \A i \in DOMAIN s : s[i] \in StepsOf[t.call]
      BY <2>1 DEF s
    <3> HIDE DEF rest
    <3>5. QED
      BY <3>2, <3>3, <3>4
  <2>5. InTurn(u.todo)
    BY <2>2, <2>3 DEF t
  <2>6. QED
    BY <2>3, <2>4, <2>5 DEF t, u
<1>6. Moved(r)
  BY <1>3, <1>4, <1>5 DEF Moved
<1>7. QED
  BY <1>5, <1>6

\* A step of a call leaves the others as they are, and the call fitting.
LEMMA TasksMove ==
  ASSUME TasksIInv, NEW r \in Caller, reportTask[r] # Metrics!Idle, Metrics!Done(r),
         UNCHANGED << setting, sessionsBegun, sessionsEnded, timings >>,
         \A name \in DOMAIN vectors' :
           /\ vectors'[name] = [labels |-> vectors'[name].labels, values |-> vectors'[name].values]
           /\ name \in {"frame_processing", "frames_processed"} => vectors'[name].labels = 0
  PROVE  TasksIInv' /\ Moved(r)
<1>1. Moved(r)
  BY TaskMoved
<1>2. setting' \in Settings
  BY DEF TasksIInv
<1>3. ASSUME NEW q \in Caller PROVE TaskFits(reportTask[q])'
  <2>1. CASE q = r /\ reportTask'[r] # Metrics!Idle
    <3>1. PICK t : t = reportTask[r]
      OBVIOUS
    <3>2. PICK u : u = reportTask'[r]
      OBVIOUS
    <3>3. u.call = t.call /\ u.id = t.id /\ u.of = t.of /\ u.labels = t.labels
          /\ u = [todo |-> u.todo, call |-> u.call, id |-> u.id, labels |-> u.labels, of |-> u.of]
          /\ InTurn(u.todo)
          /\ \A i \in DOMAIN u.todo : u.todo[i] \in StepsOf[u.call]
      BY <2>1, <3>1, <3>2, TaskMoved DEF Moved
    <3>4. IsAbout(t)
      BY <3>1, WhatATaskIs
    <3>5. IsAbout(u)'
      BY <3>3, <3>4 DEF IsAbout, NoMetadata
    <3>6. TaskFits(u)'
      BY <3>3, <3>5 DEF TaskFits
    <3>7. QED
      BY <2>1, <3>2, <3>6
  <2>2. CASE q = r /\ reportTask'[r] = Metrics!Idle
    BY <2>2 DEF TaskFits, Metrics!Idle
  <2>3. CASE q # r
    <3>1. PICK t : t = reportTask[q]
      OBVIOUS
    <3>2. reportTask'[q] = t /\ TaskFits(t)
      BY <1>1, <2>3, <3>1 DEF Moved, TasksIInv
    <3>3. IsAbout(t) <=> IsAbout(t)'
      BY DEF IsAbout, NoMetadata
    <3>4. TaskFits(t)'
      BY <3>2, <3>3 DEF TaskFits, Metrics!Idle
    <3>5. QED
      BY <3>2, <3>4
  <2>4. QED
    BY <2>1, <2>2, <2>3
<1>4. \A q \in Caller : CallIs(q, EntityCalls)' =>
        CallIs(q, EntityCalls) /\ reportTask'[q].id = reportTask[q].id
  BY <1>1 DEF Moved, CallIs, Metrics!Idle
<1>5. QED
  BY <1>1, <1>2, <1>3, <1>4 DEF TasksIInv, Moved

\* A new call
Begun(r, name, id, of) ==
  /\ reportTask' = [q \in Caller |-> reportTask'[q]]
  /\ \A q \in Caller \ {r} : reportTask'[q] = reportTask[q]
  /\ reportTask[r] = Metrics!Idle /\ reportTask'[r] # Metrics!Idle
  /\ reportTask'[r].call = name /\ reportTask'[r].id = id /\ reportTask'[r].of = of
  /\ \A x : Owes(r, x)' <=> x \in StepsOf[name]
  /\ \A p \in Follows : ~Metrics!Doing(r, p[2]) /\ ~Metrics!Doing(r, p[2])'

\* A call that begins is about an identifier nobody else's call is about, and has
\* the steps of both collectors before it, in turn.
LEMMA TasksBegin ==
  ASSUME TasksIInv, NEW r \in Caller, NEW name \in EntityCalls \cup {"timing", "frames"},
         NEW id, NEW labels, NEW of, Metrics!Begin(r, name, id, labels, of),
         \A t : t.call = name /\ t.id = id /\ t.labels = labels /\ t.of = of => IsAbout(t)',
         sessionsBegun \subseteq sessionsBegun', timings \subseteq timings',
         sessionsEnded' \subseteq sessionsBegun', sessionsBegun' \subseteq SessionId \cup StreamId,
         sessionsEnded \subseteq sessionsEnded',
         \/ /\ name \in EntityCalls /\ sessionsEnded' \subseteq sessionsEnded \cup {id}
            /\ \A q \in Caller : CallIs(q, EntityCalls) => reportTask[q].id # id
         \/ name \notin EntityCalls /\ sessionsEnded' = sessionsEnded
  PROVE  TasksIInv' /\ Begun(r, name, id, of)
<1>1. PICK steps : steps = Metrics!Steps(name)
  OBVIOUS
<1>2. Fits(steps, StepsOf[name])
  <2>1. setting \in Settings
    BY DEF TasksIInv
  <2>2. QED
    BY <1>1, <2>1, StepsFit
<1>3. PICK t : t = [todo |-> steps, call |-> name, id |-> id, labels |-> labels, of |-> of]
  OBVIOUS
<1>4. /\ reportTask[r] = Metrics!Idle /\ reportTask'[r] = t
      /\ reportTask' = [q \in Caller |-> reportTask'[q]]
      /\ \A q \in Caller \ {r} : reportTask'[q] = reportTask[q]
      /\ setting' = setting /\ vectors' = vectors
  BY <1>1, <1>3 DEF Metrics!Begin, TasksIInv
<1>5. /\ t.todo = steps /\ t.call = name /\ t.id = id /\ t.labels = labels /\ t.of = of
      /\ t # Metrics!Idle
  BY <1>3 DEF Metrics!Idle
<1>6. /\ InTurn(steps) /\ \A p \in Follows : Head(steps) # p[2]
      /\ \A x : (\E i \in DOMAIN steps : steps[i] = x) <=> x \in StepsOf[name]
  BY <1>2 DEF Fits
<1>7. TaskFits(t)'
  <2>1. IsAbout(t)'
    BY <1>5
  <2>2. t = [todo |-> t.todo, call |-> t.call, id |-> t.id, labels |-> t.labels, of |-> t.of]
    BY <1>3
  <2>3. \A i \in DOMAIN t.todo : t.todo[i] \in StepsOf[t.call]
    BY <1>5, <1>6
  <2>4. InTurn(t.todo)
    BY <1>5, <1>6
  <2>5. QED
    BY <2>1, <2>2, <2>3, <2>4 DEF TaskFits
<1>8. ASSUME NEW q \in Caller \ {r} PROVE TaskFits(reportTask[q])'
  <2>1. PICK u : u = reportTask[q]
    OBVIOUS
  <2>2. reportTask'[q] = u /\ TaskFits(u)
    BY <1>4, <2>1 DEF TasksIInv
  <2>3. CASE u = Metrics!Idle
    BY <2>2, <2>3 DEF TaskFits, Metrics!Idle
  <2>4. CASE u # Metrics!Idle
    <3>1. IsAbout(u)
      BY <2>2, <2>4 DEF TaskFits
    <3>2. u.call \in EntityCalls /\ name \in EntityCalls => u.id # id
      BY <2>1, <2>4 DEF CallIs
    <3>3. sessionsBegun \subseteq sessionsBegun' /\ timings \subseteq timings'
          /\ sessionsEnded \subseteq sessionsEnded' /\ setting' = setting
      BY <1>4
    <3>4. u.call \in EntityCalls => (u.id \in sessionsEnded' <=> u.id \in sessionsEnded)
      BY <3>2
    <3>5. IsAbout(u)'
      BY <3>1, <3>3, <3>4 DEF IsAbout, NoMetadata, EntityCalls
    <3>6. TaskFits(u)'
      BY <2>2, <3>5, <2>4 DEF TaskFits
    <3>7. QED
      BY <2>2, <3>6
  <2>5. QED
    BY <2>3, <2>4
<1>9. \A q \in Caller : TaskFits(reportTask[q])'
  BY <1>4, <1>7, <1>8
<1>10. ASSUME NEW p \in Caller, NEW q \in Caller, CallIs(p, EntityCalls)', CallIs(q, EntityCalls)',
              reportTask'[p].id = reportTask'[q].id
       PROVE  p = q
  <2>1. CASE p # r /\ q # r
    <3>1. CallIs(p, EntityCalls) /\ CallIs(q, EntityCalls) /\ reportTask[p].id = reportTask[q].id
      BY <1>4, <1>10, <2>1 DEF CallIs, Metrics!Idle
    <3>2. QED
      BY <3>1 DEF TasksIInv
  <2>2. ASSUME NEW k \in Caller, k # r, CallIs(r, EntityCalls)', CallIs(k, EntityCalls)'
        PROVE  reportTask'[k].id # reportTask'[r].id
    <3>1. name \in EntityCalls
      BY <1>4, <1>5, <2>2 DEF CallIs
    <3>2. CallIs(k, EntityCalls) /\ reportTask'[k] = reportTask[k]
      BY <1>4, <2>2 DEF CallIs, Metrics!Idle
    <3>3. QED
      BY <1>4, <1>5, <3>1, <3>2
  <2>3. QED
    BY <1>10, <2>1, <2>2
<1>11. TasksIInv'
  BY <1>4, <1>9, <1>10 DEF TasksIInv
<1>12. \A x : Owes(r, x)' <=> x \in StepsOf[name]
  BY <1>4, <1>5, <1>6 DEF Owes
<1>13. \A p \in Follows : ~Metrics!Doing(r, p[2]) /\ ~Metrics!Doing(r, p[2])'
  BY <1>4, <1>5, <1>6 DEF Metrics!Doing, Metrics!Idle
<1>14. QED
  BY <1>4, <1>5, <1>11, <1>12, <1>13 DEF Begun

\* A call that is given up
GivenUp(r) ==
  /\ reportTask' = [q \in Caller |-> reportTask'[q]]
  /\ \A q \in Caller \ {r} : reportTask'[q] = reportTask[q]
  /\ reportTask[r] # Metrics!Idle /\ reportTask'[r] = Metrics!Idle
  /\ CallIs(r, EntityCalls)
  /\ sessionsEnded' = sessionsEnded \cup {reportTask[r].id}
  /\ \A x : ~Owes(r, x)' /\ ~Metrics!Doing(r, x)'

\* A call that panics is over, and its identifier is ended for good.
LEMMA TasksGiveUp ==
  ASSUME TasksIInv, NEW r \in Caller, CallIs(r, EntityCalls),
         reportTask' = [reportTask EXCEPT ![r] = Metrics!Idle],
         sessionsEnded' = sessionsEnded \cup {reportTask[r].id},
         UNCHANGED << setting, sessionsBegun, timings, vectors >>
  PROVE  TasksIInv' /\ GivenUp(r)
<1>1. /\ reportTask[r] # Metrics!Idle /\ reportTask'[r] = Metrics!Idle
      /\ reportTask' = [q \in Caller |-> reportTask'[q]]
      /\ \A q \in Caller \ {r} : reportTask'[q] = reportTask[q]
  BY DEF TasksIInv, CallIs
<1>2. reportTask[r].id \in sessionsBegun
  <2>1. IsAbout(reportTask[r])
    BY <1>1, WhatATaskIs
  <2>2. reportTask[r].call \in EntityCalls /\ sessionsEnded \subseteq sessionsBegun
    BY DEF CallIs, TasksIInv
  <2>3. QED
    BY <2>1, <2>2 DEF IsAbout, EntityCalls
<1>3. ASSUME NEW q \in Caller \ {r} PROVE TaskFits(reportTask[q])'
  <2>1. PICK u : u = reportTask[q]
    OBVIOUS
  <2>2. reportTask'[q] = u /\ TaskFits(u)
    BY <1>1, <2>1 DEF TasksIInv
  <2>3. CASE u = Metrics!Idle
    BY <2>2, <2>3 DEF TaskFits, Metrics!Idle
  <2>4. CASE u # Metrics!Idle
    <3>1. IsAbout(u)
      BY <2>2, <2>4 DEF TaskFits
    <3>2. u.call \in EntityCalls => u.id # reportTask[r].id
      BY <2>1, <2>4 DEF CallIs, TasksIInv
    <3>3. u.call \in EntityCalls => (u.id \in sessionsEnded' <=> u.id \in sessionsEnded)
      BY <3>2
    <3>4. IsAbout(u)'
      BY <3>1, <3>3 DEF IsAbout, NoMetadata, EntityCalls
    <3>5. TaskFits(u)'
      BY <2>2, <3>4, <2>4 DEF TaskFits
    <3>6. QED
      BY <2>2, <3>5
  <2>5. QED
    BY <2>3, <2>4
<1>4. TaskFits(reportTask[r])'
  BY <1>1 DEF TaskFits, Metrics!Idle
<1>5. \A q \in Caller : TaskFits(reportTask[q])'
  BY <1>3, <1>4
<1>6. \A q \in Caller : CallIs(q, EntityCalls)' =>
        CallIs(q, EntityCalls) /\ reportTask'[q].id = reportTask[q].id
  BY <1>1 DEF CallIs, Metrics!Idle
<1>7. TasksIInv'
  BY <1>1, <1>2, <1>5, <1>6 DEF TasksIInv
<1>8. \A x : ~Owes(r, x)' /\ ~Metrics!Doing(r, x)'
  BY <1>1 DEF Owes, Metrics!Doing, Metrics!Idle
<1>9. QED
  BY <1>1, <1>7, <1>8 DEF GivenUp

\* Label values, in any order
LEMMA LabelsOfOne ==
  ASSUME NEW a, NEW s \in Metrics!SetToSeqs({a})
  PROVE  s = << a >>
<1>1. Cardinality({a}) = 1 /\ Metrics!Cardinality({a}) = 1
  BY FS_Singleton DEF Metrics!Cardinality, Cardinality
<1>2. s \in [1 .. 1 -> {a}]
  BY <1>1 DEF Metrics!SetToSeqs
<1>3. QED
  BY <1>2

\* Two labels are in one order or the other.
LEMMA LabelsOfTwo ==
  ASSUME NEW a, NEW b, a # b, NEW s \in Metrics!SetToSeqs({a, b})
  PROVE  s = << a, b >> \/ s = << b, a >>
<1>1. Cardinality({a, b}) = 2 /\ Metrics!Cardinality({a, b}) = 2
  <2>1. {a, b} = {a} \cup {b} /\ b \notin {a}
    OBVIOUS
  <2>2. IsFiniteSet({a}) /\ Cardinality({a}) = 1
    BY FS_Singleton
  <2>3. Cardinality({a} \cup {b}) = 1 + 1
    BY <2>1, <2>2, FS_AddElement
  <2>4. Metrics!Cardinality({a, b}) = Cardinality({a, b})
    BY Zenon DEF Metrics!Cardinality, Cardinality
  <2>5. QED
    BY <2>1, <2>3, <2>4
<1>2. s \in [1 .. 2 -> {a, b}] /\ s[1] # s[2]
  BY <1>1 DEF Metrics!SetToSeqs
<1>3. QED
  BY <1>2

\* Calls begin.
LEMMA CallsBegin ==
  ASSUME TasksIInv, NEW r \in Caller
  PROVE  /\ \A id \in SessionId : Metrics!RecordSessionCreated(r, id) =>
              TasksIInv' /\ Begun(r, "session_created", id, id)
         /\ \A id \in StreamId, s \in SessionId : Metrics!RecordStreamCreated(r, id, s) =>
              TasksIInv' /\ Begun(r, "stream_created", id, s)
         /\ \A id \in SessionId : Metrics!RecordEnd(r, id) =>
              TasksIInv' /\ Begun(r, "session_ended", id, id)
         /\ \A id \in StreamId : Metrics!RecordEnd(r, id) =>
              TasksIInv' /\ Begun(r, "stream_completed", id, id)
         /\ \A d \in Durations : Metrics!RecordTiming(r, d) =>
              TasksIInv' /\ Begun(r, "timing", d, d)
         /\ Metrics!CountFrames(r) => TasksIInv' /\ Begun(r, "frames", 1, 1)
<1> USE DEF EntityCalls
<1>1. sessionsEnded \subseteq sessionsBegun /\ sessionsBegun \subseteq SessionId \cup StreamId
  BY DEF TasksIInv
<1>2. \A q \in Caller : CallIs(q, EntityCalls) => reportTask[q].id \in sessionsBegun
  <2> TAKE q \in Caller
  <2>1. CallIs(q, EntityCalls) => IsAbout(reportTask[q])
    BY WhatATaskIs DEF CallIs
  <2>2. QED
    BY <1>1, <2>1 DEF CallIs, IsAbout
<1>3. ASSUME NEW id \in SessionId, Metrics!RecordSessionCreated(r, id)
      PROVE  TasksIInv' /\ Begun(r, "session_created", id, id)
  <2>1. PICK labels \in Metrics!SetToSeqs(setting.metadata[id] \cup {id}) :
          Metrics!Begin(r, "session_created", id, labels, id)
    BY <1>3 DEF Metrics!RecordSessionCreated
  <2>2. /\ id \notin sessionsBegun /\ sessionsBegun' = sessionsBegun \cup {id}
        /\ sessionsEnded' = sessionsEnded /\ timings' = timings /\ setting' = setting
    BY <1>3, <2>1 DEF Metrics!RecordSessionCreated, Metrics!Begin
  <2>3. NoMetadata => labels = << id >>
    <3>1. NoMetadata => setting.metadata[id] \cup {id} = {id}
      BY DEF NoMetadata
    <3>2. QED
      BY <2>1, <3>1, LabelsOfOne
  <2>4. \A t : t.call = "session_created" /\ t.id = id /\ t.labels = labels /\ t.of = id => IsAbout(t)'
    <3>1. NoMetadata' => NoMetadata
      BY <2>2 DEF NoMetadata
    <3>2. id \in sessionsBegun' \ sessionsEnded'
      BY <1>1, <2>2
    <3>3. QED
      BY <2>3, <3>1, <3>2 DEF IsAbout
  <2>5. QED
    BY <1>1, <1>2, <2>1, <2>2, <2>4, TasksBegin
<1>4. ASSUME NEW id \in StreamId, NEW s \in SessionId, Metrics!RecordStreamCreated(r, id, s)
      PROVE  TasksIInv' /\ Begun(r, "stream_created", id, s)
  <2>1. PICK labels \in Metrics!SetToSeqs({id, s}) :
          Metrics!Begin(r, "stream_created", id, labels, s)
    BY <1>4 DEF Metrics!RecordStreamCreated
  <2>2. /\ id \notin sessionsBegun /\ sessionsBegun' = sessionsBegun \cup {id}
        /\ sessionsEnded' = sessionsEnded /\ timings' = timings
    BY <1>4 DEF Metrics!RecordStreamCreated
  <2>3. labels \in {<< id, s >>, << s, id >>}
    BY LabelsOfTwo, MetricsAssumption
  <2>4. \A t : t.call = "stream_created" /\ t.id = id /\ t.labels = labels /\ t.of = s => IsAbout(t)'
    <3>1. id \in sessionsBegun' \ sessionsEnded'
      BY <1>1, <2>2
    <3>2. QED
      BY <2>3, <3>1 DEF IsAbout
  <2>5. QED
    BY <1>1, <1>2, <2>1, <2>2, <2>4, TasksBegin
<1>5. ASSUME NEW id \in SessionId \cup StreamId, Metrics!RecordEnd(r, id)
      PROVE  /\ id \in sessionsBegun \ sessionsEnded /\ sessionsEnded' = sessionsEnded \cup {id}
             /\ sessionsBegun' = sessionsBegun /\ timings' = timings
             /\ \A q \in Caller : CallIs(q, EntityCalls) => reportTask[q].id # id
  BY <1>5 DEF Metrics!RecordEnd, Metrics!Free, Metrics!AtWork, Metrics!Arg, CallIs
<1>6. ASSUME NEW id \in SessionId, Metrics!RecordEnd(r, id)
      PROVE  TasksIInv' /\ Begun(r, "session_ended", id, id)
  <2>1. Metrics!Begin(r, "session_ended", id, << id >>, id)
    BY <1>6 DEF Metrics!RecordEnd
  <2>2. \A t : t.call = "session_ended" /\ t.id = id /\ t.labels = << id >> /\ t.of = id => IsAbout(t)'
    BY <1>5, <1>6 DEF IsAbout
  <2>3. QED
    BY <1>1, <1>5, <1>6, <2>1, <2>2, TasksBegin
<1>7. ASSUME NEW id \in StreamId, Metrics!RecordEnd(r, id)
      PROVE  TasksIInv' /\ Begun(r, "stream_completed", id, id)
  <2>1. id \notin SessionId
    BY MetricsAssumption
  <2>2. Metrics!Begin(r, "stream_completed", id, << id >>, id)
    BY <1>7, <2>1 DEF Metrics!RecordEnd
  <2>3. \A t : t.call = "stream_completed" /\ t.id = id /\ t.labels = << id >> /\ t.of = id => IsAbout(t)'
    BY <1>5, <1>7 DEF IsAbout
  <2>4. QED
    BY <1>1, <1>5, <1>7, <2>2, <2>3, TasksBegin
<1>8. ASSUME NEW d \in Durations, Metrics!RecordTiming(r, d)
      PROVE  TasksIInv' /\ Begun(r, "timing", d, d)
  <2>1. /\ Metrics!Begin(r, "timing", d, << >>, d) /\ timings' = timings \cup {d}
        /\ sessionsBegun' = sessionsBegun /\ sessionsEnded' = sessionsEnded
    BY <1>8 DEF Metrics!RecordTiming
  <2>2. \A t : t.call = "timing" /\ t.id = d /\ t.labels = << >> /\ t.of = d => IsAbout(t)'
    BY <2>1 DEF IsAbout
  <2>3. QED
    BY <1>1, <2>1, <2>2, TasksBegin
<1>9. ASSUME Metrics!CountFrames(r) PROVE TasksIInv' /\ Begun(r, "frames", 1, 1)
  <2>1. /\ Metrics!Begin(r, "frames", 1, << >>, 1) /\ timings' = timings
        /\ sessionsBegun' = sessionsBegun /\ sessionsEnded' = sessionsEnded
    BY <1>9 DEF Metrics!CountFrames
  <2>2. \A t : t.call = "frames" /\ t.id = 1 /\ t.labels = << >> /\ t.of = 1 => IsAbout(t)'
    BY DEF IsAbout
  <2>3. QED
    BY <1>1, <2>1, <2>2, TasksBegin
<1>10. QED
  BY <1>3, <1>4, <1>6, <1>7, <1>8, <1>9

\* Which call a step is of
LEMMA WhoDoes ==
  ASSUME TasksIInv, NEW r \in Caller, NEW step, Metrics!Doing(r, step)
  PROVE  LET t == reportTask[r]
         IN  /\ t # Metrics!Idle /\ Head(t.todo) = step /\ IsAbout(t)
             /\ step \in {"count session", "add session", "pjs_sessions_created_total"} =>
                  t.call = "session_created"
             /\ step \in {"uncount session", "remove session"} => t.call = "session_ended"
             /\ step \in {"count stream", "credit session", "add stream", "pjs_streams_created_total"} =>
                  t.call = "stream_created"
             /\ step \in {"uncount stream", "complete stream"} => t.call = "stream_completed"
             /\ step \in {"average", "frame_processing"} => t.call = "timing"
             /\ step \in {"count frames", "frames_processed"} => t.call = "frames"
             /\ step = "pjs_active_sessions" => t.call \in {"session_created", "session_ended"}
             /\ step = "pjs_active_streams" => t.call \in {"stream_created", "stream_completed"}
             /\ step = "push" => t.call \in {"session_created", "session_ended"}
<1> DEFINE t == reportTask[r]
<1>1. t # Metrics!Idle /\ Head(t.todo) = step
  BY DEF Metrics!Doing, Metrics!Idle
<1>2. IsAbout(t) /\ step \in StepsOf[t.call]
  BY <1>1, WhatATaskIs
<1>3. t.call \in EntityCalls \cup {"timing", "frames"}
  BY <1>2 DEF IsAbout, EntityCalls
<1> HIDE DEF t
<1>4. /\ t.call = "session_created" => step \in StepsOf.session_created
      /\ t.call = "session_ended" => step \in StepsOf.session_ended
      /\ t.call = "stream_created" => step \in StepsOf.stream_created
      /\ t.call = "stream_completed" => step \in StepsOf.stream_completed
      /\ t.call = "timing" => step \in StepsOf.timing
      /\ t.call = "frames" => step \in StepsOf.frames
  BY <1>2, Zenon
<1>5. QED
  BY <1>1, <1>2, <1>3, <1>4 DEF StepsOf, EntityCalls, t

\* A step of the in-memory collector
LEMMA MemoryMoves ==
  ASSUME TasksIInv, NEW r \in Caller, NEW step, Metrics!Doing(r, step), Metrics!Done(r),
         UNCHANGED << setting, vectors, sessionsBegun, sessionsEnded, timings >>
  PROVE  TasksIInv' /\ Moved(r)
<1>1. reportTask[r] # Metrics!Idle
  BY WhoDoes
<1>2. \A name \in DOMAIN vectors' :
        /\ vectors'[name] = [labels |-> vectors'[name].labels, values |-> vectors'[name].values]
        /\ name \in {"frame_processing", "frames_processed"} => vectors'[name].labels = 0
  BY DEF TasksIInv
<1>3. QED
  BY <1>1, <1>2, TasksMove

\* A step of the Prometheus collector
Showed(r) ==
  LET name   == Head(reportTask[r].todo)
      labels == reportTask[r].labels
      before == IF labels \in DOMAIN Values(name) THEN Values(name)[labels] ELSE 0
  IN  /\ DOMAIN vectors' = DOMAIN vectors \cup {name}
      /\ name \in DOMAIN vectors => vectors[name].labels = Len(labels)
      /\ vectors'[name] = [labels |-> Len(labels),
                           values |-> Metrics!Insert(Values(name), labels,
                                                     Metrics!Value(r, name, before))]
      /\ \A n \in DOMAIN vectors \ {name} : vectors'[n] = vectors[n]

\* Prometheus takes a value, or panics at a vector of another number of labels.
LEMMA SampleMoves ==
  ASSUME TasksIInv, NEW r \in Caller, Metrics!Sample(r)
  PROVE  LET name == Head(reportTask[r].todo)
         IN  /\ TasksIInv'
             /\ Metrics!Doing(r, name)
             /\ name \in Metrics!Counters \cup Metrics!Gauges \cup {"frame_processing"}
             /\ \/ Moved(r) /\ Showed(r) /\ sessionsEnded' = sessionsEnded
                \/ /\ GivenUp(r) /\ vectors' = vectors
                   /\ name \in DOMAIN vectors /\ vectors[name].labels # Len(reportTask[r].labels)
<1> DEFINE name   == Head(reportTask[r].todo)
           labels == reportTask[r].labels
           vector == IF name \in DOMAIN vectors THEN vectors[name]
                     ELSE [labels |-> Len(labels), values |-> << >>]
           before == IF labels \in DOMAIN vector.values THEN vector.values[labels] ELSE 0
           value  == Metrics!Value(r, name, before)
           after  == [vector EXCEPT !.values = Metrics!Insert(@, labels, value)]
<1>1. reportTask[r] # Metrics!Idle /\ reportTask[r].todo # << >>
  BY WhatATaskIs DEF Metrics!Sample
<1>2. /\ name \in Metrics!Counters \cup Metrics!Gauges \cup {"frame_processing"}
      /\ \/ /\ vector.labels = Len(labels)
            /\ vectors' = Metrics!Insert(vectors, name, after)
            /\ Metrics!Done(r) /\ sessionsEnded' = sessionsEnded
         \/ /\ vector.labels # Len(labels)
            /\ reportTask' = [reportTask EXCEPT ![r] = Metrics!Idle]
            /\ sessionsEnded' = sessionsEnded \cup {reportTask[r].id}
            /\ vectors' = vectors
      /\ UNCHANGED << setting, sessionsBegun, timings >>
  BY DEF Metrics!Sample, Metrics!Arg
<1>3. Metrics!Doing(r, name)
  BY <1>1 DEF Metrics!Doing
<1>4. \A n \in DOMAIN vectors :
        /\ vectors[n] = [labels |-> vectors[n].labels, values |-> vectors[n].values]
        /\ n \in {"frame_processing", "frames_processed"} => vectors[n].labels = 0
  BY DEF TasksIInv
<1>5. vector = [labels |-> vector.labels, values |-> vector.values] /\ vector.values = Values(name)
  BY <1>4 DEF Values
<1>6. IsAbout(reportTask[r])
  BY <1>1, WhatATaskIs
<1>7. name \in {"frame_processing", "frames_processed"} => labels = << >> /\ Len(labels) = 0
  <2>1. name \in {"frame_processing", "frames_processed"} => reportTask[r].call \in {"timing", "frames"}
    BY <1>3, WhoDoes
  <2>2. reportTask[r].call \in {"timing", "frames"} => labels = << >>
    BY <1>6 DEF IsAbout
  <2>3. QED
    BY <2>1, <2>2
<1>8. name \notin {"frame_processing", "frames_processed"} => CallIs(r, EntityCalls)
  <2>1. name \in {"pjs_sessions_created_total", "pjs_streams_created_total", "frames_processed",
                  "pjs_active_sessions", "pjs_active_streams", "frame_processing"}
    BY <1>2 DEF Metrics!Counters, Metrics!Gauges
  <2>2. QED
    BY <1>1, <1>3, <2>1, WhoDoes DEF CallIs, EntityCalls
<1>9. CASE vector.labels # Len(labels)
  <2>1. name \in DOMAIN vectors
    BY <1>9
  <2>2. name \notin {"frame_processing", "frames_processed"}
    BY <1>4, <1>7, <1>9, <2>1
  <2>3. TasksIInv' /\ GivenUp(r)
    <3>1. CallIs(r, EntityCalls)
      BY <1>8, <2>2
    <3> HIDE DEF vector, labels, name, after
    <3>2. QED
      BY <1>2, <1>9, <3>1, TasksGiveUp
  <2>4. QED
    BY <1>2, <1>3, <1>9, <2>1, <2>3
<1>10. CASE vector.labels = Len(labels)
  <2> DEFINE inserted == Metrics!Insert(Values(name), labels, value)
  <2>1. after = [labels |-> Len(labels), values |-> inserted]
    <3> HIDE DEF vector, labels, value
    <3> QED
      BY <1>5, <1>10
  <2>2. value = Metrics!Value(r, name, IF labels \in DOMAIN Values(name) THEN Values(name)[labels] ELSE 0)
    BY <1>5
  <2>3. vectors' = Metrics!Insert(vectors, name, after)
        /\ Metrics!Done(r) /\ sessionsEnded' = sessionsEnded
    BY <1>2, <1>10
  <2>4. name \in DOMAIN vectors => vectors[name].labels = Len(labels)
    BY <1>10
  <2> HIDE DEF after, inserted, value, vector, before, name, labels
  <2>5. /\ DOMAIN vectors' = DOMAIN vectors \cup {name} /\ vectors'[name] = after
        /\ \A n \in DOMAIN vectors \ {name} : vectors'[n] = vectors[n]
    BY <2>3 DEF Metrics!Insert
  <2>6. \A n \in DOMAIN vectors' :
          /\ vectors'[n] = [labels |-> vectors'[n].labels, values |-> vectors'[n].values]
          /\ n \in {"frame_processing", "frames_processed"} => vectors'[n].labels = 0
    <3>1. after = [labels |-> after.labels, values |-> after.values] /\ after.labels = Len(labels)
      BY <2>1
    <3>2. QED
      BY <1>4, <1>7, <2>5, <3>1
  <2>7. TasksIInv' /\ Moved(r)
    BY <1>1, <1>2, <2>3, <2>6, TasksMove
  <2>8. Showed(r)
    BY <2>1, <2>2, <2>4, <2>5 DEF Showed, name, labels, inserted
  <2>9. QED
    BY <1>2, <1>3, <2>3, <2>7, <2>8 DEF name
<1>11. QED
  BY <1>9, <1>10

-----------------------------------------------------------------------------
(* The entries *)

\* Whose entries they are
EntryTypes ==
  /\ DOMAIN sessionMetrics \subseteq sessionsBegun \cap SessionId
  /\ DOMAIN streamMetrics \subseteq sessionsBegun \cap StreamId
  /\ \A t \in DOMAIN streamMetrics :
       streamMetrics[t] = [session |-> streamMetrics[t].session, open |-> streamMetrics[t].open]

\* Others are as quiet after a step as before it, and owe what they did.
LEMMA OthersStay ==
  ASSUME NEW r \in Caller, \A q \in Caller \ {r} : reportTask'[q] = reportTask[q],
         NEW k, CallIs(r, EntityCalls) => reportTask[r].id # k
  PROVE  /\ Quiet(k)' => Quiet(k)
         /\ \A q \in Caller \ {r} : \A x :
              /\ Owes(q, x)' <=> Owes(q, x)
              /\ Metrics!Doing(q, x)' <=> Metrics!Doing(q, x)
              /\ CallIs(q, EntityCalls)' <=> CallIs(q, EntityCalls)
BY DEF Quiet, Owes, CallIs, Metrics!Idle, Metrics!Doing

\* A step that leaves the entry of its call as the call has it by then, and all
\* other entries alone, keeps the entries in step with the calls.
LEMMA EntriesMove ==
  ASSUME TasksIInv, TasksIInv', EntriesIInv, NEW r \in Caller, Moved(r),
         sessionsBegun' = sessionsBegun, sessionsEnded' = sessionsEnded,
         EntryTypes', NEW id, id = reportTask[r].id, NEW kind, kind = reportTask[r].call,
         \A k : ~(kind \in EntityCalls /\ k = id) =>
           /\ k \in DOMAIN sessionMetrics' <=> k \in DOMAIN sessionMetrics
           /\ k \in DOMAIN streamMetrics' <=> k \in DOMAIN streamMetrics
           /\ k \in Open' <=> k \in Open,
         Entry(r, kind, id)'
  PROVE  EntriesIInv'
<1>1. /\ reportTask[r] # Metrics!Idle
      /\ \A q \in Caller \ {r} : reportTask'[q] = reportTask[q]
      /\ reportTask'[r] # Metrics!Idle => reportTask'[r].call = kind /\ reportTask'[r].id = id
  BY DEF Moved
<1>2. ASSUME NEW q \in Caller, reportTask'[q] # Metrics!Idle
      PROVE  Entry(q, reportTask[q].call, reportTask[q].id)'
  <2>1. CASE q = r
    BY <1>1, <1>2, <2>1 DEF Entry
  <2>2. CASE q # r
    <3>1. PICK c, k : c = reportTask[q].call /\ k = reportTask[q].id
      OBVIOUS
    <3>2. reportTask'[q] = reportTask[q] /\ reportTask[q] # Metrics!Idle
      BY <1>1, <1>2, <2>2
    <3>3. Entry(q, c, k)
      BY <3>1, <3>2 DEF EntriesIInv
    <3>4. CASE c \in EntityCalls
      <4>1. ~(kind \in EntityCalls /\ k = id)
        BY <1>1, <2>2, <3>1, <3>2, <3>4 DEF TasksIInv, CallIs
      <4>2. \A x : Owes(q, x)' <=> Owes(q, x)
        BY <3>2 DEF Owes
      <4>3. Entry(q, c, k)'
        BY <3>3, <4>1, <4>2 DEF Entry
      <4>4. QED
        BY <3>1, <3>2, <4>3 DEF Entry
    <3>5. CASE c \notin EntityCalls
      BY <3>1, <3>2, <3>5 DEF Entry, EntityCalls
    <3>6. QED
      BY <3>4, <3>5
  <2>3. QED
    BY <2>1, <2>2
<1>3. ASSUME NEW k \in SessionId \cup StreamId, Quiet(k)', k \in sessionsBegun' \ sessionsEnded'
      PROVE  /\ k \in SessionId => k \in DOMAIN sessionMetrics'
             /\ k \in StreamId => k \in Open'
  <2>1. CASE kind \in EntityCalls /\ k = id
    <3>1. reportTask'[r] = Metrics!Idle
      BY <1>1, <1>3, <2>1 DEF Quiet, CallIs, Metrics!Idle
    <3>2. \A x : ~Owes(r, x)'
      BY <3>1 DEF Owes, Metrics!Idle
    <3>3. IsAbout(reportTask[r])
      BY <1>1, WhatATaskIs
    <3>4. \/ kind = "session_created" /\ k \in SessionId /\ k \notin StreamId
          \/ kind = "stream_created" /\ k \in StreamId /\ k \notin SessionId
      BY <1>3, <2>1, <3>3, MetricsAssumption DEF IsAbout, EntityCalls
    <3>5. QED
      BY <2>1, <3>2, <3>4 DEF Entry
  <2>2. CASE ~(kind \in EntityCalls /\ k = id)
    <3>1. Quiet(k)
      BY <1>1, <1>3, <2>2, OthersStay DEF CallIs
    <3>2. QED
      BY <1>3, <2>2, <3>1 DEF EntriesIInv
  <2>3. QED
    BY <2>1, <2>2
<1>4. QED
  BY <1>2, <1>3 DEF EntriesIInv, EntryTypes, Metrics!Idle

\* A call that begins leaves the entries alone, and its own is as it was.
LEMMA EntriesBegin ==
  ASSUME TasksIInv, TasksIInv', EntriesIInv, NEW r \in Caller, NEW kind, NEW id, NEW of,
         Begun(r, kind, id, of), UNCHANGED << sessionMetrics, streamMetrics >>,
         sessionsBegun \subseteq sessionsBegun', sessionsEnded \subseteq sessionsEnded',
         \/ /\ kind \in {"session_created", "stream_created"} /\ sessionsBegun' = sessionsBegun \cup {id}
            /\ sessionsEnded' = sessionsEnded /\ id \notin sessionsBegun
         \/ /\ kind = "session_ended" /\ id \in SessionId /\ id \in sessionsBegun \ sessionsEnded
            /\ Quiet(id) /\ sessionsBegun' = sessionsBegun
         \/ /\ kind = "stream_completed" /\ id \in StreamId /\ id \in sessionsBegun \ sessionsEnded
            /\ Quiet(id) /\ sessionsBegun' = sessionsBegun
         \/ /\ kind \in {"timing", "frames"}
            /\ sessionsBegun' = sessionsBegun /\ sessionsEnded' = sessionsEnded
  PROVE  EntriesIInv'
<1>1. /\ reportTask[r] = Metrics!Idle /\ reportTask'[r] # Metrics!Idle
      /\ \A q \in Caller \ {r} : reportTask'[q] = reportTask[q]
      /\ reportTask'[r].call = kind /\ reportTask'[r].id = id
      /\ \A x : Owes(r, x)' <=> x \in StepsOf[kind]
  BY DEF Begun
<1>2. Open' = Open
  BY DEF Open
<1>3. Entry(r, kind, id)'
  <2>1. /\ Owes(r, "add session")' <=> "add session" \in StepsOf[kind]
        /\ Owes(r, "remove session")' <=> "remove session" \in StepsOf[kind]
        /\ Owes(r, "add stream")' <=> "add stream" \in StepsOf[kind]
        /\ Owes(r, "complete stream")' <=> "complete stream" \in StepsOf[kind]
    BY <1>1
  <2>2. /\ "add session" \in StepsOf["session_created"] /\ "remove session" \in StepsOf["session_ended"]
        /\ "add stream" \in StepsOf["stream_created"] /\ "complete stream" \in StepsOf["stream_completed"]
    BY DEF StepsOf
  <2>3. /\ id \notin sessionsBegun => id \notin DOMAIN sessionMetrics /\ id \notin DOMAIN streamMetrics
        /\ id \in SessionId /\ id \in sessionsBegun \ sessionsEnded /\ Quiet(id) => id \in DOMAIN sessionMetrics
        /\ id \in StreamId /\ id \in sessionsBegun \ sessionsEnded /\ Quiet(id) => id \in Open
        /\ Open \subseteq DOMAIN streamMetrics
    BY DEF EntriesIInv, Open
  <2>4. CASE kind = "session_created"
    BY <2>1, <2>2, <2>3, <2>4 DEF Entry
  <2>5. CASE kind = "session_ended"
    BY <2>1, <2>2, <2>3, <2>5 DEF Entry
  <2>6. CASE kind = "stream_created"
    BY <1>2, <2>1, <2>2, <2>3, <2>6 DEF Entry
  <2>7. CASE kind = "stream_completed"
    BY <1>2, <2>1, <2>2, <2>3, <2>7 DEF Entry
  <2>8. CASE kind \in {"timing", "frames"}
    BY <2>8 DEF Entry
  <2>9. QED
    BY <2>4, <2>5, <2>6, <2>7, <2>8
<1>4. ASSUME NEW q \in Caller, reportTask'[q] # Metrics!Idle
      PROVE  Entry(q, reportTask[q].call, reportTask[q].id)'
  <2>1. CASE q = r
    BY <1>1, <1>3, <2>1 DEF Entry
  <2>2. CASE q # r
    <3>1. PICK c, k : c = reportTask[q].call /\ k = reportTask[q].id
      OBVIOUS
    <3>2. reportTask'[q] = reportTask[q] /\ reportTask[q] # Metrics!Idle
      BY <1>1, <1>4, <2>2
    <3>3. Entry(q, c, k)
      BY <3>1, <3>2 DEF EntriesIInv
    <3>4. \A x : Owes(q, x)' <=> Owes(q, x)
      BY <3>2 DEF Owes
    <3>5. Entry(q, c, k)'
      BY <1>2, <3>3, <3>4 DEF Entry
    <3>6. QED
      BY <3>1, <3>2, <3>5 DEF Entry
  <2>3. QED
    BY <2>1, <2>2
<1>5. ASSUME NEW k \in SessionId \cup StreamId, Quiet(k)', k \in sessionsBegun' \ sessionsEnded'
      PROVE  /\ k \in SessionId => k \in DOMAIN sessionMetrics'
             /\ k \in StreamId => k \in Open'
  <2>1. ~CallIs(r, EntityCalls)
    BY <1>1 DEF CallIs
  <2>2. Quiet(k)
    BY <1>1, <1>5, <2>1, OthersStay
  <2>3. k \in sessionsBegun \ sessionsEnded
    <3>1. kind \in EntityCalls => k # id
      BY <1>1, <1>5 DEF Quiet, CallIs, Metrics!Idle
    <3>2. QED
      BY <1>5, <3>1 DEF EntityCalls
  <2>4. QED
    BY <1>2, <2>2, <2>3 DEF EntriesIInv
<1>6. QED
  BY <1>4, <1>5 DEF EntriesIInv, Metrics!Idle

\* The identifier of a call that panics has no caller, and is quiet and ended.
LEMMA EntriesGiveUp ==
  ASSUME TasksIInv, TasksIInv', EntriesIInv, NEW r \in Caller, GivenUp(r),
         UNCHANGED << sessionMetrics, streamMetrics, sessionsBegun >>
  PROVE  EntriesIInv'
<1>1. /\ reportTask[r] # Metrics!Idle /\ reportTask'[r] = Metrics!Idle
      /\ \A q \in Caller \ {r} : reportTask'[q] = reportTask[q]
      /\ CallIs(r, EntityCalls) /\ sessionsEnded' = sessionsEnded \cup {reportTask[r].id}
  BY DEF GivenUp
<1>2. Open' = Open
  BY DEF Open
<1>3. ASSUME NEW q \in Caller, reportTask'[q] # Metrics!Idle
      PROVE  Entry(q, reportTask[q].call, reportTask[q].id)'
  <2>1. PICK c, k : c = reportTask[q].call /\ k = reportTask[q].id
    OBVIOUS
  <2>2. q # r /\ reportTask'[q] = reportTask[q] /\ reportTask[q] # Metrics!Idle
    BY <1>1, <1>3
  <2>3. Entry(q, c, k)
    BY <2>1, <2>2 DEF EntriesIInv
  <2>4. \A x : Owes(q, x)' <=> Owes(q, x)
    BY <2>2 DEF Owes
  <2>5. Entry(q, c, k)'
    BY <1>2, <2>3, <2>4 DEF Entry
  <2>6. QED
    BY <2>1, <2>2, <2>5 DEF Entry
<1>4. ASSUME NEW k \in SessionId \cup StreamId, Quiet(k)', k \in sessionsBegun' \ sessionsEnded'
      PROVE  /\ k \in SessionId => k \in DOMAIN sessionMetrics'
             /\ k \in StreamId => k \in Open'
  <2>1. k # reportTask[r].id
    BY <1>1, <1>4
  <2>2. Quiet(k)
    BY <1>1, <1>4, <2>1, OthersStay
  <2>3. k \in sessionsBegun \ sessionsEnded
    BY <1>1, <1>4
  <2>4. QED
    BY <1>2, <2>2, <2>3 DEF EntriesIInv
<1>5. QED
  BY <1>3, <1>4 DEF EntriesIInv, Metrics!Idle

-----------------------------------------------------------------------------
(* The gauges *)

\* Those at a step can be counted.
LEMMA FinitelyManyAt ==
  ASSUME NEW step
  PROVE  /\ At(step) \subseteq Caller /\ IsFiniteSet(At(step)) /\ Cardinality(At(step)) \in Nat
         /\ IsFiniteSet(At(step)') /\ Cardinality(At(step)') \in Nat
<1>1. At(step) \subseteq Caller /\ At(step)' \subseteq Caller
  BY DEF At
<1>2. IsFiniteSet(Caller)
  BY ReportersAssumption
<1>3. \A S \in SUBSET Caller : IsFiniteSet(S) /\ Cardinality(S) \in Nat
  BY <1>2, FS_Subset, FS_CardinalityType
<1>4. QED
  BY <1>1, <1>3

\* Callers at the second of two steps
LEMMA AtMoves ==
  ASSUME TasksIInv, NEW r \in Caller, Moved(r), NEW p \in Follows, NEW x, x = Head(reportTask[r].todo)
  PROVE  /\ x = p[1] => Cardinality(At(p[2])') = Cardinality(At(p[2])) + 1
         /\ x = p[2] => Cardinality(At(p[2])') = Cardinality(At(p[2])) - 1
         /\ x # p[1] /\ x # p[2] => At(p[2])' = At(p[2])
<1>1. /\ reportTask[r] # Metrics!Idle
      /\ \A q \in Caller \ {r} : reportTask'[q] = reportTask[q]
      /\ Metrics!Doing(r, p[2])' <=> Metrics!Doing(r, p[1])
  BY DEF Moved
<1>2. \A y : Metrics!Doing(r, y) <=> y = x
  BY <1>1, WhatATaskIs DEF Metrics!Doing
<1>3. \A q \in Caller \ {r} : Metrics!Doing(q, p[2])' <=> Metrics!Doing(q, p[2])
  BY <1>1 DEF Metrics!Doing
<1>4. p[1] # p[2]
  BY FollowsAre
<1>5. IsFiniteSet(At(p[2]))
  BY FinitelyManyAt
<1>6. CASE x = p[1]
  <2>1. At(p[2])' = At(p[2]) \cup {r} /\ r \notin At(p[2])
    BY <1>1, <1>2, <1>3, <1>4, <1>6 DEF At
  <2>2. QED
    BY <1>4, <1>5, <1>6, <2>1, FS_AddElement
<1>7. CASE x = p[2]
  <2>1. At(p[2])' = At(p[2]) \ {r} /\ r \in At(p[2])
    BY <1>1, <1>2, <1>3, <1>4, <1>7 DEF At
  <2>2. QED
    BY <1>4, <1>5, <1>7, <2>1, FS_RemoveElement
<1>8. CASE x # p[1] /\ x # p[2]
  BY <1>1, <1>2, <1>3, <1>8 DEF At
<1>9. QED
  BY <1>6, <1>7, <1>8

\* Where nobody comes or goes the callers at a step are the same.
LEMMA AtStays ==
  ASSUME TasksIInv, NEW r \in Caller, \A q \in Caller \ {r} : reportTask'[q] = reportTask[q],
         \A p \in Follows : Metrics!Doing(r, p[2])' <=> Metrics!Doing(r, p[2])
  PROVE  \A p \in Follows : At(p[2])' = At(p[2])
BY DEF At, Metrics!Doing

\* The pairs by name
LEMMA Pair ==
  /\ \E p \in Follows : p[1] = "count session" /\ p[2] = "add session"
  /\ \E p \in Follows : p[1] = "uncount session" /\ p[2] = "remove session"
  /\ \E p \in Follows : p[1] = "count stream" /\ p[2] = "credit session"
  /\ \E p \in Follows : p[1] = "credit session" /\ p[2] = "add stream"
  /\ \E p \in Follows : p[1] = "uncount stream" /\ p[2] = "complete stream"
<1>1. \A a, b : << a, b >>[1] = a /\ << a, b >>[2] = b
  OBVIOUS
<1>2. /\ << "count session", "add session" >> \in Follows
      /\ << "uncount session", "remove session" >> \in Follows
      /\ << "count stream", "credit session" >> \in Follows
      /\ << "credit session", "add stream" >> \in Follows
      /\ << "uncount stream", "complete stream" >> \in Follows
  BY Zenon DEF Follows
<1>3. QED
  BY <1>1, <1>2, Zenon

\* Callers with different entries are no more than the entries.
LEMMA NoMoreThanEntries ==
  ASSUME TasksIInv, NEW S \in SUBSET Caller, NEW E, IsFiniteSet(E),
         \A q \in S : CallIs(q, EntityCalls) /\ reportTask[q].id \in E
  PROVE  Cardinality(S) <= Cardinality(E)
<1> DEFINE f == [q \in S |-> reportTask[q].id]
<1>1. IsFiniteSet(S)
  BY ReportersAssumption, FS_Subset
<1>2. f \in [S -> E]
  OBVIOUS
<1>3. \A p, q \in S : p # q => f[p] # f[q]
  BY DEF TasksIInv
<1>4. Cardinality(S) \in Nat /\ Cardinality(E) \in Nat
  BY <1>1, FS_CardinalityType
<1> HIDE DEF f
<1>5. ~(Cardinality(E) < Cardinality(S))
  BY <1>1, <1>2, <1>3, FS_PigeonHole
<1>6. QED
  BY <1>4, <1>5

\* Where somebody counts down there is something to count down.
LEMMA SomethingToCount ==
  ASSUME TasksIInv, EntriesIInv, NEW r \in Caller
  PROVE  /\ Metrics!Doing(r, "uncount session") =>
              Cardinality(At("remove session")) + 1 <= Cardinality(DOMAIN sessionMetrics)
         /\ Metrics!Doing(r, "uncount stream") =>
              Cardinality(At("complete stream")) + 1 <= Cardinality(Open)
<1>1. \A q \in Caller : \A x : Metrics!Doing(q, x) => Owes(q, x)
  <2> SUFFICES ASSUME NEW q \in Caller, NEW x, Metrics!Doing(q, x) PROVE Owes(q, x)
    OBVIOUS
  <2>1. InTurn(reportTask[q].todo)
    BY WhoDoes, WhatATaskIs
  <2>2. QED
    BY <2>1, WhatIsOwed
<1>2. \A p \in Follows : Metrics!Doing(r, p[1]) => Owes(r, p[2]) /\ ~Metrics!Doing(r, p[2])
  <2> SUFFICES ASSUME NEW p \in Follows, Metrics!Doing(r, p[1])
               PROVE  Owes(r, p[2]) /\ ~Metrics!Doing(r, p[2])
    OBVIOUS
  <2>1. InTurn(reportTask[r].todo)
    BY WhoDoes, WhatATaskIs
  <2>2. Owes(r, p[1])
    BY <1>1
  <2>3. QED
    BY <2>1, <2>2, WhatIsOwed
<1>3. ASSUME Metrics!Doing(r, "uncount session")
      PROVE  Cardinality(At("remove session")) + 1 <= Cardinality(DOMAIN sessionMetrics)
  <2> DEFINE S == At("remove session") \cup {r}
  <2>1. Owes(r, "remove session") /\ ~Metrics!Doing(r, "remove session")
    BY <1>2, <1>3, Pair
  <2>2. S \subseteq Caller /\ r \notin At("remove session")
    BY <2>1 DEF At
  <2>3. \A q \in S : CallIs(q, {"session_ended"}) /\ Owes(q, "remove session")
    BY <1>1, <1>3, <2>1, WhoDoes DEF At, CallIs
  <2>4. \A q \in S : CallIs(q, EntityCalls) /\ reportTask[q].id \in DOMAIN sessionMetrics
    BY <2>2, <2>3 DEF EntriesIInv, Entry, CallIs, EntityCalls
  <2>5. IsFiniteSet(DOMAIN sessionMetrics)
    <3>1. DOMAIN sessionMetrics \subseteq SessionId
      BY DEF EntriesIInv
    <3>2. QED
      BY <3>1, ReportersAssumption, FS_Subset
  <2> HIDE DEF S
  <2>6. Cardinality(S) <= Cardinality(DOMAIN sessionMetrics)
    BY <2>2, <2>4, <2>5, NoMoreThanEntries DEF S
  <2>7. Cardinality(S) = Cardinality(At("remove session")) + 1
    BY <2>2, FinitelyManyAt, FS_AddElement DEF S
  <2>8. QED
    BY <2>6, <2>7
<1>4. ASSUME Metrics!Doing(r, "uncount stream")
      PROVE  Cardinality(At("complete stream")) + 1 <= Cardinality(Open)
  <2> DEFINE S == At("complete stream") \cup {r}
  <2>1. Owes(r, "complete stream") /\ ~Metrics!Doing(r, "complete stream")
    BY <1>2, <1>4, Pair
  <2>2. S \subseteq Caller /\ r \notin At("complete stream")
    BY <2>1 DEF At
  <2>3. \A q \in S : CallIs(q, {"stream_completed"}) /\ Owes(q, "complete stream")
    BY <1>1, <1>4, <2>1, WhoDoes DEF At, CallIs
  <2>4. \A q \in S : CallIs(q, EntityCalls) /\ reportTask[q].id \in Open
    BY <2>2, <2>3 DEF EntriesIInv, Entry, CallIs, EntityCalls
  <2>5. IsFiniteSet(Open)
    <3>1. Open \subseteq StreamId
      BY DEF EntriesIInv, Open
    <3>2. QED
      BY <3>1, MetricsAssumption, FS_Subset
  <2> HIDE DEF S
  <2>6. Cardinality(S) <= Cardinality(Open)
    BY <2>2, <2>4, <2>5, NoMoreThanEntries DEF S
  <2>7. Cardinality(S) = Cardinality(At("complete stream")) + 1
    BY <2>2, FinitelyManyAt, FS_AddElement DEF S
  <2>8. QED
    BY <2>6, <2>7
<1>5. QED
  BY <1>3, <1>4

\* What a step does to the gauge and the entries of sessions, or of streams
SessionsCount(x, id) ==
  \/ /\ x = "count session" /\ gauges'.active_sessions = gauges.active_sessions + 1
     /\ DOMAIN sessionMetrics' = DOMAIN sessionMetrics
  \/ /\ x = "uncount session"
     /\ gauges'.active_sessions = Metrics!Dec(gauges.active_sessions)
     /\ DOMAIN sessionMetrics' = DOMAIN sessionMetrics
  \/ /\ x = "add session" /\ gauges'.active_sessions = gauges.active_sessions
     /\ id \notin DOMAIN sessionMetrics /\ DOMAIN sessionMetrics' = DOMAIN sessionMetrics \cup {id}
  \/ /\ x = "remove session" /\ gauges'.active_sessions = gauges.active_sessions
     /\ id \in DOMAIN sessionMetrics /\ DOMAIN sessionMetrics' = DOMAIN sessionMetrics \ {id}
  \/ /\ x \notin {"count session", "uncount session", "add session", "remove session"}
     /\ gauges'.active_sessions = gauges.active_sessions
     /\ DOMAIN sessionMetrics' = DOMAIN sessionMetrics

StreamsCount(x, id) ==
  \/ /\ x = "count stream" /\ gauges'.active_streams = gauges.active_streams + 1
     /\ Open' = Open
  \/ /\ x = "uncount stream"
     /\ gauges'.active_streams = Metrics!Dec(gauges.active_streams)
     /\ Open' = Open
  \/ /\ x = "add stream" /\ gauges'.active_streams = gauges.active_streams
     /\ id \notin Open /\ Open' = Open \cup {id}
  \/ /\ x = "complete stream" /\ gauges'.active_streams = gauges.active_streams
     /\ id \in Open /\ Open' = Open \ {id}
  \/ /\ x \notin {"count stream", "uncount stream", "add stream", "complete stream"}
     /\ gauges'.active_streams = gauges.active_streams
     /\ Open' = Open

\* The gauge of sessions and the entries
LEMMA SessionGaugeMoves ==
  ASSUME TasksIInv, EntriesIInv, GaugeTypes, SessionGauge, NEW r \in Caller, Moved(r), NEW x,
         Metrics!Doing(r, x), NEW id,
         SessionsCount(x, id)
  PROVE  SessionGauge'
<1> DEFINE active   == gauges.active_sessions
           adding   == Cardinality(At("add session"))
           removing == Cardinality(At("remove session"))
           entries  == DOMAIN sessionMetrics
<1>1. active \in Nat /\ adding \in Nat /\ removing \in Nat /\ adding' \in Nat /\ removing' \in Nat
      /\ active + removing = Cardinality(entries) + adding
  BY FinitelyManyAt DEF GaugeTypes, SessionGauge
<1>2. x = Head(reportTask[r].todo)
  BY DEF Metrics!Doing
<1>3. /\ x = "count session" => adding' = adding + 1
      /\ x = "add session" => adding' = adding - 1
      /\ x \notin {"count session", "add session"} => adding' = adding
  <2>1. PICK p \in Follows : p[1] = "count session" /\ p[2] = "add session"
    BY Pair, Zenon
  <2>2. QED
    BY <1>2, <2>1, AtMoves
<1>4. /\ x = "uncount session" => removing' = removing + 1
      /\ x = "remove session" => removing' = removing - 1
      /\ x \notin {"uncount session", "remove session"} => removing' = removing
  <2>1. PICK p \in Follows : p[1] = "uncount session" /\ p[2] = "remove session"
    BY Pair, Zenon
  <2>2. QED
    BY <1>2, <2>1, AtMoves
<1>5. IsFiniteSet(entries) /\ Cardinality(entries) \in Nat
  <2>1. entries \subseteq SessionId
    BY DEF EntriesIInv
  <2>2. QED
    BY <2>1, ReportersAssumption, FS_Subset, FS_CardinalityType
<1>6. x = "uncount session" => removing + 1 <= Cardinality(entries)
  BY SomethingToCount
<1>7. ASSUME x = "uncount session" PROVE active > 0
  <2>1. removing + 1 <= Cardinality(entries)
    BY <1>6, <1>7
  <2> HIDE DEF active, adding, removing, entries
  <2>2. QED
    BY <1>1, <1>5, <2>1
<1>8. \A e : /\ Cardinality(entries \cup {e}) = IF e \in entries THEN Cardinality(entries)
                                                ELSE Cardinality(entries) + 1
             /\ Cardinality(entries \ {e}) = IF e \in entries THEN Cardinality(entries) - 1
                                             ELSE Cardinality(entries)
  BY <1>5, FS_AddElement, FS_RemoveElement
<1>9. \/ /\ x = "count session" /\ active' = active + 1 /\ entries' = entries
      \/ /\ x = "uncount session" /\ active' = active - 1 /\ entries' = entries
      \/ /\ x = "add session" /\ active' = active /\ id \notin entries /\ entries' = entries \cup {id}
      \/ /\ x = "remove session" /\ active' = active /\ id \in entries /\ entries' = entries \ {id}
      \/ /\ x \notin {"count session", "uncount session", "add session", "remove session"}
         /\ active' = active /\ entries' = entries
  BY <1>1, <1>7 DEF Metrics!Dec, SessionsCount
<1>10. SessionGauge' <=> active' + removing' = Cardinality(entries') + adding'
  BY DEF SessionGauge
<1> HIDE DEF active, adding, removing, entries
<1>11. \/ /\ active' = active + 1 /\ adding' = adding + 1
          /\ removing' = removing /\ Cardinality(entries') = Cardinality(entries)
       \/ /\ active' = active - 1 /\ adding' = adding
          /\ removing' = removing + 1 /\ Cardinality(entries') = Cardinality(entries)
       \/ /\ active' = active /\ adding' = adding - 1
          /\ removing' = removing /\ Cardinality(entries') = Cardinality(entries) + 1
       \/ /\ active' = active /\ adding' = adding
          /\ removing' = removing - 1 /\ Cardinality(entries') = Cardinality(entries) - 1
       \/ /\ active' = active /\ adding' = adding
          /\ removing' = removing /\ Cardinality(entries') = Cardinality(entries)
  <2>1. CASE x = "count session"
    BY <1>3, <1>4, <1>9, <2>1
  <2>2. CASE x = "uncount session"
    BY <1>3, <1>4, <1>9, <2>2
  <2>3. CASE x = "add session"
    BY <1>3, <1>4, <1>8, <1>9, <2>3
  <2>4. CASE x = "remove session"
    BY <1>3, <1>4, <1>8, <1>9, <2>4
  <2>5. CASE x \notin {"count session", "uncount session", "add session", "remove session"}
    BY <1>3, <1>4, <1>9, <2>5
  <2>6. QED
    BY <2>1, <2>2, <2>3, <2>4, <2>5
<1>12. active' + removing' = Cardinality(entries') + adding'
  BY <1>1, <1>5, <1>11
<1>13. QED
  BY <1>10, <1>12

\* The gauge of streams and the entries
LEMMA StreamGaugeMoves ==
  ASSUME TasksIInv, EntriesIInv, GaugeTypes, StreamGauge, NEW r \in Caller, Moved(r), NEW x,
         Metrics!Doing(r, x), NEW id,
         StreamsCount(x, id)
  PROVE  StreamGauge'
<1> DEFINE active     == gauges.active_streams
           crediting  == Cardinality(At("credit session"))
           adding     == Cardinality(At("add stream"))
           completing == Cardinality(At("complete stream"))
           entries    == Open
<1>1. /\ active \in Nat /\ crediting \in Nat /\ adding \in Nat /\ completing \in Nat
      /\ crediting' \in Nat /\ adding' \in Nat /\ completing' \in Nat
      /\ active + completing = Cardinality(entries) + crediting + adding
  BY FinitelyManyAt DEF GaugeTypes, StreamGauge
<1>2. x = Head(reportTask[r].todo)
  BY DEF Metrics!Doing
<1>3. /\ x = "count stream" => crediting' = crediting + 1
      /\ x = "credit session" => crediting' = crediting - 1
      /\ x \notin {"count stream", "credit session"} => crediting' = crediting
  <2>1. PICK p \in Follows : p[1] = "count stream" /\ p[2] = "credit session"
    BY Pair, Zenon
  <2>2. QED
    BY <1>2, <2>1, AtMoves
<1>4. /\ x = "credit session" => adding' = adding + 1
      /\ x = "add stream" => adding' = adding - 1
      /\ x \notin {"credit session", "add stream"} => adding' = adding
  <2>1. PICK p \in Follows : p[1] = "credit session" /\ p[2] = "add stream"
    BY Pair, Zenon
  <2>2. QED
    BY <1>2, <2>1, AtMoves
<1>5. /\ x = "uncount stream" => completing' = completing + 1
      /\ x = "complete stream" => completing' = completing - 1
      /\ x \notin {"uncount stream", "complete stream"} => completing' = completing
  <2>1. PICK p \in Follows : p[1] = "uncount stream" /\ p[2] = "complete stream"
    BY Pair, Zenon
  <2>2. QED
    BY <1>2, <2>1, AtMoves
<1>6. IsFiniteSet(entries) /\ Cardinality(entries) \in Nat
  <2>1. entries \subseteq StreamId
    BY DEF EntriesIInv, Open
  <2> HIDE DEF entries
  <2>2. QED
    BY <2>1, MetricsAssumption, FS_Subset, FS_CardinalityType
<1>7. x = "uncount stream" => completing + 1 <= Cardinality(entries)
  BY SomethingToCount
<1>8. ASSUME x = "uncount stream" PROVE active > 0
  <2>1. completing + 1 <= Cardinality(entries)
    BY <1>7, <1>8
  <2> HIDE DEF active, crediting, adding, completing, entries
  <2>2. QED
    BY <1>1, <1>6, <2>1
<1>9. \A e : /\ Cardinality(entries \cup {e}) = IF e \in entries THEN Cardinality(entries)
                                                ELSE Cardinality(entries) + 1
             /\ Cardinality(entries \ {e}) = IF e \in entries THEN Cardinality(entries) - 1
                                             ELSE Cardinality(entries)
  BY <1>6, FS_AddElement, FS_RemoveElement
<1>10. \/ /\ x = "count stream" /\ active' = active + 1 /\ entries' = entries
       \/ /\ x = "uncount stream" /\ active' = active - 1 /\ entries' = entries
       \/ /\ x = "add stream" /\ active' = active /\ id \notin entries /\ entries' = entries \cup {id}
       \/ /\ x = "complete stream" /\ active' = active /\ id \in entries /\ entries' = entries \ {id}
       \/ /\ x \notin {"count stream", "uncount stream", "add stream", "complete stream"}
          /\ active' = active /\ entries' = entries
  BY <1>1, <1>8 DEF Metrics!Dec, StreamsCount
<1>11. StreamGauge' <=> active' + completing' = Cardinality(entries') + crediting' + adding'
  BY DEF StreamGauge
<1> HIDE DEF active, crediting, adding, completing, entries
<1>12. \/ /\ active' = active + 1 /\ crediting' = crediting + 1 /\ adding' = adding
          /\ completing' = completing /\ Cardinality(entries') = Cardinality(entries)
       \/ /\ active' = active - 1 /\ crediting' = crediting /\ adding' = adding
          /\ completing' = completing + 1 /\ Cardinality(entries') = Cardinality(entries)
       \/ /\ active' = active /\ crediting' = crediting /\ adding' = adding - 1
          /\ completing' = completing /\ Cardinality(entries') = Cardinality(entries) + 1
       \/ /\ active' = active /\ crediting' = crediting - 1 /\ adding' = adding + 1
          /\ completing' = completing /\ Cardinality(entries') = Cardinality(entries)
       \/ /\ active' = active /\ crediting' = crediting /\ adding' = adding
          /\ completing' = completing - 1 /\ Cardinality(entries') = Cardinality(entries) - 1
       \/ /\ active' = active /\ crediting' = crediting /\ adding' = adding
          /\ completing' = completing /\ Cardinality(entries') = Cardinality(entries)
  <2>1. CASE x = "count stream"
    BY <1>3, <1>4, <1>5, <1>10, <2>1
  <2>2. CASE x = "uncount stream"
    BY <1>3, <1>4, <1>5, <1>10, <2>2
  <2>3. CASE x = "add stream"
    BY <1>3, <1>4, <1>5, <1>9, <1>10, <2>3
  <2>4. CASE x = "credit session"
    BY <1>3, <1>4, <1>5, <1>10, <2>4
  <2>5. CASE x = "complete stream"
    BY <1>3, <1>4, <1>5, <1>9, <1>10, <2>5
  <2>6. CASE x \notin {"count stream", "uncount stream", "add stream", "credit session", "complete stream"}
    BY <1>3, <1>4, <1>5, <1>10, <2>6
  <2>7. QED
    BY <2>1, <2>2, <2>3, <2>4, <2>5, <2>6
<1>13. active' + completing' = Cardinality(entries') + crediting' + adding'
  BY <1>1, <1>6, <1>12
<1>14. QED
  BY <1>11, <1>13

\* Callers about to add a stream of a session
LEMMA CreditingMoves ==
  ASSUME TasksIInv, NEW r \in Caller, Moved(r), NEW x, Metrics!Doing(r, x), NEW s
  PROVE  /\ IsFiniteSet(Crediting(s)) /\ Cardinality(Crediting(s)) \in Nat
         /\ Cardinality(Crediting(s)') \in Nat
         /\ x = "credit session" /\ reportTask[r].of = s =>
              Cardinality(Crediting(s)') = Cardinality(Crediting(s)) + 1
         /\ x = "add stream" /\ reportTask[r].of = s =>
              Cardinality(Crediting(s)') = Cardinality(Crediting(s)) - 1
         /\ x \notin {"credit session", "add stream"} \/ reportTask[r].of # s =>
              Crediting(s)' = Crediting(s)
<1>1. /\ reportTask[r] # Metrics!Idle
      /\ \A q \in Caller \ {r} : reportTask'[q] = reportTask[q]
      /\ reportTask'[r] # Metrics!Idle => reportTask'[r].of = reportTask[r].of
      /\ \A p \in Follows : Metrics!Doing(r, p[2])' <=> Metrics!Doing(r, p[1])
  BY DEF Moved
<1>2. \A y : Metrics!Doing(r, y) <=> y = x
  BY <1>1, WhatATaskIs DEF Metrics!Doing
<1>3. \A q \in Caller \ {r} : Metrics!Doing(q, "add stream")' <=> Metrics!Doing(q, "add stream")
  BY <1>1 DEF Metrics!Doing
<1>4. Metrics!Doing(r, "add stream")' <=> x = "credit session"
  <2>1. PICK p \in Follows : p[1] = "credit session" /\ p[2] = "add stream"
    BY Pair, Zenon
  <2>2. QED
    BY <1>1, <1>2, <2>1
<1>5. ASSUME Metrics!Doing(r, "add stream")' PROVE reportTask'[r].of = reportTask[r].of
  <2>1. reportTask'[r].todo # << >>
    BY <1>5 DEF Metrics!Doing
  <2>2. reportTask'[r] # Metrics!Idle
    BY <2>1 DEF Metrics!Idle
  <2>3. QED
    BY <1>1, <2>2
<1>6. \A S \in SUBSET Caller : IsFiniteSet(S) /\ Cardinality(S) \in Nat
  BY ReportersAssumption, FS_Subset, FS_CardinalityType
<1>7. Crediting(s) \in SUBSET Caller /\ Crediting(s)' \in SUBSET Caller
  BY DEF Crediting, At
<1>8. \A q \in Caller : /\ q \in Crediting(s) <=> Metrics!Doing(q, "add stream") /\ reportTask[q].of = s
                        /\ q \in Crediting(s)' <=> Metrics!Doing(q, "add stream")' /\ reportTask'[q].of = s
  BY DEF Crediting, At
<1>9. CASE x = "credit session" /\ reportTask[r].of = s
  <2>1. Crediting(s)' = Crediting(s) \cup {r} /\ r \notin Crediting(s)
    BY <1>1, <1>2, <1>3, <1>4, <1>5, <1>7, <1>8, <1>9
  <2>2. QED
    BY <1>6, <1>7, <1>9, <2>1, FS_AddElement
<1>10. CASE x = "add stream" /\ reportTask[r].of = s
  <2>1. Crediting(s)' = Crediting(s) \ {r} /\ r \in Crediting(s)
    BY <1>1, <1>2, <1>3, <1>4, <1>5, <1>7, <1>8, <1>10
  <2>2. QED
    BY <1>6, <1>7, <1>10, <2>1, FS_RemoveElement
<1>11. CASE x \notin {"credit session", "add stream"} \/ reportTask[r].of # s
  <2>1. Crediting(s)' = Crediting(s)
    BY <1>1, <1>2, <1>3, <1>4, <1>5, <1>7, <1>8, <1>11
  <2>2. QED
    BY <1>6, <1>7, <1>11, <2>1
<1>12. QED
  BY <1>9, <1>10, <1>11

\* A step elsewhere leaves those crediting a session alone.
LEMMA CreditingStays ==
  ASSUME TasksIInv, NEW r \in Caller, Moved(r), NEW x, Metrics!Doing(r, x),
         x \notin {"credit session", "add stream"}
  PROVE  \A s : Crediting(s)' = Crediting(s)
<1>1. SUFFICES ASSUME NEW s PROVE Crediting(s)' = Crediting(s)
  OBVIOUS
<1>2. QED
  BY CreditingMoves

\* A step that touches no entry
LEMMA EntriesUntouched ==
  ASSUME TasksIInv, TasksIInv', EntriesIInv, GaugesIInv, NEW r \in Caller, Moved(r),
         NEW x, Metrics!Doing(r, x),
         x \notin {"add session", "remove session", "credit session", "add stream", "complete stream"},
         UNCHANGED << sessionMetrics, streamMetrics, sessionsBegun, sessionsEnded >>,
         GaugeTypes',
         \/ x = "count session" /\ gauges'.active_sessions = gauges.active_sessions + 1
         \/ x = "uncount session" /\ gauges'.active_sessions = Metrics!Dec(gauges.active_sessions)
         \/ /\ x \notin {"count session", "uncount session"}
            /\ gauges'.active_sessions = gauges.active_sessions,
         \/ x = "count stream" /\ gauges'.active_streams = gauges.active_streams + 1
         \/ x = "uncount stream" /\ gauges'.active_streams = Metrics!Dec(gauges.active_streams)
         \/ /\ x \notin {"count stream", "uncount stream"}
            /\ gauges'.active_streams = gauges.active_streams
  PROVE  EntriesIInv' /\ GaugesIInv'
<1>1. PICK id, kind : id = reportTask[r].id /\ kind = reportTask[r].call
  OBVIOUS
<1>2. reportTask[r] # Metrics!Idle /\ x = Head(reportTask[r].todo)
  BY DEF Moved, Metrics!Doing
<1>3. Open' = Open /\ EntryTypes' /\ \A s : StreamsOf(s)' = StreamsOf(s)
  BY DEF Open, EntryTypes, EntriesIInv, StreamsOf
<1>4. Entry(r, kind, id)'
  <2>1. Entry(r, kind, id)
    BY <1>1, <1>2 DEF EntriesIInv
  <2>2. \A y \in {"add session", "remove session", "add stream", "complete stream"} :
          Owes(r, y)' <=> Owes(r, y)
    BY <1>2 DEF Moved
  <2>3. sessionMetrics' = sessionMetrics /\ streamMetrics' = streamMetrics
    OBVIOUS
  <2>4. QED
    BY <1>3, <2>1, <2>2, <2>3 DEF Entry
<1>5. EntriesIInv'
  BY <1>1, <1>3, <1>4, EntriesMove
<1>6. SessionsCount(x, id) /\ StreamsCount(x, id)
  BY <1>3 DEF SessionsCount, StreamsCount
<1>7. Credits'
  <2>1. \A s : Crediting(s)' = Crediting(s)
    BY CreditingStays
  <2>2. QED
    BY <1>3, <2>1 DEF Credits, GaugesIInv
<1>8. SessionGauge'
  BY <1>6, SessionGaugeMoves DEF GaugesIInv
<1>9. StreamGauge'
  BY <1>6, StreamGaugeMoves DEF GaugesIInv
<1>10. QED
  BY <1>5, <1>7, <1>8, <1>9 DEF GaugesIInv

\* A step that touches the entries of its own session or stream
LEMMA EntriesTouched ==
  ASSUME TasksIInv, TasksIInv', EntriesIInv, GaugesIInv, NEW r \in Caller, Moved(r),
         NEW x, Metrics!Doing(r, x), NEW id, id = reportTask[r].id, NEW kind, kind = reportTask[r].call,
         UNCHANGED << sessionsBegun, sessionsEnded, gauges >>,
         EntryTypes', Entry(r, kind, id)', SessionsCount(x, id), StreamsCount(x, id), Credits',
         \A k : ~(kind \in EntityCalls /\ k = id) =>
           /\ k \in DOMAIN sessionMetrics' <=> k \in DOMAIN sessionMetrics
           /\ k \in DOMAIN streamMetrics' <=> k \in DOMAIN streamMetrics
           /\ k \in Open' <=> k \in Open
  PROVE  EntriesIInv' /\ GaugesIInv'
<1>1. EntriesIInv'
  BY EntriesMove
<1>2. GaugeTypes'
  BY DEF GaugesIInv, GaugeTypes
<1>3. SessionGauge' /\ StreamGauge'
  BY SessionGaugeMoves, StreamGaugeMoves DEF GaugesIInv
<1>4. QED
  BY <1>1, <1>2, <1>3 DEF GaugesIInv

\* What of a step's own entry is owed before it and after it
LEMMA OwnEntry ==
  ASSUME TasksIInv, EntriesIInv, NEW r \in Caller, Moved(r), NEW x, Metrics!Doing(r, x)
  PROVE  /\ Entry(r, reportTask[r].call, reportTask[r].id)
         /\ \A y : Owes(r, y)' <=> Owes(r, y) /\ y # x
         /\ Owes(r, x) /\ IsAbout(reportTask[r])
         /\ reportTask[r].call \in EntityCalls => reportTask[r].id \in sessionsBegun
<1>1. reportTask[r] # Metrics!Idle /\ x = Head(reportTask[r].todo)
  BY DEF Moved, Metrics!Doing
<1>2. Entry(r, reportTask[r].call, reportTask[r].id)
  BY <1>1 DEF EntriesIInv
<1>3. IsAbout(reportTask[r])
  BY <1>1, WhatATaskIs
<1>4. sessionsEnded \subseteq sessionsBegun
  BY DEF TasksIInv
<1>5. reportTask[r].call \in EntityCalls => reportTask[r].id \in sessionsBegun
  BY <1>3, <1>4 DEF IsAbout, EntityCalls
<1>6. QED
  BY <1>1, <1>2, <1>3, <1>5 DEF Moved

\* The second step of a pair: the entry comes or goes, the caller leaves the set
\* between the two, and gauge and entries are as far apart as callers are left.
LEMMA AddSessionKeeps ==
  ASSUME TasksIInv, EntriesIInv, GaugesIInv, NEW r \in Caller, Metrics!AddSession(r)
  PROVE  TasksIInv' /\ EntriesIInv' /\ GaugesIInv'
<1>1. /\ Metrics!Doing(r, "add session") /\ Metrics!Done(r)
      /\ sessionMetrics' = Metrics!Insert(sessionMetrics, reportTask[r].id, 0)
      /\ UNCHANGED << setting, vectors, sessionsBegun, sessionsEnded, timings, gauges, streamMetrics >>
  BY DEF Metrics!AddSession, Metrics!Others, Metrics!Arg
<1>2. TasksIInv' /\ Moved(r)
  BY <1>1, MemoryMoves
<1>3. PICK id, kind : id = reportTask[r].id /\ kind = reportTask[r].call
  OBVIOUS
<1>4. kind = "session_created"
  BY <1>1, <1>3, WhoDoes
<1>5. /\ Entry(r, kind, id) /\ Owes(r, "add session") /\ ~Owes(r, "add session")'
      /\ id \in SessionId /\ id \in sessionsBegun
  BY <1>1, <1>2, <1>3, <1>4, OwnEntry DEF IsAbout
<1>6. id \notin DOMAIN sessionMetrics
  BY <1>4, <1>5 DEF Entry
<1>7. /\ DOMAIN sessionMetrics' = DOMAIN sessionMetrics \cup {id} /\ sessionMetrics'[id] = 0
      /\ \A s \in DOMAIN sessionMetrics : sessionMetrics'[s] = sessionMetrics[s]
  BY <1>1, <1>3, <1>6 DEF Metrics!Insert
<1>8. Open' = Open /\ \A s : StreamsOf(s)' = StreamsOf(s)
  BY <1>1 DEF Open, StreamsOf
<1>9. Entry(r, kind, id)'
  BY <1>4, <1>5, <1>7 DEF Entry
<1>10. EntryTypes'
  BY <1>1, <1>5, <1>7 DEF EntryTypes, EntriesIInv
<1>11. SessionsCount("add session", id) /\ StreamsCount("add session", id)
  BY <1>1, <1>6, <1>7, <1>8 DEF SessionsCount, StreamsCount
<1>12. Credits'
  <2>1. \A s : /\ Crediting(s)' = Crediting(s) /\ Cardinality(Crediting(s)) \in Nat
               /\ Cardinality(StreamsOf(s)) \in Nat
    <3>1. \A s : StreamsOf(s) \subseteq StreamId
      BY DEF StreamsOf, EntriesIInv
    <3>2. \A s : Cardinality(StreamsOf(s)) \in Nat
      BY <3>1, MetricsAssumption, FS_Subset, FS_CardinalityType
    <3>3. PICK x : x = "add session"
      OBVIOUS
    <3>4. \A s : Crediting(s)' = Crediting(s)
      BY <1>1, <1>2, <3>3, CreditingStays
    <3>5. \A s : Cardinality(Crediting(s)) \in Nat
      BY ReportersAssumption, FS_Subset, FS_CardinalityType DEF Crediting, At
    <3>6. QED
      BY <3>2, <3>4, <3>5
  <2>2. 0 \in Nat /\ \A m, n \in Nat : 0 <= m + n
    OBVIOUS
  <2>3. QED
    BY <1>7, <1>8, <2>1, <2>2 DEF Credits, GaugesIInv
<1>13. QED
  BY <1>1, <1>2, <1>3, <1>4, <1>7, <1>8, <1>9, <1>10, <1>11, <1>12, EntriesTouched DEF EntityCalls

\* The entry of a session goes.
LEMMA RemoveSessionKeeps ==
  ASSUME TasksIInv, EntriesIInv, GaugesIInv, NEW r \in Caller, Metrics!RemoveSession(r)
  PROVE  TasksIInv' /\ EntriesIInv' /\ GaugesIInv'
<1>1. /\ Metrics!Doing(r, "remove session") /\ Metrics!Done(r)
      /\ sessionMetrics' = [s \in DOMAIN sessionMetrics \ {reportTask[r].id} |-> sessionMetrics[s]]
      /\ UNCHANGED << setting, vectors, sessionsBegun, sessionsEnded, timings, gauges, streamMetrics >>
  BY DEF Metrics!RemoveSession, Metrics!Others, Metrics!Arg
<1>2. TasksIInv' /\ Moved(r)
  BY <1>1, MemoryMoves
<1>3. PICK id, kind : id = reportTask[r].id /\ kind = reportTask[r].call
  OBVIOUS
<1>4. kind = "session_ended"
  BY <1>1, <1>3, WhoDoes
<1>5. Entry(r, kind, id) /\ Owes(r, "remove session") /\ ~Owes(r, "remove session")'
  BY <1>1, <1>2, <1>3, OwnEntry
<1>6. id \in DOMAIN sessionMetrics
  BY <1>4, <1>5 DEF Entry
<1>7. /\ DOMAIN sessionMetrics' = DOMAIN sessionMetrics \ {id}
      /\ \A s \in DOMAIN sessionMetrics' : sessionMetrics'[s] = sessionMetrics[s]
  BY <1>1, <1>3
<1>8. Open' = Open /\ \A s : StreamsOf(s)' = StreamsOf(s)
  BY <1>1 DEF Open, StreamsOf
<1>9. Entry(r, kind, id)'
  BY <1>4, <1>5, <1>7 DEF Entry
<1>10. EntryTypes'
  BY <1>1, <1>7 DEF EntryTypes, EntriesIInv
<1>11. SessionsCount("remove session", id) /\ StreamsCount("remove session", id)
  BY <1>1, <1>6, <1>7, <1>8 DEF SessionsCount, StreamsCount
<1>12. Credits'
  <2>1. \A s : Crediting(s)' = Crediting(s)
    <3>1. PICK x : x = "remove session"
      OBVIOUS
    <3>2. QED
      BY <1>1, <1>2, <3>1, CreditingStays
  <2>2. QED
    BY <1>7, <1>8, <2>1 DEF Credits, GaugesIInv
<1>13. QED
  BY <1>1, <1>2, <1>3, <1>4, <1>7, <1>8, <1>9, <1>10, <1>11, <1>12, EntriesTouched DEF EntityCalls

\* A session is credited with a stream, and the caller goes on to add it.
LEMMA CreditSessionKeeps ==
  ASSUME TasksIInv, EntriesIInv, GaugesIInv, NEW r \in Caller, Metrics!CreditSession(r)
  PROVE  TasksIInv' /\ EntriesIInv' /\ GaugesIInv'
<1> DEFINE of == reportTask[r].of
<1>1. /\ Metrics!Doing(r, "credit session") /\ Metrics!Done(r)
      /\ sessionMetrics' = [s \in DOMAIN sessionMetrics |-> sessionMetrics[s] + IF s = of THEN 1 ELSE 0]
      /\ UNCHANGED << setting, vectors, sessionsBegun, sessionsEnded, timings, gauges, streamMetrics >>
  BY DEF Metrics!CreditSession, Metrics!Others
<1>2. TasksIInv' /\ Moved(r)
  BY <1>1, MemoryMoves
<1>3. PICK id, kind : id = reportTask[r].id /\ kind = reportTask[r].call
  OBVIOUS
<1>4. kind = "stream_created"
  BY <1>1, <1>3, WhoDoes
<1>5. Entry(r, kind, id) /\ (Owes(r, "add stream")' <=> Owes(r, "add stream"))
  BY <1>1, <1>2, <1>3, OwnEntry
<1>6. DOMAIN sessionMetrics' = DOMAIN sessionMetrics
  BY <1>1
<1>7. Open' = Open /\ \A s : StreamsOf(s)' = StreamsOf(s)
  BY <1>1 DEF Open, StreamsOf
<1>8. Entry(r, kind, id)'
  BY <1>1, <1>4, <1>5, <1>7 DEF Entry
<1>9. EntryTypes'
  BY <1>1, <1>6 DEF EntryTypes, EntriesIInv
<1>10. SessionsCount("credit session", id) /\ StreamsCount("credit session", id)
  BY <1>1, <1>6, <1>7 DEF SessionsCount, StreamsCount
<1>11. ASSUME NEW s \in DOMAIN sessionMetrics'
       PROVE  /\ sessionMetrics'[s] \in Nat
              /\ sessionMetrics'[s] <= Cardinality(StreamsOf(s)') + Cardinality(Crediting(s)')
  <2> DEFINE n == Cardinality(StreamsOf(s))
             c == Cardinality(Crediting(s))
             d == Cardinality(Crediting(s)')
             v == sessionMetrics[s]
  <2>1. v \in Nat /\ v <= n + c
    BY <1>6, <1>11 DEF GaugesIInv, Credits
  <2>2. n \in Nat
    <3>1. StreamsOf(s) \subseteq StreamId
      BY DEF StreamsOf, EntriesIInv
    <3>2. QED
      BY <3>1, MetricsAssumption, FS_Subset, FS_CardinalityType
  <2>3. c \in Nat /\ (of = s => d = c + 1) /\ (of # s => d = c)
    BY <1>1, <1>2, CreditingMoves
  <2>4. sessionMetrics'[s] = v + IF s = of THEN 1 ELSE 0
    BY <1>1, <1>6, <1>11
  <2>5. Cardinality(StreamsOf(s)') = n
    BY <1>7
  <2> HIDE DEF n, c, d, v, of
  <2>6. CASE s = of
    BY <2>1, <2>2, <2>3, <2>4, <2>5, <2>6 DEF d
  <2>7. CASE s # of
    BY <2>1, <2>2, <2>3, <2>4, <2>5, <2>7 DEF d
  <2>8. QED
    BY <2>6, <2>7
<1>12. Credits'
  BY <1>11 DEF Credits
<1>13. QED
  BY <1>1, <1>2, <1>3, <1>4, <1>6, <1>7, <1>8, <1>9, <1>10, <1>12, EntriesTouched DEF EntityCalls

\* The entry of a stream comes, open.
LEMMA AddStreamKeeps ==
  ASSUME TasksIInv, EntriesIInv, GaugesIInv, NEW r \in Caller, Metrics!AddStream(r)
  PROVE  TasksIInv' /\ EntriesIInv' /\ GaugesIInv'
<1> DEFINE of == reportTask[r].of
<1>1. /\ Metrics!Doing(r, "add stream") /\ Metrics!Done(r)
      /\ streamMetrics' = Metrics!Insert(streamMetrics, reportTask[r].id, [session |-> of, open |-> TRUE])
      /\ UNCHANGED << setting, vectors, sessionsBegun, sessionsEnded, timings, gauges, sessionMetrics >>
  BY DEF Metrics!AddStream, Metrics!Others, Metrics!Arg
<1>2. TasksIInv' /\ Moved(r)
  BY <1>1, MemoryMoves
<1>3. PICK id, kind : id = reportTask[r].id /\ kind = reportTask[r].call
  OBVIOUS
<1>4. kind = "stream_created"
  BY <1>1, <1>3, WhoDoes
<1>5. /\ Entry(r, kind, id) /\ Owes(r, "add stream") /\ ~Owes(r, "add stream")'
      /\ id \in StreamId /\ id \in sessionsBegun
  BY <1>1, <1>2, <1>3, <1>4, OwnEntry DEF IsAbout
<1>6. id \notin DOMAIN streamMetrics /\ id \notin Open
  BY <1>4, <1>5 DEF Entry
<1>7. /\ DOMAIN streamMetrics' = DOMAIN streamMetrics \cup {id}
      /\ streamMetrics'[id] = [session |-> of, open |-> TRUE]
      /\ \A t \in DOMAIN streamMetrics : streamMetrics'[t] = streamMetrics[t]
  BY <1>1, <1>3, <1>6 DEF Metrics!Insert
<1>8. Open' = Open \cup {id}
  BY <1>6, <1>7 DEF Open
<1>9. \A s : /\ s = of => StreamsOf(s)' = StreamsOf(s) \cup {id} /\ id \notin StreamsOf(s)
             /\ s # of => StreamsOf(s)' = StreamsOf(s)
  BY <1>6, <1>7 DEF StreamsOf
<1>10. Entry(r, kind, id)'
  BY <1>4, <1>5, <1>7, <1>8 DEF Entry
<1>11. EntryTypes'
  BY <1>1, <1>5, <1>7 DEF EntryTypes, EntriesIInv
<1>12. SessionsCount("add stream", id) /\ StreamsCount("add stream", id)
  BY <1>1, <1>6, <1>8 DEF SessionsCount, StreamsCount
<1>13. ASSUME NEW s \in DOMAIN sessionMetrics'
       PROVE  /\ sessionMetrics'[s] \in Nat
              /\ sessionMetrics'[s] <= Cardinality(StreamsOf(s)') + Cardinality(Crediting(s)')
  <2> DEFINE n == Cardinality(StreamsOf(s))
             m == Cardinality(StreamsOf(s)')
             c == Cardinality(Crediting(s))
             d == Cardinality(Crediting(s)')
             v == sessionMetrics[s]
  <2>1. v \in Nat /\ v <= n + c /\ sessionMetrics'[s] = v
    BY <1>1, <1>13 DEF GaugesIInv, Credits
  <2>2. IsFiniteSet(StreamsOf(s)) /\ n \in Nat
    <3>1. StreamsOf(s) \subseteq StreamId
      BY DEF StreamsOf, EntriesIInv
    <3>2. QED
      BY <3>1, MetricsAssumption, FS_Subset, FS_CardinalityType
  <2>3. c \in Nat /\ d \in Nat /\ (of = s => d = c - 1) /\ (of # s => d = c)
    BY <1>1, <1>2, CreditingMoves
  <2>4. (of = s => m = n + 1) /\ (of # s => m = n)
    BY <1>9, <2>2, FS_AddElement
  <2> HIDE DEF n, m, c, d, v, of
  <2>5. v <= m + d
    BY <2>1, <2>2, <2>3, <2>4
  <2>6. QED
    BY <2>1, <2>5 DEF m, d
<1>14. Credits'
  BY <1>13 DEF Credits
<1>15. QED
  BY <1>1, <1>2, <1>3, <1>4, <1>7, <1>8, <1>10, <1>11, <1>12, <1>14, EntriesTouched DEF EntityCalls

\* The entry of a stream is closed.
LEMMA CompleteStreamKeeps ==
  ASSUME TasksIInv, EntriesIInv, GaugesIInv, NEW r \in Caller, Metrics!CompleteStream(r)
  PROVE  TasksIInv' /\ EntriesIInv' /\ GaugesIInv'
<1>1. /\ Metrics!Doing(r, "complete stream") /\ Metrics!Done(r)
      /\ streamMetrics' = [t \in DOMAIN streamMetrics |->
                             IF t = reportTask[r].id THEN [streamMetrics[t] EXCEPT !.open = FALSE]
                             ELSE streamMetrics[t]]
      /\ UNCHANGED << setting, vectors, sessionsBegun, sessionsEnded, timings, gauges, sessionMetrics >>
  BY DEF Metrics!CompleteStream, Metrics!Others, Metrics!Arg
<1>2. TasksIInv' /\ Moved(r)
  BY <1>1, MemoryMoves
<1>3. PICK id, kind : id = reportTask[r].id /\ kind = reportTask[r].call
  OBVIOUS
<1>4. kind = "stream_completed"
  BY <1>1, <1>3, WhoDoes
<1>5. /\ Entry(r, kind, id) /\ Owes(r, "complete stream") /\ ~Owes(r, "complete stream")'
  BY <1>1, <1>2, <1>3, OwnEntry
<1>6. id \in DOMAIN streamMetrics /\ id \in Open
  BY <1>4, <1>5 DEF Entry
<1>7. \A t \in DOMAIN streamMetrics :
        streamMetrics[t] = [session |-> streamMetrics[t].session, open |-> streamMetrics[t].open]
  BY DEF EntriesIInv
<1>8. /\ DOMAIN streamMetrics' = DOMAIN streamMetrics
      /\ streamMetrics'[id] = [session |-> streamMetrics[id].session, open |-> FALSE]
      /\ \A t \in DOMAIN streamMetrics : t # id => streamMetrics'[t] = streamMetrics[t]
  <2>1. PICK e : e = streamMetrics[id]
    OBVIOUS
  <2>2. e = [session |-> e.session, open |-> e.open]
    BY <1>6, <1>7, <2>1, Zenon
  <2>3. [e EXCEPT !.open = FALSE] = [session |-> e.session, open |-> FALSE]
    <3>1. PICK s, o : s = e.session /\ o = e.open
      OBVIOUS
    <3>2. e = [session |-> s, open |-> o]
      BY <2>2, <3>1, Zenon
    <3>3. \A f : [[session |-> s, open |-> o] EXCEPT !.open = f] = [session |-> s, open |-> f]
      OBVIOUS
    <3>4. QED
      BY <3>1, <3>2, <3>3, Zenon
  <2>4. streamMetrics' = [t \in DOMAIN streamMetrics |->
                            IF t = id THEN [streamMetrics[t] EXCEPT !.open = FALSE] ELSE streamMetrics[t]]
    BY <1>1, <1>3, Zenon
  <2>5. streamMetrics'[id] = [e EXCEPT !.open = FALSE]
    BY <1>6, <2>1, <2>4, Zenon
  <2>6. QED
    BY <2>1, <2>3, <2>4, <2>5, Zenon
<1>9. \A t \in DOMAIN streamMetrics :
        /\ streamMetrics'[t].session = streamMetrics[t].session
        /\ streamMetrics'[t].open <=> streamMetrics[t].open /\ t # id
        /\ streamMetrics'[t] = [session |-> streamMetrics'[t].session, open |-> streamMetrics'[t].open]
  <2> TAKE t \in DOMAIN streamMetrics
  <2>1. CASE t = id
    BY <1>8, <2>1
  <2>2. CASE t # id
    BY <1>7, <1>8, <2>2
  <2>3. QED
    BY <2>1, <2>2
<1>10. Open' = Open \ {id} /\ \A s : StreamsOf(s)' = StreamsOf(s)
  BY <1>8, <1>9 DEF Open, StreamsOf
<1>11. Entry(r, kind, id)'
  BY <1>4, <1>5, <1>6, <1>8, <1>10 DEF Entry
<1>12. EntryTypes'
  BY <1>1, <1>8, <1>9 DEF EntryTypes, EntriesIInv
<1>13. SessionsCount("complete stream", id) /\ StreamsCount("complete stream", id)
  BY <1>1, <1>6, <1>10 DEF SessionsCount, StreamsCount
<1>14. Credits'
  <2>1. \A s : Crediting(s)' = Crediting(s)
    <3>1. PICK x : x = "complete stream"
      OBVIOUS
    <3>2. QED
      BY <1>1, <1>2, <3>1, CreditingStays
  <2>2. QED
    BY <1>1, <1>10, <2>1 DEF Credits, GaugesIInv
<1>15. QED
  BY <1>1, <1>2, <1>3, <1>4, <1>8, <1>10, <1>11, <1>12, <1>13, <1>14, EntriesTouched DEF EntityCalls

\* A step on a gauge
Gauged(r, step, a, t, s, u, f, v) ==
  /\ Metrics!Doing(r, step) /\ Metrics!Done(r)
  /\ gauges' = [active_sessions |-> a, total_sessions_created |-> t,
                active_streams |-> s, total_streams_created |-> u,
                frames_processed |-> f, average |-> v]
  /\ UNCHANGED << setting, vectors, sessionsBegun, sessionsEnded, timings, sessionMetrics, streamMetrics >>

\* Every step on the gauges, as what each gauge is before and after
LEMMA GaugeSteps ==
  ASSUME GaugeTypes, NEW r \in Caller,
         NEW a, a = gauges.active_sessions, NEW t, t = gauges.total_sessions_created,
         NEW s, s = gauges.active_streams, NEW u, u = gauges.total_streams_created,
         NEW f, f = gauges.frames_processed, NEW v, v = gauges.average
  PROVE  /\ Metrics!CountSession(r) => Gauged(r, "count session", a + 1, t + 1, s, u, f, v)
         /\ Metrics!UncountSession(r) => Gauged(r, "uncount session", Metrics!Dec(a), t, s, u, f, v)
         /\ Metrics!CountStream(r) => Gauged(r, "count stream", a, t, s + 1, u + 1, f, v)
         /\ Metrics!UncountStream(r) => Gauged(r, "uncount stream", a, t, Metrics!Dec(s), u, f, v)
         /\ Metrics!Average(r) => Gauged(r, "average", a, t, s, u, f,
                                     IF f = 0 THEN reportTask[r].id ELSE (v * f + reportTask[r].id) \div (f + 1))
         /\ Metrics!AddFrames(r) => Gauged(r, "count frames", a, t, s, u, f + reportTask[r].id, v)
<1>1. gauges = [active_sessions |-> a, total_sessions_created |-> t, active_streams |-> s,
                total_streams_created |-> u, frames_processed |-> f, average |-> v]
  BY Zenon DEF GaugeTypes
<1>2. ASSUME Metrics!CountSession(r) PROVE Gauged(r, "count session", a + 1, t + 1, s, u, f, v)
  BY <1>1, <1>2 DEF Gauged, Metrics!CountSession, Metrics!Change, Metrics!Others
<1>3. ASSUME Metrics!UncountSession(r) PROVE Gauged(r, "uncount session", Metrics!Dec(a), t, s, u, f, v)
  BY <1>1, <1>3 DEF Gauged, Metrics!UncountSession, Metrics!Change, Metrics!Others
<1>4. ASSUME Metrics!CountStream(r) PROVE Gauged(r, "count stream", a, t, s + 1, u + 1, f, v)
  BY <1>1, <1>4 DEF Gauged, Metrics!CountStream, Metrics!Change, Metrics!Others
<1>5. ASSUME Metrics!UncountStream(r) PROVE Gauged(r, "uncount stream", a, t, Metrics!Dec(s), u, f, v)
  BY <1>1, <1>5 DEF Gauged, Metrics!UncountStream, Metrics!Change, Metrics!Others
<1>6. ASSUME Metrics!Average(r) PROVE Gauged(r, "average", a, t, s, u, f, IF f = 0 THEN reportTask[r].id ELSE (v * f + reportTask[r].id) \div (f + 1))
  BY <1>1, <1>6 DEF Gauged, Metrics!Average, Metrics!Change, Metrics!Others, Metrics!Arg
<1>7. ASSUME Metrics!AddFrames(r) PROVE Gauged(r, "count frames", a, t, s, u, f + reportTask[r].id, v)
  BY <1>1, <1>7 DEF Gauged, Metrics!AddFrames, Metrics!Change, Metrics!Others, Metrics!Arg
<1>8. QED
  BY <1>2, <1>3, <1>4, <1>5, <1>6, <1>7

\* Gauges under a step of their own, or of none
AsCounted(x, active, open) ==
  /\ x \notin {"add session", "remove session", "credit session", "add stream", "complete stream"}
  /\ \/ x = "count session" /\ active = gauges.active_sessions + 1
     \/ x = "uncount session" /\ active = Metrics!Dec(gauges.active_sessions)
     \/ x \notin {"count session", "uncount session"} /\ active = gauges.active_sessions
  /\ \/ x = "count stream" /\ open = gauges.active_streams + 1
     \/ x = "uncount stream" /\ open = Metrics!Dec(gauges.active_streams)
     \/ x \notin {"count stream", "uncount stream"} /\ open = gauges.active_streams

\* A step on the gauges keeps the equations if it counts as its name says.
LEMMA GaugedKeeps ==
  ASSUME TasksIInv, EntriesIInv, GaugesIInv, NEW r \in Caller, NEW x, NEW a \in Nat, NEW t \in Nat,
         NEW s \in Nat, NEW u, NEW f \in Nat, NEW v \in Nat, Gauged(r, x, a, t, s, u, f, v),
         AsCounted(x, a, s)
  PROVE  TasksIInv' /\ EntriesIInv' /\ GaugesIInv' /\ Moved(r)
<1>1. TasksIInv' /\ Moved(r)
  BY MemoryMoves DEF Gauged
<1>2. /\ gauges'.active_sessions = a /\ gauges'.active_streams = s
      /\ GaugeTypes'
  BY DEF Gauged, GaugeTypes
<1>3. UNCHANGED << sessionMetrics, streamMetrics, sessionsBegun, sessionsEnded >> /\ Metrics!Doing(r, x)
  BY DEF Gauged
<1>4. QED
  BY <1>1, <1>2, <1>3, EntriesUntouched DEF AsCounted

\* A step on neither gauges nor entries keeps the equations.
LEMMA NoGaugeKeeps ==
  ASSUME TasksIInv, TasksIInv', EntriesIInv, GaugesIInv, NEW r \in Caller, Moved(r),
         NEW x, Metrics!Doing(r, x),
         x \in {"push"} \cup Metrics!Counters \cup Metrics!Gauges \cup {"frame_processing"},
         UNCHANGED << sessionMetrics, streamMetrics, sessionsBegun, sessionsEnded, gauges >>
  PROVE  EntriesIInv' /\ GaugesIInv'
<1>1. x \notin {"add session", "remove session", "credit session", "add stream", "complete stream",
                "count session", "uncount session", "count stream", "uncount stream"}
  BY DEF Metrics!Counters, Metrics!Gauges
<1>2. GaugeTypes'
  BY DEF GaugesIInv, GaugeTypes
<1>3. gauges' = gauges
  OBVIOUS
<1>4. QED
  BY <1>1, <1>2, <1>3, EntriesUntouched

\* A step on a gauge keeps the entries and the gauges in step.
LEMMA GaugesKeep ==
  ASSUME TasksIInv, EntriesIInv, GaugesIInv, AverageIInv, NEW r \in Caller
  PROVE  /\ Metrics!CountSession(r) \/ Metrics!UncountSession(r) \/ Metrics!CountStream(r)
              \/ Metrics!UncountStream(r) \/ Metrics!Average(r) \/ Metrics!AddFrames(r) =>
                TasksIInv' /\ EntriesIInv' /\ GaugesIInv' /\ Moved(r)
<1>1. PICK a, t, s, u, f, v :
        /\ a = gauges.active_sessions /\ t = gauges.total_sessions_created
        /\ s = gauges.active_streams /\ u = gauges.total_streams_created
        /\ f = gauges.frames_processed /\ v = gauges.average
  OBVIOUS
<1>2. GaugeTypes
  BY DEF GaugesIInv
<1>3. a \in Nat /\ t \in Nat /\ s \in Nat /\ f \in Nat /\ v \in Nat
  BY <1>1, <1>2 DEF GaugeTypes
<1>4. \A n \in Nat : n + 1 \in Nat /\ Metrics!Dec(n) \in Nat
  BY DEF Metrics!Dec
<1>5. ASSUME Metrics!CountSession(r) PROVE TasksIInv' /\ EntriesIInv' /\ GaugesIInv' /\ Moved(r)
  <2>1. PICK x, b, n, k, w : x = "count session" /\ b = a + 1 /\ n = t + 1 /\ k = s /\ w = u
    OBVIOUS
  <2>2. Gauged(r, x, b, n, k, w, f, v)
    BY <1>1, <1>2, <1>5, <2>1, GaugeSteps
  <2>3. AsCounted(x, b, k)
    BY <1>1, <2>1 DEF AsCounted
  <2>4. b \in Nat /\ n \in Nat /\ k \in Nat
    BY <1>3, <1>4, <2>1
  <2>5. QED
    BY <1>3, <2>2, <2>3, <2>4, GaugedKeeps
<1>6. ASSUME Metrics!UncountSession(r) PROVE TasksIInv' /\ EntriesIInv' /\ GaugesIInv' /\ Moved(r)
  <2>1. PICK x, b, n, k, w : x = "uncount session" /\ b = Metrics!Dec(a) /\ n = t /\ k = s /\ w = u
    OBVIOUS
  <2>2. Gauged(r, x, b, n, k, w, f, v)
    BY <1>1, <1>2, <1>6, <2>1, GaugeSteps
  <2>3. AsCounted(x, b, k)
    BY <1>1, <2>1 DEF AsCounted
  <2>4. b \in Nat /\ n \in Nat /\ k \in Nat
    BY <1>3, <1>4, <2>1
  <2>5. QED
    BY <1>3, <2>2, <2>3, <2>4, GaugedKeeps
<1>7. ASSUME Metrics!CountStream(r) PROVE TasksIInv' /\ EntriesIInv' /\ GaugesIInv' /\ Moved(r)
  <2>1. PICK x, b, n, k, w : x = "count stream" /\ b = a /\ n = t /\ k = s + 1 /\ w = u + 1
    OBVIOUS
  <2>2. Gauged(r, x, b, n, k, w, f, v)
    BY <1>1, <1>2, <1>7, <2>1, GaugeSteps
  <2>3. AsCounted(x, b, k)
    BY <1>1, <2>1 DEF AsCounted
  <2>4. b \in Nat /\ n \in Nat /\ k \in Nat
    BY <1>3, <1>4, <2>1
  <2>5. QED
    BY <1>3, <2>2, <2>3, <2>4, GaugedKeeps
<1>8. ASSUME Metrics!UncountStream(r) PROVE TasksIInv' /\ EntriesIInv' /\ GaugesIInv' /\ Moved(r)
  <2>1. PICK x, b, n, k, w : x = "uncount stream" /\ b = a /\ n = t /\ k = Metrics!Dec(s) /\ w = u
    OBVIOUS
  <2>2. Gauged(r, x, b, n, k, w, f, v)
    BY <1>1, <1>2, <1>8, <2>1, GaugeSteps
  <2>3. AsCounted(x, b, k)
    BY <1>1, <2>1 DEF AsCounted
  <2>4. b \in Nat /\ n \in Nat /\ k \in Nat
    BY <1>3, <1>4, <2>1
  <2>5. QED
    BY <1>3, <2>2, <2>3, <2>4, GaugedKeeps
<1>9. ASSUME Metrics!Average(r) PROVE TasksIInv' /\ EntriesIInv' /\ GaugesIInv' /\ Moved(r)
  <2>1. PICK x : x = "average"
    OBVIOUS
  <2>2. PICK d, w : d = reportTask[r].id /\ w = IF f = 0 THEN d ELSE (v * f + d) \div (f + 1)
    OBVIOUS
  <2>3. Gauged(r, x, a, t, s, u, f, w)
    BY <1>1, <1>2, <1>9, <2>1, <2>2, GaugeSteps
  <2>4. d \in Nat
    <3>1. Metrics!Doing(r, x)
      BY <2>3 DEF Gauged
    <3>2. IsAbout(reportTask[r]) /\ reportTask[r].call = "timing"
      BY <2>1, <3>1, WhoDoes
    <3>3. QED
      BY <2>2, <3>2, MetricsAssumption DEF IsAbout, AverageIInv
  <2>5. w \in Nat
    BY <1>3, <2>2, <2>4
  <2>6. AsCounted(x, a, s)
    BY <1>1, <2>1 DEF AsCounted
  <2>7. QED
    BY <1>3, <2>3, <2>5, <2>6, GaugedKeeps
<1>10. ASSUME Metrics!AddFrames(r) PROVE TasksIInv' /\ EntriesIInv' /\ GaugesIInv' /\ Moved(r)
  <2>1. PICK x : x = "count frames"
    OBVIOUS
  <2>2. PICK d : d = reportTask[r].id
    OBVIOUS
  <2>3. Gauged(r, x, a, t, s, u, f + d, v)
    BY <1>1, <1>2, <1>10, <2>1, <2>2, GaugeSteps
  <2>4. d \in Nat
    <3>1. Metrics!Doing(r, x)
      BY <2>3 DEF Gauged
    <3>2. IsAbout(reportTask[r]) /\ reportTask[r].call = "frames"
      BY <2>1, <3>1, WhoDoes
    <3>3. QED
      BY <2>2, <3>2 DEF IsAbout
  <2>5. f + d \in Nat
    BY <1>3, <2>4
  <2>6. AsCounted(x, a, s)
    BY <1>1, <2>1 DEF AsCounted
  <2>7. QED
    BY <1>3, <2>3, <2>5, <2>6, GaugedKeeps
<1>11. QED
  BY <1>5, <1>6, <1>7, <1>8, <1>9, <1>10

\* A snapshot is a step on neither.
LEMMA PushKeeps ==
  ASSUME TasksIInv, EntriesIInv, GaugesIInv, NEW r \in Caller, Metrics!PushSnapshot(r)
  PROVE  TasksIInv' /\ EntriesIInv' /\ GaugesIInv' /\ Moved(r)
<1>1. PICK x : x = "push"
  OBVIOUS
<1>2. /\ Metrics!Doing(r, x) /\ Metrics!Done(r)
      /\ UNCHANGED << setting, vectors, sessionsBegun, sessionsEnded, timings, gauges,
                      sessionMetrics, streamMetrics >>
  BY <1>1 DEF Metrics!PushSnapshot, Metrics!Others
<1>3. TasksIInv' /\ Moved(r)
  BY <1>2, MemoryMoves
<1>4. QED
  BY <1>1, <1>2, <1>3, NoGaugeKeeps

\* A call's beginning, and one given up, leave the gauges and the entries as they were.
LEMMA GaugesStay ==
  ASSUME TasksIInv, GaugesIInv, NEW r \in Caller, NEW name, NEW id, NEW of,
         \/ Begun(r, name, id, of)
         \/ /\ GivenUp(r)
            /\ \A x \in {"add session", "remove session", "credit session", "add stream", "complete stream"} :
                 ~Metrics!Doing(r, x),
         UNCHANGED << gauges, sessionMetrics, streamMetrics >>
  PROVE  GaugesIInv'
<1>1. /\ \A q \in Caller \ {r} : reportTask'[q] = reportTask[q]
      /\ \A p \in Follows : ~Metrics!Doing(r, p[2]) /\ ~Metrics!Doing(r, p[2])'
  <2>1. CASE Begun(r, name, id, of)
    BY <2>1 DEF Begun
  <2>2. CASE ~Begun(r, name, id, of)
    <3>1. \A p \in Follows : ~Metrics!Doing(r, p[2])
      BY <2>2, FollowsAre
    <3>2. QED
      BY <2>2, <3>1 DEF GivenUp
  <2>3. QED
    BY <2>1, <2>2
<1>2. \A p \in Follows : At(p[2])' = At(p[2])
  BY <1>1, AtStays
<1>3. /\ At("add session")' = At("add session") /\ At("remove session")' = At("remove session")
      /\ At("credit session")' = At("credit session") /\ At("add stream")' = At("add stream")
      /\ At("complete stream")' = At("complete stream")
  BY <1>2, Pair
<1>4. Open' = Open /\ \A s : StreamsOf(s)' = StreamsOf(s)
  BY DEF Open, StreamsOf
<1>5. r \notin At("add stream")
  <2>1. PICK p \in Follows : p[1] = "credit session" /\ p[2] = "add stream"
    BY Pair, Zenon
  <2>2. QED
    BY <1>1, <2>1 DEF At
<1>6. \A s : Crediting(s)' = Crediting(s)
  <2>1. \A q \in At("add stream") : reportTask'[q] = reportTask[q]
    BY <1>1, <1>5 DEF At
  <2>2. QED
    BY <1>3, <2>1 DEF Crediting
<1>7. GaugeTypes' /\ SessionGauge' /\ StreamGauge'
  BY <1>3, <1>4 DEF GaugesIInv, GaugeTypes, SessionGauge, StreamGauge
<1>8. Credits'
  BY <1>4, <1>6 DEF GaugesIInv, Credits
<1>9. QED
  BY <1>7, <1>8 DEF GaugesIInv

\* What the beginning of a call does
BeginsCall(r, name, id, of) ==
  /\ Begun(r, name, id, of)
  /\ UNCHANGED << setting, gauges, sessionMetrics, streamMetrics, vectors >>
  /\ \/ /\ name = "session_created" /\ id \in SessionId \ sessionsBegun
        /\ sessionsBegun' = sessionsBegun \cup {id}
        /\ UNCHANGED << sessionsEnded, timings >>
     \/ /\ name = "stream_created" /\ id \in StreamId \ sessionsBegun
        /\ sessionsBegun' = sessionsBegun \cup {id}
        /\ UNCHANGED << sessionsEnded, timings >>
     \/ /\ name = "session_ended" /\ id \in SessionId /\ id \in sessionsBegun \ sessionsEnded
        /\ Quiet(id) /\ sessionsEnded' = sessionsEnded \cup {id}
        /\ UNCHANGED << sessionsBegun, timings >>
     \/ /\ name = "stream_completed" /\ id \in StreamId /\ id \in sessionsBegun \ sessionsEnded
        /\ Quiet(id) /\ sessionsEnded' = sessionsEnded \cup {id}
        /\ UNCHANGED << sessionsBegun, timings >>
     \/ /\ name = "timing" /\ id \in Durations /\ timings' = timings \cup {id}
        /\ UNCHANGED << sessionsBegun, sessionsEnded >>
     \/ name = "frames" /\ UNCHANGED << sessionsBegun, sessionsEnded, timings >>

\* The calls there are, each as the name and the identifier it begins with
LEMMA CallsAre ==
  ASSUME TasksIInv, NEW r \in Caller
  PROVE  /\ \A id \in SessionId : Metrics!RecordSessionCreated(r, id) =>
              TasksIInv' /\ BeginsCall(r, "session_created", id, id)
         /\ \A id \in StreamId, s \in SessionId : Metrics!RecordStreamCreated(r, id, s) =>
              TasksIInv' /\ BeginsCall(r, "stream_created", id, s)
         /\ \A id \in SessionId : Metrics!RecordEnd(r, id) =>
              TasksIInv' /\ BeginsCall(r, "session_ended", id, id)
         /\ \A id \in StreamId : Metrics!RecordEnd(r, id) =>
              TasksIInv' /\ BeginsCall(r, "stream_completed", id, id)
         /\ \A d \in Durations : Metrics!RecordTiming(r, d) =>
              TasksIInv' /\ BeginsCall(r, "timing", d, d)
         /\ Metrics!CountFrames(r) => TasksIInv' /\ BeginsCall(r, "frames", 1, 1)
<1>1. \A name, id, labels, of : Metrics!Begin(r, name, id, labels, of) =>
        UNCHANGED << setting, gauges, sessionMetrics, streamMetrics, vectors >>
  BY DEF Metrics!Begin
<1>2. ASSUME NEW id \in SessionId, Metrics!RecordSessionCreated(r, id)
      PROVE  TasksIInv' /\ BeginsCall(r, "session_created", id, id)
  <2>1. TasksIInv' /\ Begun(r, "session_created", id, id)
    BY <1>2, CallsBegin
  <2>2. UNCHANGED << setting, gauges, sessionMetrics, streamMetrics, vectors >>
    BY <1>1, <1>2, Zenon DEF Metrics!RecordSessionCreated
  <2>3. id \notin sessionsBegun /\ sessionsBegun' = sessionsBegun \cup {id}
        /\ UNCHANGED << sessionsEnded, timings >>
    BY <1>2, Zenon DEF Metrics!RecordSessionCreated
  <2>4. QED
    BY <2>1, <2>2, <2>3 DEF BeginsCall
<1>3. ASSUME NEW id \in StreamId, NEW s \in SessionId, Metrics!RecordStreamCreated(r, id, s)
      PROVE  TasksIInv' /\ BeginsCall(r, "stream_created", id, s)
  <2>1. TasksIInv' /\ Begun(r, "stream_created", id, s)
    BY <1>3, CallsBegin
  <2>2. UNCHANGED << setting, gauges, sessionMetrics, streamMetrics, vectors >>
    BY <1>1, <1>3, Zenon DEF Metrics!RecordStreamCreated
  <2>3. id \notin sessionsBegun /\ sessionsBegun' = sessionsBegun \cup {id}
        /\ UNCHANGED << sessionsEnded, timings >>
    BY <1>3, Zenon DEF Metrics!RecordStreamCreated
  <2>4. QED
    BY <2>1, <2>2, <2>3 DEF BeginsCall
<1>4. ASSUME NEW id, Metrics!RecordEnd(r, id)
      PROVE  /\ id \in sessionsBegun \ sessionsEnded /\ Quiet(id)
             /\ sessionsEnded' = sessionsEnded \cup {id}
             /\ UNCHANGED << setting, gauges, sessionMetrics, streamMetrics, vectors,
                             sessionsBegun, timings >>
  <2>1. /\ id \in sessionsBegun \ sessionsEnded /\ Metrics!Free(id)
        /\ sessionsEnded' = sessionsEnded \cup {id} /\ UNCHANGED << sessionsBegun, timings >>
    BY <1>4, Zenon DEF Metrics!RecordEnd
  <2>2. UNCHANGED << setting, gauges, sessionMetrics, streamMetrics, vectors >>
    BY <1>1, <1>4, Zenon DEF Metrics!RecordEnd
  <2>3. Quiet(id)
    BY <2>1 DEF Metrics!Free, Metrics!AtWork, Metrics!Arg, Quiet, CallIs
  <2>4. QED
    BY <2>1, <2>2, <2>3
<1>5. ASSUME NEW id \in SessionId, Metrics!RecordEnd(r, id)
      PROVE  TasksIInv' /\ BeginsCall(r, "session_ended", id, id)
  <2>1. TasksIInv' /\ Begun(r, "session_ended", id, id)
    BY <1>5, CallsBegin
  <2>2. QED
    BY <1>4, <1>5, <2>1 DEF BeginsCall
<1>6. ASSUME NEW id \in StreamId, Metrics!RecordEnd(r, id)
      PROVE  TasksIInv' /\ BeginsCall(r, "stream_completed", id, id)
  <2>1. TasksIInv' /\ Begun(r, "stream_completed", id, id)
    BY <1>6, CallsBegin
  <2>2. QED
    BY <1>4, <1>6, <2>1 DEF BeginsCall
<1>7. ASSUME NEW d \in Durations, Metrics!RecordTiming(r, d)
      PROVE  TasksIInv' /\ BeginsCall(r, "timing", d, d)
  <2>1. TasksIInv' /\ Begun(r, "timing", d, d)
    BY <1>7, CallsBegin
  <2>2. /\ UNCHANGED << setting, gauges, sessionMetrics, streamMetrics, vectors >>
        /\ timings' = timings \cup {d} /\ UNCHANGED << sessionsBegun, sessionsEnded >>
    BY <1>1, <1>7, Zenon DEF Metrics!RecordTiming
  <2>3. QED
    BY <2>1, <2>2 DEF BeginsCall
<1>8. ASSUME Metrics!CountFrames(r)
      PROVE  TasksIInv' /\ BeginsCall(r, "frames", 1, 1)
  <2>1. TasksIInv' /\ Begun(r, "frames", 1, 1)
    BY <1>8, CallsBegin
  <2>2. /\ UNCHANGED << setting, gauges, sessionMetrics, streamMetrics, vectors >>
        /\ UNCHANGED << sessionsBegun, sessionsEnded, timings >>
    BY <1>1, <1>8, Zenon DEF Metrics!CountFrames
  <2>3. QED
    BY <2>1, <2>2 DEF BeginsCall
<1>9. QED
  BY <1>2, <1>3, <1>5, <1>6, <1>7, <1>8

\* A call that begins keeps entries and gauges as they were.
LEMMA CallsKeep ==
  ASSUME TasksIInv, TasksIInv', EntriesIInv, GaugesIInv, NEW r \in Caller,
         NEW name, NEW id, NEW of, BeginsCall(r, name, id, of)
  PROVE  EntriesIInv' /\ GaugesIInv'
<1>1. /\ Begun(r, name, id, of)
      /\ UNCHANGED << sessionMetrics, streamMetrics >> /\ UNCHANGED gauges
      /\ sessionsBegun \subseteq sessionsBegun' /\ sessionsEnded \subseteq sessionsEnded'
  BY DEF BeginsCall
<1>2. EntriesIInv'
  BY <1>1, EntriesBegin DEF BeginsCall
<1>3. GaugesIInv'
  BY <1>1, GaugesStay
<1>4. QED
  BY <1>2, <1>3

\* A sample shows what it shows, or is given up.
LEMMA SamplesKeep ==
  ASSUME TasksIInv, EntriesIInv, GaugesIInv, NEW r \in Caller, Metrics!Sample(r)
  PROVE  TasksIInv' /\ EntriesIInv' /\ GaugesIInv'
<1>1. PICK x : x = Head(reportTask[r].todo)
  OBVIOUS
<1>2. /\ TasksIInv' /\ Metrics!Doing(r, x)
      /\ x \in Metrics!Counters \cup Metrics!Gauges \cup {"frame_processing"}
      /\ \/ Moved(r) /\ sessionsEnded' = sessionsEnded
         \/ GivenUp(r)
  BY <1>1, SampleMoves
<1>3. UNCHANGED << sessionMetrics, streamMetrics, sessionsBegun, gauges >>
  BY DEF Metrics!Sample
<1>4. CASE Moved(r) /\ sessionsEnded' = sessionsEnded
  BY <1>2, <1>3, <1>4, NoGaugeKeeps
<1>5. CASE GivenUp(r)
  <2>1. \A y \in {"add session", "remove session", "credit session", "add stream", "complete stream"} :
          ~Metrics!Doing(r, y)
    <3>1. \A y : Metrics!Doing(r, y) => y = x
      BY <1>1 DEF Metrics!Doing
    <3>2. QED
      BY <1>2, <3>1 DEF Metrics!Counters, Metrics!Gauges
  <2>2. EntriesIInv'
    BY <1>2, <1>3, <1>5, EntriesGiveUp
  <2>3. GaugesIInv'
    BY <1>3, <1>5, <2>1, GaugesStay
  <2>4. QED
    BY <1>2, <2>2, <2>3
<1>6. QED
  BY <1>2, <1>4, <1>5

-----------------------------------------------------------------------------
(* The vectors of streams *)

\* The vectors after a sample
ShownAs(name, labels, value) ==
  /\ \A n : n # name =>
       /\ Values(n)' = Values(n) /\ (n \in DOMAIN vectors' <=> n \in DOMAIN vectors)
       /\ n \in DOMAIN vectors => vectors'[n].labels = vectors[n].labels
  /\ name \in DOMAIN vectors' /\ vectors'[name].labels = Len(labels)
  /\ name \in DOMAIN vectors => vectors[name].labels = Len(labels)
  /\ DOMAIN Values(name)' = DOMAIN Values(name) \cup {labels}
  /\ Values(name)'[labels] = value
  /\ \A l \in DOMAIN Values(name) : l # labels => Values(name)'[l] = Values(name)[l]

\* What is shown for the labels of a step is the value of that step, and all else
\* is shown as before.
LEMMA WhatIsShown ==
  ASSUME NEW r \in Caller, Showed(r), NEW name, name = Head(reportTask[r].todo),
         NEW labels, labels = reportTask[r].labels,
         NEW before, before = IF labels \in DOMAIN Values(name) THEN Values(name)[labels] ELSE 0
  PROVE  ShownAs(name, labels, Metrics!Value(r, name, before))
<1>1. PICK old, v : old = Values(name) /\ v = Metrics!Value(r, name, before)
  OBVIOUS
<1>2. /\ DOMAIN vectors' = DOMAIN vectors \cup {name}
      /\ name \in DOMAIN vectors => vectors[name].labels = Len(labels)
      /\ vectors'[name] = [labels |-> Len(labels), values |-> Metrics!Insert(old, labels, v)]
      /\ \A n \in DOMAIN vectors \ {name} : vectors'[n] = vectors[n]
  BY <1>1, Zenon DEF Showed
<1>3. \A n : n # name =>
              /\ Values(n)' = Values(n) /\ (n \in DOMAIN vectors' <=> n \in DOMAIN vectors)
              /\ n \in DOMAIN vectors => vectors'[n].labels = vectors[n].labels
  BY <1>2 DEF Values
<1>4. PICK new : new = Metrics!Insert(old, labels, v)
  OBVIOUS
<1>5. vectors'[name].labels = Len(labels) /\ Values(name)' = new
  BY <1>2, <1>4 DEF Values
<1>6. /\ DOMAIN new = DOMAIN old \cup {labels} /\ new[labels] = v
      /\ \A l \in DOMAIN old : l # labels => new[l] = old[l]
  BY <1>4 DEF Metrics!Insert
<1>7. QED
  BY <1>1, <1>2, <1>3, <1>5, <1>6, Zenon DEF ShownAs

\* The value of a step, for the vectors that are claimed anything of
LEMMA ValueIs ==
  ASSUME NEW r, NEW before
  PROVE  /\ Metrics!Value(r, "pjs_active_sessions", before)
              = IF reportTask[r].call \in {"session_created", "stream_created"} THEN 1 ELSE 0
         /\ Metrics!Value(r, "pjs_active_streams", before)
              = IF reportTask[r].call \in {"session_created", "stream_created"} THEN 1 ELSE 0
         /\ Metrics!Value(r, "pjs_sessions_created_total", before) = before + 1
BY DEF Metrics!Value, Metrics!Counters, Metrics!Gauges

StreamTable ==
  /\ \A name \in {"pjs_active_streams", "pjs_streams_created_total"} :
       name \in DOMAIN vectors => vectors[name].labels = 2
  /\ DOMAIN Values("pjs_active_streams") \subseteq Pairs
  /\ \A l \in DOMAIN Values("pjs_active_streams") : Values("pjs_active_streams")[l] = 1

\* The streams under a step
LEMMA StreamsMove ==
  ASSUME TasksIInv, StreamVectorsIInv, NEW r \in Caller,
         \A q \in Caller \ {r} : reportTask'[q] = reportTask[q],
         StreamTable', Sampled \subseteq Sampled', NEW k,
         reportTask[r] # Metrics!Idle => k = reportTask[r].id,
         NEW kind, StreamShown(r, kind, k)',
         reportTask'[r] # Metrics!Idle => k = reportTask'[r].id /\ kind = reportTask'[r].call,
         \A j : j # k /\ j \in sessionsBegun' => j \in sessionsBegun,
         Quiet(k)' /\ k \in sessionsBegun' /\ k \in StreamId => k \in Sampled'
  PROVE  StreamVectorsIInv'
<1>1. ASSUME NEW q \in Caller, reportTask'[q] # Metrics!Idle, NEW c, NEW i,
             c = reportTask'[q].call, i = reportTask'[q].id
      PROVE  StreamShown(q, c, i)'
  <2>1. CASE q = r
    <3>1. c = kind /\ i = k
      BY <1>1, <2>1
    <3>2. QED
      BY <2>1, <3>1
  <2>2. CASE q # r
    <3>1. reportTask'[q] = reportTask[q] /\ (Owes(q, "pjs_active_streams")' <=> Owes(q, "pjs_active_streams"))
      BY <2>2 DEF Owes
    <3>2. StreamShown(q, c, i)
      BY <1>1, <3>1 DEF StreamVectorsIInv
    <3>3. QED
      BY <3>1, <3>2 DEF StreamShown
  <2>3. QED
    BY <2>1, <2>2
<1>2. ASSUME NEW id \in StreamId, Quiet(id)', id \in sessionsBegun'
      PROVE  id \in Sampled'
  <2>1. CASE id = k
    BY <1>2, <2>1
  <2>2. CASE id # k
    <3>1. Quiet(id)
      BY <1>2, <2>2 DEF Quiet, CallIs
    <3>2. QED
      BY <1>2, <2>2, <3>1 DEF StreamVectorsIInv
  <2>3. QED
    BY <2>1, <2>2
<1>3. \A q \in Caller : reportTask'[q] # Metrics!Idle =>
        \E c, i : c = reportTask'[q].call /\ i = reportTask'[q].id /\ StreamShown(q, c, i)'
  BY <1>1
<1>4. StreamVectorsIInv'
  BY <1>2, <1>3 DEF StreamVectorsIInv, StreamTable, StreamShown
<1>5. QED
  BY <1>4

\* What a step of a call about a stream leaves when it is the last
LEMMA StreamsMoveOn ==
  ASSUME TasksIInv, StreamVectorsIInv, NEW r \in Caller, Moved(r), sessionsBegun' = sessionsBegun,
         StreamTable', Sampled \subseteq Sampled',
         NEW c, c = reportTask[r].call, NEW k, k = reportTask[r].id, StreamShown(r, c, k)'
  PROVE  StreamVectorsIInv'
<1>1. c = reportTask[r].call /\ k = reportTask[r].id
  OBVIOUS
<1>2. /\ \A q \in Caller \ {r} : reportTask'[q] = reportTask[q]
      /\ reportTask[r] # Metrics!Idle
      /\ reportTask'[r] # Metrics!Idle => k = reportTask'[r].id /\ c = reportTask'[r].call
  BY <1>1 DEF Moved
<1>3. IsAbout(reportTask[r])
  BY <1>2, WhatATaskIs
<1>4. StreamShown(r, c, k)'
  BY <1>1
<1>5. ASSUME Quiet(k)', k \in sessionsBegun', k \in StreamId PROVE k \in Sampled'
  <2>1. CASE c \in {"stream_created", "stream_completed"}
    <3>1. c \in EntityCalls
      BY <2>1 DEF EntityCalls
    <3>2. reportTask'[r] = Metrics!Idle
      BY <1>2, <1>5, <3>1 DEF Quiet, CallIs
    <3>3. ~Owes(r, "pjs_active_streams")'
      BY <3>2 DEF Owes, Metrics!Idle
    <3>4. QED
      BY <1>4, <2>1, <3>3 DEF StreamShown
  <2>2. CASE c \notin {"stream_created", "stream_completed"}
    <3>1. c \in {"timing", "frames"}
      BY <1>1, <1>3, <1>5, <2>2, MetricsAssumption DEF IsAbout
    <3>2. ~CallIs(r, EntityCalls) /\ ~CallIs(r, EntityCalls)'
      BY <1>1, <1>2, <3>1 DEF CallIs, EntityCalls
    <3>3. Quiet(k)
      BY <1>2, <1>5, <3>2 DEF Quiet, CallIs
    <3>4. QED
      BY <1>5, <3>3 DEF StreamVectorsIInv
  <2>3. QED
    BY <2>1, <2>2
<1>6. QED
  BY <1>1, <1>2, <1>4, <1>5, StreamsMove

\* The vectors of streams say the same while nobody changes them.
LEMMA StreamVectorsStay ==
  ASSUME StreamVectorsIInv, vectors' = vectors
  PROVE  StreamTable' /\ Sampled' = Sampled
<1>1. \A n : Values(n)' = Values(n)
  BY DEF Values
<1>2. Sampled' = Sampled
  BY <1>1, Zenon DEF Sampled
<1>3. StreamTable
  BY DEF StreamTable, StreamVectorsIInv
<1>4. StreamTable'
  BY <1>1, <1>3, Zenon DEF StreamTable
<1>5. QED
  BY <1>2, <1>4

\* A step that samples nothing
LEMMA StreamsUnsampled ==
  ASSUME TasksIInv, StreamVectorsIInv, NEW r \in Caller, Moved(r),
         sessionsBegun' = sessionsBegun, vectors' = vectors,
         NEW x, Metrics!Doing(r, x), x # "pjs_active_streams"
  PROVE  StreamVectorsIInv'
<1>1. PICK c, k : c = reportTask[r].call /\ k = reportTask[r].id
  OBVIOUS
<1>2. reportTask[r] # Metrics!Idle /\ x = Head(reportTask[r].todo)
  BY DEF Moved, Metrics!Doing
<1>3. StreamTable' /\ Sampled' = Sampled
  BY StreamVectorsStay
<1>4. StreamShown(r, c, k)
  BY <1>1, <1>2 DEF StreamVectorsIInv
<1>5. Owes(r, "pjs_active_streams")' <=> Owes(r, "pjs_active_streams")
  BY <1>2 DEF Moved
<1>6. StreamShown(r, c, k)'
  BY <1>3, <1>4, <1>5 DEF StreamShown
<1>7. QED
  BY <1>1, <1>3, <1>6, StreamsMoveOn

\* A call that is given up
LEMMA StreamsGivenUp ==
  ASSUME TasksIInv, StreamVectorsIInv, NEW r \in Caller, GivenUp(r), vectors' = vectors,
         sessionsBegun' = sessionsBegun, NEW x, x \in {"pjs_sessions_created_total", "pjs_active_sessions",
           "pjs_streams_created_total", "pjs_active_streams", "frame_processing", "frames_processed"},
         Metrics!Doing(r, x), x \in DOMAIN vectors, vectors[x].labels # Len(reportTask[r].labels)
  PROVE  StreamVectorsIInv'
<1>1. PICK c, k, l : c = reportTask[r].call /\ k = reportTask[r].id /\ l = reportTask[r].labels
  OBVIOUS
<1>2. StreamTable' /\ Sampled' = Sampled
  BY StreamVectorsStay
<1>3. /\ \A q \in Caller \ {r} : reportTask'[q] = reportTask[q]
      /\ reportTask[r] # Metrics!Idle /\ reportTask'[r] = Metrics!Idle /\ c \in EntityCalls
  BY <1>1 DEF GivenUp, CallIs
<1>4. IsAbout(reportTask[r]) /\ StreamShown(r, c, k)
  BY <1>1, <1>3, WhatATaskIs DEF StreamVectorsIInv
<1>5. ASSUME k \in StreamId PROVE k \in Sampled
  <2>1. CASE c = "stream_completed"
    BY <1>4, <2>1 DEF StreamShown
  <2>2. CASE c = "stream_created"
    <3>1. Len(l) = 2
      BY <1>1, <1>4, <2>2 DEF IsAbout
    <3>2. x \in {"pjs_active_streams", "pjs_streams_created_total"}
      BY <1>1, <2>2, WhoDoes
    <3>3. QED
      BY <1>1, <3>1, <3>2 DEF StreamVectorsIInv
  <2>3. CASE c \notin {"stream_created", "stream_completed"}
    BY <1>1, <1>3, <1>4, <1>5, <2>3, MetricsAssumption DEF IsAbout, EntityCalls
  <2>4. QED
    BY <2>1, <2>2, <2>3
<1>6. StreamShown(r, "none", k)'
  BY DEF StreamShown
<1>7. PICK kind : kind = "none"
  OBVIOUS
<1>8. StreamShown(r, kind, k)'
  BY <1>6, <1>7
<1>9. QED
  BY <1>1, <1>2, <1>3, <1>5, <1>8, StreamsMove

\* A call that begins
LEMMA StreamsBegin ==
  ASSUME TasksIInv, StreamVectorsIInv, NEW r \in Caller,
         NEW name, NEW id, NEW of, BeginsCall(r, name, id, of)
  PROVE  StreamVectorsIInv'
<1>1. /\ Begun(r, name, id, of) /\ vectors' = vectors
      /\ \A j : j # id /\ j \in sessionsBegun' => j \in sessionsBegun
      /\ name = "stream_completed" => id \in StreamId /\ id \in sessionsBegun /\ Quiet(id)
  BY DEF BeginsCall
<1>2. StreamTable' /\ Sampled' = Sampled
  BY <1>1, StreamVectorsStay
<1>3. /\ \A q \in Caller \ {r} : reportTask'[q] = reportTask[q]
      /\ reportTask[r] = Metrics!Idle /\ reportTask'[r] # Metrics!Idle
      /\ reportTask'[r].call = name /\ reportTask'[r].id = id
      /\ \A x : Owes(r, x)' <=> x \in StepsOf[name]
  BY <1>1 DEF Begun
<1>4. StreamShown(r, name, id)'
  <2>1. name = "stream_created" => Owes(r, "pjs_active_streams")'
    <3>1. "pjs_active_streams" \in StepsOf["stream_created"]
      BY DEF StepsOf
    <3>2. QED
      BY <1>3, <3>1, Zenon
  <2>2. name = "stream_completed" => id \in Sampled'
    BY <1>1, <1>2 DEF StreamVectorsIInv
  <2>3. QED
    BY <2>1, <2>2 DEF StreamShown
<1>5. ASSUME Quiet(id)', id \in sessionsBegun', id \in StreamId PROVE id \in Sampled'
  <2>1. name \notin EntityCalls
    BY <1>3, <1>5 DEF Quiet, CallIs
  <2>2. sessionsBegun' = sessionsBegun
    BY <2>1 DEF BeginsCall, EntityCalls
  <2>3. Quiet(id)
    BY <1>3, <1>5 DEF Quiet, CallIs
  <2>4. QED
    BY <1>2, <1>5, <2>2, <2>3 DEF StreamVectorsIInv
<1>6. QED
  BY <1>1, <1>2, <1>3, <1>4, <1>5, StreamsMove

\* A sample that is shown
LEMMA StreamsSampled ==
  ASSUME TasksIInv, StreamVectorsIInv, NEW r \in Caller, Moved(r), Showed(r),
         sessionsBegun' = sessionsBegun, NEW x, x = Head(reportTask[r].todo),
         Metrics!Doing(r, x)
  PROVE  StreamVectorsIInv'
<1>1. PICK c, k, l, of : /\ c = reportTask[r].call /\ k = reportTask[r].id
                         /\ l = reportTask[r].labels /\ of = reportTask[r].of
  OBVIOUS
<1>2. IsAbout(reportTask[r]) /\ StreamShown(r, c, k) /\ reportTask[r] # Metrics!Idle
  BY <1>1, WhatATaskIs DEF StreamVectorsIInv, Moved
<1>3. \A y : Owes(r, y)' <=> Owes(r, y) /\ y # x
  BY DEF Moved
<1>4. PICK before : before = IF l \in DOMAIN Values(x) THEN Values(x)[l] ELSE 0
  OBVIOUS
<1>5. ShownAs(x, l, Metrics!Value(r, x, before))
  BY <1>1, <1>4, WhatIsShown
<1>6. CASE x # "pjs_active_streams"
  <2>1. Values("pjs_active_streams")' = Values("pjs_active_streams")
    BY <1>5, <1>6 DEF ShownAs
  <2>2. Sampled' = Sampled
    BY <2>1, Zenon DEF Sampled
  <2>3. ASSUME x = "pjs_streams_created_total" PROVE Len(l) = 2
    <3>1. c = "stream_created"
      BY <1>1, <2>3, WhoDoes
    <3>2. QED
      BY <1>1, <1>2, <3>1 DEF IsAbout
  <2>4. StreamTable'
    <3>1. StreamTable
      BY DEF StreamVectorsIInv, StreamTable
    <3>2. \A name \in {"pjs_active_streams", "pjs_streams_created_total"} :
            name \in DOMAIN vectors' => vectors'[name].labels = 2
      BY <1>5, <1>6, <2>3, <3>1 DEF ShownAs, StreamTable
    <3>3. QED
      BY <2>1, <3>1, <3>2 DEF StreamTable
  <2>5. StreamShown(r, c, k)'
    BY <1>2, <1>3, <1>6, <2>2 DEF StreamShown
  <2>6. QED
    BY <1>1, <2>2, <2>4, <2>5, StreamsMoveOn
<1>7. CASE x = "pjs_active_streams"
  <2>1. c \in {"stream_created", "stream_completed"}
    BY <1>1, <1>7, WhoDoes
  <2>2. c # "stream_completed"
    <3>1. SUFFICES ASSUME c = "stream_completed" PROVE FALSE
      OBVIOUS
    <3>2. k \in Sampled /\ Len(l) = 1
      BY <1>1, <1>2, <3>1 DEF StreamShown, IsAbout
    <3>3. Values(x) # << >>
      <4>1. DOMAIN Values(x) # {}
        BY <1>7, <3>2, Zenon DEF Sampled
      <4>2. DOMAIN << >> = {}
        OBVIOUS
      <4>3. QED
        BY <4>1, <4>2, Zenon
    <3>4. x \in DOMAIN vectors
      BY <3>3 DEF Values
    <3>5. vectors[x].labels = 2
      BY <1>7, <3>4 DEF StreamVectorsIInv
    <3>6. QED
      BY <1>5, <3>2, <3>4, <3>5 DEF ShownAs
  <2>3. c = "stream_created" /\ k \in StreamId /\ of \in SessionId /\ l \in {<< k, of >>, << of, k >>}
    BY <1>1, <1>2, <2>1, <2>2 DEF IsAbout
  <2>4. Len(l) = 2 /\ l \in Pairs
    BY <2>3 DEF Pairs
  <2>5. Metrics!Value(r, x, before) = 1
    BY <1>1, <1>7, <2>3, ValueIs
  <2>6. StreamTable'
    <3>1. StreamTable
      BY DEF StreamVectorsIInv, StreamTable
    <3>2. \A name \in {"pjs_active_streams", "pjs_streams_created_total"} :
            name \in DOMAIN vectors' => vectors'[name].labels = 2
      BY <1>5, <1>7, <2>4, <3>1 DEF ShownAs, StreamTable
    <3>3. DOMAIN Values(x)' \subseteq Pairs
      BY <1>5, <1>7, <2>4, <3>1 DEF ShownAs, StreamTable
    <3>4. \A m \in DOMAIN Values(x)' : Values(x)'[m] = 1
      BY <1>5, <1>7, <2>5, <3>1 DEF ShownAs, StreamTable
    <3>5. QED
      BY <1>7, <3>2, <3>3, <3>4 DEF StreamTable
  <2>7. Sampled \subseteq Sampled' /\ k \in Sampled'
    BY <1>5, <1>7, <2>3 DEF ShownAs, Sampled
  <2>8. StreamShown(r, c, k)'
    BY <2>7 DEF StreamShown
  <2>9. QED
    BY <1>1, <2>6, <2>7, <2>8, StreamsMoveOn
<1>8. QED
  BY <1>6, <1>7

-----------------------------------------------------------------------------
(* The vectors of sessions, when sessions have no metadata *)

SessionCalls == {"session_created", "session_ended"}

SessionTable ==
  /\ \A name \in {"pjs_active_sessions", "pjs_sessions_created_total"} :
       /\ name \in DOMAIN vectors => vectors[name].labels = 1
       /\ DOMAIN Values(name) \subseteq Singles
  /\ \A l \in DOMAIN Values("pjs_active_sessions") : Values("pjs_active_sessions")[l] \in {0, 1}
  /\ \A l \in DOMAIN Values("pjs_sessions_created_total") :
       Values("pjs_sessions_created_total")[l] = 1

SessionStands(id) ==
  /\ id \in Showing <=> id \in sessionsBegun \ sessionsEnded
  /\ id \in DOMAIN sessionMetrics <=> id \in sessionsBegun \ sessionsEnded
  /\ id \in Told("pjs_sessions_created_total") <=> id \in sessionsBegun

Uncounted == {r \in Caller : Owes(r, "count session")}

SessionTotal ==
  gauges.total_sessions_created + Cardinality(Uncounted) = Cardinality(sessionsBegun \cap SessionId)

\* The invariant of the vectors of sessions, by its parts
LEMMA SessionVectorsAre ==
  SessionVectorsIInv <=>
    /\ SessionTable /\ SessionTotal
    /\ \A r \in Caller : reportTask[r] # Metrics!Idle =>
         SessionShown(r, reportTask[r].call, reportTask[r].id)
    /\ \A id \in SessionId : Quiet(id) => SessionStands(id)
BY Zenon DEF SessionVectorsIInv, SessionTable, SessionTotal, SessionStands, Uncounted

\* The sessions under a step, of which those of K are in the call that takes it
LEMMA SessionsMove ==
  ASSUME SessionVectorsIInv, NEW r \in Caller,
         \A q \in Caller \ {r} : reportTask'[q] = reportTask[q],
         SessionTable', SessionTotal', NEW K,
         \A q \in Caller \ {r} : CallIs(q, SessionCalls) => reportTask[q].id \in SessionId \ K,
         \A j \in SessionId \ K :
           /\ j \in Showing' <=> j \in Showing
           /\ j \in Told("pjs_sessions_created_total")' <=> j \in Told("pjs_sessions_created_total")
           /\ j \in DOMAIN sessionMetrics' <=> j \in DOMAIN sessionMetrics
           /\ j \in sessionsBegun' <=> j \in sessionsBegun
           /\ j \in sessionsEnded' <=> j \in sessionsEnded
           /\ Quiet(j)' => Quiet(j),
         \A j \in SessionId \cap K : Quiet(j)' => SessionStands(j)',
         NEW kind, NEW id, SessionShown(r, kind, id)',
         reportTask'[r] # Metrics!Idle => id = reportTask'[r].id /\ kind = reportTask'[r].call
  PROVE  SessionVectorsIInv'
<1>1. ASSUME NEW q \in Caller, reportTask'[q] # Metrics!Idle, NEW c, NEW i,
             c = reportTask'[q].call, i = reportTask'[q].id
      PROVE  SessionShown(q, c, i)'
  <2>1. CASE q = r
    <3>1. c = kind /\ i = id
      BY <1>1, <2>1
    <3>2. QED
      BY <2>1, <3>1
  <2>2. CASE q # r
    <3>1. reportTask'[q] = reportTask[q] /\ \A y : Owes(q, y)' <=> Owes(q, y)
      BY <2>2 DEF Owes
    <3>2. SessionShown(q, c, i)
      BY <1>1, <3>1, SessionVectorsAre
    <3>3. c \in SessionCalls => i \in SessionId \ K
      BY <1>1, <2>2, <3>1 DEF CallIs
    <3>4. QED
      BY <3>1, <3>2, <3>3 DEF SessionShown, SessionCalls
  <2>3. QED
    BY <2>1, <2>2
<1>2. ASSUME NEW j \in SessionId, Quiet(j)'
      PROVE  SessionStands(j)'
  <2>1. CASE j \in K
    BY <1>2, <2>1
  <2>2. CASE j \notin K
    <3>1. SessionStands(j)
      BY <1>2, <2>2, SessionVectorsAre
    <3>2. QED
      BY <2>2, <3>1 DEF SessionStands
  <2>3. QED
    BY <2>1, <2>2
<1>3. SessionTable' /\ SessionTotal'
  OBVIOUS
<1>4. SessionVectorsIInv'
  <2>1. \A q \in Caller : reportTask'[q] # Metrics!Idle =>
          \E c, i : c = reportTask'[q].call /\ i = reportTask'[q].id /\ SessionShown(q, c, i)'
    BY <1>1
  <2>2. \A q \in Caller : reportTask'[q] # Metrics!Idle =>
          /\ reportTask'[q].call = "session_created" =>
               /\ reportTask'[q].id \in Showing' <=> ~Owes(q, "pjs_active_sessions")'
               /\ reportTask'[q].id \in Told("pjs_sessions_created_total")'
                    <=> ~Owes(q, "pjs_sessions_created_total")'
          /\ reportTask'[q].call = "session_ended" =>
               /\ reportTask'[q].id \in Showing' <=> Owes(q, "pjs_active_sessions")'
               /\ reportTask'[q].id \in Told("pjs_sessions_created_total")'
    BY <2>1 DEF SessionShown
  <2>3. QED
    BY <1>2, <1>3, <2>2, Zenon
       DEF SessionVectorsIInv, SessionTable, SessionTotal, SessionStands, Uncounted, SessionShown
<1>5. QED
  BY <1>4

\* Nothing is shown anew.
LEMMA SessionVectorsStay ==
  ASSUME SessionVectorsIInv, vectors' = vectors
  PROVE  /\ SessionTable' /\ Showing' = Showing
         /\ Told("pjs_sessions_created_total")' = Told("pjs_sessions_created_total")
<1>1. \A n : Values(n)' = Values(n)
  BY DEF Values
<1>2. Showing' = Showing
  BY <1>1, Zenon DEF Showing
<1>3. Told("pjs_sessions_created_total")' = Told("pjs_sessions_created_total")
  BY <1>1, Zenon DEF Told
<1>4. SessionTable
  BY SessionVectorsAre
<1>5. SessionTable'
  BY <1>1, <1>4, Zenon DEF SessionTable
<1>6. QED
  BY <1>2, <1>3, <1>5

\* Who has still to be counted
LEMMA UncountedIs ==
  /\ Uncounted \subseteq Caller /\ IsFiniteSet(Uncounted) /\ Cardinality(Uncounted) \in Nat
  /\ IsFiniteSet(SessionId)
  /\ IsFiniteSet(sessionsBegun \cap SessionId) /\ Cardinality(sessionsBegun \cap SessionId) \in Nat
<1>1. Uncounted \subseteq Caller
  BY DEF Uncounted
<1>2. sessionsBegun \cap SessionId \subseteq SessionId
  OBVIOUS
<1>3. QED
  BY <1>1, <1>2, ReportersAssumption, FS_Subset, FS_CardinalityType

\* Those who have still to count their session are the same.
LEMMA UncountedStay ==
  ASSUME NEW r \in Caller, \A q \in Caller \ {r} : reportTask'[q] = reportTask[q],
         Owes(r, "count session")' <=> Owes(r, "count session")
  PROVE  Uncounted' = Uncounted
<1>1. \A q \in Caller : Owes(q, "count session")' <=> Owes(q, "count session")
  BY DEF Owes
<1>2. QED
  BY <1>1 DEF Uncounted

\* Only a session's beginning counts sessions.
LEMMA WhoCounts ==
  ASSUME NEW name \in EntityCalls \cup {"timing", "frames"}, name # "session_created"
  PROVE  "count session" \notin StepsOf[name]
<1>1. /\ StepsOf["session_ended"] = {"uncount session", "remove session", "push", "pjs_active_sessions"}
      /\ StepsOf["stream_created"] = {"count stream", "credit session", "add stream",
                                      "pjs_streams_created_total", "pjs_active_streams"}
      /\ StepsOf["stream_completed"] = {"uncount stream", "complete stream", "pjs_active_streams"}
      /\ StepsOf["timing"] = {"average", "frame_processing"}
      /\ StepsOf["frames"] = {"count frames", "frames_processed"}
  BY DEF StepsOf
<1>2. "count session" \notin {"uncount session", "remove session", "push", "pjs_active_sessions",
        "count stream", "credit session", "add stream", "pjs_streams_created_total", "pjs_active_streams",
        "uncount stream", "complete stream", "average", "frame_processing", "count frames",
        "frames_processed"}
  OBVIOUS
<1>3. name \in {"session_ended", "stream_created", "stream_completed", "timing", "frames"}
  BY DEF EntityCalls
<1>4. QED
  BY <1>1, <1>2, <1>3

\* A call that is given up is not about a session.
LEMMA SessionsGivenUp ==
  ASSUME TasksIInv, SessionVectorsIInv, NoMetadata, NEW r \in Caller, GivenUp(r),
         UNCHANGED << vectors, sessionMetrics, sessionsBegun, gauges >>,
         NEW x, x \in {"pjs_sessions_created_total", "pjs_active_sessions",
           "pjs_streams_created_total", "pjs_active_streams", "frame_processing", "frames_processed"},
         Metrics!Doing(r, x), x \in DOMAIN vectors, vectors[x].labels # Len(reportTask[r].labels)
  PROVE  SessionVectorsIInv'
<1>1. PICK c, k, l : c = reportTask[r].call /\ k = reportTask[r].id /\ l = reportTask[r].labels
  OBVIOUS
<1>2. /\ \A q \in Caller \ {r} : reportTask'[q] = reportTask[q]
      /\ reportTask[r] # Metrics!Idle /\ reportTask'[r] = Metrics!Idle /\ c \in EntityCalls
      /\ sessionsEnded' = sessionsEnded \cup {k}
  BY <1>1 DEF GivenUp, CallIs
<1>3. IsAbout(reportTask[r]) /\ InTurn(reportTask[r].todo)
      /\ \A i \in DOMAIN reportTask[r].todo : reportTask[r].todo[i] \in StepsOf[c]
  BY <1>1, <1>2, WhatATaskIs
<1>4. SessionTable
  BY SessionVectorsAre
<1>5. c \notin SessionCalls
  <2>1. SUFFICES ASSUME c \in SessionCalls PROVE FALSE
    OBVIOUS
  <2>2. Len(l) = 1
    BY <1>1, <1>3, <2>1 DEF IsAbout, SessionCalls
  <2>3. x \in {"pjs_active_sessions", "pjs_sessions_created_total"}
    BY <1>1, <2>1, WhoDoes DEF SessionCalls
  <2>4. QED
    BY <1>1, <1>4, <2>2, <2>3 DEF SessionTable
<1>6. k \notin SessionId
  BY <1>1, <1>2, <1>3, <1>5, MetricsAssumption DEF IsAbout, EntityCalls, SessionCalls
<1>7. /\ SessionTable' /\ Showing' = Showing
      /\ Told("pjs_sessions_created_total")' = Told("pjs_sessions_created_total")
  BY SessionVectorsStay
<1>8. SessionTotal'
  <2>1. ~Owes(r, "count session") /\ ~Owes(r, "count session")'
    <3>1. "count session" \notin StepsOf[c]
      BY <1>2, <1>5, WhoCounts DEF SessionCalls
    <3>2. QED
      BY <1>3, <3>1 DEF Owes, GivenUp
  <2>2. Uncounted' = Uncounted
    BY <1>2, <2>1, UncountedStay
  <2>3. SessionTotal
    BY SessionVectorsAre
  <2>4. QED
    BY <2>2, <2>3 DEF SessionTotal
<1>9. PICK none : none = "none"
  OBVIOUS
<1>10. SessionShown(r, none, k)'
  BY <1>9 DEF SessionShown
<1>0. PICK K : K = {}
  OBVIOUS
<1>11. \A q \in Caller \ {r} : CallIs(q, SessionCalls) => reportTask[q].id \in SessionId \ K
  <2>1. TAKE q \in Caller \ {r}
  <2>2. HAVE CallIs(q, SessionCalls)
  <2>3. IsAbout(reportTask[q])
    BY <2>2, WhatATaskIs DEF CallIs
  <2>4. QED
    BY <1>0, <2>2, <2>3 DEF CallIs, IsAbout, SessionCalls
<1>12. \A j \in SessionId : Quiet(j)' => Quiet(j)
  BY <1>1, <1>2, <1>6 DEF Quiet, CallIs
<1>13. \A j \in SessionId \ K :
         /\ j \in Showing' <=> j \in Showing
         /\ j \in Told("pjs_sessions_created_total")' <=> j \in Told("pjs_sessions_created_total")
         /\ j \in DOMAIN sessionMetrics' <=> j \in DOMAIN sessionMetrics
         /\ j \in sessionsBegun' <=> j \in sessionsBegun
         /\ j \in sessionsEnded' <=> j \in sessionsEnded
         /\ Quiet(j)' => Quiet(j)
  BY <1>2, <1>6, <1>7, <1>12
<1>14. \A j \in SessionId \cap K : Quiet(j)' => SessionStands(j)'
  BY <1>0
<1>15. QED
  BY <1>2, <1>7, <1>8, <1>10, <1>11, <1>13, <1>14, SessionsMove

\* Sessions others are in a call about
LEMMA OthersSessions ==
  ASSUME TasksIInv, NEW r \in Caller, NEW q \in Caller \ {r}, CallIs(q, SessionCalls)
  PROVE  /\ reportTask[q].id \in SessionId /\ reportTask[q].id \in sessionsBegun
         /\ CallIs(r, EntityCalls) => reportTask[q].id # reportTask[r].id
<1>1. reportTask[q] # Metrics!Idle /\ CallIs(q, EntityCalls)
  BY DEF CallIs, SessionCalls, EntityCalls
<1>2. IsAbout(reportTask[q])
  BY <1>1, WhatATaskIs
<1>3. reportTask[q].id \in SessionId /\ reportTask[q].id \in sessionsBegun
  BY <1>2 DEF CallIs, IsAbout, SessionCalls, TasksIInv
<1>4. QED
  BY <1>1, <1>3 DEF TasksIInv

\* A call that begins
LEMMA SessionsBegin ==
  ASSUME TasksIInv, SessionVectorsIInv, GaugeTypes, NEW r \in Caller,
         NEW name, NEW id, NEW of, BeginsCall(r, name, id, of)
  PROVE  SessionVectorsIInv'
<1>1. /\ Begun(r, name, id, of) /\ vectors' = vectors /\ gauges' = gauges
      /\ sessionMetrics' = sessionMetrics
  BY DEF BeginsCall
<1>2. /\ SessionTable' /\ Showing' = Showing
      /\ Told("pjs_sessions_created_total")' = Told("pjs_sessions_created_total")
  BY <1>1, SessionVectorsStay
<1>3. /\ \A q \in Caller \ {r} : reportTask'[q] = reportTask[q]
      /\ reportTask[r] = Metrics!Idle /\ reportTask'[r] # Metrics!Idle
      /\ reportTask'[r].call = name /\ reportTask'[r].id = id
      /\ \A x : Owes(r, x)' <=> x \in StepsOf[name]
      /\ \A x : ~Owes(r, x)
  BY <1>1 DEF Begun, Owes, Metrics!Idle
<1>4. PICK K : K = {id} \cap SessionId \cap {j \in {id} : name \in SessionCalls}
  OBVIOUS
<1>5. \A j : j \in K <=> j = id /\ j \in SessionId /\ name \in SessionCalls
  BY <1>4
<1>6. \A j \in SessionId \ K :
           /\ j \in sessionsBegun' <=> j \in sessionsBegun
           /\ j \in sessionsEnded' <=> j \in sessionsEnded
  BY <1>5, MetricsAssumption DEF BeginsCall, SessionCalls
<1>7. \A j : Quiet(j)' => Quiet(j)
  BY <1>3 DEF Quiet, CallIs
<1>8. \A j \in SessionId \cap K : ~Quiet(j)'
  BY <1>3, <1>5 DEF Quiet, CallIs, SessionCalls, EntityCalls
<1>9. ASSUME name \in SessionCalls PROVE Quiet(id) /\ id \in SessionId /\ SessionStands(id)
  <2>1. id \in SessionId
    BY <1>9 DEF BeginsCall, SessionCalls
  <2>2. Quiet(id)
    <3>1. CASE name = "session_ended"
      BY <3>1 DEF BeginsCall
    <3>2. CASE name = "session_created"
      <4>1. id \notin sessionsBegun
        BY <3>2 DEF BeginsCall
      <4>2. \A q \in Caller : CallIs(q, EntityCalls) => IsAbout(reportTask[q])
        BY WhatATaskIs DEF CallIs
      <4>3. QED
        BY <4>1, <4>2 DEF Quiet, CallIs, IsAbout, EntityCalls, TasksIInv
    <3>3. QED
      BY <1>9, <3>1, <3>2 DEF SessionCalls
  <2>3. QED
    BY <2>1, <2>2, SessionVectorsAre
<1>10. SessionShown(r, name, id)'
  <2>1. CASE name = "session_created"
    <3>1. id \notin sessionsBegun
      BY <2>1 DEF BeginsCall
    <3>2. "pjs_active_sessions" \in StepsOf["session_created"]
          /\ "pjs_sessions_created_total" \in StepsOf["session_created"]
      BY DEF StepsOf
    <3>3. Owes(r, "pjs_active_sessions")' /\ Owes(r, "pjs_sessions_created_total")'
      BY <1>3, <2>1, <3>2, Zenon
    <3>4. SessionStands(id)
      BY <1>9, <2>1 DEF SessionCalls
    <3>5. QED
      BY <1>2, <2>1, <3>1, <3>3, <3>4 DEF SessionShown, SessionStands
  <2>2. CASE name = "session_ended"
    <3>1. id \in sessionsBegun \ sessionsEnded
      BY <2>2 DEF BeginsCall
    <3>2. "pjs_active_sessions" \in StepsOf["session_ended"]
      BY DEF StepsOf
    <3>3. Owes(r, "pjs_active_sessions")'
      BY <1>3, <2>2, <3>2, Zenon
    <3>4. SessionStands(id)
      BY <1>9, <2>2 DEF SessionCalls
    <3>5. QED
      BY <1>2, <2>2, <3>1, <3>3, <3>4 DEF SessionShown, SessionStands
  <2>3. CASE name \notin SessionCalls
    BY <2>3 DEF SessionShown, SessionCalls
  <2>4. QED
    BY <2>1, <2>2, <2>3 DEF SessionCalls
<1>11. \A q \in Caller \ {r} : CallIs(q, SessionCalls) => reportTask[q].id \in SessionId \ K
  <2>1. \A q \in Caller \ {r} : CallIs(q, SessionCalls) => reportTask[q].id \in SessionId
    BY OthersSessions
  <2>2. \A q \in Caller \ {r} : CallIs(q, SessionCalls) => reportTask[q].id \notin K
    BY <1>5, <1>9 DEF Quiet, CallIs, SessionCalls, EntityCalls
  <2>3. QED
    BY <2>1, <2>2
<1>12. SessionTotal'
  <2>1. SessionTotal
    BY SessionVectorsAre
  <2>2. CASE name = "session_created"
    <3>1. id \notin sessionsBegun /\ id \in SessionId /\ sessionsBegun' = sessionsBegun \cup {id}
      BY <2>2 DEF BeginsCall
    <3>2. PICK B, C : B = sessionsBegun \cap SessionId /\ C = sessionsBegun' \cap SessionId
      OBVIOUS
    <3>3. C = B \cup {id} /\ id \notin B
      BY <3>1, <3>2
    <3>4. Cardinality(C) = Cardinality(B) + 1
      BY <3>2, <3>3, UncountedIs, FS_AddElement
    <3>5. "count session" \in StepsOf["session_created"]
      BY DEF StepsOf
    <3>6. Owes(r, "count session")' /\ ~Owes(r, "count session")
      BY <1>3, <2>2, <3>5, Zenon
    <3>7. \A q \in Caller \ {r} : Owes(q, "count session")' <=> Owes(q, "count session")
      BY <1>3 DEF Owes
    <3>8. Uncounted' = Uncounted \cup {r} /\ r \notin Uncounted
      BY <3>6, <3>7 DEF Uncounted
    <3>9. Cardinality(Uncounted') = Cardinality(Uncounted) + 1
      BY <3>8, UncountedIs, FS_AddElement
    <3>10. PICK n, t : n = Cardinality(Uncounted) /\ t = gauges.total_sessions_created
      OBVIOUS
    <3>11. n \in Nat /\ t \in Nat /\ Cardinality(B) \in Nat /\ t + n = Cardinality(B)
      BY <2>1, <3>2, <3>10, UncountedIs DEF SessionTotal, GaugeTypes
    <3>12. t + (n + 1) = Cardinality(B) + 1
      BY <3>11
    <3>13. gauges'.total_sessions_created = t /\ Cardinality(Uncounted') = n + 1
           /\ Cardinality(sessionsBegun' \cap SessionId) = Cardinality(B) + 1
      BY <1>1, <3>2, <3>4, <3>9, <3>10
    <3>14. QED
      BY <3>12, <3>13, Zenon DEF SessionTotal
  <2>3. CASE name # "session_created"
    <3>1. sessionsBegun' \cap SessionId = sessionsBegun \cap SessionId
      BY <2>3, MetricsAssumption DEF BeginsCall
    <3>2. name \in EntityCalls \cup {"timing", "frames"}
      BY DEF BeginsCall, EntityCalls
    <3>3. "count session" \notin StepsOf[name]
      BY <2>3, <3>2, WhoCounts
    <3>4. Uncounted' = Uncounted
      BY <1>3, <3>3, UncountedStay
    <3>5. QED
      BY <1>1, <2>1, <3>1, <3>4 DEF SessionTotal
  <2>4. QED
    BY <2>2, <2>3
<1>13. \A j \in SessionId \ K :
           /\ j \in Showing' <=> j \in Showing
           /\ j \in Told("pjs_sessions_created_total")' <=> j \in Told("pjs_sessions_created_total")
           /\ j \in DOMAIN sessionMetrics' <=> j \in DOMAIN sessionMetrics
           /\ j \in sessionsBegun' <=> j \in sessionsBegun
           /\ j \in sessionsEnded' <=> j \in sessionsEnded
           /\ Quiet(j)' => Quiet(j)
  BY <1>1, <1>2, <1>6, <1>7
<1>14. \A j \in SessionId \cap K : Quiet(j)' => SessionStands(j)'
  BY <1>8
<1>15. QED
  BY <1>2, <1>3, <1>10, <1>11, <1>12, <1>13, <1>14, SessionsMove

\* A step of a call that goes on or is done
EntryStands(r, kind, id) ==
  /\ kind = "session_created" => (id \in DOMAIN sessionMetrics <=> ~Owes(r, "add session"))
  /\ kind = "session_ended" => (id \in DOMAIN sessionMetrics <=> Owes(r, "remove session"))

\* A step that shows the session of its call as the call has it by then, and all
\* others as before, keeps the vectors of sessions.
LEMMA SessionsMoveOn ==
  ASSUME TasksIInv, SessionVectorsIInv, NEW r \in Caller, Moved(r),
         UNCHANGED << sessionsBegun, sessionsEnded >>, SessionTable', SessionTotal',
         NEW c, c = reportTask[r].call, NEW k, k = reportTask[r].id,
         SessionShown(r, c, k)', EntryStands(r, c, k)',
         \A j \in SessionId : j # k \/ c \notin SessionCalls =>
           /\ j \in Showing' <=> j \in Showing
           /\ j \in Told("pjs_sessions_created_total")' <=> j \in Told("pjs_sessions_created_total")
           /\ j \in DOMAIN sessionMetrics' <=> j \in DOMAIN sessionMetrics
  PROVE  SessionVectorsIInv'
<1>1. /\ \A q \in Caller \ {r} : reportTask'[q] = reportTask[q]
      /\ reportTask[r] # Metrics!Idle
      /\ reportTask'[r] # Metrics!Idle => k = reportTask'[r].id /\ c = reportTask'[r].call
  BY DEF Moved
<1>2. IsAbout(reportTask[r])
  BY <1>1, WhatATaskIs
<1>3. PICK K : \A j : j \in K <=> j = k /\ c \in SessionCalls
  <2>1. \A j : j \in {i \in {k} : c \in SessionCalls} <=> j = k /\ c \in SessionCalls
    OBVIOUS
  <2>2. QED
    BY <2>1, Zenon
<1>4. \A q \in Caller \ {r} : CallIs(q, SessionCalls) => reportTask[q].id \in SessionId \ K
  <2>1. \A q \in Caller \ {r} : CallIs(q, SessionCalls) =>
          /\ reportTask[q].id \in SessionId
          /\ CallIs(r, EntityCalls) => reportTask[q].id # k
    BY OthersSessions
  <2>2. c \in SessionCalls => CallIs(r, EntityCalls)
    BY <1>1 DEF CallIs, SessionCalls, EntityCalls
  <2>3. QED
    BY <1>3, <2>1, <2>2
<1>5. \A j \in SessionId \ K : Quiet(j)' => Quiet(j)
  <2>1. TAKE j \in SessionId \ K
  <2>2. CallIs(r, EntityCalls) => reportTask[r].id # j
    BY <1>2, <1>3, MetricsAssumption DEF CallIs, IsAbout, EntityCalls, SessionCalls
  <2>3. QED
    BY <1>1, <2>2, OthersStay
<1>6. ASSUME NEW j \in SessionId \cap K, Quiet(j)' PROVE SessionStands(j)'
  <2>1. j = k /\ c \in SessionCalls
    BY <1>3, <1>6
  <2>2. reportTask'[r] = Metrics!Idle
    BY <1>1, <1>6, <2>1 DEF Quiet, CallIs, SessionCalls, EntityCalls
  <2>3. \A y : ~Owes(r, y)'
    BY <2>2 DEF Owes, Metrics!Idle
  <2>4. sessionsEnded \subseteq sessionsBegun
    BY DEF TasksIInv
  <2>5. CASE c = "session_created"
    <3>1. k \in sessionsBegun \ sessionsEnded
      BY <1>2, <2>5 DEF IsAbout
    <3>2. QED
      BY <2>1, <2>3, <2>5, <3>1 DEF SessionShown, EntryStands, SessionStands
  <2>6. CASE c = "session_ended"
    <3>1. k \in sessionsEnded
      BY <1>2, <2>6 DEF IsAbout
    <3>2. QED
      BY <2>1, <2>3, <2>4, <2>6, <3>1 DEF SessionShown, EntryStands, SessionStands
  <2>7. QED
    BY <2>1, <2>5, <2>6 DEF SessionCalls
<1>7. \A j \in SessionId \ K :
           /\ j \in Showing' <=> j \in Showing
           /\ j \in Told("pjs_sessions_created_total")' <=> j \in Told("pjs_sessions_created_total")
           /\ j \in DOMAIN sessionMetrics' <=> j \in DOMAIN sessionMetrics
           /\ j \in sessionsBegun' <=> j \in sessionsBegun
           /\ j \in sessionsEnded' <=> j \in sessionsEnded
           /\ Quiet(j)' => Quiet(j)
  BY <1>3, <1>5
<1>8. QED
  BY <1>1, <1>4, <1>6, <1>7, SessionsMove

\* One more here is one less there.
LEMMA OneFromTheOther ==
  ASSUME NEW m \in Nat, NEW n \in Nat
  PROVE  (m + 1) + (n - 1) = m + n
OBVIOUS

\* The total of sessions grows as its caller leaves those who have still to count.
LEMMA SessionTotalMoves ==
  ASSUME TasksIInv, SessionVectorsIInv, GaugeTypes, NEW r \in Caller, Moved(r), sessionsBegun' = sessionsBegun,
         NEW x, Metrics!Doing(r, x), NEW t, t = gauges'.total_sessions_created,
         \/ x = "count session" /\ t = gauges.total_sessions_created + 1
         \/ x # "count session" /\ t = gauges.total_sessions_created
  PROVE  SessionTotal'
<1>1. /\ \A q \in Caller \ {r} : reportTask'[q] = reportTask[q]
      /\ Owes(r, x) /\ x = Head(reportTask[r].todo)
      /\ \A y : Owes(r, y)' <=> Owes(r, y) /\ y # x
  BY DEF Moved, Metrics!Doing
<1>2. SessionTotal
  BY SessionVectorsAre
<1>3. CASE x = "count session"
  <2>1. \A q \in Caller \ {r} : Owes(q, "count session")' <=> Owes(q, "count session")
    BY <1>1 DEF Owes
  <2>2. Uncounted' = Uncounted \ {r} /\ r \in Uncounted
    BY <1>1, <1>3, <2>1 DEF Uncounted
  <2>3. Cardinality(Uncounted') = Cardinality(Uncounted) - 1
    BY <2>2, UncountedIs, FS_RemoveElement
  <2>4. PICK n, s, b : /\ n = Cardinality(Uncounted) /\ s = gauges.total_sessions_created
                       /\ b = Cardinality(sessionsBegun \cap SessionId)
    OBVIOUS
  <2>5. n \in Nat /\ s \in Nat /\ b \in Nat /\ s + n = b
    BY <1>2, <2>4, UncountedIs DEF SessionTotal, GaugeTypes
  <2>6. t = s + 1 /\ Cardinality(Uncounted') = n - 1
    BY <1>3, <2>3, <2>4
  <2>7. (s + 1) + (n - 1) = b
    BY <2>5, OneFromTheOther, Zenon
  <2>8. QED
    BY <2>4, <2>6, <2>7, Zenon DEF SessionTotal
<1>4. CASE x # "count session"
  <2>1. Owes(r, "count session")' <=> Owes(r, "count session")
    BY <1>1, <1>4
  <2>2. Uncounted' = Uncounted
    BY <1>1, <2>1, UncountedStay
  <2>3. QED
    BY <1>2, <1>4, <2>2 DEF SessionTotal
<1>5. QED
  BY <1>3, <1>4

\* The entry of the session a step is about
DomainMoves(x, k) ==
  \/ x = "add session" /\ DOMAIN sessionMetrics' = DOMAIN sessionMetrics \cup {k}
  \/ x = "remove session" /\ DOMAIN sessionMetrics' = DOMAIN sessionMetrics \ {k}
  \/ x \notin {"add session", "remove session"} /\ DOMAIN sessionMetrics' = DOMAIN sessionMetrics

\* The entry of the session of a call is as the call has it after the step.
LEMMA EntryStandsOn ==
  ASSUME TasksIInv, EntriesIInv, NEW r \in Caller, Moved(r), NEW x, Metrics!Doing(r, x),
         NEW c, c = reportTask[r].call, NEW k, k = reportTask[r].id, DomainMoves(x, k)
  PROVE  /\ EntryStands(r, c, k)'
         /\ \A j : j # k \/ c \notin SessionCalls =>
              (j \in DOMAIN sessionMetrics' <=> j \in DOMAIN sessionMetrics)
<1>1. /\ reportTask[r] # Metrics!Idle /\ Owes(r, x) /\ x = Head(reportTask[r].todo)
      /\ \A y : Owes(r, y)' <=> Owes(r, y) /\ y # x
  BY DEF Moved, Metrics!Doing
<1>2. Entry(r, c, k)
  BY <1>1 DEF EntriesIInv
<1>3. (x = "add session" => c = "session_created") /\ (x = "remove session" => c = "session_ended")
  BY WhoDoes
<1>4. EntryStands(r, c, k)'
  BY <1>1, <1>2, <1>3 DEF Entry, EntryStands, DomainMoves
<1>5. \A j : j # k \/ c \notin SessionCalls =>
              (j \in DOMAIN sessionMetrics' <=> j \in DOMAIN sessionMetrics)
  <2>1. CASE x \in {"add session", "remove session"}
    <3>1. c \in SessionCalls
      BY <1>3, <2>1 DEF SessionCalls
    <3>2. \A j : j # k => (j \in DOMAIN sessionMetrics' <=> j \in DOMAIN sessionMetrics)
      BY <2>1 DEF DomainMoves
    <3>3. QED
      BY <3>1, <3>2, Zenon
  <2>2. CASE x \notin {"add session", "remove session"}
    <3>1. DOMAIN sessionMetrics' = DOMAIN sessionMetrics
      BY <2>2 DEF DomainMoves
    <3>2. QED
      BY <3>1, Zenon
  <2>3. QED
    BY <2>1, <2>2
<1>6. QED
  BY <1>4, <1>5

\* A step that samples nothing of a session
LEMMA SessionsUnsampled ==
  ASSUME TasksIInv, EntriesIInv, SessionVectorsIInv, GaugeTypes, NEW r \in Caller, Moved(r),
         UNCHANGED << sessionsBegun, sessionsEnded, vectors >>,
         NEW x, Metrics!Doing(r, x), x \notin {"pjs_active_sessions", "pjs_sessions_created_total"},
         DomainMoves(x, reportTask[r].id), NEW t, t = gauges'.total_sessions_created,
         \/ x = "count session" /\ t = gauges.total_sessions_created + 1
         \/ x # "count session" /\ t = gauges.total_sessions_created
  PROVE  SessionVectorsIInv'
<1>1. PICK c, k : c = reportTask[r].call /\ k = reportTask[r].id
  OBVIOUS
<1>2. /\ SessionTable' /\ Showing' = Showing
      /\ Told("pjs_sessions_created_total")' = Told("pjs_sessions_created_total")
  BY SessionVectorsStay
<1>3. SessionTotal'
  BY SessionTotalMoves
<1>4. /\ EntryStands(r, c, k)'
      /\ \A j : j # k \/ c \notin SessionCalls =>
              (j \in DOMAIN sessionMetrics' <=> j \in DOMAIN sessionMetrics)
  <2>1. DomainMoves(x, k)
    BY <1>1
  <2>2. QED
    BY <1>1, <2>1, EntryStandsOn
<1>5. /\ reportTask[r] # Metrics!Idle /\ x = Head(reportTask[r].todo)
      /\ \A y : Owes(r, y)' <=> Owes(r, y) /\ y # x
  BY DEF Moved, Metrics!Doing
<1>6. SessionShown(r, c, k)
  BY <1>1, <1>5, SessionVectorsAre
<1>7. SessionShown(r, c, k)'
  BY <1>2, <1>5, <1>6 DEF SessionShown
<1>8. \A j \in SessionId : j # k \/ c \notin SessionCalls =>
           /\ j \in Showing' <=> j \in Showing
           /\ j \in Told("pjs_sessions_created_total")' <=> j \in Told("pjs_sessions_created_total")
           /\ j \in DOMAIN sessionMetrics' <=> j \in DOMAIN sessionMetrics
  BY <1>2, <1>4
<1>9. QED
  BY <1>1, <1>2, <1>3, <1>4, <1>7, <1>8, SessionsMoveOn

\* A sample that is shown
LEMMA SessionsSampled ==
  ASSUME TasksIInv, EntriesIInv, SessionVectorsIInv, GaugeTypes, NoMetadata, NEW r \in Caller,
         Moved(r), Showed(r), UNCHANGED << sessionsBegun, sessionsEnded, sessionMetrics, gauges >>,
         NEW x, x = Head(reportTask[r].todo), Metrics!Doing(r, x),
         x \in Metrics!Counters \cup Metrics!Gauges \cup {"frame_processing"}
  PROVE  SessionVectorsIInv'
<1>1. PICK c, k, l : /\ c = reportTask[r].call /\ k = reportTask[r].id /\ l = reportTask[r].labels
  OBVIOUS
<1>2. IsAbout(reportTask[r]) /\ SessionShown(r, c, k) /\ reportTask[r] # Metrics!Idle /\ Owes(r, x)
  BY <1>1, WhatATaskIs, SessionVectorsAre DEF Moved
<1>3. \A y : Owes(r, y)' <=> Owes(r, y) /\ y # x
  BY DEF Moved
<1>4. PICK before : before = IF l \in DOMAIN Values(x) THEN Values(x)[l] ELSE 0
  OBVIOUS
<1>5. ShownAs(x, l, Metrics!Value(r, x, before))
  BY <1>1, <1>4, WhatIsShown
<1>6. SessionTable
  BY SessionVectorsAre
<1>7. x \notin {"count session", "add session", "remove session"}
  BY DEF Metrics!Counters, Metrics!Gauges
<1>8. SessionTotal'
  <2>1. PICK t : t = gauges'.total_sessions_created
    OBVIOUS
  <2>2. t = gauges.total_sessions_created /\ x # "count session"
    BY <1>7, <2>1
  <2>3. QED
    BY <2>1, <2>2, SessionTotalMoves
<1>9. EntryStands(r, c, k)'
  <2>1. DomainMoves(x, k)
    BY <1>7 DEF DomainMoves
  <2>2. QED
    BY <1>1, <2>1, EntryStandsOn
<1>10. CASE x \notin {"pjs_active_sessions", "pjs_sessions_created_total"}
  <2>1. /\ Values("pjs_active_sessions")' = Values("pjs_active_sessions")
        /\ Values("pjs_sessions_created_total")' = Values("pjs_sessions_created_total")
    BY <1>5, <1>10 DEF ShownAs
  <2>2. Showing' = Showing /\ Told("pjs_sessions_created_total")' = Told("pjs_sessions_created_total")
    BY <2>1, Zenon DEF Showing, Told
  <2>3. SessionTable'
    <3>1. \A name \in {"pjs_active_sessions", "pjs_sessions_created_total"} :
            name \in DOMAIN vectors' => vectors'[name].labels = 1
      BY <1>5, <1>6, <1>10 DEF ShownAs, SessionTable
    <3>2. QED
      BY <1>6, <2>1, <3>1 DEF SessionTable
  <2>4. SessionShown(r, c, k)'
    BY <1>2, <1>3, <1>10, <2>2 DEF SessionShown
  <2>5. QED
    BY <1>1, <1>8, <1>9, <2>2, <2>3, <2>4, SessionsMoveOn
<1>11. CASE x \in {"pjs_active_sessions", "pjs_sessions_created_total"}
  <2>1. c \in SessionCalls /\ k \in SessionId
    <3>1. c \in SessionCalls
      BY <1>1, <1>11, WhoDoes DEF SessionCalls
    <3>2. QED
      BY <1>1, <1>2, <3>1 DEF IsAbout, SessionCalls
  <2>2. l = << k >>
    BY <1>1, <1>2, <2>1 DEF IsAbout, SessionCalls
  <2>3. Len(l) = 1 /\ l \in Singles
    BY <2>1, <2>2 DEF Singles
  <2>4. \A j : << j >> = l <=> j = k
    BY <2>2
  <2>5. PICK other : /\ other \in {"pjs_active_sessions", "pjs_sessions_created_total"}
                     /\ x # other
    BY <1>11
  <2>6. Values(other)' = Values(other) /\ (other \in DOMAIN vectors' => vectors'[other].labels = 1)
    BY <1>5, <1>6, <2>5 DEF ShownAs, SessionTable
  <2>7. /\ DOMAIN Values(x)' \subseteq Singles /\ vectors'[x].labels = 1
        /\ DOMAIN Values(x)' = DOMAIN Values(x) \cup {l}
        /\ Values(x)'[l] = Metrics!Value(r, x, before)
        /\ \A m \in DOMAIN Values(x) : m # l => Values(x)'[m] = Values(x)[m]
    BY <1>5, <1>6, <1>11, <2>3 DEF ShownAs, SessionTable
  <2>8. \A name \in {"pjs_active_sessions", "pjs_sessions_created_total"} :
           /\ name \in DOMAIN vectors' => vectors'[name].labels = 1
           /\ DOMAIN Values(name)' \subseteq Singles
    <3>1. {"pjs_active_sessions", "pjs_sessions_created_total"} = {x, other}
      BY <1>11, <2>5
    <3>2. DOMAIN Values(other) \subseteq Singles
      BY <1>6, <2>5 DEF SessionTable
    <3>3. QED
      BY <2>6, <2>7, <3>1, <3>2
  <2>9. CASE x = "pjs_active_sessions"
    <3>1. other = "pjs_sessions_created_total"
      BY <2>5, <2>9
    <3>2. Told("pjs_sessions_created_total")' = Told("pjs_sessions_created_total")
      BY <2>6, <3>1, Zenon DEF Told
    <3>3. Values(x)'[l] = IF c = "session_created" THEN 1 ELSE 0
      BY <1>1, <2>1, <2>7, <2>9, ValueIs DEF SessionCalls
    <3>4. \A j \in SessionId : j # k => (j \in Showing' <=> j \in Showing)
      BY <2>4, <2>7, <2>9 DEF Showing
    <3>5. k \in Showing' <=> c = "session_created"
      BY <2>1, <2>2, <2>7, <2>9, <3>3 DEF Showing
    <3>6. SessionTable'
      <4>1. \A m \in DOMAIN Values(x)' : Values(x)'[m] \in {0, 1}
        BY <1>6, <2>7, <2>9, <3>3 DEF SessionTable
      <4>2. QED
        BY <1>6, <2>6, <2>8, <2>9, <3>1, <4>1 DEF SessionTable
    <3>7. SessionShown(r, c, k)'
      BY <1>2, <1>3, <2>1, <2>9, <3>2, <3>5 DEF SessionShown, SessionCalls
    <3>8. \A j \in SessionId : j # k \/ c \notin SessionCalls =>
           /\ j \in Showing' <=> j \in Showing
           /\ j \in Told("pjs_sessions_created_total")' <=> j \in Told("pjs_sessions_created_total")
           /\ j \in DOMAIN sessionMetrics' <=> j \in DOMAIN sessionMetrics
      BY <2>1, <3>2, <3>4
    <3>9. QED
      BY <1>1, <1>8, <1>9, <3>6, <3>7, <3>8, SessionsMoveOn
  <2>10. CASE x = "pjs_sessions_created_total"
    <3>1. other = "pjs_active_sessions"
      BY <2>5, <2>10
    <3>2. Showing' = Showing
      BY <2>6, <3>1, Zenon DEF Showing
    <3>3. c = "session_created"
      BY <1>1, <2>10, WhoDoes
    <3>4. k \notin Told("pjs_sessions_created_total")
      BY <1>2, <2>10, <3>3 DEF SessionShown
    <3>5. before = 0
      BY <1>4, <2>1, <2>2, <2>10, <3>4 DEF Told
    <3>6. Values(x)'[l] = 1
      BY <2>7, <2>10, <3>5, ValueIs
    <3>7. \A j \in SessionId :
            j \in Told("pjs_sessions_created_total")' <=> j \in Told("pjs_sessions_created_total") \/ j = k
      BY <2>4, <2>7, <2>10 DEF Told
    <3>8. SessionTable'
      <4>1. \A m \in DOMAIN Values(x)' : Values(x)'[m] = 1
        BY <1>6, <2>7, <2>10, <3>6 DEF SessionTable
      <4>2. QED
        BY <1>6, <2>6, <2>8, <2>10, <3>1, <4>1 DEF SessionTable
    <3>9. SessionShown(r, c, k)'
      BY <1>2, <1>3, <2>1, <2>10, <3>2, <3>3, <3>7 DEF SessionShown
    <3>10. \A j \in SessionId : j # k \/ c \notin SessionCalls =>
           /\ j \in Showing' <=> j \in Showing
           /\ j \in Told("pjs_sessions_created_total")' <=> j \in Told("pjs_sessions_created_total")
           /\ j \in DOMAIN sessionMetrics' <=> j \in DOMAIN sessionMetrics
      BY <2>1, <3>2, <3>7
    <3>11. QED
      BY <1>1, <1>8, <1>9, <3>8, <3>9, <3>10, SessionsMoveOn
  <2>11. QED
    BY <1>11, <2>9, <2>10
<1>12. QED
  BY <1>10, <1>11

-----------------------------------------------------------------------------
(* The average *)

\* A product grows with its factors.
LEMMA TimesIsMonotone ==
  ASSUME NEW a \in Nat, NEW b \in Nat, NEW n \in Nat, a <= b
  PROVE  n * a \in Nat /\ n * b \in Nat /\ n * a <= n * b
OBVIOUS

\* A quotient times its divisor is no more than the dividend.
LEMMA QuotientIs ==
  ASSUME NEW a \in Nat, NEW b \in Nat \ {0}
  PROVE  a \div b \in Nat /\ b * (a \div b) <= a
OBVIOUS

\* A weighted average of two numbers is no more than what bounds both.
LEMMA WeightedAverageIsBounded ==
  ASSUME NEW v \in Nat, NEW f \in Nat, NEW d \in Nat, NEW m \in Nat, v <= m, d <= m
  PROVE  (v * f + d) \div (f + 1) \in Nat /\ (v * f + d) \div (f + 1) <= m
<1>1. PICK a, b, q : a = v * f + d /\ b = f + 1 /\ q = a \div b
  OBVIOUS
<1>2. a \in Nat /\ b \in Nat \ {0}
  BY <1>1, TimesIsMonotone
<1>3. q \in Nat /\ b * q <= a
  BY <1>1, <1>2, QuotientIs
<1>4. a <= b * m
  <2>1. v * f = f * v /\ b * m = f * m + m
    BY <1>1
  <2>2. f * v \in Nat /\ f * m \in Nat /\ f * v <= f * m
    BY TimesIsMonotone
  <2>3. PICK x, y : x = f * v /\ y = f * m
    OBVIOUS
  <2>4. x + d <= y + m
    BY <2>2, <2>3
  <2>5. QED
    BY <1>1, <2>1, <2>3, <2>4, Zenon
<1>5. q <= m
  <2>1. SUFFICES ASSUME m + 1 <= q PROVE FALSE
    BY <1>3
  <2>2. b * (m + 1) \in Nat /\ b * q \in Nat /\ b * (m + 1) <= b * q
    BY <1>2, <1>3, <2>1, TimesIsMonotone
  <2>3. b * (m + 1) = b * m + b /\ b * m \in Nat
    BY <1>2
  <2>4. PICK x, y, z : x = b * m /\ y = b * q /\ z = b * (m + 1)
    OBVIOUS
  <2>5. QED
    BY <1>2, <1>3, <1>4, <2>2, <2>3, <2>4
<1>6. QED
  BY <1>1, <1>3, <1>5

\* The average is bounded by the same duration while nobody changes it.
LEMMA AverageStays ==
  ASSUME AverageIInv, timings' = timings, gauges'.average = gauges.average
  PROVE  AverageIInv'
BY DEF AverageIInv

\* The new average is bounded by the duration that bounded the old one or by the
\* one it takes in.
LEMMA AverageMoves ==
  ASSUME TasksIInv, GaugeTypes, AverageIInv, NEW r \in Caller, Metrics!Average(r)
  PROVE  AverageIInv'
<1>1. PICK a, t, s, u, f, v, d :
        /\ a = gauges.active_sessions /\ t = gauges.total_sessions_created
        /\ s = gauges.active_streams /\ u = gauges.total_streams_created
        /\ f = gauges.frames_processed /\ v = gauges.average /\ d = reportTask[r].id
  OBVIOUS
<1>2. PICK w : w = IF f = 0 THEN d ELSE (v * f + d) \div (f + 1)
  OBVIOUS
<1>3. Gauged(r, "average", a, t, s, u, f, w)
  BY <1>1, <1>2, GaugeSteps
<1>4. Metrics!Doing(r, "average") /\ gauges'.average = w /\ timings' = timings
  BY <1>3 DEF Gauged
<1>5. f \in Nat /\ v \in Nat
  BY <1>1 DEF GaugeTypes
<1>6. d \in timings
  <2>1. IsAbout(reportTask[r]) /\ reportTask[r].call = "timing"
    BY <1>4, WhoDoes
  <2>2. QED
    BY <1>1, <2>1 DEF IsAbout
<1>7. PICK m \in timings : v <= m
  BY <1>1, <1>6 DEF AverageIInv
<1>8. d \in Nat /\ m \in Nat
  BY <1>6, <1>7, MetricsAssumption DEF AverageIInv
<1>9. PICK n \in {d, m} : v <= n /\ d <= n
  BY <1>5, <1>7, <1>8
<1>10. w <= n
  BY <1>2, <1>5, <1>8, <1>9, WeightedAverageIsBounded
<1>11. n \in timings /\ w \in Nat
  BY <1>2, <1>5, <1>6, <1>8, <1>9, WeightedAverageIsBounded
<1>12. QED
  BY <1>4, <1>10, <1>11 DEF AverageIInv

\* A duration is among those recorded before its call takes it in.
LEMMA AverageBegins ==
  ASSUME TasksIInv, GaugeTypes, AverageIInv, NEW r \in Caller,
         NEW name, NEW id, NEW of, BeginsCall(r, name, id, of)
  PROVE  AverageIInv'
<1>1. gauges' = gauges
  BY DEF BeginsCall
<1>2. CASE timings' = timings
  BY <1>1, <1>2, AverageStays
<1>3. CASE timings' # timings
  <2>1. id \in Durations /\ timings' = timings \cup {id}
    BY <1>3 DEF BeginsCall
  <2>2. id \in Nat /\ IsFiniteSet(timings')
    BY <2>1, MetricsAssumption, FS_AddElement DEF AverageIInv
  <2>3. gauges.average \in Nat /\ \E m \in timings' : gauges.average <= m
    BY <2>1, <2>2 DEF AverageIInv, GaugeTypes
  <2>4. QED
    BY <1>1, <2>1, <2>2, <2>3 DEF AverageIInv
<1>4. QED
  BY <1>2, <1>3

-----------------------------------------------------------------------------
(* Every step keeps them. *)

\* The parts of the invariant
LEMMA MetricsTypes ==
  MetricsIInv => TasksIInv /\ EntriesIInv /\ GaugesIInv /\ GaugeTypes /\ StreamVectorsIInv /\ AverageIInv
                 /\ (NoMetadata => SessionVectorsIInv)
BY DEF MetricsIInv, GaugesIInv

\* The invariant after a step, from its parts
LEMMA MetricsAre ==
  ASSUME TasksIInv', EntriesIInv', GaugesIInv', StreamVectorsIInv', AverageIInv',
         setting' = setting, NoMetadata => SessionVectorsIInv'
  PROVE  MetricsIInv'
<1>1. NoMetadata' <=> NoMetadata
  BY DEF NoMetadata
<1>2. QED
  BY <1>1 DEF MetricsIInv

\* Every call that begins keeps the invariant,
LEMMA CallsKeepMetrics ==
  ASSUME MetricsIInv, TasksIInv', NEW r \in Caller, NEW name, NEW id, NEW of, BeginsCall(r, name, id, of)
  PROVE  MetricsIInv'
<1>1. setting' = setting
  BY DEF BeginsCall
<1>2. EntriesIInv' /\ GaugesIInv'
  BY CallsKeep, MetricsTypes
<1>3. StreamVectorsIInv'
  BY StreamsBegin, MetricsTypes
<1>4. AverageIInv'
  BY AverageBegins, MetricsTypes
<1>5. NoMetadata => SessionVectorsIInv'
  BY SessionsBegin, MetricsTypes
<1>6. QED
  BY <1>1, <1>2, <1>3, <1>4, <1>5, MetricsAre

\* every sample that Prometheus takes or panics at,
LEMMA SamplesKeepMetrics ==
  ASSUME MetricsIInv, NEW r \in Caller, Metrics!Sample(r)
  PROVE  MetricsIInv'
<1>1. PICK x : x = Head(reportTask[r].todo)
  OBVIOUS
<1>2. /\ Metrics!Doing(r, x)
      /\ x \in Metrics!Counters \cup Metrics!Gauges \cup {"frame_processing"}
      /\ \/ Moved(r) /\ Showed(r) /\ sessionsEnded' = sessionsEnded
         \/ /\ GivenUp(r) /\ vectors' = vectors
            /\ x \in DOMAIN vectors /\ vectors[x].labels # Len(reportTask[r].labels)
  BY <1>1, SampleMoves, MetricsTypes
<1>3. UNCHANGED << setting, gauges, sessionMetrics, streamMetrics, sessionsBegun, timings >>
  BY DEF Metrics!Sample
<1>4. TasksIInv' /\ EntriesIInv' /\ GaugesIInv'
  BY SamplesKeep, MetricsTypes
<1>5. AverageIInv'
  BY <1>3, AverageStays, MetricsTypes
<1>6. x \in {"pjs_sessions_created_total", "pjs_active_sessions",
             "pjs_streams_created_total", "pjs_active_streams", "frame_processing", "frames_processed"}
  BY <1>2 DEF Metrics!Counters, Metrics!Gauges
<1>7. CASE Moved(r) /\ Showed(r) /\ sessionsEnded' = sessionsEnded
  <2>1. StreamVectorsIInv'
    BY <1>1, <1>2, <1>3, <1>7, StreamsSampled, MetricsTypes
  <2>2. NoMetadata => SessionVectorsIInv'
    BY <1>1, <1>2, <1>3, <1>7, SessionsSampled, MetricsTypes
  <2>3. QED
    BY <1>3, <1>4, <1>5, <2>1, <2>2, MetricsAre
<1>8. CASE /\ GivenUp(r) /\ vectors' = vectors
           /\ x \in DOMAIN vectors /\ vectors[x].labels # Len(reportTask[r].labels)
  <2>1. StreamVectorsIInv'
    BY <1>2, <1>3, <1>6, <1>8, StreamsGivenUp, MetricsTypes
  <2>2. NoMetadata => SessionVectorsIInv'
    BY <1>2, <1>3, <1>6, <1>8, SessionsGivenUp, MetricsTypes
  <2>3. QED
    BY <1>3, <1>4, <1>5, <2>1, <2>2, MetricsAre
<1>9. QED
  BY <1>2, <1>7, <1>8

TotalMoves(x) ==
  \/ x = "count session" /\ gauges'.total_sessions_created = gauges.total_sessions_created + 1
  \/ x # "count session" /\ gauges'.total_sessions_created = gauges.total_sessions_created

\* every step of the in-memory collector, for what Prometheus shows is not touched,
LEMMA MemoryKeepsMetrics ==
  ASSUME MetricsIInv, TasksIInv', EntriesIInv', GaugesIInv', AverageIInv', NEW r \in Caller, Moved(r),
         UNCHANGED << setting, vectors, sessionsBegun, sessionsEnded >>,
         NEW x, Metrics!Doing(r, x),
         x \notin {"pjs_active_sessions", "pjs_sessions_created_total", "pjs_active_streams"},
         DomainMoves(x, reportTask[r].id), TotalMoves(x)
  PROVE  MetricsIInv'
<1>1. StreamVectorsIInv'
  BY StreamsUnsampled, MetricsTypes
<1>2. ASSUME NoMetadata PROVE SessionVectorsIInv'
  <2>1. PICK t : t = gauges'.total_sessions_created
    OBVIOUS
  <2>2. \/ x = "count session" /\ t = gauges.total_sessions_created + 1
        \/ x # "count session" /\ t = gauges.total_sessions_created
    BY <2>1 DEF TotalMoves
  <2>3. x \notin {"pjs_active_sessions", "pjs_sessions_created_total"}
    OBVIOUS
  <2>4. QED
    BY <1>2, <2>1, <2>2, <2>3, SessionsUnsampled, MetricsTypes
<1>3. QED
  BY <1>1, <1>2, MetricsAre

\* those on the gauges
LEMMA GaugesKeepMetrics ==
  ASSUME MetricsIInv, NEW r \in Caller,
         \/ Metrics!CountSession(r) \/ Metrics!UncountSession(r) \/ Metrics!CountStream(r)
         \/ Metrics!UncountStream(r) \/ Metrics!Average(r) \/ Metrics!AddFrames(r)
  PROVE  MetricsIInv'
<1>1. /\ TasksIInv /\ GaugeTypes /\ EntriesIInv /\ GaugesIInv /\ AverageIInv
      /\ TasksIInv' /\ EntriesIInv' /\ GaugesIInv' /\ Moved(r)
  BY GaugesKeep, MetricsTypes
<1>2. PICK a, t, s, u, f, v :
        /\ a = gauges.active_sessions /\ t = gauges.total_sessions_created
        /\ s = gauges.active_streams /\ u = gauges.total_streams_created
        /\ f = gauges.frames_processed /\ v = gauges.average
  OBVIOUS
<1>3. ASSUME NEW x \in {"count session", "uncount session", "count stream", "uncount stream",
                        "average", "count frames"},
             NEW b, NEW n, NEW c, NEW d, NEW g, NEW w, Gauged(r, x, b, n, c, d, g, w),
             n = IF x = "count session" THEN t + 1 ELSE t,
             AverageIInv'
      PROVE  MetricsIInv'
  <2>1. /\ Metrics!Doing(r, x) /\ gauges'.total_sessions_created = n
        /\ UNCHANGED << setting, vectors, sessionsBegun, sessionsEnded, sessionMetrics >>
    BY <1>3 DEF Gauged
  <2>2. DomainMoves(x, reportTask[r].id)
    BY <1>3, <2>1 DEF DomainMoves
  <2>3. TotalMoves(x)
    BY <1>2, <1>3, <2>1 DEF TotalMoves
  <2>4. x \notin {"pjs_active_sessions", "pjs_sessions_created_total", "pjs_active_streams"}
    BY <1>3
  <2>5. QED
    BY <1>1, <1>3, <2>1, <2>2, <2>3, <2>4, MemoryKeepsMetrics
<1>4. ASSUME NEW x, NEW b, NEW n, NEW c, NEW d, NEW g, Gauged(r, x, b, n, c, d, g, v)
      PROVE  AverageIInv'
  <2>1. gauges'.average = gauges.average /\ timings' = timings
    BY <1>2, <1>4 DEF Gauged
  <2>2. QED
    BY <1>1, <2>1, AverageStays
<1>5. CASE Metrics!CountSession(r)
  <2>1. PICK x, b, n, c, d, g : /\ x = "count session" /\ b = a + 1 /\ n = t + 1
                               /\ c = s /\ d = u /\ g = f
    OBVIOUS
  <2>2. Gauged(r, x, b, n, c, d, g, v)
    BY <1>1, <1>2, <1>5, <2>1, GaugeSteps
  <2>3. /\ n = IF x = "count session" THEN t + 1 ELSE t
        /\ x \in {"count session", "uncount session", "count stream", "uncount stream",
                  "average", "count frames"}
    BY <2>1
  <2>4. AverageIInv'
    BY <1>4, <2>2
  <2>5. QED
    BY <1>3, <2>2, <2>3, <2>4
<1>6. CASE Metrics!UncountSession(r)
  <2>1. PICK x, b, n, c, d, g : /\ x = "uncount session" /\ b = Metrics!Dec(a) /\ n = t
                               /\ c = s /\ d = u /\ g = f
    OBVIOUS
  <2>2. Gauged(r, x, b, n, c, d, g, v)
    BY <1>1, <1>2, <1>6, <2>1, GaugeSteps
  <2>3. /\ n = IF x = "count session" THEN t + 1 ELSE t
        /\ x \in {"count session", "uncount session", "count stream", "uncount stream",
                  "average", "count frames"}
    BY <2>1
  <2>4. AverageIInv'
    BY <1>4, <2>2
  <2>5. QED
    BY <1>3, <2>2, <2>3, <2>4
<1>7. CASE Metrics!CountStream(r)
  <2>1. PICK x, b, n, c, d, g : /\ x = "count stream" /\ b = a /\ n = t
                               /\ c = s + 1 /\ d = u + 1 /\ g = f
    OBVIOUS
  <2>2. Gauged(r, x, b, n, c, d, g, v)
    BY <1>1, <1>2, <1>7, <2>1, GaugeSteps
  <2>3. /\ n = IF x = "count session" THEN t + 1 ELSE t
        /\ x \in {"count session", "uncount session", "count stream", "uncount stream",
                  "average", "count frames"}
    BY <2>1
  <2>4. AverageIInv'
    BY <1>4, <2>2
  <2>5. QED
    BY <1>3, <2>2, <2>3, <2>4
<1>8. CASE Metrics!UncountStream(r)
  <2>1. PICK x, b, n, c, d, g : /\ x = "uncount stream" /\ b = a /\ n = t
                               /\ c = Metrics!Dec(s) /\ d = u /\ g = f
    OBVIOUS
  <2>2. Gauged(r, x, b, n, c, d, g, v)
    BY <1>1, <1>2, <1>8, <2>1, GaugeSteps
  <2>3. /\ n = IF x = "count session" THEN t + 1 ELSE t
        /\ x \in {"count session", "uncount session", "count stream", "uncount stream",
                  "average", "count frames"}
    BY <2>1
  <2>4. AverageIInv'
    BY <1>4, <2>2
  <2>5. QED
    BY <1>3, <2>2, <2>3, <2>4
<1>9. CASE Metrics!AddFrames(r)
  <2>1. PICK x, b, n, c, d, g : /\ x = "count frames" /\ b = a /\ n = t
                               /\ c = s /\ d = u /\ g = f + reportTask[r].id
    OBVIOUS
  <2>2. Gauged(r, x, b, n, c, d, g, v)
    BY <1>1, <1>2, <1>9, <2>1, GaugeSteps
  <2>3. /\ n = IF x = "count session" THEN t + 1 ELSE t
        /\ x \in {"count session", "uncount session", "count stream", "uncount stream",
                  "average", "count frames"}
    BY <2>1
  <2>4. AverageIInv'
    BY <1>4, <2>2
  <2>5. QED
    BY <1>3, <2>2, <2>3, <2>4
<1>10. CASE Metrics!Average(r)
  <2>1. PICK x, w : /\ x = "average"
                    /\ w = IF f = 0 THEN reportTask[r].id ELSE (v * f + reportTask[r].id) \div (f + 1)
    OBVIOUS
  <2>2. Gauged(r, x, a, t, s, u, f, w)
    BY <1>1, <1>2, <1>10, <2>1, GaugeSteps
  <2>3. /\ t = IF x = "count session" THEN t + 1 ELSE t
        /\ x \in {"count session", "uncount session", "count stream", "uncount stream",
                  "average", "count frames"}
    BY <2>1
  <2>4. AverageIInv'
    BY <1>1, <1>10, AverageMoves
  <2>5. QED
    BY <1>3, <2>2, <2>3, <2>4
<1>11. QED
  BY <1>5, <1>6, <1>7, <1>8, <1>9, <1>10

\* and those on the entries and the snapshots.
LEMMA EntryStepsKeepMetrics ==
  ASSUME MetricsIInv, NEW r \in Caller,
         \/ Metrics!AddSession(r) \/ Metrics!RemoveSession(r) \/ Metrics!CreditSession(r)
         \/ Metrics!AddStream(r) \/ Metrics!CompleteStream(r) \/ Metrics!PushSnapshot(r)
  PROVE  MetricsIInv'
<1>1. TasksIInv /\ EntriesIInv /\ GaugesIInv /\ AverageIInv
  BY MetricsTypes
<1>2. TasksIInv' /\ EntriesIInv' /\ GaugesIInv'
  BY <1>1, AddSessionKeeps, RemoveSessionKeeps, CreditSessionKeeps, AddStreamKeeps,
     CompleteStreamKeeps, PushKeeps
<1>3. ASSUME NEW x \in {"add session", "remove session", "credit session", "add stream",
                        "complete stream", "push"},
             Metrics!Doing(r, x), Metrics!Done(r), DomainMoves(x, reportTask[r].id),
             UNCHANGED << setting, vectors, sessionsBegun, sessionsEnded, timings, gauges >>
      PROVE  MetricsIInv'
  <2>1. Moved(r)
    BY <1>1, <1>3, MemoryMoves
  <2>2. TotalMoves(x)
    BY <1>3 DEF TotalMoves
  <2>3. AverageIInv'
    BY <1>1, <1>3, AverageStays
  <2>4. x \notin {"pjs_active_sessions", "pjs_sessions_created_total", "pjs_active_streams"}
    BY <1>3
  <2>5. QED
    BY <1>2, <1>3, <2>1, <2>2, <2>3, <2>4, MemoryKeepsMetrics
<1>4. CASE Metrics!AddSession(r)
  <2>1. PICK x : x = "add session"
    OBVIOUS
  <2>2. /\ Metrics!Doing(r, x) /\ Metrics!Done(r)
        /\ UNCHANGED << setting, vectors, sessionsBegun, sessionsEnded, timings, gauges >>
    BY <1>4, <2>1 DEF Metrics!AddSession, Metrics!Others
  <2>3. DomainMoves(x, reportTask[r].id)
    BY <1>4, <2>1 DEF DomainMoves, Metrics!AddSession, Metrics!Insert, Metrics!Arg
  <2>4. QED
    BY <1>3, <2>1, <2>2, <2>3
<1>5. CASE Metrics!RemoveSession(r)
  <2>1. PICK x : x = "remove session"
    OBVIOUS
  <2>2. /\ Metrics!Doing(r, x) /\ Metrics!Done(r)
        /\ UNCHANGED << setting, vectors, sessionsBegun, sessionsEnded, timings, gauges >>
    BY <1>5, <2>1 DEF Metrics!RemoveSession, Metrics!Others
  <2>3. DomainMoves(x, reportTask[r].id)
    BY <1>5, <2>1 DEF DomainMoves, Metrics!RemoveSession, Metrics!Arg
  <2>4. QED
    BY <1>3, <2>1, <2>2, <2>3
<1>6. CASE Metrics!CreditSession(r)
  <2>1. PICK x : x = "credit session"
    OBVIOUS
  <2>2. /\ Metrics!Doing(r, x) /\ Metrics!Done(r)
        /\ UNCHANGED << setting, vectors, sessionsBegun, sessionsEnded, timings, gauges >>
    BY <1>6, <2>1 DEF Metrics!CreditSession, Metrics!Others
  <2>3. DomainMoves(x, reportTask[r].id)
    BY <1>6, <2>1 DEF DomainMoves, Metrics!CreditSession
  <2>4. QED
    BY <1>3, <2>1, <2>2, <2>3
<1>7. CASE Metrics!AddStream(r)
  <2>1. PICK x : x = "add stream"
    OBVIOUS
  <2>2. /\ Metrics!Doing(r, x) /\ Metrics!Done(r)
        /\ UNCHANGED << setting, vectors, sessionsBegun, sessionsEnded, timings, gauges >>
    BY <1>7, <2>1 DEF Metrics!AddStream, Metrics!Others
  <2>3. DomainMoves(x, reportTask[r].id)
    BY <1>7, <2>1 DEF DomainMoves, Metrics!AddStream
  <2>4. QED
    BY <1>3, <2>1, <2>2, <2>3
<1>8. CASE Metrics!CompleteStream(r)
  <2>1. PICK x : x = "complete stream"
    OBVIOUS
  <2>2. /\ Metrics!Doing(r, x) /\ Metrics!Done(r)
        /\ UNCHANGED << setting, vectors, sessionsBegun, sessionsEnded, timings, gauges >>
    BY <1>8, <2>1 DEF Metrics!CompleteStream, Metrics!Others
  <2>3. DomainMoves(x, reportTask[r].id)
    BY <1>8, <2>1 DEF DomainMoves, Metrics!CompleteStream
  <2>4. QED
    BY <1>3, <2>1, <2>2, <2>3
<1>9. CASE Metrics!PushSnapshot(r)
  <2>1. PICK x : x = "push"
    OBVIOUS
  <2>2. /\ Metrics!Doing(r, x) /\ Metrics!Done(r)
        /\ UNCHANGED << setting, vectors, sessionsBegun, sessionsEnded, timings, gauges >>
    BY <1>9, <2>1 DEF Metrics!PushSnapshot, Metrics!Others
  <2>3. DomainMoves(x, reportTask[r].id)
    BY <1>9, <2>1 DEF DomainMoves, Metrics!PushSnapshot
  <2>4. QED
    BY <1>3, <2>1, <2>2, <2>3
<1>10. QED
  BY <1>4, <1>5, <1>6, <1>7, <1>8, <1>9

\* The inductive step: one case per action of the metrics collector.
LEMMA MetricsStep ==
  ASSUME MetricsIInv, Metrics!Next \/ UNCHANGED metricVars
  PROVE  MetricsIInv'
<1>1. TasksIInv
  BY MetricsTypes
<1>2. ASSUME NEW r \in Caller, NEW id \in SessionId, Metrics!RecordSessionCreated(r, id)
      PROVE  MetricsIInv'
  BY <1>1, <1>2, CallsAre, CallsKeepMetrics
<1>3. ASSUME NEW r \in Caller, NEW id \in StreamId, NEW s \in SessionId, Metrics!RecordStreamCreated(r, id, s)
      PROVE  MetricsIInv'
  BY <1>1, <1>3, CallsAre, CallsKeepMetrics
<1>4. ASSUME NEW r \in Caller, NEW id \in SessionId \cup StreamId, Metrics!RecordEnd(r, id)
      PROVE  MetricsIInv'
  BY <1>1, <1>4, CallsAre, CallsKeepMetrics
<1>5. ASSUME NEW r \in Caller, NEW d \in Durations, Metrics!RecordTiming(r, d)
      PROVE  MetricsIInv'
  BY <1>1, <1>5, CallsAre, CallsKeepMetrics
<1>6. ASSUME NEW r \in Caller, Metrics!CountFrames(r)
      PROVE  MetricsIInv'
  BY <1>1, <1>6, CallsAre, CallsKeepMetrics
<1>7. CASE UNCHANGED metricVars
  <2> USE <1>7 DEF metricVars
  <2>1. TasksIInv' <=> TasksIInv
    BY DEF TasksIInv, TaskFits, IsAbout, NoMetadata, CallIs
  <2>2. EntriesIInv' <=> EntriesIInv
    BY DEF EntriesIInv, Entry, Owes, Open, Quiet, CallIs
  <2>3. GaugesIInv' <=> GaugesIInv
    BY DEF GaugesIInv, GaugeTypes, SessionGauge, StreamGauge, Credits, At, Crediting, StreamsOf, Open,
           Metrics!Doing
  <2>4. StreamVectorsIInv' <=> StreamVectorsIInv
    BY DEF StreamVectorsIInv, StreamShown, Sampled, Values, Owes, Quiet, CallIs
  <2>5. SessionVectorsIInv' <=> SessionVectorsIInv
    BY DEF SessionVectorsIInv, SessionShown, Showing, Told, Values, Owes, Quiet, CallIs
  <2>6. (NoMetadata' <=> NoMetadata) /\ (AverageIInv' <=> AverageIInv)
    BY DEF NoMetadata, AverageIInv
  <2>7. QED
    BY <2>1, <2>2, <2>3, <2>4, <2>5, <2>6 DEF MetricsIInv
<1>8. CASE Metrics!Next
  BY <1>2, <1>3, <1>4, <1>5, <1>6, <1>8, GaugesKeepMetrics, EntryStepsKeepMetrics, SamplesKeepMetrics
     DEF Metrics!Next
<1>9. QED
  BY <1>7, <1>8

-----------------------------------------------------------------------------
(* What it says of the tables *)

\* The empty collectors satisfy the invariant.
LEMMA MetricsInit ==
  ASSUME Metrics!Init
  PROVE  MetricsIInv
<1>1. /\ setting \in Settings
      /\ gauges = [active_sessions |-> 0, total_sessions_created |-> 0, active_streams |-> 0,
                   total_streams_created |-> 0, frames_processed |-> 0, average |-> 0]
      /\ sessionMetrics = << >> /\ streamMetrics = << >> /\ vectors = << >>
      /\ reportTask = [r \in Caller |-> Metrics!Idle]
      /\ sessionsBegun = {} /\ sessionsEnded = {} /\ timings = {}
  BY DEF Metrics!Init
<1>2. /\ DOMAIN sessionMetrics = {} /\ DOMAIN streamMetrics = {} /\ DOMAIN vectors = {}
      /\ \A name : DOMAIN Values(name) = {}
      /\ Open = {} /\ \A s : StreamsOf(s) = {}
  BY <1>1 DEF Values, Open, StreamsOf
<1>3. \A r \in Caller : /\ reportTask[r] = Metrics!Idle
                        /\ \A x : ~Owes(r, x) /\ ~Metrics!Doing(r, x)
                        /\ \A names : ~CallIs(r, names)
  BY <1>1 DEF Owes, Metrics!Doing, Metrics!Idle, CallIs
<1>4. \A x : At(x) = {}
  BY <1>3 DEF At
<1>5. TasksIInv
  BY <1>1, <1>2, <1>3 DEF TasksIInv, TaskFits
<1>6. EntriesIInv
  BY <1>1, <1>2, <1>3 DEF EntriesIInv
<1>7. Cardinality({}) = 0
  BY FS_EmptySet
<1>8. GaugesIInv
  <2>1. GaugeTypes
    BY <1>1 DEF GaugeTypes
  <2>2. gauges.active_sessions = 0 /\ gauges.active_streams = 0
    BY <1>1
  <2>3. \A x : Cardinality(At(x)) = 0
    BY <1>4, <1>7
  <2>4. /\ Cardinality(At("remove session")) = 0 /\ Cardinality(At("add session")) = 0
        /\ Cardinality(At("complete stream")) = 0 /\ Cardinality(At("credit session")) = 0
        /\ Cardinality(At("add stream")) = 0
        /\ Cardinality(DOMAIN sessionMetrics) = 0 /\ Cardinality(Open) = 0
    BY <1>2, <1>7, <2>3, Zenon
  <2>5. SessionGauge /\ StreamGauge
    <3>1. 0 + 0 = 0 + 0 + 0
      OBVIOUS
    <3>2. QED
      BY <2>2, <2>4, <3>1, Zenon DEF SessionGauge, StreamGauge
  <2>6. Credits
    BY <1>2 DEF Credits
  <2>7. QED
    BY <2>1, <2>5, <2>6 DEF GaugesIInv
<1>9. StreamVectorsIInv
  BY <1>1, <1>2, <1>3 DEF StreamVectorsIInv
<1>10. AverageIInv
  BY <1>1, FS_EmptySet DEF AverageIInv
<1>11. SessionVectorsIInv
  <2>1. Showing = {} /\ Told("pjs_sessions_created_total") = {}
    BY <1>2 DEF Showing, Told
  <2>2. Uncounted = {} /\ gauges.total_sessions_created = 0 /\ sessionsBegun \cap SessionId = {}
    BY <1>1, <1>3 DEF Uncounted
  <2>3. SessionTotal
    BY <1>7, <2>2 DEF SessionTotal
  <2>4. SessionTable
    BY <1>2 DEF SessionTable
  <2>5. \A id \in SessionId : SessionStands(id)
    BY <1>1, <1>2, <2>1 DEF SessionStands
  <2>6. QED
    BY <1>3, <2>3, <2>4, <2>5, SessionVectorsAre
<1>12. QED
  BY <1>5, <1>6, <1>8, <1>9, <1>10, <1>11 DEF MetricsIInv

\* A set that is mapped into another one to one is no larger.
LEMMA NoMoreThan ==
  ASSUME NEW S, NEW T, IsFiniteSet(S), IsFiniteSet(T), NEW f \in [S -> T],
         \A x, y \in S : x # y => f[x] # f[y]
  PROVE  Cardinality(S) <= Cardinality(T)
<1>1. Cardinality(S) \in Nat /\ Cardinality(T) \in Nat
  BY FS_CardinalityType
<1>2. ~(Cardinality(T) < Cardinality(S))
  BY FS_PigeonHole
<1>3. QED
  BY <1>1, <1>2

\* Between two steps
LEMMA BetweenIs ==
  ASSUME NEW first, NEW second
  PROVE  Metrics!Between(first, second) = Cardinality({r \in Caller : Owes(r, second) /\ ~Owes(r, first)})
<1>1. \A r, x : x \in Metrics!ToSet(reportTask[r].todo) <=> Owes(r, x)
  BY DEF Metrics!ToSet, Owes
<1>2. \A S : Metrics!Cardinality(S) = Cardinality(S)
  BY Zenon DEF Metrics!Cardinality, Cardinality
<1>3. {r \in Caller : /\ second \in Metrics!ToSet(reportTask[r].todo)
                      /\ first \notin Metrics!ToSet(reportTask[r].todo)}
        = {r \in Caller : Owes(r, second) /\ ~Owes(r, first)}
  BY <1>1
<1>4. QED
  BY <1>2, <1>3, Zenon DEF Metrics!Between

\* Who owes the second of two steps and not the first is at the second.
LEMMA OwedInTurn ==
  ASSUME TasksIInv, NEW r \in Caller
  PROVE  /\ \A p \in Follows : Owes(r, p[2]) /\ ~Owes(r, p[1]) <=> Metrics!Doing(r, p[2])
         /\ \A p \in Follows : Owes(r, p[1]) => Owes(r, p[2])
         /\ \A x, y : Metrics!Doing(r, x) /\ Metrics!Doing(r, y) => x = y
         /\ \A x : Metrics!Doing(r, x) => Owes(r, x)
<1>1. \A x, y : Metrics!Doing(r, x) /\ Metrics!Doing(r, y) => x = y
  BY DEF Metrics!Doing
<1>2. CASE reportTask[r] = Metrics!Idle
  <2>1. \A x : ~Owes(r, x) /\ ~Metrics!Doing(r, x)
    BY <1>2 DEF Owes, Metrics!Doing, Metrics!Idle
  <2>2. QED
    BY <2>1
<1>3. CASE reportTask[r] # Metrics!Idle
  <2>1. InTurn(reportTask[r].todo)
    BY <1>3, WhatATaskIs
  <2>2. QED
    BY <1>1, <2>1, WhatIsOwed
<1>4. QED
  BY <1>2, <1>3

\* What the property counts as between two steps is who is at the second.
LEMMA BetweenTwo ==
  ASSUME TasksIInv, NEW p \in Follows
  PROVE  Metrics!Between(p[1], p[2]) = Cardinality(At(p[2]))
<1>1. {r \in Caller : Owes(r, p[2]) /\ ~Owes(r, p[1])} = At(p[2])
  BY OwedInTurn DEF At
<1>2. QED
  BY <1>1, BetweenIs

\* The gauges agree with the entries: GaugesIInv, in the words of the property.
LEMMA GaugesDoAgree ==
  ASSUME MetricsIInv
  PROVE  Metrics!GaugesAgreeWithEntries
<1>1. TasksIInv /\ SessionGauge /\ StreamGauge /\ Credits /\ EntriesIInv
  BY DEF MetricsIInv, GaugesIInv
<1>2. \A S : Metrics!Cardinality(S) = Cardinality(S)
  BY Zenon DEF Metrics!Cardinality, Cardinality
<1>3. /\ Metrics!Between("count session", "add session") = Cardinality(At("add session"))
      /\ Metrics!Between("uncount session", "remove session") = Cardinality(At("remove session"))
      /\ Metrics!Between("credit session", "add stream") = Cardinality(At("add stream"))
      /\ Metrics!Between("uncount stream", "complete stream") = Cardinality(At("complete stream"))
  BY <1>1, BetweenTwo, Pair
<1>4. Metrics!Between("count stream", "add stream")
        = Cardinality(At("credit session")) + Cardinality(At("add stream"))
  <2>1. PICK p \in Follows : p[1] = "count stream" /\ p[2] = "credit session"
    BY Pair, Zenon
  <2>2. PICK q \in Follows : q[1] = "credit session" /\ q[2] = "add stream"
    BY Pair, Zenon
  <2>3. \A r \in Caller : Owes(r, "add stream") /\ ~Owes(r, "count stream")
                            <=> r \in At("credit session") \cup At("add stream")
    BY <1>1, <2>1, <2>2, OwedInTurn DEF At
  <2>4. {r \in Caller : Owes(r, "add stream") /\ ~Owes(r, "count stream")}
          = At("credit session") \cup At("add stream")
    BY <2>3 DEF At
  <2>5. At("credit session") \cap At("add stream") = {}
    BY <1>1, OwedInTurn DEF At
  <2>6. PICK C, A : C = At("credit session") /\ A = At("add stream")
    OBVIOUS
  <2>7. /\ IsFiniteSet(C) /\ IsFiniteSet(A) /\ Cardinality(C) \in Nat /\ Cardinality(A) \in Nat
    BY <2>6, FinitelyManyAt
  <2>8. Cardinality(C \cup A) = Cardinality(C) + Cardinality(A)
    <3>1. C \cap A = {} /\ Cardinality({}) = 0
      BY <2>5, <2>6, FS_EmptySet
    <3>2. Cardinality(C \cup A) = Cardinality(C) + Cardinality(A) - Cardinality(C \cap A)
      BY <2>7, FS_Union
    <3>3. \A n, m \in Nat : n + m - 0 = n + m
      OBVIOUS
    <3>4. QED
      BY <2>7, <3>1, <3>2, <3>3, Zenon
  <2>9. Metrics!Between("count stream", "add stream") = Cardinality(C \cup A)
    <3>1. Metrics!Between("count stream", "add stream")
            = Cardinality({r \in Caller : Owes(r, "add stream") /\ ~Owes(r, "count stream")})
      BY BetweenIs, Zenon
    <3>2. QED
      BY <2>4, <2>6, <3>1, Zenon
  <2>10. QED
    BY <2>6, <2>8, <2>9, Zenon
<1>5. ASSUME NEW s \in DOMAIN sessionMetrics
      PROVE  sessionMetrics[s] <= Cardinality(StreamsOf(s)) + Cardinality(At("add stream"))
  <2>1. Crediting(s) \subseteq At("add stream")
    BY DEF Crediting
  <2>2. /\ Cardinality(Crediting(s)) <= Cardinality(At("add stream"))
        /\ Cardinality(Crediting(s)) \in Nat /\ Cardinality(At("add stream")) \in Nat
    BY <2>1, FinitelyManyAt, FS_Subset, FS_CardinalityType
  <2>3. StreamsOf(s) \subseteq StreamId
    BY <1>1 DEF StreamsOf, EntriesIInv
  <2>4. Cardinality(StreamsOf(s)) \in Nat
    BY <2>3, MetricsAssumption, FS_Subset, FS_CardinalityType
  <2>5. PICK n, m, c, v : /\ n = Cardinality(StreamsOf(s)) /\ m = Cardinality(At("add stream"))
                          /\ c = Cardinality(Crediting(s)) /\ v = sessionMetrics[s]
    OBVIOUS
  <2>6. v \in Nat /\ v <= n + c
    BY <1>1, <2>5 DEF Credits
  <2>7. n \in Nat /\ m \in Nat /\ c \in Nat /\ c <= m
    BY <2>2, <2>4, <2>5, Zenon
  <2>8. v <= n + m
    <3>1. \A w, j, k, l \in Nat : w <= j + k /\ k <= l => w <= j + l
      OBVIOUS
    <3>2. QED
      BY <2>6, <2>7, <3>1, Zenon
  <2>9. QED
    BY <2>5, <2>8, Zenon
<1>6. PICK a, b, c, d, e, f, g, h, i :
        /\ a = gauges.active_sessions /\ b = gauges.active_streams
        /\ c = Cardinality(DOMAIN sessionMetrics) /\ d = Cardinality(Open)
        /\ e = Cardinality(At("add session")) /\ f = Cardinality(At("remove session"))
        /\ g = Cardinality(At("credit session")) /\ h = Cardinality(At("add stream"))
        /\ i = Cardinality(At("complete stream"))
  OBVIOUS
<1>7. a + f = c + e
  BY <1>1, <1>6 DEF SessionGauge
<1>8. b + i = d + (g + h)
  <2>1. b + i = d + g + h
    BY <1>1, <1>6 DEF StreamGauge
  <2>2. g \in Nat /\ h \in Nat /\ d \in Nat
    <3>1. Open \subseteq StreamId
      BY <1>1 DEF Open, EntriesIInv
    <3>2. QED
      BY <1>6, <3>1, FinitelyManyAt, MetricsAssumption, FS_Subset, FS_CardinalityType
  <2>3. QED
    BY <2>1, <2>2
<1>9. /\ gauges.active_sessions + Metrics!Between("uncount session", "remove session")
           = Metrics!Cardinality(DOMAIN sessionMetrics) + Metrics!Between("count session", "add session")
      /\ gauges.active_streams + Metrics!Between("uncount stream", "complete stream")
           = Metrics!Cardinality(Open) + Metrics!Between("count stream", "add stream")
  BY <1>2, <1>3, <1>4, <1>6, <1>7, <1>8
<1>10. \A s \in DOMAIN sessionMetrics :
         sessionMetrics[s] <= Metrics!Cardinality(StreamsOf(s)) + Metrics!Between("credit session", "add stream")
  BY <1>2, <1>3, <1>5
<1>11. QED
  BY <1>9, <1>10, Zenon DEF Metrics!GaugesAgreeWithEntries, Open, StreamsOf

\* What the Prometheus collector shows in all
LEMMA MetricsTotal ==
  ASSUME NEW name, IsFiniteSet(DOMAIN Values(name)),
         \A l \in DOMAIN Values(name) : Values(name)[l] \in {0, 1}
  PROVE  Metrics!Total(name) = Cardinality({l \in DOMAIN Values(name) : Values(name)[l] = 1})
<1>1. PICK f : f = Values(name)
  OBVIOUS
<1>2. SumFunctionOnSet(f, DOMAIN f) = Cardinality({l \in DOMAIN f : f[l] = 1})
  BY <1>1, SumCounts
<1>3. CASE name \notin DOMAIN vectors
  <2>1. Metrics!Total(name) = 0
    BY <1>3, Zenon DEF Metrics!Total
  <2>2. {l \in DOMAIN f : f[l] = 1} = {}
    BY <1>1, <1>3 DEF Values
  <2>3. QED
    BY <1>1, <2>1, <2>2, FS_EmptySet
<1>4. CASE name \in DOMAIN vectors
  <2>1. f = vectors[name].values
    BY <1>1, <1>4 DEF Values
  <2>2. Metrics!SumFunction(f) = SumFunctionOnSet(f, DOMAIN f)
    BY Zenon
       DEF Metrics!SumFunction, Metrics!SumFunctionOnSet, SumFunctionOnSet,
           Metrics!FoldFunctionOnSet, FoldFunctionOnSet, Metrics!MapThenFoldSet, MapThenFoldSet
  <2>3. Metrics!Total(name) = Metrics!SumFunction(f)
    BY <1>4, <2>1, Zenon DEF Metrics!Total
  <2>4. QED
    BY <1>1, <1>2, <2>2, <2>3, Zenon
<1>5. QED
  BY <1>3, <1>4

\* As many singles as sessions
LEMMA SinglesCount ==
  ASSUME NEW S \in SUBSET SessionId, NEW T \in SUBSET Singles,
         \A id \in SessionId : << id >> \in T <=> id \in S
  PROVE  IsFiniteSet(T) /\ Cardinality(T) = Cardinality(S)
<1> DEFINE f == [id \in S |-> << id >>]
<1>1. IsFiniteSet(S)
  BY ReportersAssumption, FS_Subset
<1>2. f \in [S -> T]
  OBVIOUS
<1>3. ASSUME NEW x \in S, NEW y \in S, f[x] = f[y] PROVE x = y
  <2>1. << x >> = << y >>
    BY <1>3
  <2>2. QED
    BY <2>1
<1>4. ASSUME NEW l \in T PROVE \E id \in S : f[id] = l
  <2>1. PICK id \in SessionId : l = << id >>
    BY DEF Singles
  <2>2. id \in S
    BY <2>1
  <2>3. QED
    BY <2>1, <2>2
<1> HIDE DEF f
<1>5. f \in Injection(S, T)
  BY <1>2, <1>3 DEF Injection, IsInjective
<1>6. f \in Surjection(S, T)
  BY <1>2, <1>4 DEF Surjection
<1>7. ExistsBijection(S, T)
  BY <1>5, <1>6 DEF ExistsBijection, Bijection
<1>8. QED
  BY <1>1, <1>7, FS_Bijection

\* There are as many series of sessions as sessions.
LEMMA SinglesFinite ==
  IsFiniteSet(Singles)
<1>1. \A id \in SessionId : << id >> \in Singles
  BY DEF Singles
<1>2. QED
  BY <1>1, SinglesCount

\* With nobody at work everything is quiet, and nothing is owed.
LEMMA NobodyAtWork ==
  ASSUME Metrics!AtWork = {}
  PROVE  /\ \A r \in Caller : reportTask[r] = Metrics!Idle
         /\ \A id : Quiet(id)
         /\ \A r \in Caller : \A x : ~Owes(r, x)
         /\ \A x : At(x) = {} /\ Cardinality(At(x)) = 0
<1>1. \A r \in Caller : reportTask[r] = Metrics!Idle
  BY DEF Metrics!AtWork
<1>2. \A id : Quiet(id)
  BY <1>1 DEF Quiet, CallIs
<1>3. \A r \in Caller : \A x : ~Owes(r, x) /\ ~Metrics!Doing(r, x)
  BY <1>1 DEF Owes, Metrics!Idle, Metrics!Doing
<1>4. \A x : At(x) = {}
  BY <1>3 DEF At
<1>5. QED
  BY <1>1, <1>2, <1>3, <1>4, FS_EmptySet

\* When nobody is in a call, the sums over the series of sessions count the sessions
\* that are open and those there ever were, and so do the gauges.
LEMMA SessionsAgree ==
  ASSUME MetricsIInv, NoMetadata, Metrics!AtWork = {}
  PROVE  /\ Metrics!Total("pjs_active_sessions") = gauges.active_sessions
         /\ Metrics!Total("pjs_sessions_created_total") = gauges.total_sessions_created
<1>1. TasksIInv /\ EntriesIInv /\ GaugeTypes /\ SessionGauge /\ SessionVectorsIInv
  BY DEF MetricsIInv, GaugesIInv
<1>2. SessionTable /\ SessionTotal /\ \A id \in SessionId : SessionStands(id)
  BY <1>1, NobodyAtWork, SessionVectorsAre
<1>3. PICK A, T : A = Values("pjs_active_sessions") /\ T = Values("pjs_sessions_created_total")
  OBVIOUS
<1>4. /\ DOMAIN A \subseteq Singles /\ DOMAIN T \subseteq Singles
      /\ \A l \in DOMAIN A : A[l] \in {0, 1}
      /\ \A l \in DOMAIN T : T[l] = 1
  BY <1>2, <1>3 DEF SessionTable
<1>5. IsFiniteSet(DOMAIN A) /\ IsFiniteSet(DOMAIN T)
  BY <1>4, SinglesFinite, FS_Subset
<1>6. Metrics!Total("pjs_active_sessions") = gauges.active_sessions
  <2>1. PICK L : L = {l \in DOMAIN A : A[l] = 1}
    OBVIOUS
  <2>2. Metrics!Total("pjs_active_sessions") = Cardinality(L)
    BY <1>3, <1>4, <1>5, <2>1, MetricsTotal
  <2>3. DOMAIN sessionMetrics \in SUBSET SessionId
    BY <1>1 DEF EntriesIInv
  <2>4. \A id \in SessionId : << id >> \in L <=> id \in DOMAIN sessionMetrics
    <3>1. \A id \in SessionId : id \in Showing <=> id \in DOMAIN sessionMetrics
      BY <1>2 DEF SessionStands
    <3>2. \A id \in SessionId : << id >> \in L <=> id \in Showing
      BY <1>3, <2>1 DEF Showing
    <3>3. QED
      BY <3>1, <3>2
  <2>5. L \in SUBSET Singles
    BY <1>4, <2>1
  <2>6. Cardinality(L) = Cardinality(DOMAIN sessionMetrics)
    BY <2>3, <2>4, <2>5, SinglesCount
  <2>7. gauges.active_sessions = Cardinality(DOMAIN sessionMetrics)
    <3>1. Cardinality(At("remove session")) = 0 /\ Cardinality(At("add session")) = 0
      BY NobodyAtWork, Zenon
    <3>2. PICK a, c : a = gauges.active_sessions /\ c = Cardinality(DOMAIN sessionMetrics)
      OBVIOUS
    <3>3. a + 0 = c + 0
      BY <1>1, <3>1, <3>2, Zenon DEF SessionGauge
    <3>4. a \in Nat /\ c \in Nat
      BY <1>1, <2>3, <3>2, ReportersAssumption, FS_Subset, FS_CardinalityType DEF GaugeTypes
    <3>5. QED
      BY <3>2, <3>3, <3>4
  <2>8. QED
    BY <2>2, <2>6, <2>7
<1>7. Metrics!Total("pjs_sessions_created_total") = gauges.total_sessions_created
  <2>1. PICK B : B = sessionsBegun \cap SessionId
    OBVIOUS
  <2>2. Metrics!Total("pjs_sessions_created_total") = Cardinality(DOMAIN T)
    <3>1. Metrics!Total("pjs_sessions_created_total") = Cardinality({l \in DOMAIN T : T[l] = 1})
      BY <1>3, <1>4, <1>5, MetricsTotal
    <3>2. {l \in DOMAIN T : T[l] = 1} = DOMAIN T
      BY <1>4
    <3>3. QED
      BY <3>1, <3>2
  <2>3. \A id \in SessionId : << id >> \in DOMAIN T <=> id \in B
    <3>1. \A id \in SessionId : id \in Told("pjs_sessions_created_total") <=> id \in B
      BY <1>2, <2>1 DEF SessionStands
    <3>2. \A id \in SessionId : << id >> \in DOMAIN T <=> id \in Told("pjs_sessions_created_total")
      BY <1>3 DEF Told
    <3>3. QED
      BY <3>1, <3>2
  <2>4. Cardinality(DOMAIN T) = Cardinality(B)
    BY <1>4, <2>1, <2>3, SinglesCount
  <2>5. gauges.total_sessions_created = Cardinality(B)
    <3>1. Uncounted = {}
      BY NobodyAtWork DEF Uncounted
    <3>2. Cardinality(Uncounted) = 0
      BY <3>1, FS_EmptySet
    <3>3. PICK t : t = gauges.total_sessions_created
      OBVIOUS
    <3>4. t + 0 = Cardinality(B)
      BY <1>2, <2>1, <3>2, <3>3, Zenon DEF SessionTotal
    <3>5. t \in Nat
      BY <1>1, <3>3 DEF GaugeTypes
    <3>6. t + 0 = t
      BY <3>5
    <3>7. QED
      BY <3>3, <3>4, <3>6, Zenon
  <2>6. QED
    BY <2>2, <2>4, <2>5
<1>8. QED
  BY <1>6, <1>7

\* Every open stream has a series of its own that shows it.
LEMMA StreamsAgree ==
  ASSUME MetricsIInv, Metrics!AtWork = {}
  PROVE  Metrics!Total("pjs_active_streams") >= gauges.active_streams
<1>1. TasksIInv /\ EntriesIInv /\ GaugeTypes /\ StreamGauge /\ StreamVectorsIInv
  BY DEF MetricsIInv, GaugesIInv
<1>2. PICK V : V = Values("pjs_active_streams")
  OBVIOUS
<1>3. DOMAIN V \subseteq Pairs /\ \A l \in DOMAIN V : V[l] = 1
  BY <1>1, <1>2 DEF StreamVectorsIInv
<1>4. IsFiniteSet(DOMAIN V)
  <2>1. IsFiniteSet(StreamId) /\ IsFiniteSet(SessionId)
    BY MetricsAssumption, ReportersAssumption
  <2>2. IsFiniteSet(StreamId \X SessionId) /\ IsFiniteSet(SessionId \X StreamId)
    BY <2>1, FS_Product
  <2>3. IsFiniteSet(Pairs)
    BY <2>2, FS_Union DEF Pairs
  <2>4. QED
    BY <1>3, <2>3, FS_Subset
<1>5. Metrics!Total("pjs_active_streams") = Cardinality(DOMAIN V)
  <2>1. Metrics!Total("pjs_active_streams") = Cardinality({l \in DOMAIN V : V[l] = 1})
    BY <1>2, <1>3, <1>4, MetricsTotal
  <2>2. {l \in DOMAIN V : V[l] = 1} = DOMAIN V
    BY <1>3
  <2>3. QED
    BY <2>1, <2>2
<1>6. Open \subseteq Sampled /\ IsFiniteSet(Open)
  <2>1. Open \subseteq sessionsBegun \cap StreamId
    BY <1>1 DEF Open, EntriesIInv
  <2>2. \A id \in StreamId : id \in sessionsBegun => id \in Sampled
    BY <1>1, NobodyAtWork DEF StreamVectorsIInv
  <2>3. QED
    BY <2>1, <2>2, MetricsAssumption, FS_Subset
<1>7. Cardinality(Open) <= Cardinality(DOMAIN V)
  <2> DEFINE Label(t) == CHOOSE l \in DOMAIN V : \E s \in SessionId : l = << t, s >> \/ l = << s, t >>
             f == [t \in Open |-> Label(t)]
  <2>1. ASSUME NEW t \in Open
        PROVE  t \in StreamId /\ \E l \in DOMAIN V : \E s \in SessionId : l = << t, s >> \/ l = << s, t >>
    BY <1>2, <1>6 DEF Sampled
  <2>2. ASSUME NEW t \in Open
        PROVE  Label(t) \in DOMAIN V /\ \E s \in SessionId : Label(t) = << t, s >> \/ Label(t) = << s, t >>
    BY <2>1, Zenon
  <2> HIDE DEF Label
  <2>3. f \in [Open -> DOMAIN V]
    BY <2>2
  <2>4. ASSUME NEW x \in Open, NEW y \in Open, f[x] = f[y] PROVE x = y
    <3>1. PICK l : l = Label(x) /\ l = Label(y)
      BY <2>4
    <3>2. PICK s \in SessionId : l = << x, s >> \/ l = << s, x >>
      BY <2>2, <3>1
    <3>3. PICK u \in SessionId : l = << y, u >> \/ l = << u, y >>
      BY <2>2, <3>1
    <3>4. x \in StreamId /\ y \in StreamId
      BY <2>1
    <3>5. QED
      BY <3>2, <3>3, <3>4, MetricsAssumption
  <2> HIDE DEF f
  <2>5. QED
    BY <1>4, <1>6, <2>3, <2>4, NoMoreThan
<1>8. gauges.active_streams = Cardinality(Open)
  <2>1. /\ Cardinality(At("complete stream")) = 0 /\ Cardinality(At("credit session")) = 0
        /\ Cardinality(At("add stream")) = 0
    BY NobodyAtWork, Zenon
  <2>2. PICK a, c : a = gauges.active_streams /\ c = Cardinality(Open)
    OBVIOUS
  <2>3. a + 0 = c + 0 + 0
    BY <1>1, <2>1, <2>2, Zenon DEF StreamGauge
  <2>4. a \in Nat /\ c \in Nat
    BY <1>1, <1>6, <2>2, FS_CardinalityType DEF GaugeTypes
  <2>5. QED
    BY <2>2, <2>3, <2>4
<1>9. Cardinality(Open) \in Nat /\ Cardinality(DOMAIN V) \in Nat
  BY <1>4, <1>6, FS_CardinalityType
<1>10. \A m, n \in Nat : m <= n => n >= m
  OBVIOUS
<1>11. QED
  BY <1>5, <1>7, <1>8, <1>9, <1>10, Zenon

\* Both collectors show the same.
LEMMA CollectorsDoAgree ==
  ASSUME MetricsIInv
  PROVE  Metrics!CollectorsAgree
<1>1. /\ Metrics!Exported["pjs_active_sessions"] = gauges.active_sessions
      /\ Metrics!Exported["pjs_sessions_created_total"] = gauges.total_sessions_created
      /\ Metrics!Exported.pjs_active_streams = gauges.active_streams
  BY DEF Metrics!Exported
<1>2. ASSUME \A id \in SessionId : setting.metadata[id] = {}, Metrics!AtWork = {}
      PROVE  \A name \in {"pjs_active_sessions", "pjs_sessions_created_total"} :
               Metrics!Total(name) = Metrics!Exported[name]
  <2>1. NoMetadata
    BY <1>2 DEF NoMetadata
  <2>2. QED
    BY <1>1, <1>2, <2>1, SessionsAgree
<1>3. ASSUME Metrics!AtWork = {}
      PROVE  Metrics!Total("pjs_active_streams") >= Metrics!Exported.pjs_active_streams
  BY <1>1, <1>3, StreamsAgree
<1>4. QED
  BY <1>2, <1>3 DEF Metrics!CollectorsAgree

\* A finite set of numbers has a greatest.
LEMMA Greatest ==
  ASSUME NEW S \in SUBSET Nat, IsFiniteSet(S), S # {}
  PROVE  \E x \in S : \A y \in S : x >= y
<1> DEFINE Good == {T \in SUBSET S : T # {} => \E x \in T : \A y \in T : x >= y}
<1>1. ASSUME NEW T \in SUBSET S, \A U \in SUBSET T : U # T => U \in Good
      PROVE  T \in Good
  <2>1. SUFFICES ASSUME T # {} PROVE \E x \in T : \A y \in T : x >= y
    OBVIOUS
  <2>2. PICK z : z \in T
    BY <2>1
  <2>3. T \ {z} \in Good
    BY <1>1, <2>2
  <2>4. CASE T \ {z} = {}
    BY <2>2, <2>4
  <2>5. CASE T \ {z} # {}
    <3>1. PICK x \in T \ {z} : \A y \in T \ {z} : x >= y
      BY <2>3, <2>5
    <3>2. CASE x >= z
      BY <3>1, <3>2
    <3>3. CASE ~(x >= z)
      BY <2>2, <3>1, <3>3
    <3>4. QED
      BY <3>2, <3>3
  <2>6. QED
    BY <2>4, <2>5
<1>2. S \in Good
  <2> HIDE DEF Good
  <2> QED
    BY <1>1, SubsetInduction
<1>3. QED
  BY <1>2

\* The average is within its bound, for the duration that bounds it is not above the
\* longest.
LEMMA AverageIsWithin ==
  ASSUME MetricsIInv
  PROVE  Metrics!AverageIsBounded
<1>1. AverageIInv /\ gauges.average \in Nat
  BY DEF MetricsIInv, GaugesIInv, GaugeTypes
<1>2. SUFFICES ASSUME timings # {} PROVE gauges.average <= Metrics!Max(timings)
  BY DEF Metrics!AverageIsBounded
<1>3. timings \in SUBSET Nat /\ IsFiniteSet(timings)
  BY <1>1, MetricsAssumption DEF AverageIInv
<1>4. \E x \in timings : \A y \in timings : x >= y
  BY <1>2, <1>3, Greatest
<1>5. Metrics!Max(timings) \in timings /\ \A y \in timings : Metrics!Max(timings) >= y
  BY <1>4, Zenon DEF Metrics!Max
<1>6. PICK m \in timings : gauges.average <= m
  BY <1>1, <1>2 DEF AverageIInv
<1>7. PICK a, x : a = gauges.average /\ x = Metrics!Max(timings)
  OBVIOUS
<1>8. a \in Nat /\ x \in Nat /\ m \in Nat /\ a <= m /\ x >= m
  BY <1>1, <1>3, <1>5, <1>6, <1>7
<1>9. a <= x
  BY <1>8
<1>10. QED
  BY <1>7, <1>9
=============================================================================
