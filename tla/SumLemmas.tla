------------------------------- MODULE SumLemmas -------------------------------
(***************************************************************************)
(* Sums over finite sets: what SumFunctionOnSet(f, S), the sum of f[x] for *)
(* x in S, makes of a set or of a function that changes at one point.  The *)
(* library defines it by recursion on subsets; it is the number of units   *)
(* in S when each x counts f[x] of them, and cardinalities can be added.   *)
(***************************************************************************)
EXTENDS Integers, FiniteSets, Functions, FiniteSetTheorems, WellFoundedInduction, TLAPS

Units(f, S) == {u \in S \X Nat : 1 <= u[2] /\ u[2] <= f[u[1]]}

Counts(f, S) == \A x \in S : f[x] \in Nat

\* One more element counts its own units.
LEMMA UnitsAdd ==
    ASSUME NEW f, NEW S, NEW x, x \notin S, f[x] \in Nat, IsFiniteSet(Units(f, S))
    PROVE  /\ IsFiniteSet(Units(f, S \cup {x}))
           /\ Cardinality(Units(f, S \cup {x})) = Cardinality(Units(f, S)) + f[x]
  <1> DEFINE new == {x} \X (1 .. f[x])
  <1>1. IsFiniteSet(new) /\ Cardinality(new) = f[x]
    <2>1. IsFiniteSet({x}) /\ Cardinality({x}) = 1
      BY FS_Singleton
    <2>2. IsFiniteSet(1 .. f[x]) /\ Cardinality(1 .. f[x]) = f[x]
      BY FS_Interval
    <2>3. IsFiniteSet(new) /\ Cardinality(new) = Cardinality({x}) * Cardinality(1 .. f[x])
      BY <2>1, <2>2, FS_Product
    <2> HIDE DEF new
    <2> QED BY <2>1, <2>2, <2>3
  <1>2. Units(f, S \cup {x}) = Units(f, S) \cup new
    BY DEF Units
  <1>3. Units(f, S) \cap new = {}
    BY DEF Units
  <1>4. Cardinality(Units(f, S)) \in Nat
    BY FS_CardinalityType
  <1> HIDE DEF new
  <1>5. /\ IsFiniteSet(Units(f, S) \cup new)
        /\ Cardinality(Units(f, S) \cup new) =
             Cardinality(Units(f, S)) + Cardinality(new) - Cardinality(Units(f, S) \cap new)
    BY <1>1, FS_Union
  <1>6. Cardinality(Units(f, S) \cap new) = 0
    BY <1>3, FS_EmptySet
  <1>7. Cardinality(Units(f, S) \cup new) = Cardinality(Units(f, S)) + f[x]
    BY <1>1, <1>4, <1>5, <1>6
  <1> QED BY <1>2, <1>5, <1>7, Zenon

\* Induction over the subsets of a finite set: a set of subsets that is not
\* empty has one of which no smaller one belongs to it.
LEMMA SmallestSubset ==
    ASSUME NEW S, IsFiniteSet(S), NEW F \in SUBSET SUBSET S, F # {}
    PROVE  \E T \in F : \A x \in T : T \ {x} \notin F
  <1>1. F \subseteq FiniteSubsetsOf(S)
    BY FS_Subset DEF FiniteSubsetsOf
  <1>2. PICK T \in F : \A U \in F : ~(<<U, T>> \in StrictSubsetOrdering(S))
    BY <1>1, FS_StrictSubsetOrderingWellFounded, WFMin
  <1>3. ASSUME NEW x \in T PROVE <<T \ {x}, T>> \in StrictSubsetOrdering(S)
    <2>1. T \ {x} \in SUBSET S /\ T \in SUBSET S /\ T \ {x} \subseteq T /\ T \ {x} # T
      BY <1>2, <1>3
    <2> QED BY <2>1 DEF StrictSubsetOrdering
  <1> QED BY <1>2, <1>3

LEMMA UnitsFinite ==
    ASSUME NEW f, NEW S, IsFiniteSet(S), Counts(f, S)
    PROVE  IsFiniteSet(Units(f, S))
  <1> DEFINE F == {T \in SUBSET S : ~IsFiniteSet(Units(f, T))}
  <1> SUFFICES ASSUME F # {} PROVE FALSE
    OBVIOUS
  <1>1. PICK T \in F : \A x \in T : T \ {x} \notin F
    BY SmallestSubset
  <1>2. CASE T = {}
    BY <1>1, <1>2, FS_EmptySet DEF Units
  <1>3. ASSUME NEW x \in T PROVE FALSE
    <2>1. IsFiniteSet(Units(f, T \ {x})) /\ x \in S /\ T = (T \ {x}) \cup {x}
      BY <1>1, <1>3
    <2>2. IsFiniteSet(Units(f, (T \ {x}) \cup {x}))
      BY <2>1, UnitsAdd DEF Counts
    <2> QED BY <1>1, <2>1, <2>2
  <1> QED BY <1>2, <1>3

LEMMA UnitsRemove ==
    ASSUME NEW f, NEW S, IsFiniteSet(S), Counts(f, S), NEW x \in S
    PROVE  Cardinality(Units(f, S)) = f[x] + Cardinality(Units(f, S \ {x}))
  <1>1. IsFiniteSet(Units(f, S \ {x}))
    BY UnitsFinite, FS_RemoveElement DEF Counts
  <1>2. Cardinality(Units(f, (S \ {x}) \cup {x})) = Cardinality(Units(f, S \ {x})) + f[x]
    BY <1>1, UnitsAdd DEF Counts
  <1>3. (S \ {x}) \cup {x} = S /\ Cardinality(Units(f, S \ {x})) \in Nat /\ f[x] \in Nat
    BY <1>1, FS_CardinalityType DEF Counts
  <1>4. Cardinality(Units(f, S)) = Cardinality(Units(f, S \ {x})) + f[x]
    BY <1>2, <1>3, Zenon
  <1> QED BY <1>3, <1>4

\* The recursion by which the library defines the sum.
Sums(sum, f, S) ==
    sum = [T \in SUBSET S |-> IF T = {} THEN 0
                              ELSE LET x == CHOOSE x \in T : TRUE IN f[x] + sum[T \ {x}]]

LEMMA SumsExist ==
    ASSUME NEW f, NEW S, IsFiniteSet(S), Counts(f, S)
    PROVE  Sums([T \in SUBSET S |-> Cardinality(Units(f, T))], f, S)
  <1> DEFINE count == [T \in SUBSET S |-> Cardinality(Units(f, T))]
  <1>1. ASSUME NEW T \in SUBSET S
        PROVE  count[T] = IF T = {} THEN 0
                          ELSE LET x == CHOOSE x \in T : TRUE IN f[x] + count[T \ {x}]
    <2>1. CASE T = {}
      <3>1. Units(f, T) = {}
        BY <2>1 DEF Units
      <3> QED BY <2>1, <3>1, FS_EmptySet
    <2>2. CASE T # {}
      <3> DEFINE x == CHOOSE x \in T : TRUE
      <3>1. x \in T /\ T \ {x} \in SUBSET S
        BY <2>2
      <3>2. IsFiniteSet(T) /\ Counts(f, T)
        BY FS_Subset DEF Counts
      <3>3. Cardinality(Units(f, T)) = f[x] + Cardinality(Units(f, T \ {x}))
        <4> HIDE DEF x
        <4> QED BY <3>1, <3>2, UnitsRemove
      <3> QED BY <2>2, <3>1, <3>3
    <2> QED BY <2>1, <2>2
  <1> QED BY <1>1 DEF Sums

LEMMA SumsAreUnits ==
    ASSUME NEW f, NEW S, IsFiniteSet(S), Counts(f, S), NEW sum, Sums(sum, f, S)
    PROVE  \A T \in SUBSET S : sum[T] = Cardinality(Units(f, T))
  <1> DEFINE F == {T \in SUBSET S : sum[T] # Cardinality(Units(f, T))}
  <1> SUFFICES ASSUME F # {} PROVE FALSE
    OBVIOUS
  <1>1. PICK T \in F : \A x \in T : T \ {x} \notin F
    BY SmallestSubset
  <1> DEFINE count == [U \in SUBSET S |-> Cardinality(Units(f, U))]
             x == CHOOSE y \in T : TRUE
  <1>2. Sums(count, f, S)
    BY SumsExist
  <1>3. /\ sum[T] = IF T = {} THEN 0 ELSE f[x] + sum[T \ {x}]
        /\ count[T] = IF T = {} THEN 0 ELSE f[x] + count[T \ {x}]
    BY <1>2 DEF Sums
  <1>4. T # {} => sum[T \ {x}] = count[T \ {x}]
    BY <1>1
  <1> QED BY <1>1, <1>3, <1>4

\* The sum is the number of units.
LEMMA SumIsUnits ==
    ASSUME NEW f, NEW S, IsFiniteSet(S), Counts(f, S)
    PROVE  SumFunctionOnSet(f, S) = Cardinality(Units(f, S))
  <1> DEFINE sum == CHOOSE sum : Sums(sum, f, S)
  <1>1. Sums(sum, f, S)
    BY SumsExist
  <1>2. SumFunctionOnSet(f, S) = sum[S]
    BY DEF SumFunctionOnSet, FoldFunctionOnSet, MapThenFoldSet, Sums
  <1> HIDE DEF sum
  <1> QED BY <1>1, <1>2, SumsAreUnits

-----------------------------------------------------------------------------
(* What the proofs about sums cite. *)

LEMMA SumOfNone == ASSUME NEW f PROVE SumFunctionOnSet(f, {}) = 0
  <1>1. IsFiniteSet({}) /\ Counts(f, {}) /\ Units(f, {}) = {}
    BY FS_EmptySet DEF Counts, Units
  <1> QED BY <1>1, SumIsUnits, FS_EmptySet

\* A sum of nothing is nothing.
LEMMA SumOfZeros ==
    ASSUME NEW f, NEW S, IsFiniteSet(S), \A x \in S : f[x] = 0
    PROVE  SumFunctionOnSet(f, S) = 0
  <1>1. Counts(f, S) /\ Units(f, S) = {}
    BY DEF Counts, Units
  <1> QED BY <1>1, SumIsUnits, FS_EmptySet

LEMMA SumType ==
    ASSUME NEW f, NEW S, IsFiniteSet(S), Counts(f, S)
    PROVE  SumFunctionOnSet(f, S) \in Nat
  BY SumIsUnits, UnitsFinite, FS_CardinalityType

\* Functions that agree on S have the same sum over S.
LEMMA SumSame ==
    ASSUME NEW f, NEW g, NEW S, IsFiniteSet(S), Counts(f, S), \A x \in S : g[x] = f[x]
    PROVE  SumFunctionOnSet(g, S) = SumFunctionOnSet(f, S)
  <1>1. Counts(g, S) /\ Units(g, S) = Units(f, S)
    BY DEF Counts, Units
  <1> QED BY <1>1, SumIsUnits

\* An element joins or leaves the set.
LEMMA SumAdd ==
    ASSUME NEW f, NEW S, IsFiniteSet(S), Counts(f, S), NEW x, x \notin S, f[x] \in Nat
    PROVE  SumFunctionOnSet(f, S \cup {x}) = SumFunctionOnSet(f, S) + f[x]
  <1>1. IsFiniteSet(S \cup {x}) /\ Counts(f, S \cup {x}) /\ IsFiniteSet(Units(f, S))
    BY FS_AddElement, UnitsFinite DEF Counts
  <1>2. Cardinality(Units(f, S \cup {x})) = Cardinality(Units(f, S)) + f[x]
    BY <1>1, UnitsAdd
  <1> QED BY <1>1, <1>2, SumIsUnits

LEMMA SumRemove ==
    ASSUME NEW f, NEW S, IsFiniteSet(S), Counts(f, S), NEW x \in S
    PROVE  /\ SumFunctionOnSet(f, S) = SumFunctionOnSet(f, S \ {x}) + f[x]
           /\ SumFunctionOnSet(f, S \ {x}) \in Nat /\ f[x] \in Nat
  <1>1. IsFiniteSet(S \ {x}) /\ Counts(f, S \ {x}) /\ f[x] \in Nat
    BY FS_RemoveElement DEF Counts
  <1>2. SumFunctionOnSet(f, (S \ {x}) \cup {x}) = SumFunctionOnSet(f, S \ {x}) + f[x]
    BY <1>1, SumAdd
  <1>3. (S \ {x}) \cup {x} = S
    OBVIOUS
  <1> QED BY <1>1, <1>2, <1>3, SumType

\* The function changes at one element of the set, or at none.
LEMMA SumChange ==
    ASSUME NEW f, NEW g, NEW S, IsFiniteSet(S), Counts(f, S), NEW x \in S, g[x] \in Nat,
           \A y \in S : y # x => g[y] = f[y]
    PROVE  SumFunctionOnSet(g, S) = SumFunctionOnSet(f, S) - f[x] + g[x]
  <1>1. Counts(g, S) /\ Counts(f, S \ {x}) /\ IsFiniteSet(S \ {x})
    BY FS_RemoveElement DEF Counts
  <1>2. SumFunctionOnSet(g, S \ {x}) = SumFunctionOnSet(f, S \ {x})
    BY <1>1, SumSame
  <1>3. /\ SumFunctionOnSet(f, S) = SumFunctionOnSet(f, S \ {x}) + f[x]
        /\ SumFunctionOnSet(g, S) = SumFunctionOnSet(g, S \ {x}) + g[x]
        /\ SumFunctionOnSet(f, S \ {x}) \in Nat /\ f[x] \in Nat
    BY <1>1, SumRemove
  <1> QED BY <1>2, <1>3

===============================================================================
