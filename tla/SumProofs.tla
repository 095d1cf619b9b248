----------------------------- MODULE SumProofs -----------------------------
(***************************************************************************)
(* What SumFunctionOnSet of the community modules computes, over any       *)
(* finite set: the sums of the wallet and of the funding ledger rest on    *)
(* these lemmas.                                                           *)
(*                                                                         *)
(* The induction is over the subsets of a finite set.  The provers cannot  *)
(* instantiate an induction principle that takes a predicate, so that      *)
(* SubsetInduction takes the set of those subsets for which it holds.      *)
(***************************************************************************)
EXTENDS Integers, FiniteSets, Functions, FiniteSetTheorems, TLAPS

-----------------------------------------------------------------------------
(***************************************************************************)
(* Induction, and the equation that SumFunctionOnSet solves.               *)
(***************************************************************************)

\* What holds of a set as soon as it holds of the set less any one element
\* holds of every finite set.
LEMMA SubsetInduction ==
    ASSUME NEW S, IsFiniteSet(S), NEW Good,
           \A T \in SUBSET S : (\A x \in T : T \ {x} \in Good) => T \in Good
    PROVE  S \in Good
<1> DEFINE Bad == {T \in SUBSET S : T \notin Good}
           Less == StrictSubsetOrdering(S)
<1>1. SUFFICES ASSUME Bad # {} PROVE FALSE
    OBVIOUS
<1>2. IsWellFoundedOn(Less, SUBSET S)
    BY FS_StrictSubsetOrderingWellFounded, FS_FiniteSubsetsOfFinite
<1>3. PICK T \in Bad : \A U \in Bad : <<U, T>> \notin Less
    <2> HIDE DEF Less
    <2>1. Bad \subseteq SUBSET S
        OBVIOUS
    <2> HIDE DEF Bad
    <2> QED
        BY <1>1, <1>2, <2>1, WFMin
<1>4. ASSUME NEW x \in T PROVE T \ {x} \in Good
    <2>1. <<T \ {x}, T>> \in Less
        BY <1>4 DEF StrictSubsetOrdering
    <2> QED
        BY <1>3, <2>1
<1> QED
    BY <1>3, <1>4

Some(T) == CHOOSE x \in T : TRUE

Sums(f, S, g) ==
    g = [T \in SUBSET S |-> IF T = {} THEN 0 ELSE f[Some(T)] + g[T \ {Some(T)}]]

TheSums(f, S) == CHOOSE g : Sums(f, S, g)

LEMMA SumIsLast ==
    ASSUME NEW f, NEW S
    PROVE  SumFunctionOnSet(f, S) = TheSums(f, S)[S]
BY Zenon DEF SumFunctionOnSet, FoldFunctionOnSet, MapThenFoldSet, TheSums, Sums, Some

LEMMA SomeMember == ASSUME NEW T, T # {} PROVE Some(T) \in T
BY DEF Some

LEMMA SumsAt ==
    ASSUME NEW f, NEW S, NEW g, Sums(f, S, g)
    PROVE  \A T : T \in SUBSET S =>
              g[T] = IF T = {} THEN 0 ELSE f[Some(T)] + g[T \ {Some(T)}]
<1>1. g = [U \in SUBSET S |-> IF U = {} THEN 0 ELSE f[Some(U)] + g[U \ {Some(U)}]]
    BY DEF Sums
<1> QED
    BY <1>1

LEMMA SumsUnique ==
    ASSUME NEW f, NEW S, IsFiniteSet(S), NEW R \in SUBSET S, NEW g, NEW h,
           Sums(f, S, g), Sums(f, R, h)
    PROVE  h[R] = g[R]
<1> DEFINE Good == {T \in SUBSET R : h[T] = g[T]}
<1>1. IsFiniteSet(R)
    BY FS_Subset
<1>2. ASSUME NEW T \in SUBSET R, \A x \in T : T \ {x} \in Good
      PROVE  T \in Good
    <2>1. CASE T = {}
        BY <2>1, SumsAt
    <2>2. CASE T # {}
        <3>1. Some(T) \in T
            BY <2>2, SomeMember
        <3>2. h[T \ {Some(T)}] = g[T \ {Some(T)}]
            BY <1>2, <3>1
        <3>3. h[T] = f[Some(T)] + h[T \ {Some(T)}]
            BY <2>2, SumsAt
        <3>4. T \in SUBSET S
            OBVIOUS
        <3>5. g[T] = f[Some(T)] + g[T \ {Some(T)}]
            BY <2>2, <3>4, SumsAt
        <3> QED
            BY <3>2, <3>3, <3>5
    <2> QED
        BY <2>1, <2>2
<1>3. R \in Good
    <2> HIDE DEF Good
    <2> QED
        BY <1>1, <1>2, SubsetInduction
<1> QED
    BY <1>3

LEMMA SumsExist ==
    ASSUME NEW f, NEW S, IsFiniteSet(S)
    PROVE  Sums(f, S, TheSums(f, S))
<1> DEFINE Good == {T \in SUBSET S : \E g : Sums(f, T, g)}
<1>1. ASSUME NEW T \in SUBSET S, \A x \in T : T \ {x} \in Good
      PROVE  T \in Good
    <2>1. ASSUME NEW U \in SUBSET T, U # T
          PROVE  Sums(f, U, TheSums(f, U))
        <3>1. PICK x \in T : U \subseteq T \ {x}
            BY <2>1
        <3>2. PICK g : Sums(f, T \ {x}, g)
            BY <1>1
        <3> DEFINE h == [V \in SUBSET U |-> g[V]]
        <3>3. h = [V \in SUBSET U |-> IF V = {} THEN 0 ELSE f[Some(V)] + h[V \ {Some(V)}]]
            <4>1. ASSUME NEW V \in SUBSET U
                  PROVE  g[V] = IF V = {} THEN 0 ELSE f[Some(V)] + g[V \ {Some(V)}]
                <5>1. V \in SUBSET (T \ {x})
                    BY <3>1
                <5> QED
                    BY <3>2, <5>1, SumsAt
            <4>2. ASSUME NEW V \in SUBSET U
                  PROVE  V \ {Some(V)} \in SUBSET U
                OBVIOUS
            <4> QED
                BY <4>1, <4>2
        <3>4. Sums(f, U, h)
            BY <3>3 DEF Sums
        <3> QED
            BY <3>4 DEF TheSums
    <2> DEFINE last(U) == TheSums(f, U)[U]
               g == [U \in SUBSET T |-> IF U = {} THEN 0
                                        ELSE f[Some(U)] + last(U \ {Some(U)})]
    <2>2. ASSUME NEW U \in SUBSET T, U # T
          PROVE  last(U) = g[U]
        <3>1. CASE U = {}
            BY <2>1, <2>2, <3>1, SumsAt
        <3>2. CASE U # {}
            <4> DEFINE V == U \ {Some(U)}
            <4>1. V \in SUBSET T /\ V # T /\ V \in SUBSET U
                BY <3>2, SomeMember
            <4> U \in SUBSET S
                OBVIOUS
            <4> IsFiniteSet(U)
                BY FS_Subset
            <4>2. Sums(f, U, TheSums(f, U)) /\ Sums(f, V, TheSums(f, V))
                BY <2>1, <2>2, <4>1
            <4>3. TheSums(f, V)[V] = TheSums(f, U)[V]
                BY <4>1, <4>2, SumsUnique
            <4>4. TheSums(f, U)[U] = f[Some(U)] + TheSums(f, U)[V]
                <5>1. U \in SUBSET U
                    OBVIOUS
                <5> QED
                    BY <3>2, <4>2, <5>1, SumsAt
            <4> QED
                BY <3>2, <4>3, <4>4
        <3> QED
            BY <3>1, <3>2
    <2>3. ASSUME NEW U \in SUBSET T, U # {}
          PROVE  last(U \ {Some(U)}) = g[U \ {Some(U)}]
        BY <2>2, <2>3, SomeMember
    <2>4. g = [U \in SUBSET T |-> IF U = {} THEN 0 ELSE f[Some(U)] + g[U \ {Some(U)}]]
        BY <2>3
    <2>5. Sums(f, T, g)
        BY <2>4 DEF Sums
    <2> QED
        BY <2>5
<1>2. S \in Good
    <2> HIDE DEF Good
    <2> QED
        BY <1>1, SubsetInduction
<1> QED
    BY <1>2 DEF TheSums

-----------------------------------------------------------------------------
(***************************************************************************)
(* The sum over a set in terms of the sum over smaller ones.               *)
(***************************************************************************)

LEMMA SumEmpty ==
    ASSUME NEW f
    PROVE  SumFunctionOnSet(f, {}) = 0
<1>1. IsFiniteSet({})
    BY FS_EmptySet
<1>2. TheSums(f, {})[{}] = 0
    <2>1. {} \in SUBSET {}
        OBVIOUS
    <2> QED
        BY <1>1, <2>1, SumsExist, SumsAt
<1> QED
    BY <1>2, SumIsLast

LEMMA SumSome ==
    ASSUME NEW f, NEW S, IsFiniteSet(S), S # {}
    PROVE  SumFunctionOnSet(f, S) = f[Some(S)] + SumFunctionOnSet(f, S \ {Some(S)})
<1> DEFINE R == S \ {Some(S)}
<1>1. R \in SUBSET S /\ S \in SUBSET S
    OBVIOUS
<1>2. IsFiniteSet(R)
    BY <1>1, FS_Subset
<1>3. Sums(f, S, TheSums(f, S)) /\ Sums(f, R, TheSums(f, R))
    BY <1>2, SumsExist
<1>4. TheSums(f, R)[R] = TheSums(f, S)[R]
    BY <1>1, <1>3, SumsUnique
<1>5. TheSums(f, S)[S] = f[Some(S)] + TheSums(f, S)[R]
    BY <1>1, <1>3, SumsAt
<1> QED
    BY <1>4, <1>5, SumIsLast

\* A sum of integers is one, and a sum of natural numbers is one.
LEMMA SumIn ==
    ASSUME NEW N \in {Nat, Int}, NEW f, NEW S, IsFiniteSet(S), \A x \in S : f[x] \in N
    PROVE  SumFunctionOnSet(f, S) \in N
<1> DEFINE Good == {T \in SUBSET S : SumFunctionOnSet(f, T) \in N}
<1>1. ASSUME NEW T \in SUBSET S, \A x \in T : T \ {x} \in Good
      PROVE  T \in Good
    <2>1. CASE T = {}
        BY <2>1, SumEmpty
    <2>2. CASE T # {}
        <3>1. Some(T) \in T /\ IsFiniteSet(T)
            BY <2>2, SomeMember, FS_Subset
        <3>2. SumFunctionOnSet(f, T) = f[Some(T)] + SumFunctionOnSet(f, T \ {Some(T)})
            BY <2>2, <3>1, SumSome
        <3>3. SumFunctionOnSet(f, T \ {Some(T)}) \in N /\ f[Some(T)] \in N
            BY <1>1, <3>1
        <3>4. \A m, n \in N : m + n \in N
            OBVIOUS
        <3> QED
            BY <3>2, <3>3, <3>4
    <2> QED
        BY <2>1, <2>2
<1>2. S \in Good
    <2> HIDE DEF Good
    <2> QED
        BY <1>1, SubsetInduction
<1> QED
    BY <1>2

LEMMA SumInt ==
    ASSUME NEW f, NEW S, IsFiniteSet(S), \A x \in S : f[x] \in Int
    PROVE  SumFunctionOnSet(f, S) \in Int
BY SumIn

LEMMA SumNat ==
    ASSUME NEW f, NEW S, IsFiniteSet(S), \A x \in S : f[x] \in Nat
    PROVE  SumFunctionOnSet(f, S) \in Nat
BY SumIn

\* A sum may be begun with any of its members.
LEMMA SumRemove ==
    ASSUME NEW f, NEW S, IsFiniteSet(S), \A x \in S : f[x] \in Int, NEW x \in S
    PROVE  SumFunctionOnSet(f, S) = f[x] + SumFunctionOnSet(f, S \ {x})
<1> DEFINE Rest(T, y) == SumFunctionOnSet(f, T \ {y})
           Good == {T \in SUBSET S : \A y \in T : SumFunctionOnSet(f, T) = f[y] + Rest(T, y)}
<1>1. ASSUME NEW T \in SUBSET S, \A y \in T : T \ {y} \in Good
      PROVE  T \in Good
    <2> SUFFICES ASSUME NEW y \in T
                 PROVE  SumFunctionOnSet(f, T) = f[y] + Rest(T, y)
        OBVIOUS
    <2> DEFINE c == Some(T)
    <2>1. c \in T /\ IsFiniteSet(T)
        BY SomeMember, FS_Subset
    <2>2. SumFunctionOnSet(f, T) = f[c] + Rest(T, c)
        BY <2>1, SumSome
    <2>3. CASE c = y
        BY <2>2, <2>3
    <2>4. CASE c # y
        <3> DEFINE U == (T \ {c}) \ {y}
        <3>1. U = (T \ {y}) \ {c}
            OBVIOUS
        <3>2. Rest(T, c) = f[y] + SumFunctionOnSet(f, U)
            BY <1>1, <2>1, <2>4
        <3>3. Rest(T, y) = f[c] + SumFunctionOnSet(f, U)
            BY <1>1, <2>1, <2>4, <3>1
        <3>4. SumFunctionOnSet(f, U) \in Int
            <4>1. U \in SUBSET S /\ \A z \in U : f[z] \in Int
                OBVIOUS
            <4>2. IsFiniteSet(U)
                BY <4>1, FS_Subset
            <4> QED
                BY <4>1, <4>2, SumInt
        <3>5. f[y] \in Int /\ f[c] \in Int
            BY <2>1
        <3> HIDE DEF c, U, Rest
        <3> QED
            BY <2>2, <3>2, <3>3, <3>4, <3>5
    <2> QED
        BY <2>3, <2>4
<1>2. S \in Good
    <2> HIDE DEF Good
    <2> QED
        BY <1>1, SubsetInduction
<1> QED
    BY <1>2

LEMMA SumAdd ==
    ASSUME NEW f, NEW S, IsFiniteSet(S), NEW x, x \notin S,
           \A y \in S \cup {x} : f[y] \in Int
    PROVE  SumFunctionOnSet(f, S \cup {x}) = f[x] + SumFunctionOnSet(f, S)
<1>1. IsFiniteSet(S \cup {x}) /\ (S \cup {x}) \ {x} = S
    BY FS_AddElement
<1>2. x \in S \cup {x}
    OBVIOUS
<1>3. SumFunctionOnSet(f, S \cup {x}) = f[x] + SumFunctionOnSet(f, (S \cup {x}) \ {x})
    BY <1>1, <1>2, SumRemove
<1> QED
    BY <1>1, <1>3

-----------------------------------------------------------------------------
(***************************************************************************)
(* Sums of two functions over one set, and of one function over two sets.  *)
(***************************************************************************)

\* A sum depends on the values at the members only.
LEMMA SumSame ==
    ASSUME NEW f, NEW g, NEW S, IsFiniteSet(S), \A x \in S : f[x] = g[x]
    PROVE  SumFunctionOnSet(f, S) = SumFunctionOnSet(g, S)
<1> DEFINE Good == {T \in SUBSET S : SumFunctionOnSet(f, T) = SumFunctionOnSet(g, T)}
<1>1. ASSUME NEW T \in SUBSET S, \A x \in T : T \ {x} \in Good
      PROVE  T \in Good
    <2>1. CASE T = {}
        BY <2>1, SumEmpty
    <2>2. CASE T # {}
        <3>1. Some(T) \in T /\ IsFiniteSet(T)
            BY <2>2, SomeMember, FS_Subset
        <3>2. /\ SumFunctionOnSet(f, T) = f[Some(T)] + SumFunctionOnSet(f, T \ {Some(T)})
              /\ SumFunctionOnSet(g, T) = g[Some(T)] + SumFunctionOnSet(g, T \ {Some(T)})
            BY <2>2, <3>1, SumSome
        <3> QED
            BY <1>1, <3>1, <3>2
    <2> QED
        BY <2>1, <2>2
<1>2. S \in Good
    <2> HIDE DEF Good
    <2> QED
        BY <1>1, SubsetInduction
<1> QED
    BY <1>2

\* A sum of sums.
LEMMA SumPlus ==
    ASSUME NEW f, NEW g, NEW h, NEW S, IsFiniteSet(S),
           \A x \in S : f[x] \in Int /\ g[x] \in Int /\ h[x] = f[x] + g[x]
    PROVE  SumFunctionOnSet(h, S) = SumFunctionOnSet(f, S) + SumFunctionOnSet(g, S)
<1> DEFINE Good == {T \in SUBSET S :
               SumFunctionOnSet(h, T) = SumFunctionOnSet(f, T) + SumFunctionOnSet(g, T)}
<1>1. ASSUME NEW T \in SUBSET S, \A x \in T : T \ {x} \in Good
      PROVE  T \in Good
    <2>1. CASE T = {}
        BY <2>1, SumEmpty
    <2>2. CASE T # {}
        <3> DEFINE c == Some(T)
                   R == T \ {c}
        <3>1. c \in T /\ IsFiniteSet(T)
            BY <2>2, SomeMember, FS_Subset
        <3>2. /\ SumFunctionOnSet(f, T) = f[c] + SumFunctionOnSet(f, R)
              /\ SumFunctionOnSet(g, T) = g[c] + SumFunctionOnSet(g, R)
              /\ SumFunctionOnSet(h, T) = h[c] + SumFunctionOnSet(h, R)
            BY <2>2, <3>1, SumSome
        <3>3. IsFiniteSet(R) /\ \A x \in R : f[x] \in Int /\ g[x] \in Int
            BY <3>1, FS_RemoveElement
        <3>4. SumFunctionOnSet(f, R) \in Int /\ SumFunctionOnSet(g, R) \in Int
            BY <3>3, SumInt
        <3>5. SumFunctionOnSet(h, R) = SumFunctionOnSet(f, R) + SumFunctionOnSet(g, R)
            BY <1>1, <3>1
        <3>6. f[c] \in Int /\ g[c] \in Int /\ h[c] = f[c] + g[c]
            BY <3>1
        <3> HIDE DEF c, R
        <3>7. SumFunctionOnSet(h, T) = SumFunctionOnSet(f, T) + SumFunctionOnSet(g, T)
            BY <3>2, <3>4, <3>5, <3>6
        <3> QED
            BY <3>7
    <2> QED
        BY <2>1, <2>2
<1>2. S \in Good
    <2> HIDE DEF Good
    <2> QED
        BY <1>1, SubsetInduction
<1> QED
    BY <1>2

\* A sum grows with its members.
LEMMA SumMonotone ==
    ASSUME NEW f, NEW g, NEW S, IsFiniteSet(S),
           \A x \in S : f[x] \in Int /\ g[x] \in Int /\ f[x] <= g[x]
    PROVE  SumFunctionOnSet(f, S) <= SumFunctionOnSet(g, S)
<1> DEFINE h == [x \in S |-> g[x] - f[x]]
<1>1. \A x \in S : h[x] \in Nat /\ h[x] \in Int /\ g[x] = f[x] + h[x]
    OBVIOUS
<1> HIDE DEF h
<1>2. SumFunctionOnSet(g, S) = SumFunctionOnSet(f, S) + SumFunctionOnSet(h, S)
    BY <1>1, SumPlus
<1>3. SumFunctionOnSet(f, S) \in Int /\ SumFunctionOnSet(h, S) \in Nat
    BY <1>1, SumInt, SumNat
<1> QED
    BY <1>2, <1>3

\* A sum changes by what one member changes.
LEMMA SumChangedAt ==
    ASSUME NEW f, NEW g, NEW S, IsFiniteSet(S), NEW x \in S,
           \A y \in S : f[y] \in Int /\ g[y] \in Int,
           \A y \in S \ {x} : g[y] = f[y]
    PROVE  SumFunctionOnSet(g, S) = SumFunctionOnSet(f, S) + (g[x] - f[x])
<1> DEFINE R == S \ {x}
<1>1. IsFiniteSet(R) /\ \A y \in R : f[y] \in Int /\ g[y] = f[y]
    BY FS_RemoveElement
<1>2. SumFunctionOnSet(g, R) = SumFunctionOnSet(f, R) /\ SumFunctionOnSet(f, R) \in Int
    BY <1>1, SumSame, SumInt
<1>3. /\ SumFunctionOnSet(f, S) = f[x] + SumFunctionOnSet(f, R)
      /\ SumFunctionOnSet(g, S) = g[x] + SumFunctionOnSet(g, R)
    BY SumRemove
<1>4. f[x] \in Int /\ g[x] \in Int
    OBVIOUS
<1> HIDE DEF R
<1> QED
    BY <1>2, <1>3, <1>4

\* Members that contribute nothing may be left out.
LEMMA SumOfSupport ==
    ASSUME NEW f, NEW S, IsFiniteSet(S), NEW R \in SUBSET S,
           \A x \in S : f[x] \in Int, \A x \in S \ R : f[x] = 0
    PROVE  SumFunctionOnSet(f, S) = SumFunctionOnSet(f, R)
<1> DEFINE Good == {T \in SUBSET S :
               SumFunctionOnSet(f, T) = SumFunctionOnSet(f, T \cap R)}
<1>1. ASSUME NEW T \in SUBSET S, \A x \in T : T \ {x} \in Good
      PROVE  T \in Good
    <2>1. CASE T \subseteq R
        <3>1. T \cap R = T
            BY <2>1
        <3> QED
            BY <3>1
    <2>2. CASE ~(T \subseteq R)
        <3>1. PICK x \in T : x \notin R
            BY <2>2
        <3>2. (T \ {x}) \cap R = T \cap R
            BY <3>1
        <3>3. IsFiniteSet(T) /\ f[x] = 0 /\ \A y \in T : f[y] \in Int
            BY <3>1, FS_Subset
        <3>4. SumFunctionOnSet(f, T) = f[x] + SumFunctionOnSet(f, T \ {x})
            BY <3>3, SumRemove
        <3>5. SumFunctionOnSet(f, T \ {x}) \in Int
            BY <3>3, SumInt, FS_RemoveElement
        <3>6. SumFunctionOnSet(f, T \ {x}) = SumFunctionOnSet(f, T \cap R)
            BY <1>1, <3>2
        <3> QED
            BY <3>3, <3>4, <3>5, <3>6
    <2> QED
        BY <2>1, <2>2
<1>2. S \in Good
    <2> HIDE DEF Good
    <2> QED
        BY <1>1, SubsetInduction
<1>3. S \cap R = R
    OBVIOUS
<1> QED
    BY <1>2, <1>3

\* The sum over a part of a set, as a sum over the whole set.
LEMMA SumOfPart ==
    ASSUME NEW f, NEW S, IsFiniteSet(S), NEW R \in SUBSET S, \A x \in R : f[x] \in Int
    PROVE  SumFunctionOnSet(f, R)
             = SumFunctionOnSet([x \in S |-> IF x \in R THEN f[x] ELSE 0], S)
<1> DEFINE g == [x \in S |-> IF x \in R THEN f[x] ELSE 0]
<1>1. /\ \A x \in S : g[x] \in Int
      /\ \A x \in S \ R : g[x] = 0
      /\ \A x \in R : f[x] = g[x]
    OBVIOUS
<1> HIDE DEF g
<1>2. IsFiniteSet(R)
    BY FS_Subset
<1>3. SumFunctionOnSet(f, R) = SumFunctionOnSet(g, R)
    BY <1>1, <1>2, SumSame
<1>4. SumFunctionOnSet(g, S) = SumFunctionOnSet(g, R)
    BY <1>1, SumOfSupport
<1> QED
    BY <1>3, <1>4 DEF g
=============================================================================
