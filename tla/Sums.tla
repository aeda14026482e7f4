-------------------------------- MODULE Sums --------------------------------
(***************************************************************************)
(* What the proofs share about numbers and about sums over finite sets.    *)
(*                                                                         *)
(* SumFunctionOnSet of the community modules is defined by recursion over  *)
(* the subsets of a set.  What it computes is proved by minimal            *)
(* counterexample: a set of subsets that is not empty has a smallest one.  *)
(***************************************************************************)
EXTENDS Integers, Functions, FiniteSetTheorems, WellFoundedInduction, TLAPS

\* A set of numbers that is not empty has a least one.
LEMMA LeastNumber ==
    ASSUME NEW S, S \subseteq Nat, S # {}
    PROVE  \E m \in S : \A n \in S : m <= n
<1>1. PICK m \in S : \A n \in S : ~ <<n, m>> \in OpToRel(<, Nat)
  BY NatLessThanWellFounded, WFMin
<1>2. \A n \in S : ~ (n < m)
  BY <1>1 DEF OpToRel
<1> QED
  BY <1>2

-----------------------------------------------------------------------------
(***************************************************************************)
(* The function that SumFunctionOnSet evaluates.                           *)
(***************************************************************************)
SomeOf(s) == CHOOSE x \in s : TRUE

SumsUp(f, S, g) ==
    g = [s \in SUBSET S |->
            IF s = {} THEN 0
            ELSE LET x == CHOOSE x \in s : TRUE IN f[x] + g[s \ {x}]]

\* SumFunctionOnSet is the value, for the whole set, of the function that adds
\* up its subsets.
LEMMA SumUnfolds ==
    ASSUME NEW f, NEW S
    PROVE  SumFunctionOnSet(f, S) = (CHOOSE g : SumsUp(f, S, g))[S]
  BY DEF SumFunctionOnSet, FoldFunctionOnSet, MapThenFoldSet, SumsUp

\* Among subsets of a finite set one has no other below it: the smallest
\* counterexample, which takes the place of induction over finite sets.
LEMMA SmallestSubset ==
    ASSUME NEW S, IsFiniteSet(S), NEW B, B \subseteq SUBSET S, B # {}
    PROVE  \E m \in B : \A s \in B : ~(s \subseteq m /\ s # m)
<1>1. IsWellFoundedOn(StrictSubsetOrdering(S), SUBSET S)
  BY FS_StrictSubsetOrderingWellFounded, FS_FiniteSubsetsOfFinite
<1>2. PICK m \in B : \A s \in B : ~(<<s, m>> \in StrictSubsetOrdering(S))
  <2> HIDE DEF StrictSubsetOrdering
  <2> QED BY <1>1, WFMin
<1>3. ASSUME NEW s \in B, s \subseteq m, s # m PROVE FALSE
  <2>1. <<s, m>> \in StrictSubsetOrdering(S)
    BY <1>3 DEF StrictSubsetOrdering
  <2> QED BY <2>1, <1>2
<1> QED BY <1>3

\* One step of the recursion.
LEMMA SumsUpValue ==
    ASSUME NEW f, NEW S, NEW g, SumsUp(f, S, g), NEW s \in SUBSET S
    PROVE  g[s] = IF s = {} THEN 0 ELSE f[SomeOf(s)] + g[s \ {SomeOf(s)}]
  BY DEF SumsUp, SomeOf

\* The element taken next is one of the set.
LEMMA SomeOfIn == ASSUME NEW s, s # {} PROVE SomeOf(s) \in s
  BY DEF SomeOf

\* Two such functions agree wherever both are defined.
LEMMA SumsUpUnique ==
    ASSUME NEW f, NEW S, IsFiniteSet(S), NEW T \in SUBSET S,
           NEW g, SumsUp(f, S, g), NEW h, SumsUp(f, T, h),
           NEW s \in SUBSET T
    PROVE  g[s] = h[s]
<1> DEFINE B == {t \in SUBSET T : g[t] # h[t]}
<1>1. SUFFICES ASSUME s \in B PROVE FALSE
  OBVIOUS
<1>2. IsFiniteSet(T) BY FS_Subset
<1>3. PICK m \in B : \A t \in B : ~(t \subseteq m /\ t # m)
  <2> HIDE DEF B
  <2>1. B \subseteq SUBSET T BY DEF B
  <2> QED BY <1>1, <1>2, <2>1, SmallestSubset
<1>4. CASE m = {}
  BY <1>4, SumsUpValue
<1>5. CASE m # {}
  <2>1. SomeOf(m) \in m BY <1>5, SomeOfIn
  <2>2. m \ {SomeOf(m)} \notin B BY <2>1, <1>3
  <2>3. g[m \ {SomeOf(m)}] = h[m \ {SomeOf(m)}] BY <2>2
  <2> QED BY <1>5, <2>3, SumsUpValue
<1> QED BY <1>4, <1>5

\* There is such a function, so SumFunctionOnSet is one that adds up.
LEMMA SumsUpExists ==
    ASSUME NEW f, NEW S, IsFiniteSet(S)
    PROVE  \E g : SumsUp(f, S, g)
<1> DEFINE B == {t \in SUBSET S : ~ \E g : SumsUp(f, t, g)}
<1>1. SUFFICES ASSUME S \in B PROVE FALSE
  OBVIOUS
<1>2. PICK m \in B : \A t \in B : ~(t \subseteq m /\ t # m)
  <2> HIDE DEF B
  <2>1. B \subseteq SUBSET S BY DEF B
  <2> QED BY <1>1, <2>1, SmallestSubset
<1> DEFINE sum(s) == SumFunctionOnSet(f, s)
           g == [s \in SUBSET m |-> IF s = {} THEN 0
                                     ELSE f[SomeOf(s)] + sum(s \ {SomeOf(s)})]
<1>3. ASSUME NEW s \in SUBSET m, s # m
      PROVE  \E h : SumsUp(f, s, h) /\ sum(s) = h[s]
  <2>1. s \notin B BY <1>2, <1>3
  <2>2. \E h : SumsUp(f, s, h) BY <2>1
  <2> QED BY <2>2, SumUnfolds
<1>4. ASSUME NEW s \in SUBSET m, s # m
      PROVE  g[s] = sum(s)
  <2>1. PICK h : SumsUp(f, s, h) /\ sum(s) = h[s] BY <1>3, <1>4
  <2>2. CASE s = {} BY <2>1, <2>2, SumsUpValue
  <2>3. CASE s # {}
    <3>1. SomeOf(s) \in s BY <2>3, SomeOfIn
    <3> DEFINE t == s \ {SomeOf(s)}
    <3>2. t \in SUBSET m /\ t # m /\ t \in SUBSET s BY <3>1, <1>4
    <3>3. PICK k : SumsUp(f, t, k) /\ sum(t) = k[t] BY <3>2, <1>3
    <3>4. IsFiniteSet(s) BY FS_Subset
    <3>5. h[t] = k[t] BY <2>1, <3>2, <3>3, <3>4, SumsUpUnique
    <3>6. h[s] = f[SomeOf(s)] + h[t] BY <2>1, <2>3, SumsUpValue
    <3> HIDE DEF sum
    <3> QED BY <2>1, <2>3, <3>3, <3>5, <3>6
  <2> QED BY <2>2, <2>3
<1>5. SumsUp(f, m, g)
  <2>1. ASSUME NEW s \in SUBSET m, s # {}
        PROVE  sum(s \ {SomeOf(s)}) = g[s \ {SomeOf(s)}]
    <3>1. SomeOf(s) \in s BY <2>1, SomeOfIn
    <3> HIDE DEF sum, g
    <3> QED BY <3>1, <1>4
  <2>2. ASSUME NEW s \in SUBSET m
        PROVE  g[s] = IF s = {} THEN 0
                      ELSE LET x == CHOOSE x \in s : TRUE IN f[x] + g[s \ {x}]
    <3>1. g[s] = IF s = {} THEN 0 ELSE f[SomeOf(s)] + sum(s \ {SomeOf(s)})
      OBVIOUS
    <3> HIDE DEF g, sum
    <3> QED BY <2>1, <3>1 DEF SomeOf
  <2> HIDE DEF sum
  <2> QED BY <2>2 DEF SumsUp
<1> QED BY <1>5

-----------------------------------------------------------------------------
(***************************************************************************)
(* What a sum is.                                                          *)
(***************************************************************************)
\* Nothing adds up to zero.
LEMMA SumOfNone ==
    ASSUME NEW f
    PROVE  SumFunctionOnSet(f, {}) = 0
<1>1. IsFiniteSet({}) BY FS_EmptySet
<1>2. PICK g : SumsUp(f, {}, g) /\ SumFunctionOnSet(f, {}) = g[{}]
  BY <1>1, SumsUpExists, SumUnfolds
<1> QED BY <1>2, SumsUpValue

\* The sum is one value plus the sum of the others.
LEMMA SumWithoutSome ==
    ASSUME NEW f, NEW S, IsFiniteSet(S), S # {}
    PROVE  SumFunctionOnSet(f, S) =
               f[SomeOf(S)] + SumFunctionOnSet(f, S \ {SomeOf(S)})
<1> DEFINE T == S \ {SomeOf(S)}
<1>1. IsFiniteSet(T) /\ T \in SUBSET S BY FS_Subset
<1>2. PICK g : SumsUp(f, S, g) /\ SumFunctionOnSet(f, S) = g[S]
  BY SumsUpExists, SumUnfolds
<1>3. PICK h : SumsUp(f, T, h) /\ SumFunctionOnSet(f, T) = h[T]
  BY <1>1, SumsUpExists, SumUnfolds
<1>4. g[T] = h[T] BY <1>1, <1>2, <1>3, SumsUpUnique
<1> HIDE DEF T
<1> QED BY <1>2, <1>3, <1>4, SumsUpValue DEF T

\* Numbers add up to a number of their kind.
LEMMA SumType ==
    ASSUME NEW f, NEW S, IsFiniteSet(S), NEW D \in {Nat, Int},
           \A x \in S : f[x] \in D
    PROVE  SumFunctionOnSet(f, S) \in D
<1> DEFINE B == {t \in SUBSET S : SumFunctionOnSet(f, t) \notin D}
<1>1. SUFFICES ASSUME S \in B PROVE FALSE
  OBVIOUS
<1>2. PICK m \in B : \A t \in B : ~(t \subseteq m /\ t # m)
  <2> HIDE DEF B
  <2>1. B \subseteq SUBSET S BY DEF B
  <2> QED BY <1>1, <2>1, SmallestSubset
<1>3. CASE m = {} BY <1>3, SumOfNone
<1>4. CASE m # {}
  <2>1. SomeOf(m) \in m BY <1>4, SomeOfIn
  <2>2. SumFunctionOnSet(f, m \ {SomeOf(m)}) \in D BY <2>1, <1>2
  <2>3. IsFiniteSet(m) BY FS_Subset
  <2>4. f[SomeOf(m)] \in D BY <2>1
  <2> QED BY <1>4, <2>2, <2>3, <2>4, SumWithoutSome
<1> QED BY <1>3, <1>4

\* It does not matter which value is set apart.
LEMMA SumWithout ==
    ASSUME NEW f, NEW S, IsFiniteSet(S), \A x \in S : f[x] \in Int, NEW y \in S
    PROVE  SumFunctionOnSet(f, S) = f[y] + SumFunctionOnSet(f, S \ {y})
<1> DEFINE sum(t) == SumFunctionOnSet(f, t)
           B == {t \in SUBSET S : \E z \in t : sum(t) # f[z] + sum(t \ {z})}
<1>1. SUFFICES ASSUME S \in B PROVE FALSE
  OBVIOUS
<1>2. PICK m \in B : \A t \in B : ~(t \subseteq m /\ t # m)
  <2> HIDE DEF B
  <2>1. B \subseteq SUBSET S BY DEF B
  <2> QED BY <1>1, <2>1, SmallestSubset
<1>3. PICK z \in m : sum(m) # f[z] + sum(m \ {z})
  OBVIOUS
<1> DEFINE x == SomeOf(m)
<1>4. x \in m /\ IsFiniteSet(m) BY SomeOfIn, FS_Subset
<1>5. sum(m) = f[x] + sum(m \ {x}) BY <1>4, SumWithoutSome
<1>6. x # z BY <1>3, <1>5
<1>7. m \ {x} \notin B /\ m \ {z} \notin B BY <1>2, <1>4
<1>8. sum(m \ {x}) = f[z] + sum((m \ {x}) \ {z})
  <2>1. z \in m \ {x} BY <1>6
  <2> HIDE DEF x, sum
  <2> QED BY <1>7, <2>1
<1>9. sum(m \ {z}) = f[x] + sum((m \ {z}) \ {x})
  <2>1. x \in m \ {z} BY <1>4, <1>6
  <2> HIDE DEF x, sum
  <2> QED BY <1>7, <2>1
<1>10. (m \ {x}) \ {z} = (m \ {z}) \ {x} OBVIOUS
<1>11. sum((m \ {z}) \ {x}) \in Int
  <2>1. IsFiniteSet((m \ {z}) \ {x}) BY <1>4, FS_Subset
  <2> QED BY <2>1, SumType
<1>12. f[x] \in Int /\ f[z] \in Int BY <1>4
<1>13. sum(m \ {x}) = f[z] + sum((m \ {z}) \ {x}) BY <1>8, <1>10
<1>14. f[x] + (f[z] + sum((m \ {z}) \ {x})) = f[z] + (f[x] + sum((m \ {z}) \ {x}))
  BY <1>11, <1>12
<1> HIDE DEF sum, x
<1> QED BY <1>3, <1>5, <1>9, <1>13, <1>14

\* Only the values on the set count.
LEMMA SumSame ==
    ASSUME NEW f, NEW g, NEW S, IsFiniteSet(S), \A x \in S : f[x] = g[x]
    PROVE  SumFunctionOnSet(f, S) = SumFunctionOnSet(g, S)
<1> DEFINE B == {t \in SUBSET S : SumFunctionOnSet(f, t) # SumFunctionOnSet(g, t)}
<1>1. SUFFICES ASSUME S \in B PROVE FALSE
  OBVIOUS
<1>2. PICK m \in B : \A t \in B : ~(t \subseteq m /\ t # m)
  <2> HIDE DEF B
  <2>1. B \subseteq SUBSET S BY DEF B
  <2> QED BY <1>1, <2>1, SmallestSubset
<1>3. CASE m = {} BY <1>3, SumOfNone
<1>4. CASE m # {}
  <2>1. SomeOf(m) \in m BY <1>4, SomeOfIn
  <2>2. SumFunctionOnSet(f, m \ {SomeOf(m)}) = SumFunctionOnSet(g, m \ {SomeOf(m)})
    BY <2>1, <1>2
  <2>3. IsFiniteSet(m) BY FS_Subset
  <2>4. f[SomeOf(m)] = g[SomeOf(m)] BY <2>1
  <2> QED BY <1>4, <2>2, <2>3, <2>4, SumWithoutSome
<1> QED BY <1>3, <1>4

\* Changing one value changes the sum by the difference.
LEMMA SumChangedAt ==
    ASSUME NEW f, NEW g, NEW S, IsFiniteSet(S),
           \A x \in S : f[x] \in Int /\ g[x] \in Int,
           NEW y \in S, \A x \in S \ {y} : g[x] = f[x]
    PROVE  SumFunctionOnSet(g, S) = SumFunctionOnSet(f, S) + (g[y] - f[y])
<1> DEFINE T == S \ {y}
<1>1. IsFiniteSet(T) BY FS_Subset
<1>2. SumFunctionOnSet(f, S) = f[y] + SumFunctionOnSet(f, T) BY SumWithout
<1>3. SumFunctionOnSet(g, S) = g[y] + SumFunctionOnSet(g, T) BY SumWithout
<1>4. SumFunctionOnSet(g, T) = SumFunctionOnSet(f, T) BY <1>1, SumSame
<1>5. SumFunctionOnSet(f, T) \in Int BY <1>1, SumType
<1> HIDE DEF T
<1> QED BY <1>2, <1>3, <1>4, <1>5

\* Zeros add up to zero.
LEMMA SumOfZeros ==
    ASSUME NEW f, NEW S, IsFiniteSet(S), \A x \in S : f[x] = 0
    PROVE  SumFunctionOnSet(f, S) = 0
<1> DEFINE B == {t \in SUBSET S : SumFunctionOnSet(f, t) # 0}
<1>1. SUFFICES ASSUME S \in B PROVE FALSE
  OBVIOUS
<1>2. PICK m \in B : \A t \in B : ~(t \subseteq m /\ t # m)
  <2> HIDE DEF B
  <2>1. B \subseteq SUBSET S BY DEF B
  <2> QED BY <1>1, <2>1, SmallestSubset
<1>3. CASE m = {} BY <1>3, SumOfNone
<1>4. CASE m # {}
  <2>1. SomeOf(m) \in m BY <1>4, SomeOfIn
  <2>2. SumFunctionOnSet(f, m \ {SomeOf(m)}) = 0 BY <2>1, <1>2
  <2>3. IsFiniteSet(m) BY FS_Subset
  <2> QED BY <1>4, <2>1, <2>2, <2>3, SumWithoutSome
<1> QED BY <1>3, <1>4

\* The sum of differences is the difference of the sums.
LEMMA SumOfDifferences ==
    ASSUME NEW f, NEW g, NEW h, NEW S, IsFiniteSet(S),
           \A x \in S : g[x] \in Int /\ h[x] \in Int /\ f[x] = g[x] - h[x]
    PROVE  SumFunctionOnSet(f, S) =
               SumFunctionOnSet(g, S) - SumFunctionOnSet(h, S)
<1> DEFINE diff(t) == SumFunctionOnSet(g, t) - SumFunctionOnSet(h, t)
           B == {t \in SUBSET S : SumFunctionOnSet(f, t) # diff(t)}
<1>1. SUFFICES ASSUME S \in B PROVE FALSE
  OBVIOUS
<1>2. PICK m \in B : \A t \in B : ~(t \subseteq m /\ t # m)
  <2> HIDE DEF B
  <2>1. B \subseteq SUBSET S BY DEF B
  <2> QED BY <1>1, <2>1, SmallestSubset
<1>3. CASE m = {} BY <1>3, SumOfNone
<1>4. CASE m # {}
  <2> DEFINE x == SomeOf(m)
             rest == m \ {x}
  <2>1. x \in m BY <1>4, SomeOfIn
  <2>2. SumFunctionOnSet(f, rest) = diff(rest) BY <2>1, <1>2
  <2>3. IsFiniteSet(m) /\ IsFiniteSet(rest) BY FS_Subset
  <2>4. g[x] \in Int /\ h[x] \in Int /\ f[x] = g[x] - h[x] BY <2>1
  <2>5. SumFunctionOnSet(g, rest) \in Int /\ SumFunctionOnSet(h, rest) \in Int
    BY <2>3, SumType
  <2>6. /\ SumFunctionOnSet(f, m) = f[x] + SumFunctionOnSet(f, rest)
        /\ SumFunctionOnSet(g, m) = g[x] + SumFunctionOnSet(g, rest)
        /\ SumFunctionOnSet(h, m) = h[x] + SumFunctionOnSet(h, rest)
    BY <1>4, <2>3, SumWithoutSome
  <2> HIDE DEF x, rest
  <2> QED BY <2>2, <2>4, <2>5, <2>6
<1> QED BY <1>3, <1>4

\* Adding one more value.
LEMMA SumOfOneMore ==
    ASSUME NEW f, NEW S, IsFiniteSet(S), NEW y, y \notin S,
           \A x \in S \cup {y} : f[x] \in Int
    PROVE  SumFunctionOnSet(f, S \cup {y}) = SumFunctionOnSet(f, S) + f[y]
<1>1. IsFiniteSet(S \cup {y}) BY FS_AddElement
<1>2. (S \cup {y}) \ {y} = S OBVIOUS
<1>3. SumFunctionOnSet(f, S \cup {y}) = f[y] + SumFunctionOnSet(f, S)
  <2> DEFINE T == S \cup {y}
  <2>1. y \in T /\ IsFiniteSet(T) /\ T \ {y} = S BY <1>1, <1>2
  <2> HIDE DEF T
  <2>2. SumFunctionOnSet(f, T) = f[y] + SumFunctionOnSet(f, T \ {y})
    BY <2>1, SumWithout DEF T
  <2> QED BY <2>1, <2>2 DEF T
<1>4. SumFunctionOnSet(f, S) \in Int BY SumType
<1> QED BY <1>3, <1>4
=============================================================================
