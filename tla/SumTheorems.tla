---------------------------- MODULE SumTheorems ----------------------------
(***************************************************************************)
(* Induction over finite sets by a smallest counterexample, and with it    *)
(* what a sum over a finite set is: SumFunctionOnSet of module Functions,  *)
(* which the code's sum() over a dictionary's values is modelled by.       *)
(***************************************************************************)
EXTENDS Functions, FiniteSetTheorems, TLAPS

\* Any sets of subsets of a finite set has a member no other member is part of.
LEMMA SmallestSubset ==
  ASSUME NEW S, IsFiniteSet(S), NEW T, T \subseteq SUBSET S, T # {}
  PROVE  \E x \in T : \A y \in T : y \subseteq x => y = x
<1> DEFINE R == StrictSubsetOrdering(S)
<1>1. IsWellFoundedOn(R, FiniteSubsetsOf(S))
      BY FS_StrictSubsetOrderingWellFounded
<1>2. T \subseteq FiniteSubsetsOf(S)
      BY FS_FiniteSubsetsOfFinite
<1>3. \E x \in T : \A y \in T : ~(<<y, x>> \in R)
  <2> HIDE DEF R
  <2> QED BY <1>1, <1>2, WFMin
<1>4. PICK x \in T : \A y \in T : ~(<<y, x>> \in R)
      BY <1>3
<1>5. ASSUME NEW y \in T, y \subseteq x PROVE y = x
  <2>1. <<y, x>> \notin R
        BY <1>4
  <2>2. y \in SUBSET S /\ x \in SUBSET S
        OBVIOUS
  <2> QED BY <1>5, <2>1, <2>2 DEF StrictSubsetOrdering
<1> QED BY <1>5

\* A function's least and its greatest value.
LEMMA LeastValue ==
  ASSUME NEW S, IsFiniteSet(S), S # {}, NEW f, \A s \in S : f[s] \in Int
  PROVE  \E x \in S : \A y \in S : f[x] <= f[y]
<1> DEFINE Smaller(x) == {y \in S : f[y] < f[x]}
           T == {Smaller(x) : x \in S}
<1>1. T \subseteq SUBSET S /\ T # {}
      OBVIOUS
<1>2. PICK t \in T : \A y \in T : y \subseteq t => y = t
  <2> HIDE DEF T
  <2> QED BY <1>1, SmallestSubset
<1>3. PICK x \in S : t = Smaller(x)
      BY <1>2
<1>4. SUFFICES ASSUME NEW y \in S, ~(f[x] <= f[y]) PROVE FALSE
      BY <1>3
<1>5. f[y] < f[x]
      BY <1>4
<1>6. Smaller(y) \subseteq Smaller(x)
      BY <1>5
<1>7. y \in Smaller(x) /\ y \notin Smaller(y)
      BY <1>5
<1> QED BY <1>2, <1>3, <1>6, <1>7

LEMMA GreatestValue ==
  ASSUME NEW S, IsFiniteSet(S), S # {}, NEW f, \A s \in S : f[s] \in Int
  PROVE  \E x \in S : \A y \in S : f[y] <= f[x]
<1> DEFINE g == [s \in S |-> 0 - f[s]]
<1>1. \A s \in S : g[s] \in Int /\ g[s] = 0 - f[s]
      OBVIOUS
<1> HIDE DEF g
<1>2. PICK x \in S : \A y \in S : g[x] <= g[y]
      BY <1>1, LeastValue, Zenon
<1>3. \A y \in S : f[y] <= f[x]
      BY <1>1, <1>2
<1> QED BY <1>3

-----------------------------------------------------------------------------
(* The recursive function a sum is defined by.                             *)

First(s) == CHOOSE x \in s : TRUE

PartialSums(g, f, S) ==
  g = [s \in SUBSET S |-> IF s = {} THEN 0 ELSE f[First(s)] + g[s \ {First(s)}]]

LEMMA FirstIn == ASSUME NEW s, s # {} PROVE First(s) \in s
BY DEF First

LEMMA SumIsPartialSum ==
  ASSUME NEW f, NEW S
  PROVE  SumFunctionOnSet(f, S) = (CHOOSE g : PartialSums(g, f, S))[S]
BY DEF SumFunctionOnSet, FoldFunctionOnSet, MapThenFoldSet, PartialSums, First

\* Two functions that satisfy the recursion are one.
LEMMA PartialSumsUnique ==
  ASSUME NEW S, IsFiniteSet(S), NEW f, NEW g, NEW h,
         PartialSums(g, f, S), PartialSums(h, f, S)
  PROVE  g = h
<1> DEFINE Differ == {s \in SUBSET S : g[s] # h[s]}
<1>1. /\ DOMAIN g = SUBSET S /\ DOMAIN h = SUBSET S
      /\ g = [s \in DOMAIN g |-> g[s]] /\ h = [s \in DOMAIN h |-> h[s]]
      BY DEF PartialSums
<1>2. Differ = {}
  <2> SUFFICES ASSUME Differ # {} PROVE FALSE
      OBVIOUS
  <2>0. Differ \subseteq SUBSET S
        OBVIOUS
  <2>1. PICK s \in Differ : \A t \in Differ : t \subseteq s => t = s
    <3> HIDE DEF Differ
    <3> QED BY <2>0, SmallestSubset
  <2>2. s # {}
        BY DEF PartialSums
  <2>3. First(s) \in s /\ s \ {First(s)} \notin Differ
        BY <2>1, <2>2, FirstIn
  <2>4. g[s] = f[First(s)] + g[s \ {First(s)}] /\ h[s] = f[First(s)] + h[s \ {First(s)}]
        BY <2>2 DEF PartialSums
  <2> QED BY <2>3, <2>4
<1> QED BY <1>1, <1>2

\* Restricted to the subsets of a subset, it satisfies the recursion there.
LEMMA PartialSumsRestrict ==
  ASSUME NEW S, NEW f, NEW g, PartialSums(g, f, S), NEW T \in SUBSET S
  PROVE  PartialSums([s \in SUBSET T |-> g[s]], f, T)
<1> DEFINE h == [s \in SUBSET T |-> g[s]]
<1>1. ASSUME NEW s \in SUBSET T
      PROVE  h[s] = IF s = {} THEN 0 ELSE f[First(s)] + h[s \ {First(s)}]
      BY DEF PartialSums
<1>2. h = [s \in SUBSET T |-> IF s = {} THEN 0 ELSE f[First(s)] + h[s \ {First(s)}]]
      BY <1>1
<1> QED BY <1>2 DEF PartialSums

\* There is such a function.
LEMMA PartialSumsExist ==
  ASSUME NEW S, IsFiniteSet(S), NEW f
  PROVE  \E g : PartialSums(g, f, S)
<1> DEFINE Lacking == {s \in SUBSET S : ~ \E g : PartialSums(g, f, s)}
           P(s) == CHOOSE g : PartialSums(g, f, s)
<1> SUFFICES ASSUME Lacking # {} PROVE FALSE
    OBVIOUS
<1>0. Lacking \subseteq SUBSET S
      OBVIOUS
<1>1. PICK u \in Lacking : \A t \in Lacking : t \subseteq u => t = u
  <2> HIDE DEF Lacking
  <2> QED BY <1>0, SmallestSubset
<1>2. ASSUME NEW s \in SUBSET u, s # u PROVE PartialSums(P(s), f, s)
  <2>1. \E g : PartialSums(g, f, s)
        BY <1>1, <1>2
  <2> QED BY <2>1
<1> DEFINE Last(s) == IF s = {} THEN 0
                      ELSE f[First(s)] + P(s \ {First(s)})[s \ {First(s)}]
           h == [s \in SUBSET u |-> Last(s)]
<1> HIDE DEF P
<1>3. ASSUME NEW s \in SUBSET u, s # u PROVE P(s)[s] = Last(s)
  <2>1. PartialSums(P(s), f, s)
        BY <1>2, <1>3
  <2>2. CASE s = {}
        BY <2>1, <2>2 DEF PartialSums
  <2>3. CASE s # {}
    <3> DEFINE r == s \ {First(s)}
               q == [t \in SUBSET r |-> P(s)[t]]
    <3>1. r \in SUBSET s /\ r \in SUBSET u /\ r # u
          BY <2>3, FirstIn
    <3>2. PartialSums(q, f, r)
          BY <2>1, <3>1, PartialSumsRestrict
    <3>3. PartialSums(P(r), f, r)
          BY <1>2, <3>1
    <3>4. IsFiniteSet(r)
          BY <3>1, FS_Subset
    <3>5. q = P(r)
      <4> HIDE DEF q, r
      <4> QED BY <3>2, <3>3, <3>4, PartialSumsUnique
    <3>6. q[r] = P(s)[r]
          OBVIOUS
    <3>7. P(s)[s] = f[First(s)] + P(s)[r]
          BY <2>1, <2>3 DEF PartialSums
    <3> QED BY <2>3, <3>5, <3>6, <3>7
  <2> QED BY <2>2, <2>3
<1>4. ASSUME NEW s \in SUBSET u
      PROVE  h[s] = IF s = {} THEN 0 ELSE f[First(s)] + h[s \ {First(s)}]
  <2>1. CASE s = {}
        BY <2>1
  <2>2. CASE s # {}
    <3> DEFINE r == s \ {First(s)}
    <3>1. r \in SUBSET u /\ r # u
          BY <2>2, FirstIn
    <3>2. P(r)[r] = h[r]
          BY <1>3, <3>1
    <3> QED BY <2>2, <3>2
  <2> QED BY <2>1, <2>2
<1>5. h = [s \in SUBSET u |-> IF s = {} THEN 0 ELSE f[First(s)] + h[s \ {First(s)}]]
      BY <1>4
<1>6. PartialSums(h, f, u)
      BY <1>5 DEF PartialSums
<1> QED BY <1>1, <1>6
-----------------------------------------------------------------------------
(* Sums of natural numbers.                                                *)

LEMMA SumEmpty == ASSUME NEW f PROVE SumFunctionOnSet(f, {}) = 0
<1>1. PICK g : PartialSums(g, f, {})
      BY PartialSumsExist, FS_EmptySet
<1>2. PartialSums(CHOOSE h : PartialSums(h, f, {}), f, {})
      BY <1>1
<1> QED BY <1>2, SumIsPartialSum DEF PartialSums

\* The elements are added in some order, the first of which is First(S).
LEMMA SumFirst ==
  ASSUME NEW S, IsFiniteSet(S), S # {}, NEW f
  PROVE  SumFunctionOnSet(f, S) = f[First(S)] + SumFunctionOnSet(f, S \ {First(S)})
<1> DEFINE r == S \ {First(S)}
           P(s) == CHOOSE g : PartialSums(g, f, s)
<1>1. PartialSums(P(S), f, S)
      BY PartialSumsExist
<1>2. r \in SUBSET S /\ IsFiniteSet(r)
      BY FS_Subset
<1>3. PartialSums(P(r), f, r)
      BY <1>2, PartialSumsExist
<1> HIDE DEF P
<1>4. PartialSums([t \in SUBSET r |-> P(S)[t]], f, r)
      BY <1>1, <1>2, PartialSumsRestrict
<1>5. P(r) = [t \in SUBSET r |-> P(S)[t]]
  <2> HIDE DEF r
  <2> QED BY <1>2, <1>3, <1>4, PartialSumsUnique
<1>6. P(S)[r] = P(r)[r]
      BY <1>5
<1>7. P(S)[S] = f[First(S)] + P(S)[r]
      BY <1>1 DEF PartialSums
<1>8. SumFunctionOnSet(f, S) = P(S)[S] /\ SumFunctionOnSet(f, r) = P(r)[r]
      BY SumIsPartialSum DEF P
<1> QED BY <1>6, <1>7, <1>8

LEMMA SumType ==
  ASSUME NEW S, IsFiniteSet(S), NEW f, \A s \in S : f[s] \in Nat
  PROVE  SumFunctionOnSet(f, S) \in Nat
<1> DEFINE Wrong == {s \in SUBSET S : SumFunctionOnSet(f, s) \notin Nat}
<1> SUFFICES ASSUME Wrong # {} PROVE FALSE
    OBVIOUS
<1>0. Wrong \subseteq SUBSET S
      OBVIOUS
<1>1. PICK s \in Wrong : \A t \in Wrong : t \subseteq s => t = s
  <2> HIDE DEF Wrong
  <2> QED BY <1>0, SmallestSubset
<1>2. s # {}
      BY SumEmpty
<1>3. First(s) \in s /\ IsFiniteSet(s)
      BY <1>2, FirstIn, FS_Subset
<1>4. SumFunctionOnSet(f, s \ {First(s)}) \in Nat
      BY <1>1, <1>3
<1>5. SumFunctionOnSet(f, s) = f[First(s)] + SumFunctionOnSet(f, s \ {First(s)})
      BY <1>2, <1>3, SumFirst
<1> QED BY <1>3, <1>4, <1>5

\* The order does not matter: any element may be the first.
LEMMA SumRemove ==
  ASSUME NEW S, IsFiniteSet(S), NEW f, \A s \in S : f[s] \in Nat, NEW x \in S
  PROVE  SumFunctionOnSet(f, S) = f[x] + SumFunctionOnSet(f, S \ {x})
<1> DEFINE Wrong == {s \in SUBSET S : \E y \in s : SumFunctionOnSet(f, s) # f[y] + SumFunctionOnSet(f, s \ {y})}
<1> SUFFICES ASSUME Wrong # {} PROVE FALSE
    OBVIOUS
<1>0. Wrong \subseteq SUBSET S
      OBVIOUS
<1>1. PICK s \in Wrong : \A t \in Wrong : t \subseteq s => t = s
  <2> HIDE DEF Wrong
  <2> QED BY <1>0, SmallestSubset
<1>2. PICK y \in s : SumFunctionOnSet(f, s) # f[y] + SumFunctionOnSet(f, s \ {y})
      OBVIOUS
<1> DEFINE c == First(s)
           r == s \ {c, y}
<1>3. c \in s /\ IsFiniteSet(s)
      BY FirstIn, FS_Subset
<1>4. SumFunctionOnSet(f, s) = f[c] + SumFunctionOnSet(f, s \ {c})
      BY <1>3, SumFirst
<1>5. y # c
      BY <1>2, <1>4
<1>6. s \ {c} \notin Wrong /\ s \ {y} \notin Wrong
      BY <1>1, <1>3
<1>7. SumFunctionOnSet(f, s \ {c}) = f[y] + SumFunctionOnSet(f, r)
  <2>1. (s \ {c}) \ {y} = r /\ y \in s \ {c} /\ s \ {c} \in SUBSET S
        BY <1>5
  <2> QED BY <1>6, <2>1
<1>8. SumFunctionOnSet(f, s \ {y}) = f[c] + SumFunctionOnSet(f, r)
  <2>1. (s \ {y}) \ {c} = r /\ c \in s \ {y} /\ s \ {y} \in SUBSET S
        BY <1>3, <1>5
  <2> QED BY <1>6, <2>1
<1>9. f[c] \in Nat /\ f[y] \in Nat /\ SumFunctionOnSet(f, r) \in Nat
  <2>1. r \in SUBSET S /\ IsFiniteSet(r)
        BY <1>3, FS_Subset
  <2>2. SumFunctionOnSet(f, r) \in Nat
    <3> HIDE DEF r
    <3> QED BY <2>1, SumType
  <2> QED BY <1>3, <2>2
<1> HIDE DEF c, r
<1> QED BY <1>2, <1>4, <1>7, <1>8, <1>9

\* A sum depends on the values in its set only.
LEMMA SumSame ==
  ASSUME NEW S, IsFiniteSet(S), NEW f, NEW g, \A s \in S : f[s] = g[s]
  PROVE  SumFunctionOnSet(f, S) = SumFunctionOnSet(g, S)
<1> DEFINE Wrong == {s \in SUBSET S : SumFunctionOnSet(f, s) # SumFunctionOnSet(g, s)}
<1> SUFFICES ASSUME Wrong # {} PROVE FALSE
    OBVIOUS
<1>0. Wrong \subseteq SUBSET S
      OBVIOUS
<1>1. PICK s \in Wrong : \A t \in Wrong : t \subseteq s => t = s
  <2> HIDE DEF Wrong
  <2> QED BY <1>0, SmallestSubset
<1>2. s # {}
      BY SumEmpty
<1>3. First(s) \in s /\ IsFiniteSet(s)
      BY <1>2, FirstIn, FS_Subset
<1>4. SumFunctionOnSet(f, s \ {First(s)}) = SumFunctionOnSet(g, s \ {First(s)})
      BY <1>1, <1>3
<1>5. /\ SumFunctionOnSet(f, s) = f[First(s)] + SumFunctionOnSet(f, s \ {First(s)})
      /\ SumFunctionOnSet(g, s) = g[First(s)] + SumFunctionOnSet(g, s \ {First(s)})
      BY <1>2, <1>3, SumFirst
<1> QED BY <1>3, <1>4, <1>5

\* A set is summed part by part.
LEMMA SumSplit ==
  ASSUME NEW S, IsFiniteSet(S), NEW f, \A s \in S : f[s] \in Nat, NEW T \in SUBSET S
  PROVE  SumFunctionOnSet(f, S) = SumFunctionOnSet(f, T) + SumFunctionOnSet(f, S \ T)
<1> DEFINE Wrong == {s \in SUBSET T : SumFunctionOnSet(f, S) # SumFunctionOnSet(f, s) + SumFunctionOnSet(f, S \ s)}
<1> SUFFICES ASSUME T \in Wrong PROVE FALSE
    OBVIOUS
<1>0. Wrong \subseteq SUBSET T /\ Wrong # {} /\ IsFiniteSet(T)
      BY FS_Subset
<1>1. PICK s \in Wrong : \A t \in Wrong : t \subseteq s => t = s
  <2> HIDE DEF Wrong
  <2> QED BY <1>0, SmallestSubset
<1>2. ASSUME NEW r \in SUBSET S PROVE IsFiniteSet(r) /\ SumFunctionOnSet(f, r) \in Nat
      BY FS_Subset, SumType
<1>3. s # {}
  <2>1. SumFunctionOnSet(f, S) # SumFunctionOnSet(f, s) + SumFunctionOnSet(f, S \ s)
        OBVIOUS
  <2>2. S \ {} = S /\ SumFunctionOnSet(f, {}) = 0 /\ SumFunctionOnSet(f, S) \in Nat
        BY <1>2, SumEmpty
  <2> QED BY <2>1, <2>2
<1>4. PICK x \in s : TRUE
      BY <1>3
<1> DEFINE r == s \ {x}
<1>5. SumFunctionOnSet(f, S) = SumFunctionOnSet(f, r) + SumFunctionOnSet(f, S \ r)
      BY <1>1
<1>6. SumFunctionOnSet(f, s) = f[x] + SumFunctionOnSet(f, r)
  <2>1. IsFiniteSet(s) /\ \A t \in s : f[t] \in Nat
        BY <1>2
  <2> QED BY <2>1, SumRemove
<1>7. SumFunctionOnSet(f, S \ r) = f[x] + SumFunctionOnSet(f, S \ s)
  <2>1. (S \ r) \ {x} = S \ s /\ x \in S \ r
        OBVIOUS
  <2>2. IsFiniteSet(S \ r) /\ \A t \in S \ r : f[t] \in Nat
        BY <1>2
  <2> HIDE DEF r
  <2> QED BY <2>1, <2>2, SumRemove
<1>8. SumFunctionOnSet(f, r) \in Nat /\ SumFunctionOnSet(f, S \ s) \in Nat /\ f[x] \in Nat
      BY <1>2
<1> HIDE DEF r
<1> QED BY <1>5, <1>6, <1>7, <1>8

\* A part sums to no more than the whole.
LEMMA SumMonotone ==
  ASSUME NEW S, IsFiniteSet(S), NEW f, \A s \in S : f[s] \in Nat, NEW T \in SUBSET S
  PROVE  SumFunctionOnSet(f, T) <= SumFunctionOnSet(f, S)
<1>1. /\ IsFiniteSet(T) /\ \A s \in T : f[s] \in Nat
      /\ IsFiniteSet(S \ T) /\ \A s \in S \ T : f[s] \in Nat
      BY FS_Subset
<1>2. SumFunctionOnSet(f, T) \in Nat /\ SumFunctionOnSet(f, S \ T) \in Nat
      BY <1>1, SumType
<1> QED BY <1>2, SumSplit

\* Values that are related linearly have sums that are so related.
LEMMA SumLinear ==
  ASSUME NEW S, IsFiniteSet(S), NEW f, NEW g, \A s \in S : f[s] \in Nat /\ g[s] \in Nat,
         NEW a \in Int, NEW b \in Int, NEW c \in Int,
         \A s \in S : a * f[s] <= b * g[s] + c
  PROVE  a * SumFunctionOnSet(f, S) <= b * SumFunctionOnSet(g, S) + c * Cardinality(S)
<1> DEFINE Wrong == {s \in SUBSET S : ~(a * SumFunctionOnSet(f, s) <= b * SumFunctionOnSet(g, s) + c * Cardinality(s))}
<1> SUFFICES ASSUME Wrong # {} PROVE FALSE
    OBVIOUS
<1>0. Wrong \subseteq SUBSET S
      OBVIOUS
<1>1. PICK s \in Wrong : \A t \in Wrong : t \subseteq s => t = s
  <2> HIDE DEF Wrong
  <2> QED BY <1>0, SmallestSubset
<1>2. s # {}
  <2>1. ~(a * SumFunctionOnSet(f, s) <= b * SumFunctionOnSet(g, s) + c * Cardinality(s))
        OBVIOUS
  <2>2. SumFunctionOnSet(f, {}) = 0 /\ SumFunctionOnSet(g, {}) = 0 /\ Cardinality({}) = 0
        BY SumEmpty, FS_EmptySet
  <2>3. a * 0 <= b * 0 + c * 0
        OBVIOUS
  <2> QED BY <2>1, <2>2, <2>3, Zenon
<1> DEFINE x == First(s)
           r == s \ {x}
<1>3. x \in s /\ IsFiniteSet(s)
      BY <1>2, FirstIn, FS_Subset
<1>4. a * SumFunctionOnSet(f, r) <= b * SumFunctionOnSet(g, r) + c * Cardinality(r)
      BY <1>1, <1>3
<1>5. SumFunctionOnSet(f, s) = f[x] + SumFunctionOnSet(f, r) /\ SumFunctionOnSet(g, s) = g[x] + SumFunctionOnSet(g, r)
      BY <1>2, <1>3, SumFirst
<1>6. Cardinality(s) = Cardinality(r) + 1 /\ IsFiniteSet(r) /\ Cardinality(r) \in Nat
  <2>1. Cardinality(s) \in Nat
        BY <1>3, FS_CardinalityType
  <2>2. IsFiniteSet(r) /\ Cardinality(r) = Cardinality(s) - 1
        BY <1>3, FS_RemoveElement
  <2>3. Cardinality(r) \in Nat
        BY <2>2, FS_CardinalityType
  <2> QED BY <2>1, <2>2, <2>3
<1>7. SumFunctionOnSet(f, r) \in Nat /\ SumFunctionOnSet(g, r) \in Nat /\ f[x] \in Nat /\ g[x] \in Nat
      BY <1>3, <1>6, SumType
<1>8. ASSUME NEW F \in Nat, NEW G \in Nat, NEW u \in Nat, NEW v \in Nat, NEW n \in Nat,
             a * F <= b * G + c * n, a * u <= b * v + c
      PROVE  a * (u + F) <= b * (v + G) + c * (n + 1)
  <2>1. a * (u + F) = a * u + a * F /\ b * (v + G) = b * v + b * G /\ c * (n + 1) = c * n + c
        OBVIOUS
  <2>2. a * F \in Int /\ b * G \in Int /\ c * n \in Int /\ a * u \in Int /\ b * v \in Int
        OBVIOUS
  <2> QED BY <1>8, <2>1, <2>2
<1>9. a * f[x] <= b * g[x] + c
      BY <1>3
<1>10. ~(a * SumFunctionOnSet(f, s) <= b * SumFunctionOnSet(g, s) + c * Cardinality(s))
      OBVIOUS
<1> HIDE DEF x, r
<1> QED BY <1>4, <1>5, <1>6, <1>7, <1>8, <1>9, <1>10
=============================================================================
