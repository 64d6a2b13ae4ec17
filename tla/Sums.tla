--------------------------------- MODULE Sums ---------------------------------
(***************************************************************************)
(* Sums, and the greatest and the least, over finite sets: what the proofs *)
(* about scores need to know of SumFunction, SumFunctionOnSet, Max, Min.   *)
(*                                                                         *)
(* The sum is a recursive function on the subsets of a set, that is, a     *)
(* CHOOSE, so the first thing to prove is that there is such a function    *)
(* and only one.  The induction theorems of the library take an operator,  *)
(* which the provers cannot instantiate; Smaller is the same induction     *)
(* over a set of sets, from the theorem that the strict subset ordering    *)
(* is well-founded.                                                        *)
(***************************************************************************)
EXTENDS Integers, FiniteSets, FiniteSetsExt, FiniteSetTheorems, TLAPS

Picked(s) == CHOOSE x \in s : TRUE
Rest(s) == s \ {Picked(s)}

\* g is the function the sum of f over D is defined with.
Adds(f, D, g) ==
    g = [s \in SUBSET D |-> IF s = {} THEN 0 ELSE f[Picked(s)] + g[Rest(s)]]

-----------------------------------------------------------------------------
(* Induction over the subsets of a finite set *)

LEMMA Smaller ==
    ASSUME NEW D, IsFiniteSet(D), NEW B,
           \A t \in SUBSET D : (\A u \in SUBSET t : u # t => u \in B) => t \in B
    PROVE  \A t \in SUBSET D : t \in B
<1> DEFINE F == FiniteSubsetsOf(D)
           T == {t \in SUBSET D : t \notin B}
           R == StrictSubsetOrdering(D)
<1>1. T \subseteq F
  BY FS_Subset DEF FiniteSubsetsOf
<1>2. SUFFICES ASSUME T # {} PROVE FALSE
  OBVIOUS
<1>3. IsWellFoundedOn(R, F)
  BY FS_StrictSubsetOrderingWellFounded
<1>4. PICK t \in T : \A u \in T : ~ (<<u, t>> \in R)
  <2> HIDE DEF F, R, T
  <2> QED BY <1>1, <1>2, <1>3, WFMin
<1>5. \A u \in SUBSET t : u # t => u \in B
  <2> SUFFICES ASSUME NEW u \in SUBSET t, u # t, u \notin B PROVE FALSE
    OBVIOUS
  <2>1. u \in T
    OBVIOUS
  <2>2. <<u, t>> \in R
    BY <2>1 DEF R, StrictSubsetOrdering
  <2> QED BY <1>4, <2>1, <2>2
<1> QED BY <1>4, <1>5

\* The element picked from a set that is not empty is one of it.
LEMMA PickedIsIn == ASSUME NEW s, s # {} PROVE Picked(s) \in s /\ Rest(s) \in SUBSET s /\ Rest(s) # s
BY DEF Picked, Rest

-----------------------------------------------------------------------------
(* The function exists, and there is only one *)

LEMMA AddsAgree ==
    ASSUME NEW f, NEW D, NEW E, NEW g, NEW h, Adds(f, D, g), Adds(f, E, h),
           NEW S, IsFiniteSet(S), S \subseteq D, S \subseteq E
    PROVE  g[S] = h[S]
<1> DEFINE B == {t \in SUBSET S : g[t] = h[t]}
<1>1. ASSUME NEW t \in SUBSET S, \A u \in SUBSET t : u # t => u \in B
      PROVE  t \in B
  <2>1. g[t] = IF t = {} THEN 0 ELSE f[Picked(t)] + g[Rest(t)]
    BY DEF Adds
  <2>2. h[t] = IF t = {} THEN 0 ELSE f[Picked(t)] + h[Rest(t)]
    BY DEF Adds
  <2>3. t # {} => g[Rest(t)] = h[Rest(t)]
    BY <1>1, PickedIsIn
  <2> QED BY <2>1, <2>2, <2>3
<1>2. \A t \in SUBSET S : t \in B
  <2> HIDE DEF B
  <2> QED BY <1>1, Smaller
<1> QED BY <1>2

LEMMA SumIs ==
    ASSUME NEW f, NEW D PROVE SumFunctionOnSet(f, D) = (CHOOSE g : Adds(f, D, g))[D]
BY DEF SumFunctionOnSet, FoldFunctionOnSet, MapThenFoldSet, Adds, Picked, Rest

LEMMA AddsGivesSum ==
    ASSUME NEW f, NEW D, NEW g, Adds(f, D, g), IsFiniteSet(D)
    PROVE  SumFunctionOnSet(f, D) = g[D]
<1>1. Adds(f, D, CHOOSE h : Adds(f, D, h))
  OBVIOUS
<1> QED BY <1>1, AddsAgree, SumIs

LEMMA AddsRestrict ==
    ASSUME NEW f, NEW D, NEW g, Adds(f, D, g), NEW E \in SUBSET D
    PROVE  Adds(f, E, [s \in SUBSET E |-> g[s]])
<1> DEFINE h == [s \in SUBSET E |-> g[s]]
<1>1. ASSUME NEW s \in SUBSET E
      PROVE  h[s] = IF s = {} THEN 0 ELSE f[Picked(s)] + h[Rest(s)]
  <2>1. g[s] = IF s = {} THEN 0 ELSE f[Picked(s)] + g[Rest(s)]
    BY DEF Adds
  <2>2. s # {} => Rest(s) \in SUBSET E
    BY PickedIsIn
  <2> QED BY <2>1, <2>2
<1> QED BY <1>1 DEF Adds

LEMMA AddsExists == ASSUME NEW f, NEW D, IsFiniteSet(D) PROVE \E g : Adds(f, D, g)
<1> DEFINE B == {t \in SUBSET D : \E g : Adds(f, t, g)}
<1>1. ASSUME NEW t \in SUBSET D, \A u \in SUBSET t : u # t => u \in B
      PROVE  t \in B
  <2> DEFINE g == [s \in SUBSET t |->
                     IF s = {} THEN 0 ELSE f[Picked(s)] + SumFunctionOnSet(f, Rest(s))]
  <2>1. ASSUME NEW u \in SUBSET t, u # t PROVE SumFunctionOnSet(f, u) = g[u]
    <3>1. PICK k : Adds(f, u, k)
      BY <1>1, <2>1
    <3>2. IsFiniteSet(u)
      BY FS_Subset
    <3>3. SumFunctionOnSet(f, u) = k[u]
      BY <3>1, <3>2, AddsGivesSum
    <3>4. k[u] = IF u = {} THEN 0 ELSE f[Picked(u)] + k[Rest(u)]
      BY <3>1 DEF Adds
    <3>5. ASSUME u # {} PROVE k[Rest(u)] = SumFunctionOnSet(f, Rest(u))
      <4> DEFINE v == Rest(u)
                 r == [s \in SUBSET v |-> k[s]]
      <4>1. v \in SUBSET u
        BY <3>5, PickedIsIn
      <4>2. Adds(f, v, r)
        BY <3>1, <4>1, AddsRestrict
      <4>3. IsFiniteSet(v)
        BY <3>2, <4>1, FS_Subset
      <4>4. r[v] = k[v]
        OBVIOUS
      <4> HIDE DEF v, r
      <4>5. SumFunctionOnSet(f, v) = r[v]
        BY <4>2, <4>3, AddsGivesSum
      <4> QED BY <4>4, <4>5 DEF v
    <3> QED BY <3>3, <3>4, <3>5
  <2>2. ASSUME NEW s \in SUBSET t, s # {} PROVE SumFunctionOnSet(f, Rest(s)) = g[Rest(s)]
    <3>1. Rest(s) \in SUBSET t /\ Rest(s) # t
      BY <2>2, PickedIsIn
    <3> QED BY <2>1, <3>1
  <2>3. g = [s \in SUBSET t |-> IF s = {} THEN 0 ELSE f[Picked(s)] + g[Rest(s)]]
    <3>1. \A s \in SUBSET t : g[s] = IF s = {} THEN 0 ELSE f[Picked(s)] + g[Rest(s)]
      BY <2>2
    <3> QED BY <3>1
  <2>4. Adds(f, t, g)
    BY <2>3 DEF Adds
  <2> QED BY <2>4
<1>2. \A t \in SUBSET D : t \in B
  <2> HIDE DEF B
  <2> QED BY <1>1, Smaller
<1> QED BY <1>2

-----------------------------------------------------------------------------
(* What a sum is *)

LEMMA SumOfNothing == ASSUME NEW f PROVE SumFunctionOnSet(f, {}) = 0
<1>1. IsFiniteSet({})
  BY FS_EmptySet
<1>2. PICK g : Adds(f, {}, g)
  BY <1>1, AddsExists
<1> QED BY <1>1, <1>2, AddsGivesSum DEF Adds

LEMMA SumPicks ==
    ASSUME NEW f, NEW D, IsFiniteSet(D), D # {}
    PROVE  SumFunctionOnSet(f, D) = f[Picked(D)] + SumFunctionOnSet(f, Rest(D))
<1>1. PICK g : Adds(f, D, g)
  BY AddsExists
<1>2. Rest(D) \in SUBSET D
  BY PickedIsIn
<1>3. IsFiniteSet(Rest(D))
  BY <1>2, FS_Subset
<1> DEFINE r == [s \in SUBSET Rest(D) |-> g[s]]
<1>4. Adds(f, Rest(D), r)
  BY <1>1, <1>2, AddsRestrict
<1>5. r[Rest(D)] = g[Rest(D)]
  OBVIOUS
<1> HIDE DEF r
<1>6. SumFunctionOnSet(f, Rest(D)) = g[Rest(D)]
  BY <1>3, <1>4, <1>5, AddsGivesSum
<1>7. g[D] = f[Picked(D)] + g[Rest(D)]
  BY <1>1 DEF Adds
<1> QED BY <1>1, <1>6, <1>7, AddsGivesSum

\* A sum of integers is an integer, a sum of natural numbers a natural number.
LEMMA SumType ==
    ASSUME NEW f, NEW D, IsFiniteSet(D), NEW T \in {Int, Nat}, \A x \in D : f[x] \in T
    PROVE  SumFunctionOnSet(f, D) \in T
<1> DEFINE B == {t \in SUBSET D : SumFunctionOnSet(f, t) \in T}
<1>1. ASSUME NEW t \in SUBSET D, \A u \in SUBSET t : u # t => u \in B
      PROVE  t \in B
  <2>1. CASE t = {}
    BY <2>1, SumOfNothing
  <2>2. CASE t # {}
    <3>1. IsFiniteSet(t)
      BY FS_Subset
    <3>2. Picked(t) \in D /\ Rest(t) \in B
      BY <1>1, <2>2, PickedIsIn
    <3>3. SumFunctionOnSet(f, t) = f[Picked(t)] + SumFunctionOnSet(f, Rest(t))
      BY <2>2, <3>1, SumPicks
    <3>4. f[Picked(t)] \in T /\ SumFunctionOnSet(f, Rest(t)) \in T
      BY <3>2
    <3> QED BY <3>3, <3>4
  <2> QED BY <2>1, <2>2
<1>2. \A t \in SUBSET D : t \in B
  <2> HIDE DEF B
  <2> QED BY <1>1, Smaller
<1> QED BY <1>2

\* Any element may be added last.
LEMMA SumWithout ==
    ASSUME NEW f, NEW D, IsFiniteSet(D), \A x \in D : f[x] \in Int, NEW a \in D
    PROVE  SumFunctionOnSet(f, D) = f[a] + SumFunctionOnSet(f, D \ {a})
<1> DEFINE Good(t) == \A x \in t : SumFunctionOnSet(f, t) = f[x] + SumFunctionOnSet(f, t \ {x})
           B == {t \in SUBSET D : Good(t)}
<1>1. ASSUME NEW t \in SUBSET D, \A u \in SUBSET t : u # t => u \in B
      PROVE  t \in B
  <2> SUFFICES ASSUME NEW x \in t
               PROVE  SumFunctionOnSet(f, t) = f[x] + SumFunctionOnSet(f, t \ {x})
    OBVIOUS
  <2> DEFINE c == Picked(t)
             rest == (t \ {x}) \ {c}
  <2>1. IsFiniteSet(t) /\ IsFiniteSet(t \ {x}) /\ IsFiniteSet(rest)
    BY FS_Subset
  <2>2. c \in t /\ Rest(t) = t \ {c}
    BY PickedIsIn DEF Rest
  <2>3. SumFunctionOnSet(f, t) = f[c] + SumFunctionOnSet(f, t \ {c})
    BY <2>1, <2>2, SumPicks
  <2> HIDE DEF c
  <2>4. CASE x = c
    BY <2>3, <2>4
  <2>5. CASE x # c
    <3>1. t \ {c} \in B /\ t \ {x} \in B
      BY <1>1, <2>2
    <3>2. (t \ {c}) \ {x} = rest
      OBVIOUS
    <3>3. SumFunctionOnSet(f, t \ {c}) = f[x] + SumFunctionOnSet(f, rest)
      BY <2>5, <3>1, <3>2
    <3>4. SumFunctionOnSet(f, t \ {x}) = f[c] + SumFunctionOnSet(f, rest)
      BY <2>2, <2>5, <3>1
    <3>5. SumFunctionOnSet(f, rest) \in Int
      BY <2>1, SumType
    <3>6. f[x] \in Int /\ f[c] \in Int
      BY <2>2
    <3>7. \A p, q, r \in Int : p + (q + r) = q + (p + r)
      OBVIOUS
    <3> HIDE DEF rest, B
    <3>8. f[c] + (f[x] + SumFunctionOnSet(f, rest)) = f[x] + (f[c] + SumFunctionOnSet(f, rest))
      BY <3>5, <3>6, <3>7
    <3> QED BY Zenon, <2>3, <3>3, <3>4, <3>8
  <2> QED BY <2>4, <2>5
<1>2. \A t \in SUBSET D : t \in B
  <2> HIDE DEF B
  <2> QED BY <1>1, Smaller
<1> QED BY <1>2

\* Functions that agree on a set have the same sum.
LEMMA SumsAgree ==
    ASSUME NEW f, NEW g, NEW D, IsFiniteSet(D), \A x \in D : f[x] = g[x]
    PROVE  SumFunctionOnSet(f, D) = SumFunctionOnSet(g, D)
<1> DEFINE B == {t \in SUBSET D : SumFunctionOnSet(f, t) = SumFunctionOnSet(g, t)}
<1>1. ASSUME NEW t \in SUBSET D, \A u \in SUBSET t : u # t => u \in B
      PROVE  t \in B
  <2>1. CASE t = {}
    BY <2>1, SumOfNothing
  <2>2. CASE t # {}
    <3>1. IsFiniteSet(t)
      BY FS_Subset
    <3>2. Picked(t) \in D /\ Rest(t) \in B
      BY <1>1, <2>2, PickedIsIn
    <3>3. /\ SumFunctionOnSet(f, t) = f[Picked(t)] + SumFunctionOnSet(f, Rest(t))
          /\ SumFunctionOnSet(g, t) = g[Picked(t)] + SumFunctionOnSet(g, Rest(t))
      BY <2>2, <3>1, SumPicks
    <3> QED BY <3>2, <3>3
  <2> QED BY <2>1, <2>2
<1>2. \A t \in SUBSET D : t \in B
  <2> HIDE DEF B
  <2> QED BY <1>1, Smaller
<1> QED BY <1>2

\* What is zero does not count.
LEMMA SumOfTheRest ==
    ASSUME NEW f, NEW D, IsFiniteSet(D), \A x \in D : f[x] \in Int,
           NEW E \in SUBSET D, \A x \in D \ E : f[x] = 0
    PROVE  SumFunctionOnSet(f, D) = SumFunctionOnSet(f, E)
<1> DEFINE B == {t \in SUBSET D : SumFunctionOnSet(f, t) = SumFunctionOnSet(f, t \cap E)}
<1>1. ASSUME NEW t \in SUBSET D, \A u \in SUBSET t : u # t => u \in B
      PROVE  t \in B
  <2>1. CASE t \subseteq E
    BY <2>1
  <2>2. CASE \E x \in t : x \notin E
    <3>1. PICK x \in t : x \notin E
      BY <2>2
    <3>2. IsFiniteSet(t) /\ IsFiniteSet(t \ {x})
      BY FS_Subset
    <3>3. SumFunctionOnSet(f, t) = f[x] + SumFunctionOnSet(f, t \ {x})
      BY <3>2, SumWithout
    <3>4. f[x] = 0 /\ SumFunctionOnSet(f, t \ {x}) \in Int
      BY <3>1, <3>2, SumType
    <3>5. SumFunctionOnSet(f, t \ {x}) = SumFunctionOnSet(f, (t \ {x}) \cap E)
      BY <1>1
    <3>6. (t \ {x}) \cap E = t \cap E
      BY <3>1
    <3>7. 0 + SumFunctionOnSet(f, t \ {x}) = SumFunctionOnSet(f, t \ {x})
      BY <3>4
    <3>8. SumFunctionOnSet(f, t) = SumFunctionOnSet(f, t \cap E)
      BY Zenon, <3>3, <3>4, <3>5, <3>6, <3>7
    <3> QED BY <3>8
  <2> QED BY <2>1, <2>2
<1>2. \A t \in SUBSET D : t \in B
  <2> HIDE DEF B
  <2> QED BY <1>1, Smaller
<1>3. D \cap E = E
  OBVIOUS
<1> QED BY <1>2, <1>3

-----------------------------------------------------------------------------
(* Sums of functions *)

LEMMA SumIsNumber ==
    ASSUME NEW D, IsFiniteSet(D), NEW T \in {Int, Nat}, NEW f, DOMAIN f = D, \A x \in D : f[x] \in T
    PROVE  SumFunction(f) \in T
BY SumType DEF SumFunction

\* The sum of a function is that of its restriction, if it is zero elsewhere.
LEMMA SumShrinks ==
    ASSUME NEW D, IsFiniteSet(D), NEW f, DOMAIN f = D, \A x \in D : f[x] \in Int,
           NEW E \in SUBSET D, NEW g, DOMAIN g = E, \A x \in E : g[x] = f[x], \A x \in D \ E : f[x] = 0
    PROVE  SumFunction(f) = SumFunction(g)
<1>1. SumFunctionOnSet(f, D) = SumFunctionOnSet(f, E)
  BY SumOfTheRest
<1>2. IsFiniteSet(E)
  BY FS_Subset
<1>3. SumFunctionOnSet(g, E) = SumFunctionOnSet(f, E)
  BY <1>2, SumsAgree
<1> QED
  BY <1>1, <1>3 DEF SumFunction

-----------------------------------------------------------------------------
(* The greatest and the least element *)

LEMMA FiniteImage == ASSUME NEW D, IsFiniteSet(D), NEW f PROVE IsFiniteSet({f[x] : x \in D})
<1> DEFINE T == {f[x] : x \in D}
           g == [x \in D |-> f[x]]
<1>1. g \in Surjection(D, T)
  BY DEF Surjection
<1> QED
  BY <1>1, FS_Surjection

LEMMA MaxIs ==
    ASSUME NEW D, IsFiniteSet(D), D \subseteq Int, D # {}
    PROVE  Max(D) \in D /\ \A y \in D : y <= Max(D)
<1> DEFINE B == {t \in SUBSET D : t # {} => \E x \in t : \A y \in t : y <= x}
<1>1. ASSUME NEW t \in SUBSET D, \A u \in SUBSET t : u # t => u \in B
      PROVE  t \in B
  <2> SUFFICES ASSUME t # {} PROVE \E x \in t : \A y \in t : y <= x
    OBVIOUS
  <2>1. PICK a \in t, u \in SUBSET t : u # t /\ t = u \cup {a}
    <3>1. PICK a \in t : TRUE
      OBVIOUS
    <3>2. t \ {a} \in SUBSET t /\ t \ {a} # t /\ t = (t \ {a}) \cup {a}
      OBVIOUS
    <3> QED
      BY <3>1, <3>2
  <2>2. t \subseteq Int /\ a \in Int
    OBVIOUS
  <2>3. CASE u = {}
    BY <2>1, <2>2, <2>3
  <2>4. CASE u # {}
    <3>1. PICK m \in u : \A y \in u : y <= m
      BY <1>1, <2>1, <2>4
    <3>2. CASE a <= m
      BY <2>1, <2>2, <3>1, <3>2
    <3>3. CASE ~(a <= m)
      <4>1. \A y \in u : y <= a
        BY <2>1, <2>2, <3>1, <3>3
      <4> QED
        BY <2>1, <2>2, <4>1
    <3> QED
      BY <3>2, <3>3
  <2> QED
    BY <2>3, <2>4
<1>2. \A t \in SUBSET D : t \in B
  <2> HIDE DEF B
  <2> QED
    BY <1>1, Smaller
<1>3. \E x \in D : \A y \in D : x >= y
  BY <1>2
<1> QED
  BY <1>3 DEF Max

LEMMA MinIs ==
    ASSUME NEW D, IsFiniteSet(D), D \subseteq Int, D # {}
    PROVE  Min(D) \in D /\ \A y \in D : Min(D) <= y
<1> DEFINE f == [x \in Int |-> 0 - x]
           T == {f[x] : x \in D}
<1>1. IsFiniteSet(T)
  <2> HIDE DEF f
  <2> QED
    BY FiniteImage
<1>2. T \subseteq Int /\ T # {}
  <2>1. \A x \in D : f[x] \in Int
    OBVIOUS
  <2> HIDE DEF f
  <2> QED
    BY <2>1
<1>3. PICK m \in T : \A y \in T : y <= m
  <2> HIDE DEF T
  <2> QED
    BY <1>1, <1>2, MaxIs
<1>4. PICK x \in D : m = 0 - x
  OBVIOUS
<1>5. ASSUME NEW y \in D PROVE x <= y
  <2>1. 0 - y <= 0 - x
    BY <1>3, <1>4
  <2> QED
    BY <2>1
<1>6. \E z \in D : \A y \in D : z =< y
  BY <1>5
<1> QED
  BY <1>6 DEF Min

\* There is no other.
LEMMA MaxIsOnly ==
    ASSUME NEW D \in SUBSET Int, NEW x \in D, \A y \in D : y <= x
    PROVE  Max(D) = x
<1>1. PICK m \in D : m = Max(D) /\ \A y \in D : m >= y
  BY DEF Max
<1>2. m \in Int /\ x \in Int
  OBVIOUS
<1>3. m >= x /\ x >= m
  BY <1>1
<1> QED
  BY <1>1, <1>2, <1>3

LEMMA MinIsOnly ==
    ASSUME NEW D \in SUBSET Int, NEW x \in D, \A y \in D : x <= y
    PROVE  Min(D) = x
<1>1. PICK m \in D : m = Min(D) /\ \A y \in D : m =< y
  BY DEF Min
<1>2. m \in Int /\ x \in Int
  OBVIOUS
<1>3. m =< x /\ x =< m
  BY <1>1
<1> QED
  BY <1>1, <1>2, <1>3
=============================================================================
