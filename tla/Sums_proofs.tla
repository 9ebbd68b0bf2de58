---------------------------- MODULE Sums_proofs ----------------------------
(***************************************************************************)
(* What the sums of the models are: SumFunctionOnSet of the community      *)
(* modules, over a finite set, in whatever order its elements are taken.   *)
(***************************************************************************)
EXTENDS Integers, FiniteSets, Functions, FiniteSetTheorems,
        WellFoundedInduction, TLAPS

\* Induction over the subsets of a finite set, with a set for the property:
\* a set of subsets that holds every subset whose proper subsets it holds
\* holds them all.
LEMMA SubsetInduction ==
    ASSUME NEW S, IsFiniteSet(S), NEW G,
           \A t \in SUBSET S :
              (\A u \in SUBSET t : u # t => u \in G) => t \in G
    PROVE  \A t \in SUBSET S : t \in G
<1> DEFINE R == StrictSubsetOrdering(S)
           T == {t \in SUBSET S : t \notin G}
<1> SUFFICES ASSUME T # {} PROVE FALSE
    OBVIOUS
<1>1. IsWellFoundedOn(R, SUBSET S)
  <2>1. IsWellFoundedOn(R, FiniteSubsetsOf(S))
      BY FS_StrictSubsetOrderingWellFounded
  <2>2. FiniteSubsetsOf(S) = SUBSET S
      BY FS_FiniteSubsetsOfFinite
  <2> HIDE DEF R
  <2> QED  BY <2>1, <2>2
<1>2. PICK t \in T : \A y \in T : ~ (<<y, t>> \in R)
  <2>1. T \subseteq SUBSET S
      OBVIOUS
  <2> HIDE DEF T, R
  <2> QED  BY <1>1, <2>1, WFMin
<1>3. \A u \in SUBSET t : u # t => u \in G
    BY <1>2 DEF StrictSubsetOrdering
<1> QED  BY <1>3

-----------------------------------------------------------------------------
(* The recursion                                                           *)

Pick(s) == CHOOSE x \in s : TRUE

\* h is the recursion of SumFunctionOnSet on the subsets of S.
Sums(h, f, S) ==
    h = [s \in SUBSET S |->
            IF s = {} THEN 0 ELSE f[Pick(s)] + h[s \ {Pick(s)}]]

SumsOf(f, S) == CHOOSE h : Sums(h, f, S)

LEMMA PickIn ==
    ASSUME NEW s, s # {}
    PROVE  Pick(s) \in s
BY DEF Pick

LEMMA SumIsLast ==
    ASSUME NEW f, NEW S
    PROVE  SumFunctionOnSet(f, S) = SumsOf(f, S)[S]
BY DEF SumFunctionOnSet, FoldFunctionOnSet, MapThenFoldSet, SumsOf, Sums, Pick

\* What the recursion gives a set does not depend on the set it started from.
LEMMA SumsAgree ==
    ASSUME NEW f, NEW S, NEW U, IsFiniteSet(S), NEW h, NEW g,
           Sums(h, f, S), Sums(g, f, U)
    PROVE  \A s \in SUBSET (S \cap U) : h[s] = g[s]
<1> DEFINE G == {s \in SUBSET (S \cap U) : h[s] = g[s]}
<1>1. IsFiniteSet(S \cap U)
    BY FS_Subset
<1>2. ASSUME NEW t \in SUBSET (S \cap U),
             \A u \in SUBSET t : u # t => u \in G
      PROVE  t \in G
  <2>1. CASE t = {}
      BY <2>1 DEF Sums
  <2>2. CASE t # {}
    <3>1. Pick(t) \in t /\ t \ {Pick(t)} \in SUBSET t /\ t \ {Pick(t)} # t
        BY <2>2, PickIn
    <3>2. h[t \ {Pick(t)}] = g[t \ {Pick(t)}]
        BY <3>1, <1>2
    <3>3. h[t] = f[Pick(t)] + h[t \ {Pick(t)}]
        BY <2>2 DEF Sums
    <3>4. g[t] = f[Pick(t)] + g[t \ {Pick(t)}]
        BY <2>2 DEF Sums
    <3> QED  BY <3>2, <3>3, <3>4
  <2> QED  BY <2>1, <2>2
<1>3. \A t \in SUBSET (S \cap U) : t \in G
  <2> HIDE DEF G
  <2> QED  BY <1>1, <1>2, SubsetInduction
<1> QED  BY <1>3

\* The recursion has a solution.
LEMMA SumsExist ==
    ASSUME NEW f, NEW S, IsFiniteSet(S)
    PROVE  Sums(SumsOf(f, S), f, S)
<1> DEFINE G == {s \in SUBSET S : Sums(SumsOf(f, s), f, s)}
<1>1. ASSUME NEW t \in SUBSET S, \A u \in SUBSET t : u # t => u \in G
      PROVE  t \in G
  <2> DEFINE Rest(s) == s \ {Pick(s)}
             h == [s \in SUBSET t |->
                     IF s = {} THEN 0
                     ELSE f[Pick(s)] + SumsOf(f, Rest(s))[Rest(s)]]
  <2>1. ASSUME NEW s \in SUBSET t, s # {}
        PROVE  Rest(s) \in SUBSET t /\ Rest(s) # t /\ Pick(s) \in s
      BY <2>1, PickIn
  <2>2. ASSUME NEW s \in SUBSET t, s # {}
        PROVE  h[Rest(s)] = SumsOf(f, Rest(s))[Rest(s)]
    <3> DEFINE v == Rest(s)
    <3>1. Sums(SumsOf(f, v), f, v)
        BY <1>1, <2>1, <2>2
    <3>2. CASE v = {}
        BY <3>1, <3>2, <2>1, <2>2 DEF Sums
    <3>3. CASE v # {}
      <4>1. v \in SUBSET t /\ Rest(v) \in SUBSET t /\ Rest(v) # t
              /\ Rest(v) \in SUBSET v
          BY <2>1, <2>2, <3>3
      <4>2. Sums(SumsOf(f, Rest(v)), f, Rest(v))
          BY <1>1, <4>1
      <4>3. IsFiniteSet(v)
          BY <4>1, FS_Subset
      <4>4. SumsOf(f, v)[Rest(v)] = SumsOf(f, Rest(v))[Rest(v)]
        <5>1. Rest(v) \in SUBSET (v \cap Rest(v))
            BY <4>1
        <5> HIDE DEF v, Rest
        <5> QED  BY <3>1, <4>2, <4>3, <5>1, SumsAgree
      <4>5. SumsOf(f, v)[v] = f[Pick(v)] + SumsOf(f, v)[Rest(v)]
          BY <3>1, <3>3 DEF Sums
      <4>6. h[v] = f[Pick(v)] + SumsOf(f, Rest(v))[Rest(v)]
          BY <4>1, <3>3
      <4> QED  BY <4>4, <4>5, <4>6
    <3> QED  BY <3>2, <3>3
  <2>3. Sums(h, f, t)
    <3>1. h = [s \in SUBSET t |->
                 IF s = {} THEN 0 ELSE f[Pick(s)] + h[Rest(s)]]
        BY <2>2
    <3> QED  BY <3>1 DEF Sums
  <2>4. Sums(SumsOf(f, t), f, t)
    <3> HIDE DEF h
    <3> QED  BY <2>3 DEF SumsOf
  <2> QED  BY <2>4
<1>2. \A t \in SUBSET S : t \in G
  <2> HIDE DEF G
  <2> QED  BY <1>1, SubsetInduction
<1> QED  BY <1>2

-----------------------------------------------------------------------------
(* The sum                                                                 *)

LEMMA SumOfNone ==
    ASSUME NEW f
    PROVE  SumFunctionOnSet(f, {}) = 0
<1>1. IsFiniteSet({})
    BY FS_EmptySet
<1>2. Sums(SumsOf(f, {}), f, {})
    BY <1>1, SumsExist
<1> QED  BY <1>2, SumIsLast DEF Sums

\* One step of the recursion.
LEMMA SumStep ==
    ASSUME NEW f, NEW S, IsFiniteSet(S), S # {}
    PROVE  SumFunctionOnSet(f, S)
              = f[Pick(S)] + SumFunctionOnSet(f, S \ {Pick(S)})
<1> DEFINE U == S \ {Pick(S)}
<1>1. IsFiniteSet(U) /\ U \in SUBSET S /\ U \in SUBSET (S \cap U)
    BY FS_Subset
<1>2. Sums(SumsOf(f, S), f, S) /\ Sums(SumsOf(f, U), f, U)
  <2> HIDE DEF U
  <2> QED  BY <1>1, SumsExist
<1>3. SumsOf(f, S)[U] = SumsOf(f, U)[U]
  <2> HIDE DEF U
  <2> QED  BY <1>1, <1>2, SumsAgree
<1>4. SumsOf(f, S)[S] = f[Pick(S)] + SumsOf(f, S)[U]
    BY <1>2 DEF Sums
<1> QED  BY <1>3, <1>4, SumIsLast

\* A sum of integers is one, and any of its elements may be taken first.
LEMMA SumSplits ==
    ASSUME NEW f, NEW S, IsFiniteSet(S), \A x \in S : f[x] \in Int
    PROVE  /\ SumFunctionOnSet(f, S) \in Int
           /\ \A x \in S : SumFunctionOnSet(f, S)
                              = f[x] + SumFunctionOnSet(f, S \ {x})
<1> DEFINE Sum(s) == SumFunctionOnSet(f, s)
           G == {s \in SUBSET S :
                   /\ Sum(s) \in Int
                   /\ \A x \in s : Sum(s) = f[x] + Sum(s \ {x})}
<1>1. ASSUME NEW t \in SUBSET S, \A u \in SUBSET t : u # t => u \in G
      PROVE  t \in G
  <2>1. CASE t = {}
      BY <2>1, SumOfNone
  <2>2. CASE t # {}
    <3> DEFINE c == Pick(t)
    <3>1. c \in t /\ t \ {c} \in G /\ f[c] \in Int
        BY <1>1, <2>2, PickIn
    <3>2. Sum(t) = f[c] + Sum(t \ {c})
      <4>1. IsFiniteSet(t)
          BY FS_Subset
      <4> QED  BY <2>2, <4>1, SumStep
    <3>3. Sum(t) \in Int
        BY <3>1, <3>2
    <3>4. ASSUME NEW x \in t
          PROVE  Sum(t) = f[x] + Sum(t \ {x})
      <4>1. CASE x = c
          BY <3>2, <4>1
      <4>2. CASE x # c
        <5> DEFINE r == (t \ {c}) \ {x}
        <5>1. /\ r = (t \ {x}) \ {c} /\ x \in t \ {c} /\ c \in t \ {x}
              /\ t \ {x} \in G /\ r \in G /\ f[x] \in Int
            BY <1>1, <3>1, <4>2
        <5>2. Sum(t \ {c}) = f[x] + Sum(r)
            BY <3>1, <5>1
        <5>3. Sum(t \ {x}) = f[c] + Sum(r)
            BY <5>1
        <5>4. Sum(r) \in Int /\ f[c] \in Int
            BY <3>1, <5>1
        <5> HIDE DEF r, Sum, c
        <5> QED  BY <3>2, <5>1, <5>2, <5>3, <5>4
      <4> QED  BY <4>1, <4>2
    <3> QED  BY <3>3, <3>4
  <2> QED  BY <2>1, <2>2
<1>2. \A t \in SUBSET S : t \in G
  <2> HIDE DEF G
  <2> QED  BY <1>1, SubsetInduction
<1> QED  BY <1>2

\* Equal summands, equal sums.
LEMMA SumOfSame ==
    ASSUME NEW f, NEW g, NEW S, IsFiniteSet(S),
           \A x \in S : f[x] = g[x]
    PROVE  SumFunctionOnSet(f, S) = SumFunctionOnSet(g, S)
<1> DEFINE G == {s \in SUBSET S :
                   SumFunctionOnSet(f, s) = SumFunctionOnSet(g, s)}
<1>1. ASSUME NEW t \in SUBSET S, \A u \in SUBSET t : u # t => u \in G
      PROVE  t \in G
  <2>1. CASE t = {}
      BY <2>1, SumOfNone
  <2>2. CASE t # {}
    <3> DEFINE c == Pick(t)
    <3>1. IsFiniteSet(t)
        BY FS_Subset
    <3>2. c \in t /\ t \ {c} \in G /\ f[c] = g[c]
        BY <1>1, <2>2, PickIn
    <3> QED  BY <2>2, <3>1, <3>2, SumStep
  <2> QED  BY <2>1, <2>2
<1>2. \A t \in SUBSET S : t \in G
  <2> HIDE DEF G
  <2> QED  BY <1>1, SubsetInduction
<1> QED  BY <1>2

\* A sum of naturals is one, and no less than any of its summands.
LEMMA SumOfNats ==
    ASSUME NEW f, NEW S, IsFiniteSet(S), \A x \in S : f[x] \in Nat
    PROVE  /\ SumFunctionOnSet(f, S) \in Nat
           /\ \A x \in S : f[x] <= SumFunctionOnSet(f, S)
<1> DEFINE G == {s \in SUBSET S : SumFunctionOnSet(f, s) \in Nat}
<1>1. ASSUME NEW t \in SUBSET S, \A u \in SUBSET t : u # t => u \in G
      PROVE  t \in G
  <2>1. CASE t = {}
      BY <2>1, SumOfNone
  <2>2. CASE t # {}
    <3> DEFINE c == Pick(t)
    <3>1. IsFiniteSet(t)
        BY FS_Subset
    <3>2. c \in t /\ t \ {c} \in G /\ f[c] \in Nat
        BY <1>1, <2>2, PickIn
    <3> QED  BY <2>2, <3>1, <3>2, SumStep
  <2> QED  BY <2>1, <2>2
<1>2. \A t \in SUBSET S : t \in G
  <2> HIDE DEF G
  <2> QED  BY <1>1, SubsetInduction
<1>3. ASSUME NEW x \in S
      PROVE  f[x] <= SumFunctionOnSet(f, S)
  <2>1. SumFunctionOnSet(f, S) = f[x] + SumFunctionOnSet(f, S \ {x})
      BY SumSplits
  <2>2. SumFunctionOnSet(f, S \ {x}) \in Nat /\ f[x] \in Nat
      BY <1>2
  <2> QED  BY <2>1, <2>2
<1> QED  BY <1>2, <1>3

\* The sum of the sums of two summands.
LEMMA SumOfSums ==
    ASSUME NEW f, NEW g, NEW h, NEW S, IsFiniteSet(S),
           \A x \in S : f[x] \in Int /\ g[x] \in Int /\ h[x] = f[x] + g[x]
    PROVE  SumFunctionOnSet(h, S)
              = SumFunctionOnSet(f, S) + SumFunctionOnSet(g, S)
<1> DEFINE G == {s \in SUBSET S :
                   SumFunctionOnSet(h, s)
                      = SumFunctionOnSet(f, s) + SumFunctionOnSet(g, s)}
<1>1. ASSUME NEW t \in SUBSET S, \A u \in SUBSET t : u # t => u \in G
      PROVE  t \in G
  <2>1. CASE t = {}
      BY <2>1, SumOfNone
  <2>2. CASE t # {}
    <3> DEFINE c == Pick(t)
               r == t \ {c}
    <3>1. IsFiniteSet(t) /\ IsFiniteSet(r)
        BY FS_Subset
    <3>2. c \in t /\ r \in G /\ f[c] \in Int /\ g[c] \in Int
            /\ h[c] = f[c] + g[c]
        BY <1>1, <2>2, PickIn
    <3>3. /\ SumFunctionOnSet(f, r) \in Int
          /\ SumFunctionOnSet(g, r) \in Int
      <4>1. \A x \in r : f[x] \in Int /\ g[x] \in Int
          OBVIOUS
      <4> HIDE DEF r
      <4> QED  BY <3>1, <4>1, SumSplits
    <3>4. /\ SumFunctionOnSet(f, t) = f[c] + SumFunctionOnSet(f, r)
          /\ SumFunctionOnSet(g, t) = g[c] + SumFunctionOnSet(g, r)
          /\ SumFunctionOnSet(h, t) = h[c] + SumFunctionOnSet(h, r)
        BY <2>2, <3>1, SumStep
    <3>5. SumFunctionOnSet(h, r)
            = SumFunctionOnSet(f, r) + SumFunctionOnSet(g, r)
        BY <3>2
    <3> HIDE DEF c, r
    <3>6. SumFunctionOnSet(h, t)
            = SumFunctionOnSet(f, t) + SumFunctionOnSet(g, t)
        BY <3>2, <3>3, <3>4, <3>5
    <3> QED  BY <3>6
  <2> QED  BY <2>1, <2>2
<1>2. \A t \in SUBSET S : t \in G
  <2> HIDE DEF G
  <2> QED  BY <1>1, SubsetInduction
<1> QED  BY <1>2

\* One summand changed.
LEMMA SumChanged ==
    ASSUME NEW f, NEW g, NEW S, IsFiniteSet(S), NEW x \in S,
           \A y \in S : f[y] \in Int /\ g[y] \in Int,
           \A y \in S \ {x} : f[y] = g[y]
    PROVE  SumFunctionOnSet(g, S) = SumFunctionOnSet(f, S) + (g[x] - f[x])
<1> DEFINE r == S \ {x}
<1>1. IsFiniteSet(r) /\ \A y \in r : f[y] = g[y] /\ f[y] \in Int
    BY FS_Subset
<1>2. SumFunctionOnSet(f, r) = SumFunctionOnSet(g, r)
  <2> HIDE DEF r
  <2> QED  BY <1>1, SumOfSame
<1>3. SumFunctionOnSet(f, r) \in Int
  <2> HIDE DEF r
  <2> QED  BY <1>1, SumSplits
<1>4. SumFunctionOnSet(f, S) = f[x] + SumFunctionOnSet(f, r)
    BY SumSplits
<1>5. SumFunctionOnSet(g, S) = g[x] + SumFunctionOnSet(g, r)
    BY SumSplits
<1> HIDE DEF r
<1> QED  BY <1>2, <1>3, <1>4, <1>5

\* Summands that are zero need not be taken.
LEMMA SumOfPart ==
    ASSUME NEW f, NEW S, IsFiniteSet(S), NEW I \in SUBSET S,
           \A x \in S : f[x] \in Int,
           \A x \in S \ I : f[x] = 0
    PROVE  SumFunctionOnSet(f, S) = SumFunctionOnSet(f, I)
<1> DEFINE G == {s \in SUBSET S :
                   SumFunctionOnSet(f, s) = SumFunctionOnSet(f, s \cap I)}
<1>1. ASSUME NEW t \in SUBSET S, \A u \in SUBSET t : u # t => u \in G
      PROVE  t \in G
  <2>1. CASE t \subseteq I
    <3>1. t \cap I = t
        BY <2>1
    <3> QED  BY <3>1
  <2>2. CASE ~(t \subseteq I)
    <3>1. PICK x \in t : x \notin I
        BY <2>2
    <3>2. /\ t \ {x} \in G /\ f[x] = 0
          /\ (t \ {x}) \cap I = t \cap I
        BY <1>1, <3>1
    <3>3. IsFiniteSet(t) /\ \A y \in t : f[y] \in Int
        BY FS_Subset
    <3>4. SumFunctionOnSet(f, t) = f[x] + SumFunctionOnSet(f, t \ {x})
        BY <3>3, SumSplits
    <3>5. SumFunctionOnSet(f, t \ {x}) \in Int
      <4>1. IsFiniteSet(t \ {x}) /\ \A y \in t \ {x} : f[y] \in Int
          BY <3>3, FS_Subset
      <4> QED  BY <4>1, SumSplits
    <3>6. SumFunctionOnSet(f, t) = SumFunctionOnSet(f, t \ {x})
        BY <3>2, <3>4, <3>5
    <3>7. SumFunctionOnSet(f, t \ {x}) = SumFunctionOnSet(f, (t \ {x}) \cap I)
        BY <3>2
    <3> QED  BY <3>2, <3>6, <3>7
  <2> QED  BY <2>1, <2>2
<1>2. \A t \in SUBSET S : t \in G
  <2> HIDE DEF G
  <2> QED  BY <1>1, SubsetInduction
<1>3. S \cap I = I
    OBVIOUS
<1> QED  BY <1>2, <1>3

\* Fewer naturals, no greater sum.
LEMMA SumOfFewer ==
    ASSUME NEW f, NEW S, IsFiniteSet(S), \A x \in S : f[x] \in Nat
    PROVE  \A t \in SUBSET S : SumFunctionOnSet(f, t) <= SumFunctionOnSet(f, S)
<1> SUFFICES ASSUME NEW t \in SUBSET S
             PROVE  SumFunctionOnSet(f, t) <= SumFunctionOnSet(f, S)
    OBVIOUS
<1> DEFINE p == [x \in S |-> IF x \in t THEN f[x] ELSE 0]
           q == [x \in S |-> IF x \in t THEN 0 ELSE f[x]]
<1>1. \A x \in S : p[x] \in Nat /\ q[x] \in Nat /\ f[x] = p[x] + q[x]
    OBVIOUS
<1>2. /\ \A x \in S \ t : p[x] = 0
      /\ \A x \in t : p[x] = f[x]
    OBVIOUS
<1>3. IsFiniteSet(t)
    BY FS_Subset
<1> HIDE DEF p, q
<1>4. SumFunctionOnSet(f, S) = SumFunctionOnSet(p, S) + SumFunctionOnSet(q, S)
  <2>1. \A x \in S : p[x] \in Int /\ q[x] \in Int /\ f[x] = p[x] + q[x]
      BY <1>1
  <2> QED  BY <2>1, SumOfSums
<1>5. SumFunctionOnSet(p, S) = SumFunctionOnSet(p, t)
  <2>1. \A x \in S : p[x] \in Int
      BY <1>1
  <2> QED  BY <1>2, <2>1, SumOfPart
<1>6. SumFunctionOnSet(p, t) = SumFunctionOnSet(f, t)
    BY <1>2, <1>3, SumOfSame
<1>7. SumFunctionOnSet(p, S) \in Nat /\ SumFunctionOnSet(q, S) \in Nat
    BY <1>1, SumOfNats
<1> QED  BY <1>4, <1>5, <1>6, <1>7

\* A finite set of naturals has a greatest element.
LEMMA Greatest ==
    ASSUME NEW S \in SUBSET Nat, IsFiniteSet(S), S # {}
    PROVE  \E m \in S : \A x \in S : x <= m
<1> DEFINE G == {s \in SUBSET S : s # {} => \E m \in s : \A x \in s : x <= m}
<1>1. ASSUME NEW t \in SUBSET S, \A u \in SUBSET t : u # t => u \in G
      PROVE  t \in G
  <2>1. SUFFICES ASSUME t # {} PROVE \E m \in t : \A x \in t : x <= m
      OBVIOUS
  <2>2. PICK c \in t : TRUE
      BY <2>1
  <2>3. CASE t = {c}
      BY <2>3
  <2>4. CASE t # {c}
    <3>1. t \ {c} \in G /\ t \ {c} # {}
        BY <1>1, <2>4
    <3>2. PICK m \in t \ {c} : \A x \in t \ {c} : x <= m
        BY <3>1
    <3>3. c \in Nat /\ m \in Nat /\ \A x \in t : x \in Nat
        OBVIOUS
    <3>4. CASE c <= m
        BY <3>2, <3>4
    <3>5. CASE m <= c
      <4>1. \A x \in t : x <= c
          BY <3>2, <3>3, <3>5
      <4> QED  BY <4>1
    <3> QED  BY <3>3, <3>4, <3>5
  <2> QED  BY <2>3, <2>4
<1>2. S \in G
  <2> HIDE DEF G
  <2> QED  BY <1>1, SubsetInduction
<1> QED  BY <1>2

=============================================================================
