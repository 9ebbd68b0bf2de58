-------------------------- MODULE PlanOrder_proofs --------------------------
(***************************************************************************)
(* Theorems about the depth-first searches of a plan's graph, for every    *)
(* sequence of steps.                                                      *)
(*                                                                         *)
(* A search is a recursive function that passes over the nodes next to one *)
(* with a fold.  Three inductions say what it computes: Passes is the      *)
(* recursion of the fold, and Trace what it has come to after each node;   *)
(* Visited is one call of the search, and its recursion has a solution     *)
(* since a path grows and there are finitely many nodes; and Does says     *)
(* what a search does to what was found before it, which holds for one     *)
(* node if it holds for all nodes that are searched below it.              *)
(*                                                                         *)
(* A search that finds no cycle leaves every node it reached after those   *)
(* next to it (Leaves).  One that finds a cycle has a path back to a node  *)
(* on it, along which no rank of the nodes can fall all the way (Ranks):   *)
(* so there is no order of the steps.                                      *)
(***************************************************************************)
EXTENDS PlanDispatch, Sums_proofs

-----------------------------------------------------------------------------
(* Induction                                                               *)

\* Induction over the natural numbers, with a set for the property.
LEMMA UpInduction ==
    ASSUME NEW G, 0 \in G, \A n \in Nat : n \in G => n + 1 \in G
    PROVE  \A n \in Nat : n \in G
<1> SUFFICES ASSUME NEW n \in Nat, n \notin G PROVE FALSE
    OBVIOUS
<1> DEFINE S == {i \in 0 .. n : \A j \in 0 .. i : j \in G}
<1>1. S \in SUBSET Nat /\ IsFiniteSet(S)
  <2>1. IsFiniteSet(0 .. n)
      BY FS_Interval
  <2>2. S \in SUBSET (0 .. n)
      OBVIOUS
  <2> QED  BY <2>1, <2>2, FS_Subset
<1>2. 0 \in S
    OBVIOUS
<1>3. PICK m \in S : \A x \in S : x <= m
  <2> HIDE DEF S
  <2> QED  BY <1>1, <1>2, Greatest
<1>4. m \in 0 .. n /\ m # n
    BY <1>3
<1>5. m + 1 \in G
    BY <1>3, <1>4
<1>6. \A j \in 0 .. (m + 1) : j \in G
  <2>1. \A j \in 0 .. (m + 1) : j \in 0 .. m \/ j = m + 1
      BY <1>4
  <2> QED  BY <1>3, <1>5, <2>1
<1>7. m + 1 \in S
    BY <1>4, <1>6
<1> QED  BY <1>3, <1>4, <1>7

-----------------------------------------------------------------------------
(* A pass over a sequence                                                  *)

LEMMA LargestIsMax ==
    ASSUME NEW n \in Nat, NEW T \in SUBSET (1 .. n), T # {}
    PROVE  Max(T) \in T /\ \A x \in T : x <= Max(T)
<1>1. IsFiniteSet(1 .. n)
    BY FS_Interval
<1>2. IsFiniteSet(T)
    BY <1>1, FS_Subset
<1>3. T \in SUBSET Nat
    OBVIOUS
<1>4. PICK m \in T : \A x \in T : x <= m
    BY <1>2, <1>3, Greatest
<1>5. \A x \in T : m >= x
    BY <1>3, <1>4
<1>6. Max(T) \in T /\ \A x \in T : Max(T) >= x
    BY <1>5 DEF Max
<1> QED  BY <1>3, <1>6

\* h is the recursion of FoldLeft in Through.
Passes(h, F, a, s) ==
    h = [T \in SUBSET DOMAIN s |->
            IF T = {} THEN a ELSE F[s[Max(T)]][h[T \ {Max(T)}]]]

PassesOf(F, a, s) == CHOOSE h : Passes(h, F, a, s)

LEMMA ThroughIsLast ==
    ASSUME NEW F, NEW a, NEW s
    PROVE  Through(F, a, s) = PassesOf(F, a, s)[DOMAIN s]
BY DEF Through, FoldLeft, MapThenFoldSet, PassesOf, Passes

\* The recursion has a solution.
LEMMA PassesExist ==
    ASSUME NEW X, NEW F, NEW a, NEW s \in Seq(X)
    PROVE  Passes(PassesOf(F, a, s), F, a, s)
<1> DEFINE D == DOMAIN s
           One(g, T) == IF T = {} THEN a ELSE F[s[Max(T)]][g[T \ {Max(T)}]]
           Solves(g, n) == \A T \in SUBSET (1 .. n) : g[T] = One(g, T)
           G == {n \in Nat : n <= Len(s) => \E g : Solves(g, n)}
<1>0. Len(s) \in Nat /\ D = 1 .. Len(s)
    OBVIOUS
<1>1. 0 \in G
  <2> DEFINE g == [T \in {{}} |-> a]
  <2>1. \A T \in SUBSET (1 .. 0) : T = {}
      OBVIOUS
  <2>2. \A T \in SUBSET (1 .. 0) : g[T] = One(g, T)
      BY <2>1
  <2> HIDE DEF g, One
  <2> QED  BY <2>2
<1>2. ASSUME NEW n \in Nat, n \in G
      PROVE  n + 1 \in G
  <2>1. SUFFICES ASSUME n + 1 <= Len(s)
                 PROVE  \E g : Solves(g, n + 1)
    <3> HIDE DEF Solves
    <3> QED  OBVIOUS
  <2>2. PICK g : Solves(g, n)
    <3> HIDE DEF Solves
    <3>1. n <= Len(s)
        BY <1>0, <2>1
    <3> QED  BY <1>2, <3>1
  <2> DEFINE h == [T \in SUBSET (1 .. (n + 1)) |-> One(g, T)]
  <2>3. ASSUME NEW T \in SUBSET (1 .. (n + 1)), T # {}
        PROVE  T \ {Max(T)} \in SUBSET (1 .. n)
    <3>0. n + 1 \in Nat
        OBVIOUS
    <3> DEFINE m == Max(T)
    <3>1. m \in T /\ \A x \in T : x <= m
        BY <2>3, <3>0, LargestIsMax
    <3> HIDE DEF m
    <3>2. \A x \in T \ {m} : x \in 1 .. n
        BY <3>1
    <3>3. T \ {m} \in SUBSET (1 .. n)
        BY <3>2
    <3> QED  BY <3>3 DEF m
  <2>4. \A T \in SUBSET (1 .. n) : h[T] = g[T]
    <3>1. SUBSET (1 .. n) \subseteq SUBSET (1 .. (n + 1))
        OBVIOUS
    <3> HIDE DEF One
    <3> QED  BY <2>2, <3>1
  <2>5. ASSUME NEW T \in SUBSET (1 .. (n + 1))
        PROVE  h[T] = One(h, T)
    <3>1. h[T] = One(g, T)
        OBVIOUS
    <3>2. One(g, T) = One(h, T)
      <4>1. CASE T = {}
          BY <4>1
      <4>2. CASE T # {}
        <5>1. h[T \ {Max(T)}] = g[T \ {Max(T)}]
          <6> HIDE DEF h
          <6> QED  BY <2>3, <2>4, <4>2
        <5> HIDE DEF h
        <5> QED  BY <5>1, <4>2
      <4> QED  BY <4>1, <4>2
    <3> QED  BY <3>1, <3>2
  <2>6. Solves(h, n + 1)
      BY <2>5
  <2> HIDE DEF h, Solves
  <2> QED  BY <2>6
<1>3. \A n \in Nat : n \in G
  <2> HIDE DEF G
  <2> QED  BY <1>1, <1>2, UpInduction
<1>4. PICK g : \A T \in SUBSET D : g[T] = One(g, T)
  <2>1. PICK g : Solves(g, Len(s))
    <3> HIDE DEF Solves
    <3> QED  BY <1>0, <1>3
  <2> HIDE DEF One
  <2> QED  BY <1>0, <2>1
<1> DEFINE h == [T \in SUBSET D |-> g[T]]
<1>5. ASSUME NEW T \in SUBSET D
      PROVE  h[T] = One(h, T)
  <2>1. h[T] = g[T] /\ h[T \ {Max(T)}] = g[T \ {Max(T)}]
      OBVIOUS
  <2> HIDE DEF h
  <2> QED  BY <2>1, <1>4
<1>6. Passes(h, F, a, s)
  <2>1. h = [T \in SUBSET D |-> h[T]]
      OBVIOUS
  <2>2. h = [T \in SUBSET D |-> One(h, T)]
    <3> HIDE DEF h, One
    <3> QED  BY <1>5, <2>1
  <2> HIDE DEF h
  <2> QED  BY <2>2 DEF Passes
<1> HIDE DEF h
<1> QED  BY <1>6 DEF PassesOf

\* The results of a pass, one after the other.
Trace(A, F, a, s, acc) ==
    /\ acc \in [0 .. Len(s) -> A]
    /\ acc[0] = a
    /\ \A i \in 1 .. Len(s) : acc[i] = F[s[i]][acc[i - 1]]
    /\ Through(F, a, s) = acc[Len(s)]

\* A pass has them.
LEMMA ThroughTrace ==
    ASSUME NEW A, NEW X, NEW F \in [X -> [A -> A]], NEW a \in A, NEW s \in Seq(X)
    PROVE  \E acc : Trace(A, F, a, s, acc)
<1> DEFINE h == PassesOf(F, a, s)
           acc == [i \in 0 .. Len(s) |-> h[1 .. i]]
<1>0. Len(s) \in Nat /\ DOMAIN s = 1 .. Len(s) /\ \A i \in 1 .. Len(s) : s[i] \in X
    OBVIOUS
<1>1. Passes(h, F, a, s)
    BY PassesExist
<1> HIDE DEF h
<1>2. acc[0] = a
  <2>1. 1 .. 0 = {} /\ {} \in SUBSET DOMAIN s
      OBVIOUS
  <2>2. h[{}] = a
      BY <1>1, <2>1 DEF Passes
  <2> QED  BY <2>1, <2>2, <1>0
<1>3. ASSUME NEW i \in 1 .. Len(s)
      PROVE  acc[i] = F[s[i]][acc[i - 1]]
  <2>0. i \in 1 .. i /\ \A j \in 1 .. i : j \in 1 .. Len(s)
      BY <1>0
  <2>1. 1 .. i \in SUBSET DOMAIN s /\ 1 .. i # {}
      BY <1>0, <2>0
  <2>2. Max(1 .. i) = i
    <3>1. Max(1 .. i) \in 1 .. i /\ \A x \in 1 .. i : x <= Max(1 .. i)
        BY <1>0, <2>1, LargestIsMax
    <3> QED  BY <3>1
  <2>3. (1 .. i) \ {i} = 1 .. (i - 1)
      OBVIOUS
  <2>4. h[1 .. i] = F[s[i]][h[1 .. (i - 1)]]
      BY <1>1, <2>1, <2>2, <2>3 DEF Passes
  <2>5. i \in 0 .. Len(s) /\ i - 1 \in 0 .. Len(s)
      BY <1>0
  <2> QED  BY <2>4, <2>5
<1>4. \A i \in 0 .. Len(s) : acc[i] \in A
  <2> DEFINE G == {n \in Nat : n <= Len(s) => acc[n] \in A}
  <2>1. 0 \in G
      BY <1>2
  <2>2. ASSUME NEW n \in Nat, n \in G
        PROVE  n + 1 \in G
    <3>1. SUFFICES ASSUME n + 1 <= Len(s) PROVE acc[n + 1] \in A
        OBVIOUS
    <3>2. acc[n] \in A /\ n + 1 \in 1 .. Len(s) /\ (n + 1) - 1 = n
        BY <1>0, <2>2, <3>1
    <3> HIDE DEF acc
    <3>3. acc[n + 1] = F[s[n + 1]][acc[n]]
        BY <1>3, <3>2
    <3>4. F[s[n + 1]] \in [A -> A]
        BY <1>0, <3>2
    <3> QED  BY <3>2, <3>3, <3>4
  <2>3. \A n \in Nat : n \in G
    <3> HIDE DEF G
    <3> QED  BY <2>1, <2>2, UpInduction
  <2>4. \A i \in 0 .. Len(s) : i \in Nat /\ i <= Len(s)
      BY <1>0
  <2> HIDE DEF acc
  <2> QED  BY <2>3, <2>4
<1>5. Through(F, a, s) = acc[Len(s)]
    BY <1>0, ThroughIsLast DEF h
<1>6. acc \in [0 .. Len(s) -> A]
    BY <1>4
<1>7. Trace(A, F, a, s, acc)
  <2> HIDE DEF acc
  <2> QED  BY <1>2, <1>3, <1>5, <1>6 DEF Trace
<1> HIDE DEF acc
<1> QED  BY <1>7

LEMMA ThroughIn ==
    ASSUME NEW A, NEW X, NEW F \in [X -> [A -> A]], NEW a \in A, NEW s \in Seq(X)
    PROVE  Through(F, a, s) \in A
<1>1. PICK acc : Trace(A, F, a, s, acc)
    BY ThroughTrace
<1>2. Len(s) \in 0 .. Len(s)
    OBVIOUS
<1> QED  BY <1>1, <1>2 DEF Trace

-----------------------------------------------------------------------------
(* The recursion of the search                                             *)

\* What a visit of u is, for a search V of the nodes beyond.
Visited(next, V, path, u, found) ==
    IF found.cycle \/ u \in ToSet(found.ordered) THEN found
    ELSE IF u \in path THEN [found EXCEPT !.cycle = TRUE]
    ELSE [Through(V[path \cup {u}], found, next[u]) EXCEPT !.ordered = Append(@, u)]

OnPath(next, V, path) ==
    [u \in DOMAIN next |-> [found \in Found(DOMAIN next) |->
        Visited(next, V, path, u, found)]]

LEMMA VisitsChosen ==
    ASSUME NEW next
    PROVE  Visits(next) =
              CHOOSE V : V = [path \in SUBSET DOMAIN next |-> OnPath(next, V, path)]
BY DEF Visits, OnPath, Visited

\* A visit only searches beyond its path.
LEMMA BeyondPath ==
    ASSUME NEW next, NEW path, NEW V, NEW W,
           \A u \in DOMAIN next \ path : V[path \cup {u}] = W[path \cup {u}]
    PROVE  OnPath(next, V, path) = OnPath(next, W, path)
<1>1. ASSUME NEW u \in DOMAIN next, NEW found
      PROVE  Visited(next, V, path, u, found) = Visited(next, W, path, u, found)
  <2>1. CASE u \in path
      BY <2>1 DEF Visited
  <2>2. CASE u \notin path
    <3>1. V[path \cup {u}] = W[path \cup {u}]
        BY <2>2
    <3> QED  BY <3>1 DEF Visited
  <2> QED  BY <2>1, <2>2
<1>2. ASSUME NEW u \in DOMAIN next
      PROVE  [found \in Found(DOMAIN next) |-> Visited(next, V, path, u, found)] =
             [found \in Found(DOMAIN next) |-> Visited(next, W, path, u, found)]
    BY <1>1
<1> QED  BY <1>2 DEF OnPath

\* The nodes that are left beyond a longer path are fewer.
LEMMA FewerBeyond ==
    ASSUME NEW nodes, IsFiniteSet(nodes), NEW path \in SUBSET nodes,
           NEW u \in nodes \ path
    PROVE  /\ path \cup {u} \in SUBSET nodes
           /\ Cardinality(nodes \ path) \in Nat
           /\ Cardinality(nodes \ (path \cup {u})) = Cardinality(nodes \ path) - 1
<1>1. IsFiniteSet(nodes \ path)
    BY FS_Subset
<1>2. nodes \ (path \cup {u}) = (nodes \ path) \ {u}
    OBVIOUS
<1>3. Cardinality((nodes \ path) \ {u}) = Cardinality(nodes \ path) - 1
    BY <1>1, FS_RemoveElement
<1>4. Cardinality(nodes \ path) \in Nat
    BY <1>1, FS_CardinalityType
<1> QED  BY <1>2, <1>3, <1>4

\* The recursion of the search has a solution.
LEMMA VisitsExist ==
    ASSUME NEW next, IsFiniteSet(DOMAIN next)
    PROVE  Visits(next) =
              [path \in SUBSET DOMAIN next |-> OnPath(next, Visits(next), path)]
<1> DEFINE nodes == DOMAIN next
           Size(path) == Cardinality(nodes \ path)
           Solves(V, n) == \A path \in SUBSET nodes :
                              Size(path) < n => V[path] = OnPath(next, V, path)
           G == {n \in Nat : \E V : Solves(V, n)}
<1>0. \A path \in SUBSET nodes : Size(path) \in Nat /\ Size(path) < Cardinality(nodes) + 1
  <2>1. ASSUME NEW path \in SUBSET nodes
        PROVE  /\ Cardinality(nodes \ path) \in Nat
               /\ Cardinality(nodes \ path) <= Cardinality(nodes)
               /\ Cardinality(nodes) \in Nat
    <3>1. nodes \ path \in SUBSET nodes
        OBVIOUS
    <3>2. IsFiniteSet(nodes \ path) /\ Cardinality(nodes \ path) <= Cardinality(nodes)
        BY <3>1, FS_Subset
    <3> QED  BY <3>2, FS_CardinalityType
  <2> QED  BY <2>1
<1>1. 0 \in G
  <2>1. \A path \in SUBSET nodes : ~ (Size(path) < 0)
    <3> HIDE DEF Size
    <3> QED  BY <1>0
  <2>2. Solves({}, 0)
    <3> HIDE DEF Size
    <3> QED  BY <2>1
  <2> HIDE DEF Solves
  <2> QED  BY <2>2
<1>2. ASSUME NEW n \in Nat, n \in G
      PROVE  n + 1 \in G
  <2>1. PICK V : Solves(V, n)
    <3> HIDE DEF Solves
    <3> QED  BY <1>2
  <2> DEFINE W == [path \in SUBSET nodes |-> OnPath(next, V, path)]
  <2>2. ASSUME NEW path \in SUBSET nodes, Size(path) < n
        PROVE  W[path] = V[path]
      BY <2>1, <2>2
  <2>3. ASSUME NEW path \in SUBSET nodes, Size(path) < n + 1
        PROVE  W[path] = OnPath(next, W, path)
    <3>1. ASSUME NEW u \in nodes \ path
          PROVE  V[path \cup {u}] = W[path \cup {u}]
      <4>1. path \cup {u} \in SUBSET nodes /\ Size(path \cup {u}) < n
        <5>1. /\ path \cup {u} \in SUBSET nodes
              /\ Cardinality(nodes \ path) \in Nat
              /\ Cardinality(nodes \ (path \cup {u})) = Cardinality(nodes \ path) - 1
            BY FewerBeyond
        <5> QED  BY <5>1, <2>3
      <4> HIDE DEF W, Size
      <4> QED  BY <4>1, <2>2
    <3>2. W[path] = OnPath(next, V, path)
        OBVIOUS
    <3> HIDE DEF W
    <3>3. OnPath(next, V, path) = OnPath(next, W, path)
        BY <3>1, BeyondPath
    <3> QED  BY <3>2, <3>3
  <2>4. Solves(W, n + 1)
    <3> HIDE DEF W, Size
    <3> QED  BY <2>3
  <2> HIDE DEF W, Solves
  <2> QED  BY <2>4
<1>3. \A n \in Nat : n \in G
  <2> HIDE DEF G
  <2> QED  BY <1>1, <1>2, UpInduction
<1>4. PICK V : \A path \in SUBSET nodes : V[path] = OnPath(next, V, path)
  <2>1. Cardinality(nodes) + 1 \in G
    <3> HIDE DEF G
    <3> QED  BY <1>3, FS_CardinalityType
  <2>2. PICK V : Solves(V, Cardinality(nodes) + 1)
    <3> HIDE DEF Solves
    <3> QED  BY <2>1
  <2> HIDE DEF Size
  <2> QED  BY <1>0, <2>2
<1> DEFINE W == [path \in SUBSET nodes |-> V[path]]
<1>5. ASSUME NEW path \in SUBSET nodes
      PROVE  W[path] = OnPath(next, W, path)
  <2>1. \A u \in nodes \ path : V[path \cup {u}] = W[path \cup {u}]
      OBVIOUS
  <2>2. OnPath(next, V, path) = OnPath(next, W, path)
    <3> HIDE DEF W
    <3> QED  BY <2>1, BeyondPath
  <2>3. W[path] = V[path]
      OBVIOUS
  <2> HIDE DEF W
  <2> QED  BY <1>4, <2>2, <2>3
<1>6. W = [path \in SUBSET nodes |-> OnPath(next, W, path)]
  <2>1. W = [path \in SUBSET nodes |-> W[path]]
      OBVIOUS
  <2> HIDE DEF W
  <2> QED  BY <1>5, <2>1
<1>7. \E X : X = [path \in SUBSET DOMAIN next |-> OnPath(next, X, path)]
  <2> HIDE DEF W
  <2> QED  BY <1>6
<1> DEFINE Solution(X) == X = [path \in SUBSET DOMAIN next |-> OnPath(next, X, path)]
           C == CHOOSE X : Solution(X)
<1>8. Solution(C)
  <2>1. \E X : Solution(X)
      BY <1>7
  <2> HIDE DEF Solution
  <2> QED  BY <2>1
<1>9. Visits(next) = C
    BY VisitsChosen
<1> HIDE DEF C
<1> QED  BY <1>8, <1>9

-----------------------------------------------------------------------------
(* What a search finds                                                     *)

\* Each node is left once, after all that it leads to.
Leaves(next, order) ==
    /\ \A i, j \in DOMAIN order : order[i] = order[j] => i = j
    /\ \A i \in DOMAIN order :
        \A d \in ToSet(next[order[i]]) : \E j \in 1 .. i - 1 : order[j] = d

\* Edges lead down.
Ranks(next, rank) ==
    \A v \in DOMAIN next : \A d \in ToSet(next[v]) : rank[d] < rank[v]

\* What the search of the nodes us, come along path, makes of f: unless it meets
\* a cycle, it leaves them all, and nothing of the path; and where edges lead
\* down and the path came from above, it meets none.
Does(next, path, us, f, r) ==
    /\ ~ r.cycle =>
        /\ ~ f.cycle
        /\ Leaves(next, f.ordered) => Leaves(next, r.ordered)
        /\ ToSet(f.ordered) \cup us \subseteq ToSet(r.ordered)
        /\ path \cap ToSet(r.ordered) \subseteq ToSet(f.ordered)
    /\ \A rank \in [DOMAIN next -> Nat] :
        /\ Ranks(next, rank)
        /\ ~ f.cycle
        /\ \A u \in us, v \in path : rank[u] < rank[v]
        => ~ r.cycle

LEMMA DoesNothing ==
    ASSUME NEW next, NEW path, NEW f
    PROVE  Does(next, path, {}, f, f)
BY DEF Does

LEMMA DoesBoth ==
    ASSUME NEW next, NEW path, NEW A, NEW B, NEW f, NEW g, NEW r,
           Does(next, path, A, f, g), Does(next, path, B, g, r)
    PROVE  Does(next, path, A \cup B, f, r)
<1>1. ASSUME ~ r.cycle
      PROVE  /\ ~ f.cycle
             /\ Leaves(next, f.ordered) => Leaves(next, r.ordered)
             /\ ToSet(f.ordered) \cup (A \cup B) \subseteq ToSet(r.ordered)
             /\ path \cap ToSet(r.ordered) \subseteq ToSet(f.ordered)
    BY <1>1 DEF Does
<1>2. ASSUME NEW rank \in [DOMAIN next -> Nat], Ranks(next, rank), ~ f.cycle,
             \A u \in A \cup B, v \in path : rank[u] < rank[v]
      PROVE  ~ r.cycle
  <2>1. ~ g.cycle
      BY <1>2 DEF Does
  <2> QED  BY <1>2, <2>1 DEF Does
<1> QED  BY <1>1, <1>2 DEF Does

\* Node after node, a pass does what the visits do.
LEMMA PassDoes ==
    ASSUME NEW nodes, NEW next \in [nodes -> Seq(nodes)], NEW path,
           NEW S \in [nodes -> [Found(nodes) -> Found(nodes)]],
           \A u \in nodes, f \in Found(nodes) : Does(next, path, {u}, f, S[u][f]),
           NEW f \in Found(nodes), NEW s \in Seq(nodes)
    PROVE  Does(next, path, ToSet(s), f, Through(S, f, s))
<1>0. PICK acc : Trace(Found(nodes), S, f, s, acc)
    BY ThroughTrace
<1>1. /\ acc \in [0 .. Len(s) -> Found(nodes)]
      /\ acc[0] = f
      /\ \A i \in 1 .. Len(s) : acc[i] = S[s[i]][acc[i - 1]]
      /\ Through(S, f, s) = acc[Len(s)]
    BY <1>0 DEF Trace
<1>2. Len(s) \in Nat /\ DOMAIN s = 1 .. Len(s) /\ \A i \in 1 .. Len(s) : s[i] \in nodes
    OBVIOUS
<1> DEFINE First(n) == {s[i] : i \in 1 .. n}
           G == {n \in Nat : n <= Len(s) => Does(next, path, First(n), f, acc[n])}
<1>3. 0 \in G
  <2>1. First(0) = {}
      OBVIOUS
  <2>2. Does(next, path, First(0), f, acc[0])
    <3> HIDE DEF First
    <3> QED  BY <1>1, <2>1, DoesNothing
  <2> HIDE DEF First
  <2> QED  BY <2>2
<1>4. ASSUME NEW n \in Nat, n \in G
      PROVE  n + 1 \in G
  <2>1. SUFFICES ASSUME n + 1 <= Len(s)
                 PROVE  Does(next, path, First(n + 1), f, acc[n + 1])
    <3> HIDE DEF First
    <3> QED  OBVIOUS
  <2>2. Does(next, path, First(n), f, acc[n])
    <3>1. n <= Len(s)
        BY <1>2, <2>1
    <3> HIDE DEF First
    <3> QED  BY <1>4, <3>1
  <2>3. n + 1 \in 1 .. Len(s) /\ (n + 1) - 1 = n /\ n \in 0 .. Len(s)
      BY <1>2, <2>1
  <2>4. acc[n + 1] = S[s[n + 1]][acc[n]]
      BY <1>1, <2>3
  <2>5. s[n + 1] \in nodes /\ acc[n] \in Found(nodes)
      BY <1>1, <1>2, <2>3
  <2>6. Does(next, path, {s[n + 1]}, acc[n], acc[n + 1])
      BY <2>4, <2>5
  <2>7. First(n + 1) = First(n) \cup {s[n + 1]}
    <3>1. \A i : i \in 1 .. (n + 1) <=> i \in 1 .. n \/ i = n + 1
        OBVIOUS
    <3> QED  BY <3>1
  <2> HIDE DEF First
  <2> QED  BY <2>2, <2>6, <2>7, DoesBoth
<1>5. \A n \in Nat : n \in G
  <2> HIDE DEF G
  <2> QED  BY <1>3, <1>4, UpInduction
<1>6. Does(next, path, First(Len(s)), f, acc[Len(s)])
  <2>1. Len(s) \in G
    <3> HIDE DEF G
    <3> QED  BY <1>2, <1>5
  <2> HIDE DEF First
  <2> QED  BY <1>2, <2>1
<1>7. First(Len(s)) = ToSet(s)
    BY <1>2 DEF ToSet
<1> HIDE DEF First
<1> QED  BY <1>1, <1>6, <1>7

LEMMA Appended ==
    ASSUME NEW X, NEW s \in Seq(X), NEW x \in X
    PROVE  /\ Append(s, x) \in Seq(X)
           /\ Len(Append(s, x)) = Len(s) + 1
           /\ \A i \in 1 .. Len(s) : Append(s, x)[i] = s[i]
           /\ Append(s, x)[Len(s) + 1] = x
           /\ ToSet(Append(s, x)) = ToSet(s) \cup {x}
<1>1. /\ Append(s, x) \in Seq(X)
      /\ Len(Append(s, x)) = Len(s) + 1
      /\ \A i \in 1 .. Len(s) : Append(s, x)[i] = s[i]
      /\ Append(s, x)[Len(s) + 1] = x
      /\ DOMAIN Append(s, x) = 1 .. (Len(s) + 1)
      /\ DOMAIN s = 1 .. Len(s) /\ Len(s) \in Nat
    OBVIOUS
<1>2. ASSUME NEW y
      PROVE  y \in ToSet(Append(s, x)) <=> y \in ToSet(s) \cup {x}
  <2>1. ASSUME y \in ToSet(Append(s, x)) PROVE y \in ToSet(s) \cup {x}
    <3>1. PICK i \in 1 .. (Len(s) + 1) : Append(s, x)[i] = y
        BY <1>1, <2>1 DEF ToSet
    <3>2. i \in 1 .. Len(s) \/ i = Len(s) + 1
        BY <1>1
    <3> QED  BY <1>1, <3>1, <3>2 DEF ToSet
  <2>2. ASSUME y \in ToSet(s) PROVE y \in ToSet(Append(s, x))
    <3>1. PICK i \in 1 .. Len(s) : s[i] = y
        BY <1>1, <2>2 DEF ToSet
    <3>2. i \in 1 .. (Len(s) + 1)
        BY <1>1
    <3> QED  BY <1>1, <3>1, <3>2 DEF ToSet
  <2>3. ASSUME y = x PROVE y \in ToSet(Append(s, x))
    <3>1. Len(s) + 1 \in 1 .. (Len(s) + 1)
        BY <1>1
    <3> QED  BY <1>1, <2>3, <3>1 DEF ToSet
  <2> QED  BY <2>1, <2>2, <2>3
<1> QED  BY <1>1, <1>2

\* A node that is left last, after all it leads to.
LEMMA LeavesLast ==
    ASSUME NEW nodes, NEW next, NEW order \in Seq(nodes), NEW u \in nodes,
           Leaves(next, order), u \notin ToSet(order), ToSet(next[u]) \subseteq ToSet(order)
    PROVE  Leaves(next, Append(order, u))
<1> DEFINE new == Append(order, u)
           n == Len(order)
<1>1. /\ \A i \in 1 .. n : new[i] = order[i] /\ new[i] \in ToSet(order)
      /\ new[n + 1] = u
      /\ DOMAIN new = 1 .. (n + 1) /\ DOMAIN order = 1 .. n /\ n \in Nat
    BY Appended DEF ToSet
<1> HIDE DEF new, n
<1>2. ASSUME NEW i \in DOMAIN new, NEW j \in DOMAIN new, new[i] = new[j]
      PROVE  i = j
  <2>1. (i \in 1 .. n \/ i = n + 1) /\ (j \in 1 .. n \/ j = n + 1)
      BY <1>1
  <2> QED  BY <1>1, <1>2, <2>1 DEF Leaves
<1>3. ASSUME NEW i \in DOMAIN new, NEW d \in ToSet(next[new[i]])
      PROVE  \E j \in 1 .. i - 1 : new[j] = d
  <2>1. CASE i \in 1 .. n
    <3>1. PICK j \in 1 .. i - 1 : order[j] = d
        BY <1>1, <1>3, <2>1 DEF Leaves
    <3>2. j \in 1 .. n
        BY <1>1, <2>1
    <3> QED  BY <1>1, <3>1, <3>2
  <2>2. CASE i = n + 1
    <3>1. d \in ToSet(order)
        BY <1>1, <1>3, <2>2
    <3>2. PICK j \in 1 .. n : order[j] = d
        BY <1>1, <3>1 DEF ToSet
    <3>3. j \in 1 .. i - 1
        BY <1>1, <2>2
    <3> QED  BY <1>1, <3>2, <3>3
  <2> QED  BY <1>1, <2>1, <2>2
<1>4. Leaves(next, new)
    BY <1>2, <1>3 DEF Leaves
<1> QED  BY <1>4 DEF new

\* What a visit does, if the visits beyond do it.
LEMMA VisitedDoes ==
    ASSUME NEW nodes, NEW next \in [nodes -> Seq(nodes)],
           NEW path \in SUBSET nodes, NEW V, NEW u \in nodes, NEW f \in Found(nodes),
           u \notin path =>
                /\ V[path \cup {u}] \in [nodes -> [Found(nodes) -> Found(nodes)]]
                /\ \A v \in nodes, g \in Found(nodes) :
                        Does(next, path \cup {u}, {v}, g, V[path \cup {u}][v][g])
    PROVE  /\ Visited(next, V, path, u, f) \in Found(nodes)
           /\ Does(next, path, {u}, f, Visited(next, V, path, u, f))
<1> DEFINE r == Visited(next, V, path, u, f)
<1>0. f = [cycle |-> f.cycle, ordered |-> f.ordered] /\ f.cycle \in BOOLEAN
        /\ f.ordered \in Seq(nodes)
    BY DEF Found
<1>1. CASE f.cycle \/ u \in ToSet(f.ordered)
  <2>1. r = f
      BY <1>1 DEF Visited
  <2>2. Does(next, path, {u}, f, f)
      BY <1>1 DEF Does
  <2> HIDE DEF r
  <2> QED  BY <2>1, <2>2 DEF r
<1>2. CASE ~ (f.cycle \/ u \in ToSet(f.ordered)) /\ u \in path
  <2>1. r = [f EXCEPT !.cycle = TRUE]
      BY <1>2 DEF Visited
  <2>2. r.cycle /\ r \in Found(nodes)
      BY <2>1, <1>0 DEF Found
  <2>3. ASSUME NEW rank \in [DOMAIN next -> Nat], \A w \in {u}, v \in path : rank[w] < rank[v]
        PROVE  FALSE
    <3>1. rank[u] < rank[u] /\ rank[u] \in Nat
        BY <1>2, <2>3
    <3> QED  BY <3>1
  <2>4. Does(next, path, {u}, f, r)
    <3> HIDE DEF r
    <3> QED  BY <2>2, <2>3 DEF Does
  <2> HIDE DEF r
  <2> QED  BY <2>2, <2>4 DEF r
<1>3. CASE ~ (f.cycle \/ u \in ToSet(f.ordered)) /\ u \notin path
  <2> DEFINE S == V[path \cup {u}]
             below == Through(S, f, next[u])
  <2>1. r = [below EXCEPT !.ordered = Append(@, u)]
      BY <1>3 DEF Visited
  <2>2. next[u] \in Seq(nodes)
      OBVIOUS
  <2>3. below \in Found(nodes)
    <3>1. S \in [nodes -> [Found(nodes) -> Found(nodes)]]
        BY <1>3
    <3> HIDE DEF S
    <3> QED  BY <2>2, <3>1, ThroughIn
  <2>4. Does(next, path \cup {u}, ToSet(next[u]), f, below)
    <3>1. S \in [nodes -> [Found(nodes) -> Found(nodes)]]
        BY <1>3
    <3>2. \A v \in nodes, g \in Found(nodes) : Does(next, path \cup {u}, {v}, g, S[v][g])
        BY <1>3
    <3> HIDE DEF S
    <3> QED  BY <2>2, <3>1, <3>2, PassDoes
  <2> HIDE DEF S, below, r
  <2>5. /\ below.cycle \in BOOLEAN /\ below.ordered \in Seq(nodes)
        /\ r.cycle = below.cycle /\ r.ordered = Append(below.ordered, u)
        /\ r \in Found(nodes)
      BY <2>1, <2>3, Appended DEF Found
  <2>6. ToSet(r.ordered) = ToSet(below.ordered) \cup {u}
      BY <2>5, Appended
  <2>7. ASSUME ~ r.cycle
        PROVE  /\ ~ f.cycle
               /\ Leaves(next, f.ordered) => Leaves(next, r.ordered)
               /\ ToSet(f.ordered) \cup {u} \subseteq ToSet(r.ordered)
               /\ path \cap ToSet(r.ordered) \subseteq ToSet(f.ordered)
    <3>1. /\ Leaves(next, f.ordered) => Leaves(next, below.ordered)
          /\ ToSet(f.ordered) \cup ToSet(next[u]) \subseteq ToSet(below.ordered)
          /\ (path \cup {u}) \cap ToSet(below.ordered) \subseteq ToSet(f.ordered)
        BY <2>4, <2>5, <2>7 DEF Does
    <3>2. u \notin ToSet(below.ordered)
        BY <1>3, <3>1
    <3>3. Leaves(next, f.ordered) => Leaves(next, r.ordered)
        BY <2>5, <3>1, <3>2, LeavesLast
    <3> QED  BY <1>3, <2>6, <3>1, <3>3
  <2>8. ASSUME NEW rank \in [DOMAIN next -> Nat], Ranks(next, rank), ~ f.cycle,
               \A w \in {u}, v \in path : rank[w] < rank[v]
        PROVE  ~ r.cycle
    <3>1. ASSUME NEW d \in ToSet(next[u]), NEW v \in path \cup {u}
          PROVE  rank[d] < rank[v]
      <4>0. d \in nodes
          BY <2>2 DEF ToSet
      <4>1. rank[d] \in Nat /\ rank[u] \in Nat /\ rank[v] \in Nat
          BY <4>0
      <4>2. rank[d] < rank[u]
          BY <2>8 DEF Ranks
      <4>3. v = u \/ rank[u] < rank[v]
          BY <2>8
      <4> QED  BY <4>1, <4>2, <4>3
    <3>2. ~ below.cycle
        BY <2>4, <2>8, <3>1 DEF Does
    <3> QED  BY <2>5, <3>2
  <2>9. Does(next, path, {u}, f, r)
      BY <2>7, <2>8 DEF Does
  <2> QED  BY <2>5, <2>9 DEF r
<1> QED  BY <1>1, <1>2, <1>3

LEMMA VisitDoes ==
    ASSUME NEW nodes, IsFiniteSet(nodes), NEW next \in [nodes -> Seq(nodes)]
    PROVE  \A path \in SUBSET nodes :
              /\ Visits(next)[path] \in [nodes -> [Found(nodes) -> Found(nodes)]]
              /\ \A u \in nodes, f \in Found(nodes) :
                    Does(next, path, {u}, f, Visits(next)[path][u][f])
<1> DEFINE V == Visits(next)
           Size(path) == Cardinality(nodes \ path)
           Good(path) == /\ V[path] \in [nodes -> [Found(nodes) -> Found(nodes)]]
                         /\ \A u \in nodes, f \in Found(nodes) :
                                Does(next, path, {u}, f, V[path][u][f])
           G == {n \in Nat : \A path \in SUBSET nodes : Size(path) < n => Good(path)}
<1>0. ASSUME NEW path \in SUBSET nodes
      PROVE  /\ Size(path) \in Nat
             /\ \A u \in nodes \ path :
                    path \cup {u} \in SUBSET nodes /\ Size(path \cup {u}) = Size(path) - 1
  <2>1. IsFiniteSet(nodes \ path)
      BY FS_Subset
  <2>2. Size(path) \in Nat
      BY <2>1, FS_CardinalityType
  <2> QED  BY <2>2, FewerBeyond
<1>1. ASSUME NEW path \in SUBSET nodes, NEW u \in nodes
      PROVE  /\ V[path] = [v \in nodes |-> [f \in Found(nodes) |->
                                Visited(next, V, path, v, f)]]
             /\ \A f \in Found(nodes) : V[path][u][f] = Visited(next, V, path, u, f)
  <2>1. V = [p \in SUBSET nodes |-> OnPath(next, V, p)]
      BY VisitsExist
  <2> HIDE DEF V
  <2>2. V[path] = OnPath(next, V, path)
      BY <2>1
  <2>3. V[path] = [v \in nodes |-> [f \in Found(nodes) |-> Visited(next, V, path, v, f)]]
      BY <2>2 DEF OnPath
  <2> QED  BY <2>3
<1> HIDE DEF V
<1>2. 0 \in G
  <2>1. \A path \in SUBSET nodes : ~ (Size(path) < 0)
    <3> HIDE DEF Size
    <3> QED  BY <1>0
  <2> HIDE DEF Size, Good
  <2> QED  BY <2>1
<1>3. ASSUME NEW n \in Nat, n \in G
      PROVE  n + 1 \in G
  <2>1. ASSUME NEW path \in SUBSET nodes, Size(path) < n + 1
        PROVE  Good(path)
    <3>1. ASSUME NEW u \in nodes \ path
          PROVE  Good(path \cup {u})
      <4>1. path \cup {u} \in SUBSET nodes /\ Size(path \cup {u}) < n
        <5> HIDE DEF Size
        <5> QED  BY <1>0, <2>1
      <4> HIDE DEF Good, Size
      <4> QED  BY <1>3, <4>1
    <3>2. ASSUME NEW u \in nodes, NEW f \in Found(nodes)
          PROVE  /\ Visited(next, V, path, u, f) \in Found(nodes)
                 /\ Does(next, path, {u}, f, Visited(next, V, path, u, f))
      <4>1. u \notin path =>
                /\ V[path \cup {u}] \in [nodes -> [Found(nodes) -> Found(nodes)]]
                /\ \A v \in nodes, g \in Found(nodes) :
                        Does(next, path \cup {u}, {v}, g, V[path \cup {u}][v][g])
          BY <3>1
      <4> QED  BY <4>1, VisitedDoes
    <3>3. \A u \in nodes, f \in Found(nodes) : Does(next, path, {u}, f, V[path][u][f])
        BY <1>1, <3>2
    <3>4. V[path] \in [nodes -> [Found(nodes) -> Found(nodes)]]
      <4>1. CASE nodes = {}
        <5>1. Visits(next) = [p \in SUBSET nodes |-> OnPath(next, Visits(next), p)]
            BY VisitsExist
        <5>2. V[path] = OnPath(next, V, path)
            BY <5>1 DEF V
        <5> QED  BY <4>1, <5>2 DEF OnPath
      <4>2. CASE nodes # {}
        <5>1. V[path] = [v \in nodes |-> [f \in Found(nodes) |-> Visited(next, V, path, v, f)]]
            BY <1>1, <4>2
        <5>2. \A v \in nodes : [f \in Found(nodes) |-> Visited(next, V, path, v, f)]
                                    \in [Found(nodes) -> Found(nodes)]
            BY <3>2
        <5> QED  BY <5>1, <5>2
      <4> QED  BY <4>1, <4>2
    <3> QED  BY <3>3, <3>4
  <2> HIDE DEF Good, Size
  <2> QED  BY <2>1
<1>4. \A n \in Nat : n \in G
  <2> HIDE DEF G
  <2> QED  BY <1>2, <1>3, UpInduction
<1>5. ASSUME NEW path \in SUBSET nodes
      PROVE  Good(path)
  <2> HIDE DEF Good, Size
  <2>1. Size(path) + 1 \in G /\ Size(path) < Size(path) + 1
      BY <1>0, <1>4
  <2> QED  BY <2>1
<1> QED  BY <1>5 DEF V

\* A search of all nodes finds no cycle exactly if edges lead down, and then
\* leaves each node once, after all that it leads to.
LEMMA SearchDoes ==
    ASSUME NEW nodes, IsFiniteSet(nodes), NEW next \in [nodes -> Seq(nodes)],
           NEW roots \in Seq(nodes)
    PROVE  LET r == DepthFirst(next, roots)
           IN  /\ r \in Found(nodes)
               /\ ~ r.cycle => Leaves(next, r.ordered) /\ ToSet(roots) \subseteq ToSet(r.ordered)
               /\ (\E rank \in [nodes -> Nat] : Ranks(next, rank)) => ~ r.cycle
<1> DEFINE S == Visits(next)[{}]
           none == [cycle |-> FALSE, ordered |-> <<>>]
           r == Through(S, none, roots)
<1>1. r = DepthFirst(next, roots)
    BY DEF DepthFirst
<1>2. /\ S \in [nodes -> [Found(nodes) -> Found(nodes)]]
      /\ \A u \in nodes, f \in Found(nodes) : Does(next, {}, {u}, f, S[u][f])
    BY VisitDoes
<1>3. none \in Found(nodes)
    BY DEF Found
<1>4. ~ none.cycle /\ Leaves(next, none.ordered)
    BY DEF Leaves
<1> HIDE DEF S, none
<1>5. r \in Found(nodes) /\ Does(next, {}, ToSet(roots), none, r)
    BY <1>2, <1>3, ThroughIn, PassDoes
<1> HIDE DEF r
<1>6. ~ r.cycle => Leaves(next, r.ordered) /\ ToSet(roots) \subseteq ToSet(r.ordered)
    BY <1>4, <1>5 DEF Does
<1>7. ASSUME NEW rank \in [nodes -> Nat], Ranks(next, rank)
      PROVE  ~ r.cycle
    BY <1>4, <1>5, <1>7 DEF Does
<1> QED  BY <1>1, <1>5, <1>6, <1>7

-----------------------------------------------------------------------------
(* Sequences of sets                                                       *)

LEMMA SeqOfPart ==
    ASSUME NEW X, NEW Y, NEW s \in Seq(X), ToSet(s) \subseteq Y
    PROVE  s \in Seq(Y)
<1>1. s \in [1 .. Len(s) -> Y] /\ Len(s) \in Nat
    BY DEF ToSet
<1> QED  BY <1>1

LEMMA SetAsSeq ==
    ASSUME NEW S, IsFiniteSet(S)
    PROVE  SetToSeq(S) \in Seq(S) /\ ToSet(SetToSeq(S)) = S
<1> DEFINE n == Cardinality(S)
           f == SetToSeq(S)
<1>1. n \in Nat /\ ExistsBijection(1 .. n, S)
    BY FS_CardinalityType
<1>2. PICK g \in Bijection(1 .. n, S) : TRUE
    BY <1>1 DEF ExistsBijection
<1>3. g \in [1 .. n -> S] /\ IsInjective(g)
    BY <1>2 DEF Bijection, Injection, IsInjective
<1>4. f \in [1 .. n -> S] /\ IsInjective(f)
    BY <1>3 DEF SetToSeq
<1> HIDE DEF f
<1>5. f \in Injection(1 .. n, S)
    BY <1>4 DEF Injection, IsInjective
<1>6. IsFiniteSet(1 .. n) /\ Cardinality(1 .. n) = n
    BY <1>1, FS_Interval
<1>7. f \in Surjection(1 .. n, S)
    BY <1>5, <1>6, FS_Injection
<1>8. ToSet(f) = S
    BY <1>4, <1>7 DEF ToSet, Surjection
<1>9. f \in Seq(S)
    BY <1>1, <1>4
<1> QED  BY <1>8, <1>9 DEF f

-----------------------------------------------------------------------------
(* The graph of a plan                                                     *)

LEMMA StepOfId ==
    ASSUME NEW steps, NEW id \in IdsOf(steps)
    PROVE  \E i \in DOMAIN steps : StepOf(steps, id) = steps[i] /\ steps[i].id = id
BY DEF IdsOf, StepOf

LEMMA IdsFinite ==
    ASSUME NEW X, NEW steps \in Seq(X)
    PROVE  /\ IsFiniteSet(IdsOf(steps))
           /\ UniqueIds(steps) =>
                \A i, j \in DOMAIN steps : steps[i].id = steps[j].id => i = j
<1> DEFINE f == [i \in DOMAIN steps |-> steps[i].id]
           n == Len(steps)
<1>1. DOMAIN steps = 1 .. n /\ n \in Nat
    OBVIOUS
<1>2. f \in Surjection(1 .. n, IdsOf(steps))
    BY <1>1 DEF Surjection, IdsOf
<1>3. IsFiniteSet(1 .. n) /\ Cardinality(1 .. n) = n
    BY <1>1, FS_Interval
<1> HIDE DEF f
<1>4. /\ IsFiniteSet(IdsOf(steps))
      /\ Cardinality(IdsOf(steps)) = Cardinality(1 .. n) <=> f \in Injection(1 .. n, IdsOf(steps))
    BY <1>2, <1>3, FS_Surjection
<1>5. UniqueIds(steps) => f \in Injection(1 .. n, IdsOf(steps))
    BY <1>3, <1>4 DEF UniqueIds
<1> QED  BY <1>1, <1>4, <1>5 DEF Injection, IsInjective, f

\* The dependencies of a plan, as edges between its steps.
LEMMA DepsAreEdges ==
    ASSUME NEW steps \in Seq(PlanSteps), KnownDeps(steps)
    PROVE  [u \in IdsOf(steps) |-> DepsOf(steps, u)] \in [IdsOf(steps) -> Seq(IdsOf(steps))]
<1>1. ASSUME NEW u \in IdsOf(steps)
      PROVE  DepsOf(steps, u) \in Seq(IdsOf(steps))
  <2>1. PICK i \in DOMAIN steps : StepOf(steps, u) = steps[i]
      BY StepOfId
  <2>2. steps[i] \in PlanSteps
      OBVIOUS
  <2>3. steps[i].deps \in Seq(STRING)
      BY <2>2 DEF PlanSteps
  <2>4. ToSet(steps[i].deps) \subseteq IdsOf(steps)
      BY DEF KnownDeps
  <2> QED  BY <2>1, <2>3, <2>4, SeqOfPart DEF DepsOf
<1> QED  BY <1>1

\* A linear order of all steps is one of SetToSeqs.
LEMMA OrderOfAll ==
    ASSUME NEW S, IsFiniteSet(S), NEW order \in Seq(S), ToSet(order) = S,
           \A i, j \in DOMAIN order : order[i] = order[j] => i = j
    PROVE  order \in SetToSeqs(S)
<1> DEFINE n == Len(order)
<1>1. n \in Nat /\ DOMAIN order = 1 .. n /\ order \in [1 .. n -> S]
    OBVIOUS
<1>2. order \in Surjection(1 .. n, S) /\ order \in Injection(1 .. n, S)
    BY <1>1 DEF Surjection, Injection, IsInjective, ToSet
<1>3. IsFiniteSet(1 .. n) /\ Cardinality(1 .. n) = n
    BY <1>1, FS_Interval
<1>4. Cardinality(S) = n
    BY <1>2, <1>3, FS_Surjection
<1> QED  BY <1>1, <1>4 DEF SetToSeqs

\* An order with dependencies first ranks the steps.
LEMMA OrderRanks ==
    ASSUME NEW steps \in Seq(PlanSteps), KnownDeps(steps),
           NEW order \in SetToSeqs(IdsOf(steps)), Topological(steps, order)
    PROVE  \E rank \in [IdsOf(steps) -> 1 .. Cardinality(IdsOf(steps))] :
              \A v \in IdsOf(steps) : \A d \in ToSet(DepsOf(steps, v)) :
                  d \in IdsOf(steps) /\ rank[d] < rank[v]
<1> DEFINE S == IdsOf(steps)
           n == Cardinality(S)
<1>1. IsFiniteSet(S) /\ n \in Nat
    BY IdsFinite, FS_CardinalityType
<1>2. order \in [1 .. n -> S] /\ \A i, j \in 1 .. n : i # j => order[i] # order[j]
    BY DEF SetToSeqs
<1>3. \A u \in S : \E i \in 1 .. n : order[i] = u
  <2>1. order \in Injection(1 .. n, S)
      BY <1>2 DEF Injection, IsInjective
  <2>2. IsFiniteSet(1 .. n) /\ Cardinality(1 .. n) = n
      BY <1>1, FS_Interval
  <2>3. order \in Surjection(1 .. n, S)
      BY <1>1, <2>1, <2>2, FS_Injection
  <2> QED  BY <2>3 DEF Surjection
<1> HIDE DEF S, n
<1> DEFINE rank == [u \in S |-> CHOOSE i \in 1 .. n : order[i] = u]
<1>4. \A u \in S : rank[u] \in 1 .. n /\ order[rank[u]] = u
    BY <1>3
<1>5. rank \in [S -> 1 .. n]
    BY <1>4
<1> HIDE DEF rank
<1>6. ASSUME NEW v \in S, NEW d \in ToSet(DepsOf(steps, v))
      PROVE  d \in S /\ rank[d] < rank[v]
  <2>1. rank[v] \in DOMAIN order /\ order[rank[v]] = v
      BY <1>2, <1>4
  <2>2. d \in {order[j] : j \in 1 .. rank[v] - 1}
      BY <2>1 DEF Topological
  <2>3. PICK j \in 1 .. rank[v] - 1 : order[j] = d
      BY <2>2
  <2>4. j \in 1 .. n /\ rank[v] \in 1 .. n
      BY <1>1, <1>4
  <2>5. d \in S
      BY <1>2, <2>3, <2>4
  <2>6. rank[d] \in 1 .. n /\ order[rank[d]] = d
      BY <1>4, <2>5
  <2>7. rank[d] = j
      BY <1>2, <2>3, <2>4, <2>6
  <2> QED  BY <2>4, <2>5, <2>7
<1> QED  BY <1>5, <1>6 DEF S, n

\* order_steps finds an order with dependencies first, if there is one.
LEMMA OrderFinds ==
    ASSUME NEW steps \in Seq(PlanSteps), KnownDeps(steps)
    PROVE  /\ Order(steps) \in Found(IdsOf(steps))
           /\ ~ Order(steps).cycle =>
                LET order == Order(steps).ordered
                IN  /\ Topological(steps, order)
                    /\ ToSet(order) = IdsOf(steps)
                    /\ \A i, j \in DOMAIN order : order[i] = order[j] => i = j
                    /\ order \in SetToSeqs(IdsOf(steps))
           /\ Order(steps).cycle =>
                ~ \E order \in SetToSeqs(IdsOf(steps)) : Topological(steps, order)
<1> DEFINE S == IdsOf(steps)
           next == [u \in S |-> DepsOf(steps, u)]
           roots == [i \in DOMAIN steps |-> steps[i].id]
           r == DepthFirst(next, roots)
<1>1. r = Order(steps)
    BY DEF Order
<1>2. IsFiniteSet(S) /\ next \in [S -> Seq(S)]
    BY IdsFinite, DepsAreEdges
<1>3. roots \in Seq(S) /\ ToSet(roots) = S
  <2>1. \A i \in DOMAIN steps : steps[i].id \in S
      BY DEF IdsOf
  <2>2. DOMAIN steps = 1 .. Len(steps) /\ Len(steps) \in Nat
      OBVIOUS
  <2>3. roots \in Seq(S)
      BY <2>1, <2>2
  <2>4. ToSet(roots) = S
      BY DEF ToSet, IdsOf
  <2> QED  BY <2>3, <2>4
<1>4. \A u \in S : next[u] = DepsOf(steps, u)
    OBVIOUS
<1> HIDE DEF S, next, roots, r
<1>5. /\ r \in Found(S)
      /\ ~ r.cycle => Leaves(next, r.ordered) /\ ToSet(roots) \subseteq ToSet(r.ordered)
      /\ (\E rank \in [S -> Nat] : Ranks(next, rank)) => ~ r.cycle
    BY <1>2, <1>3, SearchDoes DEF r
<1>6. r.ordered \in Seq(S)
    BY <1>5 DEF Found
<1>7. ASSUME ~ r.cycle
      PROVE  /\ Topological(steps, r.ordered)
             /\ ToSet(r.ordered) = S
             /\ \A i, j \in DOMAIN r.ordered : r.ordered[i] = r.ordered[j] => i = j
             /\ r.ordered \in SetToSeqs(S)
  <2>1. Leaves(next, r.ordered)
      BY <1>5, <1>7
  <2>2. ToSet(r.ordered) = S
    <3>1. \A i \in DOMAIN r.ordered : r.ordered[i] \in S
        BY <1>6
    <3>2. ToSet(r.ordered) \subseteq S
        BY <3>1 DEF ToSet
    <3> QED  BY <1>3, <1>5, <1>7, <3>2
  <2>3. \A i, j \in DOMAIN r.ordered : r.ordered[i] = r.ordered[j] => i = j
      BY <2>1 DEF Leaves
  <2>4. ASSUME NEW i \in DOMAIN r.ordered
        PROVE  ToSet(DepsOf(steps, r.ordered[i])) \subseteq {r.ordered[j] : j \in 1 .. i - 1}
    <3>1. next[r.ordered[i]] = DepsOf(steps, r.ordered[i])
        BY <1>4, <1>6
    <3>2. \A d \in ToSet(next[r.ordered[i]]) : \E j \in 1 .. i - 1 : r.ordered[j] = d
        BY <2>1 DEF Leaves
    <3> QED  BY <3>1, <3>2
  <2>5. Topological(steps, r.ordered)
      BY <2>4 DEF Topological
  <2> QED  BY <1>2, <1>6, <2>2, <2>3, <2>5, OrderOfAll
<1>8. ASSUME NEW order \in SetToSeqs(S), Topological(steps, order)
      PROVE  ~ r.cycle
  <2>1. PICK rank \in [S -> 1 .. Cardinality(S)] :
            \A v \in S : \A d \in ToSet(DepsOf(steps, v)) : d \in S /\ rank[d] < rank[v]
      BY <1>8, OrderRanks DEF S
  <2>2. rank \in [S -> Nat]
      BY <2>1
  <2>3. Ranks(next, rank)
      BY <1>2, <1>4, <2>1 DEF Ranks
  <2> QED  BY <1>5, <2>2, <2>3
<1> QED  BY <1>1, <1>5, <1>7, <1>8 DEF S

\* _graph_has_cycle finds a cycle exactly if there is no such order.
LEMMA CycleFinds ==
    ASSUME NEW steps \in Seq(PlanSteps), KnownDeps(steps)
    PROVE  HasCycle(steps) <=>
                ~ \E order \in SetToSeqs(IdsOf(steps)) : Topological(steps, order)
<1> DEFINE S == IdsOf(steps)
           n == Cardinality(S)
           next == [u \in S |-> SetToSeq(Dependents(steps, u))]
           roots == SetToSeq(S)
           r == DepthFirst(next, roots)
<1>1. HasCycle(steps) = r.cycle
    BY DEF HasCycle
<1>2. IsFiniteSet(S) /\ n \in Nat
    BY IdsFinite, FS_CardinalityType
<1>3. \A u \in S : next[u] \in Seq(S) /\ ToSet(next[u]) = Dependents(steps, u)
  <2>1. ASSUME NEW u \in S
        PROVE  /\ SetToSeq(Dependents(steps, u)) \in Seq(S)
               /\ ToSet(SetToSeq(Dependents(steps, u))) = Dependents(steps, u)
    <3>1. Dependents(steps, u) \in SUBSET S
        BY DEF Dependents
    <3>2. IsFiniteSet(Dependents(steps, u))
        BY <1>2, <3>1, FS_Subset
    <3>3. /\ SetToSeq(Dependents(steps, u)) \in Seq(Dependents(steps, u))
          /\ ToSet(SetToSeq(Dependents(steps, u))) = Dependents(steps, u)
        BY <3>2, SetAsSeq
    <3> HIDE DEF S
    <3> QED  BY <3>1, <3>3, SeqOfPart
  <2> QED  BY <2>1
<1>4. roots \in Seq(S) /\ ToSet(roots) = S
    BY <1>2, SetAsSeq
<1>5. next \in [S -> Seq(S)]
  <2>1. \A u \in S : SetToSeq(Dependents(steps, u)) \in Seq(S)
      BY <1>3
  <2> QED  BY <2>1
<1>6. \A u \in S, v \in S : v \in Dependents(steps, u) <=> u \in ToSet(DepsOf(steps, v))
    BY DEF Dependents
<1> HIDE DEF S, n, next, roots, r
<1>7. /\ r \in Found(S)
      /\ ~ r.cycle => Leaves(next, r.ordered) /\ ToSet(roots) \subseteq ToSet(r.ordered)
      /\ (\E rank \in [S -> Nat] : Ranks(next, rank)) => ~ r.cycle
    BY <1>2, <1>4, <1>5, SearchDoes DEF r
<1>8. r.ordered \in Seq(S) /\ r.cycle \in BOOLEAN
    BY <1>7 DEF Found
<1>9. ASSUME NEW order \in SetToSeqs(S), Topological(steps, order)
      PROVE  ~ r.cycle
  <2>1. PICK rank \in [S -> 1 .. n] :
            \A v \in S : \A d \in ToSet(DepsOf(steps, v)) : d \in S /\ rank[d] < rank[v]
      BY <1>9, OrderRanks DEF S, n
  <2> DEFINE down == [u \in S |-> n - rank[u]]
  <2>2. \A u \in S : rank[u] \in 1 .. n
      BY <2>1
  <2>3. down \in [S -> Nat]
      BY <1>2, <2>2
  <2>4. ASSUME NEW u \in S, NEW v \in ToSet(next[u])
        PROVE  down[v] < down[u]
    <3>1. v \in S /\ u \in ToSet(DepsOf(steps, v))
        BY <1>3, <1>6 DEF Dependents, S
    <3>2. rank[u] < rank[v]
        BY <2>1, <3>1
    <3> QED  BY <1>2, <2>2, <3>1, <3>2
  <2> HIDE DEF down
  <2>5. Ranks(next, down)
      BY <1>5, <2>4 DEF Ranks
  <2> QED  BY <1>7, <2>3, <2>5
<1>10. ASSUME ~ r.cycle
       PROVE  \E order \in SetToSeqs(S) : Topological(steps, order)
  <2> DEFINE left == r.ordered
             m == Len(left)
             order == [i \in 1 .. m |-> left[m + 1 - i]]
  <2>1. /\ m \in Nat /\ DOMAIN left = 1 .. m
        /\ \A i \in 1 .. m : left[i] \in S
      BY <1>8
  <2>2. /\ \A i, j \in 1 .. m : left[i] = left[j] => i = j
        /\ \A i \in 1 .. m : \A d \in ToSet(next[left[i]]) : \E j \in 1 .. i - 1 : left[j] = d
        /\ \A u \in S : \E i \in 1 .. m : left[i] = u
    <3>1. Leaves(next, left) /\ S \subseteq ToSet(left)
        BY <1>4, <1>7, <1>10
    <3> HIDE DEF left, m
    <3> QED  BY <2>1, <3>1 DEF Leaves, ToSet
  <2> HIDE DEF left, m
  <2>3. \A i \in 1 .. m : m + 1 - i \in 1 .. m /\ m + 1 - (m + 1 - i) = i
      BY <2>1
  <2>4. order \in [1 .. m -> S]
      BY <2>1, <2>3
  <2>5. \A i \in 1 .. m : order[i] = left[m + 1 - i] /\ order[m + 1 - i] = left[i]
      BY <2>3
  <2>6. DOMAIN order = 1 .. m /\ order \in Seq(S)
      BY <2>1, <2>4
  <2> HIDE DEF order
  <2>7. ASSUME NEW i \in 1 .. m, NEW j \in 1 .. m, order[i] = order[j]
        PROVE  i = j
    <3>1. m + 1 - i = m + 1 - j
        BY <2>2, <2>3, <2>5, <2>7
    <3> QED  BY <2>1, <3>1
  <2>8. ToSet(order) = S
    <3>1. ToSet(order) \subseteq S
        BY <2>4 DEF ToSet
    <3>2. ASSUME NEW u \in S PROVE u \in ToSet(order)
      <4>1. PICK i \in 1 .. m : left[i] = u
          BY <2>2
      <4>2. order[m + 1 - i] = u /\ m + 1 - i \in 1 .. m
          BY <2>3, <2>5, <4>1
      <4> QED  BY <2>6, <4>2 DEF ToSet
    <3> QED  BY <3>1, <3>2
  <2>9. order \in SetToSeqs(S)
      BY <1>2, <2>6, <2>7, <2>8, OrderOfAll
  <2>10. ASSUME NEW i \in 1 .. m, NEW d \in ToSet(DepsOf(steps, order[i]))
         PROVE  d \in {order[j] : j \in 1 .. i - 1}
    <3>1. order[i] \in S /\ d \in S
      <4>1. order[i] \in S
          BY <2>4
      <4>2. [u \in S |-> DepsOf(steps, u)] \in [S -> Seq(S)]
          BY DepsAreEdges DEF S
      <4>3. DepsOf(steps, order[i]) \in Seq(S)
          BY <4>1, <4>2
      <4> QED  BY <4>1, <4>3 DEF ToSet
    <3>2. order[i] \in ToSet(next[d])
        BY <1>3, <1>6, <3>1
    <3>3. PICK k \in 1 .. m : left[k] = d
        BY <2>2, <3>1
    <3>4. PICK j \in 1 .. k - 1 : left[j] = order[i]
        BY <2>2, <3>2, <3>3
    <3>5. j \in 1 .. m
        BY <2>1, <3>3, <3>4
    <3>6. j = m + 1 - i
        BY <2>2, <2>3, <2>5, <3>4, <3>5
    <3>7. m + 1 - k \in 1 .. i - 1
        BY <2>1, <3>3, <3>4, <3>6
    <3>8. order[m + 1 - k] = d
        BY <2>5, <3>3
    <3> QED  BY <3>7, <3>8
  <2>11. Topological(steps, order)
      BY <2>6, <2>10 DEF Topological
  <2> QED  BY <2>9, <2>11
<1>11. r.cycle <=> ~ \E order \in SetToSeqs(S) : Topological(steps, order)
    BY <1>8, <1>9, <1>10
<1> QED  BY <1>1, <1>11 DEF S

THEOREM GraphsAreRead ==
    ASSUME NEW steps \in Seq(PlanSteps)
    PROVE  GraphIsRead(steps)
<1> SUFFICES ASSUME KnownDeps(steps) PROVE GraphIsRead(steps)
    BY DEF GraphIsRead
<1>1. HasCycle(steps) <=>
            ~ \E order \in SetToSeqs(IdsOf(steps)) : Topological(steps, order)
    BY CycleFinds
<1>2. Order(steps).cycle \in BOOLEAN
    BY OrderFinds DEF Found
<1>3. ~ Order(steps).cycle =>
            /\ Topological(steps, Order(steps).ordered)
            /\ ToSet(Order(steps).ordered) = IdsOf(steps)
            /\ Order(steps).ordered \in SetToSeqs(IdsOf(steps))
    BY OrderFinds
<1>4. Order(steps).cycle =>
            ~ \E order \in SetToSeqs(IdsOf(steps)) : Topological(steps, order)
    BY OrderFinds
<1> QED  BY <1>1, <1>2, <1>3, <1>4 DEF GraphIsRead

=============================================================================
