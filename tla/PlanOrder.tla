----------------------------- MODULE PlanOrder -----------------------------
(***************************************************************************)
(* The graph of an execution plan.  It is searched twice:                  *)
(* validate_execution_plan refuses plans whose dependencies are unknown or *)
(* cyclic, searching from what is depended on to what depends on it;       *)
(* order_steps sorts the plan by leaving each step's dependencies before   *)
(* the step.  A plan is a record whose steps are a sequence of records     *)
(* [id, deps, ...].                                                        *)
(***************************************************************************)
EXTENDS Integers, Sequences, FiniteSets, SequencesExt, FiniteSetsExt

IdsOf(steps) == {steps[i].id : i \in DOMAIN steps}

StepOf(steps, id) == steps[CHOOSE i \in DOMAIN steps : steps[i].id = id]

DepsOf(steps, id) == StepOf(steps, id).deps

UniqueIds(steps) == Cardinality(IdsOf(steps)) = Len(steps)

KnownDeps(steps) == \A i \in DOMAIN steps : ToSet(steps[i].deps) \subseteq IdsOf(steps)

-----------------------------------------------------------------------------
(* Depth-first search                                                      *)

\* What found becomes when the searches of the nodes of s follow one another.
Through(search, found, s) == FoldLeft(LAMBDA f, u : search[u][f], found, s)

\* What a search has found: a cycle, and the nodes it has left, in that order.
Found(nodes) == [cycle : BOOLEAN, ordered : Seq(nodes)]

\* A node counts as left when it is reached (a mutant).
VisitsOnTheWayDown(next) ==
    LET Visit[path \in SUBSET DOMAIN next] ==
            [u \in DOMAIN next |-> [found \in Found(DOMAIN next) |->
                IF found.cycle \/ u \in ToSet(found.ordered) THEN found
                ELSE IF u \in path THEN [found EXCEPT !.cycle = TRUE]
                ELSE Through(Visit[path \cup {u}],
                             [found EXCEPT !.ordered = Append(@, u)], next[u])]]
    IN  Visit

\* The search of a node of the graph with the edges next, for a search that
\* came along path: a node is grey while it is on the path, and black when it
\* has been left.
Visits(next) ==
    LET Visit[path \in SUBSET DOMAIN next] ==
            [u \in DOMAIN next |-> [found \in Found(DOMAIN next) |->
                IF found.cycle \/ u \in ToSet(found.ordered) THEN found
                ELSE IF u \in path THEN [found EXCEPT !.cycle = TRUE]
                ELSE LET below == Through(Visit[path \cup {u}], found, next[u])
                     IN  [below EXCEPT !.ordered = Append(@, u)]]]
    IN  Visit

DepthFirst(next, roots) ==
    Through(Visits(next)[{}], [cycle |-> FALSE, ordered |-> <<>>], roots)

-----------------------------------------------------------------------------
(* validate_execution_plan                                                 *)

Dependents(steps, u) == {v \in IdsOf(steps) : u \in ToSet(DepsOf(steps, v))}

\* _graph_has_cycle.
HasCycle(steps) ==
    DepthFirst([u \in IdsOf(steps) |-> SetToSeq(Dependents(steps, u))],
               SetToSeq(IdsOf(steps))).cycle

\* No schema error: at least one step, steps of known kinds, a tool or transform
\* in the steps that are one, and a check in every verify step.
WellFormed(steps) ==
    /\ steps # <<>>
    /\ \A i \in DOMAIN steps :
        /\ steps[i].kind \in {"tool", "approval", "transform", "verify"}
        /\ steps[i].kind \in {"tool", "transform"} => steps[i].tool # "unnamed"
        /\ steps[i].kind = "verify" => steps[i].checks # <<>>

\* No schema error, and no semantic error: unique ids, known dependencies, no
\* cycle.
Valid(steps) ==
    /\ WellFormed(steps)
    /\ UniqueIds(steps)
    /\ KnownDeps(steps)
    /\ ~HasCycle(steps)

-----------------------------------------------------------------------------
(* order_steps                                                             *)

\* The steps in the order in which a search along their dependencies leaves
\* them, or that it met a cycle.
Order(steps) ==
    DepthFirst([u \in IdsOf(steps) |-> DepsOf(steps, u)],
               [i \in DOMAIN steps |-> steps[i].id])

\* order_steps raises.
Unordered(steps) == ~UniqueIds(steps) \/ ~KnownDeps(steps) \/ Order(steps).cycle

Sorted(steps) ==
    LET order == Order(steps).ordered
    IN  [i \in DOMAIN order |-> StepOf(steps, order[i])]

-----------------------------------------------------------------------------
(* What the two searches have to agree on                                  *)

\* The linear orders of a plan's steps in which dependencies come first.
Topological(steps, order) ==
    \A i \in DOMAIN order :
        ToSet(DepsOf(steps, order[i])) \subseteq {order[j] : j \in 1 .. i - 1}

\* The validator and order_steps read the graph of a plan alike: they refuse it
\* exactly if it has no topological order, and else order_steps finds one.
GraphIsRead(steps) ==
    UniqueIds(steps) /\ KnownDeps(steps) =>
        LET sortable == \E order \in SetToSeqs(IdsOf(steps)) : Topological(steps, order)
        IN  /\ HasCycle(steps) <=> ~sortable
            /\ Order(steps).cycle <=> ~sortable
            /\ sortable => /\ Topological(steps, Order(steps).ordered)
                           /\ ToSet(Order(steps).ordered) = IdsOf(steps)
=============================================================================
