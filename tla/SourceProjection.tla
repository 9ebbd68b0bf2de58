-------------------------- MODULE SourceProjection --------------------------
(***************************************************************************)
(* What a consumer of a continuable extraction may rely on, without        *)
(* requests, staging, revisions or budgets: the projection of a source is  *)
(* a sequence of ranges, each of which begins where the one before it      *)
(* ended; it is closed once, and closed as completed only when the last    *)
(* range ended the source.                                                 *)
(***************************************************************************)
EXTENDS Integers, Sequences

CONSTANTS
    First,      \* where the source begins
    Position,   \* where a range may begin
    Over        \* the end of the source

VARIABLES
    ranges,     \* the ranges published so far: [from, next]
    outcome     \* "open", or how the projection was closed

projectionVars == <<ranges, outcome>>

Closed == {"completed", "failed", "cancelled", "timed_out"}

\* Where the next range has to begin.
Frontier(seq) == IF seq = <<>> THEN First ELSE seq[Len(seq)].next

Init ==
    /\ ranges = <<>>
    /\ outcome = "open"

\* One more range, and the end of the projection if it is the last one.
Publish ==
    /\ outcome = "open"
    /\ \E next \in Position \cup {Over} :
        /\ ranges' = Append(ranges, [from |-> Frontier(ranges), next |-> next])
        /\ outcome' \in IF next = Over THEN {"completed", "failed"} ELSE {"open"}

\* The projection is given up where it is.
GiveUp ==
    /\ outcome = "open"
    /\ outcome' \in Closed \ {"completed"}
    /\ UNCHANGED ranges

Next == Publish \/ GiveUp

Spec == Init /\ [][Next]_projectionVars
=============================================================================
