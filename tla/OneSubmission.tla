--------------------------- MODULE OneSubmission ---------------------------
(***************************************************************************)
(* What the external-operation service promises its callers, whatever      *)
(* crashes, retries, late answers and cancelled workflows happen: for each *)
(* operation subject the provider is called at most once, and never after  *)
(* a finding that it was not called; and a subject has at most one         *)
(* confirmed outcome.  ExternalOperation implements this specification.    *)
(***************************************************************************)
CONSTANT Subject        \* operation subjects

VARIABLES
    phase,              \* how far the subject's only submission has come
    verdict             \* its confirmed outcome, "open" until there is one

avars == <<phase, verdict>>

Phase   == {"free", "reserved", "permitted", "called"}
Settled == {"confirmed_succeeded", "confirmed_failed", "confirmed_not_executed"}

AInit ==
    /\ phase = [s \in Subject |-> "free"]
    /\ verdict = [s \in Subject |-> "open"]

\* An operation is allocated to the subject, for good.
Reserve(s) ==
    /\ phase[s] = "free"
    /\ phase' = [phase EXCEPT ![s] = "reserved"]
    /\ UNCHANGED verdict

\* The only permit is given.
Grant(s) ==
    /\ phase[s] = "reserved"
    /\ phase' = [phase EXCEPT ![s] = "permitted"]
    /\ UNCHANGED verdict

\* The provider is called; a permit may also never be used.
Call(s) ==
    /\ phase[s] = "permitted"
    /\ verdict[s] # "confirmed_not_executed"
    /\ phase' = [phase EXCEPT ![s] = "called"]
    /\ UNCHANGED verdict

\* The outcome is confirmed, once.
Settle(s, v) ==
    /\ phase[s] \in {"permitted", "called"}
    /\ verdict[s] = "open"
    /\ v = "confirmed_not_executed" => phase[s] = "permitted"
    /\ verdict' = [verdict EXCEPT ![s] = v]
    /\ UNCHANGED phase

ANext == \E s \in Subject :
    Reserve(s) \/ Grant(s) \/ Call(s) \/ \E v \in Settled : Settle(s, v)

ASpec == AInit /\ [][ANext]_avars

=============================================================================
