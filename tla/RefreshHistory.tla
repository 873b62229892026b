---------------------------- MODULE RefreshHistory ----------------------------
(***************************************************************************)
(* A sequence of calls of health.Service.Refresh, with the history of what *)
(* the evaluations observed beside the verdict the service caches.         *)
(***************************************************************************)
EXTENDS ReadinessVerdict, Sequences

CONSTANTS
    Thresholds,      \* the failure thresholds considered
    MaxEvaluations   \* bound: evaluations of one history

ASSUME RefreshHistoryConstants ==
    /\ Thresholds \subseteq Nat \ {0}
    /\ MaxEvaluations \in Nat

VARIABLES
    threshold,  \* Policy.FailureThreshold
    observed,   \* what each evaluation observed, TRUE for success
    state       \* Service.state

vars == <<threshold, observed, state>>

Init ==
    /\ threshold \in Thresholds
    /\ observed = <<>>
    /\ state = NoState

Refresh(ok) ==
    /\ Len(observed) < MaxEvaluations
    /\ observed' = Append(observed, ok)
    /\ state' = NextReadiness(state, ok, threshold)
    /\ UNCHANGED threshold

Next == \E ok \in BOOLEAN : Refresh(ok)

Spec == Init /\ [][Next]_vars

-----------------------------------------------------------------------------
\* A cached verdict.
Cache ==
    [kind : {"evaluated"}, ok : BOOLEAN, failures : Nat]

TypeOK ==
    /\ threshold \in Thresholds
    /\ observed \in Seq(BOOLEAN)
    /\ state \in {NoState} \cup Cache

\* The verdict the incremental fold caches is the one its history defines: the
\* service is healthy exactly when one of the last threshold evaluations
\* succeeded.  A blip shorter than the threshold never evicts a healthy service, a
\* service that was never healthy is never held up by the threshold, and one
\* success heals whatever the streak before it.
VerdictMatchesHistory ==
    state # NoState =>
        (state.ok <=> \E i \in 1..Len(observed) :
                          observed[i] /\ Len(observed) - i < threshold)

\* What the fold keeps of the history: the length of the trailing run of failures.
StreakInv ==
    IF observed = <<>> THEN state = NoState
    ELSE \E n \in 0..Len(observed) :
            /\ state.kind = "evaluated" /\ state.failures = n
            /\ state.ok <=> n < Len(observed) /\ n < threshold
            /\ \A i \in 1..Len(observed) : i > Len(observed) - n => ~observed[i]
            /\ n < Len(observed) => observed[Len(observed) - n]
=============================================================================
