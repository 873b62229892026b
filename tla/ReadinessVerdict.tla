--------------------------- MODULE ReadinessVerdict ---------------------------
(***************************************************************************)
(* The pure part of internal/health: how one evaluation is folded into the *)
(* cached verdict, and how old a verdict may get.                          *)
(***************************************************************************)
EXTENDS Integers

\* The cache before any evaluation (a nil *readinessState).
NoState == [kind |-> "unevaluated"]

\* readinessState without its time: whether verdictErr is nil, and the streak
\* of failed evaluations since the last healthy one.
Evaluated(ok, failures) == [kind |-> "evaluated", ok |-> ok, failures |-> failures]

\* Variant: the streak has to exceed the threshold.
NextReadinessLate(previous, ok, failureThreshold) ==
    IF ok THEN Evaluated(TRUE, 0)
    ELSE IF previous = NoState THEN Evaluated(FALSE, 1)
    ELSE LET failures == previous.failures + 1
         IN  Evaluated(previous.ok /\ failures <= failureThreshold, failures)

\* nextReadiness: a success heals at once; a failure is held back while the
\* previous verdict is healthy and the streak is below the threshold.
NextReadiness(previous, ok, failureThreshold) ==
    IF ok THEN Evaluated(TRUE, 0)
    ELSE IF previous = NoState THEN Evaluated(FALSE, 1)
    ELSE LET failures == previous.failures + 1
         IN  Evaluated(previous.ok /\ failures < failureThreshold, failures)

staleRefreshMultiplier == 3

\* staleBudget: the larger of the two periods, so that a slow evaluation does
\* not expire a verdict that is refreshed as fast as it can be.
StaleBudget(interval, probeBudget) ==
    probeBudget + staleRefreshMultiplier *
        (IF interval > probeBudget THEN interval ELSE probeBudget)
=============================================================================
