------------------------------ MODULE WebhookRetry ------------------------------
(***************************************************************************)
(* internal/infra/postgreswebhook/retry.go: when a webhook delivery is     *)
(* tried again.  Times and delays are natural numbers of one unit; NoTime  *)
(* is the zero time.                                                       *)
(***************************************************************************)
EXTENDS Naturals

CONSTANTS
    InitialBackoff,  \* webhookInitialBackoff
    MaxBackoff,      \* webhookMaxBackoff
    MaxElapsed,      \* webhookMaxElapsed
    JitterShare,     \* the jitter is at most delay \div JitterShare (ten: 100 permille)
    Hints,           \* the delays that receivers ask for with Retry-After
    NoTime

ASSUME RetryAssumption ==
    /\ InitialBackoff \in Nat \ {0} /\ MaxBackoff \in Nat /\ MaxElapsed \in Nat \ {0}
    /\ JitterShare \in Nat \ {0, 1}
    /\ InitialBackoff <= MaxBackoff
    /\ Hints \subseteq Nat
    /\ NoTime \notin Nat

least(a, b) == IF a <= b THEN a ELSE b

\* webhookBackoff before its jitter.
baseBackoff[attempt \in Nat] ==
    IF attempt <= 1 THEN InitialBackoff ELSE least(2 * baseBackoff[attempt - 1], MaxBackoff)

\* webhookBackoff: the delivery id decides the jitter, so every value of it is possible.
jittered(delay) ==
    LET j == delay \div JitterShare IN {least(d, MaxBackoff) : d \in delay - j .. delay + j}
webhookBackoff(attempt) == jittered(baseBackoff[attempt])

\* parseRetryAfter: a delay in seconds is capped, a date counts from the response's date
\* and is ignored when it is not in its future.
secondsHint(seconds) == least(seconds, MaxBackoff)
dateHint(when, base) == IF when > base THEN least(when - base, MaxBackoff) ELSE NoTime

\* parseRetryAfter on what receivers send in answer to an attempt that began then: seconds, a
\* date from the response's own date (one whose clock may be ahead), or nothing usable.
retryAfters(began) ==
    {secondsHint(h) : h \in Hints}
    \cup {dateHint(began + h, began + skew) : h \in Hints, skew \in {0, 1}}
    \cup {NoTime}

\* Variant: the stored Retry-After is not read.
dueIgnoresHint(due, hint) == due

\* The stored Retry-After is a floor under the backoff.
dueWithHint(due, hint) == IF hint # NoTime /\ hint > due THEN hint ELSE due

\* The delivery's deadline is a ceiling; past it the next attempt only cancels.
withinDeadline(due, deadline, now) ==
    IF deadline <= now THEN now + 1 ELSE least(due, deadline)

\* webhookNextRetry.
webhookNextRetry(created, backoff, hint, now) ==
    withinDeadline(dueWithHint(now + backoff, hint), created + MaxElapsed, now)

\* webhookDeliveryExpired.
webhookDeliveryExpired(created, now) == now >= created + MaxElapsed
=============================================================================
