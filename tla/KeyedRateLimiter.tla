----------------------------- MODULE KeyedRateLimiter -----------------------------
(***************************************************************************)
(* internal/infra/http/ratelimit_keyed.go: one token bucket per caller, in *)
(* two generations of a bounded map.  A token bucket of x/time/rate        *)
(* (external) holds up to Burst tokens and gains one per tick; Reserve and *)
(* Cancel under the lock are one step.                                     *)
(***************************************************************************)
EXTENDS Naturals, FiniteSets

CONSTANTS
    Keys,     \* callers
    maxKeys,  \* keys of one generation
    Burst     \* tokens of a fresh bucket

ASSUME LimiterAssumption ==
    /\ IsFiniteSet(Keys)
    /\ maxKeys \in Nat \ {0} /\ Burst \in Nat \ {0}

VARIABLES
    current, previous,  \* the keys of the two generations
    tokens,             \* the bucket of a key; that of a key in neither is garbage
    allowed,            \* the last answer of Allow
    asked,              \* ghost: the keys ever asked for
    seen                \* ghost: the other keys asked for since the key's last request

vars == <<current, previous, tokens, allowed, asked, seen>>

TypeOK ==
    /\ current \subseteq Keys /\ previous \subseteq Keys
    /\ tokens \in [Keys -> 0 .. Burst]
    /\ allowed \in BOOLEAN
    /\ asked \subseteq Keys
    /\ seen \in [Keys -> SUBSET Keys]

\* NewKeyedRateLimiter.
Init ==
    /\ current = {} /\ previous = {}
    /\ tokens = [k \in Keys |-> Burst]
    /\ allowed = FALSE
    /\ asked = {}
    /\ seen = [k \in Keys |-> {}]

Tick ==
    /\ tokens' = [k \in Keys |-> IF tokens[k] < Burst THEN tokens[k] + 1 ELSE Burst]
    /\ UNCHANGED <<current, previous, allowed, asked, seen>>

\* Variant: a key of the previous generation gets a fresh bucket.
bucketFresh(key) == IF key \in current THEN tokens[key] ELSE Burst

\* bucketLocked finds the key's bucket in either generation, or makes one.
bucket(key) == IF key \in current \cup previous THEN tokens[key] ELSE Burst

\* bucketLocked rolls the generations over before it adds a key to a full one.
rollsOver(key) == key \notin current /\ Cardinality(current) >= maxKeys

\* Allow, under the mutex: take the key's bucket, reserve a token, and return it when
\* there is none.
Allow(key) ==
    /\ IF rollsOver(key)
       THEN previous' = current /\ current' = {key}
       ELSE current' = current \cup {key} /\ UNCHANGED previous
    /\ allowed' = (bucket(key) > 0)
    /\ tokens' = [tokens EXCEPT ![key] = IF bucket(key) > 0 THEN bucket(key) - 1 ELSE 0]
    /\ asked' = asked \cup {key}
    /\ seen' = [k \in Keys |-> IF k = key THEN {} ELSE seen[k] \cup {key}]

Next == Tick \/ \E key \in Keys : Allow(key)

Spec == Init /\ [][Next]_vars

-----------------------------------------------------------------------------
(* Properties *)

\* MapIsBounded: however many keys callers make up, a generation holds maxKeys of them at
\* most, and the limiter two generations.
MapIsBounded ==
    /\ Cardinality(current) <= maxKeys /\ Cardinality(previous) <= maxKeys
    /\ Cardinality(current \cup previous) <= 2 * maxKeys

\* DebtIsKept: a caller's bucket is forgotten only when more than maxKeys other callers
\* have asked since its last request, however the generations fell.
DebtIsKept == \A k \in asked : Cardinality(seen[k]) <= maxKeys => k \in current \cup previous

\* RateHolds: a caller without a token is refused, and so kept to its rate, unless more
\* than maxKeys other callers have asked since its last request.
RateHolds ==
    [][\A k \in Keys : Allow(k) /\ tokens[k] = 0 /\ Cardinality(seen[k]) <= maxKeys => ~allowed']_vars
=============================================================================
