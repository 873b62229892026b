-------------------------------- MODULE MCHttp --------------------------------
(***************************************************************************)
(* Model-checking instance of what a request meets: a behaviour is one of   *)
(* HttpChain, of KeyedRateLimiter, of BodyShape, of BearerAuth or of        *)
(* HttpIdempotency.  They share no state; `part` says which runs, and the   *)
(* others stay in an initial state, or are "-".                             *)
(*                                                                         *)
(* Two requests compete for one slot beside a probe.  Five callers ask a    *)
(* limiter whose generations hold two, so that two roll-overs happen with   *)
(* callers to spare.  Three executions share an idempotency key: one can    *)
(* hold the row, one wait for it, and one come after its evidence expired.  *)
(* A provider rotates between two keys while one call of either kind is     *)
(* verified and, as a stream, outlives its token.                           *)
(***************************************************************************)
EXTENDS KeyedRateLimiter, TLC

CONSTANTS Requests, Probes, limit, None, Executions, Fingerprints, NoRequest,
          Verifications, SigningKeys, MaxTime, MaxShapeProperties

VARIABLES
    part,
    at, aborted, status, answers, record, expired, gone, inFlight,
    fp, reply, writer, row, lock, limbo, completed, evidenceExpired, where, tries, learned,
    effects, answer,
    engine, phase, published, keys, allowance, now, call,
    schema, request, pass, shape, unread

Chain == INSTANCE HttpChain
Idempotency == INSTANCE HttpIdempotency
    WITH Requests <- Executions, expired <- evidenceExpired, at <- where, seen <- learned
Bearer == INSTANCE BearerAuth WITH Calls <- Verifications, Keys <- SigningKeys
Body == INSTANCE BodyShape WITH at <- pass

chainVars == <<at, aborted, status, answers, record, expired, gone, inFlight>>
idempotencyVars == <<fp, reply, writer, row, lock, limbo, completed, evidenceExpired, where, tries,
                     learned, effects, answer>>
bearerVars == <<engine, phase, published, keys, allowance, now, call>>
bodyVars == <<schema, request, pass, shape, unread>>
allVars == <<part, vars, chainVars, idempotencyVars, bearerVars, bodyVars>>

Symmetry == Permutations(Requests \ Probes) \cup Permutations(Executions)

NoBearer ==
    /\ engine = "-" /\ phase = "-" /\ published = "-" /\ keys = "-" /\ allowance = "-"
    /\ now = "-" /\ call = "-"
NoBody == schema = "-" /\ request = "-" /\ pass = "-" /\ shape = "-" /\ unread = "-"

MCInit ==
    /\ part \in {"chain", "limiter", "idempotency", "bearer", "body"}
    /\ Init /\ Chain!Init /\ Idempotency!Init
    /\ part # "idempotency" =>
         /\ fp = [r \in Executions |-> 1] /\ reply = [r \in Executions |-> "stable"]
         /\ writer = {}
    /\ IF part = "bearer" THEN Bearer!Init ELSE NoBearer
    /\ IF part = "body" THEN Body!Init ELSE NoBody

InLimiter == part = "limiter" /\ UNCHANGED <<part, chainVars, idempotencyVars, bearerVars, bodyVars>>
InChain == part = "chain" /\ UNCHANGED <<part, vars, idempotencyVars, bearerVars, bodyVars>>
InIdempotency == part = "idempotency" /\ UNCHANGED <<part, vars, chainVars, bearerVars, bodyVars>>
InBearer == part = "bearer" /\ UNCHANGED <<part, vars, chainVars, idempotencyVars, bodyVars>>
InBody == part = "body" /\ UNCHANGED <<part, vars, chainVars, idempotencyVars, bearerVars>>

ChainNext ==
    \/ InChain /\ \E r \in Requests : Chain!Enter(r)
    \/ InChain /\ \E r \in Requests : Chain!Acquire(r)
    \/ InChain /\ \E r \in Requests : Chain!Limit(r)
    \/ InChain /\ \E r \in Requests : Chain!Answer(r)
    \/ InChain /\ \E r \in Requests : Chain!WriteFails(r)
    \/ InChain /\ \E r \in Requests : Chain!Leave(r)
    \/ InChain /\ \E r \in Requests : Chain!Release(r)
    \/ InChain /\ \E r \in Requests : Chain!Budget(r)
    \/ InChain /\ \E r \in Requests : Chain!AccessLog(r)
    \/ InChain /\ \E r \in Requests : Chain!Expire(r)
    \/ InChain /\ \E r \in Requests : Chain!HangUp(r)
    \/ InChain /\ Chain!Done

IdempotencyNext ==
    \/ InIdempotency /\ \E r \in Executions : Idempotency!Execute(r)
    \/ InIdempotency /\ \E r \in Executions : Idempotency!Fail(r)
    \/ InIdempotency /\ \E r \in Executions : Idempotency!Expire(r)
    \/ InIdempotency /\ \E r \in Executions, commits \in BOOLEAN :
         Idempotency!ServerDecides(r, commits)
    \/ InIdempotency /\ Idempotency!Cleanup
    \/ InIdempotency /\ Idempotency!Done

BearerNext ==
    \/ InBearer /\ Bearer!New
    \/ InBearer /\ Bearer!Scheduled
    \/ InBearer /\ Bearer!Elsewhere
    \/ InBearer /\ Bearer!Close
    \/ InBearer /\ Bearer!Rotate
    \/ InBearer /\ Bearer!Cool
    \/ InBearer /\ Bearer!Tick
    \/ InBearer /\ \E c \in Verifications : Bearer!Start(c)
    \/ InBearer /\ \E c \in Verifications : Bearer!Cancel(c)
    \/ InBearer /\ \E c \in Verifications : Bearer!ResolveHTTP(c)
    \/ InBearer /\ \E c \in Verifications : Bearer!Intercept(c)
    \/ InBearer /\ \E c \in Verifications : Bearer!Lookup(c)
    \/ InBearer /\ \E c \in Verifications : Bearer!Refreshed(c)
    \/ InBearer /\ \E c \in Verifications : Bearer!Introspected(c)
    \/ InBearer /\ \E c \in Verifications : Bearer!Return(c)
    \/ InBearer /\ \E c \in Verifications : Bearer!Operate(c)
    \/ InBearer /\ \E c \in Verifications : Bearer!Complete(c)
    \/ InBearer /\ \E c \in Verifications : Bearer!waitMessageOperation(c)
    \/ InBearer /\ \E c \in Verifications : Bearer!Edit(c)
    \/ InBearer /\ \E c \in Verifications : Bearer!Late(c)

BodyNext ==
    \/ InBody /\ Body!Compile
    \/ InBody /\ Body!Admit
    \/ InBody /\ Body!Full

\* A schema meets one body, and no more calls come.
Quiet == part \in {"bearer", "body"} /\ UNCHANGED allVars

MCNext ==
    \/ InLimiter /\ Tick
    \/ InLimiter /\ \E key \in Keys : Allow(key)
    \/ ChainNext \/ IdempotencyNext \/ BearerNext \/ BodyNext \/ Quiet

MCSpec == MCInit /\ [][MCNext]_allVars

-----------------------------------------------------------------------------
(* Properties, of whichever part runs; see its module.  RateHolds is KeyedRateLimiter's own. *)

\* ChainIsHonest: through panics, aborts and timeouts no slot of the semaphore is lost, no
\* middleware answers over a response that has begun, and the access log tells a problem, and
\* a timeout, as what it was (HttpChain).
ChainIsHonest == []Chain!SlotsAreExact /\ []Chain!AnsweredOnce /\ Chain!LogIsTrue

\* OneEffectPerWindow: a key has at most one committed effect within its retention, a response
\* given to a caller is of a committed effect of its input, and a caller told that nothing
\* happened is told the truth (HttpIdempotency).
OneEffectPerWindow == Idempotency!OneEffectPerWindow /\ Idempotency!AnswerIsTrue

\* BodyIsValid: the streaming pass and the full validator together serve exactly the bodies
\* that the full validator accepts, and the handler can still read all of them (BodyShape).
BodyIsValid == part = "body" => Body!BodyIsValid

\* VerdictIsTrue: a call is admitted, and told that it is not, for what its credential is and
\* not for what went wrong beside it; an admitted stream carries no message past the expiry of
\* its token (BearerAuth).
VerdictIsTrue == part = "bearer" => Bearer!VerdictIsTrue /\ Bearer!StreamEndsWithToken
=============================================================================
