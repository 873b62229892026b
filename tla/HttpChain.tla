-------------------------------- MODULE HttpChain --------------------------------
(***************************************************************************)
(* internal/infra/http: concurrent requests through the middleware chain   *)
(* of Harden (body limit, time budget, in-flight limit, rate limit, panic  *)
(* recovery) around the generated router with its validator and error      *)
(* mappers.  A request runs on one goroutine; what requests share is the   *)
(* semaphore, and what happens to one at any time is the end of its budget *)
(* or of its client.  Status texts stand for problem codes: "429", "503"   *)
(* and "504" for the limits and the budget, "problem" for all others.      *)
(***************************************************************************)
EXTENDS Naturals, FiniteSets

CONSTANTS
    Requests,
    Probes,  \* those of them for /health/live and /health/ready
    limit,   \* http.max_in_flight; zero disables shedding
    None

VARIABLES
    at,       \* where the request is in the chain
    aborted,  \* those leaving with http.ErrAbortHandler
    status,   \* the status it was answered with
    answers,  \* how many statuses a living connection was sent
    record,   \* the problem code kept for the access log
    expired,  \* its time budget is spent
    gone,     \* its client has hung up
    inFlight  \* the semaphore's weight in use

reqVars == <<at, aborted, status, answers, record>>
vars == <<reqVars, expired, gone, inFlight>>

Inside == {"rate", "handler", "release"}

TypeOK ==
    /\ at \in [Requests -> {"new", "slot", "budget", "log", "done"} \cup Inside]
    /\ inFlight \in Nat
    /\ expired \subseteq Requests /\ gone \subseteq Requests

Init ==
    /\ at = [r \in Requests |-> "new"]
    /\ status = [r \in Requests |-> None]
    /\ answers = [r \in Requests |-> 0]
    /\ record = [r \in Requests |-> None]
    /\ expired = {} /\ gone = {} /\ aborted = {}
    /\ inFlight = 0

committed(r) == status[r] # None

\* A status reaches the response writer; net/http keeps the first.
Send(r, s) ==
    /\ status' = [status EXCEPT ![r] = IF committed(r) THEN @ ELSE s]
    /\ answers' = [answers EXCEPT ![r] = IF r \in gone /\ committed(r) THEN @ ELSE @ + 1]

\* writeProblem; recordProblemCode keeps the first code.
writeProblem(r, code) ==
    /\ Send(r, code)
    /\ record' = [record EXCEPT ![r] = IF @ = None THEN code ELSE @]

Silent == UNCHANGED <<status, answers, record>>
Goto(r, l) == at' = [at EXCEPT ![r] = l]

\* RequestBodyLimit, then RequestTimeout arms the budget.
Enter(r) ==
    /\ at[r] = "new"
    /\ \/ Goto(r, "log") /\ writeProblem(r, "problem")
       \/ Goto(r, "slot") /\ Silent
    /\ UNCHANGED <<aborted, expired, gone, inFlight>>

\* isHealthProbeRequest
exempt(r) == r \in Probes

\* MaxInFlight before the handler: TryAcquire never waits.
Acquire(r) ==
    /\ at[r] = "slot"
    /\ IF limit = 0 \/ exempt(r)
       THEN Goto(r, "rate") /\ Silent /\ UNCHANGED inFlight
       ELSE IF inFlight < limit
       THEN Goto(r, "rate") /\ Silent /\ inFlight' = inFlight + 1
       ELSE Goto(r, "budget") /\ writeProblem(r, "503") /\ UNCHANGED inFlight
    /\ UNCHANGED <<aborted, expired, gone>>

\* RateLimit: a request without a key, or within its caller's rate, goes on.
Limit(r) ==
    /\ at[r] = "rate"
    /\ \/ Goto(r, "handler") /\ Silent
       \/ ~exempt(r) /\ Goto(r, "release") /\ writeProblem(r, "429")
    /\ UNCHANGED <<aborted, expired, gone, inFlight>>

\* RejectRequest: a trust check cut short by a context is no bad credential.
rejectRequest == {"problem", "504"}

\* RejectResponse: an error carrying an ended context is a timeout, any other a problem.
rejectResponse == {"problem", "504"}

\* The generated handler answers: with its response, or through one of the error mappers.
Answer(r) ==
    /\ at[r] = "handler" /\ ~committed(r)
    /\ \/ Send(r, "200") /\ UNCHANGED record
       \/ \E code \in rejectRequest \cup rejectResponse : writeProblem(r, code)
    /\ UNCHANGED <<at, aborted, expired, gone, inFlight>>

\* A response that cannot be written to a client that has hung up is itself an error.
WriteFails(r) ==
    /\ at[r] = "handler" /\ committed(r) /\ r \in gone /\ record[r] = None
    /\ writeProblem(r, "problem")
    /\ UNCHANGED <<at, aborted, expired, gone, inFlight>>

\* Variant: the tracked response is not asked.
recoverAnswersAlways(r, how) == how = "panic"

\* Recover answers a panic that came before the response was committed.
recoverAnswers(r, how) == how = "panic" /\ ~committed(r)

\* The handler returns, with or without an answer, panics, or aborts the response; Recover
\* lets only the abort through.
Leave(r) ==
    /\ at[r] = "handler"
    /\ Goto(r, "release")
    /\ \E how \in {"return", "panic", "abort"} :
         /\ IF recoverAnswers(r, how) THEN writeProblem(r, "problem") ELSE Silent
         /\ aborted' = IF how = "abort" THEN aborted \cup {r} ELSE aborted
    /\ UNCHANGED <<expired, gone, inFlight>>

\* Variant: the release is not deferred, so a panic passes it by.
releasesOnReturn(r) == limit > 0 /\ ~exempt(r) /\ r \notin aborted

\* The deferred Release of MaxInFlight.
releases(r) == limit > 0 /\ ~exempt(r)

Release(r) ==
    /\ at[r] = "release"
    /\ Goto(r, "budget")
    /\ inFlight' = IF releases(r) THEN inFlight - 1 ELSE inFlight
    /\ Silent
    /\ UNCHANGED <<aborted, expired, gone>>

\* Variant: the middleware does not look at the deadline.
timesOutNever(r) == FALSE

\* RequestTimeout after the handler.
timesOut(r) == ~committed(r) /\ r \in expired

\* The request is over, and with it its context and its response.
Over(r) ==
    /\ Goto(r, "done")
    /\ expired' = expired \ {r} /\ gone' = gone \ {r} /\ aborted' = aborted \ {r}
    /\ status' = [status EXCEPT ![r] = None] /\ record' = [record EXCEPT ![r] = None]

\* An aborted response passes the access log by.
Budget(r) ==
    /\ at[r] = "budget"
    /\ IF r \in aborted
       THEN Over(r) /\ UNCHANGED answers
       ELSE /\ Goto(r, "log") /\ (IF timesOut(r) THEN writeProblem(r, "504") ELSE Silent)
            /\ UNCHANGED <<aborted, expired, gone>>
    /\ UNCHANGED inFlight

\* AccessLog names status[r] and record[r]; net/http answers for a handler that has not.
AccessLog(r) ==
    /\ at[r] = "log"
    /\ answers' = [answers EXCEPT ![r] = IF committed(r) THEN @ ELSE @ + 1]
    /\ Over(r)
    /\ UNCHANGED inFlight

\* The budget's end reaches the handler's context.  Elsewhere in the chain, or once an answer
\* is committed, nothing reads it but Budget, which an expiry here reaches as well.
Expire(r) ==
    /\ at[r] = "handler" /\ r \notin expired /\ ~committed(r)
    /\ expired' = expired \cup {r}
    /\ UNCHANGED <<reqVars, gone, inFlight>>

HangUp(r) ==
    /\ at[r] = "handler" /\ record[r] = None /\ r \notin gone
    /\ gone' = gone \cup {r}
    /\ UNCHANGED <<reqVars, expired, inFlight>>

Done == (\A r \in Requests : at[r] = "done") /\ UNCHANGED vars

Next ==
    \/ \E r \in Requests :
         \/ Enter(r) \/ Acquire(r) \/ Limit(r) \/ Answer(r) \/ WriteFails(r) \/ Leave(r)
         \/ Release(r) \/ Budget(r) \/ AccessLog(r) \/ Expire(r) \/ HangUp(r)
    \/ Done

Spec == Init /\ [][Next]_vars

-----------------------------------------------------------------------------
(* Properties *)

\* SlotsAreExact: the semaphore counts the requests that occupy a handler, no more than
\* the limit, through panics, aborts and expired budgets: no slot is ever lost.
SlotsAreExact ==
    limit > 0 => /\ inFlight <= limit
                 /\ inFlight = Cardinality({r \in Requests \ Probes : at[r] \in Inside})

\* AnsweredOnce: no middleware answers over a response that has begun.
AnsweredOnce == \A r \in Requests : answers[r] <= 1

\* LogIsTrue: the access log names the problem a request was answered with, unless its
\* client had hung up, and a request whose budget was spent before its handler returned
\* without an answer is not logged as a success (AccessLog, after RequestBudget).
LogIsTrue ==
    [][\A r \in Requests :
         AccessLog(r) => /\ record[r] # None /\ r \notin gone => status[r] = record[r]
                         /\ ~committed(r) => r \notin expired]_vars
=============================================================================
