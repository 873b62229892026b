----------------------------- MODULE WebhookDelivery -----------------------------
(***************************************************************************)
(* internal/infra/postgreswebhook/handler.go and transport.go: one River   *)
(* job delivers one webhook.  An attempt resolves the receiver to some     *)
(* addresses and tries them in order until one may have got the request.   *)
(* River (external) schedules the attempts at the times of WebhookRetry    *)
(* and rescues attempts whose process ended.  What an attempt found out,   *)
(* its Retry-After included, is in the process until River has stored it:  *)
(* a process that ends before that takes it along.                         *)
(***************************************************************************)
EXTENDS WebhookRetry, FiniteSets

CONSTANTS
    Addresses,    \* how many addresses an attempt resolves, at most
    MaxAttempts,  \* maxAttempts
    Horizon       \* the model's end of time

VARIABLES
    now,
    job,        \* "available", "running", "completed", "cancelled", "discarded"
    attempt,    \* its attempt number
    due,        \* when River runs it next
    hint,       \* the Retry-After time in its stored metadata
    step,       \* the execution: "none", "begin", "send", "report"
    began,      \* attemptedAt
    address,    \* the address it is at
    addresses,  \* how many it resolved
    returned,   \* what Work returned and River has not stored
    writes,     \* <<attempt, address>>: a request may have reached the address
    acked       \* a receiver has answered 2xx

jobVars == <<job, attempt, due, hint>>
execVars == <<step, began, address, addresses, returned>>
vars == <<now, jobVars, execVars, writes, acked>>

\* Nothing is waiting to be stored.
Stored == [result |-> "none", view |-> NoTime, set |-> NoTime]

Init ==
    /\ now = 0 /\ job = "available" /\ attempt = 0 /\ due = 0 /\ hint = NoTime
    /\ step = "none" /\ began = 0 /\ address = 0 /\ addresses = 0
    /\ returned = Stored /\ writes = {} /\ acked = FALSE

\* Time passes, to the moments that matter to the schedule.
Tick ==
    /\ \E t \in {now + 1, due, MaxElapsed - 1, MaxElapsed} :
         t > now /\ t <= Horizon /\ now' = t
    /\ UNCHANGED <<jobVars, execVars, writes, acked>>

Fetch ==
    /\ job = "available" /\ now >= due
    /\ job' = "running" /\ attempt' = attempt + 1
    /\ step' = "begin"
    /\ UNCHANGED <<now, due, hint, began, address, addresses, returned, writes, acked>>

\* The job's own view of the metadata and what MetadataSet leaves to store: as they were.
kept == [view |-> hint, set |-> hint]

\* The locals of Work are gone.
Forget == began' = 0 /\ address' = 0 /\ addresses' = 0

\* Work returns with metadata m; the result is River's to store.
Return(result, m) ==
    /\ step' = "report" /\ Forget
    /\ returned' = [result |-> result, view |-> m.view, set |-> m.set]
    /\ UNCHANGED <<now, jobVars>>

\* River stores how an execution ended, and the metadata with it.  NextRetry of an error is
\* asked before that, of the job as the process sees it.
Store(result, view, set) ==
    /\ step' = "none"
    /\ returned' = Stored
    /\ hint' = set
    /\ \/ result = "nil" /\ job' = "completed" /\ UNCHANGED due
       \/ result = "cancel" /\ job' = "cancelled" /\ UNCHANGED due
       \/ result = "error" /\ attempt >= MaxAttempts /\ job' = "discarded" /\ UNCHANGED due
       \/ /\ result = "error" /\ attempt < MaxAttempts
          /\ job' = "available"
          /\ \E b \in webhookBackoff(attempt) : due' = webhookNextRetry(0, b, view, now)
    /\ UNCHANGED <<now, attempt, began, address, addresses, writes, acked>>

Report == step = "report" /\ Store(returned.result, returned.view, returned.set)

\* A denied destination is permanent; a failed look-up, missing secret or ended context is not.
prepareFailure(err) == IF err = "denied" THEN "cancel" ELSE "error"

\* prepareSend: an error, or the sorted distinct public addresses of the receiver (how many).
prepareSend == {<<"denied", 0>>, <<"other", 0>>} \cup {<<"nil", n>> : n \in 1 .. Addresses}

\* Work up to the send: the deadline, the destination, the secrets and the signature.
Begin ==
    /\ step = "begin"
    /\ \/ webhookDeliveryExpired(0, now) /\ Return("cancel", kept)
       \/ /\ ~webhookDeliveryExpired(0, now)
          /\ \E p \in prepareSend :
               \/ p[1] # "nil" /\ Return(prepareFailure(p[1]), kept)
               \/ /\ p[1] = "nil"
                  /\ step' = "send" /\ began' = now /\ address' = 1 /\ addresses' = p[2]
                  /\ UNCHANGED <<now, jobVars, returned>>
    /\ UNCHANGED <<writes, acked>>

Wrote == writes' = writes \cup {<<attempt, address>>}

\* Variant: any error moves on to the next address.
triesNextOnError(certainty) == TRUE

\* tryPreparedAddresses: only a request that was definitely not sent is tried elsewhere.
triesNext(certainty) == certainty = "not sent"

\* sendWithTransport fails, before (certaintyForWrite) or after the request was written; a
\* failed TLS validation is permanent at the last address.
SendFails(certainty, permanent) ==
    /\ step = "send"
    /\ certainty = "may have sent" => ~permanent
    /\ IF certainty = "may have sent" THEN Wrote ELSE UNCHANGED writes
    /\ IF triesNext(certainty) /\ address < addresses
       THEN address' = address + 1 /\ UNCHANGED <<now, jobVars, step, began, addresses, returned>>
       ELSE Return(IF permanent THEN "cancel" ELSE "error", kept)
    /\ UNCHANGED acked

\* classifyDelivery on a response.
classifyDelivery(status) ==
    CASE status = "2xx" -> "nil"
      [] status = "retryable" -> "error"
      [] status = "other" -> "cancel"

\* Variant: the time is set to be stored, and the attempt's own view is not brought up to it.
rememberRetryAfterSet(t) == [view |-> hint, set |-> t]

\* rememberRetryAfter: the time is set to be stored, and put into the view NextRetry reads.
rememberRetryAfter(t) == [view |-> t, set |-> t]

\* The receiver answers.  A retryable status may ask for a delay, which is remembered, or
\* cannot be (its error is joined to the retryable one).
Respond(status, delay) ==
    /\ step = "send"
    /\ Wrote
    /\ acked' = (acked \/ status = "2xx")
    /\ \/ Return(classifyDelivery(status), kept)
       \/ /\ status = "retryable" /\ delay # NoTime
          /\ Return("error", rememberRetryAfter(began + delay))

\* The process ends, whatever it has found out; a request may be on its way.
Crash ==
    /\ step # "none"
    /\ step' = "none" /\ Forget
    /\ returned' = Stored
    /\ UNCHANGED writes \/ (step = "send" /\ Wrote)
    /\ UNCHANGED <<now, jobVars, acked>>

\* River's rescuer asks NextRetry of the job as it is stored, or discards the last attempt.
Rescue == job = "running" /\ step = "none" /\ Store("error", hint, hint)

\* The job is final, or the model's time is over.
Done == (job \in {"completed", "cancelled", "discarded"} \/ now = Horizon) /\ UNCHANGED vars

Next ==
    \/ Tick \/ Fetch \/ Begin \/ Report \/ Crash \/ Rescue \/ Done
    \/ \E certainty \in {"not sent", "may have sent"}, permanent \in BOOLEAN : SendFails(certainty, permanent)
    \/ \E status \in {"2xx", "retryable", "other"}, delay \in retryAfters(began) : Respond(status, delay)

Spec == Init /\ [][Next]_vars

-----------------------------------------------------------------------------
(* Properties *)

\* DueByDeadline: no attempt is scheduled beyond the delivery's deadline, except the one
\* that only cancels, whatever receivers ask for.
DueByDeadline == job = "available" => due <= MaxElapsed \/ now >= MaxElapsed

\* RetryAfterHonoured: a Retry-After that was stored with its attempt, capped as
\* parseRetryAfter caps it, is a floor under every later attempt until another one replaces
\* it, whatever rescues and failures recompute the schedule in between; only the attempt
\* that cancels at the deadline may come before it.  A Retry-After whose process ends before
\* River stores it is not covered: nothing is left of it.
RetryAfterHonoured ==
    [][Fetch => hint = NoTime \/ now >= hint \/ now >= MaxElapsed]_vars

\* OneAddressPerAttempt: an attempt may have reached one address at most; the fall-back to
\* another never repeats a request that may have been sent, and a process that ends while it
\* sends leaves nothing to a second address.
OneAddressPerAttempt == \A w1, w2 \in writes : w1[1] = w2[1] => w1 = w2

\* CompletedIsAcked: a completed delivery was acknowledged by its receiver with 2xx.
CompletedIsAcked == job = "completed" => acked
=============================================================================
