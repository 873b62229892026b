----------------------------- MODULE InboundWebhook -----------------------------
(***************************************************************************)
(* internal/infra/postgresinboundwebhook: the receiver accepts one webhook *)
(* identity (endpoint and delivery id) at most once, in one transaction    *)
(* with the River job that processes it; the worker brings the receipt to  *)
(* one terminal outcome.                                                   *)
(*                                                                         *)
(* River (external) counts an attempt when it fetches a job, gives it back *)
(* for a snooze, discards a job whose last attempt returned an error, and  *)
(* rescues jobs of executions that never reported: for another attempt,    *)
(* or, when there is none left, into the discarded state.                  *)
(***************************************************************************)
EXTENDS Naturals

CONSTANTS
    Deliveries,   \* calls that carry the identity, the sender's retries included
    Bodies,       \* what they carry
    Executions,   \* executions of the job that may overlap
    MaxAttempts,  \* inboundJobMaxAttempts
    None

VARIABLES
    body,      \* body[d]: what delivery d carries
    genuine,   \* deliveries whose timestamp and signature verify
    call,      \* call[d]: where the receiver is with d
    answer,    \* answer[d]: what the sender of d was told
    lock,      \* the delivery whose uncommitted receipt holds the identity
    receipt,   \* the delivery whose receipt is committed
    outcome,   \* the receipt's outcome
    bound,     \* the worker's snapshot binds the endpoint
    job,       \* the River job: "none", "available", "running", "completed", "discarded"
    attempt,   \* its attempt number
    exec,      \* exec[e]: the execution's step and the attempt it saw
    stale,     \* executions whose context ended before their job was rescued
    lastCrash  \* an execution of the last attempt ended with its process

callVars == <<body, genuine, call, answer, lock>>
jobVars == <<job, attempt, exec, stale>>
vars == <<callVars, receipt, outcome, bound, jobVars, lastCrash>>

Idle == [step |-> "idle", attempt |-> 0]

Init ==
    /\ body \in [Deliveries -> Bodies]
    /\ genuine \in SUBSET Deliveries
    /\ call = [d \in Deliveries |-> "verify"]
    /\ answer = [d \in Deliveries |-> "none"]
    /\ lock = None /\ receipt = None /\ outcome = "none"
    /\ bound \in BOOLEAN
    /\ job = "none" /\ attempt = 0
    /\ exec = [e \in Executions |-> Idle] /\ stale = {}
    /\ lastCrash = FALSE

TypeOK ==
    /\ body \in [Deliveries -> Bodies] /\ genuine \subseteq Deliveries
    /\ call \in [Deliveries -> {"verify", "claim", "read", "commit", "limbo", "done"}]
    /\ answer \in [Deliveries -> {"none", "accepted", "duplicate", "conflict", "rejected",
                                  "unknown endpoint", "unavailable", "canceled"}]
    /\ {lock, receipt} \subseteq Deliveries \cup {None}
    /\ outcome \in {"none", "pending", "handled", "quarantined", "failed"}
    /\ job \in {"none", "available", "running", "completed", "discarded"}
    /\ attempt \in Nat /\ stale \subseteq Executions
    /\ exec \in [Executions -> [step : {"idle", "load", "dispatch", "handled", "quarantined", "failed"},
                                attempt : Nat]]
    /\ {bound, lastCrash} \subseteq BOOLEAN

-----------------------------------------------------------------------------
(* Receiver *)

AnswerWith(d, a) ==
    /\ call' = [call EXCEPT ![d] = "done"]
    /\ answer' = [answer EXCEPT ![d] = a]

ToCall(d, step) == call' = [call EXCEPT ![d] = step] /\ UNCHANGED answer

\* Receive and verify: the endpoint, which the manifest of the receiver that d meets may not
\* name, tolerance, then the active and the predecessor secret.
Verify(d) ==
    /\ call[d] = "verify"
    /\ \/ AnswerWith(d, "unknown endpoint")
       \/ d \in genuine /\ ToCall(d, "claim")
       \/ d \notin genuine /\ AnswerWith(d, "rejected")
    /\ UNCHANGED <<body, genuine, lock, receipt, outcome, bound, jobVars, lastCrash>>

\* ClaimInboundWebhookReceipt waits for an uncommitted receipt of the identity; an
\* inserted receipt takes its job with it.
Claim(d) ==
    /\ call[d] = "claim"
    /\ lock = None
    /\ IF receipt = None
       THEN lock' = d /\ ToCall(d, "commit")
       ELSE ToCall(d, "read") /\ UNCHANGED lock
    /\ UNCHANGED <<body, genuine, receipt, outcome, bound, jobVars, lastCrash>>

\* Variant: an existing receipt is a duplicate whatever it carries.
existingIsDuplicate(d) == "duplicate"

\* Accept on a receipt that exists.
existingMeans(d) == IF body[receipt] = body[d] THEN "duplicate" ELSE "conflict"

ReadExisting(d) ==
    /\ call[d] = "read"
    /\ AnswerWith(d, existingMeans(d))
    /\ UNCHANGED <<body, genuine, lock, receipt, outcome, bound, jobVars, lastCrash>>

\* The transaction fails before its commit, or its commit is refused; when the caller's
\* context is what ended, the caller is told that.
AcceptFails(d) ==
    /\ call[d] \in {"claim", "read", "commit"}
    /\ \E a \in {"unavailable", "canceled"} : AnswerWith(d, a)
    /\ lock' = IF lock = d THEN None ELSE lock
    /\ UNCHANGED <<body, genuine, receipt, outcome, bound, jobVars, lastCrash>>

\* Receipt and job become visible together.
Committed(d) ==
    /\ receipt' = d /\ outcome' = "pending" /\ job' = "available"
    /\ lock' = None

AcceptCommits(d) ==
    /\ call[d] = "commit"
    /\ Committed(d)
    /\ AnswerWith(d, "accepted")
    /\ UNCHANGED <<body, genuine, bound, attempt, exec, stale, lastCrash>>

\* Variant: a caller whose context ended is told only that.
unknownCommitCanceled == "canceled"

\* Receive on a commit of unknown outcome, whatever error is joined to it.
unknownCommit == "unavailable"

\* The answer to COMMIT is lost: the sender is told "unavailable" and may call again.
CommitLost(d) ==
    /\ call[d] = "commit"
    /\ call' = [call EXCEPT ![d] = "limbo"]
    /\ answer' = [answer EXCEPT ![d] = unknownCommit]
    /\ UNCHANGED <<body, genuine, lock, receipt, outcome, bound, jobVars, lastCrash>>

ServerDecides(d, commits) ==
    /\ call[d] = "limbo"
    /\ call' = [call EXCEPT ![d] = "done"]
    /\ IF commits THEN Committed(d) ELSE lock' = None /\ UNCHANGED <<receipt, outcome, job>>
    /\ UNCHANGED <<body, genuine, answer, bound, attempt, exec, stale, lastCrash>>

-----------------------------------------------------------------------------
(* Worker and River *)

Fetch(e) ==
    /\ job = "available"
    /\ exec[e].step = "idle"
    /\ job' = "running"
    /\ attempt' = attempt + 1
    /\ exec' = [exec EXCEPT ![e] = [step |-> "load", attempt |-> attempt + 1]]
    /\ UNCHANGED <<callVars, receipt, outcome, bound, stale, lastCrash>>

\* Work returns; River changes a job that is still running.
Report(e, result) ==
    /\ exec' = [exec EXCEPT ![e] = Idle]
    /\ stale' = stale \ {e}
    /\ job' = CASE job # "running" -> job
                [] result = "nil" -> "completed"
                [] result = "error" /\ exec[e].attempt >= MaxAttempts -> "discarded"
                [] OTHER -> "available"
    /\ attempt' = IF job = "running" /\ result = "snooze" THEN attempt - 1 ELSE attempt

ToStep(e, step) == exec' = [exec EXCEPT ![e].step = step] /\ UNCHANGED <<job, attempt, stale>>

\* Variant: the last attempt is like the others.
isLastNever(e) == FALSE

\* job.Attempt >= job.MaxAttempts.
isLast(e) == exec[e].attempt >= MaxAttempts

\* Registry.HasBinding in the worker's snapshot.
HasBinding == bound

\* Work up to the dispatch.
Load(e) ==
    /\ exec[e].step = "load"
    /\ \/ outcome # "pending" /\ Report(e, "nil")
       \/ outcome = "pending" /\ ~HasBinding /\ Report(e, "snooze")
       \/ outcome = "pending" /\ HasBinding /\ ToStep(e, IF isLast(e) THEN "failed" ELSE "dispatch")
    /\ UNCHANGED <<callVars, receipt, outcome, bound, lastCrash>>

\* loadByID fails.
LoadFails(e) ==
    /\ exec[e].step = "load"
    /\ Report(e, IF isLast(e) THEN "snooze" ELSE "error")
    /\ UNCHANGED <<callVars, receipt, outcome, bound, lastCrash>>

\* errHandlerFailed, errDecoderFailed, errPanicRecovered: River tries again.
retry(e) == Report(e, "error")

\* The handler bound to the endpoint returns nil.
handles(e) == ToStep(e, "handled")

\* Bind's wrapper: the decoder refuses the payload with ErrDecodeRejected.
decodeRejects(e) == ToStep(e, "quarantined")

\* Dispatch: the handler accepts, the decoder rejects for good, or something else fails,
\* a recovered panic included.
Dispatch(e) ==
    /\ exec[e].step = "dispatch"
    /\ \/ handles(e)
       \/ decodeRejects(e)
       \/ retry(e)
    /\ UNCHANGED <<callVars, receipt, outcome, bound, lastCrash>>

\* Variant: the update does not ask for a pending receipt.
markAlways(o) == outcome' = o

\* MarkInboundWebhook...: UPDATE ... WHERE outcome = 'pending'.
mark(o) == outcome' = IF outcome = "pending" THEN o ELSE outcome

\* MarkHandled, MarkQuarantined, or finalize's MarkFailed succeeds; a dead context cannot.
Mark(e) ==
    /\ exec[e].step \in {"handled", "quarantined", "failed"}
    /\ e \notin stale
    /\ mark(exec[e].step)
    /\ Report(e, "nil")
    /\ UNCHANGED <<callVars, receipt, bound, lastCrash>>

\* It fails, with the update applied or not; finalize snoozes.
MarkFails(e) ==
    /\ exec[e].step \in {"handled", "quarantined", "failed"}
    /\ \/ e \notin stale /\ mark(exec[e].step)
       \/ UNCHANGED outcome
    /\ Report(e, IF exec[e].step = "failed" THEN "snooze" ELSE "error")
    /\ UNCHANGED <<callVars, receipt, bound, lastCrash>>

\* The process ends; its jobs stay running in the table.
Crash(e) ==
    /\ exec[e].step # "idle"
    /\ exec' = [exec EXCEPT ![e] = Idle]
    /\ stale' = stale \ {e}
    /\ lastCrash' = (lastCrash \/ isLast(e))
    /\ UNCHANGED <<callVars, receipt, outcome, bound, job, attempt>>

\* River's rescuer, long after every job timeout: only a handler that ignores its context
\* can still be running.
Rescue ==
    /\ job = "running"
    /\ \A e \in Executions \ stale : exec[e].step \in {"idle", "dispatch"}
    /\ job' = IF attempt < MaxAttempts THEN "available" ELSE "discarded"
    /\ stale' = {e \in Executions : exec[e].step # "idle"}
    /\ UNCHANGED <<callVars, receipt, outcome, bound, attempt, exec, lastCrash>>

\* A worker with other bindings is deployed.
Rebind == bound' = ~bound /\ UNCHANGED <<callVars, receipt, outcome, jobVars, lastCrash>>

Receive(d) ==
    \/ Verify(d) \/ Claim(d) \/ ReadExisting(d) \/ AcceptFails(d)
    \/ AcceptCommits(d) \/ CommitLost(d) \/ \E commits \in BOOLEAN : ServerDecides(d, commits)
Work(e) == Load(e) \/ LoadFails(e) \/ Dispatch(e) \/ Mark(e) \/ MarkFails(e)

Next ==
    \/ \E d \in Deliveries : Receive(d)
    \/ \E e \in Executions : Fetch(e) \/ Work(e) \/ Crash(e)
    \/ Rescue \/ Rebind

Spec == Init /\ [][Next]_vars

\* River fetches, executions step or return, a database that keeps being asked answers,
\* and a complete binding set comes back; no worker dies in the last attempt.
Fairness ==
    /\ WF_vars(Rescue) /\ WF_vars(~bound /\ Rebind)
    /\ WF_vars(\E e \in Executions : Fetch(e))
    /\ \A e \in Executions : WF_vars(Work(e)) /\ SF_vars(Load(e) /\ bound) /\ SF_vars(Mark(e))
    /\ [](~lastCrash) /\ <>[][~(bound /\ Rebind)]_vars

FairSpec == Spec /\ Fairness

-----------------------------------------------------------------------------
(* Properties *)

\* AnswerIsTrue: a sender told "accepted" or "duplicate" has its exact body in the one
\* durable receipt of the identity, and a "conflict" names another body (Accept in one
\* transaction; an unknown commit is never acknowledged); one that was turned away, or told
\* that its call ended, left no receipt and never will (an unknown commit is never reported
\* as a cancellation).
AnswerIsTrue ==
    \A d \in Deliveries :
      /\ answer[d] \in {"accepted", "duplicate"} => receipt # None /\ body[receipt] = body[d]
      /\ answer[d] = "conflict" => receipt # None /\ body[receipt] # body[d]
      /\ answer[d] \in {"rejected", "unknown endpoint", "canceled"} =>
           receipt # d /\ call[d] # "limbo"

\* ReceiptIsFinal: a receipt is never replaced, and no late or repeated execution changes
\* a terminal outcome (the outcome = 'pending' guards).
ReceiptIsFinal ==
    [][/\ receipt # None => receipt' = receipt
       /\ outcome \in {"handled", "quarantined", "failed"} => outcome' = outcome]_vars

\* PendingIsOwned: a pending receipt has a job that River will still run.
PendingIsOwned == outcome = "pending" => job \in {"available", "running"}

\* EventuallyTerminal: an accepted delivery reaches a terminal outcome.
EventuallyTerminal == outcome = "pending" ~> outcome # "pending"
=============================================================================
