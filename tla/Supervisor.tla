------------------------------ MODULE Supervisor ------------------------------
(***************************************************************************)
(* internal/background.Supervisor: long-lived tasks run under one context, *)
(* their first failure is recorded for readiness and for the lifecycle     *)
(* owner, and Shutdown joins them within a bounded context.                *)
(*                                                                         *)
(* Every task is one goroutine (plus the caller of Go), every caller of    *)
(* Shutdown is one goroutine, and the goroutine that Shutdown starts to    *)
(* wait for the errgroup is the variable waiter.  A failure is identified  *)
(* by the task it came from.                                               *)
(***************************************************************************)
EXTENDS Naturals

CONSTANTS
    Tasks,      \* the tasks handed to Go, each once
    Runnable,   \* those whose Run is not nil
    Callers,    \* the goroutines that call Shutdown
    NoErr,      \* the nil error (and the empty firstFailure channel)
    Deadline,   \* "background tasks did not stop within the shutdown budget"
    NoCaller    \* nobody has entered stopOnce

ASSUME SupervisorConstants ==
    /\ Runnable \subseteq Tasks
    /\ NoErr \notin Tasks
    /\ Deadline \notin Tasks
    /\ Deadline # NoErr
    /\ NoCaller \notin Callers

VARIABLES
    pc,              \* where each task's goroutine is
    result,          \* what runTask returned for each task
    stopping,        \* Supervisor.stopping
    taskCtxDone,     \* taskCtx has been canceled
    recordedFailure, \* Supervisor.recordedFailure
    firstFailure,    \* the buffered channel of capacity one
    delivered,       \* what the lifecycle owner has received from it
    groupErr,        \* the first error the errgroup kept
    owner,           \* the caller running the body of stopOnce
    spc,             \* where each Shutdown caller is
    ctxDone,         \* each caller's own shutdown context is done
    waiter,          \* the goroutine waiting for the group
    stopErr,         \* Supervisor.stopErr
    answer           \* what each Shutdown call returned

taskVars == <<pc, result, recordedFailure, firstFailure, groupErr>>
stopVars == <<stopping, owner, spc, waiter, stopErr, answer>>
vars == <<taskVars, stopVars, taskCtxDone, delivered, ctxDone>>

\* The tasks the errgroup has accepted, and those of them whose goroutine is over.
Accepted == {t \in Runnable : pc[t] \notin {"new", "rejected"}}
Joined == {t \in Accepted : pc[t] = "done"}

TaskPC == {"new", "rejected", "running", "recordStop", "recordCtx",
           "recordCAS", "send", "finish", "done"}
Failures == {"panic", "failed", "stopped"}
Results == {"none", "nil"} \cup Failures
\* What Run may do: return nil, return only the context's cause, return another
\* error (alone or joined with the cause), or panic.
Outcomes == {"nil", "cause", "error", "panic"}

-----------------------------------------------------------------------------
Init ==
    /\ pc = [t \in Tasks |-> "new"]
    /\ result = [t \in Tasks |-> "none"]
    /\ stopping = FALSE
    /\ taskCtxDone = FALSE
    /\ recordedFailure = NoErr
    /\ firstFailure = NoErr
    /\ delivered = NoErr
    /\ groupErr = NoErr
    /\ owner = NoCaller
    /\ spc = [c \in Callers |-> "idle"]
    /\ ctxDone = [c \in Callers |-> FALSE]
    /\ waiter = "none"
    /\ stopErr = NoErr
    /\ answer = [c \in Callers |-> NoErr]

-----------------------------------------------------------------------------
\* Variant: Go hands the task to the group without testing stopping.
GoWhileStopping(t) ==
    /\ pc[t] = "new"
    /\ pc' = [pc EXCEPT ![t] = IF t \in Runnable THEN "running" ELSE "recordStop"]
    /\ result' = [result EXCEPT ![t] = IF t \in Runnable THEN @ ELSE "failed"]
    /\ UNCHANGED <<recordedFailure, firstFailure, groupErr, stopVars,
                   taskCtxDone, delivered, ctxDone>>

\* Go.  A nil Run is recorded as a failure and never joins the group.  For the
\* rest lifecycleMu makes the test of stopping and group.Go one step.
Go(t) ==
    /\ pc[t] = "new"
    /\ \/ /\ t \notin Runnable
          /\ pc' = [pc EXCEPT ![t] = "recordStop"]
          /\ result' = [result EXCEPT ![t] = "failed"]
       \/ /\ t \in Runnable
          /\ pc' = [pc EXCEPT ![t] = IF stopping THEN "rejected" ELSE "running"]
          /\ UNCHANGED result
    /\ UNCHANGED <<recordedFailure, firstFailure, groupErr, stopVars,
                   taskCtxDone, delivered, ctxDone>>

\* What runTask makes of what Run did, given whether taskCtx is done: a return
\* of only the context's cause, or of nil, is an ordinary stop once it is.
TaskResult(outcome) ==
    CASE outcome = "panic" -> "panic"
      [] outcome = "error" -> "failed"
      [] outcome = "cause" -> IF taskCtxDone THEN "nil" ELSE "failed"
      [] outcome = "nil"   -> IF taskCtxDone THEN "nil" ELSE "stopped"

RunTask(t, outcome) ==
    /\ pc[t] = "running"
    /\ result' = [result EXCEPT ![t] = TaskResult(outcome)]
    /\ pc' = [pc EXCEPT ![t] = "recordStop"]
    /\ UNCHANGED <<recordedFailure, firstFailure, groupErr, stopVars,
                   taskCtxDone, delivered, ctxDone>>

\* Variant: only a returned error is recorded, a task that just ends is not.
RecordStoppingErrors(t) ==
    /\ pc[t] = "recordStop"
    /\ pc' = [pc EXCEPT ![t] =
                 IF result[t] \in {"nil", "stopped"} \/ stopping THEN "finish" ELSE "recordCtx"]
    /\ UNCHANGED <<result, recordedFailure, firstFailure, groupErr, stopVars,
                   taskCtxDone, delivered, ctxDone>>

\* recordStop reads stopping and then taskCtx, swaps recordedFailure in if it
\* is still nil, and the winner of the swap sends to firstFailure.
RecordStopping(t) ==
    /\ pc[t] = "recordStop"
    /\ pc' = [pc EXCEPT ![t] =
                 IF result[t] = "nil" \/ stopping THEN "finish" ELSE "recordCtx"]
    /\ UNCHANGED <<result, recordedFailure, firstFailure, groupErr, stopVars,
                   taskCtxDone, delivered, ctxDone>>

RecordCtx(t) ==
    /\ pc[t] = "recordCtx"
    /\ pc' = [pc EXCEPT ![t] = IF taskCtxDone THEN "finish" ELSE "recordCAS"]
    /\ UNCHANGED <<result, recordedFailure, firstFailure, groupErr, stopVars,
                   taskCtxDone, delivered, ctxDone>>

RecordCAS(t) ==
    /\ pc[t] = "recordCAS"
    /\ IF recordedFailure = NoErr
       THEN /\ recordedFailure' = t
            /\ pc' = [pc EXCEPT ![t] = "send"]
       ELSE /\ pc' = [pc EXCEPT ![t] = "finish"]
            /\ UNCHANGED recordedFailure
    /\ UNCHANGED <<result, firstFailure, groupErr, stopVars, taskCtxDone,
                   delivered, ctxDone>>

Send(t) ==
    /\ pc[t] = "send"
    /\ firstFailure = NoErr
    /\ firstFailure' = t
    /\ pc' = [pc EXCEPT ![t] = "finish"]
    /\ UNCHANGED <<result, recordedFailure, groupErr, stopVars, taskCtxDone,
                   delivered, ctxDone>>

\* The group's function returns: the group keeps the first error it is given.
Finish(t) ==
    /\ pc[t] = "finish"
    /\ pc' = [pc EXCEPT ![t] = "done"]
    /\ groupErr' = IF t \in Runnable /\ result[t] # "nil" /\ groupErr = NoErr
                   THEN t ELSE groupErr
    /\ UNCHANGED <<result, recordedFailure, firstFailure, stopVars, taskCtxDone,
                   delivered, ctxDone>>

TaskStep(t) ==
    \/ RecordStopping(t) \/ RecordCtx(t) \/ RecordCAS(t) \/ Send(t) \/ Finish(t)

\* The lifecycle owner receives from FirstFailure().
Receive ==
    /\ firstFailure # NoErr
    /\ delivered' = firstFailure
    /\ firstFailure' = NoErr
    /\ UNCHANGED <<pc, result, recordedFailure, groupErr, stopVars, taskCtxDone,
                   ctxDone>>

\* New's parent context is canceled.
ParentCancel ==
    /\ ~taskCtxDone
    /\ taskCtxDone' = TRUE
    /\ UNCHANGED <<taskVars, stopVars, delivered, ctxDone>>

-----------------------------------------------------------------------------
\* Shutdown: the first caller enters stopOnce, later callers wait for its body.
Shutdown(c) ==
    /\ spc[c] = "idle"
    /\ IF owner = NoCaller
       THEN /\ owner' = c
            /\ spc' = [spc EXCEPT ![c] = "store"]
       ELSE /\ spc' = [spc EXCEPT ![c] = "blocked"]
            /\ UNCHANGED owner
    /\ UNCHANGED <<taskVars, stopping, waiter, stopErr, answer, taskCtxDone,
                   delivered, ctxDone>>

StoreStopping(c) ==
    /\ spc[c] = "store"
    /\ stopping' = TRUE
    /\ spc' = [spc EXCEPT ![c] = "cancel"]
    /\ UNCHANGED <<taskVars, owner, waiter, stopErr, answer, taskCtxDone,
                   delivered, ctxDone>>

\* s.cancel(), then the goroutine that waits for the group starts.
Cancel(c) ==
    /\ spc[c] = "cancel"
    /\ taskCtxDone' = TRUE
    /\ waiter' = "waiting"
    /\ spc' = [spc EXCEPT ![c] = "select"]
    /\ UNCHANGED <<taskVars, stopping, owner, stopErr, answer, delivered, ctxDone>>

\* group.Wait returns in that goroutine and joined receives the group's error.
GroupWait ==
    /\ waiter = "waiting"
    /\ Joined = Accepted
    /\ waiter' = "joined"
    /\ UNCHANGED <<taskVars, stopping, owner, spc, stopErr, answer, taskCtxDone,
                   delivered, ctxDone>>

\* The select: either case may be taken when both are ready.
SelectJoined(c) ==
    /\ spc[c] = "select"
    /\ waiter = "joined"
    /\ stopErr' = groupErr
    /\ answer' = [answer EXCEPT ![c] = groupErr]
    /\ spc' = [spc EXCEPT ![c] = "returned"]
    /\ UNCHANGED <<taskVars, stopping, owner, waiter, taskCtxDone, delivered, ctxDone>>

\* Variant: Shutdown reports its deadline only once the tasks have stopped.
SelectDeadlineJoined(c) ==
    /\ spc[c] = "select"
    /\ ctxDone[c]
    /\ waiter = "joined"
    /\ stopErr' = Deadline
    /\ answer' = [answer EXCEPT ![c] = Deadline]
    /\ spc' = [spc EXCEPT ![c] = "returned"]
    /\ UNCHANGED <<taskVars, stopping, owner, waiter, taskCtxDone, delivered, ctxDone>>

SelectDeadline(c) ==
    /\ spc[c] = "select"
    /\ ctxDone[c]
    /\ stopErr' = Deadline
    /\ answer' = [answer EXCEPT ![c] = Deadline]
    /\ spc' = [spc EXCEPT ![c] = "returned"]
    /\ UNCHANGED <<taskVars, stopping, owner, waiter, taskCtxDone, delivered, ctxDone>>

\* A later caller leaves stopOnce.Do once the body is over, whatever its own ctx.
OnceDone(c) ==
    /\ spc[c] = "blocked"
    /\ spc[owner] = "returned"
    /\ answer' = [answer EXCEPT ![c] = stopErr]
    /\ spc' = [spc EXCEPT ![c] = "returned"]
    /\ UNCHANGED <<taskVars, stopping, owner, waiter, stopErr, taskCtxDone,
                   delivered, ctxDone>>

ShutdownStep(c) ==
    \/ StoreStopping(c) \/ Cancel(c) \/ SelectJoined(c) \/ SelectDeadline(c)
    \/ OnceDone(c)

\* The budget of a Shutdown context runs out.
Expire(c) ==
    /\ ~ctxDone[c]
    /\ ctxDone' = [ctxDone EXCEPT ![c] = TRUE]
    /\ UNCHANGED <<taskVars, stopVars, taskCtxDone, delivered>>

-----------------------------------------------------------------------------
Next ==
    \/ \E t \in Tasks : Go(t) \/ TaskStep(t)
    \/ \E t \in Tasks, o \in Outcomes : RunTask(t, o)
    \/ \E c \in Callers : Shutdown(c) \/ ShutdownStep(c) \/ Expire(c)
    \/ GroupWait \/ Receive \/ ParentCancel

\* The Go scheduler runs every goroutine that can take a step, and every context
\* the processes hand to Shutdown has a timeout.  Nothing makes a Run return.  These are
\* finitely many steps, so that one fairness condition gets each of them done.
Progress ==
    \/ \E t \in Tasks : TaskStep(t)
    \/ \E c \in Callers : ShutdownStep(c) \/ Expire(c)
    \/ GroupWait
Fairness == WF_vars(Progress)

Spec == Init /\ [][Next]_vars
FairSpec == Spec /\ Fairness

-----------------------------------------------------------------------------
TypeOK ==
    /\ pc \in [Tasks -> TaskPC]
    /\ result \in [Tasks -> Results]
    /\ stopping \in BOOLEAN
    /\ taskCtxDone \in BOOLEAN
    /\ recordedFailure \in Tasks \cup {NoErr}
    /\ firstFailure \in Tasks \cup {NoErr}
    /\ delivered \in Tasks \cup {NoErr}
    /\ groupErr \in Tasks \cup {NoErr}
    /\ owner \in Callers \cup {NoCaller}
    /\ spc \in [Callers -> {"idle", "blocked", "store", "cancel", "select", "returned"}]
    /\ ctxDone \in [Callers -> BOOLEAN]
    /\ waiter \in {"none", "waiting", "joined"}
    /\ stopErr \in Tasks \cup {NoErr, Deadline}
    /\ answer \in [Callers -> Tasks \cup {NoErr, Deadline}]

\* A task that ended in an error is never forgotten: the first such error is
\* recorded for readiness unless the supervisor was already stopping or its
\* context done, and whichever way it went the group holds an error for Shutdown.
NoFailureLost ==
    \A t \in Tasks :
        pc[t] = "done" /\ result[t] \in Failures =>
            /\ recordedFailure # NoErr \/ stopping \/ taskCtxDone
            /\ t \in Runnable => groupErr # NoErr

\* Shutdown that answered without its deadline really joined: every task the
\* group accepted is over, none is accepted afterwards, and the answer is nil
\* exactly when every one of them stopped as asked.
JoinIsComplete ==
    \A c \in Callers :
        spc[c] = "returned" /\ answer[c] # Deadline =>
            /\ Joined = Accepted
            /\ answer[c] = NoErr <=> \A t \in Accepted : result[t] = "nil"

\* Every caller of Shutdown gets the answer of the one execution of its body.
ShutdownAnswersAgree ==
    \A c, d \in Callers :
        spc[c] = "returned" /\ spc[d] = "returned" => answer[c] = answer[d]

\* A failing task never waits for the lifecycle owner: whoever is about to send
\* finds room in firstFailure, and only the recorded failure is ever sent.
SenderNeverBlocks ==
    /\ \A t \in Tasks : pc[t] = "send" => firstFailure = NoErr /\ recordedFailure = t
    /\ {firstFailure, delivered} \subseteq {NoErr, recordedFailure}

\* The recorded failure is the first one for good, it is delivered at most once,
\* and a task ending in whatever way never cancels its siblings' context.
FirstFailureIsFinal ==
    [][/\ recordedFailure # NoErr => recordedFailure' = recordedFailure
       /\ delivered # NoErr => delivered' = delivered
       /\ (\E t \in Tasks : pc'[t] # pc[t]) => taskCtxDone' = taskCtxDone]_vars

\* Supervisor does what Background promises: the tasks in flight, the published
\* failure and the answer of the one Shutdown body.
StopState ==
    IF owner # NoCaller /\ spc[owner] = "returned"
    THEN IF stopErr = Deadline THEN "abandoned" ELSE "joined"
    ELSE IF stopping THEN "begun" ELSE "no"

Contract == INSTANCE Background
    WITH live <- Accepted \ Joined, failure <- recordedFailure, stop <- StopState

\* Every step of the supervisor is a step of that contract or invisible to it: in
\* particular no task joins after a stop began, and a stop that reports a join
\* left nothing running.
ImplementsContract == Contract!BackgroundSpec

\* The inductive invariant behind the properties above, in four parts.
\* Tasks: what a goroutine's place says about the result it carries.
TaskInv ==
    \A t \in Tasks :
        /\ pc[t] \in {"running", "rejected"} => t \in Runnable
        /\ pc[t] \in {"recordStop", "finish", "done"} => result[t] # "none"
        /\ pc[t] \in {"recordCtx", "recordCAS", "send"} => result[t] \in Failures
        /\ pc[t] \in {"finish", "done"} /\ result[t] \in Failures =>
             recordedFailure # NoErr \/ stopping \/ taskCtxDone

\* The channel: only the winner of the swap is between swap and send, and from
\* then on the failure is in one place.
ChannelInv ==
    /\ \A t \in Tasks : pc[t] = "send" =>
         recordedFailure = t /\ firstFailure = NoErr /\ delivered = NoErr
    /\ firstFailure # NoErr => firstFailure = recordedFailure /\ delivered = NoErr
    /\ delivered # NoErr => delivered = recordedFailure

\* The group: it holds an error exactly when a task that is over ended in one.
GroupInv ==
    groupErr # NoErr <=>
        \E t \in Runnable : pc[t] = "done" /\ result[t] # "nil"

\* Shutdown: one caller owns the body, and what has happened follows its place.
StopInv ==
    /\ owner = NoCaller => \A c \in Callers : spc[c] = "idle"
    /\ \A c \in Callers :
         /\ spc[c] \in {"store", "cancel", "select"} => owner = c
         /\ spc[c] = "blocked" => owner # c
         /\ spc[c] = "returned" => spc[owner] = "returned" /\ answer[c] = stopErr
    /\ owner # NoCaller => spc[owner] # "idle"
    /\ owner # NoCaller /\ spc[owner] # "store" => stopping
    /\ waiter # "none" => stopping
    /\ waiter = "joined" => Joined = Accepted
    /\ owner # NoCaller /\ spc[owner] = "returned" /\ stopErr # Deadline =>
         waiter = "joined" /\ stopErr = groupErr

\* The state of the tasks, of the failure channel, of the group and of Shutdown
\* hang together at every step: a reader of any of them may rely on the others.
SupervisorInv == TypeOK /\ TaskInv /\ ChannelInv /\ GroupInv /\ StopInv

\* Every call of Shutdown returns, also when a task ignores its cancellation and
\* also for callers that find the body already running.
ShutdownReturns ==
    \A c \in Callers : spc[c] # "idle" ~> spc[c] = "returned"
=============================================================================
