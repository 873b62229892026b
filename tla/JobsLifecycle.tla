----------------------------- MODULE JobsLifecycle -----------------------------
(***************************************************************************)
(* cmd/jobs-worker/internal/bootstrap, run.go: one process that runs River *)
(* jobs.  Soft stop, hard stop and the verdict whether the pool and the    *)
(* telemetry may be released under River.                                  *)
(***************************************************************************)
EXTENDS RiverRuntime

VARIABLES
    main,          \* where run is
    ready,         \* what the diagnostics listener answers
    diagnostics,   \* the listener: "none", "serving", "stopped"
    signal,        \* signalCtx has ended
    expired,       \* the current stop stage has reached its deadline
    riverStopped,  \* what the stop stages found
    stopErr,       \* "none", "nil", "deadline", "other"
    cleanupSafe,   \* the verdict
    trigger,       \* run has an error of its own to report
    pool,          \* "open" or "closed"
    exit           \* "none", "ok", "error"

ownVars == <<main, ready, diagnostics, signal, expired, riverStopped, stopErr, cleanupSafe,
             trigger, pool, exit>>
vars == <<riverVars, ownVars>>

Init ==
    /\ RiverInit
    /\ main = "start" /\ ready = FALSE /\ diagnostics = "none" /\ signal = FALSE
    /\ expired = FALSE /\ riverStopped = FALSE /\ stopErr = "none" /\ cleanupSafe = TRUE
    /\ trigger = FALSE /\ pool = "open" /\ exit = "none"

Signal ==
    /\ ~signal
    /\ signal' = TRUE
    /\ startupDone' = TRUE
    /\ UNCHANGED <<river, stopping, job, runtimeCancel, startVars, main, ready, diagnostics,
                   expired, riverStopped, stopErr, cleanupSafe, trigger, pool, exit>>

\* StartRuntime has returned: serve, stop what started, or just leave.
Started ==
    /\ main = "start"
    /\ start = "over"
    /\ main' = IF ~startErr THEN "listen" ELSE IF started THEN "hard" ELSE "leave"
    /\ trigger' = startErr
    /\ stopping' = (stopping \/ (startErr /\ started))
    /\ UNCHANGED <<river, job, startupDone, runtimeCancel, startVars, ready, diagnostics, signal,
                   expired, riverStopped, stopErr, cleanupSafe, pool, exit>>

\* ready, then ListenDiagnostics; a River that cannot be observed is stopped again.
Listen(ok) ==
    /\ main = "listen"
    /\ ready' = TRUE
    /\ diagnostics' = IF ok THEN "serving" ELSE "none"
    /\ main' = IF ok THEN "serve" ELSE "hard"
    /\ trigger' = ~ok
    /\ stopping' = (stopping \/ ~ok)
    /\ UNCHANGED <<river, job, startupDone, runtimeCancel, startVars, signal, expired,
                   riverStopped, stopErr, cleanupSafe, pool, exit>>

DiagnosticsFail ==
    /\ diagnostics = "serving"
    /\ main = "serve"
    /\ diagnostics' = "stopped"
    /\ UNCHANGED <<riverVars, main, ready, signal, expired, riverStopped, stopErr, cleanupSafe,
                   trigger, pool, exit>>

\* The select, ready withdrawn, the teardown armed, and the soft stop begun.
Trigger ==
    /\ main = "serve"
    /\ \/ signal /\ trigger' = FALSE
       \/ (river = "stopped" \/ diagnostics = "stopped") /\ trigger' = TRUE
    /\ ready' = FALSE
    /\ stopping' = TRUE
    /\ main' = "soft"
    /\ UNCHANGED <<river, job, startupDone, runtimeCancel, startVars, diagnostics, signal, expired,
                   riverStopped, stopErr, cleanupSafe, pool, exit>>

Expire ==
    /\ main \in {"soft", "hard"}
    /\ ~expired
    /\ expired' = TRUE
    /\ UNCHANGED <<riverVars, main, ready, diagnostics, signal, riverStopped, stopErr, cleanupSafe,
                   trigger, pool, exit>>

\* Stop or StopAndCancel returns: River stopped, or the stage is over.
StopReturns(err) ==
    \/ river = "stopped" /\ err = "nil"
    \/ expired /\ err = "deadline"

\* Variant: a stop stage that ended counts as a stopped River.
StoppedBeforeReturnAny(err) == TRUE

\* StoppedBeforeReturn: after an error the channel is only polled.
StoppedBeforeReturn(err) == river = "stopped"

\* The soft stop, and the hard stop if it did not join.
SoftStop(err) ==
    /\ main = "soft"
    /\ StopReturns(err)
    /\ riverStopped' = StoppedBeforeReturn(err)
    /\ main' = IF riverStopped' THEN "verdict" ELSE "hard"
    /\ stopErr' = err
    /\ expired' = FALSE
    /\ UNCHANGED <<riverVars, ready, diagnostics, signal, cleanupSafe, trigger, pool, exit>>

\* hardStopRiver.
HardStop(err) ==
    /\ main = "hard"
    /\ StopReturns(err)
    /\ riverStopped' = StoppedBeforeReturn(err)
    /\ stopErr' = err
    /\ main' = "verdict"
    /\ UNCHANGED <<riverVars, ready, diagnostics, signal, expired, cleanupSafe, trigger, pool, exit>>

\* A deadline of a stop that joined after all is not reported.
forgiven(err) == IF riverStopped /\ err = "deadline" THEN "nil" ELSE err

Verdict ==
    /\ main = "verdict"
    /\ cleanupSafe' = riverStopped
    /\ stopErr' = forgiven(stopErr)
    /\ runtimeCancel' = (runtimeCancel \/ riverStopped)
    /\ diagnostics' = IF diagnostics = "none" THEN "none" ELSE "stopped"
    /\ main' = "leave"
    /\ UNCHANGED <<river, stopping, job, startupDone, startVars, ready, signal, expired,
                   riverStopped, trigger, pool, exit>>

\* The deferred cancelRun, pool.Close and telemetry flush, in that order.
Leave ==
    /\ main = "leave"
    /\ runtimeCancel' = TRUE
    /\ pool' = IF cleanupSafe THEN "closed" ELSE "open"
    /\ exit' = IF trigger \/ stopErr \notin {"none", "nil"} THEN "error" ELSE "ok"
    /\ main' = "exit"
    /\ UNCHANGED <<river, stopping, job, startupDone, startVars, ready, diagnostics, signal,
                   expired, riverStopped, stopErr, cleanupSafe, trigger>>

Exited == main = "exit" /\ UNCHANGED vars

StopErrors == {"nil", "deadline"}

Own ==
    \/ Started \/ \E ok \in BOOLEAN : Listen(ok)
    \/ Trigger \/ \E err \in StopErrors : SoftStop(err) \/ HardStop(err)
    \/ Verdict \/ Leave

RiverRuns == RiverStep /\ main # "exit" /\ UNCHANGED ownVars

Next == RiverRuns \/ Signal \/ DiagnosticsFail \/ Expire \/ Own \/ Exited

Spec == Init /\ [][Next]_vars

\* StartRuntime's code runs and River's start returns.
Starting ==
    /\ StartCall \/ AfterFuncFires \/ Detach \/ \E ok \in BOOLEAN : StartReturns(ok)
    /\ UNCHANGED ownVars

\* And timers fire.  A job need not end.
FairSpec == Spec /\ WF_vars(Own) /\ WF_vars(Expire) /\ WF_vars(Starting)
-----------------------------------------------------------------------------
(* Properties *)

\* PoolOutlivesRiver: the pool is closed, and the process exits without an error, only
\* when River has joined: no job loses its pool, whether the start was cut short, the
\* listener could not bind or a job ignored both stops.
PoolOutlivesRiver ==
    /\ pool = "closed" => river # "running" /\ ~job
    /\ exit = "ok" => pool = "closed"

\* AdmittedIsLive: once serving, the end of the startup context no longer reaches River:
\* only the teardown stops it (StartRuntime's detach).
AdmittedIsLive == main \in {"listen", "serve"} => ~runtimeCancel /\ afterFunc = "detached"

\* StopsOnEvent: a signal, a lost listener and a River that stopped lead to the exit, also
\* when a job never ends.
StopEvent == signal \/ diagnostics = "stopped" \/ river = "stopped"
StopsOnEvent == StopEvent ~> main = "exit"
=============================================================================
