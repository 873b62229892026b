---------------------------- MODULE RelayLifecycle ----------------------------
(***************************************************************************)
(* cmd/outbox-relay/internal/bootstrap, run.go: one process in which River *)
(* jobs publish outbox records through a NATS connection.  Two owners -    *)
(* River and the supervised background tasks - use the pool and the        *)
(* connection, and both have to be joined before either is closed; the     *)
(* publisher may only be withdrawn once no job publishes.                  *)
(***************************************************************************)
EXTENDS RiverRuntime

VARIABLES
    main,          \* where runLifecycle is
    admitted,      \* the admitted flag
    background,    \* the supervised tasks: "none", "running", "failed", "joined", "abandoned"
    connection,    \* the NATS connection: "open", "lost", "closed"
    publishing,    \* publications are accepted
    diagnostics,   \* the listener: "none", "serving", "stopped"
    signal,        \* signalCtx has ended
    expired,       \* the current stage has reached its deadline
    riverErr,      \* River's stop reported an error
    cleanupSafe,   \* relayCleanupSafe
    released       \* pool and connection are closed by run

ownVars == <<main, admitted, background, connection, publishing, diagnostics, signal, expired,
             riverErr, cleanupSafe, released>>
vars == <<riverVars, ownVars>>

Init ==
    /\ RiverInit
    /\ main = "admit" /\ admitted = FALSE /\ background = "none" /\ connection = "open"
    /\ publishing = TRUE /\ diagnostics = "none" /\ signal = FALSE /\ expired = FALSE
    /\ riverErr = FALSE /\ cleanupSafe = TRUE /\ released = FALSE

Signal ==
    /\ ~signal
    /\ signal' = TRUE
    /\ startupDone' = TRUE
    /\ UNCHANGED <<river, stopping, job, runtimeCancel, startVars, main, admitted, background,
                   connection, publishing, diagnostics, expired, riverErr, cleanupSafe, released>>

\* Readiness is refreshed and the listener bound, or startup ends; then the background
\* tasks start.
Admit(ok) ==
    /\ main = "admit"
    /\ main' = IF ok THEN "start" ELSE "leave"
    /\ diagnostics' = IF ok THEN "serving" ELSE "none"
    /\ background' = IF ok THEN "running" ELSE "none"
    /\ UNCHANGED <<riverVars, admitted, connection, publishing, signal, expired, riverErr,
                   cleanupSafe, released>>

\* The client gives up reconnecting: messaging.Run reports it.
ConnectionLost ==
    /\ connection = "open"
    /\ main # "exit"
    /\ connection' = "lost"
    /\ publishing' = FALSE
    /\ background' = IF background = "running" THEN "failed" ELSE background
    /\ UNCHANGED <<riverVars, main, admitted, diagnostics, signal, expired, riverErr, cleanupSafe,
                   released>>

DiagnosticsFail ==
    /\ diagnostics = "serving"
    /\ main \in {"start", "serve"}
    /\ diagnostics' = "stopped"
    /\ UNCHANGED <<riverVars, main, admitted, background, connection, publishing, signal, expired,
                   riverErr, cleanupSafe, released>>

\* StartRuntime has returned: serve, or stop what started.
Started ==
    /\ main = "start"
    /\ start = "over"
    /\ main' = IF ~startErr THEN "serve" ELSE IF started THEN "cancelRiver" ELSE "tail"
    /\ admitted' = ~startErr
    /\ stopping' = (stopping \/ (startErr /\ started))
    /\ UNCHANGED <<river, job, startupDone, runtimeCancel, startVars, background, connection,
                   publishing, diagnostics, signal, expired, riverErr, cleanupSafe, released>>

\* The select; admission and readiness are withdrawn and River's soft stop begins.
Trigger ==
    /\ main = "serve"
    /\ signal \/ background = "failed" \/ river = "stopped" \/ diagnostics = "stopped"
    /\ admitted' = FALSE
    /\ stopping' = TRUE
    /\ main' = "stopRiver"
    /\ UNCHANGED <<river, job, startupDone, runtimeCancel, startVars, background, connection,
                   publishing, diagnostics, signal, expired, riverErr, cleanupSafe, released>>

Expire ==
    /\ main \in {"stopRiver", "cancelRiver", "tail", "messaging"}
    /\ ~expired
    /\ expired' = TRUE
    /\ UNCHANGED <<riverVars, main, admitted, background, connection, publishing, diagnostics,
                   signal, riverErr, cleanupSafe, released>>

\* Variant: River's stop is waited for.
StopRiverJoined ==
    /\ main \in {"stopRiver", "cancelRiver"}
    /\ river = "stopped"
    /\ publishing' = (publishing /\ main = "cancelRiver")
    /\ expired' = FALSE
    /\ main' = "tail"
    /\ UNCHANGED <<riverVars, admitted, background, connection, diagnostics, signal, riverErr,
                   cleanupSafe, released>>

\* Stop (or StopAndCancel after a failed start) returns; publishing is withdrawn only
\* when a serving River has joined.
StopRiver ==
    /\ main \in {"stopRiver", "cancelRiver"}
    /\ \/ river = "stopped" /\ riverErr' = FALSE
       \/ expired /\ riverErr' = TRUE
    /\ publishing' = (publishing /\ (riverErr' \/ main = "cancelRiver"))
    /\ expired' = FALSE
    /\ main' = "tail"
    /\ UNCHANGED <<riverVars, admitted, background, connection, diagnostics, signal, cleanupSafe,
                   released>>

\* stopTail: the diagnostics listener, then the background tasks within their stage.
StopTail ==
    /\ main = "tail"
    /\ diagnostics' = "stopped"
    /\ \/ background' = "joined"
       \/ expired /\ background' = "abandoned"
    /\ main' = IF startErr \/ riverErr THEN "verdict" ELSE "messaging"
    /\ UNCHANGED <<riverVars, admitted, connection, publishing, signal, expired, riverErr,
                   cleanupSafe, released>>

\* messaging.Shutdown in the same stage, only after River has joined: it ends with the
\* connection closed, drained or not.
ShutdownMessaging ==
    /\ main = "messaging"
    /\ connection' = "closed"
    /\ publishing' = FALSE
    /\ main' = "verdict"
    /\ UNCHANGED <<riverVars, admitted, background, diagnostics, signal, expired, riverErr,
                   cleanupSafe, released>>

\* River has joined and the background tasks did not run into their deadline.
relayCleanupSafe(riverStopped, backgroundErr) == riverStopped /\ ~backgroundErr

Verdict ==
    /\ main = "verdict"
    /\ cleanupSafe' = relayCleanupSafe(~riverErr, background = "abandoned")
    /\ main' = "leave"
    /\ UNCHANGED <<riverVars, admitted, background, connection, publishing, diagnostics, signal,
                   expired, riverErr, released>>

\* runLifecycle's deferred cancelRuntime, then run's deferred closes, if they are safe.
Leave ==
    /\ main = "leave"
    /\ runtimeCancel' = TRUE
    /\ released' = cleanupSafe
    /\ connection' = IF cleanupSafe THEN "closed" ELSE connection
    /\ main' = "exit"
    /\ UNCHANGED <<river, stopping, job, startupDone, startVars, admitted, background, publishing,
                   diagnostics, signal, expired, riverErr, cleanupSafe>>

Exited == main = "exit" /\ UNCHANGED vars

Own ==
    \/ \E ok \in BOOLEAN : Admit(ok)
    \/ Started \/ Trigger \/ StopRiver \/ StopTail \/ ShutdownMessaging \/ Verdict \/ Leave

\* StartRuntime is called once the relay is admitted.
RiverRuns ==
    /\ RiverStep
    /\ start = "call" => start' = "call" \/ main = "start"
    /\ main # "exit"
    /\ UNCHANGED ownVars

Next ==
    \/ RiverRuns
    \/ Signal \/ ConnectionLost \/ DiagnosticsFail \/ Expire \/ Own \/ Exited

Spec == Init /\ [][Next]_vars

\* StartRuntime's code runs and River's start returns.
Starting ==
    /\ StartCall \/ AfterFuncFires \/ Detach \/ \E ok \in BOOLEAN : StartReturns(ok)
    /\ main = "start" /\ UNCHANGED ownVars

\* And timers fire.  A job need not end.
FairSpec == Spec /\ WF_vars(Own) /\ WF_vars(Expire) /\ WF_vars(Starting)
-----------------------------------------------------------------------------
(* Properties *)

\* ReleasedAfterOwners: run closes the pool and the connection only when neither a River job
\* nor a background task still uses them (relayCleanupSafe).  That stopTail shuts the
\* messaging client down earlier, once River has joined and whatever the background tasks
\* answered, is not at issue: JobsCanPublish is about that.
ReleasedAfterOwners ==
    released => river # "running" /\ ~job /\ background \in {"none", "joined"}

\* JobsCanPublish: the process never withdraws the publisher, nor closes the connection,
\* while a job may publish its record; only the broker can.
JobsCanPublish ==
    river = "running" /\ connection # "lost" => publishing /\ connection = "open"

\* AdmittedIsLive: the relay answers ready only while its River is admitted, out of reach
\* of the startup context and not asked to stop.
AdmittedIsLive == admitted => ~runtimeCancel /\ afterFunc = "detached" /\ ~stopping

\* StopsOnEvent: a signal, a lost connection, a lost listener and a River that stopped lead
\* to the exit, also when a job never ends.
StopEvent ==
    signal \/ background = "failed" \/ diagnostics = "stopped" \/ river = "stopped"
StopsOnEvent == StopEvent ~> main = "exit"
=============================================================================
