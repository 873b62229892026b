--------------------------- MODULE ServiceLifecycle ---------------------------
(***************************************************************************)
(* cmd/service: one process from its first owner to its exit.              *)
(*                                                                         *)
(* The main goroutine acquires owners in order, binds and serves its       *)
(* listeners, waits for startup admission, serves until something ends it, *)
(* drains, and releases the owners in reverse order; an early return runs  *)
(* the same releases through its deferred calls.  Around it run the        *)
(* servers and their requests, the supervised tasks (used through the      *)
(* contract Background), the admission check, and the clocks of the budgets.*)
(***************************************************************************)
EXTENDS Naturals, Sequences, FiniteSets

CONSTANTS
    API,           \* the application servers: "http", and "grpc" when enabled
    Diagnostics,   \* {"diagnostics"} when the private listener is configured, or {}
    NoErr          \* no failure

Servers == API \cup Diagnostics

\* The owners in the order runWithRuntime acquires them.
Acquisition == <<"telemetry", "storage", "dependencies", "authn",
                 "supervisor", "messaging">>
\* Variant: dependencies are released before the work that uses them is joined.
ReleaseDependenciesFirst == <<"messaging", "storage", "dependencies",
                              "supervisor", "authn", "telemetry">>

\* The order its ordered teardown, and its deferred calls, release them.
Release == <<"messaging", "supervisor", "authn", "storage",
             "dependencies", "telemetry">>
Owners == {Acquisition[i] : i \in DOMAIN Acquisition}

\* The supervised tasks, each started at one place of the startup.
Tasks == {"messaging_connection", "http_idempotency_maintenance", "readiness_refresh"}

VARIABLES
    pc,           \* where the main goroutine is
    open,         \* owners acquired and not released
    signal,       \* the signal context is done
    startupDone,  \* the startup budget is spent
    admission,    \* the admission goroutine and its result channel
    ready,        \* admission.MarkReady was called
    draining,     \* StartDrain was called
    publishing,   \* the messaging client accepts publications
    srv,          \* each server's state
    exits,        \* results of servers that stopped on their own, in runErrCh
    busy,         \* a request is in flight on the server
    live, failure, stop,   \* the supervisor (Background)
    reported,     \* the lifecycle owner has received the failure
    drainDue,     \* the drain's deadline has passed
    joinDue       \* the background stage's deadline has passed

bgVars == <<live, failure, stop>>
serverVars == <<srv, exits, busy>>
clockVars == <<signal, startupDone, drainDue, joinDue>>
vars == <<pc, open, clockVars, admission, ready, draining, publishing,
          serverVars, bgVars, reported>>

BG == INSTANCE Background

Init ==
    /\ pc = "acquire"
    /\ open = {}
    /\ signal = FALSE
    /\ startupDone = FALSE
    /\ admission = "none"
    /\ ready = FALSE
    /\ draining = FALSE
    /\ publishing = FALSE
    /\ srv = [s \in Servers |-> "idle"]
    /\ exits = {}
    /\ busy = [s \in API |-> FALSE]
    /\ BG!BackgroundInit
    /\ reported = FALSE
    /\ drainDue = FALSE
    /\ joinDue = FALSE

Starting == {"acquire", "goConnection", "idempotency", "goMaintenance", "build", "listen",
             "serve", "admit"}

\* startupCtx derives from the signal context.
StartupCtxDone == signal \/ startupDone
\* The supervisor's FirstFailure channel has a value.
FailurePending == failure # NoErr /\ ~reported

Goto(label) == pc' = label

-----------------------------------------------------------------------------
(* Startup. *)

\* The next owner is built.  The supervisor cannot fail; a failed first stage
\* leaves nothing to release.
Acquire ==
    /\ pc = "acquire"
    /\ LET owner == Acquisition[Cardinality(open) + 1] IN
         \/ /\ open' = open \cup {owner}
            /\ publishing' = (owner = "messaging")
            /\ Goto(IF owner = "messaging" THEN "goConnection" ELSE "acquire")
         \/ /\ owner # "supervisor"
            /\ Goto("teardown")
            /\ UNCHANGED <<open, publishing>>
    /\ UNCHANGED <<clockVars, admission, ready, draining, serverVars, bgVars, reported>>

\* supervisor.Go for a task of the startup.
GoTask(here, task, next) ==
    /\ pc = here
    /\ BG!Accept(task)
    /\ Goto(next)
    /\ UNCHANGED <<open, clockVars, admission, ready, draining, publishing,
                   serverVars, reported>>

\* A stage that owns nothing: it is passed, or it ends the startup.
Build(here, next) ==
    /\ pc = here
    /\ Goto(next) \/ Goto("teardown")
    /\ UNCHANGED <<open, clockVars, admission, ready, draining, publishing,
                   serverVars, bgVars, reported>>

Startup ==
    \/ Acquire
    \/ GoTask("goConnection", "messaging_connection", "idempotency")
    \/ Build("idempotency", "goMaintenance")
    \/ GoTask("goMaintenance", "http_idempotency_maintenance", "build")
    \/ Build("build", "listen")

-----------------------------------------------------------------------------
(* serveRuntime up to admission. *)

\* bindRuntimeListeners: all listeners, or those already bound are closed again.
Listen ==
    /\ pc = "listen"
    /\ \/ /\ ~StartupCtxDone
          /\ srv' = [s \in Servers |-> "bound"]
          /\ Goto("serve")
       \/ /\ Goto("teardown")
          /\ UNCHANGED srv
    /\ UNCHANGED <<open, clockVars, admission, ready, draining, publishing,
                   exits, busy, bgVars, reported>>

\* Variant: a startup canceled after the listeners were bound leaves them open.
ServeKeepsListeners ==
    /\ pc = "serve"
    /\ IF StartupCtxDone
       THEN /\ Goto("teardown")
            /\ UNCHANGED <<srv, admission>>
       ELSE /\ srv' = [s \in Servers |-> "serving"]
            /\ admission' = "checking"
            /\ Goto("admit")
    /\ UNCHANGED <<open, clockVars, ready, draining, publishing, exits, busy,
                   bgVars, reported>>

\* The contexts are tested again before anything is served.
Serve ==
    /\ pc = "serve"
    /\ IF StartupCtxDone
       THEN /\ srv' = [s \in Servers |-> "idle"]
            /\ Goto("teardown")
            /\ UNCHANGED admission
       ELSE /\ srv' = [s \in Servers |-> "serving"]
            /\ admission' = "checking"
            /\ Goto("admit")
    /\ UNCHANGED <<open, clockVars, ready, draining, publishing, exits, busy,
                   bgVars, reported>>

\* The admission goroutine: healthy only if its context is still alive afterwards.  Nobody reads
\* a verdict that comes after another event has ended the startup.
AdmissionResult(ok) ==
    /\ pc = "admit" /\ admission = "checking"
    /\ ok => ~StartupCtxDone
    /\ admission' = IF ok THEN "healthy" ELSE "rejected"
    /\ UNCHANGED <<pc, open, clockVars, ready, draining, publishing, serverVars,
                   bgVars, reported>>

\* One of the events that end serving is received.
ReceiveExit == exits # {} /\ \E s \in exits : exits' = exits \ {s} /\ UNCHANGED reported
ReceiveFailure == FailurePending /\ reported' = TRUE /\ UNCHANGED exits

\* waitForStartupAdmission.  The select takes any case that is ready; after a
\* healthy verdict the nested one admits only if neither a server's exit nor a
\* background failure is waiting.  With it the startup context and its check are done with.
Admit ==
    /\ pc = "admit"
    /\ \/ /\ admission = "rejected"
          /\ Goto("stop")
          /\ UNCHANGED <<ready, exits, reported>>
       \/ /\ admission = "healthy"
          /\ \/ (ReceiveExit \/ ReceiveFailure) /\ Goto("stop") /\ UNCHANGED ready
             \/ /\ exits = {} /\ ~FailurePending
                /\ ready' = TRUE
                /\ Goto("onReady")
                /\ UNCHANGED <<exits, reported>>
       \/ /\ StartupCtxDone
          /\ Goto("stop")
          /\ UNCHANGED <<ready, exits, reported>>
       \/ (ReceiveExit \/ ReceiveFailure) /\ Goto("stop") /\ UNCHANGED ready
    /\ startupDone' = FALSE /\ admission' = "none"
    /\ UNCHANGED <<open, signal, drainDue, joinDue, draining, publishing, srv, busy, bgVars>>

\* Variant: background failures do not end serving.
RuntimeStopIgnoresTasks ==
    /\ pc = "run"
    /\ (signal /\ UNCHANGED <<exits, reported>>) \/ ReceiveExit
    /\ Goto("stop")
    /\ UNCHANGED <<open, clockVars, admission, ready, draining, publishing, srv,
                   busy, bgVars>>

\* waitForRuntimeStop.
RuntimeStop ==
    /\ pc = "run"
    /\ \/ signal /\ UNCHANGED <<exits, reported>>
       \/ ReceiveExit
       \/ ReceiveFailure
    /\ Goto("stop")
    /\ UNCHANGED <<open, clockVars, admission, ready, draining, publishing, srv,
                   busy, bgVars>>

Serving ==
    \/ Listen \/ Serve \/ Admit \/ RuntimeStop
    \/ GoTask("onReady", "readiness_refresh", "run")

-----------------------------------------------------------------------------
(* The drain. *)

\* shutdown.start and preDrain: messaging refuses publications from here on.
PreDrain ==
    /\ pc = "stop"
    /\ publishing' = FALSE
    /\ Goto("startDrain")
    /\ UNCHANGED <<open, clockVars, admission, ready, draining, serverVars,
                   bgVars, reported>>

\* StartDrain; the propagation delay is for instances that were admitted.
StartDrain ==
    /\ pc = "startDrain"
    /\ draining' = TRUE
    /\ Goto(IF ready THEN "propagate" ELSE "shutdown")
    /\ UNCHANGED <<open, clockVars, admission, ready, publishing, serverVars,
                   bgVars, reported>>

\* sleepWithContext: the delay.  It is shorter than the drain's timeout
\* (validateHTTPConfig), so a process that is scheduled sees its end first.
Propagate ==
    /\ pc = "propagate"
    /\ Goto("shutdown")
    /\ UNCHANGED <<open, clockVars, admission, ready, draining, publishing,
                   serverVars, bgVars, reported>>

\* Variant: the diagnostics listener is part of the drain.
ShutdownAllServers ==
    /\ pc = "shutdown"
    /\ srv' = [s \in Servers |-> IF srv[s] = "serving" THEN "stopping" ELSE srv[s]]
    /\ Goto("collect")
    /\ UNCHANGED <<open, clockVars, admission, ready, draining, publishing, exits,
                   busy, bgVars, reported>>

\* Shutdown of all application servers at once: each closes its listener and waits
\* for its requests.
ShutdownServers ==
    /\ pc = "shutdown"
    /\ srv' = [s \in Servers |-> IF s \in API /\ srv[s] = "serving"
                                 THEN "stopping" ELSE srv[s]]
    /\ Goto("collect")
    /\ UNCHANGED <<open, clockVars, admission, ready, draining, publishing, exits,
                   busy, bgVars, reported>>

\* The results are collected, or the deadline forces every server closed.
Collect ==
    /\ pc = "collect"
    /\ \/ /\ \A s \in API : srv[s] = "stopped"
          /\ UNCHANGED srv
       \/ /\ drainDue
          /\ srv' = [s \in Servers |-> IF srv[s] = "stopping" THEN "forced" ELSE srv[s]]
    /\ Goto("diagnostics")
    /\ UNCHANGED <<open, clockVars, admission, ready, draining, publishing, exits,
                   busy, bgVars, reported>>

\* shutdownDiagnostics: stopped, or closed under a scrape.
ShutdownDiagnostics ==
    /\ pc = "diagnostics"
    /\ srv' = [s \in Servers |-> IF s \in Diagnostics THEN "stopped" ELSE srv[s]]
    /\ Goto("teardown")
    /\ UNCHANGED <<open, clockVars, admission, ready, draining, publishing, exits,
                   busy, bgVars, reported>>

Drain ==
    \/ PreDrain \/ StartDrain \/ Propagate \/ ShutdownServers \/ Collect
    \/ ShutdownDiagnostics

-----------------------------------------------------------------------------
(* Teardown: ordered after serving, deferred after an early return.  Both run
   the same releases in the same order and each release once. *)

Releasing(owner) ==
    /\ pc = "teardown"
    /\ owner \in open
    /\ \A other \in open : \E i, j \in DOMAIN Release :
           Release[i] = owner /\ Release[j] = other /\ i <= j

\* messaging.Shutdown (or Close): drained within the stage or closed outright.
CloseMessaging ==
    /\ Releasing("messaging")
    /\ open' = open \ {"messaging"}
    /\ publishing' = FALSE
    /\ UNCHANGED <<pc, clockVars, admission, ready, draining, serverVars, bgVars, reported>>

\* supervisor.Shutdown: cancel, then join or abandon.
StopSupervisor ==
    /\ Releasing("supervisor")
    /\ \/ BG!BeginStop /\ UNCHANGED open
       \/ BG!Join /\ open' = open \ {"supervisor"}
       \/ joinDue /\ BG!Abandon /\ open' = open \ {"supervisor"}
    /\ UNCHANGED <<pc, clockVars, admission, ready, draining, publishing,
                   serverVars, reported>>

\* authn.Close, object storage, dependencies, and the telemetry flush last.
CloseOwner ==
    /\ \E owner \in Owners \ {"messaging", "supervisor"} :
          Releasing(owner) /\ open' = open \ {owner}
    /\ UNCHANGED <<pc, clockVars, admission, ready, draining, publishing,
                   serverVars, bgVars, reported>>

Exit ==
    /\ pc = "teardown"
    /\ open = {}
    /\ Goto("exited")
    /\ UNCHANGED <<open, clockVars, admission, ready, draining, publishing,
                   serverVars, bgVars, reported>>

Teardown == CloseMessaging \/ StopSupervisor \/ CloseOwner \/ Exit

Main == Startup \/ Serving \/ Drain \/ Teardown

-----------------------------------------------------------------------------
(* Around the main goroutine. *)

Running == pc # "exited"

\* A server stops on its own and reports it.
ServerExits(s) ==
    /\ Running
    /\ srv[s] = "serving"
    /\ srv' = [srv EXCEPT ![s] = "stopped"]
    /\ exits' = exits \cup {s}
    /\ UNCHANGED <<pc, open, clockVars, admission, ready, draining, publishing,
                   busy, bgVars, reported>>

RequestStarts(s) ==
    /\ Running
    /\ srv[s] = "serving"
    /\ busy' = [busy EXCEPT ![s] = TRUE]
    /\ UNCHANGED <<pc, open, clockVars, admission, ready, draining, publishing,
                   srv, exits, bgVars, reported>>

RequestEnds(s) ==
    /\ Running
    /\ busy[s]
    /\ busy' = [busy EXCEPT ![s] = FALSE]
    /\ UNCHANGED <<pc, open, clockVars, admission, ready, draining, publishing,
                   srv, exits, bgVars, reported>>

\* A stopping server's Shutdown returns once it is idle.
ServerStops(s) ==
    /\ Running
    /\ srv[s] = "stopping"
    /\ ~busy[s]
    /\ srv' = [srv EXCEPT ![s] = "stopped"]
    /\ UNCHANGED <<pc, open, clockVars, admission, ready, draining, publishing,
                   exits, busy, bgVars, reported>>

\* A task fails while the process serves, or ends: after its failure, after
\* another's, or because it was told to.
TaskFails(t) ==
    /\ Running
    /\ t \in live
    /\ stop = "no"
    /\ BG!Publish(t)
    /\ UNCHANGED <<pc, open, clockVars, admission, ready, draining, publishing,
                   serverVars, reported>>

TaskEnds(t) ==
    /\ Running
    /\ stop # "no" \/ failure # NoErr
    /\ BG!End(t)
    /\ UNCHANGED <<pc, open, clockVars, admission, ready, draining, publishing,
                   serverVars, reported>>

\* The signal and the budgets.
Signal ==
    /\ Running /\ ~signal
    /\ signal' = TRUE
    /\ UNCHANGED <<pc, open, startupDone, drainDue, joinDue, admission, ready,
                   draining, publishing, serverVars, bgVars, reported>>

\* Nothing derives from the startup context once the instance is admitted or refused.
StartupExpires ==
    /\ pc \in Starting /\ ~startupDone
    /\ startupDone' = TRUE
    /\ UNCHANGED <<pc, open, signal, drainDue, joinDue, admission, ready,
                   draining, publishing, serverVars, bgVars, reported>>

DrainExpires ==
    /\ pc = "collect" /\ ~drainDue
    /\ drainDue' = TRUE
    /\ UNCHANGED <<pc, open, signal, startupDone, joinDue, admission, ready,
                   draining, publishing, serverVars, bgVars, reported>>

JoinExpires ==
    /\ Releasing("supervisor") /\ ~joinDue
    /\ joinDue' = TRUE
    /\ UNCHANGED <<pc, open, signal, startupDone, drainDue, admission, ready,
                   draining, publishing, serverVars, bgVars, reported>>

Clocks == StartupExpires \/ DrainExpires \/ JoinExpires

Environment ==
    \/ \E ok \in BOOLEAN : AdmissionResult(ok)
    \/ \E s \in Servers : ServerExits(s)
    \/ \E s \in API : RequestStarts(s) \/ RequestEnds(s) \/ ServerStops(s)
    \/ \E t \in Tasks : TaskFails(t) \/ TaskEnds(t)
    \/ Signal \/ Clocks

\* The exited process.
Done == pc = "exited" /\ UNCHANGED vars

Next == Main \/ Environment \/ Done

\* The main goroutine runs when it can and every budget runs out.  Requests, tasks
\* and the admission check may hang.  These are finitely many steps, so that one
\* fairness condition gets each of them done.
Progress == Main \/ Clocks
Fairness == WF_vars(Progress)

Spec == Init /\ [][Next]_vars
FairSpec == Spec /\ Fairness

-----------------------------------------------------------------------------
Labels == {"acquire", "goConnection", "idempotency", "goMaintenance", "build",
           "listen", "serve", "admit", "onReady", "run", "stop", "startDrain",
           "propagate", "shutdown", "collect", "diagnostics", "teardown", "exited"}

TypeOK ==
    /\ pc \in Labels
    /\ open \subseteq Owners
    /\ {signal, startupDone, ready, draining, publishing, reported, drainDue, joinDue}
          \subseteq BOOLEAN
    /\ admission \in {"none", "checking", "healthy", "rejected"}
    /\ srv \in [Servers -> {"idle", "bound", "serving", "stopping", "stopped", "forced"}]
    /\ exits \subseteq Servers
    /\ busy \in [API -> BOOLEAN]
    /\ live \subseteq Tasks
    /\ failure \in Tasks \cup {NoErr}
    /\ stop \in {"no", "begun", "joined", "abandoned"}

\* Nothing loses what it stands on.  While an application server accepts or finishes
\* requests every owner is open; while a supervised task runs, unless it was
\* reported as abandoned, everything it was built from is open; and telemetry
\* outlives them all, so that the flush can record how they went.
OwnersOutliveUsers ==
    /\ \A s \in API : srv[s] \in {"bound", "serving", "stopping"} => open = Owners
    /\ live # {} /\ stop # "abandoned" => Owners \ {"messaging"} \subseteq open
    /\ open # {} => "telemetry" \in open

\* A process that exits has released every owner it acquired, whichever stage
\* failed, has no listener left, and has no task running that it did not report.
NothingLeaks ==
    pc = "exited" =>
        /\ open = {}
        /\ live # {} => stop = "abandoned"
        /\ \A s \in Servers : srv[s] \in {"idle", "stopped", "forced"}

\* Traffic is turned away before servers stop, and the diagnostics listener is
\* stopped only when the drain it is meant to record is over.
DrainOrder ==
    [][/\ \A s \in API : srv[s] = "serving" /\ srv'[s] # "serving" =>
             draining \/ s \in exits'
       /\ \A s \in Diagnostics : srv[s] = "serving" /\ srv'[s] # "serving" =>
             s \in exits' \/ \A a \in API : srv[a] \in {"stopped", "forced"}]_vars

\* A signal ends the process, and so does a server that stops or a task that fails, at
\* whatever stage it comes and whatever hangs: a probe, a request, a task that ignores
\* its cancellation.
StopEvent == signal \/ exits # {} \/ failure # NoErr
StopsOnEvent == StopEvent ~> pc = "exited"
=============================================================================
