------------------------------ MODULE NatsWorker ------------------------------
(***************************************************************************)
(* internal/infra/natsjs, worker.go, and the role that owns it,            *)
(* cmd/worker/internal/bootstrap: how a durable consumer starts, drains,   *)
(* is forced to stop, and when the process may release what its handlers   *)
(* use.                                                                    *)
(*                                                                         *)
(* Three kinds of goroutine meet here: the run loop, the callbacks of the  *)
(* consume contexts (one at a time per context), and the lifecycle owner.  *)
(* Any of them may be the one that starts the drain.                       *)
(***************************************************************************)
EXTENDS Naturals

CONSTANT Contexts   \* the consume contexts, MaxConcurrency of them

VARIABLES
    \* Worker
    draining,        \* w.draining
    drain,           \* w.drain is closed
    registered,      \* w.consumeContexts
    terminal,        \* w.terminal holds an error
    handlerCancel,   \* the handlers' root context is cancelled
    runDone,         \* w.runDone is closed
    \* the one StartDrain call that won the CompareAndSwap
    drainer,         \* the goroutine that runs it
    dpc,             \* where it is
    copied,          \* the contexts it read
    \* consume contexts (external: the NATS client) and their callbacks
    cons,            \* "none", "consuming", "draining", "stopped", "closed"
    buffered,        \* contexts that hold a fetched delivery
    callback,        \* "no", "handling", "failing": what the callback is doing
    watched,         \* contexts whose watcher has ended
    unexpected,      \* unexpectedClose holds a token
    conn,            \* the connection: "open", "draining", "closed"
    \* the run loop and its supervisor
    run,             \* where Run is
    runErr,          \* it has an error to report
    result,          \* what superviseWorkerRun sent: "none", "nil" or "error"
    workerDone,      \* and that it is over
    \* runWorkerLifecycle and run
    main,            \* where the owner is
    events,          \* stop events that have happened
    expired,         \* the shutdown stage's deadline has passed
    workerErr,       \* what Worker.Shutdown returned: "none", "nil" or "error"
    cleanupSafe,     \* the owner's verdict
    cleaned,         \* the handlers' dependencies are released
    \* history
    faulted,         \* some delivery ended in a terminal fault
    cut              \* the connection was cut: it failed, or a forced close ended it

workerVars == <<draining, drain, registered, terminal, handlerCancel, runDone>>
drainVars == <<drainer, dpc, copied>>
natsVars == <<cons, buffered, callback, watched, unexpected, conn>>
runVars == <<run, runErr, result, workerDone>>
mainVars == <<main, events, expired, workerErr, cleanupSafe, cleaned>>
vars == <<workerVars, drainVars, natsVars, runVars, mainVars, faulted, cut>>

StopEvents == {"signal", "background", "diagnostics"}

Init ==
    /\ draining = FALSE /\ drain = FALSE /\ registered = {} /\ terminal = FALSE
    /\ handlerCancel = FALSE /\ runDone = FALSE
    /\ drainer = "nobody" /\ dpc = "idle" /\ copied = {}
    /\ cons = [c \in Contexts |-> "none"] /\ buffered = {}
    /\ callback = [c \in Contexts |-> "no"]
    /\ watched = {} /\ unexpected = FALSE /\ conn = "open"
    /\ run = "consume" /\ runErr = FALSE /\ result = "none" /\ workerDone = FALSE
    /\ main = "serving" /\ events = {} /\ expired = FALSE /\ workerErr = "none"
    /\ cleanupSafe = TRUE /\ cleaned = FALSE
    /\ faulted = FALSE /\ cut = FALSE

-----------------------------------------------------------------------------
(* StartDrain: whoever wins the CompareAndSwap goes on, the others return. *)

CallStartDrain(t) ==
    IF draining
    THEN UNCHANGED <<draining, drainer, dpc>>
    ELSE draining' = TRUE /\ drainer' = t /\ dpc' = "close"

\* Goroutine t is not inside StartDrain.
Free(t) == drainer # t \/ dpc = "done"

DrainClose ==
    /\ dpc = "close"
    /\ drain' = TRUE
    /\ dpc' = "copy"
    /\ UNCHANGED <<draining, registered, terminal, handlerCancel, runDone, drainer, copied,
                   natsVars, runVars, mainVars, faulted, cut>>

\* Under the mutex.
DrainCopy ==
    /\ dpc = "copy"
    /\ copied' = registered
    /\ dpc' = "contexts"
    /\ UNCHANGED <<workerVars, drainer, natsVars, runVars, mainVars, faulted, cut>>

Drained(cs) ==
    cons' = [c \in Contexts |-> IF c \in cs /\ cons[c] = "consuming" THEN "draining" ELSE cons[c]]

\* drainConsumeContexts, then Client.StopPublish.
DrainContexts ==
    /\ dpc = "contexts"
    /\ Drained(copied)
    /\ dpc' = "done"
    /\ UNCHANGED <<workerVars, drainer, copied, buffered, callback, watched, unexpected,
                   conn, runVars, mainVars, faulted, cut>>

-----------------------------------------------------------------------------
(* Consume contexts and callbacks. *)

Fetch(c) ==
    /\ cons[c] = "consuming"
    /\ c \notin buffered
    /\ conn = "open"
    /\ buffered' = buffered \cup {c}
    /\ UNCHANGED <<workerVars, drainVars, cons, callback, watched, unexpected, conn, runVars,
                   mainVars, faulted, cut>>

\* The callback takes the delivery and invokes the handler.
Callback(c) ==
    /\ c \in buffered
    /\ cons[c] \in {"consuming", "draining"}
    /\ conn # "closed"
    /\ callback[c] = "no"
    /\ callback' = [callback EXCEPT ![c] = "handling"]
    /\ buffered' = buffered \ {c}
    /\ UNCHANGED <<workerVars, drainVars, cons, watched, unexpected, conn, runVars, mainVars,
                   faulted, cut>>

HandlerReturns(c) ==
    /\ callback[c] = "handling"
    /\ callback' = [callback EXCEPT ![c] = "no"]
    /\ UNCHANGED <<workerVars, drainVars, cons, buffered, watched, unexpected, conn, runVars,
                   mainVars, faulted, cut>>

\* handle returns an error: failTerminal.
FailTerminal(c) ==
    /\ callback[c] = "handling"
    /\ callback' = [callback EXCEPT ![c] = "failing"]
    /\ terminal' = TRUE
    /\ faulted' = TRUE
    /\ CallStartDrain(c)
    /\ UNCHANGED <<drain, registered, handlerCancel, runDone, copied, cons, buffered, watched,
                   unexpected, conn, runVars, mainVars, cut>>

FailReturns(c) ==
    /\ callback[c] = "failing"
    /\ Free(c)
    /\ callback' = [callback EXCEPT ![c] = "no"]
    /\ UNCHANGED <<workerVars, drainVars, cons, buffered, watched, unexpected, conn, runVars,
                   mainVars, faulted, cut>>

\* Closed(): after the callback has returned.  A drain ends with the buffer, a stop and
\* a closed connection drop it; the server may end a consumer at any time.
ContextCloses(c) ==
    /\ cons[c] \notin {"none", "closed"}
    /\ callback[c] = "no"
    /\ cons[c] = "draining" /\ conn # "closed" => c \notin buffered
    /\ cons' = [cons EXCEPT ![c] = "closed"]
    /\ buffered' = buffered \ {c}
    /\ UNCHANGED <<workerVars, drainVars, callback, watched, unexpected, conn, runVars,
                   mainVars, faulted, cut>>

\* The watcher Run starts for each context.
Watch(c) ==
    /\ run \notin {"consume", "register", "failed"}
    /\ c \in registered /\ c \notin watched
    /\ cons[c] = "closed"
    /\ watched' = watched \cup {c}
    /\ unexpected' = (unexpected \/ ~draining)
    /\ UNCHANGED <<workerVars, drainVars, cons, buffered, callback, conn, runVars, mainVars,
                   faulted, cut>>

\* Reconnecting is given up: the client reports it through its background task.
ConnectionFails ==
    /\ conn = "open"
    /\ conn' = "closed"
    /\ cut' = TRUE
    /\ events' = events \cup {"background"}
    /\ UNCHANGED <<workerVars, drainVars, cons, buffered, callback, watched, unexpected, runVars,
                   main, expired, workerErr, cleanupSafe, cleaned, faulted>>

\* A connection drain ends with the subscriptions' callbacks.
ConnectionDrained ==
    /\ conn = "draining"
    /\ \A c \in Contexts : callback[c] = "no" /\ c \notin buffered
    /\ conn' = "closed"
    /\ UNCHANGED <<workerVars, drainVars, cons, buffered, callback, watched, unexpected, runVars,
                   mainVars, faulted, cut>>

-----------------------------------------------------------------------------
(* Worker.Run under superviseWorkerRun. *)

\* startConsumeContexts: one more context, which may deliver at once.
Consume(c) ==
    /\ run = "consume"
    /\ cons[c] = "none"
    /\ conn # "closed"
    /\ cons' = [cons EXCEPT ![c] = "consuming"]
    /\ UNCHANGED <<workerVars, drainVars, buffered, callback, watched, unexpected, conn, runVars,
                   mainVars, faulted, cut>>

\* Consume fails: the contexts started so far are stopped and waited for.
ConsumeFails ==
    /\ run = "consume"
    /\ \E c \in Contexts : cons[c] = "none"
    /\ cons' = [c \in Contexts |-> IF cons[c] \in {"none", "closed"} THEN cons[c] ELSE "stopped"]
    /\ run' = "failed"
    /\ runErr' = TRUE
    /\ UNCHANGED <<workerVars, drainVars, buffered, callback, watched, unexpected, conn, result,
                   workerDone, mainVars, faulted, cut>>

FailedContextsClosed ==
    /\ run = "failed"
    /\ \A c \in Contexts : cons[c] \in {"none", "closed"}
    /\ handlerCancel' = TRUE
    /\ runDone' = TRUE
    /\ run' = "returned"
    /\ UNCHANGED <<draining, drain, registered, terminal, drainVars, natsVars, runErr, result,
                   workerDone, mainVars, faulted, cut>>

AllStarted == run = "consume" /\ \A c \in Contexts : cons[c] # "none"

\* Variant: the contexts are published and draining is not looked at again.
RegisterOnly ==
    /\ AllStarted
    /\ registered' = Contexts
    /\ run' = "select"
    /\ UNCHANGED <<draining, drain, terminal, handlerCancel, runDone, drainVars, natsVars, runErr,
                   result, workerDone, mainVars, faulted, cut>>

\* Under the mutex StartDrain copies under: publish the contexts and read draining.
Register ==
    /\ AllStarted
    /\ registered' = Contexts
    /\ run' = IF draining THEN "register" ELSE "select"
    /\ UNCHANGED <<draining, drain, terminal, handlerCancel, runDone, drainVars, natsVars, runErr,
                   result, workerDone, mainVars, faulted, cut>>

DrainRegistered ==
    /\ run = "register"
    /\ Drained(registered)
    /\ run' = "select"
    /\ UNCHANGED <<workerVars, drainVars, buffered, callback, watched, unexpected, conn, runErr,
                   result, workerDone, mainVars, faulted, cut>>

\* The select: the drain, a terminal fault, or a context that closed by itself.
SelectDrain ==
    /\ run = "select"
    /\ drain
    /\ run' = "wait"
    /\ UNCHANGED <<workerVars, drainVars, natsVars, runErr, result, workerDone, mainVars, faulted, cut>>

SelectFault ==
    /\ run = "select"
    /\ terminal \/ unexpected
    /\ \/ terminal /\ terminal' = FALSE /\ UNCHANGED unexpected
       \/ unexpected /\ unexpected' = FALSE /\ UNCHANGED terminal
    /\ runErr' = TRUE
    /\ run' = "wait"
    /\ CallStartDrain("run")
    /\ UNCHANGED <<drain, registered, handlerCancel, runDone, copied, cons, buffered, callback,
                   watched, conn, result, workerDone, mainVars, faulted, cut>>

\* Variant: what the callbacks reported while draining is not asked for.
RunReturnsUnpolled ==
    /\ run = "wait"
    /\ Free("run")
    /\ watched = registered
    /\ UNCHANGED <<runErr, terminal>>
    /\ runDone' = TRUE
    /\ run' = "returned"
    /\ UNCHANGED <<draining, drain, registered, handlerCancel, drainVars, natsVars, result,
                   workerDone, mainVars, faulted, cut>>

\* Every context is closed, every watcher has ended; a fault reported meanwhile is
\* the result if there is no other.
RunReturns ==
    /\ run = "wait"
    /\ Free("run")
    /\ watched = registered
    /\ runErr' = (runErr \/ terminal)
    /\ terminal' = (terminal /\ runErr)
    /\ runDone' = TRUE
    /\ run' = "returned"
    /\ UNCHANGED <<draining, drain, registered, handlerCancel, drainVars, natsVars, result,
                   workerDone, mainVars, faulted, cut>>

\* The loop panics while it starts a context, with others running: the deferred close
\* still happens, and superviseWorkerRun recovers.
RunPanics ==
    /\ run = "consume"
    /\ \E c \in Contexts : cons[c] = "none"
    /\ runErr' = TRUE
    /\ runDone' = TRUE
    /\ run' = "returned"
    /\ UNCHANGED <<draining, drain, registered, terminal, handlerCancel, drainVars, natsVars,
                   result, workerDone, mainVars, faulted, cut>>

\* superviseWorkerRun sends the result and closes done.
SendResult ==
    /\ run = "returned"
    /\ result' = IF runErr THEN "error" ELSE "nil"
    /\ workerDone' = TRUE
    /\ run' = "over"
    /\ UNCHANGED <<workerVars, drainVars, natsVars, runErr, mainVars, faulted, cut>>

-----------------------------------------------------------------------------
(* runWorkerLifecycle, then the deferred cleanups of run. *)

StopEvent(e) ==
    /\ e \notin events
    /\ main = "serving"
    /\ events' = events \cup {e}
    /\ UNCHANGED <<workerVars, drainVars, natsVars, runVars, main, expired, workerErr, cleanupSafe,
                   cleaned, faulted, cut>>

\* The select over the stop events and the worker's result, then StartDrain.
Trigger ==
    /\ main = "serving"
    /\ events # {} \/ result # "none"
    /\ main' = "shutdown"
    /\ CallStartDrain("main")
    /\ UNCHANGED <<drain, registered, terminal, handlerCancel, runDone, copied, natsVars, runVars,
                   events, expired, workerErr, cleanupSafe, cleaned, faulted, cut>>

\* The deadline of the shutdown stage.
Expire ==
    /\ main \in {"shutdown", "connection"}
    /\ ~expired
    /\ expired' = TRUE
    /\ UNCHANGED <<workerVars, drainVars, natsVars, runVars, main, events, workerErr, cleanupSafe,
                   cleaned, faulted, cut>>

\* Worker.Shutdown: Run is over, so the connection is drained.
ShutdownJoined ==
    /\ main = "shutdown"
    /\ Free("main")
    /\ runDone
    /\ conn' = IF conn = "open" THEN "draining" ELSE conn
    /\ Drained(Contexts)
    /\ main' = "connection"
    /\ UNCHANGED <<workerVars, drainVars, buffered, callback, watched, unexpected, runVars, events,
                   expired, workerErr, cleanupSafe, cleaned, faulted, cut>>

\* Client.Shutdown: closed in time, or closed outright.
ConnectionWait ==
    /\ main = "connection"
    /\ \/ conn = "closed" /\ workerErr' = "nil" /\ UNCHANGED <<conn, cut>>
       \/ expired /\ workerErr' = "error" /\ conn' = "closed" /\ cut' = (cut \/ conn # "closed")
    /\ main' = "tail"
    /\ UNCHANGED <<workerVars, drainVars, cons, buffered, callback, watched, unexpected, runVars,
                   events, expired, cleanupSafe, cleaned, faulted>>

\* Variant: the shutdown waits for Run whatever its deadline says.
ForceCloseJoined ==
    /\ main = "shutdown"
    /\ Free("main")
    /\ expired /\ runDone
    /\ handlerCancel' = TRUE
    /\ cons' = [c \in Contexts |-> IF c \in registered /\ cons[c] # "closed" THEN "stopped" ELSE cons[c]]
    /\ conn' = "closed"
    /\ cut' = TRUE
    /\ workerErr' = "error"
    /\ main' = "tail"
    /\ UNCHANGED <<draining, drain, registered, terminal, runDone, drainVars, buffered, callback,
                   watched, unexpected, runVars, events, expired, cleanupSafe, cleaned, faulted>>

\* The deadline passed first: forceClose cancels the handlers, stops the contexts and
\* closes the connection, and waits for nobody.
ForceClose ==
    /\ main = "shutdown"
    /\ Free("main")
    /\ expired
    /\ handlerCancel' = TRUE
    /\ cons' = [c \in Contexts |-> IF c \in registered /\ cons[c] # "closed" THEN "stopped" ELSE cons[c]]
    /\ conn' = "closed"
    /\ cut' = TRUE
    /\ workerErr' = "error"
    /\ main' = "tail"
    /\ UNCHANGED <<draining, drain, registered, terminal, runDone, drainVars, buffered, callback,
                   watched, unexpected, runVars, events, expired, cleanupSafe, cleaned, faulted>>

\* Variant: a shutdown that reported its deadline counts as joined.
StoppedBeforeReturnAny(stopErr, stopped) == TRUE

\* A nil error waits for stopped; an error only asks.
StoppedBeforeReturn(stopErr, stopped) == stopped

\* Diagnostics and background tasks are stopped within their stages; then the verdict.
Tail ==
    /\ main = "tail"
    /\ workerErr = "nil" => workerDone
    /\ cleanupSafe' = StoppedBeforeReturn(workerErr, workerDone)
    /\ main' = "cleanup"
    /\ UNCHANGED <<workerVars, drainVars, natsVars, runVars, events, expired, workerErr, cleaned,
                   faulted, cut>>

\* The deferred handlerCleanup, if it is safe, and Client.Close.
Cleanup ==
    /\ main = "cleanup"
    /\ cleaned' = cleanupSafe
    /\ conn' = "closed"
    /\ main' = "exit"
    /\ UNCHANGED <<workerVars, drainVars, cons, buffered, callback, watched, unexpected, runVars,
                   events, expired, workerErr, cleanupSafe, faulted, cut>>

Exited == main = "exit" /\ UNCHANGED vars

Loop ==
    \/ ConsumeFails \/ FailedContextsClosed \/ Register \/ DrainRegistered \/ SelectDrain
    \/ SelectFault \/ RunReturns \/ SendResult \/ \E c \in Contexts : Consume(c)

Owner == Trigger \/ ShutdownJoined \/ ConnectionWait \/ ForceClose \/ Tail \/ Cleanup

\* The StartDrain call that won.
Drainer == DrainClose \/ DrainCopy \/ DrainContexts

Next ==
    \/ Drainer
    \/ \E c \in Contexts :
         Fetch(c) \/ Callback(c) \/ HandlerReturns(c) \/ FailTerminal(c) \/ FailReturns(c)
           \/ ContextCloses(c) \/ Watch(c)
    \/ ConnectionFails \/ ConnectionDrained
    \/ Loop \/ RunPanics
    \/ \E e \in StopEvents : StopEvent(e)
    \/ Owner \/ Expire \/ Exited

Spec == Init /\ [][Next]_vars

\* Goroutines run and timers fire.  Nothing obliges a handler to return.  A drain, a run and
\* a stop take finitely many steps, so that one fairness condition gets each of them done.
Progress ==
    \/ Drainer \/ Loop \/ Owner \/ Expire
    \/ \E c \in Contexts : ContextCloses(c) \/ Watch(c)
Delivering(c) == Callback(c) \/ FailReturns(c)
Fairness == WF_vars(Progress) /\ \A c \in Contexts : WF_vars(Delivering(c))

FairSpec == Spec /\ Fairness

-----------------------------------------------------------------------------
(* Properties *)

\* CleanupAfterHandlers: what the handlers use is released only when no handler runs
\* (run.go: "False means the handler did not join within the shutdown budget.  Its
\* dependencies stay intact").
CleanupAfterHandlers == cleaned => \A c \in Contexts : callback[c] # "handling"

\* CleanupAfterJoin: whoever started the drain, and however it raced with the start of the
\* consume contexts, once both are past each other no registered context takes deliveries;
\* what the handlers use is released only when no handler of a registered context runs,
\* whatever returned, failed or ran into its deadline first (StoppedBeforeReturn); and the
\* connection is closed under a callback only by a broker failure or a forced shutdown.
\* Contexts that a panicking loop started are never registered; of those
\* CleanupAfterHandlers speaks.
CleanupAfterJoin ==
    \A c \in registered :
      /\ dpc = "done" /\ run \in {"select", "wait", "returned", "over"} => cons[c] # "consuming"
      /\ cleaned => callback[c] # "handling"
      /\ conn = "closed" /\ ~cut => callback[c] = "no"

\* FaultIsReported: a worker that ends without an error had no terminal fault, also when
\* the fault came from the last delivery of a drain (Run's final poll of w.terminal).
FaultIsReported == result = "nil" => ~faulted

\* StopsOnEvent: a signal, a failed background task or a lost diagnostics listener ends
\* the process, although handlers may never return (Shutdown's deadline, forceClose).
StopsOnEvent == events # {} ~> main = "exit"

=============================================================================
