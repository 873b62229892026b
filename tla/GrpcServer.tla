------------------------------- MODULE GrpcServer -------------------------------
(***************************************************************************)
(* internal/infra/grpc: admission, drain accounting and the bounded stop   *)
(* of the native gRPC server.  grpc-go (external) opens streams, receives  *)
(* a unary RPC's message before it runs the interceptors, publishes the    *)
(* End event after the handler returned, waits in GracefulStop for every   *)
(* open stream, and cancels every RPC without waiting in Stop.             *)
(***************************************************************************)
EXTENDS Naturals, FiniteSets

CONSTANTS
    Business, Checks, Watches,   \* RPCs of the service, of Health/Check, of Health/Watch
    BusinessLimit, HealthLimit   \* maxConcurrentRPCs, maxConcurrentHealthRPCs

Rpcs == Business \cup Checks \cup Watches

VARIABLES
    rpc,            \* rpc[r]: "new", "open", "checked", "run", "returned", "ended"
    tracked,        \* business RPCs counted by rpcDrain
    active,         \* rpcDrain.active
    draining,       \* rpcDrain.draining
    doneCloses,     \* how often rpcDrain.done was closed
    serving,        \* the health service publishes SERVING
    healthDraining, \* Server.healthDraining
    healthCancel,   \* healthDrain.ctx is canceled
    once,           \* stopOnce: "free", "graceful" while GracefulStop runs, "done"
    aborted,        \* tracked RPCs that Stop cut off
    shutdown,       \* Shutdown: where it is, or "ok" and "expired", its results
    expired,        \* Shutdown's context is over
    close           \* Close: "idle", "called", "returned"

drainVars == <<tracked, active, draining, doneCloses>>
healthVars == <<serving, healthDraining, healthCancel>>
stopVars == <<once, aborted, shutdown, expired, close>>
vars == <<rpc, drainVars, healthVars, stopVars>>

TypeOK ==
    /\ rpc \in [Rpcs -> {"new", "open", "checked", "run", "returned", "ended"}]
    /\ tracked \subseteq Business /\ aborted \subseteq Business
    /\ active \in Nat /\ doneCloses \in Nat
    /\ {draining, serving, healthDraining, healthCancel, expired} \subseteq BOOLEAN
    /\ once \in {"free", "graceful", "done"}
    /\ shutdown \in {"idle", "draining", "checking", "waiting", "graceful", "ok", "expired"}
    /\ close \in {"idle", "called", "returned"}

Init ==
    /\ rpc = [r \in Rpcs |-> "new"]
    /\ tracked = {} /\ active = 0 /\ draining = FALSE /\ doneCloses = 0
    /\ serving = FALSE /\ healthDraining = FALSE /\ healthCancel = FALSE
    /\ once = "free" /\ aborted = {}
    /\ shutdown = "idle" /\ expired = FALSE /\ close = "idle"

At(r, s) == rpc' = [rpc EXCEPT ![r] = s]

\* rpcDrain.track.
track(r) ==
    IF draining THEN UNCHANGED <<tracked, active>>
    ELSE /\ tracked' = tracked \cup {r}
         /\ active' = active + 1

\* A stream opens while the transport accepts: TagRPC.
Arrive(r) ==
    /\ rpc[r] = "new"
    /\ once = "free"
    /\ At(r, "open")
    /\ IF r \in Business THEN track(r) ELSE UNCHANGED <<tracked, active>>
    /\ UNCHANGED <<draining, doneCloses, healthVars, stopVars>>

\* Variant: admission does not look at the drain.
refusesNever(r) == FALSE

\* admissionLimiter.around: a business RPC is refused once the drain has begun.
refuses(r) == r \in Business /\ draining

\* The message is in and the interceptors run; a refusal is the RPC's status.
Receive(r) ==
    /\ rpc[r] = "open"
    /\ At(r, IF refuses(r) THEN "returned" ELSE "checked")
    /\ UNCHANGED <<drainVars, healthVars, stopVars>>

Holding(set) == {r \in set : rpc[r] = "run"}

\* semaphore.TryAcquire of the budget that owns the method; Health/Check holds no slot.
hasSlot(r) ==
    /\ r \in Business => Cardinality(Holding(Business)) < BusinessLimit
    /\ r \in Watches => Cardinality(Holding(Watches)) < HealthLimit

Acquire(r) ==
    /\ rpc[r] = "checked"
    /\ At(r, IF hasSlot(r) THEN "run" ELSE "returned")
    /\ UNCHANGED <<drainVars, healthVars, stopVars>>

\* healthDrain.around, Server.Stop: the context of every watch is canceled.
Canceled == healthCancel \/ once = "done"

\* The handler returns and the slot with it; a watch stays until its peer leaves or its
\* context is canceled.
Return(r) ==
    /\ rpc[r] = "run"
    /\ At(r, "returned")
    /\ UNCHANGED <<drainVars, healthVars, stopVars>>

\* HandleRPC(stats.End): a tracked RPC is released and the last one ends the drain.
End(r) ==
    /\ rpc[r] = "returned"
    /\ At(r, "ended")
    /\ IF r \in tracked
       THEN /\ active' = active - 1
            /\ doneCloses' = IF draining /\ active = 1 THEN doneCloses + 1 ELSE doneCloses
       ELSE UNCHANGED <<active, doneCloses>>
    /\ UNCHANGED <<tracked, draining, healthVars, stopVars>>

SetServing(ready) ==
    /\ ~healthDraining
    /\ serving' = ready
    /\ UNCHANGED <<rpc, drainVars, healthDraining, healthCancel, stopVars>>

\* Variant: the drain leaves the watch streams open.
startDrainOnly == healthDraining' = TRUE /\ serving' = FALSE /\ UNCHANGED healthCancel

\* Server.StartDrain under healthMu.
startDrain == healthDraining' = TRUE /\ serving' = FALSE /\ healthCancel' = TRUE

\* The process publishes the drain before its propagation delay.
StartDrain ==
    /\ ~healthDraining
    /\ startDrain
    /\ UNCHANGED <<rpc, drainVars, stopVars>>

CallShutdown ==
    /\ shutdown = "idle"
    /\ startDrain
    /\ shutdown' = "draining"
    /\ UNCHANGED <<rpc, drainVars, once, aborted, expired, close>>

\* rpcDrain.start.
BeginDrain ==
    /\ shutdown = "draining"
    /\ draining' = TRUE
    /\ doneCloses' = IF active = 0 THEN doneCloses + 1 ELSE doneCloses
    /\ shutdown' = "checking"
    /\ UNCHANGED <<rpc, tracked, active, healthVars, once, aborted, expired, close>>

Expire == shutdown # "idle" /\ ~expired /\ expired' = TRUE
            /\ UNCHANGED <<rpc, drainVars, healthVars, once, aborted, shutdown, close>>

\* Shutdown's first select: only a drain that has ended counts.
NotDrainedYet ==
    /\ shutdown = "checking" /\ doneCloses = 0
    /\ shutdown' = "waiting"
    /\ UNCHANGED <<rpc, drainVars, healthVars, once, aborted, expired, close>>

\* Then whichever comes first: the end of the drain, a stop by Close, or the deadline.
\* Do does nothing after another stop.
DrainEnded ==
    /\ shutdown \in {"checking", "waiting"} /\ doneCloses > 0
    /\ shutdown' = IF once = "free" THEN "graceful" ELSE "ok"
    /\ once' = IF once = "free" THEN "graceful" ELSE once
    /\ UNCHANGED <<rpc, drainVars, healthVars, aborted, expired, close>>

StoppedByClose ==
    /\ shutdown = "waiting" /\ once = "done"
    /\ shutdown' = "ok"
    /\ UNCHANGED <<rpc, drainVars, healthVars, once, aborted, expired, close>>

\* Variant: the deadline's result is dropped.
deadlineResultNil == "ok"

\* Shutdown returns the context's error.
deadlineResult == "expired"

\* Server.Stop: every RPC context is canceled, nobody is waited for.
Stop == once' = "done" /\ aborted' = {r \in tracked : rpc[r] # "ended"}

DeadlinePassed ==
    /\ shutdown = "waiting" /\ expired
    /\ IF once = "free" THEN Stop ELSE UNCHANGED <<once, aborted>>
    /\ shutdown' = deadlineResult
    /\ UNCHANGED <<rpc, drainVars, healthVars, expired, close>>

\* GracefulStop returns when no stream is open.
GracefulReturns ==
    /\ once = "graceful"
    /\ \A r \in Rpcs : rpc[r] \in {"new", "ended"}
    /\ once' = "done"
    /\ shutdown' = "ok"
    /\ UNCHANGED <<rpc, drainVars, healthVars, aborted, expired, close>>

\* Close: cancelAll, then forceStop, which waits in stopOnce.Do for a stop under way.
CallClose ==
    /\ close = "idle"
    /\ close' = "called"
    /\ healthCancel' = TRUE
    /\ UNCHANGED <<rpc, drainVars, serving, healthDraining, once, aborted, shutdown, expired>>

CloseReturns ==
    /\ close = "called"
    /\ once # "graceful"
    /\ IF once = "free" THEN Stop ELSE UNCHANGED <<once, aborted>>
    /\ close' = "returned"
    /\ UNCHANGED <<rpc, drainVars, healthVars, shutdown, expired>>

Process ==
    \/ \E ready \in BOOLEAN : SetServing(ready)
    \/ StartDrain \/ CallShutdown \/ CallClose \/ Expire
Shutdown == BeginDrain \/ NotDrainedYet \/ DrainEnded \/ StoppedByClose \/ DeadlinePassed \/ GracefulReturns
Rpc(r) == Receive(r) \/ Acquire(r) \/ Return(r) \/ End(r)

Next == Process \/ Shutdown \/ CloseReturns \/ \E r \in Rpcs : Arrive(r) \/ Rpc(r)

Spec == Init /\ [][Next]_vars

\* The server's own steps happen, the context expires, watches honour a canceled context
\* and probes answer; business handlers and watching peers may stay for ever.  An RPC and a
\* stop take finitely many steps, so that one fairness condition gets each of them done.
Progress ==
    \/ Shutdown \/ CloseReturns \/ Expire
    \/ \E r \in Rpcs : Acquire(r) \/ End(r)
    \/ \E r \in Checks : Return(r)
    \/ \E r \in Watches : Canceled /\ Return(r)
ServerFair == Spec /\ WF_vars(Progress)

\* Peers send the whole of their requests.
Receives == \E r \in Rpcs : Receive(r)
FairSpec == ServerFair /\ WF_vars(Receives)

-----------------------------------------------------------------------------
(* Properties *)

\* DrainedMeansIdle: once rpcDrain.done is closed no business RPC is in a handler, and
\* none will be: GracefulStop starts with only refused and health RPCs open.
DrainedMeansIdle == doneCloses > 0 => \A r \in Business : rpc[r] \notin {"checked", "run"}

\* GracefulLosesNothing: a Shutdown that returns nil, with no Close beside it, has cut off
\* no RPC that was open before the drain.
GracefulLosesNothing == shutdown = "ok" /\ close = "idle" => aborted = {}

\* DrainIsFinal: no late readiness result makes the server SERVING again once its drain
\* was published.
DrainIsFinal == healthDraining => ~serving

\* Stopping, Stopped: a call of Shutdown or Close is under way; none is.
Stopping == shutdown = "draining" \/ close = "called"
Stopped == shutdown \in {"idle", "ok", "expired"} /\ close # "called"

\* StopIsBounded: Shutdown and Close return, whatever business handlers and watching
\* peers do.
StopIsBounded ==
    /\ shutdown = "draining" ~> shutdown \in {"ok", "expired"}
    /\ close = "called" ~> close = "returned"

\* CloseIsImmediate: Close stops the transport, whatever the peers do.
CloseIsImmediate == close = "called" ~> close = "returned"
=============================================================================
