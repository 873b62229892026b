------------------------------- MODULE MCService -------------------------------
(***************************************************************************)
(* Model-checking instance of the service process: a behaviour is one of    *)
(* ServiceLifecycle, of Readiness (part "watch"), of RefreshHistory (part   *)
(* "history"), of GrpcServer or of FailureAnswer (part "failure").  They    *)
(* share no state; `part` says which runs, and the others stay in an        *)
(* initial state.                                                           *)
(*                                                                         *)
(* One application server stands beside the diagnostics listener.  The      *)
(* refresh interval is twice the probe's budget, and a verdict outlives two *)
(* of three failures.  Two business RPCs compete for one slot, a health     *)
(* check and a watch for another.  A call fails in every way its handler,   *)
(* the validator and a policy can make it, with chains cut at two links and *)
(* two violations shown.                                                    *)
(***************************************************************************)
EXTENDS RefreshHistory

CONSTANTS
    API, Diagnostics, NoErr,
    Interval, ProbeBudget, FailureThreshold,
    Business, Checks, Watches, BusinessLimit, HealthLimit,
    Delays, ClassChainDepth, MaxValidationViolations

VARIABLES
    part,
    pc, open, signal, startupDone, admission, ready, processDraining, messaging, srv, exits, busy,
    live, failure, stop, reported, drainDue, joinDue,
    draining, verdict, age, guarded, wpc, ctxDone, phase, tick, currentOk, previousOk, timer,
    fired, publishing, serving, grpcDraining,
    rpc, tracked, active, rpcDraining, doneCloses, healthServing, healthDraining, healthCancel,
    once, aborted, shutdown, expired, close,
    transport, mappers, at, err, received, raised, policy, records, answer

Service == INSTANCE ServiceLifecycle WITH draining <- processDraining, publishing <- messaging
Watch == INSTANCE Readiness WITH state <- verdict
Grpc == INSTANCE GrpcServer WITH draining <- rpcDraining, serving <- healthServing
Answer == INSTANCE FailureAnswer

MCThresholds == 1..4

serviceVars == <<pc, open, signal, startupDone, admission, ready, processDraining, messaging, srv,
                 exits, busy, live, failure, stop, reported, drainDue, joinDue>>
watchVars == <<draining, verdict, age, guarded, wpc, ctxDone, phase, tick, currentOk, previousOk,
               timer, fired, publishing, serving, grpcDraining>>
grpcVars == <<rpc, tracked, active, rpcDraining, doneCloses, healthServing, healthDraining,
              healthCancel, once, aborted, shutdown, expired, close>>
answerVars == <<transport, mappers, at, err, received, raised, policy, records, answer>>
allVars == <<part, vars, serviceVars, watchVars, grpcVars, answerVars>>

MCInit ==
    /\ part \in {"service", "watch", "history", "grpc", "failure"}
    /\ Init /\ Service!Init /\ Watch!Init /\ Grpc!Init /\ Answer!Init
    /\ part # "history" => threshold = 1
    /\ part # "failure" => transport = "http" /\ mappers = <<>>

InHistory == part = "history" /\ UNCHANGED <<part, serviceVars, watchVars, grpcVars, answerVars>>
InService == part = "service" /\ UNCHANGED <<part, vars, watchVars, grpcVars, answerVars>>
InWatch == part = "watch" /\ UNCHANGED <<part, vars, serviceVars, grpcVars, answerVars>>
InGrpc == part = "grpc" /\ UNCHANGED <<part, vars, serviceVars, watchVars, answerVars>>
InAnswer == part = "failure" /\ UNCHANGED <<part, vars, serviceVars, watchVars, grpcVars>>

ServiceNext ==
    \/ InService /\ Service!Acquire
    \/ InService /\ Service!GoTask("goConnection", "messaging_connection", "idempotency")
    \/ InService /\ Service!Build("idempotency", "goMaintenance")
    \/ InService /\ Service!GoTask("goMaintenance", "http_idempotency_maintenance", "build")
    \/ InService /\ Service!Build("build", "listen")
    \/ InService /\ Service!Listen
    \/ InService /\ Service!Serve
    \/ InService /\ Service!Admit
    \/ InService /\ Service!GoTask("onReady", "readiness_refresh", "run")
    \/ InService /\ Service!RuntimeStop
    \/ InService /\ Service!PreDrain
    \/ InService /\ Service!StartDrain
    \/ InService /\ Service!Propagate
    \/ InService /\ Service!ShutdownServers
    \/ InService /\ Service!Collect
    \/ InService /\ Service!ShutdownDiagnostics
    \/ InService /\ Service!CloseMessaging
    \/ InService /\ Service!StopSupervisor
    \/ InService /\ Service!CloseOwner
    \/ InService /\ Service!Exit
    \/ \E ok \in BOOLEAN : InService /\ Service!AdmissionResult(ok)
    \/ \E s \in Service!Servers : InService /\ Service!ServerExits(s)
    \/ \E s \in API : InService /\ Service!RequestStarts(s)
    \/ \E s \in API : InService /\ Service!RequestEnds(s)
    \/ \E s \in API : InService /\ Service!ServerStops(s)
    \/ \E t \in Service!Tasks : InService /\ Service!TaskFails(t)
    \/ \E t \in Service!Tasks : InService /\ Service!TaskEnds(t)
    \/ InService /\ Service!Signal
    \/ InService /\ Service!StartupExpires
    \/ InService /\ Service!DrainExpires
    \/ InService /\ Service!JoinExpires
    \/ InService /\ Service!Done

WatchNext ==
    \/ \E ok \in BOOLEAN : InWatch /\ Watch!Admit(ok)
    \/ \E ok \in BOOLEAN : InWatch /\ Watch!WatchRefresh(ok)
    \/ InWatch /\ Watch!WatchStep
    \/ InWatch /\ Watch!TimerFires
    \/ InWatch /\ Watch!StaleCallback
    \/ InWatch /\ Watch!StartDrain
    \/ InWatch /\ Watch!GrpcStartDrain
    \/ InWatch /\ Watch!CancelWatch
    \/ InWatch /\ Watch!Pass

GrpcNext ==
    \/ \E up \in BOOLEAN : InGrpc /\ Grpc!SetServing(up)
    \/ InGrpc /\ Grpc!StartDrain
    \/ InGrpc /\ Grpc!CallShutdown
    \/ InGrpc /\ Grpc!CallClose
    \/ InGrpc /\ Grpc!Expire
    \/ InGrpc /\ Grpc!BeginDrain
    \/ InGrpc /\ Grpc!NotDrainedYet
    \/ InGrpc /\ Grpc!DrainEnded
    \/ InGrpc /\ Grpc!StoppedByClose
    \/ InGrpc /\ Grpc!DeadlinePassed
    \/ InGrpc /\ Grpc!GracefulReturns
    \/ InGrpc /\ Grpc!CloseReturns
    \/ \E r \in Grpc!Rpcs : InGrpc /\ Grpc!Arrive(r)
    \/ \E r \in Grpc!Rpcs : InGrpc /\ Grpc!Receive(r)
    \/ \E r \in Grpc!Rpcs : InGrpc /\ Grpc!Acquire(r)
    \/ \E r \in Grpc!Rpcs : InGrpc /\ Grpc!Return(r)
    \/ \E r \in Grpc!Rpcs : InGrpc /\ Grpc!End(r)

AnswerNext ==
    \/ InAnswer /\ Answer!PolicyEnters
    \/ InAnswer /\ Answer!Validate
    \/ InAnswer /\ Answer!RecvMsg
    \/ InAnswer /\ Answer!HandlerReturns
    \/ InAnswer /\ Answer!Reject
    \/ InAnswer /\ Answer!handlerErrorBoundary
    \/ InAnswer /\ Answer!PolicyReturns
    \/ InAnswer /\ Answer!policyErrorBoundary
    \/ InAnswer /\ Answer!Panics

\* A history ends at its bound, a call with its answer, the health service and the gRPC server with their process.
Quiet == part # "service" /\ UNCHANGED allVars

MCNext ==
    \/ ServiceNext \/ WatchNext \/ GrpcNext \/ AnswerNext \/ Quiet
    \/ \E ok \in BOOLEAN : InHistory /\ Refresh(ok)

\* The fairness of each part, in its own behaviours; a step of one part is never possible in a
\* behaviour of another, so that they may share a condition.  Nothing is said of how histories
\* end.
MCSpec ==
    /\ MCInit /\ [][MCNext]_allVars
    /\ WF_allVars((InService /\ Service!Progress) \/ (InWatch /\ Watch!Pass)
                   \/ (InGrpc /\ Grpc!Progress))
    /\ WF_allVars((InWatch /\ Watch!WatchStep) \/ (InGrpc /\ Grpc!Receives))
    /\ WF_allVars(InWatch /\ Watch!TimerFires)
    /\ WF_allVars(InWatch /\ Watch!StaleCallback)
    /\ WF_allVars(InWatch /\ Watch!GrpcStartDrain)

-----------------------------------------------------------------------------
(* Properties, of whichever part runs; see its module.  VerdictMatchesHistory is
   RefreshHistory's own. *)

\* OwnersOutliveUsers: nothing of the service loses what it stands on, and a process that
\* exits has released every owner it acquired, whichever stage failed (ServiceLifecycle).
OwnersOutliveUsers == Service!OwnersOutliveUsers /\ Service!NothingLeaks

\* DrainOrder: the service turns traffic away before its servers stop, and keeps its
\* diagnostics until the drain they record is over (ServiceLifecycle).
DrainOrder == Service!DrainOrder

\* StatusIsHonest: a SERVING status the HTTP probe contradicts has somebody to withdraw it,
\* while nobody is at work the status is the last announcement, and no late announcement
\* undoes the drain of the gRPC status (Readiness); the status or problem a failed call is
\* answered with carries no text but the service's own, agrees across the transports, and
\* leaves a record of what it hides (FailureAnswer).
StatusIsHonest == Watch!StatusIsHonest /\ Watch!DrainIsFinal /\ Answer!FailureIsHonest

\* StaleIsWithdrawn: a verdict nothing refreshes any more is withdrawn (Readiness).
StaleIsWithdrawn == Watch!StaleIsWithdrawn

\* GracefulLosesNothing: a Shutdown that returns nil cut off no RPC that was open before the
\* drain, which ended only when no business RPC was in a handler (GrpcServer).
GracefulLosesNothing == Grpc!GracefulLosesNothing /\ Grpc!DrainedMeansIdle

\* StopsOnEvent: a signal, a server that stops and a task that fails end the process, and
\* Shutdown and Close of the gRPC server return, whatever hangs: a probe, a request, a task,
\* a handler, a watching peer (ServiceLifecycle, GrpcServer).
StopsOnEvent ==
    (IF part = "grpc" THEN Grpc!Stopping ELSE Service!StopEvent)
      ~> (IF part = "grpc" THEN Grpc!Stopped ELSE pc = "exited")
=============================================================================
