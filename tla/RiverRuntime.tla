----------------------------- MODULE RiverRuntime -----------------------------
(***************************************************************************)
(* What the two River roles (cmd/outbox-relay and cmd/jobs-worker) share:  *)
(* the River client (external), started through                            *)
(* cmd/internal/runtimeopts, lifecycle.go, StartRuntime.                   *)
(*                                                                         *)
(* The startup context bounds a blocking start and must not reach into the *)
(* runtime once it is admitted; a cancellation that wins the race leaves a *)
(* River that runs and that somebody has to stop.                          *)
(***************************************************************************)
EXTENDS Naturals

VARIABLES
    river,         \* the client: "idle", "starting", "running", "stopped"
    stopping,      \* a stop was requested, or its context is cancelled
    job,           \* a job is running
    startupDone,   \* startupCtx has ended: its timeout, or the signal
    afterFunc,     \* the AfterFunc on startupCtx: "none", "armed", "fired", "detached"
    runtimeCancel, \* the runtime context is cancelled
    start,         \* StartRuntime: "call", "wait", "detach", "over"
    started,       \* its results
    startErr

startVars == <<afterFunc, start, started, startErr>>
riverVars == <<river, stopping, job, startupDone, runtimeCancel, startVars>>

RiverInit ==
    /\ river = "idle" /\ stopping = FALSE /\ job = FALSE
    /\ startupDone = FALSE /\ afterFunc = "none" /\ runtimeCancel = FALSE
    /\ start = "call" /\ started = FALSE /\ startErr = FALSE

-----------------------------------------------------------------------------
(* River. *)

StartReturns(ok) ==
    /\ river = "starting"
    /\ start = "wait"
    /\ river' = IF ok THEN "running" ELSE "idle"
    /\ started' = ok
    /\ startErr' = ~ok
    /\ start' = "detach"
    /\ UNCHANGED <<stopping, job, startupDone, afterFunc, runtimeCancel>>

JobBegins ==
    /\ river = "running" /\ ~stopping /\ ~runtimeCancel
    /\ ~job
    /\ job' = TRUE
    /\ UNCHANGED <<river, stopping, startupDone, runtimeCancel, startVars>>

JobEnds ==
    /\ job
    /\ job' = FALSE
    /\ UNCHANGED <<river, stopping, startupDone, runtimeCancel, startVars>>

\* Stopped() closes once River has joined its jobs: it was asked to stop, its context
\* ended, or it gave up by itself.
RiverStops ==
    /\ river = "running"
    /\ ~job
    /\ river' = "stopped"
    /\ UNCHANGED <<stopping, job, startupDone, runtimeCancel, startVars>>

-----------------------------------------------------------------------------
(* StartRuntime. *)

\* The startup deadline or the signal.
StartupEnds ==
    /\ ~startupDone
    /\ startupDone' = TRUE
    /\ UNCHANGED <<river, stopping, job, runtimeCancel, startVars>>

StartCall ==
    /\ start = "call"
    /\ \/ /\ startupDone
          /\ runtimeCancel' = TRUE
          /\ startErr' = TRUE
          /\ start' = "over"
          /\ UNCHANGED <<river, afterFunc>>
       \/ /\ ~startupDone
          /\ afterFunc' = "armed"
          /\ river' = "starting"
          /\ start' = "wait"
          /\ UNCHANGED <<runtimeCancel, startErr>>
    /\ UNCHANGED <<stopping, job, startupDone, started>>

AfterFuncFires ==
    /\ startupDone
    /\ afterFunc = "armed"
    /\ afterFunc' = "fired"
    /\ runtimeCancel' = TRUE
    /\ UNCHANGED <<river, stopping, job, startupDone, start, started, startErr>>

\* Variant: a start that returned nil counts as admitted whoever won the race.
DetachUnchecked ==
    /\ start = "detach"
    /\ afterFunc' = IF afterFunc = "armed" THEN "detached" ELSE afterFunc
    /\ start' = "over"
    /\ UNCHANGED <<river, stopping, job, startupDone, runtimeCancel, started, startErr>>

\* stopStartupCancel: a cancellation that fired first is an error of a started runtime.
Detach ==
    /\ start = "detach"
    /\ afterFunc' = IF afterFunc = "armed" THEN "detached" ELSE afterFunc
    /\ startErr' = (startErr \/ afterFunc # "armed")
    /\ start' = "over"
    /\ UNCHANGED <<river, stopping, job, startupDone, runtimeCancel, started>>

RiverStep ==
    \/ \E ok \in BOOLEAN : StartReturns(ok)
    \/ JobBegins \/ JobEnds \/ RiverStops
    \/ StartupEnds \/ StartCall \/ AfterFuncFires \/ Detach
=============================================================================
