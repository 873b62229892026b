----------------------------- MODULE MCBackground -----------------------------
(***************************************************************************)
(* Model-checking instance of background work: a behaviour is one of        *)
(* Supervisor, of JobsLifecycle, of RelayLifecycle, of OutboundToken or of  *)
(* PostgresPool.  They share no state; `part` says which runs, and the      *)
(* others stay in an initial state, or are "-".                             *)
(*                                                                         *)
(* Supervisor: a task, one that cannot run, and two callers of Shutdown.    *)
(* Token: two calls share a cache whose token expires, early expiry         *)
(* included, within the clock's range.  Pool: two transactions and the      *)
(* readiness probe compete for one connection.                              *)
(***************************************************************************)
EXTENDS Supervisor

CONSTANTS Calls, EarlyExpiry, MaxTime, None, Txs, Conns

VARIABLES
    part,
    now, closed, process, cache, lock, call, asked,
    river, riverStopping, job, startupDone, afterFunc, runtimeCancel, start, started, startErr,
    main, diagnostics, signal, expired, cleanupSafe,
    ready, riverStopped, riverStopErr, trigger, pool, exit,
    admitted, background, connection, publishing, riverErr, released,
    sp, budgetDone, openedLate, pgPool, idle, marks, tx, held, txDone, canceled, cut, durable,
    errs, probe, pinging, probeDone, pingedLate, closer, closeDone

Token == INSTANCE OutboundToken
Jobs == INSTANCE JobsLifecycle WITH stopping <- riverStopping, stopErr <- riverStopErr
Relay == INSTANCE RelayLifecycle WITH stopping <- riverStopping
Pool == INSTANCE PostgresPool WITH pool <- pgPool

tokenVars == <<now, closed, process, cache, lock, call, asked>>
jobsOnly == <<ready, riverStopped, riverStopErr, trigger, pool, exit>>
relayOnly == <<admitted, background, connection, publishing, riverErr, released>>
shared == <<river, riverStopping, job, startupDone, afterFunc, runtimeCancel, start, started,
            startErr, main, diagnostics, signal, expired, cleanupSafe>>
processVars == <<shared, jobsOnly, relayOnly>>
poolVars == <<sp, budgetDone, openedLate, pgPool, idle, marks, tx, held, txDone, canceled, cut,
              durable, errs, probe, pinging, probeDone, pingedLate, closer, closeDone>>
allVars == <<part, vars, tokenVars, processVars, poolVars>>

NoJobs ==
    /\ ready = "-" /\ riverStopped = "-" /\ riverStopErr = "-" /\ trigger = "-" /\ pool = "-"
    /\ exit = "-"
NoRelay ==
    /\ admitted = "-" /\ background = "-" /\ connection = "-" /\ publishing = "-"
    /\ riverErr = "-" /\ released = "-"
NoRiver ==
    /\ river = "-" /\ riverStopping = "-" /\ job = "-" /\ startupDone = "-" /\ afterFunc = "-"
    /\ runtimeCancel = "-" /\ start = "-" /\ started = "-" /\ startErr = "-" /\ main = "-"
    /\ diagnostics = "-" /\ signal = "-" /\ expired = "-" /\ cleanupSafe = "-"

MCInit ==
    /\ Init /\ Token!Init /\ Pool!Init
    /\ \/ part \in {"supervisor", "token", "pool"} /\ NoRiver /\ NoJobs /\ NoRelay
       \/ part = "jobs" /\ Jobs!Init /\ NoRelay
       \/ part = "relay" /\ Relay!Init /\ NoJobs

InSupervisor == part = "supervisor" /\ UNCHANGED <<part, tokenVars, processVars, poolVars>>
InToken == part = "token" /\ UNCHANGED <<part, vars, processVars, poolVars>>
InJobs == part = "jobs" /\ UNCHANGED <<part, vars, tokenVars, relayOnly, poolVars>>
InRelay == part = "relay" /\ UNCHANGED <<part, vars, tokenVars, jobsOnly, poolVars>>
InPool == part = "pool" /\ UNCHANGED <<part, vars, tokenVars, processVars>>

SupervisorNext ==
    \/ \E t \in Tasks : InSupervisor /\ Go(t)
    \/ \E t \in Tasks : InSupervisor /\ TaskStep(t)
    \/ \E t \in Tasks, o \in Outcomes : InSupervisor /\ RunTask(t, o)
    \/ \E c \in Callers : InSupervisor /\ Shutdown(c)
    \/ \E c \in Callers : InSupervisor /\ ShutdownStep(c)
    \/ \E c \in Callers : InSupervisor /\ Expire(c)
    \/ InSupervisor /\ GroupWait
    \/ InSupervisor /\ Receive
    \/ InSupervisor /\ ParentCancel

JobsNext ==
    \/ InJobs /\ Jobs!RiverRuns
    \/ InJobs /\ Jobs!Signal
    \/ InJobs /\ Jobs!DiagnosticsFail
    \/ InJobs /\ Jobs!Expire
    \/ InJobs /\ Jobs!Started
    \/ InJobs /\ \E ok \in BOOLEAN : Jobs!Listen(ok)
    \/ InJobs /\ Jobs!Trigger
    \/ InJobs /\ \E err \in Jobs!StopErrors : Jobs!SoftStop(err)
    \/ InJobs /\ \E err \in Jobs!StopErrors : Jobs!HardStop(err)
    \/ InJobs /\ Jobs!Verdict
    \/ InJobs /\ Jobs!Leave
    \/ InJobs /\ Jobs!Exited

RelayNext ==
    \/ InRelay /\ Relay!RiverRuns
    \/ InRelay /\ Relay!Signal
    \/ InRelay /\ Relay!ConnectionLost
    \/ InRelay /\ Relay!DiagnosticsFail
    \/ InRelay /\ Relay!Expire
    \/ InRelay /\ \E ok \in BOOLEAN : Relay!Admit(ok)
    \/ InRelay /\ Relay!Started
    \/ InRelay /\ Relay!Trigger
    \/ InRelay /\ Relay!StopRiver
    \/ InRelay /\ Relay!StopTail
    \/ InRelay /\ Relay!ShutdownMessaging
    \/ InRelay /\ Relay!Verdict
    \/ InRelay /\ Relay!Leave
    \/ InRelay /\ Relay!Exited

TokenNext ==
    \/ \E c \in Calls, kind \in {"http", "grpc"}, own, secure \in BOOLEAN :
         InToken /\ Token!Start(c, kind, own, secure)
    \/ \E c \in Calls : InToken /\ Token!Step(c)
    \/ \E c \in Calls : InToken /\ Token!Again(c)
    \/ InToken /\ Token!Close
    \/ InToken /\ Token!CancelProcess
    \/ InToken /\ Token!Tick

PoolNext ==
    \/ InPool /\ Pool!Start
    \/ InPool /\ Pool!OpenPool
    \/ InPool /\ Pool!OpenStep("ping", "stats")
    \/ InPool /\ Pool!OpenStep("stats", "opened")
    \/ InPool /\ Pool!Decide
    \/ InPool /\ Pool!BudgetEnds
    \/ InPool /\ Pool!Check
    \/ InPool /\ Pool!ProbeEnds
    \/ InPool /\ Pool!Ping
    \/ InPool /\ Pool!Pinged
    \/ InPool /\ Pool!Verdict
    \/ InPool /\ Pool!Close
    \/ InPool /\ Pool!CloseExpires
    \/ InPool /\ Pool!PoolCloses
    \/ InPool /\ Pool!CloseReturns
    \/ \E t \in Txs : InPool /\ Pool!Acquire(t)
    \/ \E t \in Txs : InPool /\ Pool!CtxEnds(t)
    \/ \E t \in Txs : InPool /\ Pool!HandleCancel(t)
    \/ \E t \in Txs : InPool /\ Pool!Begin(t)
    \/ \E t \in Txs : InPool /\ Pool!Run(t)
    \/ \E t \in Txs : InPool /\ Pool!Commit(t)
    \/ \E t \in Txs : InPool /\ Pool!Rollback(t)
    \/ \E t \in Txs, n \in 1..2 : InPool /\ Pool!Deferred(t, n)

\* All callers of Shutdown have returned, or no more calls come.
Quiet == part \in {"supervisor", "token", "pool"} /\ UNCHANGED allVars

MCNext == SupervisorNext \/ JobsNext \/ RelayNext \/ TokenNext \/ PoolNext \/ Quiet

\* The fairness of each part, in its own behaviours; a step of one part is never possible in
\* a behaviour of another, so that they may share a condition.
MCSpec ==
    /\ MCInit /\ [][MCNext]_allVars
    /\ WF_allVars((InSupervisor /\ Progress) \/ (InJobs /\ Jobs!Own) \/ (InRelay /\ Relay!Own)
                   \/ (InPool /\ Pool!Closing))
    /\ WF_allVars((InJobs /\ Jobs!Expire) \/ (InRelay /\ Relay!Expire))
    /\ WF_allVars((InJobs /\ Jobs!Starting) \/ (InRelay /\ Relay!Starting))
    /\ \A c \in Calls :
         /\ WF_allVars(InToken /\ Token!Available(c))
         /\ SF_allVars(InToken /\ Token!Lock(c))
         /\ WF_allVars(InToken /\ Token!Ask(c))
         /\ WF_allVars(InToken /\ Token!GiveUp(c))

-----------------------------------------------------------------------------
(* Properties, of whichever part runs; see its module.  NoFailureLost, JoinIsComplete,
   ImplementsContract and ShutdownReturns are Supervisor's own. *)

\* ReleasedAfterOwners: run closes the pool, and with it the relay's connection, only when
\* River has joined and no background task uses them (the relay's own Shutdown of its
\* messaging client waits for River alone), the relay never takes the publisher from a job
\* that may use it, and a process that answers ready runs a River that is out of the
\* startup context's reach (JobsLifecycle, RelayLifecycle, StartRuntime).  The service's pool
\* is closed by a start that is refused, serves no late probe, and tells each transaction the
\* truth of its commit and of its context (PostgresPool).
ReleasedAfterOwners ==
    /\ part = "jobs" => Jobs!PoolOutlivesRiver /\ Jobs!AdmittedIsLive
    /\ part = "relay" => Relay!ReleasedAfterOwners /\ Relay!JobsCanPublish /\ Relay!AdmittedIsLive
    /\ Pool!PoolIsSound

\* StopsOnEvent: a signal, a lost connection, a lost listener and a River that stopped
\* lead to the exit, also when a job never ends (JobsLifecycle, RelayLifecycle); Close of the
\* service's pool returns, also when a connection never comes back (PostgresPool).
StopsOnEvent ==
    (\/ part = "jobs" /\ Jobs!StopEvent
     \/ part = "relay" /\ Relay!StopEvent
     \/ part = "pool" /\ closer = "waiting") ~> (main = "exit" \/ closer = "returned")

\* CredentialIsSound: a request leaves with one credential, the client's, over a secure
\* transport, valid for a while and never for a call that began after Close; one call at a time
\* acquires, and none asks the provider once Close has canceled its context (OutboundToken).
CredentialIsSound == Token!CredentialIsSound

\* EveryCallEnds: a caller that waits for the cache or for the provider gets its answer
\* (OutboundToken).
EveryCallEnds == Token!EveryCallEnds
=============================================================================
