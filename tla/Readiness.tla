------------------------------- MODULE Readiness -------------------------------
(***************************************************************************)
(* internal/health.Service with its refresher and the gRPC health status   *)
(* it publishes to: Watch evaluates the probes and caches the verdict,     *)
(* readiness transitions are announced under a mutex, a timer announces a  *)
(* verdict nothing refreshes any more, and StartDrain can come at any      *)
(* moment.                                                                 *)
(*                                                                         *)
(* Time is relative: age is how old the cached verdict is, saturating just *)
(* above the staleness budget.  The announcement (onTransition) is         *)
(* grpcx.Server.SetServing, as cmd/service wires it.                       *)
(***************************************************************************)
EXTENDS ReadinessVerdict

CONSTANTS
    Interval,          \* cfg.Health.RefreshInterval, in ticks of the clock
    ProbeBudget,       \* Policy.ProbeBudget, in ticks of the clock
    FailureThreshold   \* Policy.FailureThreshold

VARIABLES
    draining,     \* Service.draining
    state,        \* Service.state
    age,          \* how long ago it was stored
    guarded,      \* staleAfter has been published
    wpc,          \* where Watch is
    ctxDone,      \* Watch's context is done
    phase, tick,  \* the ticker: time to its next tick, and the buffered tick
    currentOk,    \* Watch's currentErr is nil
    previousOk,   \* readinessTransitions.previousErr is nil
    timer,        \* the armed staleness timer
    fired,        \* staleness callbacks waiting for the transitions mutex
    publishing,   \* a staleness callback holds that mutex, past its checks
    serving,      \* the published gRPC health status
    grpcDraining  \* grpcx.Server.healthDraining

cacheVars == <<state, age>>
watchVars == <<guarded, wpc, phase, tick, currentOk>>
vars == <<draining, cacheVars, watchVars, ctxDone, previousOk, timer, fired,
          publishing, serving, grpcDraining>>

StaleAfter == StaleBudget(Interval, ProbeBudget)
AgeCap == StaleAfter + 1
Older(a) == IF a < AgeCap THEN a + 1 ELSE a

NoTimer == [armed |-> FALSE]
\* A timer knows the state it was armed for: the cached one, or one replaced since.
Timer(current, a) == [armed |-> TRUE, current |-> current, age |-> a]

\* The streak counter saturates at the threshold, beyond which it is not read.
Saturated(s) == IF s.failures > FailureThreshold
                THEN [s EXCEPT !.failures = FailureThreshold] ELSE s

-----------------------------------------------------------------------------
Init ==
    /\ draining = FALSE
    /\ state = NoState
    /\ age = 0
    /\ guarded = FALSE
    /\ wpc = "off"
    /\ ctxDone = FALSE
    /\ phase = Interval
    /\ tick = FALSE
    /\ currentOk = FALSE
    /\ previousOk = FALSE
    /\ timer = NoTimer
    /\ fired = {}
    /\ publishing = FALSE
    /\ serving = FALSE
    /\ grpcDraining = FALSE

-----------------------------------------------------------------------------
\* Variant: SetServing without its test of healthDraining.
SetServingAlways(ready) == serving' = ready

\* SetServing publishes nothing once the gRPC server drains.
SetServing(ready) == serving' = (IF grpcDraining THEN serving ELSE ready)

\* Refresh stores the folded verdict; timers and callbacks that hold the
\* previous state's pointer now hold a replaced one.
Refresh(ok) ==
    /\ state' = Saturated(NextReadiness(state, ok, FailureThreshold))
    /\ age' = 0
    /\ timer' = IF timer.armed THEN [timer EXCEPT !.current = FALSE] ELSE timer
    /\ fired' = IF fired = {} THEN {} ELSE {FALSE}

\* Startup admission evaluates once; only a healthy verdict admits traffic and
\* starts Watch, which therefore always finds the cache seeded.
Admit(ok) ==
    /\ wpc = "off"
    /\ state = NoState
    /\ Refresh(ok)
    /\ IF ok THEN /\ SetServing(TRUE)
                  /\ wpc' = "enter"
             ELSE UNCHANGED <<serving, wpc>>
    /\ UNCHANGED <<draining, guarded, ctxDone, phase, tick, currentOk,
                   previousOk, publishing, grpcDraining>>

\* Watch publishes the staleness budget before anything else, unless its
\* context is already done.
WatchEnter ==
    /\ wpc = "enter"
    /\ IF ctxDone THEN /\ wpc' = "done"
                       /\ UNCHANGED guarded
                  ELSE /\ guarded' = TRUE
                       /\ wpc' = "load"
    /\ UNCHANGED <<draining, cacheVars, phase, tick, currentOk, ctxDone,
                   previousOk, timer, fired, publishing, serving, grpcDraining>>

\* The initial verdict is where transitions start from, not itself a transition.
WatchLoad ==
    /\ wpc = "load"
    /\ previousOk' = state.ok
    /\ wpc' = "arm"
    /\ UNCHANGED <<draining, cacheVars, guarded, phase, tick, currentOk, ctxDone,
                   timer, fired, publishing, serving, grpcDraining>>

\* Variant: a verdict held through a failed evaluation is not given a timer.
WatchArmFresh ==
    /\ wpc = "arm"
    /\ timer' = IF state.ok /\ state.failures = 0 /\ ~draining
                THEN Timer(TRUE, age) ELSE NoTimer
    /\ wpc' = "select"
    /\ UNCHANGED <<draining, cacheVars, guarded, phase, tick, currentOk, ctxDone,
                   previousOk, fired, publishing, serving, grpcDraining>>

\* armStaleness: only a healthy verdict can go stale in a way worth announcing.
WatchArm ==
    /\ wpc = "arm"
    /\ timer' = IF state.ok /\ ~draining THEN Timer(TRUE, age) ELSE NoTimer
    /\ wpc' = "select"
    /\ UNCHANGED <<draining, cacheVars, guarded, phase, tick, currentOk, ctxDone,
                   previousOk, fired, publishing, serving, grpcDraining>>

\* Variant: a returning Watch always stops its timer.
WatchStopsTimer ==
    /\ wpc = "select"
    /\ ctxDone
    /\ timer' = NoTimer
    /\ wpc' = "done"
    /\ UNCHANGED <<draining, cacheVars, guarded, phase, tick, currentOk, ctxDone,
                   previousOk, fired, publishing, serving, grpcDraining>>

\* The select: the context, or a tick; either when both are ready.
WatchStop ==
    /\ wpc = "select"
    /\ ctxDone
    /\ timer' = IF draining THEN NoTimer ELSE timer
    /\ wpc' = "done"
    /\ UNCHANGED <<draining, cacheVars, guarded, phase, tick, currentOk, ctxDone,
                   previousOk, fired, publishing, serving, grpcDraining>>

WatchTick ==
    /\ wpc = "select"
    /\ tick
    /\ tick' = FALSE
    /\ wpc' = "evaluate"
    /\ UNCHANGED <<draining, cacheVars, guarded, phase, currentOk, ctxDone,
                   previousOk, timer, fired, publishing, serving, grpcDraining>>

\* The evaluation returns.  Nothing forces a probe to return.
WatchRefresh(ok) ==
    /\ wpc = "evaluate"
    /\ Refresh(ok)
    /\ wpc' = "stopTimer"
    /\ UNCHANGED <<draining, guarded, phase, tick, currentOk, ctxDone,
                   previousOk, publishing, serving, grpcDraining>>

\* staleTimer.Stop does not recall a callback that has already fired.
WatchStopTimer ==
    /\ wpc = "stopTimer"
    /\ timer' = NoTimer
    /\ wpc' = "loadDraining"
    /\ UNCHANGED <<draining, cacheVars, guarded, phase, tick, currentOk, ctxDone,
                   previousOk, fired, publishing, serving, grpcDraining>>

WatchLoadDraining ==
    /\ wpc = "loadDraining"
    /\ currentOk' = (state.ok /\ ~draining)
    /\ wpc' = "publish"
    /\ UNCHANGED <<draining, cacheVars, guarded, phase, tick, ctxDone,
                   previousOk, timer, fired, publishing, serving, grpcDraining>>

\* publish: under the mutex, announce a change of the verdict's sign.
WatchPublish ==
    /\ wpc = "publish"
    /\ ~publishing
    /\ IF previousOk # currentOk THEN SetServing(currentOk) ELSE UNCHANGED serving
    /\ previousOk' = currentOk
    /\ wpc' = "arm"
    /\ UNCHANGED <<draining, cacheVars, guarded, phase, tick, currentOk, ctxDone,
                   timer, fired, publishing, grpcDraining>>

WatchStep ==
    \/ WatchEnter \/ WatchLoad \/ WatchArm \/ WatchStop \/ WatchTick
    \/ WatchStopTimer \/ WatchLoadDraining \/ WatchPublish

-----------------------------------------------------------------------------
\* The timer's delay ends one nanosecond after its state has gone stale.
TimerFires ==
    /\ timer.armed
    /\ timer.age > StaleAfter
    /\ timer' = NoTimer
    /\ fired' = fired \cup {timer.current}
    /\ UNCHANGED <<draining, cacheVars, watchVars, ctxDone, previousOk,
                   publishing, serving, grpcDraining>>

\* publishStale takes the mutex and gives up if the service drains, the state
\* it was armed for has been replaced, or the failure is already announced.  Its
\* own state is stale, since the timer fired.
StaleCheck(current) ==
    /\ current \in fired
    /\ ~publishing
    /\ fired' = fired \ {current}
    /\ publishing' = (current /\ ~draining /\ previousOk)
    /\ UNCHANGED <<draining, cacheVars, watchVars, ctxDone, previousOk, timer,
                   serving, grpcDraining>>

StaleNotify ==
    /\ publishing
    /\ previousOk' = FALSE
    /\ SetServing(FALSE)
    /\ publishing' = FALSE
    /\ UNCHANGED <<draining, cacheVars, watchVars, ctxDone, timer, fired,
                   grpcDraining>>

StaleCallback == StaleNotify \/ \E current \in BOOLEAN : StaleCheck(current)

-----------------------------------------------------------------------------
\* The drain set: health.Service.StartDrain, then grpcx.Server.StartDrain.
StartDrain ==
    /\ ~draining
    /\ draining' = TRUE
    /\ UNCHANGED <<cacheVars, watchVars, ctxDone, previousOk, timer, fired,
                   publishing, serving, grpcDraining>>

GrpcStartDrain ==
    /\ draining
    /\ ~grpcDraining
    /\ grpcDraining' = TRUE
    /\ serving' = FALSE
    /\ UNCHANGED <<draining, cacheVars, watchVars, ctxDone, previousOk, timer,
                   fired, publishing>>

CancelWatch ==
    /\ ~ctxDone
    /\ ctxDone' = TRUE
    /\ UNCHANGED <<draining, cacheVars, watchVars, previousOk, timer, fired,
                   publishing, serving, grpcDraining>>

\* One unit of time passes; the ticker, once running, buffers one tick.
Ticking == wpc \notin {"off", "enter", "load"}

Pass ==
    /\ age' = Older(age)
    /\ timer' = IF timer.armed THEN [timer EXCEPT !.age = Older(@)] ELSE timer
    /\ phase' = IF ~Ticking THEN phase ELSE IF phase = 1 THEN Interval ELSE phase - 1
    /\ tick' = (tick \/ (Ticking /\ phase = 1))
    /\ UNCHANGED <<draining, state, guarded, wpc, currentOk, ctxDone,
                   previousOk, fired, publishing, serving, grpcDraining>>

-----------------------------------------------------------------------------
Next ==
    \/ \E ok \in BOOLEAN : Admit(ok) \/ WatchRefresh(ok)
    \/ WatchStep
    \/ TimerFires \/ StaleCallback
    \/ StartDrain \/ GrpcStartDrain \/ CancelWatch \/ Pass

\* Time passes, timers fire, goroutines that can run do.  Probes may hang: there
\* is no fairness on an evaluation.
Fairness ==
    /\ WF_vars(Pass)
    /\ WF_vars(WatchStep)
    /\ WF_vars(TimerFires)
    /\ WF_vars(StaleCallback)
    /\ WF_vars(GrpcStartDrain)

Spec == Init /\ [][Next]_vars
FairSpec == Spec /\ Fairness

-----------------------------------------------------------------------------
\* Cached, as the HTTP readiness probe answers it.
Cached ==
    IF draining THEN "draining"
    ELSE IF state = NoState THEN "notEvaluated"
    ELSE IF guarded /\ age > StaleAfter THEN "stale"
    ELSE IF state.ok THEN "ok" ELSE "failed"

WatchPC == {"off", "enter", "load", "arm", "select", "evaluate",
            "stopTimer", "loadDraining", "publish", "done"}

TypeOK ==
    /\ draining \in BOOLEAN
    /\ \/ state = NoState
       \/ \E ok \in BOOLEAN, n \in 0..FailureThreshold : state = Evaluated(ok, n)
    /\ age \in 0..AgeCap
    /\ guarded \in BOOLEAN
    /\ wpc \in WatchPC
    /\ ctxDone \in BOOLEAN
    /\ phase \in 1..Interval
    /\ tick \in BOOLEAN
    /\ currentOk \in BOOLEAN
    /\ previousOk \in BOOLEAN
    /\ \/ timer = NoTimer
       \/ \E current \in BOOLEAN, a \in 0..AgeCap : timer = Timer(current, a)
    /\ fired \in SUBSET BOOLEAN
    /\ publishing \in BOOLEAN
    /\ serving \in BOOLEAN
    /\ grpcDraining \in BOOLEAN

\* Who can still withdraw a SERVING status: Watch between its evaluation and its
\* publication, the staleness timer or its callback, or the drain that has begun.
\* Watch idle in its select is nobody.
SomebodyWithdraws ==
    \/ wpc \in {"enter", "load", "arm", "stopTimer", "loadDraining", "publish"}
    \/ timer.armed /\ timer.current
    \/ TRUE \in fired
    \/ publishing
    \/ draining

\* StatusIsHonest: the gRPC status says SERVING while the HTTP probe would refuse only as
\* long as somebody who will withdraw it is at work, and while Watch waits and no callback
\* is at work it is the sign of the last announcement: none was lost, repeated or
\* reordered (Watch, armStaleness, publishStale).
StatusIsHonest ==
    /\ serving /\ Cached # "ok" => SomebodyWithdraws
    /\ wpc \in {"select", "evaluate"} /\ ~publishing /\ ~grpcDraining => serving = previousOk

\* DrainIsFinal: whatever announcement is late, the gRPC status never says SERVING again after
\* the gRPC server started to drain (Server.SetServing, Server.StartDrain).
DrainIsFinal == grpcDraining => ~serving

\* StaleIsWithdrawn: a verdict nothing refreshes any more is withdrawn, whether the refresher
\* returned or its probe hangs.
StaleIsWithdrawn ==
    (serving /\ Cached = "stale") ~> (~serving \/ Cached = "ok")
=============================================================================
