---------------------------- MODULE TeardownBudget ----------------------------
(***************************************************************************)
(* cmd/internal/runtimeopts/teardown.go and the shutdownBudget of          *)
(* cmd/service: one deadline, the platform's grace period counted from the *)
(* moment serving ends, from which a drain and the stages after it draw.   *)
(*                                                                         *)
(* Stage 0 is the drain, whose length is configured; stages 1..N have the  *)
(* ceilings Want[k] the binary is built with, and Rest[k] is what stages   *)
(* k..N may still spend (the binary's tail budget is Rest[1]).  Durations  *)
(* are signed integers of the width the code has: a sum may wrap.          *)
(***************************************************************************)
EXTENDS Integers

CONSTANTS
    MaxInt,        \* the largest duration, math.MaxInt64
    N,             \* the stages after the drain
    Want,          \* Want[k]: the ceiling of stage k
    Rest,          \* Rest[k]: the ceilings of stages k..N together
    MaxOverhead    \* bounds the time lost between stages and by stages that overrun

ASSUME TeardownConstants ==
    /\ MaxInt \in Nat \ {0}
    /\ N \in Nat
    /\ Want \in [1..N -> 0..MaxInt]
    /\ Rest \in [1..(N + 1) -> 0..MaxInt]
    /\ Rest[N + 1] = 0
    /\ \A k \in 1..N : Rest[k] = Want[k] + Rest[k + 1]
    /\ MaxOverhead \in Nat

Durations == 0..MaxInt

\* Two's complement: what an int64 addition leaves of n.
Wrap(n) ==
    IF n > MaxInt THEN n - 2 * (MaxInt + 1)
    ELSE IF n < -(MaxInt + 1) THEN n + 2 * (MaxInt + 1)
    ELSE n

\* Variant: the sum is compared, and may wrap.
ValidateGracePeriodSum(gracePeriod, drain, cleanupReserve) ==
    gracePeriod >= Wrap(drain + cleanupReserve)

\* The drain and the teardown after it fit into the grace period.
ValidateGracePeriod(gracePeriod, drain, cleanupReserve) ==
    gracePeriod >= drain /\ Wrap(gracePeriod - drain) >= cleanupReserve

\* The requirement the rejection names.
requiredGracePeriod(drain, cleanupReserve) ==
    LET required == Wrap(drain + cleanupReserve) IN
    IF required >= drain THEN required ELSE MaxInt

VARIABLES
    phase,          \* "config", "rejected", "serving", "between", "stage", "exited"
    grace, drain,   \* http.grace_period and the drain's budget
    stage,          \* the stage that runs, or that is next
    window,         \* "unarmed", or "armed": its deadline is the grace period
    now,            \* time since serving, or the startup, ended
    stageDeadline,  \* the deadline of the running stage
    granted,        \* what the running stage was granted when it began
    overhead        \* time that passed outside the deadlines of the stages

vars == <<phase, grace, drain, stage, window, now, stageDeadline, granted, overhead>>

Init ==
    /\ phase = "config"
    /\ grace \in Durations
    /\ drain \in Durations
    /\ stage = 0
    /\ window = "unarmed"
    /\ now = 0
    /\ stageDeadline = 0
    /\ granted = 0
    /\ overhead = 0

\* validateRuntimeConfig, before anything is acquired.
Validate ==
    /\ phase = "config"
    /\ phase' = IF ValidateGracePeriod(grace, drain, Rest[1]) THEN "serving" ELSE "rejected"
    /\ UNCHANGED <<grace, drain, stage, window, now, stageDeadline, granted, overhead>>

\* Serving ends: ArmTeardown, or the first start of shutdownBudget.
ArmTeardown ==
    /\ phase = "serving"
    /\ phase' = "between"
    /\ window' = "armed"
    /\ UNCHANGED <<grace, drain, stage, now, stageDeadline, granted, overhead>>

\* The startup fails: what it acquired is cleaned up in an UnarmedTeardown, with no drain.
FailStartup ==
    /\ phase = "serving"
    /\ phase' = "between"
    /\ stage' = 1
    /\ UNCHANGED <<grace, drain, window, now, stageDeadline, granted, overhead>>

WantOf(k) == IF k = 0 THEN drain ELSE Want[k]

\* Variant: every stage is given what is left of the window.
TeardownStageWhole ==
    /\ phase = "between"
    /\ stage <= N
    /\ stageDeadline' = IF grace < now THEN now ELSE grace
    /\ granted' = stageDeadline' - now
    /\ phase' = "stage"
    /\ UNCHANGED <<grace, drain, stage, window, now, overhead>>

\* TeardownStage: the stage's ceiling, within the process window once that is armed.  A
\* deadline that has passed leaves the stage no time.
TeardownStage ==
    /\ phase = "between"
    /\ stage <= N
    /\ LET wanted == now + WantOf(stage)
           due    == IF window = "armed" /\ grace < wanted THEN grace ELSE wanted
       IN  stageDeadline' = IF due < now THEN now ELSE due
    /\ granted' = stageDeadline' - now
    /\ phase' = "stage"
    /\ UNCHANGED <<grace, drain, stage, window, now, overhead>>

\* The stage works; its context ends it at its deadline.
Work ==
    /\ phase = "stage"
    /\ now < stageDeadline
    /\ now' = now + 1
    /\ UNCHANGED <<phase, grace, drain, stage, window, stageDeadline, granted, overhead>>

EndStage ==
    /\ phase = "stage"
    /\ phase' = "between"
    /\ stage' = stage + 1
    /\ UNCHANGED <<grace, drain, window, now, stageDeadline, granted, overhead>>

\* Time passes between two stages, or in one that has not returned at its deadline.
Lose ==
    /\ phase = "between" \/ (phase = "stage" /\ now >= stageDeadline)
    /\ overhead < MaxOverhead
    /\ now' = now + 1
    /\ overhead' = overhead + 1
    /\ UNCHANGED <<phase, grace, drain, stage, window, stageDeadline, granted>>

Exit ==
    /\ phase = "between"
    /\ stage > N
    /\ phase' = "exited"
    /\ UNCHANGED <<grace, drain, stage, window, now, stageDeadline, granted, overhead>>

\* A rejected configuration, and a finished process, stay as they are.
Done == phase \in {"rejected", "exited"} /\ UNCHANGED vars

Next ==
    \/ Validate \/ ArmTeardown \/ FailStartup \/ TeardownStage \/ Work \/ EndStage
    \/ Lose \/ Exit \/ Done

Spec == Init /\ [][Next]_vars

-----------------------------------------------------------------------------
Phases == {"config", "rejected", "serving", "between", "stage", "exited"}

TypeOK ==
    /\ phase \in Phases
    /\ grace \in Durations
    /\ drain \in Durations
    /\ stage \in 0..(N + 1)
    /\ window \in {"unarmed", "armed"}
    /\ now \in Nat
    /\ stageDeadline \in Nat
    /\ granted \in Nat
    /\ overhead \in 0..MaxOverhead

\* What stages k..N may still spend, the drain included.
RestFrom(k) == IF k = 0 THEN drain + Rest[1] ELSE Rest[k]

\* A stage never pays for the ones before it: whatever they used of their ceilings,
\* it is granted its own in full, less only the time lost between stages and by stages
\* that overran.  This is what validating the grace period at startup buys.
StageKeepsItsBudget == phase = "stage" => granted >= WantOf(stage) - overhead

\* The teardown is over when the platform's grace period is: no stage of an armed window is
\* given time beyond it, and the process is gone by then but for the time lost.
WithinGrace ==
    /\ phase = "stage" /\ window = "armed" => stageDeadline <= grace \/ granted = 0
    /\ phase = "exited" => now <= grace + overhead

\* A process that serves has a grace period its drain and its tail really fit into,
\* also for durations whose sum wraps; the requirement told to the operator
\* otherwise is one that is not met and is not negative.
AdmittedFits ==
    /\ phase \notin {"config", "rejected"} => drain + Rest[1] <= grace
    /\ phase = "rejected" =>
          LET required == requiredGracePeriod(drain, Rest[1]) IN
          /\ required >= drain
          /\ required > grace \/ required = MaxInt

\* What the three rest on: what is left of the window covers what is left to do.
BudgetInv ==
    /\ TypeOK
    /\ AdmittedFits
    /\ phase \in {"config", "serving"} => stage = 0 /\ now = 0 /\ overhead = 0 /\ window = "unarmed"
    /\ phase \in {"between", "exited"} => grace + overhead - now >= RestFrom(stage)
    /\ phase = "stage" =>
         /\ stage <= N
         /\ StageKeepsItsBudget
         /\ window = "armed" => stageDeadline <= grace \/ granted = 0
         /\ grace + overhead - now >= RestFrom(stage + 1)
         /\ grace + overhead - stageDeadline >= RestFrom(stage + 1)
=============================================================================
