------------------------ MODULE TeardownBudget_proofs ------------------------
(***************************************************************************)
(* Proofs about TeardownBudget for every width of a duration, every number *)
(* of stages and every set of ceilings.                                    *)
(***************************************************************************)
EXTENDS TeardownBudget, TLAPS

\* What the check at startup accepts fits, although the sum it bounds may wrap
\* (ValidateGracePeriod's two comparisons).
LEMMA ValidateIsExact ==
    ASSUME NEW g \in Durations, NEW d \in Durations, NEW r \in Durations
    PROVE  ValidateGracePeriod(g, d, r) <=> d + r <= g
  BY TeardownConstants DEF ValidateGracePeriod, Wrap, Durations

\* The requirement named in the rejection is the sum, or the largest duration when
\* the sum wraps (requiredGracePeriod).
LEMMA RequiredIsSaturatedSum ==
    ASSUME NEW d \in Durations, NEW r \in Durations
    PROVE  requiredGracePeriod(d, r) = IF d + r <= MaxInt THEN d + r ELSE MaxInt
  BY TeardownConstants DEF requiredGracePeriod, Wrap, Durations

\* The tail budget is a duration.
LEMMA TailIsDuration == Rest[1] \in Durations
  BY TeardownConstants DEF Durations

\* Every step of the teardown keeps the inductive invariant.
LEMMA BudgetStep == BudgetInv /\ [Next]_vars => BudgetInv'
  <1> SUFFICES ASSUME BudgetInv, [Next]_vars PROVE BudgetInv'
    OBVIOUS
  <1> USE TeardownConstants, TailIsDuration
  <1>1. CASE Validate
    <2>1. phase = "config" /\ grace \in Durations /\ drain \in Durations
      BY <1>1 DEF Validate, BudgetInv, TypeOK
    <2>2. CASE ValidateGracePeriod(grace, drain, Rest[1])
      <3>1. drain + Rest[1] <= grace
        BY <2>1, <2>2, ValidateIsExact
      <3> QED
        BY <1>1, <2>2, <3>1 DEF Validate, BudgetInv, TypeOK, Phases, AdmittedFits
    <2>3. CASE ~ValidateGracePeriod(grace, drain, Rest[1])
      <3>1. ~(drain + Rest[1] <= grace)
        BY <2>1, <2>3, ValidateIsExact
      <3>2. requiredGracePeriod(drain, Rest[1])
              = IF drain + Rest[1] <= MaxInt THEN drain + Rest[1] ELSE MaxInt
        BY <2>1, RequiredIsSaturatedSum
      <3>3. /\ requiredGracePeriod(drain, Rest[1]) >= drain
            /\ \/ requiredGracePeriod(drain, Rest[1]) > grace
               \/ requiredGracePeriod(drain, Rest[1]) = MaxInt
        BY <2>1, <3>1, <3>2 DEF Durations
      <3>4. AdmittedFits'
        BY <1>1, <2>3, <3>3 DEF Validate, AdmittedFits, requiredGracePeriod, Wrap
      <3> QED
        BY <1>1, <2>3, <3>4 DEF Validate, BudgetInv, TypeOK, Phases
    <2> QED
      BY <2>2, <2>3
  <1>2. CASE ArmTeardown
    <2>1. now = 0 /\ stage = 0 /\ overhead = 0
      BY <1>2 DEF ArmTeardown, BudgetInv
    <2> QED
      BY <1>2, <2>1 DEF ArmTeardown, BudgetInv, TypeOK, Phases, AdmittedFits, RestFrom,
         Durations
  <1>b. CASE FailStartup
    <2>1. now = 0 /\ overhead = 0 /\ drain + Rest[1] <= grace
      BY <1>b DEF FailStartup, BudgetInv, AdmittedFits
    <2> QED
      BY <1>b, <2>1 DEF FailStartup, BudgetInv, TypeOK, Phases, AdmittedFits, RestFrom,
         Durations
  <1> DEFINE Same == UNCHANGED <<grace, drain>>
  \* From here on the configuration is admitted and does not change.
  <1>a. ASSUME phase \in {"between", "stage"}, phase' \in {"between", "stage", "exited"}, Same
        PROVE  AdmittedFits'
    BY <1>a DEF BudgetInv, AdmittedFits
  <1>3. CASE TeardownStage
    <2>1. WantOf(stage) \in Nat /\ RestFrom(stage + 1) \in Nat
          /\ RestFrom(stage) = WantOf(stage) + RestFrom(stage + 1)
      BY <1>3 DEF TeardownStage, BudgetInv, TypeOK, WantOf, RestFrom, Durations
    <2>2. grace + overhead - now >= RestFrom(stage)
      BY <1>3 DEF TeardownStage, BudgetInv
    <2>3. grace \in Nat /\ overhead \in Nat /\ now \in Nat
      BY DEF BudgetInv, TypeOK, Durations
    <2> DEFINE W == WantOf(stage)
               R == RestFrom(stage + 1)
    <2>x. stageDeadline' = LET due == IF window = "armed" /\ grace < now + W
                                      THEN grace ELSE now + W
                           IN  IF due < now THEN now ELSE due
      BY <1>3 DEF TeardownStage
    <2>y. granted' = stageDeadline' - now
      BY <1>3 DEF TeardownStage
    <2>z. W \in Nat /\ R \in Nat /\ grace + overhead - now >= W + R
      BY <2>1, <2>2
    <2> HIDE DEF W, R
    <2>w. /\ stageDeadline' \in Nat
          /\ stageDeadline' >= now
          /\ granted' >= W - overhead
          /\ window = "armed" => stageDeadline' <= grace \/ granted' = 0
          /\ grace + overhead - now >= R
          /\ grace + overhead - stageDeadline' >= R
      <3>1. CASE window = "armed"
        BY <2>3, <2>x, <2>y, <2>z, <3>1
      <3>2. CASE window # "armed"
        BY <2>3, <2>x, <2>y, <2>z, <3>2
      <3> QED
        BY <3>1, <3>2
    <2>4. /\ stageDeadline' \in Nat
          /\ stageDeadline' >= now
          /\ granted' = stageDeadline' - now
          /\ granted' >= WantOf(stage) - overhead
          /\ window = "armed" => stageDeadline' <= grace \/ granted' = 0
          /\ grace + overhead - now >= RestFrom(stage + 1)
          /\ grace + overhead - stageDeadline' >= RestFrom(stage + 1)
      BY <2>w, <2>y DEF W, R
    <2>5. AdmittedFits'
      BY <1>3, <1>a DEF TeardownStage
    <2>6. granted' \in Nat
      <3>1. ASSUME NEW a \in Nat, NEW b \in Nat, a >= b PROVE a - b \in Nat
        BY <3>1
      <3>2. stageDeadline' - now \in Nat
        BY <2>3, <2>w, <3>1
      <3> QED
        BY <2>y, <3>2
    <2> QED
      BY <1>3, <2>4, <2>5, <2>6 DEF TeardownStage, BudgetInv, TypeOK, Phases,
         StageKeepsItsBudget, WantOf, RestFrom
  <1>4. CASE Work
    <2>1. AdmittedFits'
      BY <1>4, <1>a DEF Work
    <2>2. /\ now \in Nat /\ overhead \in Nat /\ grace \in Nat /\ stageDeadline \in Nat
          /\ now' = now + 1 /\ now < stageDeadline
          /\ phase = "stage"
          /\ UNCHANGED <<phase, grace, drain, stage, window, stageDeadline, granted, overhead>>
      BY <1>4 DEF Work, BudgetInv, TypeOK, Durations
    <2>3. TypeOK'
      BY <2>2 DEF BudgetInv, TypeOK
    <2>4. /\ stage <= N /\ StageKeepsItsBudget
          /\ window = "armed" => stageDeadline <= grace \/ granted = 0
          /\ grace + overhead - stageDeadline >= RestFrom(stage + 1)
      BY <2>2 DEF BudgetInv
    <2>5. RestFrom(stage + 1) \in Nat
      BY <2>4 DEF RestFrom, BudgetInv, TypeOK, Durations
    <2>6. grace + overhead - now' >= RestFrom(stage + 1)
      BY <2>2, <2>4, <2>5
    <2>7. RestFrom(stage + 1)' = RestFrom(stage + 1) /\ StageKeepsItsBudget'
      BY <2>2, <2>4 DEF RestFrom, StageKeepsItsBudget, WantOf
    <2> QED
      BY <2>1, <2>2, <2>3, <2>4, <2>6, <2>7 DEF BudgetInv
  <1>5. CASE EndStage
    <2>1. AdmittedFits'
      BY <1>5, <1>a DEF EndStage
    <2>2. stage <= N /\ grace + overhead - now >= RestFrom(stage + 1)
      BY <1>5 DEF EndStage, BudgetInv
    <2> QED
      BY <1>5, <2>1, <2>2 DEF EndStage, BudgetInv, TypeOK, Phases, RestFrom
  <1>6. CASE Lose
    <2>1. AdmittedFits'
      BY <1>6, <1>a DEF Lose
    <2>2. /\ now' = now + 1 /\ overhead' = overhead + 1
          /\ now \in Nat /\ overhead \in Nat /\ grace \in Nat /\ stageDeadline \in Nat
          /\ UNCHANGED <<phase, grace, drain, stage, window, stageDeadline, granted>>
      BY <1>6 DEF Lose, BudgetInv, TypeOK, Durations
    <2>3. TypeOK'
      BY <1>6 DEF Lose, BudgetInv, TypeOK
    <2>4. CASE phase = "between"
      <3>1. RestFrom(stage) \in Nat /\ grace + overhead - now >= RestFrom(stage)
        BY <2>4 DEF RestFrom, BudgetInv, TypeOK, Durations
      <3> QED
        BY <2>1, <2>2, <2>3, <2>4, <3>1 DEF BudgetInv, RestFrom
    <2>5. CASE phase = "stage"
      <3>1. /\ stage <= N /\ StageKeepsItsBudget
            /\ window = "armed" => stageDeadline <= grace \/ granted = 0
            /\ grace + overhead - now >= RestFrom(stage + 1)
            /\ grace + overhead - stageDeadline >= RestFrom(stage + 1)
        BY <2>5 DEF BudgetInv
      <3>2. RestFrom(stage + 1) \in Nat /\ WantOf(stage) \in Nat /\ granted \in Nat
        BY <3>1 DEF RestFrom, WantOf, BudgetInv, TypeOK, Durations
      <3>3. RestFrom(stage + 1)' = RestFrom(stage + 1) /\ WantOf(stage)' = WantOf(stage)
        BY <2>2 DEF RestFrom, WantOf
      <3>4. StageKeepsItsBudget'
        BY <2>2, <2>5, <3>1, <3>2, <3>3 DEF StageKeepsItsBudget
      <3>5. /\ grace + overhead' - now' >= RestFrom(stage + 1)
            /\ grace + overhead' - stageDeadline >= RestFrom(stage + 1)
        BY <2>2, <3>1, <3>2
      <3> QED
        BY <2>1, <2>2, <2>3, <2>5, <3>1, <3>3, <3>4, <3>5 DEF BudgetInv
    <2> QED
      BY <1>6, <2>4, <2>5 DEF Lose
  <1>7. CASE Exit
    <2>1. AdmittedFits'
      BY <1>7, <1>a DEF Exit
    <2> QED
      BY <1>7, <2>1 DEF Exit, BudgetInv, TypeOK, Phases, RestFrom
  <1>8. CASE Done \/ UNCHANGED vars
    BY <1>8 DEF Done, vars, BudgetInv, TypeOK, AdmittedFits, StageKeepsItsBudget, WantOf,
       RestFrom
  <1> QED
    BY <1>1, <1>2, <1>b, <1>3, <1>4, <1>5, <1>6, <1>7, <1>8 DEF Next

\* The inductive invariant holds of every behaviour: what is left of the process
\* window covers the ceilings of the stages still to come.
THEOREM BudgetCorrect == Spec => []BudgetInv
  <1>1. Init => BudgetInv
    BY TeardownConstants DEF Init, BudgetInv, TypeOK, Phases, AdmittedFits, Durations
  <1> QED
    BY <1>1, BudgetStep, PTL DEF Spec

\* Every teardown stage of every process is granted its ceiling in full, less only
\* the time lost between stages and by stages that overran.
THEOREM StagesKeepTheirBudget == Spec => []StageKeepsItsBudget
  <1>1. BudgetInv => StageKeepsItsBudget
    BY DEF BudgetInv, StageKeepsItsBudget
  <1> QED
    BY <1>1, BudgetCorrect, PTL

\* No stage works past the platform's grace period.
THEOREM TeardownWithinGrace == Spec => []WithinGrace
  <1>1. BudgetInv => WithinGrace
    BY TeardownConstants DEF BudgetInv, WithinGrace, TypeOK, RestFrom, Durations
  <1> QED
    BY <1>1, BudgetCorrect, PTL

\* Only configurations whose drain and tail fit are served, overflow included.
THEOREM AdmissionIsExact == Spec => []AdmittedFits
  <1>1. BudgetInv => AdmittedFits
    BY DEF BudgetInv
  <1> QED
    BY <1>1, BudgetCorrect, PTL
=============================================================================
