-------------------------------- MODULE Migration --------------------------------
(***************************************************************************)
(* cmd/migrate and internal/infra/postgresmigrate: runs of the migration   *)
(* job against one database.  Runs of different images (sources of         *)
(* different length, or none) overlap under the Goose session lock, fail   *)
(* at any stage, are canceled and crash.  Goose and PostgreSQL are         *)
(* external.  MigrateDown is only called on a database nobody else uses.   *)
(***************************************************************************)
EXTENDS Naturals, FiniteSets

CONSTANTS
    Runs,     \* runs of the job
    Latest,   \* the newest migration of any image
    None

Versions == 1..Latest

VARIABLES
    input,    \* input[r]: length of the source, direction, what is wrong with the call
    at,       \* at[r]: where the run is
    live,     \* live[r]: its execution context is neither canceled nor past its deadline
    result,   \* result[r]: RunResult
    stage,    \* stage[r]: FailureStageOf its error, "none" for nil
    plan,     \* plan[r]: versions Goose still has to run, listed under the lock
    applied,  \* applied[r]: migrations Goose reports as completed
    did,      \* did[r]: migrations the run's transactions committed
    history,  \* versions recorded in goose_db_version
    effects,  \* effects[v]: how often v's statements are in force
    lock      \* the session that holds the advisory lock

vars == <<input, at, live, result, stage, plan, applied, did, history, effects, lock>>
database == <<history, effects, lock>>

\* What is wrong with a call, by the function that refuses it.
RunFaults == {"args", "config", "disabled"}
ResolveFaults == {"missing", "not a directory"}
SourceFaults == {"bad path", "symlink", "nested", "irregular", "bad name",
                 "no transaction", "envsub"}
OptionFaults == {"timeout", "no budget", "dsn"}
Faults == RunFaults \cup ResolveFaults \cup SourceFaults \cup OptionFaults

Inputs == [source : 0..Latest, dir : {"up", "down"}, fault : {"none"}]
          \cup [source : {Latest}, dir : {"up"}, fault : Faults]

\* Variant: files that disable their transaction are accepted.
RefusedByWithoutTransaction(fault) ==
    IF fault \in (ResolveFaults \cup SourceFaults) \ {"no transaction"} THEN "source"
    ELSE IF fault \in RunFaults \cup OptionFaults THEN "config" ELSE "none"

\* run, resolveMigrationSource, rootMigrationSource with validateMigrationSource, validateMigrationOptions,
\* executionContext and openMigrationDB, in their order: all before a connection opens.
RefusedBy(fault) ==
    IF fault \in RunFaults THEN "config"
    ELSE IF fault \in ResolveFaults \cup SourceFaults THEN "source"
    ELSE IF fault \in OptionFaults THEN "config" ELSE "none"

Version(S) == IF S = {} THEN 0 ELSE CHOOSE v \in S : \A w \in S : w <= v

NoResult == [before |-> 0, after |-> 0, target |-> 0, count |-> 0]

\* A run that rolls back, or that is refused before it connects, is looked at alone.
Alone(r) == input[r].dir = "down" \/ input[r].fault # "none"

Init ==
    /\ input \in [Runs -> Inputs]
    /\ at \in [Runs -> {"start", "absent"}]
    /\ \A r, s \in Runs : Alone(r) /\ at[r] = "start" => s = r \/ at[s] = "absent"
    /\ \A r \in Runs : at[r] = "absent" => input[r] = [source |-> 0, dir |-> "up", fault |-> "none"]
    /\ live = [r \in Runs |-> TRUE]
    /\ result = [r \in Runs |-> NoResult]
    /\ stage = [r \in Runs |-> "none"]
    /\ plan = [r \in Runs |-> {}] /\ applied = [r \in Runs |-> {}] /\ did = [r \in Runs |-> {}]
    /\ history \in {1..n : n \in 0..Latest}
    /\ effects = [v \in Versions |-> IF v \in history THEN 1 ELSE 0]
    /\ lock = None

Go(r, where) == at' = [at EXCEPT ![r] = where]

\* A failure with its stage; the deferred db.Close still runs.
Fail(r, s) ==
    /\ Go(r, "close")
    /\ stage' = [stage EXCEPT ![r] = s]

\* migrate up to provider.Ping (or PingContext, for an empty source).
Begin(r) ==
    /\ at[r] = "start"
    /\ LET s == RefusedBy(input[r].fault) IN
       \/ s # "none" /\ Go(r, "returned") /\ stage' = [stage EXCEPT ![r] = s]
       \/ s = "none" /\ Fail(r, "connect")
       \/ s = "none" /\ live[r] /\ Go(r, IF input[r].source = 0 THEN "lock" ELSE "plan") /\ UNCHANGED stage
    /\ UNCHANGED <<input, live, result, plan, applied, did, database>>

\* provider.GetVersions without the lock, recordVersions, logMigrationPlan.
ReadVersions(r) ==
    /\ at[r] = "plan"
    /\ \/ /\ live[r]
          /\ result' = [result EXCEPT ![r].before = Version(history), ![r].after = Version(history),
                          ![r].target = IF input[r].dir = "up" THEN input[r].source ELSE 0]
          /\ Go(r, "pending") /\ UNCHANGED stage
       \/ Fail(r, "state") /\ UNCHANGED result
    /\ UNCHANGED <<input, live, plan, applied, did, database>>

\* provider.Up asks first, without the lock, whether a migration is pending.
Pending(r) ==
    /\ at[r] = "pending"
    /\ \/ live[r] /\ Go(r, IF input[r].dir = "up" /\ Version(history) >= input[r].source THEN "ran" ELSE "lock")
          /\ UNCHANGED stage
       \/ Fail(r, "execute")
    /\ UNCHANGED <<input, live, result, plan, applied, did, database>>

\* What Goose lists once it holds the lock.
Listed(r) == IF input[r].dir = "up" THEN (1..input[r].source) \ history ELSE history

\* Variant: the provider is built without its session locker.
LockNever(r) ==
    /\ at[r] = "lock"
    /\ live[r] /\ Go(r, "locked") /\ plan' = [plan EXCEPT ![r] = Listed(r)]
    /\ UNCHANGED <<input, live, result, stage, applied, did, database>>

\* A connection and its SessionLock, by Goose (whose own failures are all "execute") or by
\* acquireMigrationLock.
Lock(r) ==
    /\ at[r] = "lock"
    /\ \/ /\ live[r] /\ lock = None
          /\ lock' = r /\ Go(r, "locked")
          /\ plan' = [plan EXCEPT ![r] = Listed(r)]
          /\ UNCHANGED stage
       \/ /\ \/ Fail(r, "lock")
             \/ Fail(r, IF input[r].source = 0 THEN "connect" ELSE "execute")
          /\ UNCHANGED <<plan, lock>>
    /\ UNCHANGED <<input, live, result, applied, did, history, effects>>

\* The next migration of the plan.
IsNext(r, v) ==
    /\ v \in plan[r]
    /\ \A w \in plan[r] : IF input[r].dir = "up" THEN v <= w ELSE w <= v

\* A migration's transaction holds its statements and its row of the version table.
Commit(r, v) ==
    /\ history' = IF input[r].dir = "up" THEN history \cup {v} ELSE history \ {v}
    /\ effects' = [effects EXCEPT ![v] = IF input[r].dir = "up" THEN @ + 1 ELSE @ - 1]
    /\ did' = [did EXCEPT ![r] = @ \cup {v}]

\* Without a transaction the statements would be in force before the row is written.
Migrate(r, v) ==
    /\ at[r] = "locked" /\ live[r] /\ IsNext(r, v) /\ v <= input[r].source
    /\ IF input[r].fault = "no transaction" /\ effects[v] = 0
       THEN effects' = [effects EXCEPT ![v] = 1] /\ UNCHANGED <<history, did, plan, applied>>
       ELSE /\ Commit(r, v)
            /\ plan' = [plan EXCEPT ![r] = @ \ {v}]
            /\ applied' = [applied EXCEPT ![r] = @ \cup {v}]
    /\ UNCHANGED <<input, at, live, result, stage, lock>>

\* setAfterFromApplied.
AfterFromApplied(r) ==
    LET n == Cardinality(applied[r])
        before == result[r].before IN
    [result[r] EXCEPT
        !.count = n,
        !.after = IF n = 0 THEN @
                  ELSE IF input[r].dir = "up" THEN Version(applied[r])
                  ELSE IF before \in 1..input[r].source /\ before >= n THEN before - n ELSE 0]

\* The plan is done, or Goose fails: on a migration, whose transaction is rolled back
\* (PartialError), or before the first one.
Ran(r) ==
    /\ at[r] = "locked" /\ input[r].source > 0
    /\ \/ plan[r] = {} /\ UNCHANGED stage
       \/ stage' = [stage EXCEPT ![r] = "execute"]
    /\ Go(r, "unlock")
    /\ UNCHANGED <<input, live, result, plan, applied, did, database>>

\* The session breaks: the server frees the lock and the unlock fails; a migration whose
\* COMMIT was sent may be in force.
SessionBreaks(r) ==
    /\ at[r] = "locked"
    /\ \/ live[r] /\ \E v \in plan[r] :
            IsNext(r, v) /\ v <= input[r].source /\ Commit(r, v)
       \/ UNCHANGED <<history, effects, did>>
    /\ lock' = IF lock = r THEN None ELSE lock
    /\ result' = [result EXCEPT ![r] = AfterFromApplied(r)]
    /\ Fail(r, "cleanup")
    /\ UNCHANGED <<input, live, plan, applied>>

\* An empty source fits a database without history only.
emptySourceVersion(r) == live[r] /\ history = {}

\* migrateEmptySource under the lock: the version table is read, or cannot be.
EmptySource(r) ==
    /\ at[r] = "locked" /\ input[r].source = 0
    /\ \/ emptySourceVersion(r) /\ UNCHANGED stage
       \/ stage' = [stage EXCEPT ![r] = "state"]
    /\ Go(r, "unlock")
    /\ UNCHANGED <<input, live, result, plan, applied, did, database>>

\* SessionUnlock, by Goose or by cleanupMigrationResources on a context of its own:
\* a cleanup failure outranks the error before it.
Unlock(r) ==
    /\ at[r] = "unlock"
    /\ \/ /\ lock' = IF lock = r THEN None ELSE lock
          /\ Go(r, IF input[r].source = 0 \/ stage[r] # "none" THEN "close" ELSE "ran")
          /\ UNCHANGED stage
       \/ Fail(r, "cleanup") /\ UNCHANGED lock
    /\ result' = [result EXCEPT ![r] = AfterFromApplied(r)]
    /\ UNCHANGED <<input, live, plan, applied, did, history, effects>>

\* Variant: the first read stays in the result.
RereadKeepsBefore(r) ==
    /\ at[r] = "ran"
    /\ live[r] /\ Go(r, "close") /\ UNCHANGED stage
    /\ result' = [result EXCEPT ![r].after = Version(history)]
    /\ UNCHANGED <<input, live, plan, applied, did, database>>

\* The versions are read again; a run that applied nothing reports them as Before.
Reread(r) ==
    /\ at[r] = "ran"
    /\ \/ /\ live[r]
          /\ result' = [result EXCEPT ![r].after = Version(history),
                          ![r].before = IF applied[r] = {} THEN Version(history) ELSE @]
          /\ Go(r, "close") /\ UNCHANGED stage
       \/ Fail(r, "state") /\ UNCHANGED result
    /\ UNCHANGED <<input, live, plan, applied, did, database>>

\* The deferred db.Close: it ends the session, which the server notices later.
Close(r) ==
    /\ at[r] = "close"
    /\ Go(r, "returned")
    /\ stage' \in {stage, [stage EXCEPT ![r] = "cleanup"]}
    /\ UNCHANGED <<input, live, result, plan, applied, did, database>>

\* logMigrationTerminal.
Outcome(r) ==
    IF stage[r] # "none" THEN "error" ELSE IF result[r].count = 0 THEN "no_change" ELSE "success"

\* The signal, or the deadline less the cleanup reserve.
Cancel(r) ==
    /\ at[r] \notin {"absent", "returned", "crashed"} /\ live[r]
    /\ live' = [live EXCEPT ![r] = FALSE]
    /\ UNCHANGED <<input, at, result, stage, plan, applied, did, database>>

Crash(r) ==
    /\ at[r] \notin {"absent", "returned", "crashed"}
    /\ Go(r, "crashed")
    /\ UNCHANGED <<input, live, result, stage, plan, applied, did, database>>

\* PostgreSQL frees the lock of a session that is gone.
EndSession(r) ==
    /\ at[r] \in {"returned", "crashed"} /\ lock = r
    /\ lock' = None
    /\ UNCHANGED <<input, at, live, result, stage, plan, applied, did, history, effects>>

Done ==
    /\ \A r \in Runs : at[r] \in {"absent", "returned", "crashed"}
    /\ lock = None
    /\ UNCHANGED vars

Step(r) ==
    \/ Begin(r) \/ ReadVersions(r) \/ Pending(r) \/ Lock(r) \/ Ran(r) \/ EmptySource(r)
    \/ Unlock(r) \/ Reread(r) \/ Close(r) \/ EndSession(r)
    \/ \E v \in Versions : Migrate(r, v)

Next ==
    \/ \E r \in Runs : Step(r) \/ SessionBreaks(r) \/ Cancel(r) \/ Crash(r)
    \/ Done

Spec == Init /\ [][Next]_vars

-----------------------------------------------------------------------------
(* Properties *)

\* MigratedOnce: whatever runs overlap, fail, are canceled or crash, each recorded
\* migration is in force exactly once, none is in force unrecorded, and the recorded ones
\* are a prefix of the source (the session lock, files without NO TRANSACTION).
MigratedOnce ==
    /\ \A v \in Versions : effects[v] = IF v \in history THEN 1 ELSE 0
    /\ \A v \in history : 1..v \subseteq history

\* RunIsTruthful: a run that returns nil left the schema its image needs, counts what it
\* did, reports no change only for a database at the version it names, and has given the
\* lock back; a failed one never counts a migration that is not in force, and keeps the
\* lock only when it reports a cleanup failure.
RunIsTruthful ==
    \A r \in Runs : at[r] = "returned" =>
      /\ stage[r] = "none" =>
           /\ input[r].dir = "up" => 1..input[r].source \subseteq history /\ result[r].after >= result[r].target
           /\ input[r].dir = "down" => history = {} /\ result[r].after = 0
           /\ result[r].count = Cardinality(did[r])
           /\ Outcome(r) = "no_change" => result[r].before = result[r].after
      /\ result[r].count <= Cardinality(did[r])
      /\ lock = r => stage[r] = "cleanup"

=============================================================================
