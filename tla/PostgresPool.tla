------------------------------ MODULE PostgresPool ------------------------------
(***************************************************************************)
(* The PostgreSQL pool of the service: its opening under the startup budget *)
(* (initPostgresDependency, postgres.Open), the readiness probe that pings  *)
(* it, the transactions that share its connections (InTx, with the mark the *)
(* context watcher leaves on a connection), and the bounded Close at        *)
(* shutdown (runtimeDependencies).                                          *)
(***************************************************************************)
EXTENDS Integers, FiniteSets

CONSTANTS
    Txs,    \* callers of InTx
    Conns   \* the connections of the pool, opts.MaxOpenConns of them

VARIABLES
    sp,         \* where the startup is
    budgetDone, \* the startup budget has ended
    openedLate, \* ... before the pool was handed over
    pool,       \* "none", "open", "closing" while pgxpool.Close waits, "closed"
    idle,       \* the connections nobody holds
    marks,      \* contextWatcherMarks: connection -> the transaction it belongs to, or NoTx
    tx,         \* transaction -> where InTx is
    held,       \* transaction -> its connection
    txDone,     \* the transactions under way whose context has ended
    canceled,   \* the transactions whose marker is set
    cut,        \* the transactions the driver interrupted
    durable,    \* the transactions the server has committed
    errs,       \* transaction -> what its error says: "begin", "failed", "unknown", "context"
    probe,      \* where the readiness check is, or its last verdict
    pinging,    \* the connections the check holds
    probeDone,  \* its budget has ended
    pingedLate, \* ... before the ping returned
    closer,     \* where Close is
    closeDone   \* its context has ended

vars == <<sp, budgetDone, openedLate, pool, idle, marks, tx, held, txDone, canceled, cut, durable,
          errs, probe, pinging, probeDone, pingedLate, closer, closeDone>>

startVars == <<sp, budgetDone, openedLate>>
txVars == <<tx, held, txDone, canceled, cut, durable, errs>>
probeVars == <<probe, pinging, probeDone, pingedLate>>
closeVars == <<closer, closeDone>>

NoTx == "no transaction"
NoConn == "no connection"

Init ==
    /\ sp = "start" /\ budgetDone = FALSE /\ openedLate = FALSE
    /\ pool = "none" /\ idle = Conns
    /\ marks = [c \in Conns |-> NoTx]
    /\ tx = [t \in Txs |-> "new"]
    /\ held = [t \in Txs |-> NoConn]
    /\ txDone = {} /\ canceled = {} /\ cut = {} /\ durable = {}
    /\ errs = [t \in Txs |-> {}]
    /\ probe = "failed" /\ pinging = {} /\ probeDone = FALSE /\ pingedLate = FALSE
    /\ closer = "idle" /\ closeDone = FALSE

-----------------------------------------------------------------------------
(* Startup *)

\* initPostgresDependency refuses a profile whose database is disabled.
Start ==
    /\ sp = "start"
    /\ sp' \in {"refused", "open"}
    /\ UNCHANGED <<budgetDone, openedLate, pool, idle, marks, txVars, probeVars, closeVars>>

\* Open up to the pool: a configuration it refuses, or one pgxpool does.
OpenPool ==
    /\ sp = "open"
    /\ \/ sp' = "failed" /\ UNCHANGED pool
       \/ sp' = "ping" /\ pool' = "open"
    /\ UNCHANGED <<budgetDone, openedLate, idle, marks, txVars, probeVars, closeVars>>

\* Open from the ping: it, then RecordStats, fails and closes the pool, or both succeed.
OpenStep(from, to) ==
    /\ sp = from
    /\ \/ sp' = "failed" /\ pool' = "closed"
       \/ sp' = to /\ UNCHANGED pool
    /\ openedLate' = budgetDone
    /\ UNCHANGED <<budgetDone, idle, marks, txVars, probeVars, closeVars>>

\* Variant: the pool of a start refused for its budget is dropped.
refusedPoolDropped == pool

\* The pool initPostgresDependency had opened before it found its budget spent.
refusedPool == IF pool = "open" THEN "closed" ELSE pool

\* initPostgresDependency after Open: its error, or the end of either budget.
Decide ==
    /\ sp \in {"failed", "opened"}
    /\ IF sp = "failed" \/ budgetDone
       THEN sp' = "refused" /\ pool' = refusedPool
       ELSE sp' = "up" /\ UNCHANGED pool
    /\ UNCHANGED <<budgetDone, openedLate, idle, marks, txVars, probeVars, closeVars>>

\* withStageBudget ends.
BudgetEnds ==
    /\ sp \in {"open", "ping", "stats", "opened"} /\ ~budgetDone
    /\ budgetDone' = TRUE
    /\ UNCHANGED <<sp, openedLate, pool, idle, marks, txVars, probeVars, closeVars>>

-----------------------------------------------------------------------------
(* InTx *)

Goto(t, l) == tx' = [tx EXCEPT ![t] = l]
Fails(t, what) == errs' = [errs EXCEPT ![t] = @ \cup what]

\* pool.Acquire waits for a connection; the marker is stored on it before BEGIN.  A caller whose
\* context ends, or whose pool closes, while it waits leaves nothing behind.
Acquire(t) ==
    /\ sp = "up" /\ tx[t] = "new" /\ pool = "open"
    /\ \E c \in idle :
         /\ idle' = idle \ {c}
         /\ held' = [held EXCEPT ![t] = c]
         /\ marks' = [marks EXCEPT ![c] = t]
    /\ Goto(t, "begin")
    /\ UNCHANGED <<startVars, pool, txDone, canceled, cut, durable, errs, probeVars, closeVars>>

CtxEnds(t) ==
    /\ t \notin txDone /\ tx[t] \in {"begin", "fn", "commit"}
    /\ txDone' = txDone \cup {t}
    /\ UNCHANGED <<startVars, pool, idle, marks, tx, held, canceled, cut, durable, errs, probeVars,
                   closeVars>>

\* HandleCancel: the driver interrupts a statement of t, and sets the marker it finds on t's
\* connection.
HandleCancel(t) ==
    /\ t \in txDone \ cut /\ tx[t] \in {"begin", "fn", "commit"}
    /\ cut' = cut \cup {t}
    /\ canceled' = canceled \cup ({marks[held[t]]} \ {NoTx})
    /\ UNCHANGED <<startVars, pool, idle, marks, tx, held, txDone, durable, errs, probeVars,
                   closeVars>>

\* BeginTx
Begin(t) ==
    /\ tx[t] = "begin"
    /\ \/ Goto(t, "fn") /\ UNCHANGED errs
       \/ Goto(t, "defer") /\ Fails(t, {"begin"})
    /\ UNCHANGED <<startVars, pool, idle, marks, held, txDone, canceled, cut, durable, probeVars,
                   closeVars>>

\* fn; a statement that was interrupted fails.
Run(t) ==
    /\ tx[t] = "fn"
    /\ \/ t \notin cut /\ Goto(t, "commit") /\ UNCHANGED errs
       \/ Goto(t, "rollback") /\ Fails(t, {"failed"})
    /\ UNCHANGED <<startVars, pool, idle, marks, held, txDone, canceled, cut, durable, probeVars,
                   closeVars>>

\* Variant: an answer that did not come is taken for a refusal.
classifyCommitErrorFailed(how) == {"failed"}

\* classifyCommitError: "refused" is what commitDefinitelyFailed recognises.
classifyCommitError(how) == IF how = "refused" THEN {"failed"} ELSE {"unknown"}

\* commitTx: the server's answer, its refusal, or the connection lost before or after the commit.
Commit(t) ==
    /\ tx[t] = "commit"
    /\ Goto(t, "rollback")
    /\ \/ durable' = durable \cup {t} /\ UNCHANGED errs
       \/ UNCHANGED durable /\ Fails(t, classifyCommitError("refused"))
       \/ durable' \in {durable, durable \cup {t}} /\ Fails(t, classifyCommitError("lost"))
    /\ UNCHANGED <<startVars, pool, idle, marks, held, txDone, canceled, cut, probeVars, closeVars>>

\* The deferred Rollback: after a COMMIT that was answered the driver has closed the
\* transaction.  An error of its own joins, and the end of the context if the marker is set.
Rollback(t) ==
    /\ tx[t] = "rollback"
    /\ Goto(t, "defer")
    /\ \E own \in (IF errs[t] = {} THEN {{}} ELSE {{}, {"failed"}}) :
         Fails(t, own \cup (IF t \in canceled /\ t \in txDone /\ errs[t] \cup own # {}
                            THEN {"context"} ELSE {}))
    /\ UNCHANGED <<startVars, pool, idle, marks, held, txDone, canceled, cut, durable, probeVars,
                   closeVars>>

\* Variant: the connection is given back before its mark is dropped.
deferredReleaseFirst == <<"conn", "mark">>

\* The deferred calls of InTx, last first: the mark goes, then the connection.
deferred == <<"mark", "conn">>

\* One deferred call; the connection goes back to the pool, or a new one takes its place.  After
\* the last, InTx has returned what `errs` holds, and its caller may call again.
Deferred(t, n) ==
    /\ tx[t] = <<"defer", "last">>[n]
    /\ Goto(t, <<"last", "new">>[n])
    /\ IF deferred[n] = "mark"
       THEN marks' = [marks EXCEPT ![held[t]] = NoTx] /\ UNCHANGED idle
       ELSE idle' = idle \cup {held[t]} /\ UNCHANGED marks
    /\ IF n = 2
       THEN /\ held' = [held EXCEPT ![t] = NoConn] /\ errs' = [errs EXCEPT ![t] = {}]
            /\ txDone' = txDone \ {t} /\ canceled' = canceled \ {t} /\ cut' = cut \ {t}
            /\ durable' = durable \ {t}
       ELSE UNCHANGED <<held, errs, txDone, canceled, cut, durable>>
    /\ UNCHANGED <<startVars, pool, probeVars, closeVars>>

-----------------------------------------------------------------------------
(* Readiness *)

\* Check starts, with a budget of its own.
Check ==
    /\ sp = "up" /\ probe \in {"ok", "failed"}
    /\ probe' = "check" /\ pingedLate' = FALSE
    /\ UNCHANGED <<startVars, pool, idle, marks, txVars, pinging, probeDone, closeVars>>

ProbeEnds ==
    /\ probe \in {"check", "ping", "pinged"} /\ ~probeDone
    /\ probeDone' = TRUE
    /\ UNCHANGED <<startVars, pool, idle, marks, txVars, probe, pinging, pingedLate, closeVars>>

\* Ping takes a connection from the pool, or gives up.
Ping ==
    /\ probe = "check"
    /\ \/ \E c \in idle : /\ pool = "open" /\ probe' = "ping"
                          /\ pinging' = {c} /\ idle' = idle \ {c} /\ UNCHANGED probeDone
       \/ /\ probeDone \/ pool # "open"
          /\ probe' = "failed" /\ probeDone' = FALSE /\ UNCHANGED <<pinging, idle>>
    /\ UNCHANGED <<startVars, pool, marks, txVars, pingedLate, closeVars>>

\* It returns, at its budget at the latest.
Pinged ==
    /\ probe = "ping"
    /\ \/ probe' = "pinged" /\ pingedLate' = probeDone /\ UNCHANGED probeDone
       \/ probe' = "failed" /\ probeDone' = FALSE /\ UNCHANGED pingedLate
    /\ pinging' = {} /\ idle' = idle \cup pinging
    /\ UNCHANGED <<startVars, pool, marks, txVars, closeVars>>

\* Variant: a ping that succeeded is enough.
readyAnyway == TRUE

\* Check asks its context after a ping that succeeded.
ready == ~probeDone

Verdict ==
    /\ probe = "pinged"
    /\ IF ready THEN probe' = "ok" /\ UNCHANGED pingedLate
       ELSE probe' = "failed" /\ pingedLate' = FALSE
    /\ probeDone' = FALSE
    /\ UNCHANGED <<startVars, pool, idle, marks, txVars, pinging, closeVars>>

-----------------------------------------------------------------------------
(* Close *)

\* Close of runtimeDependencies, once: without a pool there is nothing to do.
Close ==
    /\ sp \in {"up", "refused"} /\ closer = "idle"
    /\ IF sp = "refused" THEN closer' = "returned" /\ UNCHANGED pool
       ELSE closer' = "waiting" /\ pool' = "closing"
    /\ UNCHANGED <<startVars, idle, marks, txVars, probeVars, closeDone>>

CloseExpires ==
    /\ closer = "waiting" /\ ~closeDone
    /\ closeDone' = TRUE
    /\ UNCHANGED <<startVars, pool, idle, marks, txVars, probeVars, closer>>

\* pgxpool.Close waits for every connection.
PoolCloses ==
    /\ pool = "closing" /\ idle = Conns
    /\ pool' = "closed"
    /\ UNCHANGED <<startVars, idle, marks, txVars, probeVars, closeVars>>

\* Variant: Close waits for the pool alone.
closeMayReturnClosed == pool = "closed"

\* Close selects on the pool's end and on its context's.
closeMayReturn == pool = "closed" \/ closeDone

CloseReturns ==
    /\ closer = "waiting" /\ closeMayReturn
    /\ closer' = "returned"
    /\ UNCHANGED <<startVars, pool, idle, marks, txVars, probeVars, closeDone>>

Startup == Start \/ OpenPool \/ OpenStep("ping", "stats") \/ OpenStep("stats", "opened") \/ Decide
Closing == CloseExpires \/ CloseReturns

Next ==
    \/ Startup \/ BudgetEnds \/ Closing \/ Close \/ PoolCloses
    \/ Check \/ ProbeEnds \/ Ping \/ Pinged \/ Verdict
    \/ \E t \in Txs :
         \/ Acquire(t) \/ CtxEnds(t) \/ HandleCancel(t)
         \/ Begin(t) \/ Run(t) \/ Commit(t) \/ Rollback(t)
         \/ \E n \in 1..2 : Deferred(t, n)

\* Time passes and the process runs; a transaction and a ping may hang.
Spec == Init /\ [][Next]_vars /\ WF_vars(Closing)

-----------------------------------------------------------------------------
(* Properties *)

\* PoolIsOwned: a start that is refused leaves no pool behind, whichever step failed or which
\* budget ended; a start that succeeds had time left when the pool was ready
\* (initPostgresDependency, Open).
PoolIsOwned ==
    /\ sp = "refused" => pool \in {"none", "closed"}
    /\ sp = "up" => ~openedLate

\* CancelIsTold: a transaction that failed after the driver interrupted it says that its context
\* ended, however connections are shared, and one that was not interrupted does not (runInTx,
\* HandleCancel).
CancelIsTold ==
    \A t \in Txs : tx[t] \in {"defer", "last"} /\ "begin" \notin errs[t] =>
      ("context" \in errs[t] <=> t \in cut /\ errs[t] # {})

\* OutcomeIsTold: no error means committed, a definite failure that nothing was, and only an
\* unanswered COMMIT is unknown (classifyCommitError).
OutcomeIsTold ==
    \A t \in Txs : tx[t] \in {"defer", "last"} =>
      /\ errs[t] = {} => t \in durable
      /\ errs[t] # {} /\ "unknown" \notin errs[t] => t \notin durable

\* LateIsUnready: a ping that outlasted its budget is no readiness (postgresReadinessProbe.Check).
LateIsUnready == probe = "ok" => ~pingedLate

PoolIsSound == PoolIsOwned /\ CancelIsTold /\ OutcomeIsTold /\ LateIsUnready

\* CloseEnds: Close returns, though a transaction or a ping never gives its connection back.
CloseEnds == closer = "waiting" ~> closer = "returned"

-----------------------------------------------------------------------------
(* What PoolIsSound rests on *)

\* The range of each variable.
PoolTypes ==
    /\ sp \in {"start", "open", "ping", "stats", "opened", "failed", "refused", "up"}
    /\ pool \in {"none", "open", "closing", "closed"}
    /\ idle \subseteq Conns /\ pinging \subseteq Conns
    /\ marks \in [Conns -> Txs \cup {NoTx}]
    /\ tx \in [Txs -> {"new", "begin", "fn", "commit", "rollback", "defer", "last"}]
    /\ held \in [Txs -> Conns \cup {NoConn}]
    /\ errs \in [Txs -> SUBSET {"begin", "failed", "unknown", "context"}]
    /\ txDone \subseteq Txs /\ canceled \subseteq Txs /\ cut \subseteq Txs /\ durable \subseteq Txs
    /\ probe \in {"ok", "failed", "check", "ping", "pinged"}

\* A pool exists from the moment it is opened to its close, and is handed over in time.
StartInv ==
    /\ sp \in {"start", "open"} => pool = "none"
    /\ sp \in {"ping", "stats", "opened"} => pool = "open"
    /\ sp \in {"failed", "refused"} => pool \in {"none", "closed"}
    /\ openedLate => budgetDone
    /\ sp = "up" => ~openedLate

\* A connection has one holder, and carries the mark of the transaction that holds it.
HolderInv ==
    /\ pinging \cap idle = {}
    /\ \A t \in Txs : tx[t] # "new" =>
         /\ held[t] \in Conns /\ held[t] \notin idle /\ held[t] \notin pinging
         /\ \A u \in Txs : tx[u] # "new" /\ held[u] = held[t] => u = t
         /\ tx[t] # "last" => marks[held[t]] = t

\* The marker of a transaction is set exactly when the driver has interrupted it.
MarkerInv ==
    /\ cut \subseteq txDone /\ canceled = cut
    /\ \A t \in Txs : tx[t] = "new" => t \notin txDone

\* What a transaction has to say, step by step.
OutcomeInv ==
    \A t \in Txs :
      /\ tx[t] \in {"new", "begin", "fn", "commit"} => errs[t] = {} /\ t \notin durable
      /\ tx[t] = "rollback" =>
           /\ "begin" \notin errs[t] /\ "context" \notin errs[t]
           /\ errs[t] = {} => t \in durable
           /\ errs[t] # {} /\ "unknown" \notin errs[t] => t \notin durable

\* A ping that was late has found its budget spent, and is not taken for readiness.
ProbeInv ==
    /\ probe = "ok" => ~pingedLate
    /\ probe = "pinged" /\ pingedLate => probeDone

\* The inductive invariant.
PoolInv ==
    /\ PoolTypes /\ StartInv /\ HolderInv /\ MarkerInv /\ OutcomeInv
    /\ CancelIsTold /\ OutcomeIsTold /\ ProbeInv
=============================================================================
