-------------------------- MODULE PostgresPool_proofs --------------------------
(***************************************************************************)
(* PoolIsSound for every set of transactions and every size of the pool.   *)
(* The invariant adds to it who holds a connection and whose mark it       *)
(* carries: only because a mark goes before its connection does, the       *)
(* cancellation a transaction reports is its own.                          *)
(***************************************************************************)
EXTENDS PostgresPool, TLAPS

\* What the connections and the transactions have of the invariant.
TxInv == HolderInv /\ MarkerInv /\ OutcomeInv /\ CancelIsTold /\ OutcomeIsTold

\* A step that touches no connection and no transaction keeps what they keep.
LEMMA TxFrame ==
    ASSUME TxInv, UNCHANGED <<idle, marks, pinging, txVars>>
    PROVE  TxInv'
BY DEF TxInv, HolderInv, MarkerInv, OutcomeInv, CancelIsTold, OutcomeIsTold, txVars

\* A step of a transaction keeps what the startup and the probe keep.
LEMMA OtherFrame ==
    ASSUME StartInv, ProbeInv, UNCHANGED <<startVars, pool, probeVars>>
    PROVE  StartInv' /\ ProbeInv'
BY DEF StartInv, ProbeInv, startVars, probeVars

\* Opening the pool, handing it over and closing it.
LEMMA StartupStep ==
    ASSUME PoolInv, Startup \/ BudgetEnds \/ Closing \/ Close \/ PoolCloses
    PROVE  PoolInv'
<1>1. TxInv'
  <2>1. UNCHANGED <<idle, marks, pinging, txVars>>
    BY DEF Startup, Closing, Start, OpenPool, OpenStep, Decide, BudgetEnds, CloseExpires,
           CloseReturns, Close, PoolCloses, probeVars, txVars
  <2> QED BY <2>1, TxFrame DEF PoolInv, TxInv
<1>2. PoolTypes' /\ StartInv'
  <2> USE DEF PoolInv, PoolTypes, StartInv, txVars, probeVars, startVars
  <2>1. CASE Start
    BY <2>1 DEF Start
  <2>2. CASE OpenPool
    BY <2>2 DEF OpenPool
  <2>3. CASE OpenStep("ping", "stats")
    BY <2>3 DEF OpenStep
  <2>4. CASE OpenStep("stats", "opened")
    BY <2>4 DEF OpenStep
  <2>5. CASE Decide
    BY <2>5 DEF Decide, refusedPool
  <2>6. CASE BudgetEnds
    BY <2>6 DEF BudgetEnds
  <2>7. CASE Closing
    BY <2>7 DEF Closing, CloseExpires, CloseReturns
  <2>8. CASE Close
    BY <2>8 DEF Close
  <2>9. CASE PoolCloses
    BY <2>9 DEF PoolCloses
  <2> QED BY <2>1, <2>2, <2>3, <2>4, <2>5, <2>6, <2>7, <2>8, <2>9 DEF Startup
<1>3. ProbeInv'
  BY DEF PoolInv, ProbeInv, probeVars, Startup, Closing, Start, OpenPool, OpenStep, Decide,
         BudgetEnds, CloseExpires, CloseReturns, Close, PoolCloses
<1> QED BY <1>1, <1>2, <1>3 DEF PoolInv, TxInv

\* The readiness check takes a connection nobody holds, and gives it back.
LEMMA ProbeStep ==
    ASSUME PoolInv, Check \/ ProbeEnds \/ Ping \/ Pinged \/ Verdict
    PROVE  PoolInv'
<1>1. StartInv'
  BY DEF PoolInv, StartInv, startVars, Check, ProbeEnds, Ping, Pinged, Verdict
<1>2. UNCHANGED <<marks, txVars>>
  BY DEF Check, ProbeEnds, Ping, Pinged, Verdict, txVars
<1>3. MarkerInv' /\ OutcomeInv' /\ CancelIsTold' /\ OutcomeIsTold'
  BY <1>2 DEF PoolInv, MarkerInv, OutcomeInv, CancelIsTold, OutcomeIsTold, txVars
<1>4. HolderInv'
  <2>1. CASE UNCHANGED <<idle, pinging>>
    BY <1>2, <2>1 DEF PoolInv, HolderInv, txVars
  <2>2. ASSUME NEW c \in idle, pinging' = {c}, idle' = idle \ {c} PROVE HolderInv'
    BY <1>2, <2>2 DEF PoolInv, HolderInv, txVars
  <2>3. CASE pinging' = {} /\ idle' = idle \cup pinging
    BY <1>2, <2>3 DEF PoolInv, HolderInv, txVars
  <2> QED BY <2>1, <2>2, <2>3 DEF Check, ProbeEnds, Ping, Pinged, Verdict
<1>5. PoolTypes' /\ ProbeInv'
  <2> USE <1>2 DEF PoolInv, PoolTypes, ProbeInv, txVars, startVars
  <2>1. CASE Check
    BY <2>1 DEF Check
  <2>2. CASE ProbeEnds
    BY <2>2 DEF ProbeEnds
  <2>3. CASE Ping
    BY <2>3 DEF Ping
  <2>4. CASE Pinged
    BY <2>4 DEF Pinged
  <2>5. CASE Verdict
    BY <2>5 DEF Verdict, ready
  <2> QED BY <2>1, <2>2, <2>3, <2>4, <2>5
<1> QED BY <1>1, <1>3, <1>4, <1>5 DEF PoolInv

\* A step of one transaction; no transaction is the value that stands for none.
LEMMA TxStep ==
    ASSUME NoTx \notin Txs, PoolInv, NEW t \in Txs,
           \/ Acquire(t) \/ CtxEnds(t) \/ HandleCancel(t)
           \/ Begin(t) \/ Run(t) \/ Commit(t) \/ Rollback(t)
           \/ \E n \in 1..2 : Deferred(t, n)
    PROVE  PoolInv'
<1> USE DEF Goto, Fails
<1>1. StartInv' /\ ProbeInv' /\ UNCHANGED <<sp, pool, probe, pinging>>
  <2>1. UNCHANGED <<startVars, pool, probeVars>>
    BY DEF Acquire, CtxEnds, HandleCancel, Begin, Run, Commit, Rollback, Deferred
  <2> QED BY <2>1, OtherFrame DEF PoolInv, startVars, probeVars
<1>2. CASE Acquire(t)
  <2> USE <1>1, <1>2 DEF Acquire, PoolInv
  <2>1. PoolTypes'
    BY DEF PoolTypes
  <2>2. HolderInv'
    BY DEF PoolTypes, HolderInv
  <2>3. MarkerInv' /\ OutcomeInv' /\ CancelIsTold' /\ OutcomeIsTold'
    BY DEF PoolTypes, MarkerInv, OutcomeInv, CancelIsTold, OutcomeIsTold
  <2> QED BY <1>1, <2>1, <2>2, <2>3
<1>3. CASE CtxEnds(t)
  BY <1>1, <1>3 DEF CtxEnds, PoolInv, PoolTypes, HolderInv, MarkerInv, OutcomeInv,
                    CancelIsTold, OutcomeIsTold
<1>4. CASE HandleCancel(t)
  <2>1. canceled' = canceled \cup {t}
    BY <1>4 DEF HandleCancel, PoolInv, HolderInv
  <2>2. MarkerInv'
    BY <1>4, <2>1 DEF HandleCancel, PoolInv, MarkerInv
  <2> QED BY <1>1, <1>4, <2>1, <2>2
          DEF HandleCancel, PoolInv, PoolTypes, HolderInv, OutcomeInv, CancelIsTold,
              OutcomeIsTold
<1>5. CASE Begin(t) \/ Run(t) \/ Commit(t) \/ Rollback(t)
  <2>1. /\ UNCHANGED <<idle, marks, held, pinging, txDone, canceled, cut>>
        /\ tx[t] # "new" /\ tx[t] # "last"
        /\ \E l \in {"fn", "commit", "rollback", "defer"} : tx' = [tx EXCEPT ![t] = l]
    BY <1>1, <1>5 DEF Begin, Run, Commit, Rollback
  <2>2. HolderInv' /\ MarkerInv'
    BY <2>1 DEF PoolInv, PoolTypes, HolderInv, MarkerInv
  <2>3. CASE Begin(t)
    BY <1>1, <2>1, <2>2, <2>3 DEF Begin, PoolInv, PoolTypes, OutcomeInv, CancelIsTold, OutcomeIsTold
  <2>4. CASE Run(t)
    BY <1>1, <2>1, <2>2, <2>4 DEF Run, PoolInv, PoolTypes, OutcomeInv, CancelIsTold, OutcomeIsTold
  <2>5. CASE Commit(t)
    BY <1>1, <2>1, <2>2, <2>5 DEF Commit, classifyCommitError, PoolInv, PoolTypes, OutcomeInv,
                                  CancelIsTold, OutcomeIsTold
  <2>6. CASE Rollback(t)
    BY <1>1, <2>1, <2>2, <2>6 DEF Rollback, PoolInv, PoolTypes, OutcomeInv, MarkerInv, CancelIsTold, OutcomeIsTold
  <2> QED BY <1>5, <2>3, <2>4, <2>5, <2>6
<1>6. CASE Deferred(t, 1)
  <2>1. /\ tx[t] = "defer" /\ tx' = [tx EXCEPT ![t] = "last"]
        /\ marks' = [marks EXCEPT ![held[t]] = NoTx]
        /\ UNCHANGED <<idle, held, pinging, txDone, canceled, cut, errs, durable>>
    BY <1>1, <1>6 DEF Deferred, deferred
  <2>2. HolderInv'
    BY <2>1 DEF PoolInv, PoolTypes, HolderInv
  <2>3. MarkerInv' /\ OutcomeInv' /\ CancelIsTold' /\ OutcomeIsTold'
    BY <2>1 DEF PoolInv, PoolTypes, MarkerInv, OutcomeInv, CancelIsTold, OutcomeIsTold
  <2>4. PoolTypes'
    BY <1>1, <2>1 DEF PoolInv, PoolTypes
  <2> QED BY <1>1, <2>2, <2>3, <2>4 DEF PoolInv
<1>7. CASE Deferred(t, 2)
  <2>1. /\ tx[t] = "last" /\ tx' = [tx EXCEPT ![t] = "new"]
        /\ idle' = idle \cup {held[t]}
        /\ held' = [held EXCEPT ![t] = NoConn] /\ errs' = [errs EXCEPT ![t] = {}]
        /\ txDone' = txDone \ {t} /\ canceled' = canceled \ {t} /\ cut' = cut \ {t}
        /\ durable' = durable \ {t}
        /\ UNCHANGED <<marks, pinging>>
    BY <1>1, <1>7 DEF Deferred, deferred
  <2>2. HolderInv'
    BY <2>1 DEF PoolInv, PoolTypes, HolderInv
  <2>3. MarkerInv' /\ OutcomeInv' /\ CancelIsTold' /\ OutcomeIsTold'
    BY <2>1 DEF PoolInv, PoolTypes, MarkerInv, OutcomeInv, CancelIsTold, OutcomeIsTold
  <2>4. PoolTypes'
    BY <1>1, <2>1 DEF PoolInv, PoolTypes, HolderInv
  <2> QED BY <1>1, <2>2, <2>3, <2>4 DEF PoolInv
<1> QED BY <1>2, <1>3, <1>4, <1>5, <1>6, <1>7

\* The pool is handed over in time or not left behind, every transaction tells its outcome and
\* its own cancellation, and a late ping is no readiness: initPostgresDependency, InTx, commitTx,
\* HandleCancel and postgresReadinessProbe.Check, for any number of callers and connections.
THEOREM PoolSound ==
    ASSUME NoTx \notin Txs
    PROVE  Spec => []PoolIsSound
<1>1. Init => PoolInv
  BY DEF Init, PoolInv, PoolTypes, StartInv, HolderInv, MarkerInv, OutcomeInv, CancelIsTold,
         OutcomeIsTold, ProbeInv
<1>2. PoolInv /\ [Next]_vars => PoolInv'
  <2> SUFFICES ASSUME PoolInv, [Next]_vars PROVE PoolInv'
    OBVIOUS
  <2>1. CASE UNCHANGED vars
    BY <2>1 DEF vars, PoolInv, PoolTypes, StartInv, HolderInv, MarkerInv, OutcomeInv, CancelIsTold,
                OutcomeIsTold, ProbeInv
  <2> QED BY <2>1, StartupStep, ProbeStep, TxStep DEF Next
<1>3. PoolInv => PoolIsSound
  BY DEF PoolInv, PoolIsSound, StartInv, PoolIsOwned, ProbeInv, LateIsUnready
<1> QED BY <1>1, <1>2, <1>3, PTL DEF Spec

=============================================================================
