------------------------ MODULE HttpIdempotency_proofs ------------------------
(***************************************************************************)
(* OneEffectPerWindow and AnswerIsTrue for any number of executions of a   *)
(* key.  The invariant says who holds the row of the key (a transaction    *)
(* that works on it, or a commit the server has not decided) and that the  *)
(* evidence in a row that is held has expired.                             *)
(***************************************************************************)
EXTENDS HttpIdempotency, TLAPS

\* Nobody and the errors are no executions.
Distinct == NoRequest \notin Requests /\ Requests \cap Errors = {}

\* An execution that ends without a commit gives the row back and has caused nothing.
LEMMA AbortStep ==
    ASSUME Distinct, IdempotencyInv, NEW r \in Requests,
           at[r] \in {"begin", "claim", "read", "work", "complete", "commit"},
           NEW e \in {"failed", "mismatch", "unavailable", "integrity"}, Abort(r, e)
    PROVE  IdempotencyInv'
<1> USE DEF IdempotencyInv, Abort, Go
<1>1. TypeOK'
  BY DEF TypeOK, Errors
<1>2. RowInv'
  BY DEF TypeOK, RowInv, RequestInv, claimable
<1>3. RequestInv'
  BY DEF TypeOK, RequestInv
<1>4. AnswerIsTrue'
  BY DEF TypeOK, RequestInv, AnswerIsTrue, Distinct, Errors
<1> QED BY <1>1, <1>2, <1>3, <1>4

\* The steps before the commit.
LEMMA WorkStep ==
    ASSUME Distinct, IdempotencyInv, NEW r \in Requests,
           Begin(r) \/ Claim(r) \/ Read(r) \/ Replay(r) \/ Work(r) \/ Complete(r) \/ Fail(r)
    PROVE  IdempotencyInv'
<1>1. CASE Begin(r)
  BY <1>1 DEF IdempotencyInv, Begin, Go, dbVars, TypeOK, RowInv, RequestInv, AnswerIsTrue, claimable
<1>2. CASE Claim(r)
  <2> USE <1>2 DEF IdempotencyInv, Claim, Go
  <2>1. TypeOK'
    BY DEF TypeOK, RequestInv
  <2>2. RowInv'
    BY DEF TypeOK, RowInv, RequestInv, claimable, Distinct
  <2>3. RequestInv'
    BY DEF TypeOK, RequestInv
  <2>4. AnswerIsTrue'
    BY DEF AnswerIsTrue
  <2> QED BY <2>1, <2>2, <2>3, <2>4
<1>3. CASE Read(r)
  <2>1. CASE \E e \in {"mismatch", "unavailable", "integrity"} : Abort(r, e)
    BY <1>3, <2>1, AbortStep DEF Read
  <2>2. CASE /\ storedEvidence(r) = "found"
             /\ seen' = [seen EXCEPT ![r] = row]
             /\ Go(r, "replay")
             /\ UNCHANGED <<fp, reply, writer, dbVars, tries, answer>>
    <3>1. row \in completed /\ fp[row] = fp[r] /\ row \in Requests /\ row \in effects
      BY <2>2 DEF storedEvidence, Live, IdempotencyInv, TypeOK, RowInv, Distinct
    <3> QED BY <1>3, <2>2, <3>1
            DEF Read, IdempotencyInv, Go, dbVars, TypeOK, RowInv, RequestInv, AnswerIsTrue, claimable
  <2>3. CASE tries[r] < 2 /\ Go(r, "claim") /\ UNCHANGED <<fp, reply, writer, dbVars, tries, seen, answer>>
    BY <1>3, <2>3 DEF Read, IdempotencyInv, Go, dbVars, TypeOK, RowInv, RequestInv, AnswerIsTrue, claimable
  <2> QED BY <1>3, <2>1, <2>2, <2>3 DEF Read
<1>4. CASE Replay(r)
  <2>1. seen[r] \in Requests /\ seen[r] \in effects /\ reply[seen[r]] = "stable" /\ fp[seen[r]] = fp[r]
    BY <1>4 DEF Replay, IdempotencyInv, RequestInv, TypeOK
  <2>2. replayed(seen[r]) = seen[r]
    BY <2>1 DEF replayed, Decode
  <2> QED BY <1>4, <2>1, <2>2
          DEF Replay, IdempotencyInv, Go, dbVars, TypeOK, RowInv, RequestInv, AnswerIsTrue, claimable, Distinct, Errors
<1>5. CASE Work(r)
  <2>1. CASE Abort(r, "failed")
    BY <1>5, <2>1, AbortStep DEF Work
  <2>2. CASE Encode(r) /\ Go(r, "complete") /\ UNCHANGED <<fp, reply, writer, dbVars, tries, seen, answer>>
    BY <1>5, <2>2 DEF Work, Encode, IdempotencyInv, Go, dbVars, TypeOK, RowInv, RequestInv, AnswerIsTrue, claimable
  <2> QED BY <1>5, <2>1, <2>2 DEF Work
<1>6. CASE Complete(r)
  BY <1>6 DEF Complete, IdempotencyInv, Go, TypeOK, RowInv, RequestInv, AnswerIsTrue, claimable
<1>7. CASE Fail(r)
  BY <1>7, AbortStep DEF Fail
<1> QED BY <1>1, <1>2, <1>3, <1>4, <1>5, <1>6, <1>7

\* A commit of r finds nothing within its retention: r holds the row, so what it said has expired.
LEMMA CommittedRow ==
    ASSUME Distinct, IdempotencyInv, NEW r \in Requests, lock = r
    PROVE  \A x \in effects : x \in expired
BY DEF Distinct, IdempotencyInv, TypeOK, RowInv, claimable

\* The COMMIT, its lost answer, the server's decision, and the read after it.
LEMMA CommitStep ==
    ASSUME Distinct, IdempotencyInv, NEW r \in Requests,
           \/ CommitConfirmed(r) \/ CommitRefused(r) \/ CommitLost(r) \/ ReadBack(r)
           \/ \E commits \in BOOLEAN : ServerDecides(r, commits)
    PROVE  IdempotencyInv'
<1>1. CASE CommitConfirmed(r)
  <2> USE <1>1 DEF CommitConfirmed, Committed, Go
  <2>1. lock = r /\ reply[r] = "stable" /\ own(r) = r
    BY DEF IdempotencyInv, RowInv, RequestInv, own, Decode
  <2>2. \A x \in effects : x \in expired
    BY <2>1, CommittedRow
  <2>3. limbo = {} /\ \A s \in Requests : at[s] \in {"work", "complete", "commit"} => s = r
    BY <2>1 DEF IdempotencyInv, TypeOK, RowInv, RequestInv
  <2>4. TypeOK'
    BY <2>1 DEF IdempotencyInv, TypeOK
  <2>5. RowInv'
    BY <2>1, <2>2, <2>3 DEF IdempotencyInv, TypeOK, RowInv, claimable
  <2>6. RequestInv'
    BY <2>1, <2>3 DEF IdempotencyInv, TypeOK, RequestInv
  <2>7. AnswerIsTrue'
    BY <2>1 DEF IdempotencyInv, TypeOK, RequestInv, AnswerIsTrue, Distinct, Errors
  <2> QED BY <2>4, <2>5, <2>6, <2>7 DEF IdempotencyInv
<1>2. CASE CommitRefused(r)
  BY <1>2, AbortStep DEF CommitRefused
<1>3. CASE CommitLost(r)
  <2>1. /\ at[r] = "commit" /\ limbo' = limbo \cup {r} /\ Go(r, "readback")
        /\ UNCHANGED <<fp, reply, writer, row, lock, completed, expired, effects, tries, seen, answer>>
    BY <1>3 DEF CommitLost, afterLostCommit
  <2> QED BY <2>1 DEF IdempotencyInv, Go, TypeOK, RowInv, RequestInv, AnswerIsTrue, claimable
<1>4. CASE ReadBack(r)
  <2>1. CASE storedEvidence(r) = "found" /\ answer' = [answer EXCEPT ![r] = replayed(row)]
    <3>1. fp[row] = fp[r] /\ row \in Requests /\ row \in effects /\ replayed(row) = row
      BY <2>1 DEF storedEvidence, Live, replayed, Decode, IdempotencyInv, TypeOK, RowInv, RequestInv,
                  Distinct
    <3> QED BY <1>4, <2>1, <3>1
            DEF ReadBack, IdempotencyInv, Go, dbVars, TypeOK, RowInv, RequestInv, AnswerIsTrue,
                claimable, Distinct, Errors
  <2>2. CASE answer' = [answer EXCEPT ![r] = "unknown"]
    BY <1>4, <2>2 DEF ReadBack, IdempotencyInv, Go, dbVars, TypeOK, RowInv, RequestInv, AnswerIsTrue,
                      claimable, Distinct, Errors
  <2> QED BY <1>4, <2>1, <2>2 DEF ReadBack
<1>5. ASSUME NEW commits \in BOOLEAN, ServerDecides(r, commits) PROVE IdempotencyInv'
  <2>1. lock = r /\ r \in limbo
    BY <1>5 DEF ServerDecides, IdempotencyInv, RowInv
  <2>2. \A x \in effects : x \in expired
    BY <2>1, CommittedRow
  <2>3. /\ \A s \in Requests : at[s] \notin {"work", "complete", "commit"}
        /\ limbo' = {} /\ lock' = NoRequest
    BY <1>5, <2>1 DEF ServerDecides, Committed, IdempotencyInv, TypeOK, RowInv, RequestInv
  <2>4. CASE row' = r /\ effects' = effects \cup {r}
    BY <1>5, <2>1, <2>2, <2>3, <2>4
       DEF ServerDecides, IdempotencyInv, TypeOK, RowInv, RequestInv, AnswerIsTrue
  <2>5. CASE UNCHANGED <<row, effects>>
    BY <1>5, <2>1, <2>3, <2>5
       DEF ServerDecides, IdempotencyInv, TypeOK, RowInv, RequestInv, AnswerIsTrue
  <2> QED BY <1>5, <2>4, <2>5 DEF ServerDecides, Committed
<1> QED BY <1>1, <1>2, <1>3, <1>4, <1>5

\* Time and the cleanup.
LEMMA StoreStep ==
    ASSUME Distinct, IdempotencyInv, Cleanup \/ \E x \in Requests : Expire(x)
    PROVE  IdempotencyInv'
<1>1. CASE Cleanup
  BY <1>1 DEF Cleanup, IdempotencyInv, TypeOK, RowInv, RequestInv, AnswerIsTrue, claimable
<1>2. ASSUME NEW x \in Requests, Expire(x) PROVE IdempotencyInv'
  BY <1>2 DEF Expire, IdempotencyInv, TypeOK, RowInv, RequestInv, AnswerIsTrue, claimable
<1> QED BY <1>1, <1>2

\* The invariant, for any number of executions.
THEOREM IdempotencyInvariant ==
    ASSUME Distinct
    PROVE  Spec => []IdempotencyInv
<1>1. Init => IdempotencyInv
  BY DEF Distinct, Errors, Init, IdempotencyInv, TypeOK, RowInv, RequestInv, AnswerIsTrue, claimable
<1>2. IdempotencyInv /\ [Next]_vars => IdempotencyInv'
  <2> SUFFICES ASSUME IdempotencyInv, [Next]_vars PROVE IdempotencyInv'
    OBVIOUS
  <2>1. CASE UNCHANGED vars
    BY <2>1 DEF vars, dbVars, IdempotencyInv, TypeOK, RowInv, RequestInv, AnswerIsTrue, claimable
  <2> QED BY <2>1, WorkStep, CommitStep, StoreStep DEF Next, Execute, Done
<1> QED BY <1>1, <1>2, PTL DEF Spec

\* Within the retention of a key at most one effect is committed, however many executions race and
\* whichever commits lost their answers (ClaimHTTPIdempotency, executeWork, CommitLost's readback).
THEOREM EffectOnce ==
    ASSUME Distinct
    PROVE  Spec => []OneEffectPerWindow
<1>1. IdempotencyInv => OneEffectPerWindow
  BY DEF IdempotencyInv, RowInv, OneEffectPerWindow
<1> QED BY <1>1, IdempotencyInvariant, PTL

\* A response is one of a committed effect of the same input, and an error other than "unknown"
\* means no effect, now and later (storedEvidence, classifyCommitError, Codec.Encode).
THEOREM AnswersTrue ==
    ASSUME Distinct
    PROVE  Spec => []AnswerIsTrue
<1>1. IdempotencyInv => AnswerIsTrue
  BY DEF IdempotencyInv
<1> QED BY <1>1, IdempotencyInvariant, PTL

=============================================================================
