---------------------------- MODULE HttpIdempotency ----------------------------
(***************************************************************************)
(* internal/infra/postgresidempotency over internal/infra/postgres InTx    *)
(* and the codec of internal/httpidempotency: requests that carry the same *)
(* idempotency key run their business effect once per retention window,    *)
(* and every later one is answered with the first one's response.          *)
(*                                                                         *)
(* One scoped key; keys do not meet in the store.  PostgreSQL (external)   *)
(* serializes the transactions on the key's row, loses answers to COMMIT,  *)
(* and may still be deciding a commit whose connection is gone.            *)
(***************************************************************************)
EXTENDS Naturals

CONSTANTS
    Requests,      \* executions of the operation, retries included
    Fingerprints,  \* what their semantic inputs hash to
    NoRequest      \* nobody

VARIABLES
    fp,        \* fp[r]: r's fingerprint
    reply,     \* reply[r]: whether r's response survives the codec's round trip
    writer,    \* requests whose session is a writable primary
    row,       \* whose claim the committed row of the key holds, or NoRequest
    lock,      \* who holds the row: a claim, or a commit the server still decides
    limbo,     \* requests whose COMMIT lost its connection undecided
    completed, \* requests whose claim has its result and its expiry time
    expired,   \* requests whose evidence has passed its retention
    at,        \* at[r]: where r's execution is
    tries,     \* tries[r]: claims made
    seen,      \* seen[r]: the evidence r has read
    effects,   \* requests whose business effect is committed
    answer     \* answer[r]: what r's caller was told

dbVars == <<row, lock, limbo, completed, expired, effects>>
vars == <<fp, reply, writer, dbVars, at, tries, seen, answer>>

\* What a caller is told instead of a response.
Errors == {"none", "failed", "mismatch", "unavailable", "unknown", "integrity"}

TypeOK ==
    /\ fp \in [Requests -> Fingerprints]
    /\ reply \in [Requests -> {"stable", "unstable"}]
    /\ {writer, limbo, completed, expired, effects} \subseteq SUBSET Requests
    /\ {row, lock} \subseteq Requests \cup {NoRequest}
    /\ at \in [Requests -> {"begin", "claim", "read", "work", "complete", "commit",
                            "readback", "replay", "done"}]
    /\ tries \in [Requests -> 0..2]
    /\ seen \in [Requests -> Requests \cup {NoRequest}]
    /\ answer \in [Requests -> Requests \cup Errors]

Init ==
    /\ fp \in [Requests -> Fingerprints]
    /\ reply \in [Requests -> {"stable", "unstable"}]
    /\ writer \in SUBSET Requests
    /\ row = NoRequest /\ lock = NoRequest /\ limbo = {}
    /\ completed = {} /\ expired = {}
    /\ at = [r \in Requests |-> "begin"]
    /\ tries = [r \in Requests |-> 0]
    /\ seen = [r \in Requests |-> NoRequest]
    /\ effects = {}
    /\ answer = [r \in Requests |-> "none"]

\* expires_at > clock_timestamp(), false while it is NULL.
Live == row \in completed \ expired

Go(r, l) == at' = [at EXCEPT ![r] = l]

\* r's transaction ends without a commit and its caller gets e.
Abort(r, e) ==
    /\ Go(r, "done")
    /\ answer' = [answer EXCEPT ![r] = e]
    /\ lock' = IF lock = r THEN NoRequest ELSE lock
    /\ UNCHANGED <<fp, reply, writer, row, limbo, completed, expired, effects, tries, seen>>

Begin(r) == at[r] = "begin" /\ Go(r, "claim") /\ UNCHANGED <<fp, reply, writer, dbVars, tries, seen, answer>>

\* Variant: the claim takes the row over whether or not it has expired.
claimableAlways == TRUE

\* ON CONFLICT DO UPDATE ... WHERE expires_at <= clock_timestamp().
claimable == row = NoRequest \/ row \in expired

\* ClaimHTTPIdempotency waits for the row and takes a free or expired key; where nothing can
\* be written it inserts no row, and waits for none.
Claim(r) ==
    /\ at[r] = "claim"
    /\ r \in writer => lock \in {NoRequest, r}
    /\ tries' = [tries EXCEPT ![r] = @ + 1]
    /\ IF r \in writer /\ claimable
       THEN lock' = r /\ Go(r, "work")
       ELSE Go(r, "read") /\ UNCHANGED lock
    /\ UNCHANGED <<fp, reply, writer, row, limbo, completed, expired, effects, seen, answer>>

\* storedEvidence: what the committed row means to r.
storedEvidence(r) ==
    IF r \notin writer THEN "unavailable"
    ELSE IF ~Live THEN "absent"
    ELSE IF fp[row] # fp[r] THEN "mismatch"
    ELSE IF row \notin completed THEN "integrity"
    ELSE "found"

\* ReadHTTPIdempotency inside the transaction; evidence that has expired since the claim
\* allows one more claim.
Read(r) ==
    /\ at[r] = "read"
    /\ LET e == storedEvidence(r) IN
       \/ /\ e = "found"
          /\ seen' = [seen EXCEPT ![r] = row]
          /\ Go(r, "replay")
          /\ UNCHANGED <<fp, reply, writer, dbVars, tries, answer>>
       \/ e = "absent" /\ tries[r] < 2 /\ Go(r, "claim")
            /\ UNCHANGED <<fp, reply, writer, dbVars, tries, seen, answer>>
       \/ e = "absent" /\ tries[r] = 2 /\ Abort(r, "unavailable")
       \/ e \in {"mismatch", "unavailable", "integrity"} /\ Abort(r, e)

\* Variant: the codec encodes without decoding what it encoded.
EncodeUnchecked(r) == TRUE

\* Codec.Encode: the response decodes to itself.
Encode(r) == reply[r] = "stable"

\* Codec.Decode.
Decode(r) == reply[r] = "stable"

\* What a caller is told of x's stored response.
replayed(x) == IF Decode(x) THEN x ELSE "integrity"

\* The read-only transaction ends, committed or not: the evidence stands.
Replay(r) ==
    /\ at[r] = "replay"
    /\ answer' = [answer EXCEPT ![r] = replayed(seen[r])]
    /\ Go(r, "done")
    /\ UNCHANGED <<fp, reply, writer, dbVars, tries, seen>>

\* The operation's work, then the codec: the business effect is written, not yet committed.
Work(r) ==
    /\ at[r] = "work"
    /\ \/ Encode(r) /\ Go(r, "complete") /\ UNCHANGED <<fp, reply, writer, dbVars, tries, seen, answer>>
       \/ ~Encode(r) /\ Abort(r, "failed")

\* executeWork: CompleteHTTPIdempotency stores the result and starts the retention.
Complete(r) ==
    /\ at[r] = "complete"
    /\ completed' = completed \cup {r}
    /\ Go(r, "commit")
    /\ UNCHANGED <<fp, reply, writer, row, lock, limbo, expired, effects, tries, seen, answer>>

\* The work or a statement fails (storageFailure), or the caller's context ends.
Fail(r) ==
    /\ at[r] \in {"begin", "claim", "read", "work", "complete"}
    /\ \E e \in {"failed", "unavailable"} : Abort(r, e)

\* The server commits r's transaction: effect and evidence together.
Committed(r) ==
    /\ row' = r
    /\ effects' = effects \cup {r}
    /\ lock' = NoRequest

\* What a caller whose own transaction committed is told.
own(r) == IF Decode(r) THEN r ELSE "failed"

CommitConfirmed(r) ==
    /\ at[r] = "commit"
    /\ Committed(r)
    /\ answer' = [answer EXCEPT ![r] = own(r)]
    /\ Go(r, "done")
    /\ UNCHANGED <<fp, reply, writer, limbo, completed, expired, tries, seen>>

\* commitDefinitelyFailed: the server refused, or never saw, the COMMIT.
CommitRefused(r) == at[r] = "commit" /\ Abort(r, "failed")

\* classifyCommitError: what is not known to have failed has an unknown outcome.
afterLostCommit == "readback"

\* The connection is lost at the COMMIT; the server may still be at it.
CommitLost(r) ==
    /\ at[r] = "commit"
    /\ limbo' = limbo \cup {r}
    /\ IF afterLostCommit = "readback"
       THEN Go(r, "readback") /\ UNCHANGED answer
       ELSE Go(r, "done") /\ answer' = [answer EXCEPT ![r] = afterLostCommit]
    /\ UNCHANGED <<fp, reply, writer, row, lock, completed, expired, effects, tries, seen>>

ServerDecides(r, commits) ==
    /\ r \in limbo
    /\ limbo' = limbo \ {r}
    /\ IF commits THEN Committed(r) ELSE lock' = NoRequest /\ UNCHANGED <<row, effects>>
    /\ UNCHANGED <<fp, reply, writer, completed, expired, at, tries, seen, answer>>

\* Store.read outside the transaction: committed evidence is the result, anything else
\* leaves the outcome unknown.
ReadBack(r) ==
    /\ at[r] = "readback"
    /\ \/ storedEvidence(r) = "found" /\ answer' = [answer EXCEPT ![r] = replayed(row)]
       \/ answer' = [answer EXCEPT ![r] = "unknown"]
    /\ Go(r, "done")
    /\ UNCHANGED <<fp, reply, writer, dbVars, tries, seen>>

\* Time: the evidence of x passes its retention, from when it was completed.
Expire(x) ==
    /\ x \in completed \ expired
    /\ expired' = expired \cup {x}
    /\ UNCHANGED <<fp, reply, writer, row, lock, limbo, completed, effects, at, tries, seen, answer>>

\* CleanupHTTPIdempotency skips locked rows and deletes expired ones.
Cleanup ==
    /\ lock = NoRequest
    /\ row \in expired
    /\ row' = NoRequest
    /\ UNCHANGED <<fp, reply, writer, lock, limbo, completed, expired, effects, at, tries, seen, answer>>

Done == (\A r \in Requests : at[r] = "done") /\ limbo = {} /\ UNCHANGED vars

Execute(r) ==
    \/ Begin(r) \/ Claim(r) \/ Read(r) \/ Replay(r) \/ Work(r) \/ Complete(r)
    \/ CommitConfirmed(r) \/ CommitRefused(r) \/ CommitLost(r) \/ ReadBack(r)

Next ==
    \/ \E r \in Requests :
         Execute(r) \/ Fail(r) \/ Expire(r) \/ \E commits \in BOOLEAN : ServerDecides(r, commits)
    \/ Cleanup \/ Done

Spec == Init /\ [][Next]_vars

\* Statements that need not wait are answered, and the server decides every commit; no
\* statement has to fail for a call to end.
FairSpec ==
    /\ Spec
    /\ \A r \in Requests : WF_vars(Execute(r)) /\ WF_vars(\E commits \in BOOLEAN : ServerDecides(r, commits))

-----------------------------------------------------------------------------
(* Properties *)

\* OneEffectPerWindow: of all executions with the key, at most one committed effect is
\* within its retention, whatever commits lost their answer (ClaimHTTPIdempotency, the
\* claim and the effect in one transaction).
OneEffectPerWindow == \A x, y \in effects \ expired : x = y

\* AnswerIsTrue: a caller that is given a response is given one whose effect is committed,
\* made from the same input (storedEvidence, MatchesFingerprint); a caller told anything
\* but a response or "unknown" has caused no effect, and never will (classifyCommitError,
\* the codec's check before the commit).
AnswerIsTrue ==
    \A r \in Requests :
      /\ answer[r] \in Requests => answer[r] \in effects /\ fp[answer[r]] = fp[r]
      /\ answer[r] \in {"failed", "mismatch", "unavailable", "integrity"} =>
           r \notin effects \cup limbo

-----------------------------------------------------------------------------
(* What the properties rest on *)

\* Who works on the key, or left a commit with the server, holds the row; while it is held, what
\* the row says has expired.
RowInv ==
    /\ \A r \in Requests : at[r] \in {"work", "complete", "commit"} \/ r \in limbo => lock = r
    /\ lock # NoRequest => claimable
    /\ row # NoRequest => row \in effects
    /\ \A x \in effects \ expired : x = row

\* Where an execution is with what it has done.
RequestInv ==
    \A r \in Requests :
      /\ at[r] = "begin" => tries[r] = 0
      /\ at[r] = "claim" => tries[r] < 2
      /\ at[r] \in {"complete", "commit"} \/ r \in effects \cup limbo => reply[r] = "stable"
      /\ r \in effects \cup limbo => at[r] \in {"readback", "done"}
      /\ at[r] # "done" => answer[r] = "none"
      /\ at[r] = "replay" => seen[r] \in effects /\ fp[seen[r]] = fp[r]

\* The inductive invariant.
IdempotencyInv == TypeOK /\ RowInv /\ RequestInv /\ AnswerIsTrue

=============================================================================
