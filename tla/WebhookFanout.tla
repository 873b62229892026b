------------------------------ MODULE WebhookFanout ------------------------------
(***************************************************************************)
(* internal/infra/postgreswebhook/dispatcher.go: the deliveries of one     *)
(* event are staged as River jobs in the caller's transaction.  Callers    *)
(* that stage the event, with the same or with another fan-out, meet in    *)
(* River's unique index on the acceptance id; River (external) deletes     *)
(* terminal jobs one by one when their retention ends.                     *)
(***************************************************************************)
EXTENDS Naturals, Sequences, SequencesExt

CONSTANTS
    Callers,     \* transactions that stage the event
    Plans,       \* fan-outs: sequences of delivery ids (receiver and generation)
    MaxStages,   \* how often a caller stages before it gives up
    None

\* AcceptanceID of the deliveries: the event's anchor is none of them.
Anchor == "anchor"
DeliveryIds == UNION {ToSet(p) : p \in Plans}
AcceptanceIds == DeliveryIds \cup {Anchor}

VARIABLES
    plan,     \* plan[c]: the fan-out c prepared
    row,      \* row[a]: the committed job with acceptance id a
    owner,    \* owner[a]: the undecided transaction that inserted a
    limbo,    \* transactions whose COMMIT lost its connection undecided
    at,       \* at[c]: "begin", "insert", "commit", "resolve", "done"
    next,     \* next[c]: the delivery Stage is at
    fresh,    \* fresh[c]: how many of them c's transaction inserted
    stages,   \* stages[c]: calls of Stage
    result,   \* result[c]: what the caller knows
    accepted, \* fan-outs that some transaction committed
    deleted   \* River has deleted a job of the event

vars == <<plan, row, owner, limbo, at, next, fresh, stages, result, accepted, deleted>>

\* The job of an acceptance id that River has no row for.
NoJob == [plan |-> <<>>, id |-> None]
Job(p, i) == [plan |-> p, id |-> p[i]]

Init ==
    /\ plan \in [Callers -> Plans]
    /\ row = [a \in AcceptanceIds |-> NoJob]
    /\ owner = [a \in AcceptanceIds |-> None]
    /\ limbo = {}
    /\ at = [c \in Callers |-> "begin"]
    /\ next = [c \in Callers |-> 1]
    /\ fresh = [c \in Callers |-> 0]
    /\ stages = [c \in Callers |-> 0]
    /\ result = [c \in Callers |-> "none"]
    /\ accepted = {} /\ deleted = FALSE

\* Variant: every delivery is its own acceptance id.
acceptanceIdPlain(p, i) == p[i]

\* Prepare: the first delivery anchors the event.
acceptanceId(p, i) == IF i = 1 THEN Anchor ELSE p[i]

\* Variant: only the delivery is compared.
matchesDelivery(job, p, i) == job.id = p[i]

\* matchesFanout: delivery and fan-out fingerprint.
matchesFanout(job, p, i) == job.id = p[i] /\ job.plan = p

\* A transaction is a caller's n-th call of Stage.
tx(c) == <<c, stages[c]>>

Release(t) == owner' = [a \in AcceptanceIds |-> IF owner[a] = t THEN None ELSE owner[a]]

Finish(c, r) ==
    /\ at' = [at EXCEPT ![c] = "done"]
    /\ result' = [result EXCEPT ![c] = r]

Begin(c) ==
    /\ at[c] = "begin"
    /\ stages' = [stages EXCEPT ![c] = @ + 1]
    /\ at' = [at EXCEPT ![c] = "insert"]
    /\ next' = [next EXCEPT ![c] = 1]
    /\ fresh' = [fresh EXCEPT ![c] = 0]
    /\ UNCHANGED <<plan, row, owner, limbo, result, accepted, deleted>>

\* deliveryInsertOpts: unique by acceptance id over every state of a job, terminal ones
\* included, for as long as River keeps its row.
isDuplicate(a) == row[a] # NoJob

\* InsertTx of one delivery: it waits for another transaction that inserted the same id.
Insert(c) ==
    LET i == next[c]
        a == acceptanceId(plan[c], i) IN
    /\ at[c] = "insert" /\ i <= Len(plan[c])
    /\ owner[a] \in {None, tx(c)}
    /\ \/ /\ ~isDuplicate(a)
          /\ owner' = [owner EXCEPT ![a] = tx(c)]
          /\ fresh' = [fresh EXCEPT ![c] = @ + 1]
          /\ next' = [next EXCEPT ![c] = i + 1]
          /\ UNCHANGED <<at, result>>
       \/ /\ isDuplicate(a) /\ matchesFanout(row[a], plan[c], i)
          /\ next' = [next EXCEPT ![c] = i + 1]
          /\ UNCHANGED <<owner, fresh, at, result>>
       \/ /\ isDuplicate(a) /\ ~matchesFanout(row[a], plan[c], i)
          /\ Finish(c, "conflict")
          /\ Release(tx(c))
          /\ UNCHANGED <<fresh, next>>
    /\ UNCHANGED <<plan, row, limbo, stages, accepted, deleted>>

\* Variant: the two counts are not compared.
partialNever(c) == FALSE

\* newCount != 0 && existingCount != 0.
partial(c) == fresh[c] \notin {0, Len(plan[c])}

\* Stage returns: the fan-out is new, it exists, or it is a partial replay.
Staged(c) ==
    /\ at[c] = "insert" /\ next[c] > Len(plan[c])
    /\ IF partial(c)
       THEN Finish(c, "conflict") /\ Release(tx(c))
       ELSE at' = [at EXCEPT ![c] = "commit"] /\ UNCHANGED <<result, owner>>
    /\ UNCHANGED <<plan, row, limbo, next, fresh, stages, accepted, deleted>>

\* The server commits transaction t, whose caller staged p.
Committed(t) ==
    LET p == plan[t[1]]
        mine == {a \in AcceptanceIds : owner[a] = t} IN
    /\ row' = [a \in AcceptanceIds |->
                 IF a \in mine THEN Job(p, CHOOSE i \in DOMAIN p : acceptanceId(p, i) = a) ELSE row[a]]
    /\ accepted' = IF mine # {} THEN accepted \cup {p} ELSE accepted
    /\ Release(t)

CommitConfirmed(c) ==
    /\ at[c] = "commit"
    /\ Committed(tx(c))
    /\ Finish(c, IF fresh[c] > 0 THEN "inserted" ELSE "existing")
    /\ UNCHANGED <<plan, limbo, next, fresh, stages, deleted>>

\* The caller's transaction fails or is rolled back; it may run it again.
CommitRefused(c) ==
    /\ at[c] \in {"insert", "commit"}
    /\ Release(tx(c))
    /\ IF stages[c] < MaxStages THEN at' = [at EXCEPT ![c] = "begin"] /\ UNCHANGED result
       ELSE Finish(c, "failed")
    /\ UNCHANGED <<plan, row, limbo, next, fresh, stages, accepted, deleted>>

\* The answer to COMMIT is lost; the server decides later.
CommitLost(c) ==
    /\ at[c] = "commit"
    /\ limbo' = limbo \cup {tx(c)}
    /\ at' = [at EXCEPT ![c] = "resolve"]
    /\ UNCHANGED <<plan, row, owner, next, fresh, stages, result, accepted, deleted>>

ServerDecides(t) ==
    /\ limbo' = limbo \ {t}
    /\ \/ Committed(t)
       \/ Release(t) /\ UNCHANGED <<row, accepted>>
    /\ UNCHANGED <<plan, at, next, fresh, stages, result, deleted>>

\* The jobs ResolveCurrent finds by delivery id.
found(p) == {row[a] : a \in {b \in AcceptanceIds : row[b] # NoJob /\ row[b].id \in ToSet(p)}}

\* ResolveCurrent after an unknown commit; an absent fan-out is staged again.
ResolveCurrent(c) ==
    LET jobs == found(plan[c]) IN
    /\ at[c] = "resolve"
    /\ \/ jobs = {} /\ stages[c] < MaxStages /\ at' = [at EXCEPT ![c] = "begin"] /\ UNCHANGED result
       \/ jobs = {} /\ stages[c] >= MaxStages /\ Finish(c, "unknown")
       \/ jobs # {} /\ Finish(c, IF jobs = {Job(plan[c], i) : i \in DOMAIN plan[c]}
                                 THEN "present" ELSE "conflict")
    /\ UNCHANGED <<plan, row, owner, limbo, next, fresh, stages, accepted, deleted>>

\* River's job cleaner deletes a terminal job.
Delete(a) ==
    /\ row[a] # NoJob
    /\ row' = [row EXCEPT ![a] = NoJob]
    /\ deleted' = TRUE
    /\ UNCHANGED <<plan, owner, limbo, at, next, fresh, stages, result, accepted>>

Done == (\A c \in Callers : at[c] = "done") /\ limbo = {} /\ UNCHANGED vars

Stage(c) == Begin(c) \/ Insert(c) \/ Staged(c) \/ CommitConfirmed(c) \/ CommitRefused(c)

Next ==
    \/ \E c \in Callers : Stage(c) \/ CommitLost(c) \/ ResolveCurrent(c)
    \/ \E t \in limbo : ServerDecides(t)
    \/ \E a \in AcceptanceIds : Delete(a)
    \/ Done

Spec == Init /\ [][Next]_vars

-----------------------------------------------------------------------------
(* Properties *)

\* OneFanoutPerEvent: while River keeps the event's jobs, they are all of one fan-out,
\* whatever callers prepare, retry or lose (the anchor's acceptance id).
OneFanoutPerEvent == deleted \/ \A a, b \in AcceptanceIds :
                       row[a] # NoJob /\ row[b] # NoJob => row[a].plan = row[b].plan

\* ResultIsTrue: a caller told that its fan-out was inserted, existed or is present has
\* that fan-out accepted as a whole (Stage, ResolveCurrent).
ResultIsTrue ==
    \A c \in Callers :
      result[c] \in {"inserted", "existing", "present"} => plan[c] \in accepted

\* StagedWhole: a transaction whose COMMIT may take effect inserts the jobs of its whole
\* fan-out or none of them: when River has deleted some of them already, a replay does not
\* send those deliveries again beside the ones that are kept (Stage's partial replay).
StagedWhole ==
    \A t \in limbo \cup {tx(c) : c \in {d \in Callers : at[d] = "commit"}} :
      {a \in AcceptanceIds : owner[a] = t} \in
        {{}, {acceptanceId(plan[t[1]], i) : i \in DOMAIN plan[t[1]]}}

=============================================================================
