--------------------------------- MODULE Outbox ---------------------------------
(***************************************************************************)
(* The transactional outbox: postgresoutbox.Appender stages an event as a  *)
(* River job in the caller's transaction, outboxworker.Worker publishes it *)
(* through natsjs.Producer.  PostgreSQL, River (unique index, retries,     *)
(* rescue, retention) and the broker (deduplication window) are external.  *)
(***************************************************************************)
EXTENDS Naturals, FiniteSets

CONSTANTS
    Callers,      \* transactions that append an event
    Ids,          \* event ids
    MaxAttempts,  \* River's attempts of a job
    MaxStores,    \* bound: copies of an event the stream holds
    None

\* What is wrong with an event: "long" is an id above maxHeaderValueBytes.
Shapes == {"good", "invalid", "oversize", "unrouted", "long"}

\* What a caller may append.
Candidates ==
    [id : Ids, body : {1, 2}, shape : {"good"}]
    \cup [id : Ids, body : {1}, shape : Shapes]

VARIABLES
    event,     \* event[c]: what caller c appends
    at,        \* at[c]: "append", "commit", "done"
    res,       \* res[c]: what c knows
    owner,     \* owner[i]: the open transaction that inserted a job for id i
    job,       \* job[i]: the committed job for id i
    work,      \* work[i]: "idle", "working", "sent", "stored": the attempt under way
    stream,    \* stream[e]: how often the broker stores event e
    window,    \* ids in the broker's deduplication window
    expired,   \* ids that have left it
    draining,  \* Client.draining of the relay
    committed  \* events some transaction committed

vars == <<event, at, res, owner, job, work, stream, window, expired, draining, committed>>
callerVars == <<event, at, res>>

NoJob == [state |-> "none"]
Job(e) == [state |-> "available", body |-> e.body, shape |-> e.shape, attempt |-> 0]
eventOf(i) == [id |-> i, body |-> job[i].body, shape |-> job[i].shape]

Init ==
    /\ event \in [Callers -> Candidates]
    /\ at = [c \in Callers |-> "append"]
    /\ res = [c \in Callers |-> None]
    /\ owner = [i \in Ids |-> None]
    /\ job = [i \in Ids |-> NoJob]
    /\ work = [i \in Ids |-> "idle"]
    /\ stream = [e \in Candidates |-> 0]
    /\ window = {} /\ expired = {}
    /\ draining = FALSE
    /\ committed = {}

\* Variant: the router does not look at the id.
routesLong(e) == e.shape # "unrouted"

\* NewOutboxAppender's router: an id that fits a header, and a route for the kind.
routes(e) == e.shape \notin {"unrouted", "long"}

\* Event.Validate, the payload bound and the route.
appendable(e) == e.shape \notin {"invalid", "oversize"} /\ routes(e)

\* validateEvent and validateEncodedMessage of the producer.
publishable(e) == e.shape \notin {"invalid", "oversize", "long"}

\* Variant: the id decides.
sameById(e, j) == TRUE

\* sameJob: the retained job carries the same publication.
same(e, j) == e.body = j.body /\ e.shape = j.shape

Finish(c, r) ==
    /\ at' = [at EXCEPT ![c] = "done"]
    /\ res' = [res EXCEPT ![c] = r]

\* Append: InsertTx waits for an open transaction that holds the id.
Append(c) ==
    LET e == event[c] IN
    /\ at[c] = "append"
    /\ \/ ~appendable(e) /\ Finish(c, "refused") /\ UNCHANGED owner
       \/ /\ appendable(e) /\ owner[e.id] = None /\ job[e.id] = NoJob
          /\ owner' = [owner EXCEPT ![e.id] = c]
          /\ at' = [at EXCEPT ![c] = "commit"] /\ UNCHANGED res
       \/ /\ appendable(e) /\ owner[e.id] = None /\ job[e.id] # NoJob
          /\ IF same(e, job[e.id]) THEN at' = [at EXCEPT ![c] = "commit"] /\ UNCHANGED res
                                   ELSE Finish(c, "conflict")
          /\ UNCHANGED owner
    /\ UNCHANGED <<event, job, work, stream, window, expired, draining, committed>>

\* The caller's transaction commits, or is rolled back by a failure or a crash.
Commit(c) ==
    LET e == event[c] IN
    /\ at[c] = "commit"
    /\ Finish(c, "committed")
    /\ IF owner[e.id] = c
       THEN /\ job' = [job EXCEPT ![e.id] = Job(e)]
            /\ owner' = [owner EXCEPT ![e.id] = None]
            /\ committed' = committed \cup {e}
       ELSE UNCHANGED <<job, owner, committed>>
    /\ UNCHANGED <<event, work, stream, window, expired, draining>>

Rollback(c) ==
    /\ at[c] \in {"append", "commit"}
    /\ Finish(c, "rolled back")
    /\ owner' = [i \in Ids |-> IF owner[i] = c THEN None ELSE owner[i]]
    /\ UNCHANGED <<event, job, work, stream, window, expired, draining, committed>>

\* River hands the job to Worker.Work.
Fetch(i) ==
    /\ job[i].state = "available"
    /\ job' = [job EXCEPT ![i].state = "running", ![i].attempt = @ + 1]
    /\ work' = [work EXCEPT ![i] = "working"]
    /\ UNCHANGED <<callerVars, owner, stream, window, expired, draining, committed>>

\* River after a failed attempt.
Retried(i) ==
    /\ job' = [job EXCEPT ![i].state = IF job[i].attempt < MaxAttempts THEN "available" ELSE "discarded"]
    /\ work' = [work EXCEPT ![i] = "idle"]

\* Variant: a draining client makes its callers wait.
PublishWaits(i) ==
    /\ work[i] = "working" /\ ~draining
    /\ work' = [work EXCEPT ![i] = "sent"]
    /\ UNCHANGED <<callerVars, owner, job, stream, window, expired, draining, committed>>

\* Producer.Publish up to publishOnce: an invalid event and a draining client are refused.
Publish(i) ==
    /\ work[i] = "working"
    /\ \/ (~publishable(eventOf(i)) \/ draining) /\ Retried(i)
       \/ /\ publishable(eventOf(i)) /\ ~draining
          /\ work' = [work EXCEPT ![i] = "sent"] /\ UNCHANGED job
    /\ UNCHANGED <<callerVars, owner, stream, window, expired, draining, committed>>

\* Variant: every publication carries a new id.
dedupNever(i) == FALSE

\* The broker knows the publication id (EventFromDomain: the event's id).
dedup(i) == i \in window

\* The broker stores the message, or knows its publication id.
Store(i) ==
    /\ work[i] = "sent" /\ stream[eventOf(i)] < MaxStores
    /\ stream' = IF dedup(i) THEN stream ELSE [stream EXCEPT ![eventOf(i)] = @ + 1]
    /\ window' = window \cup {i}
    /\ work' = [work EXCEPT ![i] = "stored"]
    /\ UNCHANGED <<callerVars, owner, job, expired, draining, committed>>

\* The acknowledgement arrives: Work returns nil.
Acked(i) ==
    /\ work[i] = "stored"
    /\ job' = [job EXCEPT ![i].state = "completed"]
    /\ work' = [work EXCEPT ![i] = "idle"]
    /\ UNCHANGED <<callerVars, owner, stream, window, expired, draining, committed>>

\* Variant: an acknowledgement that does not arrive counts as one.
LostIsDone(i) ==
    /\ work[i] \in {"sent", "stored"}
    /\ job' = [job EXCEPT ![i].state = "completed"]
    /\ work' = [work EXCEPT ![i] = "idle"]
    /\ UNCHANGED <<callerVars, owner, stream, window, expired, draining, committed>>

\* classifyPublishError: a rejection (not stored) or a lost acknowledgement; or the relay
\* dies and River rescues the job.  Work is run again.
Lost(i) ==
    /\ work[i] \in {"sent", "stored"}
    /\ Retried(i)
    /\ UNCHANGED <<callerVars, owner, stream, window, expired, draining, committed>>

\* StopPublish; a new relay process starts.
StopPublish == ~draining /\ draining' = TRUE
               /\ UNCHANGED <<callerVars, owner, job, work, stream, window, expired, committed>>
Restart == draining /\ draining' = FALSE
           /\ UNCHANGED <<callerVars, owner, job, work, stream, window, expired, committed>>

\* The deduplication window ends.
Forget(i) ==
    /\ i \in window
    /\ window' = window \ {i} /\ expired' = expired \cup {i}
    /\ UNCHANGED <<callerVars, owner, job, work, stream, draining, committed>>

\* Variant: discarded jobs are cleaned up like completed ones.
DeleteTerminal(i) ==
    /\ job[i].state \in {"completed", "discarded"} /\ i \notin window
    /\ job' = [job EXCEPT ![i] = NoJob]
    /\ UNCHANGED <<callerVars, owner, work, stream, window, expired, draining, committed>>

\* River deletes a completed job, later than the window; riverClientConfig has it keep the
\* discarded ones.
Delete(i) ==
    /\ job[i].state = "completed" /\ i \notin window
    /\ job' = [job EXCEPT ![i] = NoJob]
    /\ UNCHANGED <<callerVars, owner, work, stream, window, expired, draining, committed>>

Done ==
    /\ \A c \in Callers : at[c] = "done"
    /\ \A i \in Ids : job[i].state \in {"none", "discarded"} /\ i \notin window
    /\ UNCHANGED vars

Relay(i) == Fetch(i) \/ Publish(i) \/ Store(i) \/ Acked(i) \/ Lost(i)

Next ==
    \/ \E c \in Callers : Append(c) \/ Commit(c) \/ Rollback(c)
    \/ \E i \in Ids : Fetch(i) \/ Publish(i) \/ Store(i) \/ Acked(i) \/ Lost(i) \/ Forget(i) \/ Delete(i)
    \/ StopPublish \/ Restart \/ Done

Fairness == \A i \in Ids : WF_vars(Relay(i))

Spec == Init /\ [][Next]_vars /\ Fairness

-----------------------------------------------------------------------------
(* Properties *)

\* The copies of id i the stream holds.
copies(i) == {<<e, n>> \in Candidates \X (1..MaxStores) : e.id = i /\ stream[e] >= n}

\* OutboxIsFaithful: what is published was committed with these bytes, and once while the
\* broker remembers it; a completed job is in the stream; a committed event is in the stream
\* or still has its job, also when its attempts are used up (riverClientConfig's retention);
\* a caller told that its event is appended has it, with its bytes, as the event of that id;
\* and every job staged can pass the producer's own validation.
OutboxIsFaithful ==
    /\ \A e \in Candidates : stream[e] > 0 => e \in committed
    /\ \A i \in Ids \ expired : Cardinality(copies(i)) <= 1
    /\ \A i \in Ids : job[i].state = "completed" => stream[eventOf(i)] > 0
    /\ \A e \in committed : stream[e] > 0 \/ (job[e.id] # NoJob /\ eventOf(e.id) = e)
    /\ \A c \in Callers : res[c] = "committed" => event[c] \in committed
    /\ \A i \in Ids : job[i] # NoJob => publishable(eventOf(i))

\* OutboxDrains: a staged event is published, or all of its attempts are used, through
\* lost acknowledgements, crashes and drains of the relay.
OutboxDrains ==
    \A i \in Ids : job[i].state = "available" ~> job[i].state \in {"completed", "discarded", "none"}

=============================================================================
