------------------------------ MODULE NatsRedrive ------------------------------
(***************************************************************************)
(* internal/infra/natsjs, message_wire.go, message_deadletter.go,          *)
(* registry.go and worker_config.go: what an event is on the wire, and     *)
(* whether it survives being published, delivered, moved to the            *)
(* dead-letter stream, restored by an operator and published again, each   *)
(* of which may be repeated because an answer was lost.                    *)
(*                                                                         *)
(* A header value is absent (None), unusable (Bad) or a value; a subject   *)
(* is a sequence of tokens; a derived id is the tuple it is a digest of.   *)
(***************************************************************************)
EXTENDS Naturals, Sequences, FiniteSets

CONSTANTS
    Events,       \* domain events of this service
    Strangers,    \* messages other publishers put on the source stream
    MaxRecords,   \* bound: records of either stream
    Bad, None

VARIABLES
    setting,   \* the worker's filter and dead-letter subject, and the routes
    up,        \* the settings were accepted
    event,     \* event[e]: the event as its feature made it
    streams,   \* the source stream and the dead-letter stream: sequences of records
    settled,   \* source records that were acknowledged
    handled    \* what typed handlers were called with: <<source record, event>>

vars == <<setting, up, event, streams, settled, handled>>

-----------------------------------------------------------------------------
(* Admission of the settings *)

Wild == {"*", ">"}
Filters == {<<"a">>, <<"a", "b">>, <<"*">>, <<"a", "*">>, <<"a", ">">>, <<">", "a">>, <<>>}
DeadLetterSubjects == {<<"a">>, <<"b">>, <<"a", "b">>, <<"b", "*">>}

\* validFilterSubject: ">" stands only at the end.
validFilterSubject(f) == f # <<>> /\ \A i \in DOMAIN f : f[i] = ">" => i = Len(f)
validPublishSubject(s) == validFilterSubject(s) /\ \A i \in DOMAIN s : s[i] \notin Wild

tokenMatches(f, s, i) == i <= Len(s) /\ f[i] \in {"*", s[i]}

\* Variant: subjects are compared as text.
subjectMatchesLiterally(f, s) == f = s

\* subjectMatches: token by token until a ">".
subjectMatches(f, s) ==
    LET tail == {i \in DOMAIN f : f[i] = ">"}
        first == IF tail = {} THEN Len(f) + 1 ELSE CHOOSE i \in tail : \A j \in tail : i <= j
    IN  /\ \A i \in 1 .. first - 1 : tokenMatches(f, s, i)
        /\ tail = {} => Len(f) = Len(s)

\* Two versions of one type, each with a route; "zero" and "twice" are lists that
\* buildRoutes refuses.
RouteLists == {"good", "none", "zero", "twice"}
buildRoutes(list) == list = "good"
Route == [k \in {<<"t", 1>>, <<"t", 2>>} |-> IF k[2] = 1 THEN <<"a">> ELSE <<"a", "b">>]

\* The handlers registered: register refuses an unrouted kind and a second handler.
eventHandlers == {<<"t", 1>>}

\* ValidateWorkerConfig as far as it concerns subjects.
ValidateWorkerConfig(s) ==
    /\ validFilterSubject(s.filter)
    /\ validPublishSubject(s.dead)
    /\ ~subjectMatches(s.filter, s.dead)

\* What the broker delivers to a filter: ">" stands for at least one token.
Delivers(f, s) ==
    IF f # <<>> /\ f[Len(f)] = ">"
    THEN Len(s) >= Len(f) /\ \A i \in 1 .. Len(f) - 1 : tokenMatches(f, s, i)
    ELSE Len(f) = Len(s) /\ \A i \in DOMAIN f : tokenMatches(f, s, i)

\* NewRegistry and NewWorker accept the settings.
Start(s) == buildRoutes(s.routes) /\ ValidateWorkerConfig(s)

\* Events as features make them, valid in the domain's terms: routed or not, with an
\* identity longer than a header holds or not.
Shapes == {[type |-> "t", version |-> 1, long |-> FALSE],
           [type |-> "t", version |-> 2, long |-> FALSE],
           [type |-> "u", version |-> 1, long |-> FALSE],
           [type |-> "t", version |-> 1, long |-> TRUE]}

Init ==
    /\ setting \in [filter : Filters, dead : DeadLetterSubjects, routes : {"good"}]
                   \cup [filter : {<<"a">>}, dead : {<<"b">>}, routes : RouteLists]
    /\ up = Start(setting)
    /\ event \in [Events -> Shapes]
    /\ streams = [source |-> <<>>, dead |-> <<>>]
    /\ settled = {} /\ handled = {}

-----------------------------------------------------------------------------
(* The envelope *)

\* SchemaForVersion and schemaVersion: a version has one spelling.
SchemaForVersion(n) == <<"v", n>>
schemaVersion(s) == IF s # Bad /\ s[1] = "v" /\ s[2] \in 1 .. 65535 THEN s[2] ELSE 0

validateRequiredValue(v) == v \notin {None, Bad}

\* EventFromDomain, with the subject of the route (routeTable.subject).
EventFromDomain(e) ==
    LET id == IF event[e].long THEN Bad ELSE <<"event", e>>
        k == <<event[e].type, event[e].version>>
    IN  [subject |-> IF k \in DOMAIN Route THEN Route[k] ELSE None, id |-> id, pub |-> id,
         type |-> event[e].type, schema |-> SchemaForVersion(event[e].version),
         created |-> <<"at", e>>, data |-> e, original |-> None, reason |-> None]

identity(v) == <<v.id, v.pub, v.type, v.schema, v.created>>

\* Variant: identities are left to whoever made them.
validateEventSubject(v) == v.subject # None

\* validateEvent: a subject to publish on, and an identity fit for headers.
validateEvent(v) ==
    /\ v.subject # None /\ validPublishSubject(v.subject)
    /\ \A i \in 1 .. 5 : validateRequiredValue(identity(v)[i])

\* decodeMessage accepts the delivery.
decodeMessage(r) == \A i \in 1 .. 5 : validateRequiredValue(identity(r)[i])

\* Variant: the id of the message alone.
streamRecordIDOfMessage(stream, i) == <<stream, 0, streams[stream][i].id>>

\* streamRecordID: stream, sequence (with it the store time) and publication id.
streamRecordID(stream, i) == <<stream, i, streams[stream][i].pub>>

\* A stream stores one record per publication id.
Store(stream, r) ==
    LET stored == streams[stream]
        known == r.pub \notin {None, Bad} /\ \E i \in DOMAIN stored : stored[i].pub = r.pub
    IN  /\ known \/ Len(stored) < MaxRecords
        /\ streams' = IF known THEN streams ELSE [streams EXCEPT ![stream] = Append(@, r)]

-----------------------------------------------------------------------------
(* Actions *)

\* Publisher.Publish and Producer.Publish, as often as the caller likes, with or without
\* an answer.  What is not valid or not routed stores nothing.
Publish(e) ==
    /\ up
    /\ validateEvent(EventFromDomain(e))
    /\ Store("source", EventFromDomain(e))
    /\ UNCHANGED <<setting, up, event, settled, handled>>

\* Another publisher's message: well formed but for one header, or of a kind, schema or
\* subject this service does not handle.
Oddities == ({"id", "pub", "type", "schema", "created"} \X {None, Bad})
            \cup {<<"type", "u">>, <<"schema", <<"v", 0>>>>, <<"schema", <<"w", 1>>>>, <<"subject", <<"b">>>>}
Intrude(s, odd) ==
    /\ up
    /\ \A i \in DOMAIN streams.source : streams.source[i].data # s
    /\ Store("source", [[subject |-> <<"a">>, id |-> <<"event", s>>, pub |-> <<"event", s>>, type |-> "t",
                         schema |-> SchemaForVersion(1), created |-> <<"at", s>>, data |-> s,
                         original |-> None, reason |-> None] EXCEPT ![odd[1]] = odd[2]])
    /\ UNCHANGED <<setting, up, event, settled, handled>>

\* What Registry.Handler passes to the typed handler, if it calls one.
dispatch(r) ==
    LET k == <<r.type, schemaVersion(r.schema)>>
    IN  IF k \in eventHandlers /\ r.subject = Route[k]
        THEN [id |-> r.id, type |-> k[1], version |-> k[2], at |-> r.created, data |-> r.data]
        ELSE None

\* deadLetterMessage: the publisher's headers that are there, the origin, and an id.
deadLetterMessage(i, reason) ==
    LET r == streams.source[i]
        transferID == streamRecordID("source", i)
    IN  [r EXCEPT !.subject = setting.dead, !.original = r.subject, !.reason = reason,
                  !.pub = transferID, !.id = IF r.id = None THEN transferID ELSE r.id]

\* handle, settle and deadLetter for source record i, at any of its deliveries: nothing
\* says a record whose answer was lost meets the same end again.
Deliver(i) ==
    LET r == streams.source[i] IN
    /\ i \notin settled /\ Delivers(setting.filter, r.subject)
    /\ IF decodeMessage(r) /\ dispatch(r) # None
       THEN /\ handled' = handled \cup {<<i, dispatch(r)>>}
            /\ \/ UNCHANGED streams /\ settled' \in {settled, settled \cup {i}}
               \/ \E reason \in {"permanent", "exhausted"} :
                     /\ Store("dead", deadLetterMessage(i, reason))
                     /\ settled' \in {settled, settled \cup {i}}
       ELSE /\ Store("dead", deadLetterMessage(i, IF decodeMessage(r) THEN "permanent" ELSE "malformed"))
            /\ settled' \in {settled, settled \cup {i}}
            /\ UNCHANGED handled
    /\ UNCHANGED <<setting, up, event>>

\* RestoreDeadLetter.
RestoreDeadLetter(j) ==
    LET r == streams.dead[j]
    IN  [r EXCEPT !.subject = r.original, !.pub = streamRecordID("dead", j),
                  !.original = None, !.reason = None]

\* An operator restores record j and publishes it, now or again.
Redrive(j) ==
    /\ validateEvent(RestoreDeadLetter(j))
    /\ Store("source", RestoreDeadLetter(j))
    /\ UNCHANGED <<setting, up, event, settled, handled>>

Next ==
    \/ \E e \in Events : Publish(e)
    \/ \E s \in Strangers, odd \in Oddities : Intrude(s, odd)
    \/ \E i \in DOMAIN streams.source : Deliver(i)
    \/ \E j \in DOMAIN streams.dead : Redrive(j)

Spec == Init /\ [][Next]_vars

-----------------------------------------------------------------------------
(* Properties *)

\* WireIsFaithful: an event of this service that reached its stream decodes there, and
\* whatever was lost, repeated, dead-lettered and restored since, it is on its own subject
\* with the identity, kind, time and payload it was made with; a typed handler is called
\* with nothing else (EventFromDomain, deadLetterMessage, RestoreDeadLetter, Handler).
WireIsFaithful ==
    /\ \A i \in DOMAIN streams.source :
         LET r == streams.source[i] IN
         r.data \in Events => decodeMessage(r) /\ [r EXCEPT !.pub = <<"event", r.data>>] = EventFromDomain(r.data)
    /\ \A h \in handled :
         h[2].data \in Events =>
           /\ h[2].id = <<"event", h[2].data>> /\ h[2].at = <<"at", h[2].data>>
           /\ <<h[2].type, h[2].version>> = <<event[h[2].data].type, event[h[2].data].version>>

\* MovedOnce: a delivery that is given up is one record of the dead-letter stream, and each
\* of those comes back as at most one record, however often a move is repeated; a record
\* that fails again after it came back is a new one and is not taken for the old; and a
\* worker never receives what it dead-letters (streamRecordID, ValidateWorkerConfig).
MovedOnce ==
    LET of(stream, d) == {i \in DOMAIN streams[stream] : streams[stream][i].data = d}
        givenUp == {i \in settled : \A h \in handled : h[1] # i}
    IN  /\ \A d \in Events \cup Strangers :
             /\ Cardinality(of("dead", d)) <= Cardinality(of("source", d))
             /\ Cardinality(of("source", d)) <= 1 + Cardinality(of("dead", d))
             /\ Cardinality(of("source", d) \cap givenUp) <= Cardinality(of("dead", d))
        /\ \A j \in DOMAIN streams.dead : ~Delivers(setting.filter, streams.dead[j].subject)

\* MalformedStaysDead: RestoreDeadLetter's comment says a record dead-lettered as malformed
\* does not come back.
MalformedStaysDead ==
    \A j \in DOMAIN streams.dead : streams.dead[j].reason = "malformed" => ~validateEvent(RestoreDeadLetter(j))

=============================================================================
