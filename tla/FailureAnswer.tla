----------------------------- MODULE FailureAnswer -----------------------------
(***************************************************************************)
(* What a failed call is answered with: the error a handler returns crosses *)
(* RejectResponse on HTTP; on gRPC it crosses the handler's boundary, the   *)
(* service's own policy interceptor, the policy's boundary and recovery     *)
(* (internal/failure, internal/problem, internal/infra/grpc/status.go,      *)
(* chain.go, interceptor_validation.go, internal/infra/http/domain_errors). *)
(*                                                                         *)
(* An error is the sequence of its layers, outermost first; nil is empty.   *)
(* Of a text only its author is kept.  A delay counts half seconds.         *)
(***************************************************************************)
EXTENDS Integers, Sequences, FiniteSets

CONSTANTS
    Delays,                  \* the retry delays a mapper may name
    ClassChainDepth,         \* classChainDepth
    MaxValidationViolations  \* maxValidationViolations

VARIABLES
    transport,  \* "http", "unary", "stream" or "health", a call of the standard health service
    mappers,    \* the domain error mappers, in order
    at,         \* where the call is in its chain
    err,        \* the error on its way out
    received,   \* what RecvMsg of the validated stream returned
    raised,     \* the error the handler returned
    policy,     \* what the policy interceptor did: "none" so far, "passed" or "changed" the error
    records,    \* the chains of the unhandled failures and panics that were logged
    answer      \* the status or problem the caller gets

vars == <<transport, mappers, at, err, received, raised, policy, records, answer>>

\* failure.AllCodes
AllCodes ==
    {"bad_request", "unauthorized", "forbidden", "not_found", "method_not_allowed",
     "already_exists", "request_entity_too_large", "request_header_fields_too_large",
     "unprocessable_content", "too_many_requests", "idempotency_key_mismatch",
     "idempotency_unavailable", "idempotency_outcome_unknown", "internal_error",
     "service_unavailable", "gateway_timeout"}

\* The problem catalog: the HTTP status of each code it defines.
catalog ==
    [c \in AllCodes \cup {"conflict"} |->
       CASE c = "bad_request" -> 400
         [] c = "unauthorized" -> 401
         [] c = "forbidden" -> 403
         [] c = "not_found" -> 404
         [] c = "method_not_allowed" -> 405
         [] c \in {"conflict", "already_exists"} -> 409
         [] c = "request_entity_too_large" -> 413
         [] c \in {"unprocessable_content", "idempotency_key_mismatch"} -> 422
         [] c = "too_many_requests" -> 429
         [] c = "request_header_fields_too_large" -> 431
         [] c = "internal_error" -> 500
         [] c \in {"service_unavailable", "idempotency_unavailable",
                   "idempotency_outcome_unknown"} -> 503
         [] c = "gateway_timeout" -> 504]

\* problem.ForCodeOrInternal: the code a problem is published under.
ForCodeOrInternal(code) == IF code \in DOMAIN catalog THEN code ELSE "internal_error"

\* Variant: the idempotency codes fall through to the default.
grpcCodeDefaults(code) ==
    CASE code \in {"bad_request", "unprocessable_content"} -> "InvalidArgument"
      [] code = "unauthorized" -> "Unauthenticated"
      [] code = "forbidden" -> "PermissionDenied"
      [] code = "not_found" -> "NotFound"
      [] code = "method_not_allowed" -> "Unimplemented"
      [] code = "already_exists" -> "AlreadyExists"
      [] code \in {"request_entity_too_large", "too_many_requests",
                   "request_header_fields_too_large"} -> "ResourceExhausted"
      [] code = "service_unavailable" -> "Unavailable"
      [] code = "gateway_timeout" -> "DeadlineExceeded"
      [] OTHER -> "Internal"

grpcCode(code) ==
    CASE code \in {"bad_request", "unprocessable_content", "idempotency_key_mismatch"} ->
           "InvalidArgument"
      [] code = "unauthorized" -> "Unauthenticated"
      [] code = "forbidden" -> "PermissionDenied"
      [] code = "not_found" -> "NotFound"
      [] code = "method_not_allowed" -> "Unimplemented"
      [] code = "already_exists" -> "AlreadyExists"
      [] code \in {"request_entity_too_large", "too_many_requests",
                   "request_header_fields_too_large"} -> "ResourceExhausted"
      [] code \in {"service_unavailable", "idempotency_unavailable",
                   "idempotency_outcome_unknown"} -> "Unavailable"
      [] code = "gateway_timeout" -> "DeadlineExceeded"
      [] OTHER -> "Internal"

-----------------------------------------------------------------------------
(* Statuses and errors *)

\* text: who wrote what the caller reads: "sanitized" is failure.SanitizedDetail, "repository" a
\* constant, "mapper" a classification's detail, "policy", "handler" and "library" their own.
Status(code, text) == [code |-> code, text |-> text, retry |-> 0, violations |-> <<>>]

Layer(kind, status) == [kind |-> kind, status |-> status]
Plain(kind) == Layer(kind, Status("OK", "none"))

\* ownedStatus
ownedStatus(code, text) == <<Layer("owned", Status(code, text))>>

\* errors.Is and errors.AsType: any layer, a join's included.
has(e, kind) == \E i \in DOMAIN e : e[i].kind = kind

\* Variant: a status anywhere in the chain.
directStatusWrapped(e) == has(e, "status") \/ has(e, "owned")

\* directStatus: only the error itself, never one it wraps.
directStatus(e) == e # <<>> /\ e[1].kind \in {"status", "owned"}

\* status.FromError of grpc-go: a wrapped status keeps its code and takes the text of the whole
\* error; an error without one is Unknown.
sent(e) ==
    LET found == {i \in DOMAIN e : e[i].kind \in {"status", "owned"}}
    IN IF e = <<>> THEN Status("OK", "none")
       ELSE IF 1 \in found THEN e[1].status
       ELSE IF found = {} THEN Status("Unknown", "handler")
       ELSE [e[CHOOSE i \in found : \A j \in found : i <= j].status EXCEPT !.text = "handler"]

\* Variant: errors.As looks past the layer, so an outer one takes the name of an inner step.
chainLinkAs(e) == IF has(e, "op") THEN "op" ELSE e[1].kind

\* chainLink: the name of an Op, the type of any other layer.
chainLink(e) == e[1].kind

\* The layers errors.Unwrap visits; it ends at a join.
walk(e) ==
    LET stops == {i \in DOMAIN e : e[i].kind = "join"}
        last == IF stops = {} THEN Len(e) ELSE CHOOSE i \in stops : \A j \in stops : i <= j
    IN SubSeq(e, 1, last)

\* ClassChain
ClassChain(e) ==
    LET visited == walk(e)
        depth == IF Len(visited) < ClassChainDepth THEN Len(visited) ELSE ClassChainDepth
    IN [i \in 1..depth |-> chainLink(SubSeq(visited, i, Len(visited)))]
         \o (IF depth < Len(visited) THEN <<"...">> ELSE <<>>)

-----------------------------------------------------------------------------
(* Classification *)

\* A failure.Mapper: the errors it claims, and the classification it gives them.
Mapper(claims, code, text, retry) ==
    [nil |-> FALSE, claims |-> claims, code |-> code, text |-> text, retry |-> retry]
NilMapper == [Mapper({}, "internal_error", "none", 0) EXCEPT !.nil = TRUE]

Greedy == {"missing", "canceled", "deadline", "dependency", "status"}

\* The lists a service may hand over: none; one mapper behind a nil entry, of any code, with any
\* delay, or that claims more than its own error; and one of an unpublished code before another.
MapperLists ==
    {<<>>, <<Mapper({"missing"}, "teapot", "mapper", 0), Mapper({"missing"}, "not_found", "mapper", 0)>>}
      \cup {<<NilMapper, Mapper({"missing"}, c, "mapper", 0)>> : c \in AllCodes}
      \cup {<<NilMapper, Mapper({"missing"}, "service_unavailable", "mapper", d)>> : d \in Delays}
      \cup {<<NilMapper, Mapper(claims, "not_found", "none", 0)>> : claims \in {{"missing"}, Greedy}}

\* The first mapper that claims e, or 0.
claimant(e) ==
    LET claiming == {i \in DOMAIN mappers : ~mappers[i].nil /\ \E k \in mappers[i].claims : has(e, k)}
    IN IF claiming = {} THEN 0 ELSE CHOOSE i \in claiming : \A j \in claiming : i <= j

\* Variant: the code of a match is not looked up.
ClassifyAnyCode(e) == claimant(e) # 0

\* Classify: whether e is classified; an unpublished match fails closed.
Classify(e) == claimant(e) # 0 /\ mappers[claimant(e)].code \in AllCodes

classification(e) == mappers[claimant(e)]

-----------------------------------------------------------------------------
(* HTTP *)

\* retryAfterSeconds, of a delay in half seconds: up, and never zero.
retryAfterSeconds(delay) == LET up == (delay + 1) \div 2 IN IF up < 1 THEN 1 ELSE up

\* writeProblem; an empty detail is left out.
Problem(code, text, retry) ==
    [code |-> ForCodeOrInternal(code), status |-> catalog[ForCodeOrInternal(code)], text |-> text,
     retry |-> IF retry > 0 THEN retryAfterSeconds(retry) ELSE 0]

contextFailure(e) == has(e, "deadline") \/ has(e, "canceled")

\* RejectResponse
RejectResponse(e) ==
    IF contextFailure(e) THEN Problem("gateway_timeout", "repository", 0)
    ELSE IF Classify(e)
    THEN Problem(classification(e).code, classification(e).text, classification(e).retry)
    ELSE Problem("internal_error", "sanitized", 0)

-----------------------------------------------------------------------------
(* gRPC *)

\* mapContextError: the status of an ended context.
mapContextError(e) ==
    IF has(e, "canceled") THEN ownedStatus("Canceled", "repository")
    ELSE ownedStatus("DeadlineExceeded", "repository")

\* classifiedDetails: the delay the mapper asked for; a method always has a domain.
classifiedDetails(c) == [retry |-> IF c.retry > 0 THEN c.retry ELSE 0]

\* mappedStatus
mappedStatus(c) ==
    <<Layer("owned", [Status(grpcCode(c.code), IF c.text = "none" THEN "sanitized" ELSE c.text)
                        EXCEPT !.retry = classifiedDetails(c).retry])>>

\* The owned status of a chain that holds one.
ownedLayer(e) ==
    LET found == {i \in DOMAIN e : e[i].kind = "owned"}
    IN <<e[CHOOSE i \in found : \A j \in found : i <= j]>>

\* The forward-compatible answer of a generated method nobody implements.
unimplemented(e) == directStatus(e) /\ e[1].status.code = "Unimplemented"

\* Variant: a status of this repository that a handler wrapped is not looked for.
mapHandlerErrorDirect(e) ==
    IF e = <<>> THEN e
    ELSE IF contextFailure(e) THEN mapContextError(e)
    ELSE IF e[1].kind = "owned" THEN e
    ELSE IF unimplemented(e) THEN ownedStatus("Unimplemented", "repository")
    ELSE IF Classify(e) THEN mappedStatus(classification(e))
    ELSE ownedStatus("Internal", "sanitized")

\* mapHandlerError
mapHandlerError(e) ==
    IF e = <<>> THEN e
    ELSE IF contextFailure(e) THEN mapContextError(e)
    ELSE IF has(e, "owned") THEN ownedLayer(e)
    ELSE IF unimplemented(e) THEN ownedStatus("Unimplemented", "repository")
    ELSE IF Classify(e) THEN mappedStatus(classification(e))
    ELSE ownedStatus("Internal", "sanitized")

\* mapPolicyError
mapPolicyError(e) ==
    IF e = <<>> THEN e
    ELSE IF contextFailure(e) THEN mapContextError(e)
    ELSE IF directStatus(e) THEN e
    ELSE ownedStatus("Internal", "sanitized")

\* What mapHandlerError and mapPolicyError report as sanitized.
handlerSanitizes(e) ==
    e # <<>> /\ ~contextFailure(e) /\ ~has(e, "owned") /\ ~unimplemented(e) /\ ~Classify(e)
policySanitizes(e) == e # <<>> /\ ~contextFailure(e) /\ ~directStatus(e)

\* recordUnhandledFailure
recordUnhandledFailure(e) == Append(records, ClassChain(e))

\* Variant: what protovalidate reports is passed on as it is.
publicValidationViolationsRaw(n) == [i \in 1..n |-> [message |-> "request", subscript |-> "request"]]

\* publicValidationViolations of n violations: the first few, without the request's values.
publicValidationViolations(n) ==
    [i \in 1..(IF n < MaxValidationViolations THEN n ELSE MaxValidationViolations) |->
       [message |-> "cleared", subscript |-> "cleared"]]

\* validateMessage: the error, and the record of a failure that is not the caller's.
Verdicts ==
    {[err |-> <<>>, fault |-> <<>>]}
      \cup {[err |-> ownedStatus("Internal", "sanitized"), fault |-> <<Plain(k)>>] :
              k \in {"not a message", "validator"}}
      \cup {[err |-> <<Layer("owned", [Status("InvalidArgument", "repository") EXCEPT
                                         !.violations = publicValidationViolations(n)])>>,
             fault |-> <<>>] : n \in {1, MaxValidationViolations + 1}}
      \cup {[err |-> ownedStatus("InvalidArgument", "repository"), fault |-> <<Plain("details")>>]}

validateMessage(v) == IF v.fault = <<>> THEN records ELSE recordUnhandledFailure(v.fault)

-----------------------------------------------------------------------------
(* The errors of a handler and of a policy *)

\* failure.Op
Op(e) == IF e = <<>> THEN e ELSE <<Plain("op")>> \o e
Wrap(e) == <<Plain("wrap")>> \o e
Join(e, f) == <<Plain("join")>> \o e \o f

Causes ==
    {<<Plain(k)>> : k \in {"canceled", "deadline", "missing", "dependency"}}
      \cup {<<Layer("status", Status(c, "handler"))>> : c \in {"Unimplemented", "NotFound"}}

\* What a handler returns: a cause, one it wrapped or named the step of, two that it joined, or
\* what the stream gave it, as it is or wrapped.
HandlerErrors ==
    {<<>>} \cup Causes
      \cup {Wrap(c) : c \in Causes} \cup {Op(c) : c \in Causes}
      \cup {Join(c, <<Plain(k)>>) : c \in Causes, k \in {"deadline", "dependency"}}
      \cup {Wrap(Op(<<Plain("dependency")>>)), Op(Wrap(<<Plain("dependency")>>)),
            Op(Wrap(Op(<<Plain("dependency")>>)))}
      \cup {received} \cup (IF received = <<>> THEN {} ELSE {Wrap(received), Op(received)})

PolicyErrors ==
    {<<Layer("status", Status("PermissionDenied", "policy"))>>, <<Plain("dependency")>>,
     Wrap(<<Plain("deadline")>>)}

-----------------------------------------------------------------------------
(* A call *)

Init ==
    /\ transport \in {"http", "unary", "stream", "health"}
    /\ mappers \in MapperLists
    /\ transport = "health" => mappers = <<>>
    /\ at = IF transport = "http" THEN "handler" ELSE "policy"
    /\ err = <<>> /\ received = <<>> /\ raised = <<>>
    /\ policy = "none"
    /\ records = <<>>
    /\ answer = Status("OK", "none")

\* The policy interceptor refuses the call before the handler, or lets it go on.
PolicyEnters ==
    /\ at = "policy"
    /\ \/ /\ \E e \in PolicyErrors : err' = e
          /\ at' = "policy boundary" /\ policy' = "changed"
       \/ /\ at' = "validate" /\ UNCHANGED <<err, policy>>
    /\ UNCHANGED <<transport, mappers, received, raised, records, answer>>

\* validationUnaryInterceptor answers an invalid request itself; the stream's is validated as it
\* is received, and the health service's not at all.
Validate ==
    /\ at = "validate"
    /\ IF transport = "unary"
       THEN \E v \in Verdicts :
              /\ err' = v.err /\ records' = validateMessage(v)
              /\ at' = IF v.err = <<>> THEN "handler" ELSE "policy returns"
       ELSE at' = "handler" /\ UNCHANGED <<err, records>>
    /\ UNCHANGED <<transport, mappers, received, raised, policy, answer>>

\* RecvMsg of the validating stream: the transport's own error, or the message's verdict.
RecvMsg ==
    /\ at = "handler" /\ transport = "stream" /\ received = <<>>
    /\ \/ /\ received' = <<Layer("status", Status("Canceled", "library"))>> /\ UNCHANGED records
       \/ \E v \in Verdicts : received' = v.err /\ records' = validateMessage(v)
    /\ UNCHANGED <<transport, mappers, at, err, raised, policy, answer>>

HandlerReturns ==
    /\ at = "handler"
    /\ \E e \in (IF transport = "health"
                 THEN {<<>>, <<Layer("status", Status("NotFound", "library"))>>}
                 ELSE HandlerErrors) : err' = e /\ raised' = e
    /\ at' = IF transport = "http" THEN "reject" ELSE "handler boundary"
    /\ UNCHANGED <<transport, mappers, received, policy, records, answer>>

\* RejectResponse, and recordUnhandledResponseError for what it cannot classify.
Reject ==
    /\ at = "reject"
    /\ at' = "done"
    /\ IF err = <<>> THEN UNCHANGED <<records, answer>>
       ELSE /\ answer' = RejectResponse(err)
            /\ records' = IF contextFailure(err) \/ Classify(err) THEN records
                          ELSE recordUnhandledFailure(err)
    /\ UNCHANGED <<transport, mappers, err, received, raised, policy>>

handlerErrorBoundary ==
    /\ at = "handler boundary"
    /\ at' = "policy returns"
    /\ IF transport = "health" THEN UNCHANGED <<err, records>>
       ELSE /\ err' = mapHandlerError(err)
            /\ records' = IF handlerSanitizes(err) THEN recordUnhandledFailure(err) ELSE records
    /\ UNCHANGED <<transport, mappers, received, raised, policy, answer>>

\* The policy interceptor sees the outcome: it passes it on, wraps it, or answers for itself.
PolicyReturns ==
    /\ at = "policy returns"
    /\ at' = "policy boundary"
    /\ \/ UNCHANGED err /\ policy' = "passed"
       \/ /\ policy' = "changed"
          /\ err' \in PolicyErrors \cup (IF err = <<>> THEN {} ELSE {Wrap(err)})
    /\ UNCHANGED <<transport, mappers, received, raised, records, answer>>

policyErrorBoundary ==
    /\ at = "policy boundary"
    /\ at' = "done"
    /\ answer' = sent(mapPolicyError(err))
    /\ records' = IF policySanitizes(err) THEN recordUnhandledFailure(err) ELSE records
    /\ UNCHANGED <<transport, mappers, err, received, raised, policy>>

\* A panic of the handler or of the policy passes every boundary, up to recoveryAround.
Panics ==
    /\ transport # "http" /\ at \in {"handler", "policy returns"}
    /\ at' = "done"
    /\ answer' = sent(ownedStatus("Internal", "sanitized"))
    /\ records' = Append(records, <<"panic">>)
    /\ policy' = "changed"
    /\ UNCHANGED <<transport, mappers, err, received, raised>>

Next ==
    \/ PolicyEnters \/ Validate \/ RecvMsg \/ HandlerReturns \/ Reject \/ handlerErrorBoundary
    \/ PolicyReturns \/ policyErrorBoundary \/ Panics

Spec == Init /\ [][Next]_vars

-----------------------------------------------------------------------------
(* Properties *)

Answered == at = "done" /\ (answer.text # "none" \/ err # <<>>)

\* TextIsOurs: no caller reads what a handler, a dependency or a request wrote: an answer is a
\* constant of the repository, a mapper's detail, or a status the policy returned by itself
\* (mapHandlerError, mapPolicyError, publicValidationViolations).
TextIsOurs ==
    Answered =>
      /\ answer.text \in {"none", "sanitized", "repository", "mapper"}
                           \cup (IF policy = "changed" THEN {"policy"} ELSE {})
                           \cup (IF transport = "health" THEN {"library"} ELSE {})
      /\ transport # "http" =>
           /\ Len(answer.violations) <= MaxValidationViolations
           /\ \A i \in DOMAIN answer.violations :
                answer.violations[i] = [message |-> "cleared", subscript |-> "cleared"]

named(chain) == Cardinality({i \in DOMAIN chain : chain[i] = "op"})
steps(e) == Cardinality({i \in DOMAIN e : e[i].kind = "op"})

\* FaultIsRecorded: a failure answered as an internal error left a record, one the service chose
\* an answer for left none of its own, and no record names a step more often than it was taken
\* (recordUnhandledFailure, recordUnhandledResponseError, ClassChain).
FaultIsRecorded ==
    Answered =>
      /\ answer.code \in {"Internal", "internal_error"} /\ answer.text = "sanitized" => records # <<>>
      /\ raised # <<>> /\ Classify(raised) /\ ~has(raised, "owned") /\ policy # "changed" =>
           \A i \in DOMAIN records : records[i] # ClassChain(raised)
      /\ \A i \in DOMAIN records :
           /\ Len(records[i]) <= ClassChainDepth + 1
           /\ named(records[i]) <= steps(raised)

ClientCodes == {"InvalidArgument", "Unauthenticated", "PermissionDenied", "NotFound",
                "Unimplemented", "AlreadyExists", "ResourceExhausted"}

\* TransportsAgree: the answer gRPC gives a handler's failure and the one HTTP gives it blame the
\* same side, offer the same retry, and never wait shorter; a classified failure keeps its code
\* (grpcCode, the catalog, retryAfterSeconds).
TransportsAgree ==
    Answered /\ transport \in {"unary", "stream"} /\ policy = "passed" /\ raised # <<>>
      /\ ~has(raised, "owned") /\ ~has(raised, "status") =>
        LET http == RejectResponse(raised)
        IN /\ http.status < 500 <=> answer.code \in ClientCodes
           /\ http.status = 500 <=> answer.code = "Internal"
           /\ http.status = 503 <=> answer.code = "Unavailable"
           /\ http.status = 504 <=> answer.code \in {"DeadlineExceeded", "Canceled"}
           /\ http.retry > 0 <=> answer.retry > 0
           /\ 2 * http.retry \in {answer.retry, answer.retry + 1}
           /\ Classify(raised) /\ ~contextFailure(raised) =>
                http.code = classification(raised).code

\* OwnedSurvives: the verdict on a message of a stream reaches the caller though the handler
\* wrapped it, and an ended context is told as one whatever a mapper claims (ownedStatusError,
\* mapContextError).
OwnedSurvives ==
    Answered /\ transport = "stream" /\ policy = "passed" =>
      /\ has(raised, "owned") /\ ~contextFailure(raised) =>
           answer = received[1].status
      /\ contextFailure(raised) => answer.code \in {"Canceled", "DeadlineExceeded"}

FailureIsHonest == TextIsOurs /\ FaultIsRecorded /\ TransportsAgree /\ OwnedSurvives
=============================================================================
