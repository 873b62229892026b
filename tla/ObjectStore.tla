------------------------------- MODULE ObjectStore -------------------------------
(***************************************************************************)
(* internal/objectstorage and internal/infra/s3: calls of one client on    *)
(* one key.  The provider and the SDK's retries are external: a request    *)
(* may be applied and its answer lost, the retry meets what the first      *)
(* attempt left, and other writers use the key.                            *)
(***************************************************************************)
EXTENDS Naturals, FiniteSets

CONSTANTS
    Calls,        \* calls of the client
    Slots,        \* maximumActiveOperations
    PartBytes,    \* multipartPartBytes
    MaxParts,     \* maximumUploadParts
    MaxAttempts,  \* attempts of the SDK's retryer
    None

MaxBytes == PartBytes * MaxParts

\* Sizes around every limit.
Sizes == {PartBytes, PartBytes + 1, MaxBytes, MaxBytes + 1}

VARIABLES
    built,     \* New returned a client
    limit,     \* Config.MaxObjectBytes of the client
    call,      \* call[c]: operation, declared size, IfNotExists
    at,        \* at[c]: "idle", "sent", "answered", "body", "done"
    canceled,  \* canceled[c]: its context is done
    attempts,  \* attempts[c]: requests the SDK has sent
    answer,    \* answer[c]: what the last one brought
    whole,     \* whole[c]: the body will deliver the object as stored
    res,       \* res[c]: what the call, or the last Read of its body, returned
    tokens,    \* len(Client.tokens)
    object,    \* the call whose upload is stored under the key, "other", or None
    applied,   \* applied[c]: c changed the key
    taken      \* taken[c]: while c, a create, ran, the key held an object that c had not uploaded

vars == <<built, limit, call, at, canceled, attempts, answer, whole, res, tokens, object,
          applied, taken>>

Configs == [provider : {"amazon", "r2", "unknown"}, endpoint : BOOLEAN, region : {"aws", "auto"},
            owner : BOOLEAN, static : BOOLEAN, keys : BOOLEAN, max : {0, 1, MaxBytes, MaxBytes + 1}]

Requests ==
    [op : {"upload"}, size : Sizes, create : BOOLEAN]
    \cup [op : {"download", "metadata", "delete"}, size : {0}, create : {FALSE}]

\* Variant: the largest object is compared with the wrong limit.
validateAnyMax(c) == c.max > 0

\* Config.validate: the size limit, and one coherent tuple per provider.
validate(c) ==
    /\ c.max > 0 /\ c.max <= MaxBytes
    /\ \/ c.provider = "amazon" /\ ~c.endpoint /\ c.region = "aws" /\ c.owner
       \/ c.provider = "r2" /\ c.endpoint /\ c.region = "auto" /\ ~c.owner /\ c.static

\* New: static credentials must be in the environment.
New(c) == validate(c) /\ (c.static => c.keys)

\* The configurations looked at: one that is right for its provider, and those that
\* differ from it in one field.
Amazon == [provider |-> "amazon", endpoint |-> FALSE, region |-> "aws", owner |-> TRUE,
           static |-> FALSE, keys |-> FALSE, max |-> MaxBytes]
R2 == [provider |-> "r2", endpoint |-> TRUE, region |-> "auto", owner |-> FALSE,
       static |-> TRUE, keys |-> TRUE, max |-> MaxBytes]
Near == {c \in Configs : \E d \in {Amazon, R2} :
           Cardinality({f \in DOMAIN c : c[f] # d[f]}) <= 1}

Init ==
    /\ \E c \in Near : built = New(c) /\ limit = IF New(c) THEN c.max ELSE 0
    /\ call \in [Calls -> Requests]
    /\ at = [c \in Calls |-> "idle"]
    /\ canceled = [c \in Calls |-> FALSE]
    /\ attempts = [c \in Calls |-> 0]
    /\ answer = [c \in Calls |-> None]
    /\ whole = [c \in Calls |-> FALSE]
    /\ res = [c \in Calls |-> None]
    /\ tokens = 0
    /\ object \in {None, "other"}
    /\ applied = [c \in Calls |-> FALSE]
    /\ taken = [c \in Calls |-> FALSE]

\* validateCall and validateUpload, then the first check of acquire.
refusal(c) ==
    IF canceled[c] THEN "canceled"
    ELSE IF call[c].size > limit THEN "too large"
    ELSE IF call[c].create /\ call[c].size > PartBytes THEN "invalid"
    ELSE None

Finish(c, r) ==
    /\ at' = [at EXCEPT ![c] = "done"]
    /\ res' = [res EXCEPT ![c] = r]

\* A call is refused, finds every slot taken, or is admitted (acquire).
Call(c) ==
    /\ built /\ at[c] = "idle"
    /\ \/ refusal(c) # None /\ Finish(c, refusal(c)) /\ UNCHANGED <<tokens, taken>>
       \/ refusal(c) = None /\ tokens = Slots /\ Finish(c, "busy") /\ UNCHANGED <<tokens, taken>>
       \/ /\ refusal(c) = None /\ tokens < Slots
          /\ tokens' = tokens + 1
          /\ at' = [at EXCEPT ![c] = "sent"]
          /\ taken' = [taken EXCEPT ![c] = call[c].create /\ object # None]
          /\ UNCHANGED res
    /\ UNCHANGED <<built, limit, call, canceled, attempts, answer, whole, object, applied>>

\* The key changes: every create under way has seen it taken if another ever takes it.
Store(o) ==
    /\ object' = o
    /\ taken' = [c \in Calls |-> taken[c] \/ (call[c].create /\ at[c] = "sent" /\ o \notin {None, c})]

\* What the provider does with a request.
Effect(c) ==
    \/ /\ call[c].op = "upload" /\ ~(call[c].create /\ object # None)
       /\ Store(c) /\ applied' = [applied EXCEPT ![c] = TRUE]
    \/ /\ call[c].op = "delete"
       /\ Store(None) /\ applied' = [applied EXCEPT ![c] = TRUE]
    \/ /\ call[c].op \in {"download", "metadata"} \/ (call[c].create /\ object # None)
       /\ UNCHANGED <<object, applied, taken>>

\* And what it answers: uploads may come back without a full-object checksum.
Answers(c) ==
    IF call[c].op = "upload" /\ call[c].create /\ object # None THEN {"precondition"}
    ELSE IF call[c].op \in {"download", "metadata"} /\ object = None THEN {"no such key"}
    ELSE IF call[c].op \in {"download", "metadata"}
         THEN {"ok"} \cup (IF limit < MaxBytes THEN {"larger"} ELSE {})
                     \cup (IF call[c].op = "download" THEN {"no checksum"} ELSE {})
    ELSE IF call[c].op = "upload" THEN {"ok", "no checksum"} ELSE {"ok"}

\* The provider serves a request; the answer arrives or is lost.
Serve(c) ==
    /\ at[c] = "sent" /\ attempts[c] < MaxAttempts
    /\ attempts' = [attempts EXCEPT ![c] = @ + 1]
    /\ Effect(c)
    /\ \/ /\ \E a \in Answers(c) : answer' = [answer EXCEPT ![c] = a]
          /\ at' = [at EXCEPT ![c] = "answered"]
       \/ UNCHANGED <<answer, at>>
    /\ UNCHANGED <<built, limit, call, canceled, whole, res, tokens>>

\* The SDK gives up: its attempts are spent, or the context is done.
GiveUp(c) ==
    /\ at[c] = "sent"
    /\ attempts[c] = MaxAttempts \/ canceled[c]
    /\ at' = [at EXCEPT ![c] = "answered"]
    /\ answer' = [answer EXCEPT ![c] = "failed"]
    /\ UNCHANGED <<built, limit, call, canceled, attempts, whole, res, tokens, object, applied, taken>>

\* Variant: a done context is reported before the outcome is known.
mutationErrorAsRead(c) ==
    IF canceled[c] THEN "canceled"
    ELSE IF answer[c] = "precondition" THEN "exists" ELSE "unknown"

\* mutationError.
mutationError(c) == IF answer[c] = "precondition" THEN "exists" ELSE "unknown"

\* readError.
readError(c) ==
    IF canceled[c] THEN "canceled"
    ELSE IF answer[c] = "no such key" THEN "not found" ELSE "request failed"

\* Client.metadata refuses an object above the client's own limit.
metadata(c) == IF answer[c] = "larger" THEN "too large" ELSE "ok"

\* What Upload, Metadata and Delete return.
uploaded(c) ==
    IF answer[c] = "ok" THEN "ok" ELSE IF answer[c] = "no checksum" THEN "integrity" ELSE mutationError(c)
inspected(c) == IF answer[c] \in {"ok", "larger"} THEN metadata(c) ELSE readError(c)
deleted(c) == IF answer[c] = "ok" THEN "ok" ELSE mutationError(c)

\* They return; the deferred release gives the slot back.
Return(c) ==
    /\ at[c] = "answered" /\ call[c].op # "download"
    /\ tokens' = tokens - 1
    /\ Finish(c, CASE call[c].op = "upload" -> uploaded(c)
                   [] call[c].op = "metadata" -> inspected(c)
                   [] call[c].op = "delete" -> deleted(c))
    /\ UNCHANGED <<built, limit, call, canceled, attempts, answer, whole, object, applied, taken>>

\* Download: the body takes the slot over, unless the response is refused.
Open(c) ==
    /\ at[c] = "answered" /\ call[c].op = "download"
    /\ \/ /\ answer[c] = "ok"
          /\ at' = [at EXCEPT ![c] = "body"]
          /\ \E w \in BOOLEAN : whole' = [whole EXCEPT ![c] = w]
          /\ UNCHANGED <<res, tokens>>
       \/ /\ answer[c] # "ok"
          /\ tokens' = tokens - 1
          /\ Finish(c, IF answer[c] = "no checksum" THEN "integrity"
                       ELSE IF answer[c] = "larger" THEN metadata(c) ELSE readError(c))
          /\ UNCHANGED whole
    /\ UNCHANGED <<built, limit, call, canceled, attempts, answer, object, applied, taken>>

\* Variant: the slot is given back by every finish.
ReleaseAlways(c) == tokens' = IF tokens > 0 THEN tokens - 1 ELSE 0

\* finish runs once: the first of EOF, a failed Read and Close gives the slot back.
Release(c) == tokens' = IF res[c] = None THEN tokens - 1 ELSE tokens

\* Variant: a Read that fails ends like a complete one.
readEndsQuietly(c) == "eof"

\* downloadBody.Read at the end of the stream: EOF only after the SDK has verified the
\* checksum of the whole object.
readEnds(c) == IF canceled[c] THEN "canceled" ELSE IF whole[c] THEN "eof" ELSE "integrity"

\* A Read of a body that finish has closed: the SDK's body has an error of its own for it, or,
\* where nothing was left to read, may say EOF.
readClosed(c) ==
    IF canceled[c] THEN {"canceled"} ELSE {"integrity"} \cup (IF whole[c] THEN {"eof"} ELSE {})

\* The caller has a body, closed or not.
hasBody(c) == call[c].op = "download" /\ answer[c] = "ok" /\ at[c] \in {"body", "done"}

Read(c) ==
    /\ hasBody(c)
    /\ Release(c)
    /\ \E r \in IF res[c] = None THEN {readEnds(c)} ELSE readClosed(c) : res' = [res EXCEPT ![c] = r]
    /\ UNCHANGED <<built, limit, call, at, canceled, attempts, answer, whole, object, applied, taken>>

\* Close, also of a body that was read to its end.
CloseBody(c) ==
    /\ at[c] = "body"
    /\ Release(c)
    /\ Finish(c, IF res[c] = None THEN "closed" ELSE res[c])
    /\ UNCHANGED <<built, limit, call, canceled, attempts, answer, whole, object, applied, taken>>

Cancel(c) ==
    /\ at[c] # "done" /\ ~canceled[c]
    /\ canceled' = [canceled EXCEPT ![c] = TRUE]
    /\ UNCHANGED <<built, limit, call, at, attempts, answer, whole, res, tokens, object, applied, taken>>

\* Another writer of the key.
Other ==
    /\ built /\ \E c \in Calls : at[c] # "done"
    /\ \E o \in {None, "other"} \ {object} : Store(o)
    /\ UNCHANGED <<built, limit, call, at, canceled, attempts, answer, whole, res, tokens, applied>>

Done == (~built \/ \A c \in Calls : at[c] = "done") /\ UNCHANGED vars

Next ==
    \/ \E c \in Calls : Call(c) \/ Serve(c) \/ GiveUp(c) \/ Return(c) \/ Open(c) \/ Read(c)
                        \/ CloseBody(c) \/ Cancel(c)
    \/ Other
    \/ Done

Spec == Init /\ [][Next]_vars

-----------------------------------------------------------------------------
(* Properties *)

\* holds(c): c occupies a slot.
holds(c) == at[c] \in {"sent", "answered"} \/ (at[c] = "body" /\ res[c] = None)

\* SlotsAreExact: the semaphore counts exactly the calls under way and the bodies that
\* were neither read to their end nor closed, through retries, cancellations and double
\* closes (acquire, downloadBody.finish).
SlotsAreExact == tokens = Cardinality({c \in Calls : holds(c)}) /\ tokens <= Slots

\* OutcomeIsTrue: success means the key was changed; a call that is told that nothing was
\* done did nothing, also when its context ended after the provider had applied it; a key
\* reported as taken was taken by another writer, or by an attempt of the call itself whose
\* answer was lost; and a body that ends without an error delivered the object.
OutcomeIsTrue ==
    \A c \in Calls :
      /\ res[c] = "ok" /\ call[c].op \in {"upload", "delete"} => applied[c]
      /\ res[c] \in {"canceled", "invalid", "too large", "busy", "not found"} => ~applied[c]
      /\ res[c] = "exists" => call[c].create /\ (taken[c] \/ (applied[c] /\ attempts[c] > 1))
      /\ res[c] = "eof" => whole[c]

\* FitsParts: an upload of a client that New built never needs more parts than the
\* provider takes (validate, validateUpload, configureTransfer).
FitsParts == \A c \in Calls : at[c] = "sent" => call[c].size <= PartBytes * MaxParts

=============================================================================
