----------------------------- MODULE BearerAuth -----------------------------
(***************************************************************************)
(* The bearer-token boundary: how an HTTP request or an RPC proves who its *)
(* caller is.  internal/infra/bearerauthn takes the credential off the     *)
(* request, asks one engine for a verdict and bounds a stream by the       *)
(* token's life.  The engine is internal/infra/oidcjwt, with a cached key  *)
(* set that a schedule and unknown key ids refresh, or                     *)
(* internal/infra/oauthintrospection, which asks the provider every time.  *)
(*                                                                         *)
(* A token is its key, its expiry and its one flaw, if it has one; which   *)
(* flaw is chosen when the engine reads the token.  Time is in units of    *)
(* the clock skew both engines allow.                                      *)
(***************************************************************************)
EXTENDS Naturals, Sequences, FiniteSets

CONSTANTS Calls,     \* requests and RPCs under way
          Keys,      \* key ids the provider signs with
          MaxTime,   \* bound: the clock stops here
          None

VARIABLES engine,    \* [kind, strict]: the engine and its token profile
          phase,     \* "new", "up", "failed" or "closed"
          published, \* the key ids the provider publishes now
          keys,      \* the key ids the verifier holds
          allowance, \* whether an unknown key id may trigger a refresh
          now,       \* the clock
          call       \* what each call is and how far it is

vars == <<engine, phase, published, keys, allowance, now, call>>

ClockSkew == 1

Engines == [kind : {"jwt"}, strict : BOOLEAN] \cup [kind : {"introspection"}, strict : {FALSE}]

\* What can be wrong with a JWT: the parser rejects its signature, issuer,
\* audience or start; its claims do not name one caller; or it lacks the type
\* or the claims only the strict RFC 9068 profile asks for.
TokenFlaws == {"none", "parser", "caller", "typ", "thin"}

\* What can be wrong with an introspection answer: it says no (inactive, or
\* another issuer, audience or start), or it is not one object with the
\* members the verdict needs, well-formed and naming a caller.
AnswerFlaws == {"none", "negative", "document", "member"}

\* The credential as it arrives: bearerToken accepts only the last one.
Headers == {"none", "malformed", "oversize", "token"}

Vias == {"http", "unary", "stream", "health"}

\* The schemes of the requirements an OpenAPI operation lists as alternatives: each is one
\* scheme, bearer is among them once at most.
Requirements == {<<"bearer">>, <<"other">>, <<"other", "bearer">>}

NoOp == [dir |-> None, proto |-> TRUE, step |-> "none", edited |-> FALSE]

Idle == [at |-> "idle", via |-> None, schemes |-> <<>>, header |-> "none", carried |-> "none",
         key |-> None, exp |-> 0, flaw |-> "none", canceled |-> FALSE, refreshFailed |-> FALSE,
         verdict |-> None, decided |-> 0, known |-> FALSE, op |-> NoOp, late |-> FALSE, spoiled |-> FALSE]

Init ==
    /\ engine \in Engines
    /\ phase = "new"
    /\ published = {CHOOSE k \in Keys : TRUE}
    /\ keys = {}
    /\ allowance = TRUE
    /\ now = 0
    /\ call = [c \in Calls |-> Idle]

Set(c, r) == call' = [call EXCEPT ![c] = r]

\* There is still something to see.
Busy == \E c \in Calls : call[c].at # "done"

\* A verdict is still to come; afterwards nothing depends on the keys any more,
\* and the bound below stops following them.
Verifying == \E c \in Calls : call[c].at \in {"idle", "asked", "verify", "refresh"}

-----------------------------------------------------------------------------
(***************************************************************************)
(* Starting and stopping.  The JWT engine refuses to start without the     *)
(* issuer's discovery document and a first key set; the other one builds a *)
(* client and asks nothing.                                                *)
(***************************************************************************)
New ==
    /\ phase = "new"
    /\ \/ phase' = "up" /\ keys' = IF engine.kind = "jwt" THEN published ELSE {}
       \/ phase' = "failed" /\ UNCHANGED keys
    /\ UNCHANGED <<engine, published, allowance, now, call>>

\* The schedule fetches the published keys; a failed fetch keeps the old ones.
Scheduled ==
    /\ phase = "up" /\ engine.kind = "jwt" /\ Verifying
    /\ keys' = published
    /\ UNCHANGED <<engine, phase, published, allowance, now, call>>

\* Another caller's unknown key id uses the allowance up; its refresh fetches
\* the published keys or fails.
Elsewhere ==
    /\ phase = "up" /\ engine.kind = "jwt" /\ Verifying /\ allowance
    /\ allowance' = FALSE
    /\ keys' \in {keys, published}
    /\ UNCHANGED <<engine, phase, published, now, call>>

\* The service closes the engine after its servers have ended.
Close ==
    /\ phase = "up"
    /\ \A c \in Calls : call[c].at \in {"idle", "done"}
    /\ phase' = "closed"
    /\ UNCHANGED <<engine, published, keys, allowance, now, call>>

\* The provider rotates: it publishes another key beside the current one, or
\* retires one.
Rotate ==
    /\ engine.kind = "jwt" /\ Verifying
    /\ \E new \in (SUBSET Keys) \ {{}, published} : published' = new
    /\ UNCHANGED <<engine, phase, keys, allowance, now, call>>

\* The cool-down of request-triggered refreshes ends.
Cool ==
    /\ ~allowance /\ Verifying
    /\ allowance' = TRUE
    /\ UNCHANGED <<engine, phase, published, keys, now, call>>

Tick ==
    /\ now < MaxTime /\ phase = "up" /\ Busy
    /\ now' = now + 1
    /\ UNCHANGED <<engine, phase, published, keys, allowance, call>>

-----------------------------------------------------------------------------
(* Verdicts *)

\* The verdict on c, in the state where it is made.
Decided(c, r, verdict, known) ==
    [r EXCEPT !.verdict = verdict, !.decided = now, !.known = known,
              !.at = CASE verdict # "admitted" -> "done"
                       [] r.via = "stream" -> "stream"
                       [] OTHER -> "handler"]

\* The token's expiry, as each engine compares it with the clock.
alive(t) ==
    IF engine.kind = "jwt" THEN now < t.exp + ClockSkew ELSE now =< t.exp + ClockSkew

\* An answer from which the provider's judgement cannot be read.
unusable(flaw) == flaw \in {"document", "member"}

admitResponseLoosely(t) ==
    IF t.flaw = "document" THEN "unavailable"
    ELSE IF t.flaw \in {"negative", "member"} \/ ~alive(t) THEN "invalid" ELSE "admitted"

\* The verdict on a complete answer of the introspection endpoint.
admitResponse(t) ==
    IF unusable(t.flaw) THEN "unavailable"
    ELSE IF t.flaw = "negative" \/ ~alive(t) THEN "invalid" ELSE "admitted"

failureOfToken(r) == IF r.canceled THEN "canceled" ELSE "invalid"

\* Why verification stopped: the caller's context, then a refresh that failed
\* on the way, then the token.
failure(r) ==
    IF r.canceled THEN "canceled" ELSE IF r.refreshFailed THEN "unavailable" ELSE "invalid"

\* What the JWT engine says of a token, whose key it found or not.
judge(r, found) ==
    IF ~found \/ ~alive(r) \/ r.flaw = "parser" THEN failure(r)
    ELSE IF r.flaw = "caller" \/ (engine.strict /\ r.flaw = "thin") THEN "invalid"
    ELSE "admitted"

-----------------------------------------------------------------------------
(***************************************************************************)
(* A call.                                                                 *)
(***************************************************************************)
Start(c) ==
    /\ phase = "up" /\ call[c].at = "idle"
    /\ \E via \in Vias, header \in Headers, key \in Keys, exp \in 0..1 :
         \E schemes \in IF via = "http" THEN Requirements ELSE {<<"bearer">>} :
            /\ header # "token" => key = CHOOSE k \in Keys : TRUE
            /\ header # "token" => exp = 0
            /\ Set(c, [Idle EXCEPT !.at = "asked", !.via = via, !.schemes = schemes,
                                   !.header = header, !.carried = header, !.key = key, !.exp = exp])
    /\ UNCHANGED <<engine, phase, published, keys, allowance, now>>

Cancel(c) ==
    /\ call[c].at \in {"asked", "verify", "refresh", "stream"} /\ ~call[c].canceled
    /\ Set(c, [call[c] EXCEPT !.canceled = TRUE])
    /\ UNCHANGED <<engine, phase, published, keys, allowance, now>>

\* verifyCredential up to the engine: the credential is taken off the call and
\* read.
taken(c) ==
    LET r == [call[c] EXCEPT !.header = "none"] IN
    CASE call[c].header = "none" -> Decided(c, r, "missing", FALSE)
      [] call[c].header = "malformed" -> Decided(c, r, "malformed", FALSE)
      [] call[c].header = "oversize" -> Decided(c, r, "oversize", FALSE)
      [] OTHER -> [r EXCEPT !.at = "verify"]

ResolveHTTPEagerly(c) ==
    /\ call[c].at = "asked" /\ call[c].via = "http"
    /\ IF Head(call[c].schemes) = "bearer"
       THEN Set(c, taken(c))
       ELSE LET rest == Tail(call[c].schemes)
            IN Set(c, IF rest = <<>> THEN Decided(c, call[c], "unsupported", FALSE)
                      ELSE [call[c] EXCEPT !.schemes = rest, !.header = "none"])
    /\ UNCHANGED <<engine, phase, published, keys, allowance, now>>

\* ResolveHTTP, called by the validator for one scheme after another until one
\* is met; a scheme other than bearer leaves the credential where it is.
ResolveHTTP(c) ==
    /\ call[c].at = "asked" /\ call[c].via = "http"
    /\ IF Head(call[c].schemes) = "bearer"
       THEN Set(c, taken(c))
       ELSE LET rest == Tail(call[c].schemes)
            IN Set(c, IF rest = <<>> THEN Decided(c, call[c], "unsupported", FALSE)
                      ELSE [call[c] EXCEPT !.schemes = rest])
    /\ UNCHANGED <<engine, phase, published, keys, allowance, now>>

\* The gRPC interceptors: the handler's context never carries the credential,
\* and only the health Check needs none.
Intercept(c) ==
    /\ call[c].at = "asked" /\ call[c].via # "http"
    /\ Set(c, IF call[c].via = "health" THEN [call[c] EXCEPT !.at = "handler", !.header = "none"]
              ELSE taken(c))
    /\ UNCHANGED <<engine, phase, published, keys, allowance, now>>

\* The JWT engine reads the token and looks its key up.  A key id it does not
\* hold triggers a refresh while the cool-down allows one, and is an error
\* otherwise: nothing waits for the allowance.
Lookup(c) ==
    LET r == call[c] IN
    /\ r.at = "verify" /\ engine.kind = "jwt"
    /\ \E flaw \in TokenFlaws :
         LET t == [r EXCEPT !.flaw = flaw]
             known == r.key \in keys
             read == ~(engine.strict /\ flaw = "typ")
         IN IF ~read \/ known \/ ~allowance
            THEN /\ Set(c, Decided(c, t, judge(t, read /\ known), known))
                 /\ UNCHANGED allowance
            ELSE /\ Set(c, [t EXCEPT !.at = "refresh"])
                 /\ allowance' = FALSE
    /\ UNCHANGED <<engine, phase, published, keys, now>>

\* The refresh c triggered ends.  A failure is marked on c unless the caller
\* had given up, which is what made it fail.
Refreshed(c) ==
    LET r == call[c] IN
    /\ r.at = "refresh"
    /\ \/ /\ keys' = published
          /\ Set(c, Decided(c, r, judge(r, r.key \in published), r.key \in published))
       \/ /\ LET t == [r EXCEPT !.refreshFailed = ~r.canceled]
             IN Set(c, Decided(c, t, judge(t, r.key \in keys), r.key \in keys))
          /\ UNCHANGED keys
    /\ UNCHANGED <<engine, phase, published, allowance, now>>

\* The introspection endpoint answers, or does not.
Introspected(c) ==
    LET r == call[c] IN
    /\ r.at = "verify" /\ engine.kind = "introspection"
    /\ \/ Set(c, Decided(c, [r EXCEPT !.refreshFailed = TRUE],
                         IF r.canceled THEN "canceled" ELSE "unavailable", FALSE))
       \/ Set(c, Decided(c, [r EXCEPT !.refreshFailed = TRUE], "unavailable", FALSE))
       \/ \E flaw \in AnswerFlaws :
            LET t == [r EXCEPT !.flaw = flaw] IN Set(c, Decided(c, t, admitResponse(t), TRUE))
    /\ UNCHANGED <<engine, phase, published, keys, allowance, now>>

\* A handler returns.
Return(c) ==
    /\ call[c].at = "handler" \/ (call[c].at = "stream" /\ call[c].op.step # "waiting")
    /\ Set(c, [call[c] EXCEPT !.at = "done"])
    /\ UNCHANGED <<engine, phase, published, keys, allowance, now>>

-----------------------------------------------------------------------------
(***************************************************************************)
(* Message operations of an authenticated stream.  The transport works on  *)
(* a detached message, so it may still be at work after the handler was    *)
(* told that the token expired; only a receive into a message that is not  *)
(* a protobuf one reads straight into the handler's and waits for it.      *)
(***************************************************************************)
deadline(r) == r.exp + ClockSkew

Ended(r) == r.canceled \/ now >= deadline(r)

detachesNever(op) == FALSE

detaches(op) == op.proto

\* The handler calls RecvMsg or SendMsg.
Operate(c) ==
    /\ call[c].at = "stream" /\ call[c].op.step \in {"none", "over"}
    /\ ~Ended(call[c])
    /\ \E dir \in {"recv", "send"}, proto \in BOOLEAN :
         Set(c, [call[c] EXCEPT !.op = [dir |-> dir, proto |-> proto, step |-> "waiting", edited |-> FALSE]])
    /\ UNCHANGED <<engine, phase, published, keys, allowance, now>>

\* The transport completes the operation while the handler waits for it.
Complete(c) ==
    /\ call[c].at = "stream" /\ call[c].op.step = "waiting"
    /\ Set(c, [call[c] EXCEPT !.op.step = "complete"])
    /\ UNCHANGED <<engine, phase, published, keys, allowance, now>>

waitMessageOperationOnce(c) ==
    LET r == call[c] IN
    /\ r.at = "stream"
    /\ r.op.step = "complete" \/ (r.op.step = "waiting" /\ Ended(r) /\ (r.op.proto \/ r.op.dir = "send"))
    /\ Set(c, IF r.op.step = "waiting"
              THEN [r EXCEPT !.op.step = "orphan"]
              ELSE [r EXCEPT !.op.step = "over", !.late = @ \/ now >= deadline(r)])
    /\ UNCHANGED <<engine, phase, published, keys, allowance, now>>

\* The wait ends: with the message while the context lives, and with the
\* context's error afterwards, whichever of the two woke it.
waitMessageOperation(c) ==
    LET r == call[c] IN
    /\ r.at = "stream"
    /\ r.op.step = "complete" \/ (r.op.step = "waiting" /\ Ended(r) /\ (r.op.proto \/ r.op.dir = "send"))
    /\ Set(c, IF Ended(r)
              THEN [r EXCEPT !.op.step = IF r.op.step = "waiting" THEN "orphan" ELSE "over"]
              ELSE [r EXCEPT !.op.step = "over", !.late = @ \/ now >= deadline(r)])
    /\ UNCHANGED <<engine, phase, published, keys, allowance, now>>

\* The handler goes on with its message, which it has back.
Edit(c) ==
    /\ call[c].op.step = "orphan" /\ ~call[c].op.edited
    /\ Set(c, [call[c] EXCEPT !.op.edited = TRUE])
    /\ UNCHANGED <<engine, phase, published, keys, allowance, now>>

\* The transport completes an operation nobody waits for any more.  Were it
\* at work on the handler's own message, a receive would overwrite it and a
\* send would transmit what the handler made of it.
Late(c) ==
    LET r == call[c] IN
    /\ r.op.step = "orphan"
    /\ Set(c, [r EXCEPT !.op.step = "over",
                        !.spoiled = @ \/ (r.op.proto /\ ~detaches(r.op) /\ (r.op.dir = "recv" \/ r.op.edited))])
    /\ UNCHANGED <<engine, phase, published, keys, allowance, now>>

Next ==
    \/ New \/ Scheduled \/ Elsewhere \/ Close \/ Rotate \/ Cool \/ Tick
    \/ \E c \in Calls :
         \/ Start(c) \/ Cancel(c) \/ ResolveHTTP(c) \/ Intercept(c)
         \/ Lookup(c) \/ Refreshed(c) \/ Introspected(c) \/ Return(c)
         \/ Operate(c) \/ Complete(c) \/ waitMessageOperation(c) \/ Edit(c) \/ Late(c)

Spec == Init /\ [][Next]_vars

-----------------------------------------------------------------------------
(***************************************************************************)
(* Every verdict is true of the call it answers.  A handler runs only      *)
(* without need of a credential or on a token that was alive, unflawed for *)
(* the configured profile and, for the JWT engine, signed with a key the   *)
(* verifier held when it decided; and never beside its credential.  A      *)
(* caller is told that it sent none only if it sent none, that the token   *)
(* is invalid only if that was established (it has a flaw, it was dead or  *)
(* its key was not held and no refresh of this call failed), that trust is *)
(* unavailable only if this call failed to reach the provider or to read   *)
(* it, and that it gave up only if it did.                                 *)
(***************************************************************************)
Faulty(r) ==
    \/ r.flaw \in {"parser", "caller", "negative"}
    \/ engine.strict /\ r.flaw \in {"typ", "thin"}
    \/ r.decided > r.exp + ClockSkew
    \/ engine.kind = "jwt" /\ r.decided = r.exp + ClockSkew

VerdictIsTrue ==
    \A c \in Calls : LET r == call[c] IN
        /\ r.at \in {"handler", "stream"} => r.header = "none" /\ (r.verdict = "admitted" \/ r.via = "health")
        /\ r.verdict = "admitted" =>
             r.carried = "token" /\ ~Faulty(r) /\ r.known /\ r.flaw \notin {"document", "member"}
        /\ r.verdict = "missing" => r.carried = "none"
        /\ r.verdict = "invalid" =>
             r.carried = "token" /\ (Faulty(r) \/ ~r.known) /\ (r.refreshFailed => Faulty(r) /\ r.known)
        /\ r.verdict = "unavailable" => r.refreshFailed \/ r.flaw \in {"document", "member"}
        /\ r.verdict = "canceled" => r.canceled

(***************************************************************************)
(* A stream ends with its token: no message is handed over once the token  *)
(* and the skew have passed, also when the message and the deadline race;  *)
(* and an operation the handler no longer waits for never touches the      *)
(* protobuf message the handler has back.                                  *)
(***************************************************************************)
StreamEndsWithToken ==
    \A c \in Calls : LET r == call[c] IN
        ~r.late /\ ~r.spoiled
=============================================================================
