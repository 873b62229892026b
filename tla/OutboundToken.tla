----------------------------- MODULE OutboundToken -----------------------------
(***************************************************************************)
(* internal/infra/oauth2clientcredentials: callers of an authenticated     *)
(* HTTP or gRPC client share one cached token.  x/oauth2's reuse cache     *)
(* (external, but its order of lock, validity check and acquisition is     *)
(* what the package relies on) acquires a new one under the client's own   *)
(* context; Close may come at any point.                                   *)
(***************************************************************************)
EXTENDS Naturals, FiniteSets

CONSTANTS
    Calls,
    EarlyExpiry,   \* defaultEarlyExpiry
    MaxTime,       \* bound on the clock
    None

VARIABLES
    now,      \* the clock
    closed,   \* Client.closed
    process,  \* the process context, under which tokens are acquired: "live", "canceled"
    cache,    \* expiry of the cached token, or None
    lock,     \* the call that holds the cache's mutex, or None
    call,     \* call[c]: one request of a feature
    asked     \* acquisitions the provider was asked for after that context ended

vars == <<now, closed, process, cache, lock, call, asked>>

Idle == [at |-> "idle", kind |-> "http", own |-> FALSE, secure |-> TRUE, expiry |-> None, late |-> FALSE, res |-> None]

Init ==
    /\ now = 0 /\ closed = FALSE /\ process = "live" /\ cache = None /\ lock = None
    /\ call = [c \in Calls |-> Idle]
    /\ asked = 0

Set(c, r) == call' = [call EXCEPT ![c] = r]
Return(r, res) == [r EXCEPT !.at = "done", !.res = res]

\* Variant: the caller's own credential is sent beside the client's.
competesNever(kind, own) == FALSE

\* hasAuthorization, hasOutgoingAuthorization and hasPerRPCCredentials.
competes(kind, own) == own

\* HTTPClient.Do, GRPCClient.Invoke and NewStream, with the check of the transport that
\* GetRequestMetadata makes: a second credential and an insecure transport end the call.
Start(c, kind, own, secure) ==
    LET r == [Idle EXCEPT !.at = "ask", !.kind = kind, !.own = own, !.secure = secure] IN
    /\ call[c].at = "idle"
    /\ kind = "http" => secure
    /\ Set(c, IF competes(kind, own) THEN Return(r, "invalid configuration")
              ELSE IF ~secure THEN Return(r, "unavailable")
              ELSE [r EXCEPT !.late = closed])
    /\ UNCHANGED <<now, closed, process, cache, lock, asked>>

\* clientTokenSource.Token: a closed client is not asked.
Available(c) ==
    /\ call[c].at = "ask"
    /\ Set(c, IF closed THEN Return(call[c], "unavailable") ELSE [call[c] EXCEPT !.at = "wait"])
    /\ UNCHANGED <<now, closed, process, cache, lock, asked>>

\* Variant: expiry itself is the limit.
validToExpiry(expiry) == expiry # None /\ expiry > now

\* The cached token is valid for EarlyExpiry more.
valid(expiry) == expiry # None /\ expiry >= now + EarlyExpiry

\* The mutex: whoever gets it looks at the cache and returns from there, or acquires.
Lock(c) ==
    /\ call[c].at = "wait" /\ lock = None
    /\ IF valid(cache)
       THEN Set(c, [Return(call[c], "sent") EXCEPT !.expiry = cache]) /\ UNCHANGED lock
       ELSE Set(c, [call[c] EXCEPT !.at = "acquire"]) /\ lock' = c
    /\ UNCHANGED <<now, closed, process, cache, asked>>

\* Variant: Close leaves the acquisitions alone.
mayAskAlways == TRUE

\* The acquisition's context is the process context.
mayAsk == process = "live"

\* newClient's source asks the provider.
Ask(c) ==
    /\ call[c].at = "acquire"
    /\ IF mayAsk
       THEN Set(c, [call[c] EXCEPT !.at = "provider"]) /\ UNCHANGED lock /\ asked' = IF process # "live" THEN asked + 1 ELSE asked
       ELSE Set(c, Return(call[c], "unavailable")) /\ lock' = None /\ UNCHANGED asked
    /\ UNCHANGED <<now, closed, process, cache>>

\* sanitizeToken admits a bearer token with an expiry that is far enough away.
sanitizeToken(wellFormed, expiry) == wellFormed /\ expiry # None /\ expiry > now + EarlyExpiry

\* The provider answers: an error, or a token.
Answer(c, wellFormed, expiry) ==
    /\ call[c].at = "provider"
    /\ lock' = None
    /\ IF sanitizeToken(wellFormed, expiry)
       THEN cache' = expiry /\ Set(c, [Return(call[c], "sent") EXCEPT !.expiry = expiry])
       ELSE UNCHANGED cache /\ Set(c, Return(call[c], "unavailable"))
    /\ UNCHANGED <<now, closed, process, asked>>

\* Variant: an acquisition is not bounded.
expiresNever(c) == process # "live"

\* defaultAcquisitionTimeout, or Close.
expires(c) == TRUE

GiveUp(c) ==
    /\ call[c].at = "provider" /\ expires(c)
    /\ lock' = None
    /\ Set(c, Return(call[c], "unavailable"))
    /\ UNCHANGED <<now, closed, process, cache, asked>>

\* Close: closed.Swap, and then the cancellation of the process context.
Close ==
    /\ ~closed /\ closed' = TRUE
    /\ UNCHANGED <<now, process, cache, lock, call, asked>>

CancelProcess ==
    /\ closed /\ process = "live" /\ process' = "canceled"
    /\ UNCHANGED <<now, closed, cache, lock, call, asked>>

Again(c) ==
    /\ call[c].at = "done" /\ now < MaxTime
    /\ Set(c, Idle)
    /\ UNCHANGED <<now, closed, process, cache, lock, asked>>

Tick ==
    /\ now < MaxTime /\ now' = now + 1
    /\ call' = [c \in Calls |-> IF call[c].at = "done" THEN [Idle EXCEPT !.at = "done"] ELSE call[c]]
    /\ UNCHANGED <<closed, process, cache, lock, asked>>

Expiries == (0 .. MaxTime + 2) \cup {None}

Step(c) ==
    \/ Available(c) \/ Lock(c) \/ Ask(c) \/ GiveUp(c)
    \/ \E wellFormed \in BOOLEAN, expiry \in Expiries : Answer(c, wellFormed, expiry)

Next ==
    \/ \E c \in Calls :
         \/ \E kind \in {"http", "grpc"}, own, secure \in BOOLEAN : Start(c, kind, own, secure)
         \/ Step(c) \/ Again(c)
    \/ Close \/ CancelProcess \/ Tick

\* A goroutine that can go on does; waiters of a mutex get it in turn.  Of the provider
\* nothing is assumed.
Fairness ==
    \A c \in Calls : WF_vars(Available(c)) /\ SF_vars(Lock(c)) /\ WF_vars(Ask(c)) /\ WF_vars(GiveUp(c))

Spec == Init /\ [][Next]_vars /\ Fairness

-----------------------------------------------------------------------------
(* Properties *)

\* CredentialIsSound: a request leaves with one credential, the client's, over a secure
\* transport, valid for EarlyExpiry at the moment it is attached, and never for a call that
\* began after Close; at most one call acquires at a time, and none asks the provider once
\* Close has canceled the process context (Token, sanitizeToken, Close).
CredentialIsSound ==
    /\ \A c \in Calls : call[c].res = "sent" =>
         ~call[c].own /\ call[c].secure /\ ~call[c].late /\ call[c].expiry >= now + EarlyExpiry
    /\ Cardinality({c \in Calls : call[c].at \in {"acquire", "provider"}}) <= 1
    /\ asked = 0

\* EveryCallEnds: a caller waiting for the cache or for the provider gets its answer, also
\* when the provider never gives one (newClient's acquisition timeout).
EveryCallEnds == \A c \in Calls : call[c].at # "idle" ~> call[c].at = "done"

-----------------------------------------------------------------------------
(* What CredentialIsSound rests on *)

\* The range of a call.
CallState ==
    [at : {"idle", "ask", "wait", "acquire", "provider", "done"}, kind : {"http", "grpc"},
     own : BOOLEAN, secure : BOOLEAN, expiry : Nat \cup {None}, late : BOOLEAN,
     res : {None, "sent", "unavailable", "invalid configuration"}]

\* What call c, in state r, may rely on: the mutex is held by the one call that acquires; a call
\* that gets as far as the cache has no credential of its own, a secure transport, and began
\* before Close.
CallOk(c, r, holder, time, shut) ==
    /\ r.at \in {"acquire", "provider"} => holder = c
    /\ r.at # "done" => r.res = None
    /\ r.at \in {"ask", "wait", "acquire", "provider"} => ~r.own /\ r.secure
    /\ r.at \in {"wait", "acquire", "provider"} => ~r.late
    /\ r.late => shut
    /\ r.res = "sent" => ~r.own /\ r.secure /\ ~r.late /\ r.expiry >= time + EarlyExpiry

\* The inductive invariant.
TokenInv ==
    /\ now \in Nat /\ closed \in BOOLEAN /\ cache \in Nat \cup {None} /\ lock \in Calls \cup {None}
    /\ call \in [Calls -> CallState]
    /\ asked = 0
    /\ \A c \in Calls : CallOk(c, call[c], lock, now, closed)

=============================================================================
