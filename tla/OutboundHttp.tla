------------------------------ MODULE OutboundHttp ------------------------------
(***************************************************************************)
(* internal/infra/httpclient: one client of a fixed authority, from its    *)
(* construction to the last read of a response body.  Calls compete for    *)
(* MaxInFlight admissions; a call's parent context and the deadline of its *)
(* operation may end at any point, also while the caller reads the body.   *)
(* The network (external) resolves, connects, answers and fails.           *)
(***************************************************************************)
EXTENDS Integers, FiniteSets

CONSTANTS
    Calls,
    MaxInFlight,         \* TransportLimits.MaxInFlight
    AbsoluteBodyBytes,   \* TransportLimits.AbsoluteBodyBytes
    MaxBodyBytes,        \* OperationPolicy.MaxBodyBytes of a call with a policy
    None

VARIABLES
    client,     \* "external", "private" (the target policy) or "refused"
    inFlight,   \* tokens in Client.inFlight
    call        \* call[c]: one request

vars == <<client, inFlight, call>>

\* Where a name resolves to.
Destinations == {"public", "private", "other"}

\* Variant: what is reachable is left to the name.
allowsAddressAny(policy, address) == TRUE

\* targetPolicy.allowsAddress.
allowsAddress(policy, address) == address = IF policy = "private" THEN "private" ELSE "public"

\* What a base URL may be: its form, and the host it names.
Bases == [https : BOOLEAN, host : {"name", "suffixed name", "public", "private", "other"}]

\* validateTransportLimits and validateTarget.
Built(policy, base, limits) ==
    /\ limits
    /\ base.https
    /\ CASE policy = "private" -> base.host = "suffixed name"
         [] base.host \in Destinations -> allowsAddress(policy, base.host)
         [] OTHER -> TRUE

Idle == [at |-> "idle", policy |-> FALSE, parent |-> "live", operation |-> "live", cancels |-> 0,
         held |-> FALSE, size |-> 0, remaining |-> 0, taken |-> 0, tooLarge |-> FALSE,
         peer |-> None, got |-> 0, res |-> None, saturated |-> FALSE]

Init ==
    /\ \E policy \in {"external", "private"}, base \in Bases, limits \in BOOLEAN :
           client = IF Built(policy, base, limits) THEN policy ELSE "refused"
    /\ inFlight = 0
    /\ call = [c \in Calls |-> Idle]

limit(c) == IF call[c].policy THEN MaxBodyBytes ELSE AbsoluteBodyBytes

Set(c, r) == call' = [call EXCEPT ![c] = r] /\ UNCHANGED client

\* Of a call with a policy, the context of the operation ends with the parent's, or with
\* context.DeadlineExceeded; of one without, it is the parent's.
Err(r) ==
    IF r.policy /\ r.operation = "timeout" THEN "deadline"
    ELSE IF r.policy /\ r.operation # "live" THEN r.operation ELSE r.parent

\* cancelOperation: nothing to cancel without a policy.
cancelOperation(r) ==
    [r EXCEPT !.cancels = @ + 1,
              !.operation = IF r.policy /\ r.operation = "live" THEN "canceled" ELSE r.operation]

Return(r, res) == [r EXCEPT !.at = "done", !.res = res]

-----------------------------------------------------------------------------
(* A call *)

\* Do and DoWithPolicy up to do: a request or a policy that is not usable is refused.  Only
\* a call that gets as far as do has an operation to cancel.
Start(c, policy, usable) ==
    LET r == [Idle EXCEPT !.policy = policy, !.parent = call[c].parent] IN
    /\ client # "refused" /\ call[c].at = "idle"
    /\ Set(c, IF usable THEN [r EXCEPT !.at = "do", !.operation = IF policy THEN r.parent ELSE "live"]
              ELSE Return(r, "refused"))
    /\ UNCHANGED inFlight

\* Variant: an admission is taken without a look at the limit.
admitsAny == TRUE

\* The send on Client.inFlight succeeds.
admits == inFlight < MaxInFlight

\* do up to the request: an ended context, and no free admission, end it here, with the
\* context's own error.
Admit(c) ==
    LET r == call[c]
        o == cancelOperation(r)
    IN  /\ r.at = "do"
        /\ \/ /\ Err(r) # "live"
              /\ Set(c, Return(o, Err(r))) /\ UNCHANGED inFlight
           \/ /\ Err(r) = "live" /\ admits
              /\ inFlight' = inFlight + 1
              /\ Set(c, [r EXCEPT !.at = "send", !.held = TRUE])
           \/ /\ Err(r) = "live" /\ ~admits
              /\ Set(c, [Return(o, IF Err(o) # "live" THEN Err(o) ELSE "saturated") EXCEPT !.saturated = TRUE])
              /\ UNCHANGED inFlight

\* releaseAdmissionAndCancelOperation, under its sync.Once.
Released(r) == IF r.held THEN [cancelOperation(r) EXCEPT !.held = FALSE] ELSE r
Release(r) == inFlight' = IF r.held THEN inFlight - 1 ELSE inFlight

\* Variant: an operation's deadline is told whoever ended it.
contextErrorOperation(r) == IF r.policy /\ r.operation # "live" THEN "timeout" ELSE r.parent

\* contextError: the parent first, then the operation's own deadline.
contextError(r) ==
    IF r.parent # "live" THEN r.parent
    ELSE IF r.policy /\ r.operation = "timeout" THEN "timeout" ELSE "live"

Failed(r, res) == IF contextError(Released(r)) # "live" THEN contextError(Released(r)) ELSE res

\* The request is off target, or the round trip fails: the dial is refused for its address,
\* the peer breaks off, the context ends.
SendFails(c, why) ==
    LET r == call[c] IN
    /\ r.at = "send"
    /\ Release(r)
    /\ Set(c, Return(Released(r), Failed(r, why)))

\* A connection to an allowed address, and an answer of the given length, announced or not
\* (a redirect is an answer like any other).
Answer(c, address, size, announced) ==
    LET r == [call[c] EXCEPT !.peer = address, !.size = size] IN
    /\ r.at = "send" /\ Err(r) = "live"
    /\ allowsAddress(client, address)
    /\ IF announced /\ size > limit(c)
       THEN Release(r) /\ Set(c, Return(Released(r), "too large"))
       ELSE Set(c, [r EXCEPT !.at = "open", !.remaining = limit(c)]) /\ UNCHANGED inFlight

-----------------------------------------------------------------------------
(* The body *)

\* How much one Read asks of the body: one byte more than the budget tells its excess.
budget(r, length) == IF r.remaining < length THEN r.remaining + 1 ELSE length

\* Variant: a body that ends at the budget exceeds it.
exceedsAtLimit(r, n) == n >= r.remaining

\* The bytes of one Read exceed what is left.
exceeds(r, n) == n > r.remaining

\* Read with a buffer of the given length; the body gives n bytes, and its end with the last
\* of them or by itself.
Read(c, length, n, end) ==
    LET r == call[c]
        over == exceeds(r, n)
        given == IF over THEN r.remaining ELSE n
        s == [r EXCEPT !.taken = @ + n, !.remaining = @ - given, !.got = @ + given, !.tooLarge = over]
    IN  /\ r.at = "open" /\ Err(r) = "live"
        /\ n \in 0 .. budget(r, length) /\ n <= r.size - r.taken
        /\ end => r.taken + n = r.size
        /\ n = 0 => end \/ budget(r, length) = 0
        /\ IF over \/ end
           THEN Release(s) /\ Set(c, Return(Released(s), IF over THEN "too large" ELSE Failed(s, "complete")))
           ELSE Set(c, s) /\ UNCHANGED inFlight

\* The body fails, or a context ends the read; what the caller learns is contextError's.
ReadFails(c) ==
    LET r == call[c] IN
    /\ r.at = "open"
    /\ Release(r)
    /\ Set(c, Return(Released(r), Failed(r, "broken")))

\* Close before the end.  After the end it finds everything released.
Close(c) ==
    LET r == call[c] IN
    /\ r.at = "open"
    /\ Release(r)
    /\ Set(c, Return(Released(r), "closed"))

\* The caller's context ends, and with it the operation's; or the operation's own deadline.
Cancel(c) ==
    LET r == call[c] IN
    /\ r.at # "done" /\ r.parent = "live"
    /\ Set(c, [r EXCEPT !.parent = "canceled", !.operation = IF r.policy /\ @ = "live" THEN "canceled" ELSE @])
    /\ UNCHANGED inFlight

Timeout(c) ==
    LET r == call[c] IN
    /\ r.at \in {"do", "send", "open"} /\ r.policy /\ r.operation = "live"
    /\ Set(c, [r EXCEPT !.operation = "timeout"])
    /\ UNCHANGED inFlight

Sizes == 0 .. AbsoluteBodyBytes + 1

Next ==
    \E c \in Calls :
        \/ \E policy, usable \in BOOLEAN : Start(c, policy, usable)
        \/ Admit(c)
        \/ \E why \in {"denied", "broken"} : SendFails(c, why)
        \/ \E address \in Destinations, size \in Sizes, announced \in BOOLEAN : Answer(c, address, size, announced)
        \/ \E length \in 1 .. 2, n \in 0 .. 2, end \in BOOLEAN : Read(c, length, n, end)
        \/ ReadFails(c) \/ Close(c) \/ Cancel(c) \/ Timeout(c)

Spec == Init /\ [][Next]_vars

-----------------------------------------------------------------------------
(* Properties *)

\* AdmissionsAreExact: at every moment the tokens taken are those of the calls that are
\* admitted and not over, there are never more than the limit, and a call that is over has
\* canceled its operation exactly once, whichever way it ended (do, boundedBody).
AdmissionsAreExact ==
    /\ inFlight = Cardinality({c \in Calls : call[c].at \in {"send", "open"}})
    /\ inFlight \in 0 .. MaxInFlight
    /\ \A c \in Calls : call[c].cancels = IF call[c].at = "done" /\ call[c].res # "refused" THEN 1 ELSE 0

\* OutcomeIsTrue: a body is reported whole exactly when all of it was handed over, too large
\* only when it exceeds the call's limit, nothing past the limit is handed over, and the
\* operation's deadline is named, as ErrOperationTimeout or as the context's error, only if
\* it passed while the caller was still there.  (A
\* call that met the limit is told of a cancellation that was the client's own: see
\* SaturationIsNamed.)
OutcomeIsTrue ==
    \A c \in Calls : LET r == call[c] IN
      /\ r.got <= limit(c)
      /\ r.res = "complete" => r.got = r.size
      /\ r.res = "too large" => r.size > limit(c)
      /\ r.res \in {"timeout", "deadline"} => r.operation = "timeout" /\ r.policy
      /\ r.res = "canceled" => r.parent = "canceled" \/ r.saturated
      /\ r.peer # None => r.peer = IF client = "private" THEN "private" ELSE "public"

\* SaturationIsNamed: client.go says ErrSaturated "means the dependency request limit was
\* full while the caller was still live": a live caller that meets the limit is told so.
SaturationIsNamed ==
    \A c \in Calls : call[c].saturated /\ call[c].parent = "live" => call[c].res = "saturated"

=============================================================================
