----------------------------- MODULE NatsDelivery -----------------------------
(***************************************************************************)
(* internal/infra/natsjs, worker_delivery.go: how one durable consumer     *)
(* settles the records of its stream.                                      *)
(*                                                                         *)
(* Each consume context handles one delivery at a time: it checks the      *)
(* delivery, invokes the feature handler, and gives the broker one         *)
(* instruction - acknowledge, move to the dead-letter stream, or redeliver *)
(* later.  The broker (external) counts deliveries, redelivers what is not *)
(* acknowledged in time, also while a handler still runs, recognizes a     *)
(* transfer it has stored while its deduplication window lasts, and may    *)
(* lose any answer after acting on the request, or before.  The process    *)
(* may fail, be stopped or be killed at any point, and is started again.   *)
(***************************************************************************)
EXTENDS Naturals

CONSTANTS
    Records,       \* records of the source stream
    Contexts,      \* the worker's consume contexts
    RetryDelays,   \* len(cfg.RetryDelays)
    Kinds,         \* what a record may be: a subset of RecordKinds
    MaxExpiries    \* bounds how often a record's deduplication window runs out

\* "event" decodes; "malformed" does not; "oversize" exceeds the delivery bound
\* (or has no metadata, which stops the worker the same way);
\* "unfit" decodes and exceeds the bound once the dead-letter headers are added.
RecordKinds == {"event", "malformed", "oversize", "unfit"}

ASSUME DeliveryConstants ==
    /\ RetryDelays \in Nat \ {0}
    /\ Kinds \subseteq RecordKinds
    /\ MaxExpiries \in Nat

\* attemptLimit: the first delivery and one per retry delay.
attemptLimit == 1 + RetryDelays

VARIABLES
    kind,        \* kind[r]
    acked,       \* records acknowledged at the broker
    due,         \* records the broker may deliver now
    delivered,   \* delivered[r]: NumDelivered, counted up to attemptLimit + 1
    window,      \* transfer ids the dead-letter stream still recognizes
    copies,      \* copies[r]: records stored in the dead-letter stream
    reasons,     \* reasons[r]: the reasons they carry
    expiries,    \* how often r's window ran out
    worker,      \* the process: "up", "draining", "forced" or "down"
    ctx,         \* ctx[c]: what consume context c is doing
    succeeded,   \* records some handler returned nil for
    refused      \* records some handler returned a Permanent error for

brokerVars == <<acked, due, delivered, window, copies, reasons, expiries>>
handlerVars == <<succeeded, refused>>
vars == <<kind, brokerVars, worker, ctx, handlerVars>>

NoDelivery == [step |-> "idle"]
At(step, r, n, reason) == [step |-> step, rec |-> r, n |-> n, reason |-> reason]
Steps == {"handle", "handler", "ack", "transfer", "transferAck", "redeliver"}
Reasons == {"none", "malformed", "exhausted", "permanent"}

Init ==
    /\ kind \in [Records -> Kinds]
    /\ acked = {}
    /\ due = Records
    /\ delivered = [r \in Records |-> 0]
    /\ window = {}
    /\ copies = [r \in Records |-> 0]
    /\ reasons = [r \in Records |-> {}]
    /\ expiries = [r \in Records |-> 0]
    /\ worker = "up"
    /\ ctx = [c \in Contexts |-> NoDelivery]
    /\ succeeded = {}
    /\ refused = {}

Move(c, d) == ctx' = [ctx EXCEPT ![c] = d]
Finish(c) == Move(c, NoDelivery)

\* failTerminal: the worker stops taking deliveries, the active ones go on.
Terminal == worker' = IF worker = "up" THEN "draining" ELSE worker

-----------------------------------------------------------------------------
(* The broker. *)

Deliver(c, r) ==
    /\ worker = "up"
    /\ ctx[c].step = "idle"
    /\ r \in due
    /\ due' = due \ {r}
    /\ delivered' = [delivered EXCEPT ![r] = IF @ > attemptLimit THEN @ ELSE @ + 1]
    /\ Move(c, At("handle", r, delivered'[r], "none"))
    /\ UNCHANGED <<kind, acked, window, copies, reasons, expiries, worker, handlerVars>>

\* AckWait is over, or the requested delay: r is delivered again.
Redeliverable(r) ==
    /\ r \notin acked \cup due
    /\ due' = due \cup {r}
    /\ UNCHANGED <<kind, acked, delivered, window, copies, reasons, expiries, worker,
                   ctx, handlerVars>>

\* Variant: the transfer id takes the delivery into account.
transferIDPerDelivery(r, n) == <<r, n>>

\* deadLetterTransferID: names the source record, whatever the delivery.
deadLetterTransferID(r, n) == <<r, 0>>

\* The dead-letter stream forgets the ids of r's transfers.
WindowExpires(r) ==
    /\ expiries[r] < MaxExpiries
    /\ \E id \in window : id[1] = r
    /\ window' = {id \in window : id[1] # r}
    /\ expiries' = [expiries EXCEPT ![r] = @ + 1]
    /\ UNCHANGED <<kind, acked, due, delivered, copies, reasons, worker, ctx, handlerVars>>

\* An acknowledgement takes effect.
Acked(r) == acked' = acked \cup {r} /\ due' = due \ {r}

\* A transfer is stored, once per id while the window lasts.
Stored(d) ==
    LET id == deadLetterTransferID(d.rec, d.n) IN
    IF id \in window
    THEN UNCHANGED <<window, copies, reasons>>
    ELSE /\ window' = window \cup {id}
         /\ copies' = [copies EXCEPT ![d.rec] = @ + 1]
         /\ reasons' = [reasons EXCEPT ![d.rec] = @ \cup {d.reason}]

-----------------------------------------------------------------------------
(* The worker. *)

\* handle, with the attempt limit it compares NumDelivered with.
handleUpTo(c, limit) ==
    LET d == ctx[c]
        r == d.rec
        decodes == kind[r] \in {"event", "unfit"}
        reason == IF decodes THEN "exhausted" ELSE "malformed"
    IN
    /\ d.step = "handle"
    /\ \/ /\ kind[r] = "oversize"
          /\ Finish(c)
          /\ Terminal
       \/ /\ kind[r] = "malformed" \/ (decodes /\ d.n > limit)
          /\ Move(c, At("transfer", r, d.n, reason))
          /\ UNCHANGED worker
       \/ /\ decodes /\ d.n <= limit
          /\ Move(c, At("handler", r, d.n, "none"))
          /\ UNCHANGED worker
    /\ UNCHANGED <<kind, brokerVars, handlerVars>>

\* Variant: the limit is only looked at after the handler has failed.
HandleAlways(c) == handleUpTo(c, attemptLimit + 1)

\* handle: the bounds, the envelope and the attempt limit, then the handler.
Handle(c) == handleUpTo(c, attemptLimit)

\* settle, with the limit at which a failed delivery is the last one.  A forced
\* shutdown has cancelled the handler's root context: its error leaves the record to
\* the broker.
settleAt(c, result, limit) ==
    LET d == ctx[c]
        r == d.rec
        failed == result \in {"permanent", "error"}
    IN
    /\ d.step = "handler"
    /\ \/ result = "panic" /\ Finish(c) /\ Terminal
       \/ result = "nil" /\ Move(c, At("ack", r, d.n, "none")) /\ UNCHANGED worker
       \/ failed /\ worker = "forced" /\ Finish(c) /\ UNCHANGED worker
       \/ /\ failed /\ worker # "forced"
          /\ Move(c, IF result = "permanent" THEN At("transfer", r, d.n, "permanent")
                     ELSE IF d.n >= limit THEN At("transfer", r, d.n, "exhausted")
                     ELSE At("redeliver", r, d.n, "none"))
          /\ UNCHANGED worker
    /\ succeeded' = IF result = "nil" THEN succeeded \cup {r} ELSE succeeded
    /\ refused' = IF result = "permanent" THEN refused \cup {r} ELSE refused
    /\ UNCHANGED <<kind, brokerVars>>

\* Variant: the limit counts the retries without the first delivery.
SettleEarly(c, result) == settleAt(c, result, RetryDelays)

\* settle, after the handler returned or panicked.
Settle(c, result) == settleAt(c, result, attemptLimit)

\* acknowledge: confirmed or not, the delivery is over.  A forced shutdown has closed
\* the connection.
Acknowledge(c, applied) ==
    /\ ctx[c].step = "ack"
    /\ applied => worker # "forced"
    /\ IF applied THEN Acked(ctx[c].rec) ELSE UNCHANGED <<acked, due>>
    /\ Finish(c)
    /\ UNCHANGED <<kind, delivered, window, copies, reasons, expiries, worker, handlerVars>>

\* Variant: an ambiguous transfer counts as done.
afterTransferOptimistic(answer) == "transferAck"

\* What follows a transfer that was not rejected.
afterTransfer(answer) == IF answer = "accepted" THEN "transferAck" ELSE "redeliver"

\* deadLetter: the transfer is refused by its bound or by the broker, accepted, or
\* ambiguous with the record stored or not.
Transfer(c, answer, applied) ==
    LET d == ctx[c]
        r == d.rec
    IN
    /\ d.step = "transfer"
    /\ kind[r] = "unfit" => answer = "rejected"
    /\ worker = "forced" => answer # "accepted" /\ ~applied
    /\ answer = "rejected" => ~applied
    /\ answer = "accepted" => applied
    /\ IF applied THEN Stored(d) ELSE UNCHANGED <<window, copies, reasons>>
    /\ IF answer = "rejected"
       THEN Finish(c) /\ Terminal
       ELSE Move(c, At(afterTransfer(answer), r, d.n, "none")) /\ UNCHANGED worker
    /\ UNCHANGED <<kind, acked, due, delivered, expiries, handlerVars>>

\* The source of an accepted transfer is acknowledged, or asked for again.
TransferAck(c, applied, confirmed) ==
    LET d == ctx[c] IN
    /\ d.step = "transferAck"
    /\ applied => worker # "forced"
    /\ confirmed => applied
    /\ IF applied THEN Acked(d.rec) ELSE UNCHANGED <<acked, due>>
    /\ IF confirmed THEN Finish(c) ELSE Move(c, At("redeliver", d.rec, d.n, "none"))
    /\ UNCHANGED <<kind, delivered, window, copies, reasons, expiries, worker, handlerVars>>

\* requestRedelivery: the broker redelivers after the delay, or the request fails and
\* stops the worker.
RequestRedelivery(c, ok) ==
    /\ ctx[c].step = "redeliver"
    /\ ok => worker # "forced"
    /\ IF ok THEN UNCHANGED worker ELSE Terminal
    /\ Finish(c)
    /\ UNCHANGED <<kind, brokerVars, handlerVars>>

\* StartDrain, then Run returns; a deadline forces the shutdown while deliveries are
\* still active; the process may also be killed; and it is started again.
StartDrain == worker = "up" /\ worker' = "draining" /\ UNCHANGED <<kind, brokerVars, ctx, handlerVars>>
ForceClose == worker = "draining" /\ worker' = "forced" /\ UNCHANGED <<kind, brokerVars, ctx, handlerVars>>

RunReturns ==
    /\ worker \in {"draining", "forced"}
    /\ \A c \in Contexts : ctx[c].step = "idle"
    /\ worker' = "down"
    /\ UNCHANGED <<kind, brokerVars, ctx, handlerVars>>

Crash ==
    /\ worker = "up" \/ \E c \in Contexts : ctx[c].step # "idle"
    /\ worker' = "down"
    /\ ctx' = [c \in Contexts |-> NoDelivery]
    /\ UNCHANGED <<kind, brokerVars, handlerVars>>

Restart == worker = "down" /\ worker' = "up" /\ UNCHANGED <<kind, brokerVars, ctx, handlerVars>>

Results == {"nil", "error", "permanent", "panic"}
Answers == {"accepted", "ambiguous", "rejected"}

\* The step a context's goroutine is at.
Step(c) ==
    \/ Handle(c)
    \/ \E result \in Results : Settle(c, result)
    \/ \E applied \in BOOLEAN : Acknowledge(c, applied)
    \/ \E answer \in Answers, applied \in BOOLEAN : Transfer(c, answer, applied)
    \/ \E applied, confirmed \in BOOLEAN : TransferAck(c, applied, confirmed)
    \/ \E ok \in BOOLEAN : RequestRedelivery(c, ok)

Next ==
    \/ \E c \in Contexts : Step(c) \/ \E r \in Records : Deliver(c, r)
    \/ \E r \in Records : Redeliverable(r) \/ WindowExpires(r)
    \/ StartDrain \/ ForceClose \/ RunReturns \/ Crash \/ Restart

Spec == Init /\ [][Next]_vars

\* Context c works on record r.
Has(c, r) == ctx[c].step # "idle" /\ ctx[c].rec = r

\* The broker delivers what is due and answers again and again; the worker's code
\* runs; a handler ends one way or the other; the platform restarts the process.
\* From some time on nobody stops or kills it from outside; handlers may still stop it
\* from inside, each time they run.
Fairness ==
    /\ <>[][~(StartDrain \/ ForceClose \/ Crash)]_vars
    /\ WF_vars(Restart \/ RunReturns)
    /\ \A c \in Contexts : WF_vars(Step(c))
    /\ \A r \in Records :
         /\ WF_vars(Redeliverable(r))
         /\ SF_vars(\E c \in Contexts : Deliver(c, r))
         /\ SF_vars(\E c \in Contexts : Has(c, r) /\ Acknowledge(c, TRUE))
         /\ SF_vars(\E c \in Contexts : Has(c, r) /\ Transfer(c, "accepted", TRUE))
         /\ SF_vars(\E c \in Contexts : Has(c, r) /\ TransferAck(c, TRUE, TRUE))

FairSpec == Spec /\ Fairness
-----------------------------------------------------------------------------
(* Properties *)

TypeOK ==
    /\ kind \in [Records -> Kinds]
    /\ acked \subseteq Records
    /\ due \subseteq Records \ acked
    /\ delivered \in [Records -> 0 .. attemptLimit + 1]
    /\ reasons \in [Records -> SUBSET Reasons]
    /\ worker \in {"up", "draining", "forced", "down"}
    /\ \A c \in Contexts :
         ctx[c] = NoDelivery
           \/ ctx[c] \in [step : Steps, rec : Records, n : 1 .. attemptLimit + 1, reason : Reasons]

\* NoLoss: a record leaves the source stream only after a handler succeeded with it or
\* a copy of it reached the dead-letter stream, whatever answer was lost and wherever
\* the process died (worker_delivery.go: acknowledge, deadLetter).
NoLoss == \A r \in acked : r \in succeeded \/ copies[r] > 0

\* OneCopy: a transfer repeated after an ambiguous publish, a lost source
\* acknowledgement or a restart adds a copy only when the dead-letter stream has
\* forgotten the earlier one (deadLetterTransferID).
OneCopy == \A r \in Records : copies[r] <= 1 + expiries[r]

\* ReasonIsTrue: a dead letter says why: the record does not decode, a handler called it
\* permanently unacceptable, or its deliveries are used up.  A record that decodes is
\* never given up on while it has deliveries left (settle, handle).
ReasonIsTrue ==
    \A r \in Records :
      /\ "malformed" \in reasons[r] => kind[r] = "malformed"
      /\ "permanent" \in reasons[r] => r \in refused
      /\ "exhausted" \in reasons[r] => kind[r] = "event" /\ delivered[r] >= attemptLimit

\* EventuallySettled: every record that fits the bounds leaves the source stream, also a
\* poison record whose handler panics each time and so stops the worker each time
\* (handle: the attempt limit is compared before the handler is invoked).
EventuallySettled ==
    \A r \in Records : kind[r] \in {"event", "malformed"} ~> r \in acked
=============================================================================
