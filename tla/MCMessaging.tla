------------------------------ MODULE MCMessaging ------------------------------
(***************************************************************************)
(* Model-checking instance of messaging: a behaviour is one of              *)
(* NatsDelivery, of NatsClient, of NatsRedrive or of Outbox.  They share no *)
(* state; `part` says which runs, and the others stay in an initial state.  *)
(*                                                                         *)
(* Delivery: one record, of each kind, and two consume contexts that may    *)
(* hold it at the same time.  Client: two calls of NewWorker, a readiness   *)
(* probe and one loss of the connection.  Redrive: an event of this service *)
(* and a message of another publisher, and room for each to fail, to come   *)
(* back and to fail again.  Outbox: two transactions append under one id.   *)
(***************************************************************************)
EXTENDS NatsDelivery

CONSTANTS
    Probes, Admissions, MaxLosses,
    Events, Strangers, MaxRecords, Bad,
    Callers, Ids, MaxAttempts, MaxStores, None

VARIABLES
    part,
    conn, losses, exhausted, handlers, ready, draining, closeRequested, terminal, closed, claimed,
    consumer, admission, check, owner, result, run,
    setting, up, event, streams, settled, handled,
    appended, at, res, inserter, job, work, stream, recent, forgotten, relayDraining, committed

Client == INSTANCE NatsClient
Redrive == INSTANCE NatsRedrive
Relay == INSTANCE Outbox
    WITH event <- appended, owner <- inserter, window <- recent, expired <- forgotten,
         draining <- relayDraining

clientVars == <<conn, losses, exhausted, handlers, ready, draining, closeRequested, terminal,
                closed, claimed, consumer, admission, check, owner, result, run>>
redriveVars == <<setting, up, event, streams, settled, handled>>
outboxVars == <<appended, at, res, inserter, job, work, stream, recent, forgotten, relayDraining,
                committed>>
allVars == <<part, vars, clientVars, redriveVars, outboxVars>>

NoRedrive ==
    /\ setting = "-" /\ up = "-" /\ event = "-" /\ settled = "-" /\ handled = "-"
    /\ streams = [source |-> <<>>, dead |-> <<>>]
NoOutbox ==
    /\ appended = "-" /\ at = "-" /\ res = "-" /\ inserter = "-" /\ job = "-" /\ work = "-"
    /\ stream = "-" /\ recent = "-" /\ forgotten = "-" /\ relayDraining = "-" /\ committed = "-"

MCInit ==
    /\ part \in {"delivery", "client", "redrive", "outbox"}
    /\ Init /\ Client!Init
    /\ part # "delivery" => kind = [r \in Records |-> "event"]
    /\ IF part = "redrive" THEN Redrive!Init ELSE NoRedrive
    /\ IF part = "outbox" THEN Relay!Init ELSE NoOutbox

InDelivery == part = "delivery" /\ UNCHANGED <<part, clientVars, redriveVars, outboxVars>>
InClient == part = "client" /\ UNCHANGED <<part, vars, redriveVars, outboxVars>>
InRedrive == part = "redrive" /\ UNCHANGED <<part, vars, clientVars, outboxVars>>
InOutbox == part = "outbox" /\ UNCHANGED <<part, vars, clientVars, redriveVars>>

DeliveryNext ==
    \/ \E c \in Contexts, r \in Records : InDelivery /\ Deliver(c, r)
    \/ \E c \in Contexts : InDelivery /\ Handle(c)
    \/ \E c \in Contexts, outcome \in Results : InDelivery /\ Settle(c, outcome)
    \/ \E c \in Contexts, applied \in BOOLEAN : InDelivery /\ Acknowledge(c, applied)
    \/ \E c \in Contexts, reply \in Answers, applied \in BOOLEAN :
         InDelivery /\ Transfer(c, reply, applied)
    \/ \E c \in Contexts, applied, confirmed \in BOOLEAN :
         InDelivery /\ TransferAck(c, applied, confirmed)
    \/ \E c \in Contexts, ok \in BOOLEAN : InDelivery /\ RequestRedelivery(c, ok)
    \/ \E r \in Records : InDelivery /\ Redeliverable(r)
    \/ \E r \in Records : InDelivery /\ WindowExpires(r)
    \/ InDelivery /\ StartDrain
    \/ InDelivery /\ ForceClose
    \/ InDelivery /\ RunReturns
    \/ InDelivery /\ Crash
    \/ InDelivery /\ Restart

ClientNext ==
    \/ InClient /\ Client!Lose
    \/ InClient /\ Client!Reconnect
    \/ InClient /\ Client!ConnectionCloses
    \/ InClient /\ Client!Handle
    \/ \E p \in Client!Checks : InClient /\ Client!StartProbe(p)
    \/ \E p \in Client!Checks : InClient /\ Client!EndProbe(p)
    \/ \E p \in Client!Checks : InClient /\ Client!Record(p)
    \/ \E a \in Admissions : InClient /\ Client!Claim(a)
    \/ \E a \in Admissions : InClient /\ Client!Create(a)
    \/ \E a \in Admissions : InClient /\ Client!Withdraw(a)
    \/ InClient /\ Client!Connect
    \/ InClient /\ Client!RefuseConnect
    \/ InClient /\ Client!StopPublish
    \/ InClient /\ Client!Request
    \/ InClient /\ Client!Drain
    \/ InClient /\ Client!Joined
    \/ InClient /\ Client!Deadline
    \/ InClient /\ Client!Run

RedriveNext ==
    \/ \E e \in Events : InRedrive /\ Redrive!Publish(e)
    \/ \E s \in Strangers, odd \in Redrive!Oddities : InRedrive /\ Redrive!Intrude(s, odd)
    \/ \E i \in DOMAIN streams.source : InRedrive /\ Redrive!Deliver(i)
    \/ \E j \in DOMAIN streams.dead : InRedrive /\ Redrive!Redrive(j)

OutboxNext ==
    \/ \E c \in Callers : InOutbox /\ Relay!Append(c)
    \/ \E c \in Callers : InOutbox /\ Relay!Commit(c)
    \/ \E c \in Callers : InOutbox /\ Relay!Rollback(c)
    \/ \E i \in Ids : InOutbox /\ Relay!Fetch(i)
    \/ \E i \in Ids : InOutbox /\ Relay!Publish(i)
    \/ \E i \in Ids : InOutbox /\ Relay!Store(i)
    \/ \E i \in Ids : InOutbox /\ Relay!Acked(i)
    \/ \E i \in Ids : InOutbox /\ Relay!Lost(i)
    \/ \E i \in Ids : InOutbox /\ Relay!Forget(i)
    \/ \E i \in Ids : InOutbox /\ Relay!Delete(i)
    \/ InOutbox /\ Relay!StopPublish
    \/ InOutbox /\ Relay!Restart
    \/ InOutbox /\ Relay!Done

\* A client that was shut down rests, and so does a dead-letter stream nobody redrives.
Quiet == part \in {"client", "redrive"} /\ UNCHANGED allVars

MCNext == DeliveryNext \/ ClientNext \/ RedriveNext \/ OutboxNext \/ Quiet

\* The fairness of each part, in its own behaviours.
MCSpec ==
    /\ MCInit /\ [][MCNext]_allVars
    /\ <>[][~(InDelivery /\ (StartDrain \/ ForceClose \/ Crash))]_allVars
    /\ WF_allVars(InDelivery /\ (Restart \/ RunReturns))
    /\ \A c \in Contexts : WF_allVars(InDelivery /\ Step(c))
    /\ \A r \in Records :
         /\ WF_allVars(InDelivery /\ Redeliverable(r))
         /\ SF_allVars(InDelivery /\ \E c \in Contexts : Deliver(c, r))
         /\ SF_allVars(InDelivery /\ \E c \in Contexts : Has(c, r) /\ Acknowledge(c, TRUE))
         /\ SF_allVars(InDelivery /\ \E c \in Contexts : Has(c, r) /\ Transfer(c, "accepted", TRUE))
         /\ SF_allVars(InDelivery /\ \E c \in Contexts : Has(c, r) /\ TransferAck(c, TRUE, TRUE))
    /\ WF_allVars(InClient /\ Client!Handle)
    /\ \A p \in Client!Checks : WF_allVars(InClient /\ Client!Probe(p))
    /\ \A i \in Ids : WF_allVars(InOutbox /\ Relay!Relay(i))

-----------------------------------------------------------------------------
(* Properties, of whichever part runs; see its module.  NoLoss is NatsDelivery's own. *)

\* DeadLetterIsTrue: a delivery that is given up is one copy, with the reason for it, while
\* the dead-letter stream remembers it; it comes back at most once per copy, as the event it
\* was; and a worker never receives what it dead-letters (NatsDelivery, NatsRedrive).
DeadLetterIsTrue ==
    /\ OneCopy /\ ReasonIsTrue
    /\ part = "redrive" => Redrive!MovedOnce /\ Redrive!WireIsFaithful

\* EverythingSettles: every record that fits the bounds leaves the source stream, and every
\* staged event is published or has used its attempts (NatsDelivery, Outbox).
EverythingSettles ==
    \A r \in Records, i \in Ids :
      (\/ part = "delivery" /\ kind[r] \in {"event", "malformed"}
       \/ part = "outbox" /\ job[i].state = "available") ~>
        (\/ part = "delivery" /\ r \in acked
         \/ part = "outbox" /\ job[i].state \in {"completed", "discarded", "none"})

\* OneWorker: one call of NewWorker at most owns the client, a failed one leaves nothing
\* behind, and a lost connection is a fault unless the owner asked for the close (NatsClient).
OneWorker == Client!OneWorker /\ Client!FaultIsTold

\* ClosedIsUnready: whatever probe was under way when the connection closed or the drain
\* began, the client ends up not ready for good (NatsClient).
ClosedIsUnready == Client!ClosedIsUnready

\* OutboxIsFaithful: what is published was committed, once while the broker remembers it, and
\* a completed job is in the stream (Outbox).
OutboxIsFaithful == part = "outbox" => Relay!OutboxIsFaithful
=============================================================================
