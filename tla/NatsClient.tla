------------------------------- MODULE NatsClient -------------------------------
(***************************************************************************)
(* internal/infra/natsjs/client.go and worker_topology.go: one client from *)
(* Connect to Shutdown, with the readiness probes, the calls of NewWorker  *)
(* and the asynchronous handlers of the connection beside it.  A probe and *)
(* a NewWorker are sequences of steps between which the connection and the *)
(* flags may change.  The connection itself is external: nats.go runs the  *)
(* handlers one at a time, in the order of the events.                     *)
(***************************************************************************)
EXTENDS Naturals, Sequences, FiniteSets

CONSTANTS
    Probes,       \* readiness probes that may run at the same time
    Admissions,   \* calls of NewWorker
    MaxLosses,    \* bound: times the connection is lost
    None

Connecting == "connect"      \* the probe of Connect itself
Checks == Probes \cup Admissions \cup {Connecting}

VARIABLES
    conn,        \* "none", "connected", "lost", "draining", "closed"
    losses, exhausted,   \* losses so far; the reconnect attempts ran out
    handlers,    \* the handlers nats.go has still to run
    ready, draining, closeRequested, terminal, closed,   \* fields of Client
    claimed, consumer,   \* workerClaimed and the consumer that probes look at
    admission,   \* admission[a]: how far a call of NewWorker is
    check,       \* check[p]: how far a probe is
    owner,       \* how far the owner of the client is
    result,      \* what Connect (if it failed) or Shutdown returned
    run          \* what Run returned

connection == <<conn, losses, exhausted, handlers>>
flags == <<ready, draining, closeRequested, terminal, closed>>
workers == <<claimed, consumer, admission>>
vars == <<connection, flags, workers, check, owner, result, run>>

Init ==
    /\ conn = "none" /\ losses = 0 /\ exhausted = FALSE /\ handlers = <<>>
    /\ ready = FALSE /\ draining = FALSE /\ closeRequested = FALSE
    /\ terminal = None /\ closed = FALSE
    /\ claimed = FALSE /\ consumer = None
    /\ admission = [a \in Admissions |-> "idle"]
    /\ check = [p \in Checks |-> "idle"]
    /\ owner = "new" /\ result = None /\ run = None

-----------------------------------------------------------------------------
(* The connection *)

\* nats.go counts a connection that drains as connected.
IsConnected == conn \in {"connected", "draining"}

Lose ==
    /\ conn = "connected" /\ losses < MaxLosses
    /\ conn' = "lost" /\ losses' = losses + 1
    /\ handlers' = Append(handlers, "disconnect")
    /\ UNCHANGED <<exhausted, flags, workers, check, owner, result, run>>

Reconnect ==
    /\ conn = "lost"
    /\ conn' = "connected" /\ handlers' = Append(handlers, "reconnect")
    /\ UNCHANGED <<losses, exhausted, flags, workers, check, owner, result, run>>

\* MaxReconnects attempts failed, or the drain has ended.
ConnectionCloses ==
    /\ conn \in {"lost", "draining"}
    /\ conn' = "closed" /\ exhausted' = (conn = "lost")
    /\ handlers' = Append(handlers, "closed")
    /\ UNCHANGED <<losses, flags, workers, check, owner, result, run>>

\* Variant: every close is a fault.
isFaultAlways == TRUE

\* The closed handler's condition: nobody asked for this close.
isFault == ~closeRequested

\* DisconnectErrHandler, ReconnectHandler and ClosedHandler, with signalTerminal.
Handle ==
    /\ handlers # <<>>
    /\ handlers' = Tail(handlers)
    /\ ready' = FALSE
    /\ closed' = (closed \/ Head(handlers) = "closed")
    /\ terminal' = IF Head(handlers) = "closed" /\ isFault /\ terminal = None
                   THEN "fault" ELSE terminal
    /\ UNCHANGED <<conn, losses, exhausted, draining, closeRequested, workers, check, owner, result, run>>

-----------------------------------------------------------------------------
(* Probes *)

\* Whoever calls Check is there to call it: a readiness probe while the client serves or
\* drains, Connect and NewWorker in their turn.
MayCheck(p) ==
    /\ check[p] = "idle"
    /\ CASE p = Connecting -> owner = "probing"
         [] p \in Admissions -> admission[p] = "probing"
         [] OTHER -> owner \notin {"new", "probing", "refusing", "failed"}

\* probe up to its first request.
StartProbe(p) ==
    /\ MayCheck(p)
    /\ check' = [check EXCEPT ![p] = IF IsConnected /\ ~draining THEN "asked" ELSE "failed"]
    /\ UNCHANGED <<connection, flags, workers, owner, result, run>>

\* The stream and the consumer are asked, then the connection again.  A request fails for
\* reasons of the broker's own, and without a connection.
EndProbe(p) ==
    /\ check[p] = "asked"
    /\ \E ok \in IF IsConnected THEN BOOLEAN ELSE {FALSE} :
           check' = [check EXCEPT ![p] = IF ok THEN "passed" ELSE "failed"]
    /\ UNCHANGED <<connection, flags, workers, owner, result, run>>

\* Variant: a probe that fails leaves the flag alone.
recordedSuccess(p) == ready \/ check[p] = "passed"

\* What Check stores: the result of the probe.
recorded(p) == check[p] = "passed"

\* Check stores the result and returns to its caller.
Record(p) ==
    /\ check[p] \in {"passed", "failed"}
    /\ ready' = recorded(p)
    /\ check' = [check EXCEPT ![p] = "idle"]
    /\ admission' = IF p \in Admissions
                    THEN [admission EXCEPT ![p] = IF check[p] = "passed" THEN "admitted" ELSE "forget"]
                    ELSE admission
    /\ owner' = IF p # Connecting THEN owner
                ELSE IF check[p] = "passed" THEN "serving" ELSE "refusing"
    /\ UNCHANGED <<connection, draining, closeRequested, terminal, closed, claimed, consumer, result, run>>

-----------------------------------------------------------------------------
(* NewWorker *)

\* Variant: the claim is not asked for.
claimsAnyway == TRUE

\* workerClaimed.CompareAndSwap succeeds.
claims == ~claimed

Claim(a) ==
    /\ admission[a] = "idle" /\ owner \notin {"new", "probing", "refusing", "failed"}
    /\ admission' = [admission EXCEPT ![a] = IF claims THEN "creating" ELSE "refused"]
    /\ claimed' = (claimed \/ claims)
    /\ UNCHANGED <<connection, flags, consumer, check, owner, result, run>>

\* The dead-letter stream is looked up and the durable consumer created; any of it may fail.
Create(a) ==
    /\ admission[a] = "creating"
    /\ \/ IsConnected /\ consumer' = a /\ admission' = [admission EXCEPT ![a] = "probing"]
       \/ UNCHANGED consumer /\ admission' = [admission EXCEPT ![a] = "release"]
    /\ UNCHANGED <<connection, flags, claimed, check, owner, result, run>>

\* Variant: the claim is given back before the consumer is withdrawn.
WithdrawEarly(a) ==
    \/ /\ admission[a] = "forget"
       /\ claimed' = FALSE /\ admission' = [admission EXCEPT ![a] = "release"]
       /\ UNCHANGED <<connection, flags, consumer, check, owner, result, run>>
    \/ /\ admission[a] = "release"
       /\ consumer' = None /\ admission' = [admission EXCEPT ![a] = "refused"]
       /\ UNCHANGED <<connection, flags, claimed, check, owner, result, run>>

\* After the failed check the consumer is withdrawn; the deferred function then gives the
\* claim back, as it does after every other failure.
Withdraw(a) ==
    \/ /\ admission[a] = "forget"
       /\ consumer' = None /\ admission' = [admission EXCEPT ![a] = "release"]
       /\ UNCHANGED <<connection, flags, claimed, check, owner, result, run>>
    \/ /\ admission[a] = "release"
       /\ claimed' = FALSE /\ admission' = [admission EXCEPT ![a] = "refused"]
       /\ UNCHANGED <<connection, flags, consumer, check, owner, result, run>>

-----------------------------------------------------------------------------
(* The owner *)

\* Connect: validation and the dial may fail, then the first probe decides (Record).
Connect ==
    /\ owner = "new"
    /\ \/ conn' = "connected" /\ owner' = "probing" /\ UNCHANGED result
       \/ owner' = "failed" /\ result' = "rejected" /\ UNCHANGED conn
    /\ UNCHANGED <<losses, exhausted, handlers, flags, workers, check, run>>

\* nc.Close: a connection that is already closed stays so, and its handler ran once.
CloseConnection ==
    /\ conn' = "closed"
    /\ handlers' = IF conn = "closed" THEN handlers ELSE Append(handlers, "closed")
    /\ UNCHANGED <<losses, exhausted>>

\* Close: the three flags, then the connection.
Close ==
    /\ closeRequested' = TRUE /\ ready' = FALSE /\ draining' = TRUE
    /\ CloseConnection
    /\ UNCHANGED <<terminal, closed>>

\* Connect gives the connection of a failed probe up.
RefuseConnect ==
    /\ owner = "refusing"
    /\ Close /\ owner' = "failed" /\ result' = "rejected"
    /\ UNCHANGED <<workers, check, run>>

\* StopPublish, by itself while the process drains or as the start of Shutdown.
StopPublish ==
    /\ owner = "serving"
    /\ draining' = TRUE /\ ready' = FALSE /\ owner' = "stopped"
    /\ UNCHANGED <<connection, closeRequested, terminal, closed, workers, check, result, run>>

\* Variant: the flag is left to Close.
RequestLate ==
    /\ owner = "stopped" /\ owner' = "draining"
    /\ UNCHANGED <<connection, flags, workers, check, result, run>>

\* Shutdown announces the close before it causes it.
Request ==
    /\ owner = "stopped" /\ owner' = "draining"
    /\ draining' = TRUE /\ ready' = FALSE /\ closeRequested' = TRUE
    /\ UNCHANGED <<connection, terminal, closed, workers, check, result, run>>

\* nc.Drain: on a lost connection it closes and fails, on a closed one it reports the close.
Drain ==
    /\ owner = "draining"
    /\ CASE conn = "connected" -> /\ conn' = "draining" /\ owner' = "waiting"
                                  /\ UNCHANGED <<losses, exhausted, handlers, result, flags>>
         [] conn = "closed" -> owner' = "waiting" /\ UNCHANGED <<connection, result, flags>>
         [] OTHER -> Close /\ owner' = "done" /\ result' = "drain failed"
    /\ UNCHANGED <<workers, check, run>>

\* Shutdown's select.
Joined ==
    /\ owner = "waiting" /\ closed
    /\ owner' = "done" /\ result' = "nil"
    /\ UNCHANGED <<connection, flags, workers, check, run>>

Deadline ==
    /\ owner = "waiting"
    /\ Close /\ owner' = "done" /\ result' = "deadline"
    /\ UNCHANGED <<workers, check, run>>

\* Run: its context ends with the drain of the process, or the fault arrives.
Run ==
    /\ run = None /\ owner \notin {"new", "probing", "refusing", "failed"}
    /\ \/ terminal # None /\ run' = "fault" /\ terminal' = None
       \/ owner # "serving" /\ run' = "context" /\ UNCHANGED terminal
    /\ UNCHANGED <<connection, ready, draining, closeRequested, closed, workers, check, owner, result>>

\* A fault that ends Run makes the process drain; it may drain for reasons of its own.
Next ==
    \/ Lose \/ Reconnect \/ ConnectionCloses \/ Handle
    \/ \E p \in Checks : StartProbe(p) \/ EndProbe(p) \/ Record(p)
    \/ \E a \in Admissions : Claim(a) \/ Create(a) \/ Withdraw(a)
    \/ Connect \/ RefuseConnect \/ StopPublish \/ Request \/ Drain \/ Joined \/ Deadline \/ Run

Probe(p) == StartProbe(p) \/ EndProbe(p) \/ Record(p)

\* The handlers are a goroutine of nats.go, a probe is bounded by operationTimeout, and the
\* readiness loop probes again.
Fairness ==
    /\ WF_vars(Handle)
    /\ \A p \in Checks : WF_vars(Probe(p))

Spec == Init /\ [][Next]_vars /\ Fairness

-----------------------------------------------------------------------------
(* Properties *)

\* Client.Ready.
Ready == ready /\ ~draining

\* OneWorker: of the calls of NewWorker at most one owns the client, the consumer the probes
\* look at is that call's own from its check on, and a failed call leaves neither a claim
\* nor a consumer behind.
OneWorker ==
    LET owns == {a \in Admissions : admission[a] \notin {"idle", "refused"}}
    IN  /\ Cardinality(owns) <= 1
        /\ claimed <=> owns # {}
        /\ \A a \in Admissions : admission[a] \in {"probing", "admitted"} => consumer = a
        /\ owns = {} => consumer = None

\* FaultIsTold: a connection whose reconnect attempts ran out is a terminal fault for Run
\* unless the owner had already asked for the close, and a close the owner asked for is none.
FaultIsTold ==
    /\ terminal # None \/ run = "fault" => exhausted
    /\ exhausted /\ handlers = <<>> /\ ~closeRequested => terminal # None \/ run = "fault"

\* ClosedIsUnready: whatever probe was under way when the connection closed or the drain
\* began, and however late it stores its result, the client ends up not ready for good.
ClosedIsUnready == (conn = "closed" \/ draining) ~> []~Ready

=============================================================================
