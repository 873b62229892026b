------------------------------ MODULE MCAdapters ------------------------------
(***************************************************************************)
(* Model-checking instance of what a process derives from its environment   *)
(* and asks of other systems: a behaviour is one of TeardownBudget, of      *)
(* Configuration, of Telemetry, of Migration, of ObjectStore, of            *)
(* OutboundHttp, of WebhookFanout or of WebhookDelivery.  They share no     *)
(* state; `part` says which runs, and the others stay in an initial state,  *)
(* or are "-".                                                              *)
(*                                                                         *)
(* Budget: five-bit durations and the four stages of the service's tail in  *)
(* proportion (diagnostics 2s, background, dependencies and telemetry 5s    *)
(* each, in units of 2.5s).  Configuration: at most three settings over two *)
(* files and the environment, or every combination of the related limits.   *)
(* Migration: two jobs overlap over a history of at most two versions.      *)
(* Objects: two calls compete for one slot; objects have one, two or three  *)
(* parts where two are allowed.  HTTP: two calls compete for one admission; *)
(* bodies are below, at and above either limit.  Fan-out: plans that are    *)
(* equal, overlap or share no delivery, and that put one delivery first in  *)
(* one and later in another.  Delivery: a backoff of 3 doubling to 6 with a *)
(* jitter of one or two, a deadline at 10 that cuts the third delay, and    *)
(* Retry-After values below the backoff, above it and beyond the cap, or    *)
(* dates that are not in the future.                                        *)
(***************************************************************************)
EXTENDS TeardownBudget, WebhookRetry, TLC

CONSTANTS
    MaxSettings, MaxDuration, Tail, ProbeNeeds,
    Runs, Latest,
    Calls, Slots, PartBytes, MaxParts,
    MaxInFlight, AbsoluteBodyBytes, MaxBodyBytes,
    Callers, Plans, MaxStages,
    Addresses, MaxAttempts, Horizon,
    None

TailWant == <<1, 2, 2, 2>>
TailRest == <<7, 6, 4, 2, 0>>
\* No definition singles out a call of the object store or of the HTTP client, or a run.
Symmetry == Permutations(Calls) \cup Permutations(Runs)

MCPlans == {<<"d1">>, <<"d1", "d2">>, <<"d2", "d3">>}

VARIABLES
    part,
    binary, sources, oddity, limits, features, memory, loading, gaveUp, merged, scalars, failed,
    started,
    settings, setup, signal, report, flushed,
    input, progress, live, outcome, failure, pending, applied, did, history, effects, lock,
    built, limit, call, where, canceled, attempts, answer, whole, res, tokens, object, wrote, taken,
    client, inFlight, exchange,
    plan, row, owner, limbo, at, next, fresh, stages, result, accepted, deleted,
    clock, job, attempt, due, hint, step, began, address, addresses, returned, writes, acked

Config == INSTANCE Configuration WITH at <- loading, canceled <- gaveUp
Otlp == INSTANCE Telemetry WITH stage <- setup
Migrate == INSTANCE Migration
    WITH at <- progress, result <- outcome, stage <- failure, plan <- pending
Objects == INSTANCE ObjectStore WITH at <- where, applied <- wrote
Http == INSTANCE OutboundHttp WITH call <- exchange
Fanout == INSTANCE WebhookFanout
Delivery == INSTANCE WebhookDelivery WITH now <- clock

configVars == <<binary, sources, oddity, limits, features, memory, loading, gaveUp, merged,
                scalars, failed, started>>
otlpVars == <<settings, setup, signal, report, flushed>>
migrationVars == <<input, progress, live, outcome, failure, pending, applied, did, history,
                   effects, lock>>
objectVars == <<built, limit, call, where, canceled, attempts, answer, whole, res, tokens, object,
                wrote, taken>>
httpVars == <<client, inFlight, exchange>>
fanoutVars == <<plan, row, owner, limbo, at, next, fresh, stages, result, accepted, deleted>>
deliveryVars == <<clock, job, attempt, due, hint, step, began, address, addresses, returned,
                  writes, acked>>
ownVars == <<vars, configVars, otlpVars, migrationVars>>
clientVars == <<objectVars, httpVars, fanoutVars, deliveryVars>>
allVars == <<part, ownVars, clientVars>>

NoConfig ==
    /\ binary = "-" /\ sources = "-" /\ oddity = "-" /\ limits = "-" /\ features = "-"
    /\ memory = "-" /\ loading = "-" /\ gaveUp = "-" /\ merged = "-" /\ scalars = "-"
    /\ failed = "-" /\ started = "-"
NoOtlp == settings = "-" /\ setup = "-" /\ signal = "-" /\ report = "-" /\ flushed = "-"
NoMigration ==
    /\ input = "-" /\ progress = "-" /\ live = "-" /\ outcome = "-" /\ failure = "-"
    /\ pending = "-" /\ applied = "-" /\ did = "-" /\ history = "-" /\ effects = "-"
    /\ lock = "-"
NoObjects ==
    /\ built = "-" /\ limit = "-" /\ call = "-" /\ where = "-" /\ canceled = "-" /\ attempts = "-"
    /\ answer = "-" /\ whole = "-" /\ res = "-" /\ tokens = "-" /\ object = "-" /\ wrote = "-"
    /\ taken = "-"
NoHttp == client = "-" /\ inFlight = "-" /\ exchange = "-"

Parts == {"budget", "config", "otlp", "migration", "objects", "http", "fanout", "delivery"}

MCInit ==
    /\ part \in Parts
    /\ Init /\ (part # "budget" => grace = 0 /\ drain = 0)
    /\ IF part = "config" THEN Config!Init ELSE NoConfig
    /\ IF part = "otlp" THEN Otlp!Init ELSE NoOtlp
    /\ IF part = "migration" THEN Migrate!Init ELSE NoMigration
    /\ IF part = "objects" THEN Objects!Init ELSE NoObjects
    /\ IF part = "http" THEN Http!Init ELSE NoHttp
    /\ Fanout!Init /\ (part # "fanout" => plan = [c \in Callers |-> <<"d1">>])
    /\ Delivery!Init

InBudget == part = "budget" /\ UNCHANGED <<part, configVars, otlpVars, migrationVars, clientVars>>
InConfig == part = "config" /\ UNCHANGED <<part, vars, otlpVars, migrationVars, clientVars>>
InOtlp == part = "otlp" /\ UNCHANGED <<part, vars, configVars, migrationVars, clientVars>>
InMigration == part = "migration" /\ UNCHANGED <<part, vars, configVars, otlpVars, clientVars>>
InObjects == part = "objects" /\ UNCHANGED <<part, ownVars, httpVars, fanoutVars, deliveryVars>>
InHttp == part = "http" /\ UNCHANGED <<part, ownVars, objectVars, fanoutVars, deliveryVars>>
InFanout == part = "fanout" /\ UNCHANGED <<part, ownVars, objectVars, httpVars, deliveryVars>>
InDelivery == part = "delivery" /\ UNCHANGED <<part, ownVars, objectVars, httpVars, fanoutVars>>

BudgetNext ==
    \/ InBudget /\ Validate
    \/ InBudget /\ ArmTeardown
    \/ InBudget /\ FailStartup
    \/ InBudget /\ TeardownStage
    \/ InBudget /\ Work
    \/ InBudget /\ EndStage
    \/ InBudget /\ Lose
    \/ InBudget /\ Exit
    \/ InBudget /\ Done

ConfigNext ==
    \/ InConfig /\ Config!Defaults
    \/ InConfig /\ Config!LoadBase
    \/ InConfig /\ Config!LoadOverlay
    \/ InConfig /\ Config!LoadEnvironment
    \/ InConfig /\ Config!Build
    \/ InConfig /\ Config!Validate
    \/ InConfig /\ Config!Start

OtlpNext ==
    \/ InOtlp /\ Otlp!SetupMetrics
    \/ InOtlp /\ Otlp!TracingStage
    \/ InOtlp /\ Otlp!Report
    \/ InOtlp /\ Otlp!Stop
    \/ InOtlp /\ Otlp!Flush

MigrationNext ==
    \/ InMigration /\ \E r \in Runs : Migrate!Begin(r)
    \/ InMigration /\ \E r \in Runs : Migrate!ReadVersions(r)
    \/ InMigration /\ \E r \in Runs : Migrate!Pending(r)
    \/ InMigration /\ \E r \in Runs : Migrate!Lock(r)
    \/ InMigration /\ \E r \in Runs, v \in Migrate!Versions : Migrate!Migrate(r, v)
    \/ InMigration /\ \E r \in Runs : Migrate!Ran(r)
    \/ InMigration /\ \E r \in Runs : Migrate!EmptySource(r)
    \/ InMigration /\ \E r \in Runs : Migrate!Unlock(r)
    \/ InMigration /\ \E r \in Runs : Migrate!Reread(r)
    \/ InMigration /\ \E r \in Runs : Migrate!Close(r)
    \/ InMigration /\ \E r \in Runs : Migrate!EndSession(r)
    \/ InMigration /\ \E r \in Runs : Migrate!SessionBreaks(r)
    \/ InMigration /\ \E r \in Runs : Migrate!Cancel(r)
    \/ InMigration /\ \E r \in Runs : Migrate!Crash(r)
    \/ InMigration /\ Migrate!Done

ObjectsNext ==
    \/ InObjects /\ \E c \in Calls : Objects!Call(c)
    \/ InObjects /\ \E c \in Calls : Objects!Serve(c)
    \/ InObjects /\ \E c \in Calls : Objects!GiveUp(c)
    \/ InObjects /\ \E c \in Calls : Objects!Return(c)
    \/ InObjects /\ \E c \in Calls : Objects!Open(c)
    \/ InObjects /\ \E c \in Calls : Objects!Read(c)
    \/ InObjects /\ \E c \in Calls : Objects!CloseBody(c)
    \/ InObjects /\ \E c \in Calls : Objects!Cancel(c)
    \/ InObjects /\ Objects!Other
    \/ InObjects /\ Objects!Done

HttpNext ==
    \/ InHttp /\ \E c \in Calls, policy, usable \in BOOLEAN : Http!Start(c, policy, usable)
    \/ InHttp /\ \E c \in Calls : Http!Admit(c)
    \/ InHttp /\ \E c \in Calls, why \in {"denied", "broken"} : Http!SendFails(c, why)
    \/ InHttp /\ \E c \in Calls, a \in Http!Destinations, size \in Http!Sizes, announced \in BOOLEAN :
         Http!Answer(c, a, size, announced)
    \/ InHttp /\ \E c \in Calls, length \in 1 .. 2, n \in 0 .. 2, end \in BOOLEAN :
         Http!Read(c, length, n, end)
    \/ InHttp /\ \E c \in Calls : Http!ReadFails(c)
    \/ InHttp /\ \E c \in Calls : Http!Close(c)
    \/ InHttp /\ \E c \in Calls : Http!Cancel(c)
    \/ InHttp /\ \E c \in Calls : Http!Timeout(c)

FanoutNext ==
    \/ InFanout /\ \E c \in Callers : Fanout!Stage(c)
    \/ InFanout /\ \E c \in Callers : Fanout!CommitLost(c)
    \/ InFanout /\ \E c \in Callers : Fanout!ResolveCurrent(c)
    \/ InFanout /\ \E t \in limbo : Fanout!ServerDecides(t)
    \/ InFanout /\ \E a \in Fanout!AcceptanceIds : Fanout!Delete(a)
    \/ InFanout /\ Fanout!Done

DeliveryNext ==
    \/ InDelivery /\ Delivery!Tick
    \/ InDelivery /\ Delivery!Fetch
    \/ InDelivery /\ Delivery!Begin
    \/ InDelivery /\ Delivery!Report
    \/ InDelivery /\ Delivery!Crash
    \/ InDelivery /\ Delivery!Rescue
    \/ InDelivery /\ Delivery!Done
    \/ InDelivery /\ \E certainty \in {"not sent", "may have sent"}, permanent \in BOOLEAN :
         Delivery!SendFails(certainty, permanent)
    \/ InDelivery /\ \E status \in {"2xx", "retryable", "other"}, delay \in retryAfters(began) :
         Delivery!Respond(status, delay)

\* A process is configured and set up once, and no more requests come; all the others say
\* themselves when they are over.
Quiet == part \in {"config", "otlp", "http"} /\ UNCHANGED allVars

MCNext ==
    \/ BudgetNext \/ ConfigNext \/ OtlpNext \/ MigrationNext \/ ObjectsNext \/ HttpNext
    \/ FanoutNext \/ DeliveryNext \/ Quiet

MCSpec == MCInit /\ [][MCNext]_allVars

-----------------------------------------------------------------------------
(* Properties, of whichever part runs; see its module.  StageKeepsItsBudget is
   TeardownBudget's own. *)

\* LoadIsFaithful: a configuration that loads has every value the binary reads from the
\* strongest source that sets it, none of them unknown or a secret from a file, and a failure
\* says why; the jobs worker ignores the keys of other sections, known or not
\* (Configuration).
LoadIsFaithful == part = "config" => Config!LoadIsFaithful

\* AcceptedSettingsHold: what the accepted limits promise each other holds at run time, and
\* the two binaries agree on them (Configuration).
AcceptedSettingsHold == part = "config" => Config!AcceptedSettingsHold

\* TelemetryIsHonest: credentials go only to the endpoint their owner named, and the startup
\* records and the flush tell each signal as it is, whatever became of the other (Telemetry).
TelemetryIsHonest == part = "otlp" => Otlp!TelemetryIsHonest /\ Otlp!CredentialsStayHome

\* MigratedOnce: whatever runs overlap, fail or crash, each recorded migration is in force
\* exactly once and the recorded ones are a prefix of the source (Migration).
MigratedOnce == part = "migration" => Migrate!MigratedOnce

\* OutcomeIsTrue: what a run of the migration job reports, what a call of the object store
\* returns, what a caller of the HTTP client learns and what a caller of the fan-out is told
\* is what happened: the versions that were applied, a change that was made, may have been
\* made or was not, a body that is whole and within its limit, a fan-out staged and accepted
\* as a whole
\* (Migration, ObjectStore, OutboundHttp, WebhookFanout).
OutcomeIsTrue ==
    /\ part = "migration" => Migrate!RunIsTruthful
    /\ part = "objects" => Objects!OutcomeIsTrue /\ Objects!FitsParts
    /\ part = "http" => Http!OutcomeIsTrue
    /\ Fanout!ResultIsTrue /\ Fanout!StagedWhole

\* AdmissionsAreExact: the slots of the object store and the admissions of the HTTP client
\* are held by exactly the calls under way, bodies that are still open included.
AdmissionsAreExact ==
    /\ part = "objects" => Objects!SlotsAreExact
    /\ part = "http" => Http!AdmissionsAreExact

\* DeliveryIsGentle: the jobs of an event are all of one fan-out, an attempt may have
\* reached one address at most, and none but the cancelling one begins before the capped
\* Retry-After that River has stored (WebhookFanout, WebhookDelivery).
DeliveryIsGentle ==
    []Fanout!OneFanoutPerEvent /\ []Delivery!OneAddressPerAttempt /\ Delivery!RetryAfterHonoured
=============================================================================
