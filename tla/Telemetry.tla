------------------------------ MODULE Telemetry ------------------------------
(***************************************************************************)
(* Telemetry of one process: where its traces and metrics are exported     *)
(* (internal/infra/telemetry), how the service brings both signals up,     *)
(* what it reports about them and how it flushes them                      *)
(* (cmd/service/internal/bootstrap/startup_telemetry.go).                  *)
(*                                                                         *)
(* A setting is empty, bad (the exporter cannot use it) or good; the       *)
(* shared endpoint is good either as a bare collector root, which serves   *)
(* both signals, or as a complete traces endpoint.  Of the standard        *)
(* OTEL_EXPORTER_OTLP_* variables the model keeps the three that name an   *)
(* endpoint and the credential or trust material, shared or per signal.    *)
(***************************************************************************)
EXTENDS Naturals, Sequences, FiniteSets

VARIABLES settings,  \* the service's configuration and the process environment
          stage,     \* "metrics", "tracing", "report", "serving", "flush", "done"
          signal,    \* [Signals -> what setup left behind]
          report,    \* what the startup records say
          flushed    \* the signals whose provider was shut down, in order

vars == <<settings, stage, signal, report, flushed>>

Signals == {"traces", "metrics"}

\* The variables that name an endpoint, and those that carry credentials.
endpointEnv == [s \in Signals |-> IF s = "traces" THEN "TRACES_ENDPOINT" ELSE "METRICS_ENDPOINT"]

credentialEnv == [s \in Signals |-> IF s = "traces" THEN "TRACES_HEADERS" ELSE "METRICS_HEADERS"]

Endpoints == {"ENDPOINT", "TRACES_ENDPOINT", "METRICS_ENDPOINT"}

Credentials == {"HEADERS", "TRACES_HEADERS", "METRICS_HEADERS"}

\* What parseOTLPURL and namesOTLPRoot make of each setting: empty, unusable, a bare
\* root, or an endpoint.
Settings ==
    [shared : {"", "bad", "root", "path"}, metricsKey : {"", "bad", "good"},
     headers : {"", "bad", "good"}, named : [Endpoints -> {"", "bad", "good"}],
     credentials : SUBSET Credentials]

NoEndpoint == [source |-> "", owned |-> FALSE]

Unset == [installed |-> FALSE, exporting |-> FALSE, endpoint |-> NoEndpoint, err |-> FALSE, own |-> FALSE]

Init ==
    /\ settings \in Settings
    /\ stage = "metrics"
    /\ signal = [s \in Signals |-> Unset]
    /\ report = [metrics |-> "", traces |-> "", additional |-> {}]
    /\ flushed = <<>>

Configured(endpoint) == endpoint.source # ""

-----------------------------------------------------------------------------
(***************************************************************************)
(* Resolving an endpoint.  The settings the service owns come first, then  *)
(* the environment, and only while no header is configured: a header is a  *)
(* collector's credential and stays with a destination the service named.  *)
(***************************************************************************)
Candidate(source, raw) == [source |-> source, raw |-> raw]

\* namesOTLPRoot: metrics borrow the shared setting only if it is a bare root.
owned(s) ==
    IF s = "traces" THEN <<Candidate("shared", settings.shared)>>
    ELSE <<Candidate("metricsKey", settings.metricsKey)>>
         \o (IF settings.shared = "root" THEN <<Candidate("shared", "root")>> ELSE <<>>)

ambientOTLPCandidates(s) ==
    <<Candidate(endpointEnv[s], settings.named[endpointEnv[s]]),
      Candidate("ENDPOINT", settings.named["ENDPOINT"])>>

\* The candidates that hold something, in order.
holding(list) == SelectSeq(list, LAMBDA c : c.raw # "")

\* Whether the environment may name the destination.
ambientAllowedAlways == TRUE

ambientAllowed == settings.headers = ""

\* The first candidate that holds something decides: its endpoint, an error
\* when it is bad, or no endpoint at all.
resolveOTLPEndpoint(s) ==
    LET mine == holding(owned(s))
        theirs == IF ambientAllowed THEN holding(ambientOTLPCandidates(s)) ELSE <<>>
        all == mine \o theirs
    IN IF all = <<>> THEN [endpoint |-> NoEndpoint, err |-> FALSE]
       ELSE IF Head(all).raw = "bad" THEN [endpoint |-> NoEndpoint, err |-> TRUE]
       ELSE [endpoint |-> [source |-> Head(all).source, owned |-> mine # <<>>], err |-> FALSE]

RejectedAmbientEnvOfSignal(s, endpoint) ==
    IF endpoint.owned THEN settings.credentials \cap {credentialEnv[s]} ELSE {}

\* The credential variables exporter setup refuses rather than sends to a
\* destination the service named.
RejectedAmbientEnv(s, endpoint) ==
    IF endpoint.owned THEN settings.credentials \cap {"HEADERS", credentialEnv[s]} ELSE {}

\* otlpExporterHeaders and the exporter's constructor, which may also fail.
exporterErrors(s, endpoint) ==
    IF RejectedAmbientEnv(s, endpoint) # {} \/ settings.headers = "bad" THEN {TRUE} ELSE BOOLEAN

-----------------------------------------------------------------------------
(***************************************************************************)
(* Setting the signals up.  "own" remembers that a signal's own settings   *)
(* or its own constructors are what failed.                                *)
(***************************************************************************)

\* What reportMetricExporterState names: no provider, a broken push, no push
\* or a push.
metricExporterState(m) ==
    CASE ~m.installed -> "none"
      [] m.err -> "degraded"
      [] ~Configured(m.endpoint) -> "scrape_only"
      [] OTHER -> "otlp"

\* SetupMetrics: the scrape registry, plus a push reader where an endpoint
\* resolves; a push reader that cannot be built costs only the push.
SetupMetrics ==
    LET r == resolveOTLPEndpoint("metrics")
        failed == [Unset EXCEPT !.err = TRUE, !.own = TRUE]
        built(err) == [installed |-> TRUE, exporting |-> Configured(r.endpoint) /\ ~err,
                       endpoint |-> r.endpoint, err |-> err, own |-> err]
        errs == IF Configured(r.endpoint) THEN exporterErrors("metrics", r.endpoint) ELSE {r.err}
    IN /\ stage = "metrics"
       /\ \E m \in {failed} \cup {built(err) : err \in errs} :
            /\ signal' = [signal EXCEPT !["metrics"] = m]
            /\ report' = [report EXCEPT !.metrics = metricExporterState(m)]
       /\ stage' = "tracing"
       /\ UNCHANGED <<settings, flushed>>

\* SetupTracing: no provider without a sampler, a resource, a usable endpoint
\* and its exporter; without an endpoint, one that samples nothing.
SetupTracing ==
    LET r == resolveOTLPEndpoint("traces")
        failed == [Unset EXCEPT !.err = TRUE, !.own = TRUE]
        built(err) == [installed |-> ~err, exporting |-> Configured(r.endpoint) /\ ~err,
                       endpoint |-> r.endpoint, err |-> err, own |-> err]
        errs == IF Configured(r.endpoint) THEN exporterErrors("traces", r.endpoint) ELSE {r.err}
    IN /\ stage = "tracing"
       /\ \E t \in {failed} \cup {built(err) : err \in errs} : signal' = [signal EXCEPT !["traces"] = t]
       /\ stage' = "report"
       /\ UNCHANGED <<settings, report, flushed>>

\* bootstrapTelemetryStage's second signal, whatever became of the first.
TracingStageAfterMetrics ==
    IF signal["metrics"].err /\ stage = "tracing"
    THEN stage' = "report" /\ UNCHANGED <<settings, signal, report, flushed>>
    ELSE SetupTracing

TracingStage == SetupTracing

traceExporterState ==
    CASE signal["traces"].err -> "degraded"
      [] ~Configured(signal["traces"].endpoint) -> "disabled"
      [] OTHER -> "initialized"

present == {e \in Endpoints : settings.named[e] # ""} \cup settings.credentials

honoured == {signal[s].endpoint.source : s \in Signals}

rejected == UNION {RejectedAmbientEnv(s, signal[s].endpoint) : s \in Signals}

\* The records that follow both setups: the traces' state, and the variables
\* that are there and that neither signal took or refused.
Report ==
    /\ stage = "report"
    /\ report' = [report EXCEPT !.traces = traceExporterState,
                                !.additional = present \ (honoured \cup rejected)]
    /\ stage' = "serving"
    /\ UNCHANGED <<settings, signal, flushed>>

Stop ==
    /\ stage = "serving"
    /\ stage' = "flush"
    /\ UNCHANGED <<settings, signal, report, flushed>>

\* newTelemetryFlush: traces, then metrics, skipping what was never installed;
\* a failed shutdown is recorded and the next one still runs.
shutdowns == SelectSeq(<<"traces", "metrics">>, LAMBDA s : signal[s].installed)

FlushUntilError ==
    /\ stage = "flush"
    /\ IF Len(flushed) < Len(shutdowns)
       THEN /\ flushed' = Append(flushed, shutdowns[Len(flushed) + 1])
            /\ stage' \in {"flush", "done"}
       ELSE stage' = "done" /\ UNCHANGED flushed
    /\ UNCHANGED <<settings, signal, report>>

Flush ==
    /\ stage = "flush"
    /\ IF Len(flushed) < Len(shutdowns)
       THEN flushed' = Append(flushed, shutdowns[Len(flushed) + 1]) /\ UNCHANGED stage
       ELSE stage' = "done" /\ UNCHANGED flushed
    /\ UNCHANGED <<settings, signal, report>>

Next == SetupMetrics \/ TracingStage \/ Report \/ Stop \/ Flush

Spec == Init /\ [][Next]_vars

-----------------------------------------------------------------------------
(***************************************************************************)
(* Credentials stay with whoever named the destination.  An exporter that  *)
(* runs sends the configured headers only to an endpoint the service's     *)
(* configuration named, and credentials of the environment only to one the *)
(* environment named.                                                      *)
(***************************************************************************)
CredentialsStayHome ==
    \A s \in Signals : signal[s].exporting =>
        IF signal[s].endpoint.owned THEN settings.credentials \cap {"HEADERS", credentialEnv[s]} = {}
        ELSE settings.headers = ""

(***************************************************************************)
(* The signals stand alone and the records are true.  Once startup has     *)
(* reported, a signal is missing only through a fault of its own; what the *)
(* records call initialized exports and nothing else does; no variable     *)
(* that names a running exporter's endpoint is listed as additional, and   *)
(* while both signals export every other one that is there is listed, the  *)
(* credentials an environment's exporter reads itself included; and after  *)
(* the flush every provider that was installed has been shut down.         *)
(***************************************************************************)
TelemetryIsHonest ==
    LET t == signal["traces"]
        m == signal["metrics"]
    IN /\ stage \in {"serving", "flush", "done"} =>
            /\ t.installed \/ t.own
            /\ m.installed \/ m.own
            /\ (report.traces = "initialized") = t.exporting
            /\ (report.metrics = "otlp") = m.exporting
            /\ (report.metrics = "none") = ~m.installed
            /\ \A s \in Signals : signal[s].exporting => signal[s].endpoint.source \notin report.additional
            /\ report.additional \subseteq present
            /\ t.exporting /\ m.exporting =>
                 report.additional = present \ {t.endpoint.source, m.endpoint.source}
       /\ stage = "done" =>
            {flushed[i] : i \in 1..Len(flushed)} = {s \in Signals : signal[s].installed}
=============================================================================
