---------------------------- MODULE Configuration ----------------------------
(***************************************************************************)
(* Configuration of a process (internal/config): defaults, then a base     *)
(* file and its overlays, then the environment are merged into one         *)
(* snapshot, which is decoded and validated; the service then checks the   *)
(* budgets it owns and derives its memory limit                            *)
(* (cmd/service/internal/bootstrap).  The jobs worker loads the same       *)
(* sources through its own projection.                                     *)
(*                                                                         *)
(* A setting's value is the number of the source that supplied it, 0 for   *)
(* the default: what matters of a merge is which source each value comes   *)
(* from.  The keys stand for their kinds.  Durations are small integers in *)
(* units of the reserve kept for a terminal response.                      *)
(***************************************************************************)
EXTENDS Integers, FiniteSets

CONSTANTS MaxSettings,  \* how many settings the sources hold together
          MaxDuration,  \* stands for the upper bounds of the duration ranges
          Tail,         \* shutdownTailBudget
          ProbeNeeds,   \* the database probe's budget plus startup headroom
          MaxInt        \* the largest integer of the machine

VARIABLES binary,    \* "service" or "jobs-worker"
          sources,   \* [Sources -> the keys that source sets]
          oddity,    \* what is wrong with one source, or nothing
          limits,    \* the decoded numbers of the HTTP section
          features,  \* the decoded switches of the other sections
          memory,    \* what the container says about its memory
          at,        \* the next stage
          canceled,  \* whether the caller has given up
          merged,    \* [Keys -> the source of the value]
          scalars,   \* sections a source tried to replace by a scalar
          failed,    \* the stage and the type of the failure
          started    \* what the service derived at startup

vars == <<binary, sources, oddity, limits, features, memory, at, canceled, merged, scalars, failed, started>>

Files == 1..2

Env == 3

Sources == Files \cup {Env}

\* Leaves of the schema in sections both binaries read, one that only the
\* service reads, a secret of each; and what the schema does not have: an
\* unknown leaf in either kind of section, a scalar in the place of a section.
Leaves == {"plain", "number", "secret", "foreign", "foreignSecret"}

Keys == Leaves \cup {"unknown", "foreignUnknown"}

SecretLike == {"secret", "foreignSecret"}

Settings(s) == Cardinality(s[1]) + Cardinality(s[2]) + Cardinality(s[3])

\* Every way to place at most MaxSettings settings; one placed in source 0 is in none.
Contents ==
    LET named == Keys \cup {"section"}
    IN  {[i \in Sources |-> {k \in named : \E n \in 1..MaxSettings : placed[n] = <<i, k>>}] :
            placed \in [1..MaxSettings -> (Sources \cup {0}) \X named]}

Oddities ==
    {[kind |-> "none", of |-> 0], [kind |-> "malformed", of |-> Env], [kind |-> "blank", of |-> 1]}
    \cup {[kind |-> k, of |-> i] : k \in {"unreadable", "unparsable"}, i \in Files}
    \cup {[kind |-> "undecodable", of |-> i] : i \in Sources}

Durations == 0..MaxDuration

DefaultLimits == [grace |-> 5, shutdown |-> 4, delay |-> 1, readiness |-> 2, request |-> 1, write |-> 2,
                  inFlight |-> 1, connections |-> 1, body |-> 1]

DefaultFeatures == [postgres |-> TRUE, dsn |-> TRUE, workers |-> 1, webhooks |-> FALSE, endpoints |-> FALSE,
                    secrets |-> FALSE, inEndpoints |-> FALSE, inSecrets |-> FALSE, grpc |-> "off",
                    metrics |-> TRUE, pprof |-> FALSE]

DefaultMemory == [ratio |-> 2, platform |-> FALSE, detected |-> 8]

\* A longer delay, request or write timeout fits no grace period: behind these come the
\* reserve and the tail.
TimeLimits == {[DefaultLimits EXCEPT !.grace = g, !.shutdown = s, !.delay = d, !.readiness = r, !.request = q, !.write = w] :
                  g, s \in Durations, d, q \in 0..MaxDuration - 2, w \in 0..MaxDuration - 1, r \in 0..2}

SizeLimits == {[DefaultLimits EXCEPT !.inFlight = n, !.connections = c, !.body = b] :
                  n \in 0..3, c \in {0, 1, 3}, b \in {0, 1, 3}}

Memories == [ratio : 0..2, platform : BOOLEAN, detected : {-1, 0, 1, 8, MaxInt, MaxInt + 1}]

Features == [postgres : BOOLEAN, dsn : BOOLEAN, workers : {-1, 0, 1}, webhooks : BOOLEAN, endpoints : BOOLEAN,
             secrets : BOOLEAN, inEndpoints : BOOLEAN, inSecrets : BOOLEAN, grpc : {"off", "plaintext", "tls", "bad"},
             metrics : BOOLEAN, pprof : BOOLEAN]

Nothing == [i \in Sources |-> {}]

NoFailure == [stage |-> "", type |-> ""]

\* One kind of input varies at a time; the others keep values that load.  The
\* worker's own secrets of inbound webhooks are "foreignSecret".
Init ==
    /\ binary \in {"service", "jobs-worker"}
    /\ \/ sources \in Contents /\ oddity \in Oddities
          /\ (oddity.kind # "none" => Settings(sources) < MaxSettings)
          /\ limits = DefaultLimits /\ features = DefaultFeatures /\ memory = DefaultMemory
       \/ sources = Nothing /\ oddity = [kind |-> "none", of |-> 0]
          /\ \/ limits \in TimeLimits /\ features = DefaultFeatures /\ memory = DefaultMemory /\ binary = "service"
             \/ limits \in SizeLimits /\ features = DefaultFeatures /\ memory \in Memories /\ binary = "service"
             \/ limits = DefaultLimits /\ features \in Features /\ memory = DefaultMemory
                /\ (binary = "jobs-worker" => ~features.inSecrets)
    /\ at = "defaults"
    /\ canceled = FALSE
    /\ merged = [k \in Keys |-> 0]
    /\ scalars = {}
    /\ failed = NoFailure
    /\ started = [gc |-> 0, warned |-> FALSE]

inputs == <<binary, sources, oddity, limits, features, memory>>

Odd(kind, i) == oddity = [kind |-> kind, of |-> i]

\* A secret key of a file that is there but empty.
Blank(i) == oddity.kind = "blank" /\ i \in Files

-----------------------------------------------------------------------------
(***************************************************************************)
(* Loading.  A step works, then looks at its context; "c" is whether the   *)
(* caller has given up by then.  A failure discards the snapshot.          *)
(***************************************************************************)
Fail(stage, type) ==
    /\ failed' = [stage |-> stage, type |-> type]
    /\ at' = "done"
    /\ merged' = [k \in Keys |-> 0]
    /\ UNCHANGED scalars

Defaults ==
    /\ at = "defaults"
    /\ \E c \in BOOLEAN :
         /\ canceled' = c
         /\ IF c THEN Fail("load.defaults", "load")
            ELSE at' = "file1" /\ UNCHANGED <<merged, scalars, failed>>
    /\ UNCHANGED <<inputs, started>>

secretInFileBaseOnly(i) == i = 1 /\ ~Blank(i) /\ sources[i] \cap SecretLike # {}

\* enforceSecretSourcePolicy: a file holds no secret that is not empty.
secretInFile(i) == ~Blank(i) /\ sources[i] \cap SecretLike # {}

\* removeSectionScalarOverridesInPlace: a scalar never replaces a section's
\* settings, and is remembered.
sectionScalarsForgotten(i) == {}

sectionScalars(i) == sources[i] \cap {"section"}

Merge(i) ==
    /\ merged' = [k \in Keys |-> IF k \in sources[i] THEN i ELSE merged[k]]
    /\ scalars' = scalars \cup sectionScalars(i)

mergeConfigFile(i, here, next) ==
    /\ at = here
    /\ \E c \in {canceled, TRUE} :
         /\ canceled' = c
         /\ CASE canceled \/ Odd("unreadable", i) -> Fail("load.file", "load")
              [] Odd("unparsable", i) -> Fail("load.file", "parse")
              [] secretInFile(i) -> Fail("load.file", "secret_policy")
              [] c -> Fail("load.file", "load")
              [] OTHER -> Merge(i) /\ at' = next /\ UNCHANGED failed
    /\ UNCHANGED <<inputs, started>>

LoadBase == mergeConfigFile(1, "file1", "file2")

LoadOverlay == mergeConfigFile(2, "file2", "env")

\* The environment comes last; a name that maps to no key is remembered by
\* "malformed" and refused with the unknown keys.
LoadEnvironment ==
    /\ at = "env"
    /\ \E c \in {canceled, TRUE} :
         /\ canceled' = c
         /\ IF c THEN Fail("load.env", "load")
            ELSE Merge(Env) /\ at' = "build" /\ UNCHANGED failed
    /\ UNCHANGED <<inputs, started>>

\* Variant: the projection lets a foreign key through when the schema does not have it.
projectedUnknown == IF binary = "jobs-worker" THEN Keys \ {"foreign", "foreignSecret"} ELSE Keys

\* isJobsWorkerKey: the jobs worker keeps the sections it reads and drops every other key
\* before it decodes, whether the schema has that key or not.
projected ==
    IF binary = "jobs-worker" THEN Keys \ {"foreign", "foreignSecret", "foreignUnknown"} ELSE Keys

\* buildSnapshot and the worker's projection.
Build ==
    /\ at = "build"
    /\ \E c \in {canceled, TRUE} :
         /\ canceled' = c
         /\ CASE binary = "jobs-worker" /\ merged["foreignSecret"] # 0 /\ ~Blank(merged["foreignSecret"]) ->
                   Fail("parse", "validate")
              [] Odd("undecodable", merged["number"]) -> Fail("parse", "parse")
              [] c -> Fail("parse", "load")
              [] OTHER ->
                   /\ merged' = [k \in Keys |-> IF k \in projected THEN merged[k] ELSE 0]
                   /\ at' = "validate"
                   /\ UNCHANGED <<scalars, failed>>
    /\ UNCHANGED <<inputs, started>>

-----------------------------------------------------------------------------
(***************************************************************************)
(* Validation: the names of what a section refuses, none when it is valid. *)
(***************************************************************************)
Reserve == 1

validateHTTPReadinessWriteTimeout(h) == h.readiness <= h.write

\* A request that times out can still be answered.
validateHTTPRequestWriteTimeout(h) == h.request + Reserve <= h.write

validateHTTPShutdownBudgetWhole(h) == h.delay < h.shutdown /\ h.write <= h.shutdown

validateHTTPShutdownBudget(h) == h.delay < h.shutdown /\ h.write <= h.shutdown - h.delay

validateHTTPConnectionCeiling(h) == h.connections = 0 \/ h.connections >= h.inFlight

validateHTTPConfig(h) ==
    /\ h.grace >= 1 /\ h.shutdown >= 1 /\ h.shutdown <= h.grace
    /\ h.readiness >= 1 /\ h.delay <= h.shutdown /\ h.request >= 1 /\ h.write >= 1
    /\ validateHTTPReadinessWriteTimeout(h)
    /\ validateHTTPRequestWriteTimeout(h)
    /\ validateHTTPShutdownBudget(h)
    /\ h.body > 0 /\ h.inFlight >= 0
    /\ validateHTTPConnectionCeiling(h)

validateAuthn(h, f) == h.inFlight > 0 /\ f.grpc \in {"off", "tls"}

validateGRPCConfig(f) == f.grpc # "bad"

validateJobs(f) == f.workers = 0 \/ (f.postgres /\ f.workers >= 1)

validateOutboundWebhooks(f) == f.webhooks => f.postgres /\ f.workers > 0 /\ f.endpoints

validateJobsWorkerOutboundWebhooksNever(f) == TRUE

validateJobsWorkerOutboundWebhooks(f) == f.webhooks => f.secrets

validateInboundWebhooks(f) == f.inEndpoints = f.inSecrets

validateObservabilityConfig(f) == f.pprof => f.metrics

\* What the validators answer: nothing, or the type of the error.
validate(b, h, f) ==
    CASE ~validateHTTPConfig(h) -> "validate"
      [] b = "service" /\ (~validateAuthn(h, f) \/ ~validateGRPCConfig(f)) -> "validate"
      [] f.postgres /\ ~f.dsn -> "secret_policy"
      [] ~validateJobs(f) -> "validate"
      [] b = "service" /\ ~validateOutboundWebhooks(f) -> "validate"
      [] b = "jobs-worker" /\ ~validateJobsWorkerOutboundWebhooks(f) -> "validate"
      [] b = "service" /\ ~validateInboundWebhooks(f) -> "validate"
      [] ~validateObservabilityConfig(f) -> "validate"
      [] OTHER -> ""

\* The keys that decoding did not use, of those the projection kept, and what loading
\* remembered: scalars over a section and malformed names count for both binaries.
unknownKeys ==
    {k \in Keys \ Leaves : merged[k] # 0} \cup scalars \cup (IF Odd("malformed", Env) THEN {"malformed"} ELSE {})

Validate ==
    /\ at = "validate"
    /\ \E c \in {canceled, TRUE} :
         /\ canceled' = c
         /\ CASE c -> Fail("validate", "validate")
              [] unknownKeys # {} -> Fail("validate", "unknown_key")
              [] validate(binary, limits, features) # "" -> Fail("validate", validate(binary, limits, features))
              [] OTHER -> at' = (IF binary = "service" THEN "start" ELSE "done") /\ UNCHANGED <<merged, scalars, failed>>
    /\ UNCHANGED <<inputs, started>>

-----------------------------------------------------------------------------
(***************************************************************************)
(* What the service adds: its own budgets, its memory limit and the        *)
(* warning about request buffers.                                          *)
(***************************************************************************)
validateShutdownGraceBudget(h) == h.shutdown + Tail <= h.grace

validateStartupBudgetCompatibility(h, f) == f.postgres => h.readiness >= ProbeNeeds

\* applyMemoryLimitFrom, as the set of its outcomes; the ratio counts halves.  A float64
\* holds every detected limit here but the largest integer, which it rounds up: the whole of
\* that is out of range for the conversion back, which then saturates or turns negative, as
\* the machine has it, and a negative limit is skipped.
applyMemoryLimitFrom(m) ==
    IF m.ratio = 0 \/ m.platform \/ m.detected < 1 \/ m.detected > MaxInt THEN {0}
    ELSE IF m.detected = MaxInt /\ m.ratio = 2 THEN {0, MaxInt}
    ELSE {(m.detected * m.ratio) \div 2}

\* The product in machine integers that wrap.
saturatingMulWrapping(left, right) == (left * right) % (MaxInt + 1)

saturatingMul(left, right) ==
    IF left <= 0 \/ right <= 0 THEN 0
    ELSE IF left > MaxInt \div right THEN MaxInt
    ELSE left * right

requestBufferCopyCount == 2

reportRequestBufferBudget(h, gc) ==
    /\ gc > 0
    /\ h.inFlight > 0
    /\ saturatingMul(saturatingMul(h.inFlight, h.body), requestBufferCopyCount) > gc \div 4

Start ==
    /\ at = "start"
    /\ IF ~validateShutdownGraceBudget(limits) \/ ~validateStartupBudgetCompatibility(limits, features)
       THEN Fail("startup", "compatibility") /\ UNCHANGED started
       ELSE \E gc \in applyMemoryLimitFrom(memory) :
            /\ started' = [gc |-> gc, warned |-> reportRequestBufferBudget(limits, gc)]
            /\ at' = "done"
            /\ UNCHANGED <<merged, scalars, failed>>
    /\ UNCHANGED <<inputs, canceled>>

Next == Defaults \/ LoadBase \/ LoadOverlay \/ LoadEnvironment \/ Build \/ Validate \/ Start

Spec == Init /\ [][Next]_vars

-----------------------------------------------------------------------------
Loaded == at = "done" /\ failed = NoFailure

(***************************************************************************)
(* The snapshot is what the sources say.  A load that succeeds gave every  *)
(* setting the binary reads the value of the last source that names it,    *)
(* and took no secret out of a file.  It refused every unknown key of a    *)
(* section the binary reads; the jobs worker ignores one elsewhere, as     *)
(* docs/configuration-source-policy.md says it does.  A scalar over a      *)
(* section and a malformed name are refused by both binaries, wherever     *)
(* they are.  A load that fails holds no setting and names a stage, and    *)
(* without a cancellation that stage has something to refuse: no binary    *)
(* fails on a key that it would not have read.                             *)
(***************************************************************************)
LoadIsFaithful ==
    LET naming(k) == {i \in Sources : k \in sources[i]}
        last(k) == IF naming(k) = {} THEN 0 ELSE CHOOSE i \in naming(k) : \A j \in naming(k) : j <= i
    IN /\ Loaded =>
            /\ \A k \in Keys : merged[k] = IF k \in projected THEN last(k) ELSE 0
            /\ \A k \in SecretLike : last(k) \in Files => Blank(last(k))
            /\ naming("unknown") = {} /\ (binary = "service" => naming("foreignUnknown") = {})
            /\ naming("section") = {} /\ oddity.kind # "malformed"
            /\ ~Odd("undecodable", last("number"))
            /\ oddity.kind \notin {"unreadable", "unparsable"}
       /\ at = "done" /\ failed # NoFailure =>
            /\ \A k \in Keys : merged[k] = 0
            /\ failed.stage # ""
            /\ ~canceled =>
                 CASE failed.stage = "load.file" ->
                        oddity.kind \in {"unreadable", "unparsable"} \/ \E i \in Files : sources[i] \cap SecretLike # {}
                   [] failed.stage = "parse" ->
                        \/ oddity.kind = "undecodable"
                        \/ binary = "jobs-worker" /\ naming("foreignSecret") # {}
                   [] failed.type = "unknown_key" ->
                        \/ naming("section") # {} \/ naming("unknown") # {} \/ oddity.kind = "malformed"
                        \/ binary = "service" /\ naming("foreignUnknown") # {}
                   [] OTHER -> sources = Nothing

(***************************************************************************)
(* Accepted settings hold together.  Once the service has started, a       *)
(* request admitted as late as the end of the readiness delay has its      *)
(* whole timeout and the reserve for its answer inside the drain, and the  *)
(* drain and the teardown after it fit the grace period; the warning about *)
(* request buffers is given exactly when the buffers of all admitted       *)
(* requests outgrow a quarter of the memory limit, computed without        *)
(* overflow, and the limit lies within the container.  And when the jobs   *)
(* worker accepts the same settings with outbound webhooks on, what the    *)
(* service enqueues can be delivered.                                      *)
(***************************************************************************)
AcceptedSettingsHold ==
    Loaded /\ binary = "service" =>
        LET h == limits
            f == features
        IN /\ h.delay + h.request + Reserve <= h.shutdown
           /\ h.delay + h.readiness <= h.shutdown
           /\ h.shutdown + Tail <= h.grace
           /\ f.postgres => ProbeNeeds <= h.write
           /\ started.gc \in 0..MaxInt
           /\ started.gc > 0 => started.gc <= memory.detected
           /\ started.warned =
                (started.gc > 0 /\ h.inFlight * h.body * requestBufferCopyCount > started.gc \div 4)
           /\ f.webhooks /\ validate("jobs-worker", h, [f EXCEPT !.inSecrets = FALSE]) = "" =>
                f.postgres /\ f.dsn /\ f.workers > 0 /\ f.endpoints /\ f.secrets
=============================================================================
