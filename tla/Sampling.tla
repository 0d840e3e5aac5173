------------------------------ MODULE Sampling ------------------------------
(* The commands that pay for samples without a frozen experiment, `run`    *)
(* and `baseline` (cmd/skynex-eval/model.go): the request is admitted and  *)
(* its inputs are copied and pinned, every case is sampled repetition by   *)
(* repetition while the inputs may drift, the budget may run out and the   *)
(* user may cancel, the samples are bound to a fingerprint                 *)
(* (fingerprint.go) and sealed in an artifact (internal/eval/baseline),    *)
(* and `report` reads the artifact back.                                   *)
(*                                                                         *)
(* A digest is the set of the values it was taken of.  An error is its     *)
(* exit status.  At most MaxMishaps drifts, cancellations, deferred errors *)
(* and I/O failures happen.                                                *)
EXTENDS Usage

CONSTANTS
    Requests,      \* the command lines: records, see commandSpec
    Catalog,       \* the cases by suite: sequences of records
    Bundles,       \* the agent bundles: sets of entries [path, kind, like]
    Launchers,     \* the OpenCode binaries: [kind, target]
    Traces,        \* what a run may leave as its trace
    MaxEntries,    \* the entries a bundle may have
    MaxMishaps

ASSUME BoundsAreNatural == {MaxEntries, MaxMishaps} \subseteq Nat
ASSUME RequestsAreDescribed ==
    \A request \in Requests :
        /\ request.suite \in DOMAIN Catalog
        /\ request.bundle \in DOMAIN Bundles
        /\ request.binary \in DOMAIN Launchers

MaxRuns == 100
Root == "root"
NoArtifact == <<>>

VARIABLES
    phase,      \* how far the command has come
    request,    \* its command line
    at,         \* the case and the repetition that are next
    result,     \* what executeModelRuns has gathered
    drifted,    \* the pinned inputs that are no longer what they were
    canceled,   \* whether the context is done
    artifact,   \* the saved artifact
    exit,       \* the status the command exits with
    reported,   \* the status `report` exits with
    mishaps

vars == <<phase, request, at, result, drifted, canceled, artifact, exit,
          reported, mishaps>>

Happens == mishaps < MaxMishaps /\ mishaps' = mishaps + 1
Fine == UNCHANGED mishaps

-----------------------------------------------------------------------------
(* Admission.                                                               *)

(* One credential source, and no trace or cost cap where it cannot be kept. *)
resolveOpenAIOAuthFile(r) == r.oauth => r.env = {}
parseEnvNames(r) == r.env \subseteq {"PROVIDER_KEY"}
buildModelSpec(r) ==
    /\ r.port = 0 /\ r.deterministic
    /\ r.binary # "" /\ r.bundle # "" /\ r.cap >= 0
    /\ parseEnvNames(r) /\ resolveOpenAIOAuthFile(r)
    /\ r.oauth => r.cap = 0 /\ ~r.impure /\ ~r.retain
    /\ r.env # {} => ~r.retain

(* `run` takes one case and at least one repetition; `baseline` a suite,    *)
(* and no number stands for the repetitions each case asks for.             *)
commandSpec(r) ==
    /\ r.allowed /\ r.named
    /\ r.n \in (IF r.command = "run" THEN 1 ELSE 0)..MaxRuns
    /\ buildModelSpec(r)

loadSelectedCases(r) ==
    IF r.command = "run" THEN SubSeq(Catalog[r.suite], 1, 1)
    ELSE Catalog[r.suite]

(* Neither command attests a workflow plugin: a driven case is refused.     *)
AuthorityIsMissing(cases) == \E c \in ToSet(cases) : c.driven

-----------------------------------------------------------------------------
(* The pinned inputs.                                                       *)

Skipped == {"node_modules", ".git", ".sandbox"}
credentialLikeBundlePath(entry) == entry.like = "credential"

(* Everything but skipped directories, all plain and none a credential.     *)
inspectConfigBundle(bundle) ==
    LET visited == {entry \in bundle : entry.path \notin Skipped}
    IN  /\ \A entry \in visited : /\ ~credentialLikeBundlePath(entry)
                                  /\ entry.kind \in {"file", "directory"}
        /\ Cardinality(visited) <= MaxEntries

(* A launcher is native, or a shim that pins one native target.             *)
resolveOpenCodeBinary(launcher) ==
    \/ launcher.kind = "native"
    \/ launcher.kind = "shim" /\ launcher.target = "native"

(* A fixture must be what its case froze; a legacy case freezes it now,     *)
(* takes the model of the command line and requires itself.                 *)
prepareFixtures(cases) ==
    [i \in DOMAIN cases |->
        IF cases[i].legacy
        THEN [cases[i] EXCEPT !.expected = cases[i].fixture,
                !.model = IF @ = "" THEN "openai/terra" ELSE @]
        ELSE cases[i]]
FixturesAreFrozen(cases) ==
    \A i \in DOMAIN cases :
        cases[i].legacy \/ cases[i].expected = cases[i].fixture

Prepared(r) == prepareFixtures(loadSelectedCases(r))
Cases == Prepared(request)

(* What executeModelRuns checks before the first sample.                    *)
Preparable(r) ==
    /\ Len(loadSelectedCases(r)) > 0
    /\ ~AuthorityIsMissing(loadSelectedCases(r))
    /\ resolveOpenCodeBinary(Launchers[r.binary])
    /\ FixturesAreFrozen(loadSelectedCases(r))
    /\ inspectConfigBundle(Bundles[r.bundle])

Inputs == {"opencode", "closure", "bundle"}

-----------------------------------------------------------------------------
(* A sample.                                                                *)

(* The statuses of a run that never probed its runtime, or did.             *)
EarlyStatuses == {"infra_error", "invalid"}
ProbedStatuses == {"pass", "fail", "invalid"}

(* What the engine writes of a run's provenance; "" is a missing value.     *)
Provenance(r, c, probed) ==
    LET Probed(value) == IF probed THEN value ELSE ""
    IN  [case |-> c.id, model |-> c.model, mode |-> c.mode,
         fixture |-> c.expected, prompt |-> r.bundle, bundle |-> r.bundle,
         config |-> IF probed THEN "config " \o c.model ELSE "policy",
         effectiveConfig |-> Probed("config " \o c.model),
         agents |-> Probed("agents " \o c.model),
         openapi |-> Probed("api"), catalog |-> Probed("catalog"),
         toolset |-> c.tools \o (IF probed THEN " catalog" ELSE ""),
         auth |-> IF r.oauth THEN Probed("oauth") ELSE "",
         toolchains |-> "closure", judges |-> c.id, pricing |-> "none"]

(* An account of a subscription reports no cost of its own.                 *)
UsageOf(r, probed, trace) ==
    LET usage == IF probed THEN usageFromTrace(Traces[trace], Root)
                 ELSE NoUsage
    IN  IF r.oauth /\ probed
        THEN [usage EXCEPT !.parent.provider = Unknown,
                           !.tree.provider = Unknown]
        ELSE usage

SampleOf(r, c, repetition, status, probed, trace) ==
    [case |-> c.id, repetition |-> repetition, status |-> status,
     probed |-> probed, trace |-> IF probed THEN trace ELSE "",
     provenance |-> Provenance(r, c, probed),
     usage |-> UsageOf(r, probed, trace)]

(* Mutant: a cost nobody reported counts as nothing.                        *)
observedSampleCostOrZero(sample) ==
    IF sample.usage.tree.provider.known THEN sample.usage.tree.provider
    ELSE Known(0)

(* The provider's cost if it is authoritative, else the calculated one.     *)
observedSampleCost(sample) ==
    CASE sample.provenance.auth = "oauth" -> Unknown
      [] sample.usage.tree.provider.known -> sample.usage.tree.provider
      [] OTHER -> sample.usage.tree.calculated

NoResult == [samples |-> <<>>, observed |-> 0, costComplete |-> TRUE,
             untracked |-> FALSE, complete |-> TRUE, exhausted |-> FALSE,
             error |-> "none", unclean |-> FALSE]

recordSample(r, sample) ==
    LET cost == observedSampleCost(sample)
        capped == request.cap > 0
    IN  [r EXCEPT
            !.samples = Append(@, sample),
            !.observed = IF cost.known THEN @ + cost.usd ELSE @,
            !.costComplete = @ /\ cost.known,
            !.untracked = @ \/ (capped /\ ~cost.known),
            !.complete = /\ @ /\ (capped => cost.known)
                         /\ sample.status \notin
                                {"aborted", "infra_error",
                                 "budget_exhausted"}]

Failed(r, error) ==
    [r EXCEPT !.complete = FALSE, !.costComplete = FALSE,
              !.error = IF @ = "none" THEN error ELSE @]

(* A pass that comes with an error of its own is an infrastructure error.   *)
markDeferred(sample) ==
    IF sample.status = "pass" THEN [sample EXCEPT !.status = "infra_error"]
    ELSE sample
Retained(sample) == sample.status # "invalid"

prepareDeferredEngineSample(sample) ==
    IF Retained(sample) THEN <<markDeferred(sample)>> ELSE <<>>

markDeferredModelRunFailure(r) ==
    Failed([r EXCEPT !.unclean = TRUE, !.samples =
               FoldLeft(LAMBDA kept, sample :
                            kept \o prepareDeferredEngineSample(sample),
                        <<>>, @)], "infra_error")

-----------------------------------------------------------------------------
(* The exit statuses.                                                       *)

Severity == <<"infra_error", "invalid", "budget_exhausted", "aborted",
              "fail", "inconclusive">>

(* The gravest status of the samples.                                       *)
resultSetExit(samples) ==
    LET present == {i \in DOMAIN Severity :
                       \E sample \in ToSet(samples) :
                           sample.status = Severity[i]}
    IN  CASE present # {} -> Severity[Min(present)]
          [] samples = <<>> -> "invalid"
          [] OTHER -> "success"

(* Mutant: samples that are missing do not show.                            *)
CLIExitCodeOfSamples(r) == resultSetExit(r.samples)

CLIExitCode(r) ==
    LET base == resultSetExit(r.samples)
    IN  CASE base \in {"infra_error", "invalid", "aborted"} -> base
          [] request.cap > 0 /\ ~r.costComplete -> "invalid"
          [] r.exhausted -> "budget_exhausted"
          [] OTHER -> base

(* A command that ends well beside a done context still exits as aborted.   *)
Exits(status) == exit' = IF canceled THEN "aborted" ELSE status

-----------------------------------------------------------------------------
(* The fingerprint of the samples.                                          *)

Values(samples, field) ==
    {sample.provenance[field] : sample \in ToSet(samples)}
uniformString(samples, field) == Values(samples, field)
uniformDigest(samples, field) ==
    IF "" \in Values(samples, field) THEN {} ELSE Values(samples, field)
exactUniformSampleValue(samples, field) ==
    Cardinality(Values(samples, field)) = 1

calculatedCostUsed(samples) ==
    \E sample \in ToSet(samples) :
        \/ sample.usage.parent.calculated.known
        \/ sample.usage.tree.calculated.known

ExactFields == {"prompt", "openapi", "mode", "auth"}
SetFields == {"model"}
DigestFields == {"toolset", "judges", "pricing"}
CanonicalFields == {"effectiveConfig", "agents", "toolchains"}

(* A catalog nobody observed is a value of its own.                         *)
CatalogOf(samples) ==
    IF Values(samples, "catalog") = {""} THEN {"unobserved"}
    ELSE uniformDigest(samples, "catalog")

FingerprintOf(samples) ==
    [field \in ExactFields \cup SetFields |-> uniformString(samples, field)]
    @@ [field \in DigestFields \cup CanonicalFields |->
           uniformDigest(samples, field)]
    @@ [catalog |-> CatalogOf(samples), bundle |-> {request.bundle},
        calculated |-> calculatedCostUsed(samples)]

validateProviderCatalogBinding(f, samples) ==
    LET values == Values(samples, "catalog")
    IN  /\ uniformString(samples, "auth") = {"oauth"} => "" \notin values
        /\ Cardinality(values) = 1
        /\ f.catalog = CatalogOf(samples)
validateCanonicalDigestSetBinding(f, samples, field) ==
    /\ "" \notin Values(samples, field)
    /\ f[field] = uniformDigest(samples, field)
validateOptionalExtensionBinding(f, samples) ==
    Values(samples, "bundle") = f.bundle

validateFingerprintSampleBinding(f, samples) ==
    /\ samples # <<>>
    /\ \A sample \in ToSet(samples) :
           LET p == sample.provenance
           IN  p.prompt = p.bundle /\ p.config = p.effectiveConfig
    /\ \A field \in ExactFields :
           /\ exactUniformSampleValue(samples, field)
           /\ Values(samples, field) = f[field]
    /\ \A field \in SetFields : uniformString(samples, field) = f[field]
    /\ \A field \in DigestFields :
           /\ uniformDigest(samples, field) # {}
           /\ uniformDigest(samples, field) = f[field]
    /\ f.calculated = calculatedCostUsed(samples)
    /\ validateProviderCatalogBinding(f, samples)
    /\ \A field \in CanonicalFields :
           validateCanonicalDigestSetBinding(f, samples, field)
    /\ validateOptionalExtensionBinding(f, samples)

(* No field is missing; mixed values are values.                            *)
FingerprintIsValid(f) ==
    \A field \in {"prompt", "openapi", "mode", "model"} \cup DigestFields
                     \cup CanonicalFields : f[field] \notin {{}, {""}}

(* Every sample is one of a prepared case, once, and no case has none.      *)
SamplesCoverCases(samples) ==
    /\ samples # <<>>
    /\ \A i, j \in DOMAIN samples : i # j =>
           <<samples[i].case, samples[i].repetition>>
               # <<samples[j].case, samples[j].repetition>>
    /\ \A sample \in ToSet(samples) :
           \E c \in ToSet(Cases) :
               /\ c.id = sample.case /\ c.model = sample.provenance.model
               /\ c.expected = sample.provenance.fixture
    /\ \A c \in ToSet(Cases) :
           \E sample \in ToSet(samples) : sample.case = c.id

fingerprintForRun(samples) ==
    /\ SamplesCoverCases(samples)
    /\ validateFingerprintSampleBinding(FingerprintOf(samples), samples)
    /\ FingerprintIsValid(FingerprintOf(samples))

(* An artifact is its fingerprint and its samples, sealed with them.        *)
NewRunArtifact(samples) ==
    [fingerprint |-> FingerprintOf(samples), samples |-> samples,
     seal |-> <<FingerprintOf(samples), samples>>]
ArtifactIsSound(a) ==
    /\ a.samples # <<>> /\ FingerprintIsValid(a.fingerprint)
    /\ a.seal = <<a.fingerprint, a.samples>>

-----------------------------------------------------------------------------
(* The steps.                                                               *)

Init ==
    /\ phase = "asked" /\ request \in Requests
    /\ at = <<1, 1>> /\ result = NoResult /\ drifted = {}
    /\ canceled = FALSE /\ artifact = NoArtifact
    /\ exit = "none" /\ reported = "none" /\ mishaps = 0

Ends(status) == phase' = "done" /\ exit' = status

(* The order of the checks matters for the status only: a launcher that     *)
(* cannot be resolved is the one infrastructure error.                      *)
Refuse ==
    /\ phase = "asked"
    /\ ~commandSpec(request) \/ ~Preparable(request) \/ canceled
    /\ Ends(IF /\ commandSpec(request)
               /\ Len(loadSelectedCases(request)) > 0
               /\ ~AuthorityIsMissing(loadSelectedCases(request))
               /\ ~resolveOpenCodeBinary(Launchers[request.binary])
            THEN "infra_error" ELSE "invalid")
    /\ Fine
    /\ UNCHANGED <<request, at, result, drifted, canceled, artifact, reported>>

(* The bundle is read twice, and must not have changed in between.          *)
CopyRaces ==
    /\ phase = "asked" /\ commandSpec(request) /\ Preparable(request)
    /\ Happens /\ Ends("invalid")
    /\ UNCHANGED <<request, at, result, drifted, canceled, artifact, reported>>

Prepare ==
    /\ phase = "asked" /\ commandSpec(request) /\ Preparable(request)
    /\ ~canceled
    /\ phase' = "sampling" /\ Fine
    /\ UNCHANGED <<request, at, result, drifted, canceled, artifact, exit,
                   reported>>

Repetitions(i) ==
    IF request.command = "baseline" /\ request.n = 0 THEN Cases[i].runs
    ELSE request.n
After(i, repetition) ==
    IF repetition < Repetitions(i) THEN <<i, repetition + 1>> ELSE <<i + 1, 1>>
Exhausted == request.cap > 0 /\ result.observed >= request.cap
AllSampled == at[1] > Len(Cases)

BudgetReached ==
    /\ phase = "sampling" /\ ~AllSampled /\ Exhausted
    /\ result' = [result EXCEPT !.exhausted = TRUE, !.complete = FALSE]
    /\ phase' = "returning" /\ Fine
    /\ UNCHANGED <<request, at, drifted, canceled, artifact, exit, reported>>

(* Nothing that was sampled is handed over.                                 *)
DriftedBefore ==
    /\ phase = "sampling" /\ ~AllSampled /\ ~Exhausted
    /\ "opencode" \in drifted
    /\ result' = [NoResult EXCEPT !.error = "invalid"]
    /\ phase' = "returning" /\ Fine
    /\ UNCHANGED <<request, at, drifted, canceled, artifact, exit, reported>>

StartSample ==
    /\ phase = "sampling" /\ ~AllSampled /\ ~Exhausted
    /\ "opencode" \notin drifted
    /\ phase' = "running" /\ Fine
    /\ UNCHANGED <<request, at, result, drifted, canceled, artifact, exit,
                   reported>>

(* The run has ended; deferred says that an error came with its result.     *)
Sampled(sample, deferred) ==
    /\ phase = "running"
    /\ result' =
           CASE drifted # {} -> Failed(result, "invalid")
             [] deferred /\ Retained(sample) ->
                    Failed(recordSample(result,
                        prepareDeferredEngineSample(sample)[1]),
                        "infra_error")
             [] deferred -> Failed(result, "infra_error")
             [] canceled -> [recordSample(result, sample)
                                EXCEPT !.complete = FALSE]
             [] OTHER -> recordSample(result, sample)
    /\ IF drifted # {} \/ deferred \/ canceled \/ result'.untracked
       THEN phase' = "returning" /\ UNCHANGED at
       ELSE phase' = "sampling" /\ at' = After(at[1], at[2])
    /\ UNCHANGED <<request, drifted, canceled, artifact, exit, reported>>

Here(status, probed, trace) ==
    SampleOf(request, Cases[at[1]], at[2], status, probed, trace)

FinishSample(status, trace) ==
    /\ Sampled(Here(status, TRUE, trace), FALSE) /\ Fine
FinishWithError(status, trace) ==
    /\ Sampled(Here(status, TRUE, trace), TRUE) /\ Happens
FinishEarly(status) ==
    /\ Sampled(Here(status, FALSE, ""), FALSE) /\ Happens
FinishAborted(probed, trace) ==
    /\ canceled
    /\ Sampled(Here("aborted", probed, trace), FALSE) /\ Fine

SampledAll ==
    /\ phase = "sampling" /\ AllSampled
    /\ result' = [result EXCEPT !.exhausted = Exhausted,
                                !.complete = @ /\ ~Exhausted]
    /\ phase' = "returning" /\ Fine
    /\ UNCHANGED <<request, at, drifted, canceled, artifact, exit, reported>>

(* The private directory is removed on the way out.                         *)
CleanUp ==
    /\ phase = "returning"
    /\ phase' = "returned" /\ Fine
    /\ UNCHANGED <<request, at, result, drifted, canceled, artifact, exit,
                   reported>>
CleanUpFails ==
    /\ phase = "returning" /\ Happens
    /\ result' = markDeferredModelRunFailure(result)
    /\ phase' = "returned"
    /\ UNCHANGED <<request, at, drifted, canceled, artifact, exit, reported>>

Return ==
    /\ phase = "returned" /\ result.error # "none"
    /\ Ends(result.error) /\ Fine
    /\ UNCHANGED <<request, at, result, drifted, canceled, artifact, reported>>

commandRun ==
    /\ phase = "returned" /\ result.error = "none"
    /\ request.command = "run"
    /\ \/ phase' = "done" /\ Exits(CLIExitCode(result)) /\ Fine
       \/ Ends("infra_error") /\ Happens
    /\ UNCHANGED <<request, at, result, drifted, canceled, artifact, reported>>

(* Without a fingerprint there is no artifact, whatever was paid for it.    *)
BaselineUnbound ==
    /\ phase = "returned" /\ result.error = "none"
    /\ request.command = "baseline" /\ ~fingerprintForRun(result.samples)
    /\ IF CLIExitCode(result) = "success"
       THEN Ends("invalid")
       ELSE phase' = "done" /\ Exits(CLIExitCode(result))
    /\ Fine
    /\ UNCHANGED <<request, at, result, drifted, canceled, artifact, reported>>

commandBaseline ==
    /\ phase = "returned" /\ result.error = "none"
    /\ request.command = "baseline" /\ fingerprintForRun(result.samples)
    /\ \/ /\ artifact' = <<NewRunArtifact(result.samples)>>
          /\ phase' = "saved" /\ Exits(CLIExitCode(result)) /\ Fine
       \/ Ends("infra_error") /\ Happens /\ UNCHANGED artifact
    /\ UNCHANGED <<request, at, result, drifted, canceled, reported>>

commandReport ==
    /\ phase = "saved"
    /\ reported' = IF /\ ArtifactIsSound(artifact[1])
                      /\ validateFingerprintSampleBinding(
                             artifact[1].fingerprint, artifact[1].samples)
                   THEN resultSetExit(artifact[1].samples) ELSE "invalid"
    /\ phase' = "done" /\ Fine
    /\ UNCHANGED <<request, at, result, drifted, canceled, artifact, exit>>

(* The world: a pinned input changes, or the user interrupts.               *)
Drift(input) ==
    /\ phase \in {"sampling", "running"} /\ input \notin drifted /\ Happens
    /\ drifted' = drifted \cup {input}
    /\ UNCHANGED <<phase, request, at, result, canceled, artifact, exit,
                   reported>>
Cancel ==
    /\ phase \in {"asked", "sampling", "running", "returned"}
    /\ ~canceled /\ Happens
    /\ canceled' = TRUE
    /\ UNCHANGED <<phase, request, at, result, drifted, artifact, exit,
                   reported>>

Next ==
    \/ Refuse \/ CopyRaces \/ Prepare
    \/ BudgetReached \/ DriftedBefore \/ StartSample \/ SampledAll
    \/ \E trace \in DOMAIN Traces :
           \/ \E status \in ProbedStatuses :
                  FinishSample(status, trace) \/ FinishWithError(status, trace)
           \/ FinishAborted(TRUE, trace)
    \/ \E status \in EarlyStatuses : FinishEarly(status)
    \/ FinishAborted(FALSE, "")
    \/ CleanUp \/ CleanUpFails \/ Return
    \/ commandRun \/ BaselineUnbound \/ commandBaseline \/ commandReport
    \/ \E input \in Inputs : Drift(input)
    \/ Cancel

Spec == Init /\ [][Next]_vars

-----------------------------------------------------------------------------
(* Properties.                                                              *)

Capped == request.cap > 0
Plan == UNION {{<<Cases[i].id, k>> : k \in 1..Repetitions(i)}
                  : i \in DOMAIN Cases}
Block(sample) == <<sample.case, sample.repetition>>

(* A paid sample is only started while the cost of every sample so far is   *)
(* known and what their runs spent leaves some of the cap (model.go, the    *)
(* checks before a sample and the invalid tracking after one).              *)
BudgetStops ==
    [][(phase = "sampling" /\ phase' = "running" /\ Capped) =>
          /\ \A sample \in ToSet(result.samples) :
                 sample.probed /\ observedSampleCost(sample).known
          /\ FoldLeft(LAMBDA sum, sample :
                          sum + Spends(Traces[sample.trace], Root, Min),
                      0, result.samples) < request.cap]_vars

(* A cost that a sample reports is what the messages of its tree cost, each *)
(* counted once (metrics/aggregate.go: duplicate observations are never     *)
(* added twice, unavailable ones never as zero).                            *)
CostIsExact ==
    \A sample \in ToSet(result.samples) :
        LET cost == sample.usage.tree.provider
            trace == Traces[sample.trace]
        IN  cost.known =>
                /\ Spends(trace, Root, Min) <= cost.usd
                /\ cost.usd <= Spends(trace, Root, Max)

(* A command that succeeds has sampled every repetition of every case of    *)
(* its selection, all of them passed and, under a cap, all of known cost:   *)
(* no truncation looks like success (modelRunResult.CLIExitCode).           *)
SuccessIsWhole ==
    exit = "success" =>
        /\ {Block(sample) : sample \in ToSet(result.samples)} = Plan
        /\ \A sample \in ToSet(result.samples) : sample.status = "pass"
        /\ Capped => result.costComplete

(* An error taints its sample: the block that failed is never handed on as  *)
(* a pass, and none is when the private directory could not be removed      *)
(* (prepareDeferredEngineSample: "never observe a PASS paired with an       *)
(* error").                                                                 *)
ErrorsTaintTheirSamples ==
    result.error # "none" =>
        \A sample \in ToSet(result.samples) :
            (result.unclean \/ Block(sample) = <<Cases[at[1]].id, at[2]>>)
                => sample.status # "pass"

(* What `baseline` saves, `report` reads, and tells as it was.              *)
SavedIsReadable ==
    reported # "none" => reported = resultSetExit(result.samples)

(* What a result says of its cost, its samples and its errors is so.        *)
SamplesKept ==
    CostIsExact /\ SuccessIsWhole /\ ErrorsTaintTheirSamples /\ SavedIsReadable

=============================================================================
