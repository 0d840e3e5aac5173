----------------------------- MODULE Experiment -----------------------------
(* The pure part of an A/B comparison: the frozen manifest                 *)
(* (internal/eval/experiment/manifest.go), the fingerprints of the two     *)
(* arms (internal/eval/baseline/fingerprint.go), the statistics            *)
(* (internal/eval/stats) and the gates (internal/eval/gates and            *)
(* cmd/skynex-eval/offline.go).                                            *)
(*                                                                         *)
(* An arm is a function from blocks to samples; a block is a pair of a     *)
(* case and a repetition; a sample keeps of a run what the gates read.     *)
(* A gate is a status.  Ratios are 1, so that a metric is judged on the    *)
(* sign of the difference of the arms.                                     *)
EXTENDS Judgement

Arms == {"control", "candidate"}

MaxCases == 10000
MinimumReleaseRuns == 10

-----------------------------------------------------------------------------
(* The manifest.                                                            *)

validateBundle(bundle) ==
    /\ bundle.root # "" /\ bundle.digest # "bad"
    /\ bundle.git # "bad" /\ bundle.patch # "bad"
    /\ bundle.patch # "" => bundle.git # ""
    /\ bundle.sourceGit # "bad" /\ bundle.sourcePatch # "bad"
    /\ bundle.sourcePatch # "" => bundle.sourceGit # ""

HasHoldout(m) == m.holdout # <<>>

validateHoldout(m) ==
    /\ m.holdoutCases \in 0..MaxCases
    /\ HasHoldout(m) = (m.holdoutCases > 0)
    /\ HasHoldout(m) => /\ validateBundle(m.holdout[1])
                        /\ m.holdout[1].sourceGit = ""

(* An assignment of models is <<>> or the pair of the two arms' models; a   *)
(* model is a pair of a provider and a name.                                *)
validateModelAssignment(m) ==
    LET model == "model" \in ToSet(m.differences)
        provider == "provider" \in ToSet(m.differences)
    IN  IF m.assignment = <<>> THEN ~model /\ ~provider
        ELSE LET control == m.assignment[1]
                 candidate == m.assignment[2]
             IN  /\ "" \notin ToSet(control) \cup ToSet(candidate)
                 /\ control # candidate /\ model
                 /\ (control[1] # candidate[1]) = provider

validateTreatment(m) ==
    LET declared == ToSet(m.differences)
        bundle == "agent_bundle" \in declared
    IN  /\ m.differences # <<>> /\ Distinct(m.differences)
        /\ declared \subseteq {"prompt", "agent_bundle", "model", "provider"}
        /\ validateModelAssignment(m)
        /\ ("prompt" \in declared) = bundle
        /\ (m.control.digest # m.candidate.digest) = bundle
        /\ ~bundle => m.assignment # <<>>

validateExecution(m) ==
    /\ m.concurrency \in 1..64
    /\ m.auth = "openai-oauth" /\ m.billing = "subscription"
    /\ m.boundary \in {"runtime-readable", "provider-proxy"}
    /\ m.mode \in {"trusted-local", "isolated-container"}
    /\ m.boundary = "runtime-readable" => m.mode = "trusted-local"
    /\ m.boundary = "provider-proxy" =>
           /\ m.mode = "isolated-container"
           /\ m.network = "provider-proxy-only"
    /\ m.intent = "release" => m.boundary = "provider-proxy"
    /\ m.tools # "bad"
    /\ m.mode = "trusted-local" =>
           m.network = "host-unisolated" /\ m.image = ""
    /\ m.mode = "isolated-container" =>
           /\ m.network \in {"none", "provider-proxy-only",
                             "registry-allowlist"}
           /\ m.image \notin {"", "bad"}

(* Allowances are zero for every intent; a confidence is in percent, and 0  *)
(* and a minimum of 0 pairs stand for the defaults.                         *)
Confidence(m) == IF m.confidence = 0 THEN 95 ELSE m.confidence
MinimumPairs(m) == IF m.minimumPairs = 0 THEN 5 ELSE m.minimumPairs
(* Mutant: more pairs of a case may be asked for than it has runs.          *)
validateGatesUnbounded(m) ==
    /\ m.rate = 100 /\ m.allowances = 0
    /\ m.ratio \in 1..100000
    /\ Confidence(m) \in 51..99
    /\ MinimumPairs(m) >= 2

validateGates(m) ==
    /\ m.rate = 100 /\ m.allowances = 0
    /\ m.ratio \in 1..100000
    /\ Confidence(m) \in 51..99
    /\ MinimumPairs(m) \in 2..m.runs

validateRelease(m) ==
    /\ HasHoldout(m) /\ m.runs >= MinimumReleaseRuns
    /\ m.ratio <= 100 /\ Confidence(m) >= 95
    /\ m.minimumPairs >= MinimumReleaseRuns

ManifestIsValid(m) ==
    /\ WellNamed(m.id) /\ WellNamed(m.suite)
    /\ m.intent \in {"development", "release"}
    /\ validateBundle(m.harness) /\ validateBundle(m.control)
    /\ validateBundle(m.candidate)
    /\ m.control.root # m.candidate.root
    /\ validateHoldout(m)
    /\ m.publicCases \in 1..MaxCases /\ m.casesDigest # "bad"
    /\ m.critical # <<>> /\ Len(m.critical) <= m.publicCases
    /\ Distinct(m.critical) /\ \A id \in ToSet(m.critical) : WellNamed(id)
    /\ validateTreatment(m)
    /\ m.runs \in 2..MaxRuns
    /\ m.method = "balanced-blocked" /\ m.seed # "bad" /\ m.serialized
    /\ validateExecution(m) /\ validateGates(m)
    /\ m.intent = "release" => validateRelease(m)

(* Bundles are verified with their roots resolved: none may hold another.   *)
Roots(m) ==
    <<m.harness.root, m.control.root, m.candidate.root>>
        \o (IF HasHoldout(m) THEN <<m.holdout[1].root>> ELSE <<>>)
VerifyBundles(m) == ManifestIsValid(m) /\ Distinct(Roots(m))

(* The blocks of the plan; only their population matters to a comparison.   *)
NewBalancedBlockedPlan(ids, runs) == ids \X (1..runs)

-----------------------------------------------------------------------------
(* Fingerprints: the set of fields in which the arms differ.                *)

experimentVariableFields ==
    {"prompt", "agent_bundle", "model", "provider", "toolset", "permission"}
EffectiveFields == {"effective_config", "effective_agents", "model",
                    "provider", "toolset", "permission"}

Causes(field) ==
    CASE field = "effective_config" -> experimentVariableFields
      [] field = "effective_agents" ->
             {"prompt", "agent_bundle", "model", "provider"}
      [] OTHER -> {}
derivedEffectiveMismatchAllowed(field, declared, differing) ==
    Causes(field) \cap declared \cap differing # {}

Allowed(field, declared, differing) ==
    field \in declared
        \/ derivedEffectiveMismatchAllowed(field, declared, differing)
CompareFingerprints(declared, differing) ==
    /\ declared \subseteq experimentVariableFields
    /\ \A field \in differing : Allowed(field, declared, differing)

Gate(holds, otherwise) == IF holds THEN "pass" ELSE otherwise

EvaluateCompatibility(declared, differing) ==
    Gate(CompareFingerprints(declared, differing), "invalid")
treatmentRealizedGate(declared, differing) ==
    LET realized == {f \in differing : Allowed(f, declared, differing)}
    IN  Gate(declared \subseteq realized /\ realized \cap EffectiveFields # {},
             "invalid")

-----------------------------------------------------------------------------
(* Statistics: what is read of a set of samples.                            *)

Statuses(arm) == {arm[b].status : b \in DOMAIN arm}
Completed(status) == status \in {"pass", "fail"}

(* Passing among completed runs; unavailable without a completed one.       *)
PassRateIsWhole(arm) == "fail" \notin Statuses(arm)
PassRateIsAvailable(arm) == \E s \in Statuses(arm) : Completed(s)

Of(arm, ids) == [b \in {b \in DOMAIN arm : b[1] \in ids} |-> arm[b]]

(* The clustered bootstrap over the cases: with the few cases of an         *)
(* instance its interval excludes zero only when every case is on one side. *)
ClusterDelta(deltas, id) ==
    LET mine == {b \in DOMAIN deltas : b[1] = id}
    IN  FoldSet(LAMBDA b, sum : sum + deltas[b], 0, mine)
summarizeTransformed(deltas, minimumPairs) ==
    LET ids == {b[1] : b \in DOMAIN deltas}
        Pairs(id) == Cardinality({b \in DOMAIN deltas : b[1] = id})
    IN  CASE \E id \in ids : Pairs(id) < minimumPairs -> "unavailable"
          [] Cardinality(ids) < 2 -> "unavailable"
          [] \A id \in ids : ClusterDelta(deltas, id) <= 0 -> "below"
          [] \A id \in ids : ClusterDelta(deltas, id) > 0 -> "above"
          [] OTHER -> "across"

-----------------------------------------------------------------------------
(* Gates.                                                                   *)

Untrusted == {"infra_error", "aborted", "budget_exhausted"}
evidenceValidityGate(arm) ==
    CASE \E b \in DOMAIN arm : ~arm[b].valid -> "invalid"
      [] Statuses(arm) \cap Untrusted # {} -> "infra_error"
      [] "invalid" \in Statuses(arm) -> "invalid"
      [] OTHER -> "pass"

experimentPopulationGate(control, candidate, m) ==
    LET blocks == DOMAIN control
        ids == {b[1] : b \in blocks}
    IN  Gate(/\ blocks # {} /\ blocks = DOMAIN candidate
             /\ Cardinality(ids) = m.publicCases + m.holdoutCases
             /\ blocks = NewBalancedBlockedPlan(ids, m.runs), "invalid")

PassRateGate(arm) ==
    CASE ~PassRateIsAvailable(arm) -> "invalid"
      [] ~PassRateIsWhole(arm) -> "regression"
      [] OTHER -> "pass"
holdoutPassRateGate(arm) == PassRateGate(arm)

validateCriticalCoverage(ids, arm) ==
    \A id \in ids : \E b \in DOMAIN arm : b[1] = id

evaluateMaximum(count) == IF count > 0 THEN "regression" ELSE "pass"
(* Mutant: the arms are swapped.                                            *)
FailToPass(control, candidate) ==
    {b \in DOMAIN control \cap DOMAIN candidate :
        candidate[b].status = "pass" /\ control[b].status # "pass"}

PassToFail(control, candidate) ==
    {b \in DOMAIN control \cap DOMAIN candidate :
        control[b].status = "pass" /\ candidate[b].status # "pass"}
countPassToFail(control, candidate) ==
    Cardinality(PassToFail(control, candidate))

(* The failed checks of a kind, which each sample counts on its own.        *)
countFailedChecks(arm, kind) ==
    FoldSet(LAMBDA b, sum : sum + arm[b].failed[kind], 0, DOMAIN arm)

EvaluateHardGates(control, candidate, public, critical) ==
    <<PassRateGate(Of(public, critical)),
      evaluateMaximum(countPassToFail(control, candidate)),
      evaluateMaximum(countFailedChecks(public, "scope")),
      evaluateMaximum(countFailedChecks(public, "falseSuccess"))>>

(* What a metric reads, whether it wants complete telemetry, and of which   *)
(* pairs: those that both passed, or those that were both completed.        *)
Metrics ==
    {[of |-> "tokens", telemetry |-> TRUE, successful |-> TRUE],
     [of |-> "wall", telemetry |-> FALSE, successful |-> FALSE],
     [of |-> "retries", telemetry |-> TRUE, successful |-> FALSE]}

pairEligible(metric, control, candidate) ==
    IF metric.successful
    THEN control.status = "pass" /\ candidate.status = "pass"
    ELSE Completed(control.status) /\ Completed(candidate.status)
(* Mutant: pairs count whatever is missing from their telemetry.            *)
classifyPairBlind(metric, control, candidate) ==
    CASE ~Completed(control.status) \/ ~Completed(candidate.status) ->
             "invalid"
      [] /\ metric.successful /\ control.status = "pass"
         /\ candidate.status = "fail" -> "regression"
      [] ~pairEligible(metric, control, candidate) -> "skipped"
      [] OTHER -> "counted"

classifyPair(metric, control, candidate) ==
    CASE ~Completed(control.status) \/ ~Completed(candidate.status) ->
             "invalid"
      [] /\ metric.successful /\ control.status = "pass"
         /\ candidate.status = "fail" -> "regression"
      [] ~pairEligible(metric, control, candidate) -> "skipped"
      [] metric.telemetry /\ ~(control.telemetry /\ candidate.telemetry) ->
             "invalid"
      [] OTHER -> "counted"

(* The first pair that decides, in the order of the blocks, decides alone.  *)
Before(a, b, order) ==
    LET Position(id) == CHOOSE i \in DOMAIN order : order[i] = id
    IN  \/ Position(a[1]) < Position(b[1])
        \/ a[1] = b[1] /\ a[2] < b[2]
Terminal == {"invalid", "regression"}
classifyPairs(metric, control, candidate) ==
    [b \in DOMAIN control |-> classifyPair(metric, control[b], candidate[b])]
Interval(metric, control, candidate, pairs, m) ==
    LET counted == {b \in DOMAIN pairs : pairs[b] = "counted"}
        deltas == [b \in counted |-> candidate[b].value[metric.of]
                                         - control[b].value[metric.of]]
    IN  CASE summarizeTransformed(deltas, MinimumPairs(m)) = "below" ->
                 "pass"
          [] summarizeTransformed(deltas, MinimumPairs(m)) = "above" ->
                 "regression"
          [] OTHER -> "inconclusive"
EvaluateMetric(metric, control, candidate, order, m) ==
    LET pairs == classifyPairs(metric, control, candidate)
        deciding == {b \in DOMAIN pairs : pairs[b] \in Terminal}
    IN  IF deciding = {} THEN Interval(metric, control, candidate, pairs, m)
        ELSE pairs[CHOOSE b \in deciding :
                       \A c \in deciding \ {b} : Before(b, c, order)]

Precedence ==
    <<"not_applicable", "pass", "inconclusive", "regression", "invalid",
      "infra_error">>
Combine(results) ==
    LET worst == CHOOSE i \in DOMAIN Precedence :
                     /\ Precedence[i] \in ToSet(results) \cup {"pass"}
                     /\ \A j \in i + 1..Len(Precedence) :
                            Precedence[j] \notin ToSet(results)
    IN  Precedence[worst]
ExitCode(status) ==
    CASE status \in {"pass", "not_applicable"} -> 0
      [] status = "regression" -> 1
      [] status = "invalid" -> 2
      [] status = "inconclusive" -> 3
      [] OTHER -> 5

=============================================================================
