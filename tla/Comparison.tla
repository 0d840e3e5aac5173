----------------------------- MODULE Comparison -----------------------------
(* An A/B comparison from its case documents to its published report: the  *)
(* catalog and the manifest are loaded, both arms are sampled and judged,  *)
(* the two artifacts are compared (cmd/skynex-eval/offline.go,             *)
(* commandCompare) and the saved comparison is reported (commandReport).   *)
(*                                                                         *)
(* Odd things are limited: a document or manifest other than the standard  *)
(* one, an oddity of a run, a chronic story (which all runs of the last    *)
(* case share) and a fault of the artifacts each count, and at most        *)
(* MaxOddities happen.  Oddities befall the arms of one block, of a case   *)
(* other than the last.                                                    *)
EXTENDS Experiment

CONSTANTS
    Catalogs,      \* the sequences of case documents, the standard one first
    Manifests,     \* the manifests, the standard one first
    Chronic,       \* the stories the runs of the last case may share
    MaxOddities    \* how many odd things happen at most

ASSUME OdditiesAssumption == MaxOddities \in Nat
ASSUME ChronicAssumption == Chronic \subseteq SUBSET Oddities

(* What a case directory loads as; a manifest is a manifest of the list.    *)
Loaded ==
    [i \in DOMAIN Catalogs |->
        [j \in DOMAIN Catalogs[i] |-> Normalize(Catalogs[i][j])]]
Loads == {i \in DOMAIN Catalogs : loadContractPaths(Catalogs[i])}

(* What may be wrong with the artifacts when they are compared.             *)
RefusedFaults == {"manifest_missing", "suite_differs", "binding_broken",
                  "bundle_drifted", "case_binding_broken", "sample_missing",
                  "case_missing", "sample_doubled", "difference_allowed"}
FingerprintFaults == {"treatment_inert", "evaluator_differs",
                      "agents_unexplained"}
AuthorityFaults == {"exploratory", "critical_differs", "block_missing"}
HoldoutFaults == {"holdout_candidate_fails", "holdout_both_fail",
                  "holdout_candidate_lost", "holdout_missing"}
Faults == RefusedFaults \cup FingerprintFaults \cup AuthorityFaults
              \cup HoldoutFaults

VARIABLES
    phase,      \* how far the comparison has come
    catalog,    \* the cases that were loaded
    frozen,     \* the manifest that was loaded
    left,       \* how many odd things may still happen
    story,      \* what happened in the runs of each arm, by block
    samples,    \* the samples of each arm, by block
    fault,      \* what is wrong with the artifacts, or "none"
    saved,      \* the status of the saved comparison, or "none"
    reported    \* the exit code of the report, or Unset

vars == <<phase, catalog, frozen, left, story, samples, fault, saved,
          reported>>

manifest == Manifests[frozen]
Ids == [i \in DOMAIN catalog |-> catalog[i].id]
Case(id) == catalog[CHOOSE i \in DOMAIN catalog : catalog[i].id = id]
CriticalIDs == {c.id : c \in {c \in ToSet(catalog) : c.critical}}
Blocks == NewBalancedBlockedPlan(ToSet(Ids), manifest.runs)

-----------------------------------------------------------------------------
(* A sample of a run.                                                       *)

(* Whether a fragment is part of what countFailedChecks reads of a check.   *)
MentionsScope(k) ==
    \/ k.id = "judge_filesystem_allowed-scope"
    \/ "SKX-SCOPE-001" \in ToSet(k.requirements)
MentionsFalseSuccess(type) == type = "no_false_success"

FailedScope(r) ==
    Cardinality({k \in Checks(r) : MentionsScope(k) /\ k.status = "fail"})
FailedFalseSuccess(c, r) ==
    Cardinality({i \in DOMAIN r.declared :
        /\ MentionsFalseSuccess(c.checks[i].type)
        /\ r.declared[i].status = "fail"})

(* What of a run's result the comparison reads.                             *)
SampleOf(c, o, r) ==
    [status |-> r.status, valid |-> ValidateResult(r),
     telemetry |-> r.telemetry, model |-> ~modelObservationErr(o),
     value |-> [tokens |-> r.cost, wall |-> 1, retries |-> r.retries],
     failed |-> [scope |-> FailedScope(r),
                 falseSuccess |-> FailedFalseSuccess(c, r)]]
Sample(c, o) == SampleOf(c, o, Run(c, o))

(* A holdout run is reported sanitised: its status and its metrics.         *)
HoldoutSample(status) ==
    [status |-> status, valid |-> TRUE, telemetry |-> TRUE, model |-> TRUE,
     value |-> [tokens |-> 2, wall |-> 1, retries |-> 0],
     failed |-> [scope |-> 0, falseSuccess |-> 0]]
HoldoutStatus(arm) ==
    CASE fault = "holdout_both_fail" -> "fail"
      [] arm = "control" -> "pass"
      [] fault = "holdout_candidate_fails" -> "fail"
      [] fault = "holdout_candidate_lost" -> "infra_error"
      [] OTHER -> "pass"
HoldoutRuns(arm) ==
    IF HasHoldout(manifest)
    THEN [b \in {"holdout_0001"} \X (1..manifest.runs) |->
             HoldoutSample(HoldoutStatus(arm))]
    ELSE <<>>

-----------------------------------------------------------------------------
(* The comparison of two artifacts.                                         *)

Declared == ToSet(manifest.differences)
ModelFields == {"model", "provider"}

(* The fields in which the arms differ: the treatment the manifest froze    *)
(* and its consequences, and what else went wrong.                          *)
Differing ==
    CASE fault = "treatment_inert" -> Declared \ ModelFields
      [] fault = "evaluator_differs" ->
             Declared \cup {"effective_config", "evaluator_binary"}
      [] fault = "agents_unexplained" -> {"effective_agents"}
      [] OTHER -> Declared \cup {"effective_config"}

(* The public runs the artifact of an arm holds.                            *)
Public(arm) ==
    LET lost == CASE fault = "sample_missing" /\ arm = "candidate" ->
                         {<<Ids[1], 2>>}
                  [] fault = "block_missing" -> {<<Ids[1], 2>>}
                  [] fault = "case_missing" -> {Ids[1]} \X (1..manifest.runs)
                  [] OTHER -> {}
    IN  Restrict(samples[arm], Blocks \ lost)
All(arm) == Public(arm) @@ HoldoutRuns(arm)

MatchingHoldout == fault # "holdout_missing"
MatchingCritical == fault # "critical_differs"

(* Every run belongs to a frozen case, with its digests, and a decided run  *)
(* shows the model that answered.                                           *)
validateArtifactCaseContracts(arm) ==
    /\ fault # "case_binding_broken"
    /\ \A b \in DOMAIN Public(arm) :
           Completed(Public(arm)[b].status) => Public(arm)[b].model
    /\ \A id \in ToSet(Ids) : \E b \in DOMAIN Public(arm) : b[1] = id

loadFrozenPublicCasesForComparison ==
    /\ fault # "bundle_drifted" /\ VerifyBundles(manifest)
    /\ Len(catalog) = manifest.publicCases
    /\ CriticalIDs = ToSet(manifest.critical)

validateFingerprintSampleBinding == fault # "binding_broken"

Releasable(m) ==
    m.intent = "release" \/ m.mode = "isolated-container"
        \/ m.boundary = "provider-proxy"

manifestConformanceGate ==
    Gate(/\ fault \notin {"exploratory", "evaluator_differs"}
         /\ ("agent_bundle" \in Declared) = ("agent_bundle" \in Differing)
         /\ MatchingHoldout /\ MatchingCritical, "invalid")

(* The metadata's pass says as well that every critical case was sampled.   *)
CriticalMetadataGate ==
    Gate(/\ MatchingCritical
         /\ \A arm \in Arms :
                validateCriticalCoverage(CriticalIDs, Public(arm)), "invalid")

(* Without matching metadata there is no critical case to pass.             *)
CriticalOf == IF MatchingCritical THEN CriticalIDs ELSE {}

Holdouts(arm) == IF MatchingHoldout THEN HoldoutRuns(arm) ELSE <<>>
HoldoutGates ==
    IF HasHoldout(manifest) /\ MatchingHoldout
    THEN <<holdoutPassRateGate(HoldoutRuns("candidate"))>> ELSE <<>>

Order == Ids \o <<"holdout_0001">>
MetricGates(control, candidate) ==
    {EvaluateMetric(metric, control, candidate, Order, manifest)
        : metric \in Metrics}

GateResults ==
    LET control == Public("control") @@ Holdouts("control")
        candidate == Public("candidate") @@ Holdouts("candidate")
    IN  <<EvaluateCompatibility(Declared, Differing),
          treatmentRealizedGate(Declared, Differing),
          evidenceValidityGate(control), evidenceValidityGate(candidate),
          manifestConformanceGate,
          experimentPopulationGate(control, candidate, manifest),
          CriticalMetadataGate>>
        \o HoldoutGates
        \o EvaluateHardGates(control, candidate, Public("candidate"),
                             CriticalOf)
        \o SetToSeq(MetricGates(control, candidate))

(* What the command refuses before it decides anything.                     *)
Refused ==
    \/ fault \in {"manifest_missing", "suite_differs", "sample_doubled",
                  "difference_allowed"}
    \/ ~validateFingerprintSampleBinding
    \/ ~ManifestIsValid(manifest) \/ Releasable(manifest)
    \/ ~loadFrozenPublicCasesForComparison
    \/ \E arm \in Arms : ~validateArtifactCaseContracts(arm)
    \/ DOMAIN Public("control") # DOMAIN Public("candidate")

Decide == Combine(GateResults)

-----------------------------------------------------------------------------
(* The steps.                                                               *)

Init ==
    /\ phase = "declared" /\ catalog = <<>> /\ frozen = 1
    /\ left = MaxOddities
    /\ story = [arm \in Arms |-> <<>>] /\ samples = [arm \in Arms |-> <<>>]
    /\ fault = "none" /\ saved = "none" /\ reported = Unset

Cost(i) == IF i = 1 THEN 0 ELSE 1

(* LoadAllContracts, over a case directory.                                 *)
LoadCatalog(i) ==
    /\ phase = "declared" /\ Cost(i) <= left
    /\ left' = left - Cost(i)
    /\ IF i \in Loads THEN phase' = "loaded" /\ catalog' = Loaded[i]
       ELSE phase' = "refused" /\ UNCHANGED catalog
    /\ UNCHANGED <<frozen, story, samples, fault, saved, reported>>

(* The manifest is loaded and its bundles verified before any model call.   *)
LoadManifest(i) ==
    /\ phase = "loaded" /\ Cost(i) <= left
    /\ left' = left - Cost(i)
    /\ IF VerifyBundles(Manifests[i])
       THEN phase' = "frozen" /\ frozen' = i
       ELSE phase' = "refused" /\ UNCHANGED frozen
    /\ UNCHANGED <<catalog, story, samples, fault, saved, reported>>

LastCase == catalog[Len(catalog)].id
Story(arm, b, odd, where, chronic) ==
    CASE b = <<where, 1>> -> odd[arm]
      [] b[1] = LastCase -> chronic
      [] OTHER -> {}

(* The distinct runs of a story, a case and what happened, and the samples  *)
(* of the arms, given those of the distinct runs.                           *)
RunsOf(stories) == {<<b[1], stories[arm][b]>> : arm \in Arms, b \in Blocks}
ByArm(stories, sample) ==
    [arm \in Arms |-> [b \in Blocks |-> sample[<<b[1], stories[arm][b]>>]]]

(* executeModelRuns for both arms; a result the contract refuses is an      *)
(* error of the runner, and the campaign ends without artifacts.            *)
RunPlan(where, odd, chronic) ==
    /\ phase = "frozen"
    /\ where # LastCase
    /\ LET spent == Cardinality(odd["control"])
                        + Cardinality(odd["candidate"])
                        + (IF chronic = {} THEN 0 ELSE 1)
       IN  spent <= left /\ left' = left - spent
    /\ story' = [arm \in Arms |->
           [b \in Blocks |-> Story(arm, b, odd, where, chronic)]]
    /\ samples' = ByArm(story', [r \in RunsOf(story') |->
                                     Sample(Case(r[1]), r[2])])
    /\ phase' = IF \A arm \in Arms : \A b \in Blocks : samples'[arm][b].valid
                THEN "sampled" ELSE "broken"
    /\ UNCHANGED <<catalog, frozen, fault, saved, reported>>

(* Something happens to the artifacts before they are compared.             *)
Damage(f) ==
    /\ phase = "sampled" /\ fault = "none" /\ left > 0
    /\ f \in HoldoutFaults => HasHoldout(manifest)
    /\ fault' = f /\ left' = left - 1
    /\ UNCHANGED <<phase, catalog, frozen, story, samples, saved, reported>>

commandCompare ==
    /\ phase = "sampled"
    /\ IF Refused THEN phase' = "refused" /\ UNCHANGED saved
       ELSE phase' = "decided" /\ saved' = Decide
    /\ UNCHANGED <<catalog, frozen, left, story, samples, fault, reported>>

(* Somebody edits the saved comparison.                                     *)
Forge(status) ==
    /\ phase = "decided" /\ left > 0 /\ saved # status
    /\ saved' = status /\ left' = left - 1
    /\ UNCHANGED <<phase, catalog, frozen, story, samples, fault, reported>>
(* Mutant: the saved comparison is believed.                                *)
commandReportTrusting ==
    /\ phase = "decided"
    /\ IF ~Refused
       THEN phase' = "reported" /\ reported' = ExitCode(saved)
       ELSE phase' = "refused" /\ UNCHANGED reported
    /\ UNCHANGED <<catalog, frozen, left, story, samples, fault, saved>>

(* A saved comparison counts only when comparing the artifacts again gives  *)
(* the same one.                                                            *)
commandReport ==
    /\ phase = "decided"
    /\ IF ~Refused /\ saved = Decide
       THEN phase' = "reported" /\ reported' = ExitCode(saved)
       ELSE phase' = "refused" /\ UNCHANGED reported
    /\ UNCHANGED <<catalog, frozen, left, story, samples, fault, saved>>

(* The worst status of one arm's artifact, as a report of it alone exits.   *)
resultSetExit(arm) ==
    LET seen == Statuses(All(arm))
    IN  CASE "infra_error" \in seen -> 5
          [] "invalid" \in seen -> 2
          [] "budget_exhausted" \in seen -> 6
          [] "aborted" \in seen -> 4
          [] "fail" \in seen -> 1
          [] OTHER -> 0
ReportArtifact(arm) ==
    /\ phase = "sampled" /\ fault \notin {"binding_broken", "sample_doubled"}
    /\ phase' = "evidence" /\ reported' = resultSetExit(arm)
    /\ UNCHANGED <<catalog, frozen, left, story, samples, fault, saved>>

(* What may befall the arms of a block: at most n oddities in all.          *)
Blows[n \in 0..MaxOddities] ==
    IF n = 0 THEN {{}}
    ELSE Blows[n - 1]
             \cup {blow \cup {hit} : blow \in Blows[n - 1],
                                    hit \in Arms \X Oddities}
OddArms(n) ==
    {[arm \in Arms |-> {hit[2] : hit \in {h \in blow : h[1] = arm}}]
        : blow \in Blows[n]}

Next ==
    \/ \E i \in DOMAIN Catalogs : LoadCatalog(i)
    \/ \E i \in DOMAIN Manifests : LoadManifest(i)
    \/ \E where \in ToSet(Ids) : \E odd \in OddArms(left) :
           \E chronic \in Chronic : RunPlan(where, odd, chronic)
    \/ \E f \in Faults : Damage(f)
    \/ commandCompare
    \/ \E s \in {"pass", "regression"} : Forge(s)
    \/ commandReport
    \/ \E arm \in Arms : ReportArtifact(arm)

Spec == Init /\ [][Next]_vars

-----------------------------------------------------------------------------
(* Properties.                                                              *)

SampleType ==
    [status : {"pass", "fail", "invalid"} \cup Untrusted,
     valid : BOOLEAN, telemetry : BOOLEAN, model : BOOLEAN,
     value : [tokens : {Unset, 2, 3}, wall : {1}, retries : 0..1],
     failed : [scope : Nat, falseSuccess : Nat]]

(* Every loaded manifest is one the contract accepts, and samples are taken *)
(* of every block of both arms or of none.                                  *)
TypeOK ==
    /\ phase \in {"declared", "loaded", "frozen", "sampled", "broken",
                  "decided", "reported", "evidence", "refused"}
    /\ catalog = <<>> \/ \E i \in DOMAIN Loaded : catalog = Loaded[i]
    /\ frozen \in {i \in DOMAIN Manifests : ManifestIsValid(Manifests[i])}
    /\ left \in 0..MaxOddities /\ fault \in Faults \cup {"none"}
    /\ saved \in ToSet(Precedence) \cup {"none"}
    /\ reported \in {Unset} \cup 0..6
    /\ \A arm \in Arms :
           \/ samples[arm] = <<>>
           \/ samples[arm] \in [Blocks -> SampleType]

Clean == \A arm \in Arms : \A b \in DOMAIN story[arm] : story[arm][b] = {}

(* The engine can judge every run of a case the contract accepts: whatever  *)
(* happens in it, the result it builds satisfies RunResult.Validate, so no  *)
(* paid run is thrown away for its form.                                    *)
ResultsAreValid == phase # "broken"

Fits == /\ Len(catalog) = manifest.publicCases
        /\ CriticalIDs = ToSet(manifest.critical)

(* What the two contracts accept can be decided: when nothing odd happens   *)
(* in any run, the artifacts are whole and the manifest is about the cases, *)
(* the comparison is not refused and passes; validation lets no experiment  *)
(* through that no outcome of the treatment could turn green.               *)
CleanExperimentPasses ==
    (/\ samples["control"] # <<>> /\ Clean /\ fault = "none"
     /\ Fits /\ ~Releasable(manifest)) =>
        /\ phase = "refused" => saved # "none"
        /\ phase = "reported" => reported = 0

(* What the contracts keep: types, results and experiments that can pass.   *)
ContractsKept == TypeOK /\ ResultsAreValid /\ CleanExperimentPasses

(* What a case is judged on whatever it asks, and what else the critical    *)
(* case of the instances asks.                                              *)
Harm == {"oracle_red", "oracle_leaks", "forbidden_edit", "unsafe_entry",
         "forbidden_tool", "source_changed", "bundle_changed"}
CriticalHarm == Harm \cup {"no_change", "stray_edit", "no_delegation",
                           "wrong_order"}

(* A promotion is earned: when the report exits 0, no critical run of the   *)
(* candidate did harm, and the candidate did no harm where its control ran  *)
(* clean, however many gates looked at other things and whoever edited the  *)
(* saved comparison.                                                        *)
PromotionIsEarned ==
    (phase = "reported" /\ reported = 0) =>
        \A b \in Blocks :
            LET candidate == story["candidate"][b]
            IN  /\ b[1] \in CriticalIDs => ~Hit(candidate, CriticalHarm)
                /\ Hit(candidate, Harm) => story["control"][b] # {}

Losses == {"trace_missing", "trace_incomplete", "child_unfinished",
           "usage_lost", "stream_lost", "model_mismatch", "close_failed",
           "credential_changed", "trace_unsaved", "toolchain_drift",
           "answer_malformed", "canceled", "deadline"}

(* A green report stands on complete evidence: no run of either arm lost a  *)
(* part of its trace, its identity or its answer, and nothing was wrong     *)
(* with the artifacts.                                                      *)
GreenEvidenceIsComplete ==
    (phase = "reported" /\ reported = 0) =>
        /\ fault = "none"
        /\ \A arm \in Arms : \A b \in Blocks : ~Hit(story[arm][b], Losses)

(* A regression is the candidate's: when the report exits 1 something odd   *)
(* happened in a run of the candidate; what befalls the control alone, or   *)
(* the environment, is not blamed on the treatment.                         *)
RegressionIsTheCandidates ==
    (phase = "reported" /\ reported = 1) =>
        \/ fault \in HoldoutFaults
        \/ \E b \in Blocks : story["candidate"][b] # {}

(* The verdicts are fair: a green one to the gates, a red one to its arm.   *)
VerdictsKept == GreenEvidenceIsComplete /\ RegressionIsTheCandidates

=============================================================================
