------------------------------- MODULE Canary -------------------------------
(* The screening command `skynex-eval canary` (cmd/skynex-eval/canary.go,  *)
(* canary_executor.go, canary_skynex.go).  A request is admitted against   *)
(* one of two immutable profiles and its frozen experiment, at most six    *)
(* samples are called one after the other under four deadlines, the        *)
(* frozen inputs are verified around every call and at the end, and the    *)
(* decision is sealed in an artifact that is published where nothing was.  *)
(*                                                                         *)
(* Time is counted in minutes and passes in the calls and in the           *)
(* verifications.  A digest is the value it was taken of.  At most         *)
(* MaxOddities slow steps, drifts, interruptions, foreign files, failures  *)
(* and samples that are not as they should be happen.                      *)
EXTENDS Naturals, FiniteSets, SequencesExt

CONSTANTS
    Asks,         \* the requests, by name: records, see commandCanary
    Movable,      \* the frozen inputs that may change
    TokenCounts,  \* the input tokens that a sample of each arm may report
    Lengths,      \* the minutes that a call may take
    Delays,       \* the minutes that a slow verification takes
    MaxOddities

VARIABLES
    screening,    \* how far the command has come
    asked,        \* the name of its request
    minutes,      \* the time since it began
    opened,       \* when the executor began
    began,        \* when the last call began, and whether on frozen inputs
    gathered,     \* the samples the executor has accepted
    cleaned,      \* its CleanupComplete
    fault,        \* its error
    strayed,      \* the frozen inputs that are not what was frozen
    interrupted,  \* whether the outer context is done
    output,       \* what the path of the artifact names
    sealed,       \* the artifact
    screenExit,   \* the status the command exits with
    oddities

canaryVars ==
    <<screening, asked, minutes, opened, began, gathered, cleaned, fault,
      strayed, interrupted, output, sealed, screenExit, oddities>>

Costs(n) == oddities + n <= MaxOddities /\ oddities' = oddities + n
Oddly(b) == Costs(IF b THEN 1 ELSE 0)

-----------------------------------------------------------------------------
(* The profiles.                                                            *)

workflowV2CanaryGlobalLimit == 30
workflowV2CanaryPreflightLimit == 1
workflowV2CanarySampleLimit == 4
workflowV2CanarySampleBudget == 24
workflowV2CanaryCleanupReserve == 1
workflowV2CanarySealReserve == 4
workflowV2CanaryMaxSamples == 6

ExecutionDeadline == workflowV2CanaryGlobalLimit - workflowV2CanarySealReserve
SchedulingDeadline == ExecutionDeadline - workflowV2CanaryCleanupReserve

WorkflowV2 == "workflow-v2-canary-v1"
Standalone == "skynex-orchestrator-canary-v1"
isSupportedCanaryProfile(profile) == profile \in {WorkflowV2, Standalone}

workflowV2CanaryCaseIDs ==
    {"wfv2_canary_detach_wake", "wfv2_canary_low_complete",
     "wfv2_canary_recovery_safety"}
skynexOrchestratorCanaryCaseIDs ==
    {"skx_compaction", "skx_low_direct", "skx_no_workflow"}
workflowV2CanaryCaseCount == 3
skynexOrchestratorCanaryPublicCaseCount == 19

(* The evaluator owns the digests of its cases and of their fixtures.       *)
CasePinFor(id) == [case |-> <<"case", id>>, fixture |-> <<"fixture", id>>]
CaseIsPinned(c) == /\ c.digest = CasePinFor(c.id).case
                   /\ c.fixture = CasePinFor(c.id).fixture

-----------------------------------------------------------------------------
(* The frozen experiment.                                                   *)

requireLocalABCredentialBoundary(m) == m.boundary = "runtime-readable"

(* Development runs of one model on this host, and no holdout.              *)
ManifestScreens(m, suite, cases) ==
    /\ m.suite = suite /\ m.intent = "development"
    /\ m.publicCases = cases /\ Cardinality(m.critical) = cases
    /\ ~m.holdout /\ ~m.assignsModels /\ m.concurrency = 1
    /\ m.auth = "oauth" /\ m.mode = "trusted-local" /\ m.network = "host"
    /\ requireLocalABCredentialBoundary(m)

validateWorkflowCanaryManifest(m) ==
    ManifestScreens(m, "workflow-v2-canary", workflowV2CanaryCaseCount)

validateSkynexOrchestratorCanaryManifest(m) ==
    /\ ManifestScreens(m, "skynex-orchestrator",
                       skynexOrchestratorCanaryPublicCaseCount)
    /\ m.runs = 2

NoDriver == <<>>

(* A driver has these four fields, of these types, and no other.            *)
decodeWorkflowCanaryDriver(driver) ==
    /\ DOMAIN driver = {"mode", "id", "ends", "turns"}
    /\ driver.mode \in {"foreground", "managed-detach"}
    /\ driver.id # "" /\ driver.ends # "" /\ driver.turns \in 0..2

(* Distinct hard checks, one of the claims and one of the exact scope.      *)
validateWorkflowCanaryDeclaredChecks(c) ==
    LET Of(type) == {i \in DOMAIN c.checks : c.checks[i].type = type} IN
    /\ \A i, j \in DOMAIN c.checks :
          i # j => c.checks[i].id # c.checks[j].id
    /\ \A i \in DOMAIN c.checks : c.checks[i].hard
    /\ Cardinality(Of("no_false_success")) = 1
    /\ Cardinality(Of("expected_diff")) = 1

(* What both profiles ask of a case.                                        *)
CaseScreens(c, suite, agent) ==
    /\ c.suite = suite /\ c.critical /\ c.agent = agent
    /\ c.provider = "openai" /\ c.public

CasesDiffer(cases) ==
    \A i, j \in DOMAIN cases : i # j => cases[i].id # cases[j].id

validateWorkflowCanaryCases(cases) ==
    /\ Len(cases) = workflowV2CanaryCaseCount
    /\ CasesDiffer(cases)
    /\ \A i \in DOMAIN cases :
          LET c == cases[i] IN
          /\ c.id \in workflowV2CanaryCaseIDs
          /\ CaseScreens(c, "workflow-v2-canary", "workflow-orchestrator")
          /\ c.timeout \in 1..workflowV2CanarySampleLimit
          /\ c.runs = 1 /\ c.profile = WorkflowV2
          /\ decodeWorkflowCanaryDriver(c.driver) /\ c.driver.id = c.id
          /\ "skynex" \in c.executables
          /\ c.fakeMCPs = {} /\ "neurox" \notin c.tools
          /\ validateWorkflowCanaryDeclaredChecks(c)
          /\ CaseIsPinned(c)

validateSkynexOrchestratorCanarySelectedCases(cases) ==
    /\ {cases[i].id : i \in DOMAIN cases} = skynexOrchestratorCanaryCaseIDs
    /\ CasesDiffer(cases)
    /\ \A i \in DOMAIN cases :
          LET c == cases[i] IN
          /\ c.suite = "skynex-orchestrator"
          /\ c.agent = "skynex-orchestrator"
          /\ c.driver = NoDriver
          /\ CaseIsPinned(c)

(* The whole suite must be sound, three of its cases are screened.          *)
SuiteScreens(suite) ==
    /\ Len(suite) = skynexOrchestratorCanaryPublicCaseCount
    /\ CasesDiffer(suite)
    /\ \A i \in DOMAIN suite :
          /\ CaseScreens(suite[i], "skynex-orchestrator",
                         "skynex-orchestrator")
          /\ suite[i].driver = NoDriver

selectSkynexOrchestratorCanaryCases(suite) ==
    LET Selected(c) == c.id \in skynexOrchestratorCanaryCaseIDs IN
    SelectSeq(suite, Selected)

SelectedCases(a) ==
    IF a.profile = WorkflowV2 THEN a.cases
    ELSE selectSkynexOrchestratorCanaryCases(a.cases)

(* The public cases, their fixtures and the critical ones are the frozen.   *)
PopulationIsFrozen(a) ==
    LET digests == {a.cases[i].digest : i \in DOMAIN a.cases} IN
    /\ digests = {CasePinFor(a.cases[i].id).case : i \in DOMAIN a.cases}
    /\ digests = a.manifest.publicDigest
    /\ \A i \in DOMAIN a.cases :
          a.cases[i].fixture = CasePinFor(a.cases[i].id).fixture
    /\ a.manifest.critical =
          {a.cases[i].id :
              i \in {j \in DOMAIN a.cases : a.cases[j].critical}}

-----------------------------------------------------------------------------
(* The runtime.                                                             *)

(* Every component of the fixed path belongs to root and nobody else may    *)
(* write to it; the evaluator itself is not root.                           *)
verifyRootOwnedReadOnlyPluginPath(a) ==
    /\ ~a.root
    /\ \A i \in DOMAIN a.plugin.chain :
          LET component == a.plugin.chain[i] IN
          /\ component.owner = "root" /\ ~component.writable
          /\ component.kind = IF i = 1 THEN "file" ELSE "directory"

(* The installed plugin is the one embedded in the evaluator.               *)
resolveWorkflowCanaryPluginContent(a) ==
    /\ a.plugin.exact /\ a.plugin.small /\ a.plugin.content = "embedded"

resolveWorkflowCanaryPlugin(a) ==
    /\ a.plugin.path = "default"
    /\ verifyRootOwnedReadOnlyPluginPath(a)
    /\ resolveWorkflowCanaryPluginContent(a)

(* The closure resolves every executable of the selected cases, and git.    *)
ResolveExecutableClosure(a) ==
    {"git"} \cup UNION {SelectedCases(a)[i].executables :
                           i \in DOMAIN SelectedCases(a)}

ClosureScreens(a) ==
    /\ ResolveExecutableClosure(a) = a.manifest.toolchains
    /\ ("skynex" \in ResolveExecutableClosure(a)) <=> a.profile = WorkflowV2

validateCanaryOutputLocation(a) == ~a.outputInBundle

prepareWorkflowV2Canary(a) ==
    /\ validateWorkflowCanaryManifest(a.manifest)
    /\ a.manifest.evaluator = a.evaluator /\ a.manifest.opencode = a.opencode
    /\ resolveWorkflowCanaryPlugin(a)
    /\ a.bundles = {"harness", "control", "candidate"}
    /\ validateWorkflowCanaryCases(a.cases)
    /\ PopulationIsFrozen(a)
    /\ Len(a.manifest.plan[1]) = workflowV2CanaryCaseCount
    /\ ClosureScreens(a) /\ a.login /\ validateCanaryOutputLocation(a)

prepareSkynexOrchestratorCanary(a) ==
    /\ validateSkynexOrchestratorCanaryManifest(a.manifest)
    /\ a.manifest.evaluator = a.evaluator /\ a.manifest.opencode = a.opencode
    /\ a.bundles = {"harness", "control", "candidate"}
    /\ SuiteScreens(a.cases)
    /\ validateSkynexOrchestratorCanarySelectedCases(SelectedCases(a))
    /\ PopulationIsFrozen(a)
    /\ Len(a.manifest.plan[1]) = workflowV2CanaryCaseCount
    /\ ClosureScreens(a) /\ a.login /\ validateCanaryOutputLocation(a)

prepareCanaryProfile(a) ==
    IF a.profile = WorkflowV2 THEN prepareWorkflowV2Canary(a)
    ELSE prepareSkynexOrchestratorCanary(a)

(* The flags that a request must carry.                                     *)
ArgumentsScreen(a) ==
    a.allowed /\ isSupportedCanaryProfile(a.profile) /\ a.named /\ a.oauth

(* The request of the executor: bounds and authority of the profile.        *)
validateCanaryRuntimeAuthority(a) ==
    \/ /\ a.profile = WorkflowV2
       /\ a.manifest.suite = "workflow-v2-canary"
    \/ /\ a.profile = Standalone
       /\ a.manifest.suite = "skynex-orchestrator"
       /\ validateSkynexOrchestratorCanarySelectedCases(SelectedCases(a))
       /\ "skynex" \notin ResolveExecutableClosure(a)

(* The frozen inputs that are verified around a call, and at the end.       *)
verifyCanaryExecutionAuthority(a) ==
    {"bundles", "closure", "opencode"} \cup
        IF a.profile = WorkflowV2 THEN {"skynex", "plugin"} ELSE {}

(* Mutant: the evaluator may change under the screening.                    *)
verifyPreparedCanaryButEvaluator(a) == verifyCanaryExecutionAuthority(a)

verifyPreparedCanaryUnchanged(a) ==
    verifyCanaryExecutionAuthority(a) \cup {"evaluator"}

-----------------------------------------------------------------------------
(* The plan.                                                                *)

CanaryArms == {"control", "candidate"}

(* The first repetition of the experiment's plan, and nothing after it.     *)
buildWorkflowCanaryPlan(m) == m.plan[1]

(* Both arms of the first case, in the order of its block, and so on.       *)
flattenCanaryPlan(plan) ==
    [i \in 1..(2 * Len(plan)) |->
        LET block == plan[(i + 1) \div 2] IN
        [case |-> block.case, arm |-> block.order[2 - (i % 2)]]]

CanaryCoordinates(a) == flattenCanaryPlan(buildWorkflowCanaryPlan(a.manifest))

TimeoutOf(a, id) ==
    LET cases == SelectedCases(a) IN
    cases[CHOOSE i \in DOMAIN cases : cases[i].id = id].timeout

CallTimeouts(a) ==
    [i \in DOMAIN CanaryCoordinates(a) |-> TimeoutOf(a, CanaryCoordinates(a)[i].case)]

validateCanaryExecutionRequest(a) ==
    /\ validateCanaryRuntimeAuthority(a)
    /\ Len(SelectedCases(a)) = workflowV2CanaryCaseCount
    /\ Len(CanaryCoordinates(a)) = workflowV2CanaryMaxSamples

(* The requests that are admitted, the plan of each and its timeouts.       *)
AdmittedAsks ==
    {name \in DOMAIN Asks :
        ArgumentsScreen(Asks[name]) /\ prepareCanaryProfile(Asks[name])}
CanaryPlans == [name \in DOMAIN Asks |-> CanaryCoordinates(Asks[name])]
CanaryTimeouts == [name \in AdmittedAsks |-> CallTimeouts(Asks[name])]

ASSUME CanaryBounds ==
    /\ MaxOddities \in Nat /\ TokenCounts \in [CanaryArms -> SUBSET Nat]
    /\ Lengths \subseteq Nat /\ Delays \subseteq Nat
    /\ Movable \subseteq {"bundles", "closure", "opencode", "skynex",
                          "plugin", "evaluator"}

(* The plan of an experiment is a sequence of balanced blocks.              *)
ASSUME PlansAreBalanced ==
    \A name \in DOMAIN Asks :
        /\ Asks[name].manifest.plan[1] \in
              Seq([case : workflowV2CanaryCaseIDs
                             \cup skynexOrchestratorCanaryCaseIDs,
                   order : {<<"control", "candidate">>,
                            <<"candidate", "control">>}])
        /\ \A i, j \in DOMAIN Asks[name].manifest.plan[1] :
              i # j => Asks[name].manifest.plan[1][i].case
                          # Asks[name].manifest.plan[1][j].case

-----------------------------------------------------------------------------
(* A sample.                                                                *)

SampleStatuses == {"pass", "fail", "budget_exhausted", "invalid",
                   "infra_error", "aborted", "inconclusive"}
Proofs == {"declared", "categories"}
Runtimes == [core : {"frozen", "other", ""},
             authorization : {"", "frozen", "other"}]

(* What the contract holds of a sample: that its runtime attested its       *)
(* cleanup, that it names the frozen inputs and a run of its own, that the  *)
(* declared checks and every category passed, that its telemetry is         *)
(* complete.  Beside it, whether it returned in time and what had strayed   *)
(* when it began or returned.                                               *)
CanarySamples ==
    [at : [case : workflowV2CanaryCaseIDs \cup skynexOrchestratorCanaryCaseIDs,
           arm : CanaryArms],
     status : SampleStatuses, attested : BOOLEAN, bound : BOOLEAN,
     proves : SUBSET Proofs, measured : BOOLEAN, tokens : Nat,
     runtime : Runtimes, timely : BOOLEAN, under : SUBSET Movable]

workflowCanarySampleCleanupAttested(sample) == sample.attested

workflowCanarySamplesCleanupAttested(samples) ==
    \A i \in DOMAIN samples : workflowCanarySampleCleanupAttested(samples[i])

validateWorkflowCanarySampleChecks(sample) == sample.proves = Proofs

(* The result of an executor is not trusted: its samples must be a prefix   *)
(* of the plan that ends with the first that is no pass.                    *)
validateWorkflowCanaryExecution(samples, complete, plan) ==
    /\ Len(plan) = workflowV2CanaryMaxSamples /\ Len(samples) <= Len(plan)
    /\ \A i \in DOMAIN samples :
          LET s == samples[i] IN
          /\ s.at = plan[i] /\ s.bound
          /\ i < Len(samples) => s.status = "pass"
          /\ s.status = "pass" =>
                /\ workflowCanarySampleCleanupAttested(s)
                /\ validateWorkflowCanarySampleChecks(s)
    /\ complete => workflowCanarySamplesCleanupAttested(samples)

(* Two runtimes are one when what is known of both is the same.             *)
RuntimesAgree(r, q) ==
    r.core # "" /\ r.core = q.core /\ r.authorization = q.authorization

workflowCanaryRuntimeCompatible(samples) ==
    \A i, j \in DOMAIN samples :
        (/\ samples[i].at.case = samples[j].at.case
         /\ samples[i].at.arm = "control" /\ samples[j].at.arm = "candidate")
        => RuntimesAgree(samples[i].runtime, samples[j].runtime)

TelemetryComplete(samples) ==
    \A i \in DOMAIN samples : samples[i].measured /\ samples[i].tokens > 0

TreeInputTokens(samples, arm) ==
    FoldLeft(LAMBDA sum, s : IF s.at.arm = arm THEN sum + s.tokens ELSE sum,
             0, samples)

(* The ratio of two counts exceeds 1.15.                                    *)
RatioExceeded(samples) ==
    TreeInputTokens(samples, "candidate") * 100
        > TreeInputTokens(samples, "control") * 115

Some(samples, statuses) ==
    \E i \in DOMAIN samples : samples[i].status \in statuses

Verdict(decision, reason, status) ==
    [decision |-> decision, reason |-> reason, exit |-> status]

(* What the samples decide, gate after gate; error is the executor's.       *)
evaluateWorkflowCanary(samples, complete, plan, error) ==
    IF error = "deadline" \/ Some(samples, {"budget_exhausted"})
    THEN Verdict("reject", "timeout_is_failure", "fail")
    ELSE IF Some(samples, {"fail"})
    THEN Verdict("reject", "sample_failed", "fail")
    ELSE IF ~workflowCanaryRuntimeCompatible(samples)
    THEN Verdict("inconclusive", "runtime_compatibility_mismatch",
                 "inconclusive")
    ELSE IF error = "canceled"
    THEN Verdict("inconclusive", "execution_aborted", "aborted")
    ELSE IF error # "none"
    THEN Verdict("inconclusive", "executor_infrastructure", "infra_error")
    ELSE IF Some(samples, {"invalid"})
    THEN Verdict("inconclusive", "invalid_sample", "invalid")
    ELSE IF Some(samples, {"infra_error"})
    THEN Verdict("inconclusive", "sample_infrastructure", "infra_error")
    ELSE IF Some(samples, {"aborted"})
    THEN Verdict("inconclusive", "execution_aborted", "aborted")
    ELSE IF Some(samples, {"inconclusive"})
    THEN Verdict("inconclusive", "sample_inconclusive", "inconclusive")
    ELSE IF ~complete \/ ~workflowCanarySamplesCleanupAttested(samples)
    THEN Verdict("inconclusive", "cleanup_incomplete", "infra_error")
    ELSE IF Len(samples) # Len(plan)
    THEN Verdict("inconclusive", "incomplete_population", "inconclusive")
    ELSE IF ~TelemetryComplete(samples)
    THEN Verdict("inconclusive", "telemetry_incomplete", "inconclusive")
    ELSE IF RatioExceeded(samples)
    THEN Verdict("reject", "tree_input_ratio_exceeded", "fail")
    ELSE Verdict("promote", "all_gates_passed", "success")

-----------------------------------------------------------------------------
(* The command up to its first call.                                        *)

CanaryTypeOK ==
    /\ screening \in {"asked", "ready", "next", "calling", "returned",
                      "sealed", "done"}
    /\ asked \in DOMAIN Asks /\ minutes \in Nat /\ opened \in Nat
    /\ began \in [at : Nat, under : SUBSET Movable]
    /\ gathered \in Seq(CanarySamples) /\ cleaned \in BOOLEAN
    /\ fault \in {"none", "deadline", "canceled", "error"}
    /\ strayed \subseteq Movable /\ interrupted \in BOOLEAN
    /\ output \in {"absent", "reserved", "artifact", "foreign"}
    /\ screenExit \in {"none", "success", "fail", "invalid", "infra_error",
                       "aborted", "inconclusive"}
    /\ oddities \in 0..MaxOddities

CanaryInit ==
    /\ screening = "asked" /\ asked \in DOMAIN Asks
    /\ minutes = 0 /\ opened = 0 /\ began = [at |-> 0, under |-> {}]
    /\ gathered = <<>> /\ cleaned = FALSE /\ fault = "none"
    /\ strayed = {} /\ interrupted = FALSE
    /\ output = "absent" /\ sealed = <<>> /\ screenExit = "none"
    /\ oddities = 0

Stops(with) == screening' = "done" /\ screenExit' = with

TheAsk == Asks[asked]
ThePlan == CanaryPlans[asked]
Intact(inputs) == strayed \cap inputs = {}
ScreeningAdmitted == asked \in AdmittedAsks

(* A binary that cannot be read is the one infrastructure error.            *)
RefuseScreening ==
    /\ screening = "asked" /\ ~ScreeningAdmitted
    /\ Stops(IF ArgumentsScreen(TheAsk) /\ TheAsk.opencode = "unreadable"
             THEN "infra_error" ELSE "invalid")
    /\ Costs(0)
    /\ UNCHANGED <<asked, minutes, opened, began, gathered, cleaned, fault,
                   strayed, interrupted, output, sealed>>

(* The preflight fails when its minute is over, when the command is         *)
(* interrupted, when an input has strayed, or when the probe of OpenCode    *)
(* does, for another version or interface or for itself.                    *)
probeWorkflowV2Canary ==
    /\ screening = "asked" /\ ScreeningAdmitted
    /\ \/ Stops("fail") /\ Costs(1)
       \/ interrupted /\ Stops("aborted") /\ Costs(0)
       \/ strayed # {} /\ Stops("invalid") /\ Costs(0)
       \/ \E with \in {"invalid", "infra_error"} : Stops(with) /\ Costs(1)
    /\ UNCHANGED <<asked, minutes, opened, began, gathered, cleaned, fault,
                   strayed, interrupted, output, sealed>>

(* The last verification of the preflight does not look at the clock.       *)
PassPreflight(delay) ==
    /\ screening = "asked" /\ ScreeningAdmitted /\ ~interrupted
    /\ Intact(verifyCanaryExecutionAuthority(TheAsk))
    /\ screening' = "ready" /\ minutes' = minutes + delay
    /\ Oddly(delay > 0)
    /\ UNCHANGED <<asked, opened, began, gathered, cleaned, fault, strayed,
                   interrupted, output, sealed, screenExit>>

(* The output is claimed before anything is paid for.  A screening that is  *)
(* already too late returns it.                                             *)
OutputExists ==
    /\ screening = "ready" /\ output # "absent"
    /\ Stops("invalid") /\ Costs(0)
    /\ UNCHANGED <<asked, minutes, opened, began, gathered, cleaned, fault,
                   strayed, interrupted, output, sealed>>

canaryTimeoutFailure ==
    /\ screening = "ready" /\ output = "absent"
    /\ minutes >= SchedulingDeadline
    /\ Stops("fail") /\ Costs(0)
    /\ UNCHANGED <<asked, minutes, opened, began, gathered, cleaned, fault,
                   strayed, interrupted, output, sealed>>

OpenExecutor ==
    LET valid == validateCanaryExecutionRequest(TheAsk) IN
    /\ screening = "ready" /\ output = "absent"
    /\ minutes < SchedulingDeadline
    /\ output' = "reserved" /\ opened' = minutes
    /\ cleaned' = valid /\ fault' = IF valid THEN "none" ELSE "error"
    /\ screening' = IF valid THEN "next" ELSE "returned"
    /\ Costs(0)
    /\ UNCHANGED <<asked, minutes, began, gathered, strayed, interrupted,
                   sealed, screenExit>>

-----------------------------------------------------------------------------
(* The executor.                                                            *)

(* Why a context that ends at a minute is done at another.                  *)
ContextErrors(minute, end) ==
    (IF interrupted THEN {"canceled"} ELSE {})
        \cup (IF minute >= end THEN {"deadline"} ELSE {})

Earlier(m, n) == IF m < n THEN m ELSE n
BudgetEnds == Earlier(opened + workflowV2CanarySampleBudget,
                      ExecutionDeadline)

TheCoordinate == ThePlan[Len(gathered) + 1]
TheTimeout == CanaryTimeouts[asked][Len(gathered) + 1]
CallEnds == Earlier(began.at + TheTimeout, BudgetEnds)

GatheredAll ==
    /\ screening = "next" /\ Len(gathered) = Len(ThePlan)
    /\ screening' = "returned" /\ Costs(0)
    /\ UNCHANGED <<asked, minutes, opened, began, gathered, cleaned, fault,
                   strayed, interrupted, output, sealed, screenExit>>

(* What keeps the next sample from being called, in this order.             *)
SampleErrors ==
    IF ContextErrors(minutes, BudgetEnds) # {}
    THEN ContextErrors(minutes, BudgetEnds)
    ELSE IF TheTimeout \notin 1..workflowV2CanarySampleLimit THEN {"error"}
    ELSE IF minutes + TheTimeout > SchedulingDeadline THEN {"deadline"}
    ELSE IF ~Intact(verifyCanaryExecutionAuthority(TheAsk)) THEN {"error"}
    ELSE {}

StopBeforeSample ==
    /\ screening = "next" /\ Len(gathered) < Len(ThePlan)
    /\ fault' \in SampleErrors
    /\ screening' = "returned" /\ Costs(0)
    /\ UNCHANGED <<asked, minutes, opened, began, gathered, cleaned, strayed,
                   interrupted, output, sealed, screenExit>>

(* The clock was read before the verification, which takes its time.        *)
BeginCall(delay) ==
    /\ screening = "next" /\ Len(gathered) < Len(ThePlan)
    /\ Oddly(delay > 0) /\ SampleErrors = {}
    /\ screening' = "calling" /\ minutes' = minutes + delay
    /\ began' = [at |-> minutes + delay, under |-> strayed]
    /\ UNCHANGED <<asked, opened, gathered, cleaned, fault, strayed,
                   interrupted, output, sealed, screenExit>>

(* A call takes its length and the verification after it a delay.           *)
Passes(length, delay) == minutes' = minutes + length + delay
LateErrors(length) == ContextErrors(minutes + length, CallEnds)
Slowness(length, delay) ==
    (IF length >= TheTimeout THEN 1 ELSE 0) + (IF delay > 0 THEN 1 ELSE 0)

(* An error of the call hands over no sample and attests no cleanup.  It    *)
(* may be a deadline of the runtime's own.                                  *)
CallFails(length, delay) ==
    /\ screening = "calling"
    /\ Costs(Slowness(length, delay)
             + IF LateErrors(length) # {} \/ strayed # {} THEN 0 ELSE 1)
    /\ Passes(length, delay)
    /\ cleaned' = FALSE /\ screening' = "returned"
    /\ fault' \in IF LateErrors(length) # {} THEN LateErrors(length)
                  ELSE {"error", "deadline"}
    /\ UNCHANGED <<asked, opened, began, gathered, strayed, interrupted,
                   output, sealed, screenExit>>

(* What returns is not the one sample of this coordinate, or no valid one.  *)
CallReturnsOther(length) ==
    /\ screening = "calling" /\ Costs(1 + Slowness(length, 0))
    /\ fault' = "error" /\ screening' = "returned" /\ Passes(length, 0)
    /\ UNCHANGED <<asked, opened, began, gathered, cleaned, strayed,
                   interrupted, output, sealed, screenExit>>

CallReturns(length, delay, sample) ==
    LET accepted == /\ Intact(verifyCanaryExecutionAuthority(TheAsk))
                    /\ sample.status = "pass" =>
                           workflowCanarySampleCleanupAttested(sample)
    IN
    /\ screening = "calling" /\ Passes(length, delay)
    /\ cleaned' = (/\ cleaned
                   /\ Intact(verifyCanaryExecutionAuthority(TheAsk)) =>
                          workflowCanarySampleCleanupAttested(sample))
    /\ gathered' = IF accepted THEN Append(gathered, sample) ELSE gathered
    /\ fault' \in IF ~accepted THEN {"error"}
                  ELSE IF LateErrors(length) # {} THEN LateErrors(length)
                  ELSE {"none"}
    /\ screening' = IF /\ accepted /\ sample.status = "pass"
                       /\ LateErrors(length) = {}
                    THEN "next" ELSE "returned"
    /\ UNCHANGED <<asked, opened, began, strayed, interrupted, output,
                   sealed, screenExit>>

UsualSample(length, tokens) ==
    [at |-> TheCoordinate, status |-> "pass", attested |-> TRUE,
     bound |-> TRUE, proves |-> Proofs, measured |-> TRUE, tokens |-> tokens,
     runtime |-> [core |-> "frozen", authorization |-> "frozen"],
     timely |-> minutes + length < CallEnds,
     under |-> began.under \cup strayed]

(* The samples of a call whose context is done.                             *)
LateSamples(sample) ==
    {[sample EXCEPT !.status = s] : s \in {"budget_exhausted", "aborted"}}

OddSamples(sample) ==
    {[sample EXCEPT !.status = end.status, !.attested = end.attested] :
        end \in [status : SampleStatuses, attested : BOOLEAN]}
    \cup {[sample EXCEPT !.bound = FALSE],
          [sample EXCEPT !.measured = FALSE]}
    \cup {[sample EXCEPT !.proves = p] : p \in {{"declared"}, {"categories"}}}
    \cup {[sample EXCEPT !.runtime = r] :
             r \in {[core |-> "other", authorization |-> "frozen"],
                    [core |-> "", authorization |-> "frozen"],
                    [core |-> "frozen", authorization |-> ""]}}

UsualSamples(length, sample) ==
    {sample} \cup IF LateErrors(length) # {} THEN LateSamples(sample) ELSE {}

EndCall(length, delay) ==
    /\ screening = "calling"
    /\ \E tokens \in TokenCounts[TheCoordinate.arm] :
          LET sample == UsualSample(length, tokens) IN
          \/ /\ Costs(Slowness(length, delay))
             /\ \E s \in UsualSamples(length, sample) :
                   CallReturns(length, delay, s)
          \/ /\ Costs(1 + Slowness(length, delay))
             /\ \E s \in OddSamples(sample) : CallReturns(length, delay, s)

-----------------------------------------------------------------------------
(* The command after the executor.                                          *)

(* A malformed result or a drift replaces whatever was decided, and a       *)
(* malformed result is not published.  The artifact is sealed with what it  *)
(* holds.                                                                   *)
sealCanaryArtifact(samples, complete, error, under) ==
    LET valid == validateWorkflowCanaryExecution(samples, complete, ThePlan)
        sound == valid /\ under \cap verifyPreparedCanaryUnchanged(TheAsk) = {}
        verdict ==
            IF sound
            THEN evaluateWorkflowCanary(samples, complete, ThePlan, error)
            ELSE Verdict("inconclusive", "invalid_execution_result", "invalid")
        published == IF valid THEN samples ELSE <<>>
    IN
    [verdict |-> verdict, samples |-> published, cleaned |-> complete,
     skipped |-> workflowV2CanaryMaxSamples - Len(published),
     under |-> under]

(* Nothing looks at the clock any more: the reserve is not a deadline.      *)
SealArtifact(delay) ==
    /\ screening = "returned"
    /\ sealed' = <<sealCanaryArtifact(gathered, cleaned, fault, strayed)>>
    /\ screening' = "sealed" /\ minutes' = minutes + delay
    /\ Oddly(delay > 0)
    /\ UNCHANGED <<asked, opened, began, gathered, cleaned, fault, strayed,
                   interrupted, output, screenExit>>

(* The placeholder becomes the artifact; a file of somebody else stays.  A  *)
(* result beside a done context still exits as aborted.                     *)
PublishArtifact ==
    /\ screening = "sealed"
    /\ \/ /\ output = "reserved" /\ output' = "artifact" /\ Costs(0)
          /\ Stops(IF interrupted THEN "aborted"
                   ELSE sealed[1].verdict.exit)
       \/ /\ output = "foreign" /\ Stops("infra_error")
          /\ UNCHANGED output /\ Costs(0)
       \/ /\ output = "reserved" /\ output' = "absent"
          /\ Stops("infra_error") /\ Costs(1)
    /\ UNCHANGED <<asked, minutes, opened, began, gathered, cleaned, fault,
                   strayed, interrupted, sealed>>

commandCanary ==
    \/ RefuseScreening \/ probeWorkflowV2Canary
    \/ \E delay \in {0} \cup Delays :
          PassPreflight(delay) \/ BeginCall(delay) \/ SealArtifact(delay)
    \/ OutputExists \/ canaryTimeoutFailure \/ OpenExecutor
    \/ GatheredAll \/ StopBeforeSample
    \/ \E length \in Lengths :
          \/ CallReturnsOther(length)
          \/ \E delay \in {0} \cup Delays :
                \/ CallFails(length, delay)
                \/ EndCall(length, delay)
    \/ PublishArtifact

-----------------------------------------------------------------------------
(* The world.                                                               *)

Stray(input) ==
    /\ screening # "done" /\ input \notin strayed
    /\ strayed' = strayed \cup {input} /\ Costs(1)
    /\ UNCHANGED <<screening, asked, minutes, opened, began, gathered,
                   cleaned, fault, interrupted, output, sealed, screenExit>>

PutBack(input) ==
    /\ screening # "done" /\ input \in strayed
    /\ strayed' = strayed \ {input} /\ Costs(0)
    /\ UNCHANGED <<screening, asked, minutes, opened, began, gathered,
                   cleaned, fault, interrupted, output, sealed, screenExit>>

Interrupt ==
    /\ screening # "done" /\ ~interrupted
    /\ interrupted' = TRUE /\ Costs(1)
    /\ UNCHANGED <<screening, asked, minutes, opened, began, gathered,
                   cleaned, fault, strayed, output, sealed, screenExit>>

WriteForeign ==
    /\ screening # "done" /\ output # "foreign"
    /\ output' = "foreign" /\ Costs(1)
    /\ UNCHANGED <<screening, asked, minutes, opened, began, gathered,
                   cleaned, fault, strayed, interrupted, sealed, screenExit>>

CanaryNext ==
    \/ commandCanary
    \/ \E input \in Movable : Stray(input) \/ PutBack(input)
    \/ Interrupt \/ WriteForeign

CanarySpec == CanaryInit /\ [][CanaryNext]_canaryVars

-----------------------------------------------------------------------------
(* Properties.                                                              *)

(* What the two profiles freeze, beside the executor's own list.            *)
FrozenForCalls(a) ==
    {"bundles", "closure", "opencode"} \cup
        IF a.profile = WorkflowV2 THEN {"skynex", "plugin"} ELSE {}

(* A promoted candidate has run both arms of every case of its plan, each   *)
(* passed in time, proved, measured, cleaned up and called on the frozen    *)
(* inputs; the arms of a case ran on one runtime, the candidate read at     *)
(* most 1.15 times as much, and no frozen input had changed when the        *)
(* artifact was sealed (canary contract, "Deterministic promotion gate").   *)
PromotionIsProven ==
    \A k \in DOMAIN sealed :
        LET artifact == sealed[k].samples IN
        sealed[k].verdict.decision = "promote" =>
            /\ \A b \in DOMAIN buildWorkflowCanaryPlan(TheAsk.manifest),
                  arm \in CanaryArms :
                  \E i \in DOMAIN artifact :
                      artifact[i].at =
                          [case |-> buildWorkflowCanaryPlan(
                                        TheAsk.manifest)[b].case,
                           arm |-> arm]
            /\ \A i \in DOMAIN artifact :
                  LET s == artifact[i] IN
                  /\ s.status = "pass" /\ s.timely /\ s.attested /\ s.bound
                  /\ s.proves = Proofs /\ s.measured /\ s.tokens > 0
                  /\ s.under \cap FrozenForCalls(TheAsk) = {}
            /\ \A i, j \in DOMAIN artifact :
                  (/\ artifact[i].at.case = artifact[j].at.case
                   /\ artifact[i].at.arm # artifact[j].at.arm)
                  => artifact[i].runtime = artifact[j].runtime
            /\ ~RatioExceeded(artifact)
            /\ sealed[k].cleaned
            /\ sealed[k].under
                  \cap (FrozenForCalls(TheAsk) \cup {"evaluator"}) = {}

(* A failed sample and a deadline reject the candidate, unless the result   *)
(* is void; nothing rejects it but these and the ratio of a whole passing   *)
(* population (canary contract: "a timeout or the global deadline is a      *)
(* failed canary, not a skipped or successful sample").                     *)
RejectionIsJust ==
    \A k \in DOMAIN sealed :
        LET failed == \/ fault = "deadline"
                      \/ Some(gathered, {"fail", "budget_exhausted"})
                      \/ /\ ~interrupted
                         /\ \E i \in DOMAIN gathered : ~gathered[i].timely
        IN
        /\ failed => \/ sealed[k].verdict.decision = "reject"
                     \/ sealed[k].verdict.reason = "invalid_execution_result"
        /\ sealed[k].verdict.decision = "reject" =>
              \/ failed
              \/ /\ Len(gathered) = Len(ThePlan)
                 /\ \A i \in DOMAIN gathered : gathered[i].status = "pass"
                 /\ RatioExceeded(gathered)

(* Only an admitted plan is paid for, coordinate by coordinate, and nothing *)
(* is called after a sample that did not pass, came late or left something  *)
(* behind (canary contract: "no new sample may start after a non-pass       *)
(* result").                                                                *)
ScreeningFailsFast ==
    /\ screening \in {"next", "calling"} => ScreeningAdmitted
    /\ Len(gathered) <= Len(ThePlan)
    /\ \A i \in DOMAIN gathered :
          /\ gathered[i].at = ThePlan[i]
          /\ (i < Len(gathered) \/ screening = "calling") =>
                /\ gathered[i].status = "pass"
                /\ gathered[i].timely /\ gathered[i].attested
    /\ screening = "calling" => fault = "none" /\ Len(gathered) < Len(ThePlan)

(* The command succeeds only beside a promoting artifact of its own.        *)
SuccessIsPromotion ==
    screenExit = "success" =>
        /\ output = "artifact" /\ Len(sealed) = 1
        /\ sealed[1].verdict.decision = "promote"

CanaryKept ==
    /\ CanaryTypeOK /\ PromotionIsProven /\ RejectionIsJust
    /\ ScreeningFailsFast /\ SuccessIsPromotion

=============================================================================
