---------------------------- MODULE MCSampling ----------------------------
(* Bounds for Sampling and Canary, the two ways to pay for samples without *)
(* a campaign; a behaviour takes one of them.                              *)
(*                                                                         *)
(* Sampling: two suites of at most two cases, capped and uncapped requests *)
(* beside one request per reason to refuse, seven traces and two mishaps.  *)
(* Canary: both profiles beside one request per reason to refuse, a call   *)
(* that takes three minutes or five, a verification that may take seven or *)
(* twenty-five, candidates that read up to, exactly or more than 1.15 times *)
(* as much as the control, and two oddities of a run in which an input     *)
(* may also be put back.                                                   *)
EXTENDS Sampling, Canary

-----------------------------------------------------------------------------
(* Requests.                                                                *)

Standard == [command |-> "baseline", allowed |-> TRUE, named |-> TRUE,
             suite |-> "one", n |-> 2, port |-> 0, deterministic |-> TRUE,
             binary |-> "native", bundle |-> "clean", cap |-> 0,
             env |-> {"PROVIDER_KEY"}, oauth |-> FALSE, impure |-> FALSE,
             retain |-> FALSE]
OAuth == [Standard EXCEPT !.oauth = TRUE, !.env = {}]

Admitted ==
    {Standard, OAuth, [Standard EXCEPT !.cap = 2],
     [Standard EXCEPT !.cap = 1, !.suite = "two", !.n = 0],
     [Standard EXCEPT !.command = "run", !.cap = 2, !.binary = "shim"],
     [Standard EXCEPT !.suite = "two", !.n = 1],
     [Standard EXCEPT !.suite = "mixed", !.n = 1]}
RefusedRequests ==
    {[Standard EXCEPT !.allowed = FALSE], [Standard EXCEPT !.named = FALSE],
     [Standard EXCEPT !.command = "run", !.n = 0],
     [Standard EXCEPT !.n = MaxRuns + 1], [Standard EXCEPT !.port = 1],
     [Standard EXCEPT !.deterministic = FALSE],
     [Standard EXCEPT !.cap = -1], [Standard EXCEPT !.env = {"HOME"}],
     [OAuth EXCEPT !.env = {"PROVIDER_KEY"}], [OAuth EXCEPT !.cap = 1],
     [OAuth EXCEPT !.impure = TRUE], [OAuth EXCEPT !.retain = TRUE],
     [Standard EXCEPT !.retain = TRUE], [Standard EXCEPT !.suite = "empty"],
     [Standard EXCEPT !.suite = "driven"],
     [Standard EXCEPT !.suite = "changed"],
     [Standard EXCEPT !.binary = "script"],
     [Standard EXCEPT !.bundle = "secret"],
     [Standard EXCEPT !.bundle = "linked"],
     [Standard EXCEPT !.bundle = "large"]}
MCRequests == Admitted \cup RefusedRequests

-----------------------------------------------------------------------------
(* Inputs.                                                                  *)

Sound == [id |-> "c1", model |-> "openai/a", mode |-> "local", tools |-> "t",
          runs |-> 1, fixture |-> "f", expected |-> "f", legacy |-> FALSE,
          driven |-> FALSE]
Legacy == [Sound EXCEPT !.id = "c2", !.legacy = TRUE, !.model = "",
                        !.expected = "", !.runs = 2]
MCCatalog ==
    [one |-> <<Sound>>, two |-> <<Sound, Legacy>>,
     mixed |-> <<Sound, [Sound EXCEPT !.id = "c3", !.mode = "container"]>>,
     empty |-> <<>>, driven |-> <<[Sound EXCEPT !.driven = TRUE]>>,
     changed |-> <<[Sound EXCEPT !.expected = "g"]>>]

Entry(path, kind, like) == [path |-> path, kind |-> kind, like |-> like]
MCBundles ==
    LET clean == {Entry("agent.md", "file", "plain"),
                  Entry("node_modules", "directory", "plain")}
    IN  [clean |-> clean,
         secret |-> clean \cup {Entry(".env", "file", "credential")},
         linked |-> clean \cup {Entry("link", "symlink", "plain")},
         large |-> clean \cup {Entry("b.md", "file", "plain"),
                               Entry("c.md", "file", "plain")}]

MCLaunchers == [native |-> [kind |-> "native", target |-> ""],
                shim |-> [kind |-> "shim", target |-> "native"],
                script |-> [kind |-> "script", target |-> ""]]

-----------------------------------------------------------------------------
(* Traces; the pricing table is the empty one of the command.               *)

MCPrices == <<>>

Count(n) == <<[NoTokens EXCEPT !.input = n]>>
Step(id, tokens, cost) == [id |-> id, finish |-> TRUE, tokens |-> tokens,
                           cost |-> cost, model |-> "openai/a"]
Session(id, parent, steps) == [id |-> id, parent |-> parent, steps |-> steps]
Only(steps) == <<Session(Root, "", steps)>>
Child(parent, cost) == Session("child", parent, <<Step("x", Count(1), cost)>>)

MCTraces ==
    [huge |-> Only(<<Step("a", Count(3), 0), Step("b", Count(3), 0)>>),
     one |-> Only(<<Step("a", Count(1), 1),
                    [Step("b", Count(1), 9) EXCEPT !.finish = FALSE]>>),
     tree |-> Only(<<Step("a", Count(2), 1), Step("a", Count(2), 1)>>)
                  \o <<Child(Root, 1)>>,
     conflict |-> Only(<<Step("a", Count(1), 1), Step("a", Count(1), 2)>>),
     unpriced |-> Only(<<Step("a", Count(1), 1), Step("b", Count(1), Absent)>>),
     orphan |-> Only(<<Step("a", Count(1), 1)>>) \o <<Child("gone", 1)>>,
     again |-> Only(<<Step("a", Count(1), 1), Step("b", <<>>, 1)>>)
                   \o <<Child(Root, 1), Child(Root, 1)>>]

-----------------------------------------------------------------------------
(* Screenings.                                                              *)

SoundPlugin ==
    [path |-> "default", exact |-> TRUE, small |-> TRUE,
     content |-> "embedded",
     chain |-> <<[owner |-> "root", writable |-> FALSE, kind |-> "file"],
                 [owner |-> "root", writable |-> FALSE,
                  kind |-> "directory"]>>]
SoundChecks == <<[id |-> "truth", type |-> "no_false_success", hard |-> TRUE],
                 [id |-> "scope", type |-> "expected_diff", hard |-> TRUE]>>

WorkflowCase(id) ==
    [id |-> id, suite |-> "workflow-v2-canary", critical |-> TRUE,
     agent |-> "workflow-orchestrator", provider |-> "openai", public |-> TRUE,
     timeout |-> 4, runs |-> 1, profile |-> WorkflowV2,
     driver |-> [mode |-> "foreground", id |-> id, ends |-> "ready",
                 turns |-> 2],
     executables |-> {"skynex"}, fakeMCPs |-> {}, tools |-> {"read"},
     checks |-> SoundChecks,
     digest |-> CasePinFor(id).case, fixture |-> CasePinFor(id).fixture]
WorkflowCases ==
    <<WorkflowCase("wfv2_canary_detach_wake"),
      WorkflowCase("wfv2_canary_low_complete"),
      WorkflowCase("wfv2_canary_recovery_safety")>>

StandaloneIDs ==
    <<"skx_compaction", "skx_low_direct", "skx_no_workflow",
      "a", "b", "c", "d", "e", "f",
      "g", "h", "i", "j", "k", "l", "m", "n", "o", "p">>
StandaloneCases ==
    [i \in 1..19 |->
        [WorkflowCase(StandaloneIDs[i]) EXCEPT
            !.suite = "skynex-orchestrator", !.agent = "skynex-orchestrator",
            !.driver = NoDriver, !.executables = {}]]

PlanOver(ids) ==
    [b \in DOMAIN ids |->
        [case |-> ids[b],
         order |-> IF b = 2 THEN <<"candidate", "control">>
                   ELSE <<"control", "candidate">>]]

Ids(cases) == {c.id : c \in ToSet(cases)}
WorkflowManifest ==
    [suite |-> "workflow-v2-canary", intent |-> "development",
     publicCases |-> 3, critical |-> Ids(WorkflowCases), holdout |-> FALSE,
     assignsModels |-> FALSE, concurrency |-> 1, auth |-> "oauth",
     mode |-> "trusted-local", network |-> "host",
     boundary |-> "runtime-readable", runs |-> 2,
     evaluator |-> "evaluator", opencode |-> "native",
     toolchains |-> {"git", "skynex"},
     publicDigest |-> {c.digest : c \in ToSet(WorkflowCases)},
     plan |-> <<PlanOver(<<"wfv2_canary_low_complete",
                           "wfv2_canary_recovery_safety",
                           "wfv2_canary_detach_wake">>)>>]
StandaloneManifest ==
    [WorkflowManifest EXCEPT
        !.suite = "skynex-orchestrator", !.publicCases = 19,
        !.critical = Ids(StandaloneCases), !.toolchains = {"git"},
        !.publicDigest = {c.digest : c \in ToSet(StandaloneCases)},
        !.plan = <<PlanOver(<<"skx_no_workflow", "skx_compaction",
                              "skx_low_direct">>)>>]

WorkflowAsk ==
    [allowed |-> TRUE, profile |-> WorkflowV2, named |-> TRUE, oauth |-> TRUE,
     root |-> FALSE, plugin |-> SoundPlugin, manifest |-> WorkflowManifest,
     cases |-> WorkflowCases, evaluator |-> "evaluator",
     opencode |-> "native", bundles |-> {"harness", "control", "candidate"},
     login |-> TRUE, outputInBundle |-> FALSE]
StandaloneAsk ==
    [WorkflowAsk EXCEPT !.profile = Standalone, !.root = TRUE,
                        !.manifest = StandaloneManifest,
                        !.cases = StandaloneCases]

(* The request with another first case; with a component that may be        *)
(* written.                                                                 *)
WithCase(c) == [WorkflowAsk EXCEPT !.cases[1] = c]
WithManifest(m) == [WorkflowAsk EXCEPT !.manifest = m]
FirstCase == WorkflowCases[1]

MCAsks ==
    [workflow |-> WorkflowAsk, standalone |-> StandaloneAsk,
     calls |-> [WorkflowAsk EXCEPT !.allowed = FALSE],
     profile |-> [WorkflowAsk EXCEPT !.profile = "other"],
     oauth |-> [WorkflowAsk EXCEPT !.oauth = FALSE],
     root |-> [WorkflowAsk EXCEPT !.root = TRUE],
     plugin |-> [WorkflowAsk EXCEPT !.plugin.content = "changed"],
     writable |-> [WorkflowAsk EXCEPT !.plugin.chain[2].writable = TRUE],
     evaluator |-> [WorkflowAsk EXCEPT !.evaluator = "rebuilt"],
     unreadable |-> [WorkflowAsk EXCEPT !.opencode = "unreadable"],
     bundles |-> [WorkflowAsk EXCEPT !.bundles = {"harness", "control"}],
     inside |-> [WorkflowAsk EXCEPT !.outputInBundle = TRUE],
     release |-> WithManifest([WorkflowManifest EXCEPT !.intent = "release"]),
     holdout |-> WithManifest([WorkflowManifest EXCEPT !.holdout = TRUE]),
     closure |-> WithManifest([WorkflowManifest EXCEPT
                                  !.toolchains = {"git"}]),
     slow |-> WithCase([FirstCase EXCEPT !.timeout = 5]),
     soft |-> WithCase([FirstCase EXCEPT !.checks[1].hard = FALSE]),
     driver |-> WithCase([FirstCase EXCEPT !.driver.id = "other"]),
     edited |-> WithCase([FirstCase EXCEPT !.digest = <<"case", "edited">>]),
     runs |-> [StandaloneAsk EXCEPT !.manifest.runs = 3],
     managed |-> [StandaloneAsk EXCEPT
                     !.cases[4].driver = FirstCase.driver]]

MCTokenCounts == [control |-> {20}, candidate |-> {20, 29}]

-----------------------------------------------------------------------------
(* A behaviour samples or screens; the other command has ended already.     *)

SamplingIdle ==
    /\ phase = "done" /\ request = Standard /\ at = <<1, 1>>
    /\ result = NoResult /\ drifted = {} /\ canceled = FALSE
    /\ artifact = NoArtifact /\ exit = "none" /\ reported = "none"
    /\ mishaps = 0
CanaryIdle ==
    /\ screening = "done" /\ asked = "workflow" /\ minutes = 0 /\ opened = 0
    /\ began = [at |-> 0, under |-> {}] /\ gathered = <<>>
    /\ cleaned = FALSE /\ fault = "none" /\ strayed = {}
    /\ interrupted = FALSE /\ output = "absent" /\ sealed = <<>>
    /\ screenExit = "none" /\ oddities = 0

MCInit == (Init /\ CanaryIdle) \/ (CanaryInit /\ SamplingIdle)
MCNext == \/ Next /\ UNCHANGED canaryVars
          \/ CanaryNext /\ UNCHANGED vars
MCSpec == MCInit /\ [][MCNext]_<<vars, canaryVars>>

=============================================================================
