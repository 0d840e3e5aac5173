---------------------------- MODULE MCComparison ----------------------------
(* Three cases, two repetitions: a critical case that changes a file, a     *)
(* read-only case about the repository, and a read-only case that may       *)
(* always go wrong in the same way.  The other catalogs and manifests each  *)
(* differ from the standard ones in one respect.                            *)
EXTENDS Comparison

Command(id) ==
    [id |-> id, argv |-> <<"go">>, cwd |-> "", timeout |-> 60,
     exits |-> <<0>>]

Plain(id, type) ==
    [id |-> id, name |-> "", type |-> type, hard |-> "unset",
     evidence |-> <<>>, requirements |-> <<>>, patterns |-> <<>>,
     pattern |-> "", tool |-> "", path |-> "", min |-> Unset, max |-> Unset,
     value |-> Unset]
Called(id, type, tool) == [Plain(id, type) EXCEPT !.tool = tool]

Document ==
    [id |-> "change", suite |-> "suite", requirements |-> <<"SKX-1">>,
     type |-> "behavior", critical |-> TRUE, agent |-> "agent",
     model |-> "model", source |-> "fixture", digest |-> TRUE,
     initialGit |-> FALSE, seeds |-> <<>>, input |-> "do it",
     turns |-> <<>>, maxTurns |-> 10, timeout |-> 600, question |-> "fail",
     setup |-> <<Command("")>>, oracle |-> <<Command("")>>,
     expected |-> <<"main">>, forbidden |-> <<"conf">>, files |-> <<>>,
     cleanTree |-> TRUE,
     checks |-> <<Plain("", "no_false_success"),
                  [Called("delegates", "subagent_count", "")
                      EXCEPT !.min = 1, !.patterns = <<"done">>],
                  [Plain("tested", "tool_call_order")
                      EXCEPT !.patterns = <<"first_write",
                                            "validation_run">>]>>,
     hardChecks |-> "all", mode |-> "trusted-local",
     network |-> "host-unisolated", scripts |-> FALSE,
     executables |-> <<"go">>, roots |-> <<>>, registries |-> <<>>,
     trace |-> [bytes |-> 100, events |-> 10, eventBytes |-> 10],
     allowedTools |-> <<"read">>, forbiddenTools |-> <<"deploy">>,
     fakes |-> <<>>, runs |-> 2, aggregation |-> "median"]

Reading ==
    [Document EXCEPT
        !.id = "inspect", !.critical = FALSE,
        !.requirements = <<"SKX-GIT-001", "SKX-2">>, !.initialGit = TRUE,
        !.seeds = <<[path |-> "dirty", content |-> TRUE, digest |-> FALSE,
                     mode |-> ""]>>,
        !.setup = <<Command("prepare")>>, !.expected = <<>>,
        !.checks = <<Plain("", "expected_diff"),
                     Called("no_push", "tool_not_called", "git_push"),
                     [Plain("red_then_green", "tool_call_order") EXCEPT
                         !.patterns = <<"prepare", "oracle_1">>]>>]

Chatting ==
    [Document EXCEPT
        !.id = "talk", !.critical = FALSE, !.setup = <<>>,
        !.expected = <<>>, !.cleanTree = FALSE,
        !.checks = <<[Plain("says", "contains_all") EXCEPT
                         !.patterns = <<"yes">>],
                     [Plain("soft", "regex_match") EXCEPT
                         !.pattern = "y", !.hard = "no"],
                     Plain("honest", "no_false_success")>>]

Cases == <<Document, Reading, Chatting>>
With(d) == <<d, Reading, Chatting>>

Doubled(f) == With([Document EXCEPT !.checks = <<f, f>>])
Checking(check) == With([Document EXCEPT !.checks = Append(@, check)])
Content == [path |-> "main", content |-> TRUE, digest |-> FALSE, mode |-> ""]
Fake(tool) == [name |-> "fake", tools |-> <<tool>>, transport |-> "stdio",
               command |-> Command("")]

(* One document each that the contract must refuse, or may not.             *)
Edited ==
    <<With([Document EXCEPT !.id = "No Name"]),
      With([Document EXCEPT !.id = "inspect"]),
      With([Document EXCEPT !.requirements = <<"SKX-1", "SKX-1">>]),
      With([Document EXCEPT !.type = "mood"]),
      With([Document EXCEPT !.agent = ""]),
      With([Document EXCEPT !.source = "../up"]),
      With([Document EXCEPT !.seeds = <<Content>>]),
      With([Document EXCEPT !.initialGit = TRUE, !.seeds = <<Content>>]),
      With([Document EXCEPT !.input = ""]),
      With([Document EXCEPT !.maxTurns = 101]),
      With([Document EXCEPT !.timeout = 0]),
      With([Document EXCEPT !.question = "ask"]),
      With([Document EXCEPT !.setup = <<Command("a"), Command("a")>>]),
      With([Document EXCEPT !.setup[1].argv = <<"sh">>]),
      With([Document EXCEPT !.oracle[1].timeout = 3601]),
      With([Document EXCEPT !.oracle[1].exits = <<256>>]),
      With([Document EXCEPT !.oracle[1].cwd = "/root"]),
      With([Document EXCEPT !.expected = <<"main", "main">>]),
      With([Document EXCEPT !.expected = <<"main", "conf">>]),
      With([Document EXCEPT !.expected = <<"../up">>]),
      With([Document EXCEPT !.files = <<Content>>]),
      With([Document EXCEPT !.files = <<[Content EXCEPT !.digest = TRUE]>>]),
      With([Document EXCEPT !.expected = <<>>, !.oracle = <<>>,
                            !.checks = <<>>]),
      Doubled(Called("twice", "tool_called", "read")),
      Checking(Plain("odd", "mood")),
      Checking(Plain("none", "regex_match")),
      Checking(Plain("some", "contains_any")),
      Checking([Plain("many", "regex_count") EXCEPT !.pattern = "y",
                                                    !.value = 1]),
      Checking(Called("reads", "tool_called_min", "read")),
      Checking([Called("reads", "tool_called_min", "read")
                   EXCEPT !.value = 1]),
      Checking([Called("reads", "tool_called", "read")
                   EXCEPT !.min = 2, !.max = 1]),
      Checking([Called("reads", "tool_called", "read")
                   EXCEPT !.evidence = <<"claims">>]),
      Checking([Called("reads", "tool_called", "read")
                   EXCEPT !.evidence = <<"behavior">>]),
      Checking([Called("reads", "tool_called", "read")
                   EXCEPT !.requirements = <<"SKX-9">>]),
      Checking([Called("reads", "tool_output_contains_all", "read")
                   EXCEPT !.patterns = <<"y">>]),
      Checking(Plain("there", "file_exists")),
      Checking([Plain("there", "file_exists") EXCEPT !.path = "main"]),
      Checking([Plain("gone", "file_not_exists") EXCEPT !.path = "tmp"]),
      Checking([Plain("wrote", "file_written") EXCEPT !.pattern = "m"]),
      Checking([Plain("ran", "bash_output_contains") EXCEPT
                   !.pattern = "ok"]),
      Checking([Plain("calm", "not_contains_pattern") EXCEPT
                   !.pattern = "panic"]),
      Checking([Plain("order", "tool_call_order") EXCEPT
                   !.patterns = <<"setup_1", "first_write">>]),
      With([Document EXCEPT !.hardChecks = "some"]),
      With([Document EXCEPT !.network = "none"]),
      With([Document EXCEPT !.mode = "isolated-container",
                            !.network = "registry-allowlist"]),
      With([Document EXCEPT !.mode = "isolated-container",
                            !.network = "none", !.scripts = TRUE]),
      With([Document EXCEPT !.executables = <<>>]),
      With([Document EXCEPT !.roots = <<"/root">>]),
      With([Document EXCEPT !.trace.eventBytes = 101]),
      With([Document EXCEPT !.allowedTools = <<"deploy">>]),
      With([Document EXCEPT !.fakes = <<Fake("write")>>]),
      With([Document EXCEPT !.fakes = <<Fake("read")>>]),
      With([Document EXCEPT !.runs = 0]),
      With([Document EXCEPT !.aggregation = "max"])>>

(* The evidence of the checks is spelled out as the contract wants it; two  *)
(* documents leave something out.                                           *)
Spelled(d) ==
    [d EXCEPT !.checks = [i \in DOMAIN @ |->
        [@[i] EXCEPT !.evidence =
            IF @ # <<>> THEN @ ELSE Normalize(d).checks[i].evidence]]]
Unspelled ==
    <<With(Document),
      With([Spelled(Document) EXCEPT !.oracle[1].exits = <<>>])>>
MCCatalogs ==
    [i \in 1..Len(Edited) + 1 |->
        LET drafts == (<<Cases>> \o Edited)[i]
        IN  [j \in DOMAIN drafts |-> Spelled(drafts[j])]] \o Unspelled

MCBundle(root, digest) ==
    [root |-> root, digest |-> digest, git |-> "", patch |-> "",
     sourceGit |-> "", sourcePatch |-> ""]
Manifest ==
    [id |-> "experiment", suite |-> "suite", intent |-> "development",
     harness |-> MCBundle("harness", "h"),
     control |-> MCBundle("left", "l"), candidate |-> MCBundle("right", "r"),
     holdout |-> <<>>, holdoutCases |-> 0, publicCases |-> 3,
     casesDigest |-> "cases", critical |-> <<"change">>,
     differences |-> <<"agent_bundle", "prompt">>, assignment |-> <<>>,
     runs |-> 2, method |-> "balanced-blocked", seed |-> "1",
     serialized |-> TRUE, concurrency |-> 1, auth |-> "openai-oauth",
     billing |-> "subscription", boundary |-> "runtime-readable",
     mode |-> "trusted-local", network |-> "host-unisolated", image |-> "",
     tools |-> "digests", rate |-> 100, allowances |-> 0, ratio |-> 100,
     confidence |-> 0, minimumPairs |-> 2]

Proxied == [Manifest EXCEPT !.boundary = "provider-proxy",
                !.mode = "isolated-container",
                !.network = "provider-proxy-only", !.image = "image"]
Secret == [Manifest EXCEPT !.holdout = <<MCBundle("secret", "s")>>,
                           !.holdoutCases = 1]
Released == [Proxied EXCEPT !.intent = "release",
                !.holdout = <<MCBundle("secret", "s")>>, !.holdoutCases = 1,
                !.runs = 10, !.minimumPairs = 10]
Sol == <<"openai", "sol">>
Terra == <<"openai", "terra">>
Local == <<"ollama", "qwen">>
Models(control, candidate, fields) ==
    [Manifest EXCEPT !.candidate.digest = "l", !.differences = fields,
                     !.assignment = <<control, candidate>>]

MCManifests ==
    <<Manifest, Secret, Proxied, Released,
      Models(Sol, Terra, <<"model">>),
      Models(Sol, Local, <<"model", "provider">>),
      Models(Sol, Local, <<"model">>),
      Models(Sol, Terra, <<"model", "provider">>),
      Models(Sol, Sol, <<"model">>),
      [Models(Sol, Terra, <<"agent_bundle", "model", "prompt">>)
          EXCEPT !.candidate.digest = "r"],
      [Manifest EXCEPT !.candidate.digest = "l"],
      [Manifest EXCEPT !.differences = <<"agent_bundle">>],
      [Manifest EXCEPT !.differences = <<"toolset">>],
      [Manifest EXCEPT !.differences = <<"model">>],
      [Manifest EXCEPT !.candidate.root = "left"],
      [Manifest EXCEPT !.harness.root = "left"],
      [Manifest EXCEPT !.harness.patch = "digest"],
      [Secret EXCEPT !.holdout[1].sourceGit = "sha"],
      [Manifest EXCEPT !.holdoutCases = 1],
      [Manifest EXCEPT !.publicCases = 4],
      [Manifest EXCEPT !.critical = <<>>],
      [Manifest EXCEPT !.critical = <<"inspect">>],
      [Manifest EXCEPT !.runs = 1],
      [Manifest EXCEPT !.minimumPairs = 0],
      [Manifest EXCEPT !.minimumPairs = 3],
      [Manifest EXCEPT !.rate = 90],
      [Manifest EXCEPT !.allowances = 1],
      [Manifest EXCEPT !.confidence = 40],
      [Manifest EXCEPT !.serialized = FALSE],
      [Manifest EXCEPT !.billing = "api"],
      [Manifest EXCEPT !.network = "none"],
      [Proxied EXCEPT !.network = "none"],
      [Released EXCEPT !.minimumPairs = 9]>>

MCChronic ==
    {{}, {"oracle_red"}, {"oracle_red", "snapshot_lost"}, {"stray_edit"},
     {"oracle_red", "hedged"}}

=============================================================================
