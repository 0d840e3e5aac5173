---------------------------- MODULE CaseContract ----------------------------
(* The evaluation case document: what internal/eval/contracts/case.go fills *)
(* in and what it refuses, and what internal/eval/cases/loader.go loads.    *)
(*                                                                          *)
(* A case is a record; a list of the document is a sequence.  Strings are   *)
(* names: Malformed stands for every string the patterns and the path rules *)
(* of the contract refuse, one representative per kind.  Sizes in bytes are *)
(* left out, counts and durations (in seconds) are kept.  Unset marks an    *)
(* absent optional integer.                                                 *)
EXTENDS Integers, Sequences, FiniteSets, SequencesExt, TLC

Unset == -1
Malformed == {"", "/root", "../up", "No Name"}

MaxTurns == 100
MaxRuns == 100
MaxCommandSeconds == 3600
MaxCompletionSeconds == 86400

WellNamed(v) == v \notin Malformed
RelativePath(p) == p \notin Malformed
Distinct(s) == Cardinality(ToSet(s)) = Len(s)
UniqueStrings(s) == Distinct(s) /\ "" \notin ToSet(s)
PathList(s) == UniqueStrings(s) /\ \A p \in ToSet(s) : RelativePath(p)
Overlap(a, b) == ToSet(a) \cap ToSet(b) # {}
Duration(d, most) == d \in 1..most
RequirementIDs(s) ==
    UniqueStrings(s) /\ \A r \in ToSet(s) : r \notin Malformed

CommandIndex(commands, id) ==
    IF \E i \in DOMAIN commands : commands[i].id = id
    THEN CHOOSE i \in DOMAIN commands :
            /\ commands[i].id = id
            /\ \A j \in 1..i - 1 : commands[j].id # id
    ELSE 0

-----------------------------------------------------------------------------
(* The evidence a check is judged on.                                       *)

Categories == <<"infrastructure", "filesystem", "acceptance", "behavior",
                "claims", "security">>

Numbered(kind, i) == kind \o "_" \o ToString(i)

(* Setup and oracle commands can be ordered against each other: both names  *)
(* must then be commands, else both are tools.                              *)
NamesCommands(c, check) ==
    \/ CommandIndex(c.setup, check.patterns[1]) > 0
    \/ CommandIndex(c.oracle, check.patterns[2]) > 0

OrderEvidence(c, check) ==
    IF Len(check.patterns) # 2 THEN <<>>
    ELSE LET s == CommandIndex(c.setup, check.patterns[1])
             o == CommandIndex(c.oracle, check.patterns[2])
         IN  CASE ~NamesCommands(c, check) -> <<"behavior">>
               [] s > 0 /\ o > 0 -> <<Numbered("setup", s),
                                      Numbered("oracle", o), "acceptance">>
               [] OTHER -> <<>>

TextTypes == {"contains_all", "contains_any", "not_contains"}
MessageTypes == {"not_contains_pattern", "regex_match", "regex_count",
                 "regex_count_max_per_msg"}
ToolTypes == {"tool_called", "tool_called_min", "tool_not_called",
              "tool_output_contains_all"}
TraceTypes == ToolTypes \cup {"subagent_count", "bash_output_contains"}
DiffTypes == {"expected_diff", "file_written"}
PathTypes == {"file_exists", "file_not_exists"}
CheckTypes == TextTypes \cup MessageTypes \cup TraceTypes \cup DiffTypes
                  \cup PathTypes \cup {"no_false_success", "tool_call_order"}

(* The empty sequence is the error of a check that can have no evidence.    *)
expectedCheckEvidenceIDs(c, check) ==
    CASE check.type \in TextTypes -> <<"claims">>
      [] check.type \in MessageTypes -> <<"claims", "behavior">>
      [] check.type \in TraceTypes -> <<"behavior">>
      [] check.type \in DiffTypes -> <<"before", "after">>
      [] check.type \in PathTypes -> <<"after">>
      [] check.type = "no_false_success" -> Categories
      [] check.type = "tool_call_order" -> OrderEvidence(c, check)
      [] OTHER -> <<>>

-----------------------------------------------------------------------------
(* Normalisation: what the document may leave out.                          *)

NormalCommand(kind, i, command) ==
    [command EXCEPT
        !.id = IF @ = "" THEN Numbered(kind, i) ELSE @,
        !.exits = IF @ = <<>> THEN <<0>> ELSE @]

NormalCheck(i, check) ==
    [check EXCEPT
        !.id = IF @ # "" THEN @
               ELSE IF check.name # "" THEN check.name
               ELSE Numbered("behavior", i) \o "_" \o check.type,
        !.hard = IF @ = "unset" THEN "yes" ELSE @]

NormalFake(i, fake) ==
    [fake EXCEPT !.command = NormalCommand("fake_mcp", i, @)]

(* Evidence is filled in last, with the command identifiers in place.       *)
Normalize(c) ==
    LET named == [c EXCEPT
            !.setup = [i \in DOMAIN @ |-> NormalCommand("setup", i, @[i])],
            !.oracle = [i \in DOMAIN @ |-> NormalCommand("oracle", i, @[i])],
            !.checks = [i \in DOMAIN @ |-> NormalCheck(i, @[i])],
            !.fakes = [i \in DOMAIN @ |-> NormalFake(i, @[i])]]
    IN  [named EXCEPT !.checks = [i \in DOMAIN @ |->
            [@[i] EXCEPT !.evidence = IF @ # <<>> THEN @
                ELSE expectedCheckEvidenceIDs(named, named.checks[i])]]]

-----------------------------------------------------------------------------
(* Validation, one operator per function of the contract.                   *)

validateCommand(command) ==
    /\ WellNamed(command.id)
    /\ command.argv # <<>> /\ "" \notin ToSet(command.argv)
    /\ command.cwd = "" \/ RelativePath(command.cwd)
    /\ Duration(command.timeout, MaxCommandSeconds)
    /\ command.exits # <<>> /\ Distinct(command.exits)
    /\ ToSet(command.exits) \subseteq 0..255

NeedsPattern == {"regex_count", "regex_count_max_per_msg", "regex_match",
                 "not_contains_pattern", "bash_output_contains"}
NeedsPatterns == TextTypes \cup {"tool_output_contains_all"}
NeedsValue == {"regex_count", "regex_count_max_per_msg", "tool_called_min"}

validateCheck(check) ==
    /\ WellNamed(check.id)
    /\ check.type \in CheckTypes
    /\ RequirementIDs(check.requirements)
    /\ "" \notin ToSet(check.patterns)
    /\ check.type \in NeedsPattern => check.pattern \notin {"", "("}
    /\ check.type \in NeedsPatterns => check.patterns # <<>>
    /\ (check.type = "subagent_count" /\ check.min > 0)
           => check.patterns # <<>>
    /\ check.type \in NeedsValue => check.value >= 0
    /\ check.type \in ToolTypes => check.tool # ""
    /\ check.path # "" => RelativePath(check.path)
    /\ check.type \in PathTypes => check.path # ""
    /\ check.type = "file_written" => check.pattern \notin {"", "["}
    /\ check.min >= Unset /\ check.max >= Unset
    /\ (check.min # Unset /\ check.max # Unset) => check.min <= check.max

validateCheckEvidence(c, check) ==
    LET expected == expectedCheckEvidenceIDs(c, check)
    IN  /\ check.evidence # <<>> /\ Distinct(check.evidence)
        /\ \A e \in ToSet(check.evidence) : WellNamed(e)
        /\ expected # <<>>
        /\ ToSet(check.evidence) = ToSet(expected)

Networks == {"none", "loopback", "registry-allowlist",
             "provider-proxy-only", "host-unisolated"}

validateSecurity(c) ==
    /\ c.network \in Networks
    /\ c.mode \in {"trusted-local", "isolated-container"}
    /\ (c.mode = "trusted-local") = (c.network = "host-unisolated")
    /\ c.scripts => c.mode = "isolated-container"
    /\ UniqueStrings(c.executables)
    /\ \A e \in ToSet(c.executables) : e \notin Malformed
    /\ PathList(c.roots)
    /\ (c.network = "registry-allowlist") = (c.registries # <<>>)
    /\ UniqueStrings(c.registries)

validateTrace(trace) ==
    /\ trace.bytes > 0 /\ trace.events > 0
    /\ trace.eventBytes \in 1..trace.bytes

validateToolPolicy(c) ==
    /\ UniqueStrings(c.allowedTools) /\ UniqueStrings(c.forbiddenTools)
    /\ ~Overlap(c.allowedTools, c.forbiddenTools)
    /\ Distinct([i \in DOMAIN c.fakes |-> c.fakes[i].name])
    /\ \A fake \in ToSet(c.fakes) :
           /\ WellNamed(fake.name)
           /\ fake.tools # <<>> /\ UniqueStrings(fake.tools)
           /\ ToSet(fake.tools) \subseteq ToSet(c.allowedTools)
           /\ fake.transport = "stdio"
           /\ fake.command.argv[1] \in ToSet(c.executables)

validateAllowedCommands(c) ==
    \A command \in ToSet(c.setup) \cup ToSet(c.oracle) :
        command.argv[1] \in ToSet(c.executables)

(* Exactly one of the content and its digest, and a plain file mode.        *)
OneSource(file) == file.content # file.digest
FileMode(file) == file.mode \in {"", "0644", "0755"}

validateGitSeed(c) ==
    /\ Distinct([i \in DOMAIN c.seeds |-> c.seeds[i].path])
    /\ \A seed \in ToSet(c.seeds) :
           RelativePath(seed.path) /\ OneSource(seed) /\ FileMode(seed)
    /\ ~c.initialGit => c.seeds = <<>>

validateExpectedFiles(c) ==
    /\ Distinct([i \in DOMAIN c.files |-> c.files[i].path])
    /\ \A file \in ToSet(c.files) :
           RelativePath(file.path) /\ OneSource(file) /\ FileMode(file)

CommandIDs(c) ==
    [i \in DOMAIN c.setup |-> c.setup[i].id]
        \o [i \in DOMAIN c.oracle |-> c.oracle[i].id]
        \o [i \in DOMAIN c.fakes |-> c.fakes[i].command.id]

validateCommands(c) ==
    /\ \A command \in ToSet(c.setup) \cup ToSet(c.oracle) :
           validateCommand(command)
    /\ \A fake \in ToSet(c.fakes) : validateCommand(fake.command)
    /\ Distinct(CommandIDs(c))

validateChecks(c) ==
    /\ Distinct([i \in DOMAIN c.checks |-> c.checks[i].id])
    /\ \A check \in ToSet(c.checks) :
           /\ validateCheck(check) /\ validateCheckEvidence(c, check)
           /\ ToSet(check.requirements) \subseteq ToSet(c.requirements)

Judged(c) ==
    c.oracle # <<>> \/ c.expected # <<>> \/ c.files # <<>> \/ c.checks # <<>>

validateInteraction(c) ==
    /\ c.input # "" /\ "" \notin ToSet(c.turns) /\ Len(c.turns) <= MaxTurns
    /\ c.maxTurns \in 1..MaxTurns
    /\ Duration(c.timeout, MaxCompletionSeconds)
    /\ c.question \in {"fail", "continue", "stop"}

validateOracle(c) ==
    /\ PathList(c.expected) /\ PathList(c.forbidden)
    /\ validateExpectedFiles(c)
    /\ ~Overlap(c.expected, c.forbidden)

validateLimits(c) ==
    /\ c.hardChecks = "all"
    /\ c.runs \in 1..MaxRuns
    /\ c.aggregation \in {"min", "median", "mean"}

(* Case.Validate of a published version 1 case.                             *)
Validate(c) ==
    /\ WellNamed(c.id) /\ WellNamed(c.suite)
    /\ RequirementIDs(c.requirements)
    /\ c.type \in {"behavior", "security", "quality", "reliability"}
    /\ c.agent # "" /\ c.model # ""
    /\ RelativePath(c.source) /\ c.digest
    /\ validateGitSeed(c)
    /\ validateInteraction(c)
    /\ validateCommands(c)
    /\ validateOracle(c)
    /\ validateChecks(c)
    /\ c.critical => Judged(c)
    /\ validateSecurity(c)
    /\ validateAllowedCommands(c)
    /\ validateTrace(c.trace)
    /\ validateToolPolicy(c)
    /\ validateLimits(c)

(* The published schema and the loader want the exits of a command and the  *)
(* evidence of a check spelled out; the defaults are for other callers.     *)
validateV1Presence(c) ==
    LET own == ToSet(c.setup) \cup ToSet(c.oracle)
        fakes == {fake.command : fake \in ToSet(c.fakes)}
    IN  /\ \A command \in own \cup fakes : command.exits # <<>>
        /\ \A check \in ToSet(c.checks) : check.evidence # <<>>

(* The loader normalises a document before it validates it, and refuses a   *)
(* directory in which two documents share an identifier.                    *)
ParseContract(document) ==
    validateV1Presence(document) /\ Validate(Normalize(document))
loadContractPaths(documents) ==
    /\ \A i \in DOMAIN documents : ParseContract(documents[i])
    /\ Distinct([i \in DOMAIN documents |-> documents[i].id])

=============================================================================
