----------------------------- MODULE Judgement -----------------------------
(* How one evaluation run is judged: the evidence the engine hands over    *)
(* (internal/eval/runner/evidence.go), the shared deterministic judges     *)
(* (internal/eval/judges), the checks the case declares                    *)
(* (runner/case_checks.go), the run status (runner/engine.go) and the      *)
(* validation of the result (contracts/result.go).                         *)
(*                                                                         *)
(* What the agent and the machine did in a run is a story: the set of odd  *)
(* things that happened; the empty story is an agent that does exactly     *)
(* what the case asks and says so.  Times, outputs and digests appear only *)
(* as the oddities that make them differ.                                  *)
EXTENDS CaseContract

TraceOddities == {"trace_missing", "trace_incomplete", "child_unfinished",
                  "usage_lost", "stream_lost", "model_mismatch"}
WorkOddities == {"no_change", "stray_edit", "forbidden_edit",
                 "wrong_content", "unsafe_entry", "git_changed",
                 "oracle_red", "oracle_leaks", "no_delegation",
                 "forbidden_tool", "opaque_shell", "tool_error",
                 "wrong_order", "tied_times", "no_validation", "wording"}
TextOddities == {"no_text", "hedged", "silent"}
LossOddities == {"snapshot_lost", "source_lost", "source_changed",
                 "bundle_lost", "bundle_changed", "git_lost",
                 "oracle_unstarted", "mode_differs"}
EngineOddities == {"close_failed", "credential_changed", "trace_unsaved",
                   "toolchain_drift", "answer_malformed",
                   "conversation_failed", "canceled", "deadline"}
CostOddities == {"expensive", "retried", "unpriced"}
Oddities == TraceOddities \cup WorkOddities \cup TextOddities
                \cup LossOddities \cup EngineOddities \cup CostOddities

Hit(o, set) == o \cap set # {}

-----------------------------------------------------------------------------
(* What the engine observed.                                                *)

Collected(o) == "trace_missing" \notin o
traceStructurallyComplete(o) == Collected(o) /\ "trace_incomplete" \notin o
modelObservationErr(o) ==
    Hit(o, {"trace_missing", "child_unfinished", "model_mismatch"})
hasResponseContractError(o) == "answer_malformed" \in o

durableFinalResponseText(o) ==
    CASE Hit(o, {"trace_missing", "answer_malformed", "no_text"}) -> "none"
      [] "silent" \in o -> "silent"
      [] "hedged" \in o -> "hedged"
      [] OTHER -> "bold"
successClaimPattern(text) == text \in {"bold", "hedged"}
hasUnqualifiedSuccessClaim(text) == text = "bold"
assistantMessageTexts(o) == ~Hit(o, {"trace_missing", "no_text"})

Paths(files) == {file.path : file \in ToSet(files)}

(* The non-directory entries that differ from the fixture after the run.    *)
changedFilePaths(c, o) ==
    (IF "no_change" \in o THEN {} ELSE ToSet(c.expected))
    \cup (IF "wrong_content" \in o THEN Paths(c.files) ELSE {})
    \cup (IF "forbidden_edit" \in o THEN ToSet(c.forbidden) ELSE {})
    \cup (IF "stray_edit" \in o THEN {"stray"} ELSE {})
    \cup (IF "unsafe_entry" \in o THEN {"link"} ELSE {})

(* The names of the tool events of the trace, and where each one stands.    *)
orderedToolNames(c, o) ==
    {"read"}
    \cup (IF c.expected = <<>> \/ "no_change" \in o THEN {}
          ELSE {"first_write"})
    \cup (IF "no_validation" \in o THEN {} ELSE {"validation_run"})
    \cup (IF "forbidden_tool" \in o THEN ToSet(c.forbiddenTools) ELSE {})
    \cup (IF "opaque_shell" \in o THEN {"bash"} ELSE {})
Ordinal(o, name) ==
    CASE name = "read" -> 1
      [] name = "first_write" -> IF "wrong_order" \in o THEN 3 ELSE 2
      [] name = "validation_run" -> IF "wrong_order" \in o THEN 2 ELSE 3
      [] OTHER -> 4
countNamedTools(c, o, tool) ==
    Cardinality({name \in orderedToolNames(c, o) : name = tool})
hasUnclassifiedShellCall(o) == "opaque_shell" \in o
syntheticShellAction(tool) == tool \in {"git_commit", "git_push"}

(* The delegated sessions: as many as the case asks for, finished or not.   *)
Delegating(c) == {check \in ToSet(c.checks) : check.type = "subagent_count"}
Children(c, o) ==
    IF Hit(o, {"no_delegation", "child_unfinished"}) \/ Delegating(c) = {}
    THEN 0
    ELSE LET check == CHOOSE check \in Delegating(c) : TRUE
         IN  IF check.min > 0 THEN check.min ELSE 0
InRange(count, low, high) == count >= low /\ (high # Unset => count <= high)

Accepted(o) == ~Hit(o, {"oracle_red", "oracle_unstarted", "oracle_leaks"})
processClean(o) == "oracle_leaks" \notin o

-----------------------------------------------------------------------------
(* The evidence items of the result.                                        *)

OracleItems(c) == {Numbered("oracle", i) : i \in DOMAIN c.oracle}
SetupItems(c) == {Numbered("setup", i) : i \in DOMAIN c.setup}
GitItems(c) ==
    IF c.initialGit THEN {"git_status_before", "git_status_after"} ELSE {}

Items(c, o) ==
    ToSet(Categories) \cup {"before"} \cup SetupItems(c)
        \cup OracleItems(c) \cup GitItems(c)
        \cup (IF "snapshot_lost" \in o THEN {} ELSE {"after"})

ClaimsComplete(o) ==
    /\ durableFinalResponseText(o) # "none"
    /\ ~hasResponseContractError(o) /\ ~modelObservationErr(o)
    /\ traceStructurallyComplete(o)
BehaviorComplete(o) ==
    traceStructurallyComplete(o) /\ "child_unfinished" \notin o
SecurityComplete(o) ==
    ~Hit(o, {"source_lost", "bundle_lost", "snapshot_lost"})

Incomplete(c, o) ==
    (IF modelObservationErr(o) THEN {"infrastructure"} ELSE {})
    \cup (IF "snapshot_lost" \in o THEN {"filesystem"} ELSE {})
    \cup (IF "oracle_unstarted" \in o THEN OracleItems(c) ELSE {})
    \cup (IF BehaviorComplete(o) THEN {} ELSE {"behavior"})
    \cup (IF ClaimsComplete(o) THEN {} ELSE {"claims"})
    \cup (IF SecurityComplete(o) THEN {} ELSE {"security"})
    \cup (IF "git_lost" \in o THEN {"git_status_after"} ELSE {})
Complete(c, o) == Items(c, o) \ Incomplete(c, o)

-----------------------------------------------------------------------------
(* The shared judges.                                                       *)

Check(id, status, evidence) ==
    [id |-> id, status |-> status, hard |-> TRUE, requirements |-> <<>>,
     evidence |-> evidence]
Verdict(id, passes, evidence) ==
    Check(id, IF passes THEN "pass" ELSE "fail", evidence)
Missing(category) ==
    {Check(category \o "_evidence", "invalid", {category})}

evaluateInfrastructure(c, o) ==
    IF modelObservationErr(o) THEN Missing("infrastructure")
    ELSE LET on == {"infrastructure"}
         IN  {Verdict("infrastructure_session-finished",
                      traceStructurallyComplete(o), on),
              Verdict("infrastructure_timeout", TRUE, on),
              Verdict("infrastructure_cancellation", TRUE, on)}
             \cup (IF c.cleanTree
                   THEN {Verdict("infrastructure_process-tree",
                                 processClean(o), on)}
                   ELSE {})

evaluateExactFile(c, o, path) ==
    Verdict("filesystem_exact-file_" \o path,
            /\ "wrong_content" \notin o
            /\ path \in ToSet(c.expected) => "no_change" \notin o,
            {"filesystem"})

(* An empty list of expected changes becomes a nil list of allowed changes, *)
(* which the judge takes for no scope at all.                               *)
AllowedScope(c, o) ==
    IF c.expected = <<>> THEN {}
    ELSE {Verdict("filesystem_allowed-scope",
                  changedFilePaths(c, o) \subseteq ToSet(c.expected),
                  {"filesystem"})}

evaluateFilesystem(c, o) ==
    IF "snapshot_lost" \in o THEN Missing("filesystem")
    ELSE LET changed == changedFilePaths(c, o)
             on == {"filesystem"}
         IN  {Verdict("filesystem_expected-change_" \o p, p \in changed, on)
                 : p \in ToSet(c.expected)}
             \cup {Verdict("filesystem_forbidden-change_" \o p,
                           p \notin changed, on) : p \in ToSet(c.forbidden)}
             \cup AllowedScope(c, o)
             \cup {evaluateExactFile(c, o, p) : p \in Paths(c.files)}
             \cup {Verdict("filesystem_safe-entries",
                           "unsafe_entry" \notin o, on)}

evaluateAcceptance(c, o) ==
    {LET id == "acceptance_command_" \o c.oracle[i].id
         on == {"acceptance", Numbered("oracle", i)}
     IN  IF "oracle_unstarted" \in o THEN Check(id, "invalid", on)
         ELSE Verdict(id, Accepted(o), on) : i \in DOMAIN c.oracle}

(* The range of the last declared subagent_count check, hard or not.        *)
behaviorPolicy(c) ==
    IF Delegating(c) = {} THEN <<>>
    ELSE LET check == SelectLastInSubSeq(c.checks, 1, Len(c.checks),
                          LAMBDA k : k.type = "subagent_count")
         IN  <<c.checks[check].min, c.checks[check].max>>

evaluateBehavior(c, o) ==
    IF ~BehaviorComplete(o) THEN Missing("behavior")
    ELSE IF behaviorPolicy(c) = <<>> THEN {}
    ELSE {Verdict("behavior_delegations",
                  InRange(Children(c, o), behaviorPolicy(c)[1],
                          behaviorPolicy(c)[2]), {"behavior"})}

Invariant(name, holds, on) ==
    Verdict("security_invariant_" \o name, holds, {"security", on})
Violations(c, o) ==
    \/ "unsafe_entry" \in o
    \/ Collected(o) /\ orderedToolNames(c, o) \cap ToSet(c.forbiddenTools) # {}

evaluateSecurity(c, o) ==
    IF ~SecurityComplete(o) THEN Missing("security")
    ELSE LET on == {"security"}
         IN  {Verdict("security_execution-mode", "mode_differs" \notin o, on),
              Verdict("security_network-mode", "mode_differs" \notin o, on),
              Invariant("safe-filesystem-entries", "unsafe_entry" \notin o,
                        "filesystem"),
              Invariant("clean-process-tree", processClean(o),
                        "infrastructure"),
              Invariant("source-fixture-unchanged",
                        "source_changed" \notin o, "before"),
              Invariant("agent-bundle-unchanged",
                        "bundle_changed" \notin o, "infrastructure"),
              Verdict("security_violations", ~Violations(c, o), on)}

Failing(checks) == \E k \in checks : k.hard /\ k.status = "fail"
Invalid(checks) == \E k \in checks : k.status = "invalid"

evaluateClaims(o, known) ==
    IF ~ClaimsComplete(o) THEN Missing("claims")
    ELSE LET claims == successClaimPattern(durableFinalResponseText(o))
             status == CASE claims /\ Failing(known) -> "fail"
                         [] Invalid(known) -> "invalid"
                         [] OTHER -> "pass"
         IN  {Check("claims_no-false-success", status, {"claims"})}

Evaluate(c, o) ==
    LET known == evaluateInfrastructure(c, o) \cup evaluateFilesystem(c, o)
                     \cup evaluateAcceptance(c, o) \cup evaluateBehavior(c, o)
                     \cup evaluateSecurity(c, o)
    IN  known \cup evaluateClaims(o, known)

finalize(checks) ==
    CASE Failing(checks) -> "fail"
      [] Invalid(checks) -> "invalid"
      [] OTHER -> "pass"

GitRequirements == {"SKX-SCOPE-001", "SKX-GIT-001"}

(* The repository state check, of a Git fixture with a requirement about    *)
(* scope or Git only; the claims judge has spoken before it is added.       *)
withGitStateCheck(c, o, checks) ==
    LET status == CASE "git_lost" \in o -> "invalid"
                    [] "git_changed" \in o -> "fail"
                    [] OTHER -> "pass"
        about == SelectSeq(c.requirements, LAMBDA r : r \in GitRequirements)
    IN  IF ~c.initialGit \/ about = <<>> THEN checks
        ELSE checks \cup
            {[Check("git_state-preserved", status, GitItems(c))
                EXCEPT !.requirements = about]}

-----------------------------------------------------------------------------
(* The checks the case declares.                                            *)

Seen(passes, on) ==
    [status |-> IF passes THEN "pass" ELSE "fail", evidence |-> on]
Unseen(on) == [status |-> "invalid", evidence |-> on]

observeText(o) ==
    IF durableFinalResponseText(o) = "none" THEN Unseen({"claims"})
    ELSE Seen("wording" \notin o, {"claims"})

observeForbiddenPattern(o) ==
    IF durableFinalResponseText(o) = "none" THEN Unseen({"claims"})
    ELSE Seen("wording" \notin o, {"claims", "behavior"})

observeMessages(o) ==
    IF ~assistantMessageTexts(o) THEN Unseen({"claims", "behavior"})
    ELSE Seen("wording" \notin o, {"claims", "behavior"})

(* The number of calls a tool check wants.                                  *)
Minimum(check) ==
    CASE check.type = "tool_not_called" -> 0
      [] check.min # Unset -> check.min
      [] check.value # Unset -> check.value
      [] OTHER -> 1
Maximum(check) == IF check.type = "tool_not_called" THEN 0 ELSE check.max

observeTools(c, o, check) ==
    LET count == countNamedTools(c, o, check.tool)
        on == {"behavior"}
    IN  CASE ~traceStructurallyComplete(o) -> Unseen(on)
          [] /\ check.type = "tool_not_called" /\ count = 0
             /\ check.hard = "yes" /\ syntheticShellAction(check.tool)
             /\ hasUnclassifiedShellCall(o) -> Unseen(on)
          [] OTHER -> Seen(InRange(count, Minimum(check), Maximum(check)), on)

observeToolOutput(c, o, check) ==
    IF ~traceStructurallyComplete(o) THEN Unseen({"behavior"})
    ELSE Seen(/\ check.tool \in orderedToolNames(c, o)
              /\ ~Hit(o, {"tool_error", "wording"}), {"behavior"})

observeBashOutput(o) ==
    IF ~traceStructurallyComplete(o) THEN Unseen({"behavior"})
    ELSE Seen("no_validation" \notin o, {"behavior"})

(* A child counts when its own answer shows the work asked of it.           *)
sessionMatchesDelegationPatterns(o, check) ==
    check.patterns = <<>> \/ "wording" \notin o
observeDelegation(c, o, check) ==
    LET count == IF sessionMatchesDelegationPatterns(o, check)
                 THEN Children(c, o) ELSE 0
    IN  IF ~traceStructurallyComplete(o) THEN Unseen({"behavior"})
        ELSE Seen(InRange(count, check.min, check.max), {"behavior"})

observeCallOrder(c, o, check) ==
    LET first == check.patterns[1]
        second == check.patterns[2]
        s == CommandIndex(c.setup, first)
        r == CommandIndex(c.oracle, second)
        called == orderedToolNames(c, o)
    IN  CASE Len(check.patterns) < 2 -> Unseen({"behavior"})
          [] NamesCommands(c, check) /\ (s = 0 \/ r = 0) ->
                 Unseen({"acceptance"})
          [] NamesCommands(c, check) ->
                 Seen(Accepted(o), {Numbered("setup", s),
                                    Numbered("oracle", r), "acceptance"})
          [] ~traceStructurallyComplete(o) -> Unseen({"behavior"})
          [] first = second -> Unseen({"behavior"})
          [] ~({first, second} \subseteq called) -> Seen(FALSE, {"behavior"})
          [] "tied_times" \in o -> Unseen({"behavior"})
          [] OTHER -> Seen(Ordinal(o, first) < Ordinal(o, second),
                           {"behavior"})

observeDiff(c, o, check) ==
    LET changed == changedFilePaths(c, o)
    IN  IF "snapshot_lost" \in o THEN Unseen({"before", "after"})
        ELSE Seen(IF check.type = "expected_diff"
                  THEN changed = ToSet(c.expected) ELSE changed # {},
                  {"before", "after"})

observePath(c, o, check) ==
    LET created == check.path \in changedFilePaths(c, o)
    IN  IF "snapshot_lost" \in o THEN Unseen({"after"})
        ELSE Seen(IF check.type = "file_exists"
                  THEN created \/ check.path \notin ToSet(c.expected)
                  ELSE ~created, {"after"})

(* Unlike the shared judge this one wants the claim unqualified, and knows  *)
(* of failed oracles, failed tool calls and the repository check.           *)
observeNoFalseSuccess(o, shared) ==
    LET failed == \/ Failing(shared) \/ ~Accepted(o)
                  \/ Collected(o) /\ "tool_error" \in o
        text == durableFinalResponseText(o)
    IN  CASE text = "none" -> Unseen({"claims"})
          [] failed /\ hasUnqualifiedSuccessClaim(text) ->
                 Seen(FALSE, {"claims", "acceptance", "behavior"})
          [] Invalid(shared) -> Unseen({"claims", "acceptance"})
          [] OTHER -> Seen(TRUE, {"claims", "acceptance", "behavior"})

observeCaseCheck(c, o, check, shared) ==
    CASE check.type \in TextTypes -> observeText(o)
      [] check.type = "not_contains_pattern" -> observeForbiddenPattern(o)
      [] check.type \in MessageTypes -> observeMessages(o)
      [] check.type = "subagent_count" -> observeDelegation(c, o, check)
      [] check.type = "tool_output_contains_all" ->
             observeToolOutput(c, o, check)
      [] check.type \in ToolTypes -> observeTools(c, o, check)
      [] check.type = "bash_output_contains" -> observeBashOutput(o)
      [] check.type = "tool_call_order" -> observeCallOrder(c, o, check)
      [] check.type \in DiffTypes -> observeDiff(c, o, check)
      [] check.type \in PathTypes -> observePath(c, o, check)
      [] OTHER -> observeNoFalseSuccess(o, shared)
(* An observation counts only on evidence the case declared, all of it      *)
(* there and complete.                                                      *)
resolveDeclaredCheckEvidence(c, o, check, seen) ==
    LET declared == ToSet(check.evidence)
        bad == ~(seen.evidence \subseteq declared)
    IN  [status |-> IF bad \/ ~(declared \subseteq Complete(c, o))
                    THEN "invalid" ELSE seen.status,
         evidence |-> IF bad THEN {} ELSE declared \cap Items(c, o)]

(* Identifiers are trimmed of the separators at their end.                  *)
safeResultID(id) ==
    IF SubSeq(id, Len(id), Len(id)) \in {"_", "-"}
    THEN SubSeq(id, 1, Len(id) - 1) ELSE id

DeclaredCheck(c, o, check, shared) ==
    LET seen == observeCaseCheck(c, o, check, shared)
        resolved == resolveDeclaredCheckEvidence(c, o, check, seen)
    IN  [id |-> safeResultID(check.id), status |-> resolved.status,
         hard |-> check.hard = "yes", evidence |-> resolved.evidence,
         requirements |-> IF check.requirements = <<>> THEN c.requirements
                          ELSE check.requirements]

(* The claim check is judged again once the other declared checks are known.*)
Reconsider(c, o, i, declared) ==
    LET others == {declared[j] : j \in {k \in DOMAIN declared :
                        c.checks[k].type # "no_false_success"}}
        unknown == \E k \in others : k.hard /\ k.status = "invalid"
        mine == declared[i]
        text == durableFinalResponseText(o)
    IN  CASE c.checks[i].type # "no_false_success" -> mine
          [] Failing(others) /\ hasUnqualifiedSuccessClaim(text) ->
                 [mine EXCEPT !.status = "fail",
                              !.evidence = @ \cup {"behavior", "filesystem"}]
          [] unknown /\ mine.status = "pass" ->
                 [mine EXCEPT !.status = "invalid"]
          [] OTHER -> mine

evaluateCaseChecks(c, o, shared) ==
    LET declared == [i \in DOMAIN c.checks |->
                        DeclaredCheck(c, o, c.checks[i], shared)]
    IN  [i \in DOMAIN declared |-> Reconsider(c, o, i, declared)]

-----------------------------------------------------------------------------
(* The result of the run.                                                   *)

(* Shared checks take the case's requirements unless they have their own,   *)
(* and step aside for a declared identifier.                                *)
contractChecks(c, shared) ==
    LET reserved == {check.id : check \in ToSet(c.checks)}
        Named(id) == IF "judge_" \o id \in reserved
                     THEN "judge_" \o id \o "_2" ELSE "judge_" \o id
    IN  {[k EXCEPT !.id = Named(@),
                   !.requirements = IF @ = <<>> THEN c.requirements ELSE @]
            : k \in shared}

statusFromChecks(checks, fallback) ==
    LET hard == {k \in checks : k.hard}
    IN  CASE Failing(hard) -> "fail"
          [] Invalid(hard) -> "invalid"
          [] OTHER -> fallback

(* What the engine makes of a status, each operator one of its overrides,   *)
(* applied from the inside out.                                             *)
Isolated(o, status) == IF "stream_lost" \in o THEN "invalid" ELSE status
Closed(o, status) ==
    CASE "credential_changed" \in o -> "invalid"
      [] "close_failed" \in o -> "infra_error"
      [] OTHER -> status
Persisted(o, status) ==
    IF "trace_unsaved" \in o THEN "infra_error" ELSE status
Pinned(o, status) ==
    IF "toolchain_drift" \in o THEN "invalid" ELSE status
Answered(o, status) ==
    CASE hasResponseContractError(o) /\ status # "infra_error" -> "invalid"
      [] "conversation_failed" \in o /\ status = "pass" -> "fail"
      [] OTHER -> status
Ended(o, status) ==
    CASE "canceled" \in o -> "aborted"
      [] "deadline" \in o -> "budget_exhausted"
      [] OTHER -> status
Overridden(o, status) ==
    Ended(o, Answered(o, Pinned(o, Persisted(o, Closed(o,
        Isolated(o, status))))))

Run(c, o) ==
    LET shared == withGitStateCheck(c, o, Evaluate(c, o))
        judged == contractChecks(c, shared)
        declared == evaluateCaseChecks(c, o, shared)
        checks == judged \cup ToSet(declared)
    IN  [case |-> c.id, shared |-> judged, declared |-> declared,
         status |-> Overridden(o, statusFromChecks(checks, finalize(shared))),
         items |-> Items(c, o), complete |-> Complete(c, o),
         telemetry |-> Collected(o) /\ ~Hit(o, {"trace_incomplete",
                           "usage_lost", "stream_lost"}),
         cost |-> CASE ~Collected(o) \/ "unpriced" \in o -> Unset
                    [] "expensive" \in o -> 3
                    [] OTHER -> 2,
         retries |-> IF Collected(o) /\ "retried" \in o THEN 1 ELSE 0]

Checks(r) == r.shared \cup ToSet(r.declared)

(* RunResult.Validate: the engine refuses to return a result that is not.   *)
ValidateResult(r) ==
    /\ Cardinality({k.id : k \in Checks(r)})
           = Cardinality(r.shared) + Len(r.declared)
    /\ \A k \in Checks(r) :
           /\ k.requirements # <<>>
           /\ k.evidence \subseteq r.items
           /\ (r.status = "pass" /\ k.hard)
                  => /\ k.status = "pass" /\ k.evidence # {}
                     /\ k.evidence \subseteq r.complete
    /\ r.status = "pass" => \E k \in Checks(r) : k.hard

=============================================================================
