------------------------------ MODULE Revisions ------------------------------
(***************************************************************************)
(* Verification of a candidate and the two commands that correct a plan    *)
(* whose verification or review failed: "retry-verification" replaces one  *)
(* check and verifies the same candidate again, "replan" replaces the      *)
(* execution graph and executes again.  Sources: verification.Runner.Run,  *)
(* SQLiteStore.RetryVerification, SQLiteStore.Replan and the commands      *)
(* around them.  The two commands take no fence, and "run" verifies under  *)
(* one that may lapse and that it does not look at again before it decides *)
(* (WorkflowJobs models the fence).  So several processes may decide on    *)
(* one candidate, and each may die between two of its transactions.  A     *)
(* failed job blocks the workflow wherever it is, and "resume"             *)
(* (SQLiteStore.Resume) takes it back after comparing the worktree with    *)
(* the lineage every stage records in the recovery basis.                  *)
(***************************************************************************)
EXTENDS WorkflowLedger, FiniteSetsExt

CONSTANTS
  Procs,       \* processes running "run", "retry-verification" or "replan"
  RetryKeys, ReplanKeys, ResumeKeys, \* idempotency keys their users pass
  MaxEdits,    \* bound: edits of the worktree from outside
  MaxFailures, \* bound: failed jobs
  FailVersions, \* bound: the versions of the row at which a job may fail
  MaxVersion   \* bound: no execution begins at a later version

ASSUME RevisionsAssumption ==
  MaxEdits \in Nat /\ MaxFailures \in Nat /\ FailVersions \subseteq Nat
  /\ MaxVersion \in Nat

Keys == RetryKeys \cup ReplanKeys \cup ResumeKeys

VARIABLES
  ledger,      \* the workflow's row, events and idempotency records
  graphs,      \* execution_graphs: the version written inside graph i
  contract,    \* workflow_run_inputs: how often its checks were replaced, plus 1
  run,         \* verification_runs: the current result, or NoResult
  history,     \* verification_run_history: archived results by revision
  revisions,   \* verification_contract_revisions
  replans,     \* replan_revisions
  basis,       \* recovery_bases: the trees before and after the last change
               \* of the worktree, and of the candidate; {} or a singleton
  tree,        \* the tree a freeze of the worktree yields now
  proc         \* proc[p]: what process p is doing and has read

vars == <<ledger, graphs, contract, run, history, revisions, replans, basis,
          tree, proc>>

lineage == <<graphs, contract, history, revisions, replans>>

\* A result is known by who obtained it at which row: stored results carry
\* timestamps, so no two are equal byte by byte.
Outcomes == {"passed", "failed", "unstable"}

NoResult == [by |-> "nobody", version |-> 0, tree |-> 0, contract |-> 0,
             outcome |-> "passed"]

ResultType == [by : Procs, version : Nat, tree : Nat, contract : Nat,
               outcome : Outcomes]

\* Artifact IDs of events.  An evidence ID digests tree, exit code and output:
\* a check that fails alike on the same tree has the same ID again.
Evidence(t) == <<"evidence", t>>
Finding(result) == <<"finding", result.version>>

EventKey ==
  {"start", "job_failed", "technical_retry", "execution_start",
   "execution_complete", "failed", "drift", "frozen", "review_start",
   "review_severe", "review_drift", "retry", "replan", "resume"}
  \X (Nat \cup Keys)

ArtifactID ==
  {"evidence", "finding", "revision", "graph", "blocker", "observed"} \X Nat

Ask(next, key, artifacts) ==
  Request(ledger.state, ledger.version, next, key, artifacts, NoState)

\* A started workflow; "start" stores graph 1 and the first run input.
StartedLedger ==
  LET discovering == Request("created", 0, "discovering", <<"start", 0>>, {},
                             NoState)
      ready == Request("discovering", 1, "ready", <<"start", 1>>, {}, NoState)
  IN AfterTransition(AfterTransition(NewLedger, discovering), ready)

Idle == [pc |-> "idle"]

Init ==
  /\ ledger = StartedLedger
  /\ graphs = <<1>>
  /\ contract = 1
  /\ run = NoResult
  /\ history = {}
  /\ revisions = {}
  /\ replans = {}
  /\ basis = [pre |-> {0}, post |-> {}, candidate |-> {}]
  /\ tree = 0
  /\ proc = [p \in Procs |-> Idle]

Becomes(p, local) == proc' = [proc EXCEPT ![p] = local]

\* Process p's command ends.
Ends(p) == Becomes(p, Idle)

-----------------------------------------------------------------------------
(* What surrounds verification: execution, blockers, the review, the user.    *)

\* The transition an actor asks for on the row as it is, when it is admitted.
Moves(req) ==
  /\ TransitionError(ledger, req) = "none"
  /\ ledger' = AfterTransition(ledger, req)
  /\ UNCHANGED <<run, basis, tree, proc, lineage>>

\* Mutant: the version is not read from the graph that replaced the first.
CurrentGraphFirst == graphs[1]

CurrentGraph == graphs[Len(graphs)]

\* beginExecutionIfReady: the key names the version written in the graph.
Begin ==
  /\ ledger.state = "ready" /\ ledger.version <= MaxVersion
  /\ Moves(Ask("executing", <<"execution_start", CurrentGraph>>, {}))

\* The last slice: its patch, if it changes anything, lands, the basis follows
\* it, and completeExecutionIfReady moves on.
Complete ==
  LET req == Ask("verifying", <<"execution_complete", CurrentGraph>>, {}) IN
  /\ ledger.state = "executing"
  /\ req.key \notin EventKeys(ledger)
  /\ ledger' = Remember(Advance(ledger, "verifying", ledger.resume, req.key, {}),
                        req)
  /\ tree' \in {tree, tree + 1} \cap (0..MaxEdits)
  /\ basis' = [basis EXCEPT !.pre = {tree}, !.post = {tree'}]
  /\ UNCHANGED <<run, proc, lineage>>

Struck == {i \in 1..Len(ledger.events) : ledger.events[i].to = "blocked"}

\* FinishWorkflowJob of a failed run or review, with the blocker it names, and
\* the technical retry of it.
JobFails ==
  /\ ledger.state \in Blockable
  /\ Cardinality(Struck) < MaxFailures /\ ledger.version \in FailVersions
  /\ ledger' = Advance(ledger, "blocked", ledger.state,
                       <<"job_failed", ledger.version>>,
                       {<<"blocker", ledger.version>>})
  /\ UNCHANGED <<run, basis, tree, proc, lineage>>

TechnicalRetry ==
  /\ ledger.state = "blocked"
  /\ Moves(Ask(ledger.resume, <<"technical_retry", ledger.version>>, {}))

\* The review of the stored candidate: it starts, sees a drift, finds a defect.
ReviewStart ==
  /\ ledger.state = "candidate_frozen"
  /\ Moves(Ask("reviewing", <<"review_start", ledger.version>>, {}))

ReviewDrift ==
  /\ ledger.state = "reviewing" /\ run # NoResult /\ tree # run.tree
  /\ Moves(Ask("replan_required", <<"review_drift", ledger.version>>, {}))

ReviewSevere ==
  /\ ledger.state = "reviewing" /\ run # NoResult
  /\ Moves(Ask("replan_required", <<"review_severe", ledger.version>>,
               {Finding(run)}))

\* The user, an editor or a slice changes the worktree.
Edit ==
  /\ tree < MaxEdits
  /\ tree' = tree + 1
  /\ UNCHANGED <<ledger, run, basis, proc, lineage>>

-----------------------------------------------------------------------------
(* Verification: workflowRunContext or runRevisedVerification, then Run.      *)

\* "run" reads its checks before it reads the row.  The fence it takes keeps
\* nobody out: it may lapse at any moment.  A run that begins while the slices
\* execute reads the same checks, so that it begins now is no restriction.
RunBegins(p) ==
  /\ proc[p] = Idle
  /\ ledger.state = "verifying"
  /\ Becomes(p, [pc |-> "planned", contract |-> contract])
  /\ UNCHANGED <<ledger, run, basis, tree, lineage>>

\* A retry-verification repeated under its key verifies again.
RetryRepeats(p, k) ==
  /\ proc[p] = Idle /\ ledger.state = "verifying"
  /\ \E r \in revisions : r.key = k
  /\ Becomes(p, [pc |-> "planned", contract |-> contract])
  /\ UNCHANGED <<ledger, run, basis, tree, lineage>>

\* A stored result is decided on again, otherwise the candidate is frozen.
ReadRow(p) ==
  /\ proc[p].pc = "planned" /\ ledger.state = "verifying"
  /\ Becomes(p, IF run = NoResult
                THEN [pc |-> "checking", row |-> Row(ledger),
                      contract |-> proc[p].contract, tree |-> tree]
                ELSE [pc |-> "found", row |-> Row(ledger), result |-> run])
  /\ UNCHANGED <<ledger, run, basis, tree, lineage>>

\* Mutant: the later result replaces the stored one.
PersistReplaces(result) == run' = result

\* persist: INSERT OR IGNORE.
Persist(result) == run' = IF run = NoResult THEN result ELSE run

\* The checks have run, and the worktree is frozen again: a tree that changed
\* under them fails the verification too.
Check(p) ==
  /\ proc[p].pc = "checking"
  /\ \E outcome \in IF tree = proc[p].tree THEN {"passed", "failed"}
                    ELSE {"failed", "unstable"} :
       LET result == [by |-> p, version |-> proc[p].row.version,
                      tree |-> proc[p].tree, contract |-> proc[p].contract,
                      outcome |-> outcome] IN
       /\ Persist(result)
       /\ Becomes(p, [pc |-> "checked", row |-> proc[p].row,
                      result |-> result])
  /\ UNCHANGED <<ledger, basis, tree, lineage>>

Passed(p) == proc[p].result.outcome = "passed"

Drifted(p) == tree # proc[p].result.tree

\* Mutant: a stored result is decided on with the lineage it was stored with.
RecordFreshOnly(p) ==
  /\ \/ /\ proc[p].pc = "checked"
        /\ basis' = [basis EXCEPT !.candidate = {proc[p].result.tree}]
        /\ Becomes(p, [proc[p] EXCEPT !.pc = "recorded"])
     \/ /\ proc[p].pc = "found" /\ Passed(p) /\ ~Drifted(p)
        /\ Becomes(p, [proc[p] EXCEPT !.pc = "cleared"])
        /\ UNCHANGED basis
  /\ UNCHANGED <<ledger, run, tree, lineage>>

\* UpdateRecoveryBasis, for a fresh result before it is looked for a drift, for
\* a stored one after it.
Record(p) ==
  /\ \/ /\ proc[p].pc = "checked"
        /\ Becomes(p, [proc[p] EXCEPT !.pc = "recorded"])
     \/ /\ proc[p].pc = "found" /\ Passed(p) /\ ~Drifted(p)
        /\ Becomes(p, [proc[p] EXCEPT !.pc = "cleared"])
  /\ basis' = [basis EXCEPT !.candidate = {proc[p].result.tree}]
  /\ UNCHANGED <<ledger, run, tree, lineage>>

DecisionReached(p) ==
  \/ proc[p].pc \in {"recorded", "cleared"}
  \/ proc[p].pc = "found" /\ (~Passed(p) \/ Drifted(p))

\* What a result, stored or fresh, asks for: a failure names its evidence, a
\* drift names nothing.
Decision(p) ==
  LET row == proc[p].row
      Verdict(next, reason, artifacts) ==
        Request("verifying", row.version, next, <<reason, row.version>>,
                artifacts, NoState) IN
  IF ~Passed(p)
  THEN Verdict("replan_required", "failed", {Evidence(proc[p].result.tree)})
  ELSE IF Drifted(p) /\ proc[p].pc # "cleared"
  THEN Verdict("replan_required", "drift", {})
  ELSE Verdict("candidate_frozen", "frozen", {})

Decide(p) ==
  /\ proc[p].pc \in {"found", "recorded", "cleared"} /\ DecisionReached(p)
  /\ TransitionError(ledger, Decision(p)) = "none"
  /\ ledger' = AfterTransition(ledger, Decision(p))
  /\ Ends(p)
  /\ UNCHANGED <<run, basis, tree, lineage>>

\* The process dies, or its next call is refused: its command ends.
Quit(p) ==
  /\ proc[p] # Idle
  /\ Ends(p)
  /\ UNCHANGED <<ledger, run, basis, tree, lineage>>

-----------------------------------------------------------------------------
(* retry-verification.                                                        *)

Highest(S) == Max({0} \cup S)

RevisionNumbers == {r.revision : r \in revisions}
ArchiveNumbers == {h.revision : h \in history}

\* Mutant: the command does not ask whether the result is a failure.
RetryReadAnyResult(p, k) ==
  /\ proc[p] = Idle
  /\ \A r \in revisions : r.key # k
  /\ run # NoResult /\ run.tree = tree
  /\ Becomes(p, [pc |-> "retrying", key |-> k, result |-> run])
  /\ UNCHANGED <<ledger, run, basis, tree, lineage>>

\* The command reads the failed result it will retry, and finds the candidate
\* unchanged.
RetryRead(p, k) ==
  /\ proc[p] = Idle
  /\ \A r \in revisions : r.key # k
  /\ run # NoResult /\ run.outcome = "failed" /\ run.tree = tree
  /\ Becomes(p, [pc |-> "retrying", key |-> k, result |-> run])
  /\ UNCHANGED <<ledger, run, basis, tree, lineage>>

\* The state and the result RetryVerification's transaction insists on.
RetryAdmitted(result) ==
  /\ \/ ledger.state = "replan_required"
     \/ ledger.state = "blocked" /\ ledger.resume = "verifying"
  /\ run = result

\* The number it gives to the archived result and to the new contract.
RetryRevision == Highest(RevisionNumbers) + 1

\* A result leaves verification_runs for the history.
Archive(revision, result) ==
  history' = history \cup {[revision |-> revision, result |-> result]}

LedgerAfterRetry(k) ==
  Advance(ledger, "verifying", NoState, <<"retry", k>>,
          {<<"revision", RetryRevision>>})

\* RetryVerification.  It writes row and event itself and leaves no idempotency
\* record; its own table answers a repeated key.
RetryCommit(p) ==
  LET k == proc[p].key IN
  /\ proc[p].pc = "retrying"
  /\ \A r \in revisions : r.key # k
  /\ RetryAdmitted(proc[p].result)
  /\ RetryRevision \notin ArchiveNumbers
  /\ Archive(RetryRevision, proc[p].result)
  /\ revisions' = revisions \cup
       {[revision |-> RetryRevision, key |-> k, previous |-> proc[p].result]}
  /\ contract' = contract + 1
  /\ run' = NoResult
  /\ ledger' = LedgerAfterRetry(k)
  /\ Becomes(p, [pc |-> "planned", contract |-> contract + 1])
  /\ UNCHANGED <<graphs, replans, basis, tree>>

-----------------------------------------------------------------------------
(* replan.                                                                    *)

ReplanEvents ==
  {i \in 1..Len(ledger.events) : ledger.events[i].to = "replan_required"}

\* attachedInvalidation: the artifacts of the last entry into replan_required.
Invalidations ==
  IF ReplanEvents = {} THEN {} ELSE ledger.events[Highest(ReplanEvents)].artifacts

KnownArtifacts == UNION {ledger.events[i].artifacts : i \in ReplanEvents}

\* The version the command writes into the graph: the one a replan under this
\* key was recorded with, or the next.
TargetVersion(k) ==
  IF \E r \in replans : r.key = k
  THEN (CHOOSE r \in replans : r.key = k).version
  ELSE Len(graphs) + 1

\* The command prepares its request outside the transaction.
ReplanRead(p, k, finding) ==
  /\ proc[p] = Idle
  /\ Becomes(p, [pc |-> "replanning", key |-> k,
                 request |-> [finding |-> finding, target |-> TargetVersion(k)]])
  /\ UNCHANGED <<ledger, run, basis, tree, lineage>>

ReplanArchiveRevision == Highest(ArchiveNumbers) + 1

\* Replan.  Row and event are written by itself; replan_revisions answers a
\* repeated key.  A result the candidate had is archived, and the slices are
\* pending again.
ReplanCommit(p) ==
  LET k == proc[p].key
      request == proc[p].request
      version == Len(graphs) + 1 IN
  /\ proc[p].pc = "replanning"
  /\ \A r \in replans : r.key # k
  /\ ledger.state = "replan_required"
  /\ request.finding \in Invalidations
  /\ graphs' = Append(graphs, request.target)
  /\ contract' = contract + 1
  /\ IF run = NoResult THEN UNCHANGED history
     ELSE Archive(ReplanArchiveRevision, run)
  /\ run' = NoResult
  /\ ledger' = Advance(ledger, "ready", NoState, <<"replan", k>>,
                       {request.finding, <<"graph", version>>})
  /\ replans' = replans \cup
       {[key |-> k, request |-> request, version |-> version]}
  /\ Ends(p)
  /\ UNCHANGED <<revisions, basis, tree>>

-----------------------------------------------------------------------------
(* resume.                                                                    *)

\* What reconcileBasis says of the worktree: a candidate is compared with its
\* own tree, a mutation with the trees before and after it; the command fails
\* when nothing is recorded to compare with.
Reconciled(target) ==
  LET recorded == IF target \in {"candidate_frozen", "reviewing", "receipted"}
                  THEN basis.candidate ELSE basis.pre \cup basis.post IN
  IF recorded = {} THEN "missing"
  ELSE IF tree \in recorded THEN "known" ELSE "unknown"

\* The artifacts of the last event into blocked: the active blocker.
ActiveBlocker ==
  IF Struck = {} THEN {} ELSE ledger.events[Max(Struck)].artifacts

KnownBlockers == UNION {ledger.events[i].artifacts : i \in Struck}

\* The command has read row, blocker, basis and worktree, and knows its request.
ResumeRead(p, k, blocker) ==
  /\ proc[p] = Idle
  /\ ledger.state = "blocked" /\ blocker \in ActiveBlocker
  /\ Reconciled(ledger.resume) # "missing"
  /\ Becomes(p, [pc |-> "resuming", req |->
       IF Reconciled(ledger.resume) = "known"
       THEN Ask(ledger.resume, <<"resume", k>>, {})
       ELSE Ask("integration_conflict", <<"resume", k>>,
                {<<"observed", tree>>})])
  /\ UNCHANGED <<ledger, run, basis, tree, lineage>>

\* Its transition; the worktree is not looked at again.
ResumeCommit(p) ==
  /\ proc[p].pc = "resuming"
  /\ TransitionError(ledger, proc[p].req) = "none"
  /\ ledger' = AfterTransition(ledger, proc[p].req)
  /\ Ends(p)
  /\ UNCHANGED <<run, basis, tree, lineage>>

-----------------------------------------------------------------------------
ProcStep(p) ==
  \/ RunBegins(p) \/ ReadRow(p) \/ Check(p) \/ Record(p) \/ ResumeCommit(p)
  \/ \E k \in ResumeKeys, blocker \in KnownBlockers : ResumeRead(p, k, blocker)
  \/ Decide(p) \/ Quit(p) \/ RetryCommit(p) \/ ReplanCommit(p)
  \/ \E k \in RetryKeys : RetryRead(p, k) \/ RetryRepeats(p, k)
  \/ \E k \in ReplanKeys, finding \in KnownArtifacts : ReplanRead(p, k, finding)

Next ==
  \/ Begin \/ Complete \/ JobFails \/ TechnicalRetry
  \/ ReviewStart \/ ReviewDrift \/ ReviewSevere \/ Edit
  \/ \E p \in Procs : ProcStep(p)

Spec == Init /\ [][Next]_vars

-----------------------------------------------------------------------------
ProcType ==
  {Idle}
  \cup [pc : {"planned"}, contract : Nat]
  \cup [pc : {"checking"}, row : RowType, contract : Nat, tree : Nat]
  \cup [pc : {"found", "checked", "recorded", "cleared"}, row : RowType,
        result : ResultType]
  \cup [pc : {"retrying"}, key : Keys, result : ResultType]
  \cup [pc : {"replanning"}, key : Keys,
        request : [finding : ArtifactID, target : Nat]]
  \cup [pc : {"resuming"}, req : RequestType(EventKey, SUBSET ArtifactID)]

TypeOK ==
  /\ ledger \in LedgerType(EventKey, SUBSET ArtifactID)
  /\ graphs \in Seq(Nat) /\ contract \in Nat /\ tree \in Nat
  /\ run \in ResultType \cup {NoResult}
  /\ basis \in [{"pre", "post", "candidate"} -> SUBSET Nat]
  /\ history \subseteq [revision : Nat, result : ResultType]
  /\ revisions \subseteq [revision : Nat, key : Keys, previous : ResultType]
  /\ replans \subseteq
       [key : Keys, version : Nat,
        request : [finding : ArtifactID, target : Nat]]
  /\ proc \in [Procs -> ProcType]

\* Two more writers keep the ledger beside Transition: RetryVerification and
\* Replan.  The audit trail stays a gap-free account of the row, keys name one
\* event, and a repaired check or plan enters only the stage it repairs.
LedgerKept ==
  /\ Chained(ledger) /\ KeysUnique(ledger) /\ IdemAgrees(ledger)
  /\ ResumeExact(ledger) /\ InOrder(ledger)

Stored == {h.result : h \in history} \cup ({run} \ {NoResult})

\* No stored verification result is ever lost or rewritten: it stays current, or
\* it is archived.
ResultsAreKept == [][Stored \subseteq Stored']_vars

\* The contract revisions and the archive tell one story: each revision retried
\* the failed result archived under its own number, and a number or a key is
\* given once.
RevisionsMatchArchive ==
  /\ \A r \in revisions :
       /\ r.previous.outcome = "failed"
       /\ [revision |-> r.revision, result |-> r.previous] \in history
  /\ \A r, q \in revisions : r.key = q.key \/ r.revision = q.revision => r = q
  /\ \A h, i \in history : h.revision = i.revision => h = i

\* A graph is started and completed under the version written in it.  A workflow
\* whose plan was replaced by one prepared for the number it is stored under can
\* be started: its key is new, whatever was started, blocked and resumed before.
\* (A graph prepared for an earlier number, while another replan committed that
\* one, cannot: Replan does not compare the two.)
ReplannedCanStart ==
  ledger.state = "ready" /\ graphs[Len(graphs)] = Len(graphs) =>
    <<"execution_start", CurrentGraph>> \notin EventKeys(ledger)

\* The replan left the very entry into replan_required that its finding, or its
\* evidence, was attached to.
AnswersItsFinding(r) ==
  \E i \in 2..Len(ledger.events) :
    /\ ledger.events[i].key = <<"replan", r.key>>
    /\ ledger.events[i-1].to = "replan_required"
    /\ r.request.finding \in ledger.events[i-1].artifacts

\* The graphs, the replans and the trail tell one story: each graph after the
\* first was written by one replan, for a number not past its own, in answer to
\* the failure that the workflow stood at; a number or a key is given once.
ReplansMatchGraphs ==
  /\ \A i \in 2..Len(graphs) : \E r \in replans : r.version = i
  /\ \A r \in replans :
       /\ r.version \in 2..Len(graphs)
       /\ graphs[r.version] = r.request.target
       /\ r.request.target \in 2..r.version
       /\ AnswersItsFinding(r)
  /\ \A r, q \in replans : r.key = q.key \/ r.version = q.version => r = q

\* What the two corrections keep of types, ledger, archive, revisions and graphs.
RevisionsKept ==
  TypeOK /\ LedgerKept /\ RevisionsMatchArchive /\ ReplansMatchGraphs

\* "A blocked workflow always has a basis and never has to fabricate one"
\* (UpdateRecoveryBasis): wherever a failed job strikes, and whoever died between
\* storing a result and recording its lineage, resume finds what it compares the
\* worktree with.
BlockedHasBasis ==
  ledger.state = "blocked" => Reconciled(ledger.resume) # "missing"
=============================================================================
