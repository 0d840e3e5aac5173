--------------------------- MODULE ReviewDelivery ----------------------------
(***************************************************************************)
(* From a frozen candidate to a commit on the base ref: the semantic       *)
(* review and its lenses, the receipt, the human approvals and the         *)
(* delivery gate.  Sources: internal/review (runner, store, sqlite),       *)
(* internal/approval, internal/delivery and the commands review, approve,  *)
(* revoke-approval, deliver and abort.  No fence covers a review or a      *)
(* delivery, a review lasts minutes, and every process may die between two *)
(* of its transactions.                                                    *)
(***************************************************************************)
EXTENDS WorkflowLedger, SequencesExt

CONSTANTS
  Reviewers,     \* processes running "review"
  Deliverers,    \* processes running "deliver"
  Keys,          \* idempotency keys of deliveries
  Floor,         \* the candidate's deterministic risk
  Answers,       \* the risks a reviewing model may ask for
  Approvable,    \* the actions a human is asked to approve
  Lenses,        \* the lenses of a review in their order (four in the code)
  MaxCandidates, \* bound: candidates the workflow freezes
  MaxCommits,    \* bound: commits deliveries build
  MaxForeign     \* bound: what the user does to worktree and ref meanwhile

Risks == {"low", "medium", "high"}

ASSUME ReviewAssumption ==
  /\ Floor \in Risks /\ Answers \subseteq Risks
  /\ Approvable \subseteq {"review", "delivery"}
  /\ Lenses \in Seq(STRING) /\ Len(Lenses) > 0
  /\ "semantic" \notin ToSet(Lenses)
  /\ MaxCandidates \in Nat \ {0} /\ MaxCommits \in Nat /\ MaxForeign \in Nat

VARIABLES
  ledger,      \* the workflow's row, events and idempotency records
  candidate,   \* verification_runs: the candidate record, 0 when there is none
  tree,        \* the candidate whose tree the worktree has, 0 for another tree
  ref,         \* the base ref: Base, Foreign or a commit of a delivery
  invocations, \* [candidate][stage] to status, answer or runner
  checkpoints, \* review_checkpoints: [candidate][stage]: answer
  findings,    \* review_findings: the severe ones, as <<candidate, lens>>
  evidence,    \* review_evidence of the lenses: lens to candidate and result
  receipts,    \* receipts, at most one for a candidate
  authority,   \* receipt_authority: a receipt, or NoReceipt
  approvals,   \* ever issued: action and candidate, to "valid" or "expired"
  current,     \* current_approvals: the approved candidate of an action, or 0
  intents,     \* delivery_intents: key to intent, or NoIntent
  commits,     \* how many commits deliveries have built
  foreign,     \* how often the user has changed worktree or ref
  rev,         \* rev[p]: what review p is doing and has read
  del          \* del[d]: what delivery d is doing and has read

reviewTables == <<invocations, checkpoints, findings, evidence>>
receiptTables == <<receipts, authority>>
approvalTables == <<approvals, current>>
git == <<tree, ref, foreign>>
deliveryTables == <<intents, commits>>
vars == <<ledger, candidate, git, reviewTables, receiptTables, approvalTables,
          deliveryTables, rev, del>>

Candidates == 1..MaxCandidates
Stages == {"semantic"} \cup ToSet(Lenses)
Actions == {"review", "delivery"}

\* What the base ref may name.
Base == <<"base", 0>>
Foreign == <<"foreign", 0>>
Commit(n) == <<"commit", n>>

NoReceipt == [cand |-> 0, risk |-> "low", answers |-> <<>>]
NoIntent == [cand |-> 0, commit |-> 0]
Idle == [pc |-> "idle"]

\* What is asked of the row as it is, no resume target among it.
Ask(l, next, key, artifacts) ==
  Request(l.state, l.version, next, key, artifacts, NoState)

Step(l, next) == AfterTransition(l, Ask(l, next, <<"run", l.version>>, {}))

\* A plan that is ready is executed and verified, and its candidate frozen.
Freeze(l) == Step(Step(Step(l, "executing"), "verifying"), "candidate_frozen")

\* A workflow whose first candidate has just been frozen.
Init ==
  /\ ledger = Freeze(Step(Step(NewLedger, "discovering"), "ready"))
  /\ candidate = 1 /\ tree = 1 /\ ref = Base /\ foreign = 0
  /\ invocations = [c \in Candidates |-> [s \in Stages |-> "absent"]]
  /\ checkpoints = [c \in Candidates |-> [s \in Stages |-> "absent"]]
  /\ findings = {}
  /\ evidence = [l \in ToSet(Lenses) |-> <<0, "absent">>]
  /\ receipts = {} /\ authority = NoReceipt
  /\ approvals = [a \in Actions \X Candidates |-> "absent"]
  /\ current = [a \in Actions |-> 0]
  /\ intents = [k \in Keys |-> NoIntent] /\ commits = 0
  /\ rev = [p \in Reviewers |-> Idle]
  /\ del = [d \in Deliverers |-> Idle]

-----------------------------------------------------------------------------
(* Risk and depth (review.go).                                             *)

Rank(risk) == CASE risk = "low" -> 0 [] risk = "medium" -> 1 [] OTHER -> 2

\* DepthFor: no lens, the one the model selects, or all of them.  Which lens is
\* selected is not told apart: it is the first.
LensesFor(risk) ==
  CASE risk = "low" -> <<>>
    [] risk = "medium" -> <<Lenses[1]>>
    [] OTHER -> Lenses

\* AssessSemantic: a review may raise the deterministic floor, never lower it.
Admissible(answer) == Rank(answer) >= Rank(Floor)

\* Mutant: an approval of either action will do.
ApprovedForAny(action, c) ==
  \E a \in Actions : current[a] = c /\ approvals[<<a, c>>] = "valid"

\* The effective risk of an admissible answer.
EffectiveRisk(answer) ==
  IF Rank(answer) > Rank(Floor) THEN answer ELSE Floor

\* Require: the action's current approval is of this very candidate and lasts.
Approved(action, c) ==
  /\ current[action] = c
  /\ approvals[<<action, c>>] = "valid"

-----------------------------------------------------------------------------
(* OpenCodeReviewRunner.Run, one step per transaction or process.          *)

ReviewBecomes(p, local) == rev' = [rev EXCEPT ![p] = local]

ReviewKeeps == UNCHANGED <<candidate, git, approvalTables, deliveryTables, del>>

\* A transition whose error the review ignores.
TryTransition(req) ==
  ledger' = IF TransitionError(ledger, req) = "none"
            THEN AfterTransition(ledger, req) ELSE ledger

\* reconcileInterrupted: a running row whose process is gone was interrupted.
Reconciled ==
  [c \in Candidates |-> [s \in Stages |->
     IF invocations[c][s] \in {p \in Reviewers : rev[p].pc # "running"}
     THEN "interrupted" ELSE invocations[c][s]]]

\* A workflow that already has an authority is answered with it, whatever its
\* state is; the command then prints the state "receipted".
ReviewReturnsAuthority(p) ==
  /\ rev[p] = Idle /\ authority # NoReceipt
  /\ invocations' = Reconciled
  /\ ReviewBecomes(p, [pc |-> "reported"])
  /\ ReviewKeeps
  /\ UNCHANGED <<ledger, checkpoints, findings, evidence, receiptTables>>

\* Otherwise the review starts, or joins one that was started before.
ReviewBegins(p) ==
  /\ rev[p] = Idle /\ authority = NoReceipt
  /\ \/ /\ ledger.state = "candidate_frozen"
        /\ ledger' = AfterTransition(ledger,
              Ask(ledger, "reviewing", <<"start", ledger.version>>, {}))
     \/ ledger.state = "reviewing" /\ UNCHANGED ledger
  /\ invocations' = Reconciled
  /\ ReviewBecomes(p, [pc |-> "started", version |-> ledger'.version])
  /\ ReviewKeeps /\ UNCHANGED <<checkpoints, findings, evidence, receiptTables>>

\* DetectDrift: the ref has moved or the worktree's tree is another.
Drifted(c) == ref # Base \/ tree # c

\* The stored candidate is read and compared with the repository; a drift asks
\* for a new plan with no artifact, and the review ends.
ReviewReads(p) ==
  /\ rev[p].pc = "started" /\ candidate # 0
  /\ IF Drifted(candidate)
     THEN /\ TryTransition(Request("reviewing", rev[p].version,
                "replan_required", <<"drift", rev[p].version>>, {}, NoState))
          /\ ReviewBecomes(p, Idle)
     ELSE /\ ReviewBecomes(p, [pc |-> "invoking", version |-> rev[p].version,
                               cand |-> candidate, plan |-> <<"semantic">>,
                               answers |-> <<>>, answer |-> "absent"])
          /\ UNCHANGED ledger
  /\ ReviewKeeps /\ UNCHANGED <<reviewTables, receiptTables>>

Stage(p) == rev[p].plan[Len(rev[p].answers) + 1]

AtStage(p) == rev[p].pc = "invoking" /\ Len(rev[p].answers) < Len(rev[p].plan)

StageAnswers(s) == IF s = "semantic" THEN Answers ELSE {"clean", "severe"}

\* What an interrupted review left: its checkpoint, or a completed invocation
\* whose answer was not looked at.
Recovered(c, s) ==
  IF checkpoints[c][s] # "absent" THEN checkpoints[c][s] ELSE invocations[c][s]

Answered(p, answer) ==
  ReviewBecomes(p, [rev[p] EXCEPT !.pc = "answered", !.answer = answer])

InvokeRecovers(p) ==
  /\ AtStage(p)
  /\ Recovered(rev[p].cand, Stage(p)) \in StageAnswers(Stage(p))
  /\ Answered(p, Recovered(rev[p].cand, Stage(p)))
  /\ ReviewKeeps /\ UNCHANGED <<ledger, reviewTables, receiptTables>>

SetInvocation(c, s, status) ==
  invocations' = [invocations EXCEPT ![c][s] = status]

\* INSERT OR REPLACE of the running row, whoever left one.
InvokeStarts(p) ==
  /\ AtStage(p)
  /\ Recovered(rev[p].cand, Stage(p)) \notin StageAnswers(Stage(p))
  /\ SetInvocation(rev[p].cand, Stage(p), p)
  /\ ReviewBecomes(p, [rev[p] EXCEPT !.pc = "running"])
  /\ ReviewKeeps
  /\ UNCHANGED <<ledger, checkpoints, findings, evidence, receiptTables>>

\* The agent's process ends: its answer is stored in the row, or it failed,
\* timed out, was cancelled or touched its worktree.
InvokeEnds(p) ==
  /\ rev[p].pc = "running"
  /\ \/ \E answer \in StageAnswers(Stage(p)) :
          /\ SetInvocation(rev[p].cand, Stage(p), answer)
          /\ Answered(p, answer)
     \/ /\ SetInvocation(rev[p].cand, Stage(p), "failed")
        /\ ReviewBecomes(p, Idle)
  /\ ReviewKeeps
  /\ UNCHANGED <<ledger, checkpoints, findings, evidence, receiptTables>>

\* persistCheckpoint: INSERT OR REPLACE.
PersistCheckpoint(c, s, answer) ==
  checkpoints' = [checkpoints EXCEPT ![c][s] = answer]

\* An answer below the floor is malformed; a high risk needs an approval.
AcceptSemantic(p) ==
  LET c == rev[p].cand
      answer == rev[p].answer
      risk == EffectiveRisk(answer) IN
  /\ rev[p].pc = "answered" /\ Stage(p) = "semantic"
  /\ IF Admissible(answer)
     THEN /\ PersistCheckpoint(c, "semantic", answer)
          /\ UNCHANGED invocations
          /\ ReviewBecomes(p,
               IF risk = "high" /\ ~Approved("review", c) THEN Idle
               ELSE [pc |-> "invoking", version |-> rev[p].version, cand |-> c,
                     plan |-> <<"semantic">> \o LensesFor(risk),
                     answers |-> <<risk>>, answer |-> "absent"])
     ELSE /\ SetInvocation(c, "semantic", "malformed")
          /\ ReviewBecomes(p, Idle) /\ UNCHANGED checkpoints
  /\ ReviewKeeps /\ UNCHANGED <<ledger, findings, evidence, receiptTables>>

\* A lens's answer is checkpointed, its severe finding stored.
AcceptLens(p) ==
  LET c == rev[p].cand
      answer == rev[p].answer IN
  /\ rev[p].pc = "answered" /\ Stage(p) # "semantic"
  /\ PersistCheckpoint(c, Stage(p), answer)
  /\ findings' = IF answer = "severe" THEN findings \cup {<<c, Stage(p)>>}
                 ELSE findings
  /\ ReviewBecomes(p, [pc |-> "invoking", version |-> rev[p].version,
                       cand |-> c, plan |-> rev[p].plan,
                       answers |-> Append(rev[p].answers, answer),
                       answer |-> "absent"])
  /\ ReviewKeeps /\ UNCHANGED <<ledger, invocations, evidence, receiptTables>>

\* Mutant: the semantic answer is enough.
CompleteEarly(p) == rev[p].pc = "invoking" /\ rev[p].answers # <<>>

Complete(p) == rev[p].pc = "invoking" /\ Len(rev[p].answers) = Len(rev[p].plan)

SevereLenses(p) ==
  {rev[p].plan[i] : i \in {j \in DOMAIN rev[p].answers :
                             rev[p].answers[j] = "severe"}}

\* A severe, reproducible finding the candidate caused asks for a new plan.
ReviewSevere(p) ==
  /\ Complete(p) /\ SevereLenses(p) # {}
  /\ TryTransition(Request("reviewing", rev[p].version, "replan_required",
       <<"severe", rev[p].version>>,
       {<<rev[p].cand, l>> : l \in SevereLenses(p)}, NoState))
  /\ ReviewBecomes(p, Idle)
  /\ ReviewKeeps /\ UNCHANGED <<reviewTables, receiptTables>>

\* The receipt's identity digests candidate, risk and every answer.
ReceiptOf(p) ==
  [cand |-> rev[p].cand, risk |-> rev[p].answers[1], answers |-> rev[p].answers]

LensEvidence(p) ==
  [l \in ToSet(Tail(rev[p].plan)) |-> <<rev[p].cand, "clean">>]

\* Evidence is known by its lens alone, so another candidate's is a mismatch.
EvidenceFits(p) ==
  \A l \in DOMAIN LensEvidence(p) :
    evidence[l] \in {<<0, "absent">>, LensEvidence(p)[l]}

ReceiptFits(p) ==
  \A r \in receipts : r.cand = rev[p].cand => r = ReceiptOf(p)

\* SQLiteStore.Issue: one transaction.  A receipt that exists is answered as it
\* is and does not become the authority again.
Issue(p) ==
  /\ Complete(p) /\ SevereLenses(p) = {}
  /\ EvidenceFits(p) /\ ReceiptFits(p)
  /\ evidence' = LensEvidence(p) @@ evidence
  /\ receipts' = receipts \cup {ReceiptOf(p)}
  /\ authority' = IF ReceiptOf(p) \in receipts THEN authority ELSE ReceiptOf(p)
  /\ ReviewBecomes(p, [pc |-> "issued", receipt |-> ReceiptOf(p)])
  /\ ReviewKeeps /\ UNCHANGED <<ledger, invocations, checkpoints, findings>>

\* The row is read again, so the receipt is stamped on whatever is reviewed now.
ReviewReceipts(p) ==
  LET req == Ask(ledger, "receipted", <<"receipted", ledger.version>>,
                 {rev[p].receipt}) IN
  /\ rev[p].pc = "issued"
  /\ TransitionError(ledger, req) = "none"
  /\ ledger' = AfterTransition(ledger, req)
  /\ ReviewBecomes(p, [pc |-> "reported"])
  /\ ReviewKeeps /\ UNCHANGED <<reviewTables, receiptTables>>

\* The command ends: it has reported, is refused, fails, or its process dies.
ReviewEnds(p) ==
  /\ rev[p] # Idle
  /\ ReviewBecomes(p, Idle)
  /\ ReviewKeeps /\ UNCHANGED <<ledger, reviewTables, receiptTables>>

-----------------------------------------------------------------------------
(* approve, revoke-approval and the clock.                                 *)

ApprovalKeeps ==
  UNCHANGED <<ledger, candidate, git, reviewTables, receiptTables,
              deliveryTables, rev, del>>

\* Issue: an approval is known by action and candidate and never rewritten, so
\* one that has expired comes back expired; it becomes the current one.
IssueApproval(action, c) ==
  /\ approvals' = [approvals EXCEPT ![<<action, c>>] =
                     IF @ = "absent" THEN "valid" ELSE @]
  /\ current' = [current EXCEPT ![action] = c]

\* workflowApprove: the basis is the stored candidate.
Approve(action) ==
  /\ action \in Approvable /\ candidate # 0
  /\ IssueApproval(action, candidate)
  /\ ApprovalKeeps

RevokeApproval(action) ==
  /\ current[action] # 0
  /\ current' = [current EXCEPT ![action] = 0]
  /\ UNCHANGED approvals /\ ApprovalKeeps

Expire(action, c) ==
  /\ approvals[<<action, c>>] = "valid"
  /\ approvals' = [approvals EXCEPT ![<<action, c>>] = "expired"]
  /\ UNCHANGED current /\ ApprovalKeeps

-----------------------------------------------------------------------------
(* workflowDeliver and Gate.Commit, one step per transaction or git command. *)

DeliveryBecomes(d, local) == del' = [del EXCEPT ![d] = local]

DeliveryKeeps ==
  UNCHANGED <<candidate, tree, foreign, reviewTables, receiptTables,
              approvalTables, rev>>

\* State, authority, for a high risk the approval, and the record are read.
DeliverBegins(d, k) ==
  /\ del[d] = Idle
  /\ ledger.state = "receipted" /\ authority # NoReceipt /\ candidate # 0
  /\ authority.risk = "high" => Approved("delivery", authority.cand)
  /\ DeliveryBecomes(d, [pc |-> "gate", key |-> k, receipt |-> authority,
                          record |-> candidate, intent |-> NoIntent])
  /\ DeliveryKeeps /\ UNCHANGED <<ledger, ref, deliveryTables>>

\* The authority still is that receipt and is about the record.
GateAdmits(d) ==
  /\ authority = del[d].receipt
  /\ del[d].receipt.cand = del[d].record

\* A key without an intent: the repository has not drifted, and a commit of the
\* candidate's tree upon the base is built.
GateCommits(d) ==
  LET c == del[d].record
      intent == [cand |-> c, commit |-> commits + 1] IN
  /\ del[d].pc = "gate" /\ GateAdmits(d)
  /\ intents[del[d].key] = NoIntent /\ ~Drifted(c)
  /\ commits < MaxCommits /\ commits' = commits + 1
  /\ DeliveryBecomes(d, [del[d] EXCEPT !.pc = "built", !.intent = intent])
  /\ DeliveryKeeps /\ UNCHANGED <<ledger, ref, intents>>

\* INSERT OR IGNORE: another intent under the key ends this delivery.
PutIntent(d) ==
  /\ del[d].pc = "built" /\ intents[del[d].key] = NoIntent
  /\ intents' = [intents EXCEPT ![del[d].key] = del[d].intent]
  /\ DeliveryBecomes(d, [del[d] EXCEPT !.pc = "moving"])
  /\ DeliveryKeeps /\ UNCHANGED <<ledger, ref, commits>>

\* A key with an intent of this candidate: its commit is already on the ref, or
\* still has to be put there.
GateRecovers(d) ==
  LET intent == intents[del[d].key] IN
  /\ del[d].pc = "gate" /\ GateAdmits(d)
  /\ intent # NoIntent /\ intent.cand = del[d].record
  /\ ref \in {Commit(intent.commit), Base}
  /\ DeliveryBecomes(d, [del[d] EXCEPT
         !.pc = IF ref = Base THEN "moving" ELSE "moved", !.intent = intent])
  /\ DeliveryKeeps /\ UNCHANGED <<ledger, ref, deliveryTables>>

\* Mutant: update-ref without the old value.
RefAdmitsAny == TRUE

\* update-ref compares the ref with the base the candidate was frozen upon.
RefAdmits == ref = Base

MoveRef(d) ==
  /\ del[d].pc = "moving" /\ RefAdmits
  /\ ref' = Commit(del[d].intent.commit)
  /\ DeliveryBecomes(d, [del[d] EXCEPT !.pc = "moved"])
  /\ DeliveryKeeps /\ UNCHANGED <<ledger, deliveryTables>>

DeliverEnds(d) ==
  LET req == Request("receipted", ledger.version, "delivered",
                     <<"delivery", del[d].key>>,
                     {del[d].receipt, del[d].intent}, NoState) IN
  /\ del[d].pc = "moved"
  /\ TransitionError(ledger, req) = "none"
  /\ ledger' = AfterTransition(ledger, req)
  /\ DeliveryBecomes(d, Idle)
  /\ DeliveryKeeps /\ UNCHANGED <<ref, deliveryTables>>

\* The delivery is refused, fails, or its process dies.
DeliverStops(d) ==
  /\ del[d] # Idle
  /\ DeliveryBecomes(d, Idle)
  /\ DeliveryKeeps /\ UNCHANGED <<ledger, ref, deliveryTables>>

-----------------------------------------------------------------------------
(* What surrounds them: the kill switch, a new plan, the user.             *)

\* workflowAbort's transition ...
Abort ==
  LET req == Ask(ledger, "aborted", <<"abort", 0>>, {}) IN
  /\ ledger.state \notin Terminal
  /\ ledger' = AfterTransition(ledger, req)
  /\ UNCHANGED <<candidate, git, reviewTables, receiptTables, approvalTables,
                 deliveryTables, rev, del>>

\* ... and its cleanup, which an abort repeated under its key makes up for:
\* running invocations are cancelled, approvals are revoked.
AbortCleanup ==
  /\ ledger.state = "aborted"
  /\ invocations' = [c \in Candidates |-> [s \in Stages |->
       IF invocations[c][s] \in Reviewers THEN "cancelled"
       ELSE invocations[c][s]]]
  /\ current' = [a \in Actions |-> 0]
  /\ UNCHANGED <<ledger, candidate, git, checkpoints, findings, evidence,
                 receiptTables, approvals, deliveryTables, rev, del>>

Freezes ==
  Cardinality({i \in DOMAIN ledger.events :
                 ledger.events[i].to = "candidate_frozen"})

\* revokeForReplan: what was approved and receipted was so for the old plan.
RevokeForReplan ==
  /\ current' = [a \in Actions |-> 0]
  /\ authority' = NoReceipt

\* Replan needs a finding of the entry into replan_required; it archives the
\* verification result.  Module Revisions has its other tables.
Replan ==
  /\ ledger.state = "replan_required" /\ Last(ledger.events).artifacts # {}
  /\ Freezes < MaxCandidates
  /\ ledger' = Advance(ledger, "ready", NoState,
                       <<"replan", ledger.version>>, {})
  /\ candidate' = 0
  /\ RevokeForReplan
  /\ UNCHANGED <<git, reviewTables, receipts, approvals, deliveryTables,
                 rev, del>>

\* The new plan is executed and verified; module Revisions has the steps.
Refreeze ==
  /\ ledger.state = "ready" /\ candidate = 0
  /\ candidate' = Freezes + 1 /\ tree' = Freezes + 1
  /\ ledger' = Freeze(ledger)
  /\ UNCHANGED <<ref, foreign, reviewTables, receiptTables, approvalTables,
                 deliveryTables, rev, del>>

\* The user edits the worktree or takes the edit back; commits upon the ref or
\* resets it to the base.
UserActs ==
  /\ foreign < MaxForeign /\ foreign' = foreign + 1
  /\ \/ tree' = 0 /\ UNCHANGED ref
     \/ tree = 0 /\ tree' = candidate /\ UNCHANGED ref
     \/ ref' = Foreign /\ UNCHANGED tree
     \/ ref' = Base /\ UNCHANGED tree
  /\ UNCHANGED <<ledger, candidate, reviewTables, receiptTables, approvalTables,
                 deliveryTables, rev, del>>

-----------------------------------------------------------------------------
ReviewStep(p) ==
  \/ ReviewReturnsAuthority(p) \/ ReviewBegins(p) \/ ReviewReads(p)
  \/ InvokeRecovers(p) \/ InvokeStarts(p) \/ InvokeEnds(p)
  \/ AcceptSemantic(p) \/ AcceptLens(p) \/ ReviewSevere(p)
  \/ Issue(p) \/ ReviewReceipts(p) \/ ReviewEnds(p)

DeliveryStep(d) ==
  \/ \E k \in Keys : DeliverBegins(d, k)
  \/ GateCommits(d) \/ PutIntent(d) \/ GateRecovers(d)
  \/ MoveRef(d) \/ DeliverEnds(d) \/ DeliverStops(d)

Next ==
  \/ \E p \in Reviewers : ReviewStep(p)
  \/ \E d \in Deliverers : DeliveryStep(d)
  \/ \E a \in Actions : Approve(a) \/ RevokeApproval(a)
  \/ \E a \in Actions, c \in Candidates : Expire(a, c)
  \/ Abort \/ AbortCleanup \/ Replan \/ Refreeze \/ UserActs

Spec == Init /\ [][Next]_vars

-----------------------------------------------------------------------------
ReceiptType ==
  [cand : Candidates, risk : Answers, answers : Seq(Answers \cup {"clean"})]

IntentType == [cand : Candidates, commit : 1..MaxCommits]

Statuses == {"absent", "failed", "interrupted", "cancelled", "malformed"}

TypeOK ==
  /\ ledger.state \in States /\ ledger.version \in Nat
  /\ candidate \in 0..MaxCandidates /\ tree \in 0..MaxCandidates
  /\ ref \in {Base, Foreign} \cup {Commit(n) : n \in 1..MaxCommits}
  /\ \A c \in Candidates, s \in Stages :
       /\ invocations[c][s] \in Statuses \cup StageAnswers(s) \cup Reviewers
       /\ checkpoints[c][s] \in {"absent"} \cup StageAnswers(s)
  /\ findings \subseteq Candidates \X ToSet(Lenses)
  /\ receipts \subseteq ReceiptType /\ authority \in receipts \cup {NoReceipt}
  /\ \A a \in Actions : current[a] \in 0..MaxCandidates
  /\ \A k \in Keys : intents[k] \in IntentType \cup {NoIntent}
  /\ commits \in 0..MaxCommits /\ foreign \in 0..MaxForeign

\* Reviews, deliveries and the kill switch race on one row: its audit trail
\* stays gap-free, keys name one event, stages are entered in order.
LedgerKept ==
  /\ Chained(ledger) /\ KeysUnique(ledger) /\ IdemAgrees(ledger)
  /\ ResumeExact(ledger) /\ InOrder(ledger)

\* A candidate has one receipt, with an answer of every lens its risk demands
\* and no risk below the floor, however often its review was interrupted.
ReceiptsAreWhole ==
  \A r \in receipts :
    /\ Rank(r.risk) >= Rank(Floor) /\ r.risk = r.answers[1]
    /\ Tail(r.answers) = [i \in DOMAIN LensesFor(r.risk) |-> "clean"]
    /\ \A q \in receipts : q.cand = r.cand => q = r

\* One process at a time reviews: an authority stays until the next plan.
LoneReview == \A p, q \in Reviewers : p = q

DeliveredEvents ==
  {i \in DOMAIN ledger.events : ledger.events[i].to = "delivered"}

\* What is delivered is the reviewed candidate: the event names a receipt and
\* the intent recorded under its key, both of the candidate that is stored, and
\* no review of that candidate has ended the workflow's plan.  The receipt is
\* the authority, unless a second review, late, has issued another.
DeliveredIsReviewed ==
  \A i \in DeliveredEvents :
    LET e == ledger.events[i] IN
    \E r \in receipts :
      /\ r.cand = candidate /\ (LoneReview => r = authority)
      /\ e.artifacts = {r, intents[e.key[2]]}
      /\ intents[e.key[2]].cand = r.cand
      /\ \A j \in DOMAIN ledger.events :
           \A a \in ledger.events[j].artifacts :
             ledger.events[j].to = "replan_required" => a[1] # r.cand

\* What reviews and deliveries keep of types, ledger and receipts.
ReviewsKept == TypeOK /\ LedgerKept /\ ReceiptsAreWhole /\ DeliveredIsReviewed

\* A candidate reviewed as high risk is delivered only after a human has
\* approved both the review and the delivery of this very candidate.
HighRiskIsApproved ==
  \A i \in DeliveredEvents :
    \A r \in ledger.events[i].artifacts \cap receipts : r.risk = "high" =>
      \A a \in Actions : approvals[<<a, r.cand>>] # "absent"

\* No delivery, however it is retried or raced, takes a commit off the ref that
\* it did not expect there: only the user moves a ref that has left the base.
ForeignCommitsSurvive ==
  [][ref # Base /\ ref' # ref => foreign' # foreign]_vars
=============================================================================
