---------------------------- MODULE SliceExecution ----------------------------
(***************************************************************************)
(* Executors that carry the slices of their workflows into one worktree:   *)
(* workflowRunContext, execution.Scheduler, execution.Broker and the store *)
(* operations they call.  A slice is activated with a fenced attempt, an   *)
(* agent answers with a patch made for the attempt's basis tree, and the   *)
(* broker writes the patch file by file between two database writes.       *)
(* Three locks guard this: the execution fence of each workflow and the    *)
(* worktree's lease, which expire, and the worktree's file lock, which the *)
(* operating system frees when its holder dies.                            *)
(***************************************************************************)
EXTENDS WorkflowMachine, Integers, FiniteSets

CONSTANTS
  Workflows,   \* workflows started in the worktree
  Executors,   \* processes that run "run" or are its detached workers
  RunsFor,     \* RunsFor[e]: the workflow executor e executes
  Slices,      \* slices of each execution graph, ordered by ID
  Depends,     \* Depends[s]: the slices s depends on; without cycles
  Nobody,      \* no executor; also the user who edits the worktree
  Late,        \* whether fence and lease may expire under a living holder
  Aborts,      \* whether the kill switch is used
  Edits        \* whether the user edits the worktree, once

ASSUME SliceAssumption ==
  /\ RunsFor \in [Executors -> Workflows]
  /\ Slices \subseteq Nat /\ IsFiniteSet(Slices)
  /\ Depends \in [Slices -> SUBSET Slices]
  /\ Nobody \notin Executors \cup Workflows
  /\ {Late, Aborts, Edits} \subseteq BOOLEAN

VARIABLES
  state,    \* state[w]: the workflow's state
  slice,    \* slice[w][s]: execution_slice_state
  attempt,  \* attempt[w][s]: mutation_attempts
  op,       \* op[w][s]: mutation_operations
  fence,    \* fence[w]: the holder of the unexpired execution fence
  lease,    \* the token of the unexpired worktree lease
  lock,     \* the holder of the worktree's file lock
  tree,     \* the files of the worktree that differ from its start, by author
  exec      \* exec[e]: where executor e is, and what it has read

vars == <<state, slice, attempt, op, fence, lease, lock, tree, exec>>

tables == <<state, slice, attempt, op>>
guards == <<fence, lease, lock>>

\* A patch has two files.  What a tree looks like is told by who wrote what; a
\* re-dispatched slice has another author and so another patch.
Files == Workflows \X Slices \X {1, 2}
UserFile == <<Nobody, 0, 0>>
Written ==
  [file : Files, by : Executors] \cup [file : {UserFile}, by : {Nobody}]

\* Fencing tokens are random, so an executor's token for a slice is its own.
NoToken == <<Nobody, 0>>
Tokens == Executors \X Slices

\* No tree is recorded yet.
NoTree == {[file |-> UserFile, by |-> UserFile]}

NoAttempt == [live |-> FALSE, token |-> NoToken, basis |-> {}]

NoOperation == [status |-> "none", pre |-> NoTree, post |-> NoTree]

Off == [pc |-> "off"]

Init ==
  /\ state = [w \in Workflows |-> "ready"]
  /\ slice = [w \in Workflows |-> [s \in Slices |-> "pending"]]
  /\ attempt = [w \in Workflows |-> [s \in Slices |-> NoAttempt]]
  /\ op = [w \in Workflows |-> [s \in Slices |-> NoOperation]]
  /\ fence = [w \in Workflows |-> Nobody]
  /\ lease = NoToken
  /\ lock = Nobody
  /\ tree = {}
  /\ exec = [e \in Executors |-> Off]

-----------------------------------------------------------------------------
(* An executor's progress.                                                 *)

Running(e) == exec[e] # Off

\* Executor e goes on to pc with what it knows; or keeps what it knows.
Knows(e, local) == exec' = [exec EXCEPT ![e] = local]
Goes(e, pc) == exec' = [exec EXCEPT ![e].pc = pc]

\* Its command ends: deferred calls give back its own fence and the file lock.
Ends(e) ==
  /\ Knows(e, Off)
  /\ fence' = [w \in Workflows |-> IF fence[w] = e THEN Nobody ELSE fence[w]]
  /\ lock' = IF lock = e THEN Nobody ELSE lock

\* Executor e goes on to pc if the condition holds, and ends otherwise.
Requires(e, condition, pc) ==
  IF condition THEN Goes(e, pc) /\ UNCHANGED <<fence, lock>> ELSE Ends(e)

\* It is killed: the file lock is freed, fence and lease are not.
Crash(e) ==
  /\ Running(e)
  /\ Knows(e, Off)
  /\ lock' = IF lock = e THEN Nobody ELSE lock
  /\ UNCHANGED <<tables, fence, lease, tree>>

-----------------------------------------------------------------------------
(* Time.  Lease and fence expire when nobody extends them; their living    *)
(* holders may be late.                                                    *)

FenceLapse(w) ==
  /\ fence[w] # Nobody /\ (Late \/ ~Running(fence[w]))
  /\ fence' = [fence EXCEPT ![w] = Nobody]
  /\ UNCHANGED <<tables, lease, lock, tree, exec>>

FenceReclaim(e) ==
  /\ Running(e) /\ fence[RunsFor[e]] = Nobody
  /\ fence' = [fence EXCEPT ![RunsFor[e]] = e]
  /\ UNCHANGED <<tables, lease, lock, tree, exec>>

Holds(e, token) == "token" \in DOMAIN exec[e] /\ exec[e].token = token

LeaseLapse ==
  /\ lease # NoToken
  /\ Late \/ \A e \in Executors : ~Holds(e, lease)
  /\ lease' = NoToken
  /\ UNCHANGED <<tables, fence, lock, tree, exec>>

-----------------------------------------------------------------------------
(* The tables.                                                             *)

LiveAttempts(w) == {s \in Slices : attempt[w][s].live}

\* Mutant: what a slice depends on is not looked at.
ReadySlicesUnordered(w) ==
  IF \E s \in Slices : slice[w][s] = "active" THEN {}
  ELSE {s \in Slices : slice[w][s] = "pending"}

\* NextReady: no slice is active; the first pending one with its dependencies
\* completed.
ReadySlices(w) ==
  IF \E s \in Slices : slice[w][s] = "active" THEN {}
  ELSE {s \in Slices : /\ slice[w][s] = "pending"
                        /\ \A d \in Depends[s] : slice[w][d] = "completed"}

IsNext(w, s) == s \in ReadySlices(w) /\ \A r \in ReadySlices(w) : s <= r

\* completeExecutionIfReady, when slices of w becomes status in the same
\* transaction: what it makes of the state, and when it fails.
AllCompleted(status) == \A s \in Slices : status[s] = "completed"

CompletionFails(w, status) ==
  AllCompleted(status) /\ state[w] \notin {"executing", "verifying"}

CompletedIn(w, status) ==
  /\ slice' = [slice EXCEPT ![w] = status]
  /\ state' = [state EXCEPT ![w] =
                 IF AllCompleted(status) THEN "verifying" ELSE state[w]]

-----------------------------------------------------------------------------
(* Taking up a slice.                                                      *)

Enter(e) ==
  LET w == RunsFor[e] IN
  /\ exec[e] = Off /\ fence[w] = Nobody
  /\ state[w] \in {"ready", "executing"}
  /\ fence' = [fence EXCEPT ![w] = e]
  /\ Knows(e, [pc |-> "entered"])
  /\ UNCHANGED <<tables, lease, lock, tree>>

\* Mutant: a slice whose worker still runs is adopted too.
AdoptableWhileLive(w) ==
  {s \in Slices : slice[w][s] = "active" /\ op[w][s].status # "none"}

\* adoptCompletedMutationSlices: active slices whose mutation completed and
\* whose attempt is retired.
Adoptable(w) ==
  {s \in Slices : /\ slice[w][s] = "active"
                  /\ op[w][s].status = "completed" /\ ~attempt[w][s].live}

\* ReconcileCompletedExecution.
Reconcile(e) ==
  LET w == RunsFor[e]
      status == [s \in Slices |->
                   IF s \in Adoptable(w) THEN "completed" ELSE slice[w][s]] IN
  /\ exec[e].pc = "entered"
  /\ IF CompletionFails(w, status)
     THEN Ends(e) /\ UNCHANGED <<state, slice>>
     ELSE /\ CompletedIn(w, status)
          /\ Goes(e, "looping")
          /\ UNCHANGED <<fence, lock>>
  /\ UNCHANGED <<attempt, op, lease, tree>>

\* An attempt that is live in the table is inherited, whoever made it.
Inherit(e) ==
  LET w == RunsFor[e] IN
  /\ exec[e].pc = "looping"
  /\ \E s \in LiveAttempts(w) :
       Knows(e, [pc |-> "inherited", slice |-> s, token |-> attempt[w][s].token,
                 basis |-> attempt[w][s].basis])
  /\ UNCHANGED <<tables, guards, tree>>

Choose(e) ==
  LET w == RunsFor[e] IN
  /\ exec[e].pc = "looping" /\ LiveAttempts(w) = {}
  /\ \E s \in Slices :
       IsNext(w, s) /\ Knows(e, [pc |-> "waiting", slice |-> s])
  /\ UNCHANGED <<tables, guards, tree>>

\* Nothing is left to schedule: the run goes on to verification, or stops.
Finish(e) ==
  /\ exec[e].pc = "looping"
  /\ LiveAttempts(RunsFor[e]) = {} /\ ReadySlices(RunsFor[e]) = {}
  /\ Ends(e)
  /\ UNCHANGED <<tables, lease, tree>>

\* waitForWorkflowLease, then the candidate is frozen as the attempt's basis.
TakeLease(e) ==
  /\ exec[e].pc = "waiting" /\ lease = NoToken
  /\ lease' = <<e, exec[e].slice>>
  /\ Knows(e, [pc |-> "leased", slice |-> exec[e].slice,
               token |-> <<e, exec[e].slice>>])
  /\ UNCHANGED <<tables, fence, lock, tree>>

FreezeBasis(e) ==
  /\ exec[e].pc = "leased"
  /\ Knows(e, [pc |-> "frozen", slice |-> exec[e].slice, token |-> exec[e].token,
               basis |-> tree])
  /\ UNCHANGED <<tables, guards, tree>>

\* Scheduler.Start: ActivateExecutionSlice and beginExecutionIfReady.
Activate(e) ==
  LET w == RunsFor[e]
      s == exec[e].slice IN
  /\ exec[e].pc = "frozen"
  /\ IsNext(w, s) /\ state[w] \in {"ready", "executing"}
  /\ slice' = [slice EXCEPT ![w][s] = "active"]
  /\ attempt' = [attempt EXCEPT ![w][s] =
       [live |-> TRUE, token |-> exec[e].token, basis |-> exec[e].basis]]
  /\ state' = [state EXCEPT ![w] = "executing"]
  /\ Goes(e, "activated")
  /\ UNCHANGED <<op, guards, tree>>

\* Releases the lease, if it still is the executor's own.
Unleased(e) == IF lease = exec[e].token THEN NoToken ELSE lease

\* Any call may fail and end the run: the agent's, git's, the database's, or
\* Start because the slice is not ready or the workflow was stopped.  Only a
\* lease that has no attempt yet is given back.
Fail(e) ==
  /\ Running(e)
  /\ lease' = IF exec[e].pc \in {"leased", "frozen"} THEN Unleased(e) ELSE lease
  /\ Ends(e)
  /\ UNCHANGED <<tables, tree>>

\* The lease of the attempt is extended, taken again or waited for.
Claim(e) ==
  /\ exec[e].pc \in {"activated", "inherited"}
  /\ lease \in {NoToken, exec[e].token}
  /\ lease' = exec[e].token
  /\ Goes(e, IF exec[e].pc = "inherited" THEN "claimed" ELSE "dispatching")
  /\ UNCHANGED <<tables, fence, lock, tree>>

-----------------------------------------------------------------------------
(* An inherited attempt: Scheduler.ResumeAttempt and Broker.Recover.  They *)
(* look at the worktree without its file lock.                             *)

ValidateToResume(e) ==
  /\ exec[e].pc = "claimed"
  /\ Requires(e, fence[RunsFor[e]] = e, "resuming")
  /\ UNCHANGED <<tables, lease, tree>>

\* Without a recorded intent the attempt is dispatched again.
ReadOperation(e) ==
  LET o == op[RunsFor[e]][exec[e].slice] IN
  /\ exec[e].pc = "resuming"
  /\ IF o = NoOperation THEN Goes(e, "dispatching")
     ELSE Knows(e, [pc |-> "recovering", slice |-> exec[e].slice,
                    token |-> exec[e].token, basis |-> exec[e].basis, op |-> o])
  /\ UNCHANGED <<tables, guards, tree>>

RecoverOutcome(o) ==
  IF o.post # NoTree /\ tree = o.post THEN "post"
  ELSE IF tree = o.pre THEN "pre" ELSE "unknown"

\* What e still knows of its attempt, without the operation it read.
Attempted(e, pc) == [pc |-> pc, slice |-> exec[e].slice, token |-> exec[e].token,
                     basis |-> exec[e].basis]

Recovers(e, outcome) ==
  exec[e].pc = "recovering" /\ RecoverOutcome(exec[e].op) = outcome

RecoverPost(e) ==
  /\ Recovers(e, "post")
  /\ Knows(e, Attempted(e, "adopting"))
  /\ UNCHANGED <<tables, guards, tree>>

RecoverPre(e) ==
  /\ Recovers(e, "pre")
  /\ Knows(e, Attempted(e, "dispatching"))
  /\ UNCHANGED <<tables, guards, tree>>

RecoverUnknown(e) ==
  LET w == RunsFor[e] IN
  /\ Recovers(e, "unknown")
  /\ state' = [state EXCEPT ![w] =
                 IF state[w] = "executing" THEN "integration_conflict"
                 ELSE state[w]]
  /\ Ends(e)
  /\ UNCHANGED <<slice, attempt, op, lease, tree>>

\* AdoptAppliedMutation.
Adopt(e) ==
  LET w == RunsFor[e]
      s == exec[e].slice
      status == [slice[w] EXCEPT ![s] = "completed"] IN
  /\ exec[e].pc = "adopting"
  /\ IF \/ op[w][s].status \notin {"mutated", "completed"}
        \/ slice[w][s] # "active" \/ CompletionFails(w, status)
     THEN Ends(e) /\ UNCHANGED tables
     ELSE /\ op' = [op EXCEPT ![w][s].status = "completed"]
          /\ attempt' = [attempt EXCEPT ![w][s].live = FALSE]
          /\ CompletedIn(w, status)
          /\ Goes(e, "releasing")
          /\ UNCHANGED <<fence, lock>>
  /\ UNCHANGED <<lease, tree>>

-----------------------------------------------------------------------------
(* The agent and the broker: OpenCodeAdapter.Run, Broker.Apply.            *)

\* The agent starts on the attempt's basis.
Dispatch(e) ==
  /\ exec[e].pc = "dispatching"
  /\ Requires(e, tree = exec[e].basis, "running")
  /\ UNCHANGED <<tables, lease, tree>>

\* It answers; the worktree must not have changed under it.
Answer(e) ==
  /\ exec[e].pc = "running"
  /\ Requires(e, tree = exec[e].basis, "answered")
  /\ UNCHANGED <<tables, lease, tree>>

ValidateToApply(e) ==
  /\ exec[e].pc = "answered"
  /\ Requires(e, fence[RunsFor[e]] = e, "validated")
  /\ UNCHANGED <<tables, lease, tree>>

\* The attempt is live, and the result was made for it.
ResultIsCurrent(e) ==
  LET a == attempt[RunsFor[e]][exec[e].slice] IN
  a.live /\ a.token = exec[e].token /\ a.basis = exec[e].basis

CheckResult(e) ==
  /\ exec[e].pc = "validated"
  /\ Requires(e, ResultIsCurrent(e), "current")
  /\ UNCHANGED <<tables, lease, tree>>

CheckLease(e) ==
  /\ exec[e].pc = "current"
  /\ Requires(e, lease = exec[e].token, "checked")
  /\ UNCHANGED <<tables, lease, tree>>

\* Mutant: the lock is shared.
LockShared(e) ==
  /\ exec[e].pc = "checked"
  /\ lock' = e /\ Goes(e, "locked")
  /\ UNCHANGED <<tables, fence, lease, tree>>

\* AcquireWorktreeLock does not wait.
Lock(e) ==
  /\ exec[e].pc = "checked"
  /\ IF lock = Nobody
     THEN lock' = e /\ Goes(e, "locked") /\ UNCHANGED fence
     ELSE Ends(e)
  /\ UNCHANGED <<tables, lease, tree>>

BasisIsCurrent(e) == tree = exec[e].basis

FreezeLocked(e) ==
  /\ exec[e].pc = "locked"
  /\ Requires(e, BasisIsCurrent(e), "matched")
  /\ UNCHANGED <<tables, lease, tree>>

\* INSERT OR IGNORE of the intent.
Intend(e) ==
  LET w == RunsFor[e]
      s == exec[e].slice IN
  /\ exec[e].pc = "matched"
  /\ op' = [op EXCEPT ![w][s] =
              IF op[w][s] = NoOperation
              THEN [status |-> "intended", pre |-> exec[e].basis, post |-> NoTree]
              ELSE op[w][s]]
  /\ Goes(e, "patching")
  /\ UNCHANGED <<state, slice, attempt, guards, tree>>

\* The files of e's patch that are not written yet, and the next of them.
Unpatched(e) ==
  {i \in {1, 2} : [file |-> <<RunsFor[e], exec[e].slice, i>>, by |-> e] \notin tree}

Write(file, author) ==
  {x \in tree : x.file # file} \cup {[file |-> file, by |-> author]}

\* applyPatch writes its files one by one, in order.
Patch(e) ==
  /\ exec[e].pc = "patching" /\ Unpatched(e) # {}
  /\ LET i == CHOOSE j \in Unpatched(e) : \A k \in Unpatched(e) : j <= k IN
     tree' = Write(<<RunsFor[e], exec[e].slice, i>>, e)
  /\ UNCHANGED <<tables, guards, exec>>

\* The tree the patch left is recorded.
Record(e) ==
  LET w == RunsFor[e]
      s == exec[e].slice IN
  /\ exec[e].pc = "patching" /\ Unpatched(e) = {}
  /\ op' = [op EXCEPT ![w][s] =
              IF @.status = "intended"
              THEN [status |-> "mutated", pre |-> @.pre, post |-> tree] ELSE @]
  /\ Goes(e, "recorded")
  /\ UNCHANGED <<state, slice, attempt, guards, tree>>

\* The mutation is completed, its attempt retired, and the file lock given back.
Commit(e) ==
  LET w == RunsFor[e]
      s == exec[e].slice IN
  /\ exec[e].pc = "recorded"
  /\ op' = [op EXCEPT ![w][s].status = IF @ = "mutated" THEN "completed" ELSE @]
  /\ attempt' = [attempt EXCEPT ![w][s].live = FALSE]
  /\ lock' = Nobody
  /\ Goes(e, "applied")
  /\ UNCHANGED <<state, slice, fence, lease, tree>>

\* CompleteExecutionSlice.
Complete(e) ==
  LET w == RunsFor[e]
      s == exec[e].slice
      status == [slice[w] EXCEPT ![s] = "completed"] IN
  /\ exec[e].pc = "applied"
  /\ IF slice[w][s] # "active" \/ CompletionFails(w, status)
     THEN Ends(e) /\ UNCHANGED <<state, slice>>
     ELSE /\ CompletedIn(w, status)
          /\ Goes(e, "releasing")
          /\ UNCHANGED <<fence, lock>>
  /\ UNCHANGED <<attempt, op, lease, tree>>

Release(e) ==
  /\ exec[e].pc = "releasing"
  /\ lease' = Unleased(e)
  /\ Knows(e, [pc |-> "looping"])
  /\ UNCHANGED <<tables, fence, lock, tree>>

-----------------------------------------------------------------------------
(* The user.                                                               *)

Abort(w) ==
  /\ Aborts /\ state[w] \notin Terminal
  /\ state' = [state EXCEPT ![w] = "aborted"]
  /\ UNCHANGED <<slice, attempt, op, guards, tree, exec>>

\* cleanupAbortedWorkflow deletes the lease of every worktree the workflow had
\* an attempt in, whoever holds it by now.
CleanUp(w) ==
  /\ state[w] = "aborted"
  /\ \E s \in Slices : attempt[w][s] # NoAttempt
  /\ attempt' = [attempt EXCEPT ![w] =
       [s \in Slices |-> [attempt[w][s] EXCEPT !.live = FALSE]]]
  /\ lease' = NoToken
  /\ UNCHANGED <<state, slice, op, fence, lock, tree, exec>>

Edit ==
  /\ Edits /\ \A x \in tree : x.file # UserFile
  /\ tree' = Write(UserFile, Nobody)
  /\ UNCHANGED <<tables, guards, exec>>

-----------------------------------------------------------------------------
Step(e) ==
  \/ Enter(e) \/ Reconcile(e) \/ Inherit(e) \/ Choose(e) \/ Finish(e)
  \/ TakeLease(e) \/ FreezeBasis(e) \/ Activate(e) \/ Claim(e)
  \/ ValidateToResume(e) \/ ReadOperation(e) \/ Adopt(e)
  \/ RecoverPost(e) \/ RecoverPre(e) \/ RecoverUnknown(e)
  \/ Dispatch(e) \/ Answer(e) \/ ValidateToApply(e) \/ CheckResult(e) \/ CheckLease(e)
  \/ Lock(e) \/ FreezeLocked(e) \/ Intend(e) \/ Patch(e) \/ Record(e)
  \/ Commit(e) \/ Complete(e) \/ Release(e)

Next ==
  \/ \E e \in Executors : Step(e) \/ Fail(e) \/ Crash(e) \/ FenceReclaim(e)
  \/ \E w \in Workflows : FenceLapse(w) \/ Abort(w) \/ CleanUp(w)
  \/ LeaseLapse \/ Edit

Spec == Init /\ [][Next]_vars

-----------------------------------------------------------------------------
TypeOK ==
  /\ state \in [Workflows -> States]
  /\ slice \in [Workflows -> [Slices -> {"pending", "active", "completed"}]]
  /\ \A w \in Workflows, s \in Slices :
       /\ attempt[w][s].live \in BOOLEAN
       /\ attempt[w][s].token \in Tokens \cup {NoToken}
       /\ attempt[w][s].basis \subseteq Written
       /\ op[w][s].status \in {"none", "intended", "mutated", "completed"}
       /\ op[w][s].pre \subseteq Written \/ op[w][s].pre = NoTree
       /\ IF op[w][s].status \in {"mutated", "completed"}
          THEN op[w][s].post \subseteq Written ELSE op[w][s].post = NoTree
  /\ fence \in [Workflows -> Executors \cup {Nobody}]
  /\ lease \in Tokens \cup {NoToken}
  /\ lock \in Executors \cup {Nobody}
  /\ tree \subseteq Written
  /\ \A e \in Executors :
       "basis" \in DOMAIN exec[e] => exec[e].basis \subseteq Written

\* The patch of slice s of w, as executor e wrote it.
PatchOf(w, s, e) == {[file |-> <<w, s, i>>, by |-> e] : i \in {1, 2}}

WholeIn(t, w, s) == \E e \in Executors : PatchOf(w, s, e) \subseteq t

\* A completed slice's patch is in the worktree, all of it and by one author: no
\* crash, adoption or displaced executor completes a torn or a missing patch,
\* and a workflow that goes on to verification has all of its patches.
CompletedIsWhole ==
  \A w \in Workflows :
    /\ \A s \in Slices :
         /\ slice[w][s] = "completed" => op[w][s].status = "completed"
         /\ op[w][s].status \in {"mutated", "completed"} =>
              WholeIn(op[w][s].post, w, s) /\ WholeIn(tree, w, s)
    /\ state[w] = "verifying" => \A s \in Slices : slice[w][s] = "completed"

\* A patch is written on the tree its agent saw, whatever happened between the
\* dispatch and the lock; only the user's own file may have changed since.
PatchedOnBasis ==
  \A e \in Executors :
    exec[e].pc = "patching" =>
      \A x \in tree : \/ x \in exec[e].basis
                      \/ x.file \in {UserFile} \cup
                           {<<RunsFor[e], exec[e].slice, i>> : i \in {1, 2}}

\* The table holds at most one live attempt of a workflow, and it is of the
\* active slice: the query that inherits an attempt takes any live one.
OneLiveAttempt ==
  \A w \in Workflows :
    /\ Cardinality(LiveAttempts(w)) <= 1
    /\ \A s \in LiveAttempts(w) : slice[w][s] = "active"

\* What the tables keep of types, patches and attempts.
SlicesKept == TypeOK /\ CompletedIsWhole /\ OneLiveAttempt

\* The executors, for all their crashes and displacements, keep the promise of
\* SlicePatches: no patch counts before it is whole, and none lands twice, beside
\* another one of its workflow, or before what it depends on is complete.
Promise ==
  INSTANCE SlicePatches WITH
    landed <- {x \in Workflows \X Slices : WholeIn(tree, x[1], x[2])},
    done <- {x \in Workflows \X Slices : slice[x[1]][x[2]] = "completed"}

KeepsPromise == Promise!Spec
=============================================================================
