----------------------------- MODULE WorkflowJobs -----------------------------
(***************************************************************************)
(* One workflow executed by detached "run" jobs and by foreground          *)
(* commands (internal/workflow/jobs.go, cmd/skynex/workflow_detach.go,     *)
(* cmd/skynex/workflow_run.go).  Every process works on the same database  *)
(* through short transactions, and any process may die between two:        *)
(*   - a launcher ("run --detach") admits a job, starts its worker process *)
(*     and records the worker's pid;                                       *)
(*   - a worker starts its job, executes the workflow and finishes the job;*)
(*   - a foreground command executes the workflow without a job;           *)
(*   - any "status", "inspect" or launcher retires jobs that look dead;    *)
(*   - an "abort" ends the workflow and cancels its jobs.                  *)
(* The execution fence is the lease that lets one executor at a time work; *)
(* it has no clock here and may lapse under any holder.                    *)
(***************************************************************************)
EXTENDS WorkflowLedger, FiniteSets

CONSTANTS
  Launchers,     \* processes that run "run --detach"
  Foreground,    \* processes that run "run"
  None,          \* no executor
  MaxJobs,       \* bound: jobs ever admitted
  MaxAttempts,   \* MaxWorkflowJobAttempts
  MaxAborts      \* bound: 0 leaves the kill switch out, 1 lets it be used

ASSUME JobsAssumption ==
  /\ MaxJobs \in Nat \ {0}
  /\ MaxAttempts \in Nat \ {0}
  /\ MaxAborts \in {0, 1}

JobIds == 1..MaxJobs
Executors == JobIds \cup Foreground

\* A lease names its holder: a job is no foreground run, and "nobody" is none.
ASSUME HoldersAreDistinct ==
  Foreground \cap JobIds = {} /\ None \notin Executors

VARIABLES
  ledger,    \* the workflow's row, events and idempotency records
  jobs,      \* workflow_jobs in rowid order: job j is jobs[j]
  notes,     \* workflow_notifications
  fence,     \* the executor named by the unexpired fence lease, or None
  proc,      \* proc[j]: job j's worker process
  exec,      \* exec[e]: what executor e is doing, or how its execution ended
  patch,     \* the slice's attempt: open, its patch applied, or revoked
  seen,      \* seen[e]: the row executor e verifies
  launch,    \* launch[l]: a launcher's progress, its row and its job
  suspects,  \* jobs some process found stale and is about to retire
  cancelling \* jobs an abort has marked, and whether it will signal them

vars == <<ledger, jobs, notes, fence, proc, exec, patch, seen, launch,
          suspects, cancelling>>

database == <<ledger, jobs, notes, patch>>
running == <<proc, exec, seen>>
pending == <<launch, suspects, cancelling>>

LiveStates == {"queued", "running", "cancel_requested"}
EndStates == {"succeeded", "failed", "cancelled"}
Runnable == {"ready", "executing", "verifying"}

\* An executor asks for the fence, holds it, has just validated it, verifies.
Holding == {"fenced", "dispatched", "validated", "applied", "verifying"}
Working == {"asked"} \cup Holding

\* How workflowRunContext returns: without error, with one, or displaced.  A
\* worker that then finds the workflow aborted is "stopped".
Returned == {"passed", "erred", "displaced"}

JobType == [state : LiveStates \cup EndStates, pid : BOOLEAN, fresh : BOOLEAN,
            displaced : BOOLEAN, terminal : States \cup {NoState}]

EventKey == {"start", "job_failed", "technical_retry", "execution", "frozen",
             "failed", "drift", "abort"} \X Nat

ArtifactSet == {{}} \cup {{<<"job_blocker", j>>} : j \in JobIds}

\* A workflow that "start" has just made ready.
ReadyLedger ==
  LET discovering == Request("created", 0, "discovering", <<"start", 0>>, {},
                             NoState)
      ready == Request("discovering", 1, "ready", <<"start", 1>>, {}, NoState)
  IN AfterTransition(AfterTransition(NewLedger, discovering), ready)

NoRow == Row(NewLedger)

IdleLauncher == [pc |-> "idle", row |-> NoRow, job |-> 0]

Init ==
  /\ ledger = ReadyLedger
  /\ jobs = <<>>
  /\ notes = {}
  /\ fence = None
  /\ proc = [j \in JobIds |-> "none"]
  /\ exec = [e \in Executors |-> "off"]
  /\ patch = "open"
  /\ seen = [e \in Executors |-> NoRow]
  /\ launch = [l \in Launchers |-> IdleLauncher]
  /\ suspects = {}
  /\ cancelling = {}

-----------------------------------------------------------------------------
(* The job table.                                                          *)

Admitted == 1..Len(jobs)
IsLive(j) == j \in Admitted /\ jobs[j].state \in LiveStates
Alive(j) == proc[j] \in {"spawned", "working", "finishing"}

\* Mutant: a queued job never goes stale.
IsStaleUnlessQueued(j) ==
  IsLive(j) /\ jobs[j].state # "queued" /\
    (~jobs[j].fresh \/ ~(jobs[j].pid /\ Alive(j)))

\* admittedWorkflowJobs: a queue record goes stale with its age, a started job
\* with its heartbeat or its process.
IsStale(j) ==
  /\ IsLive(j)
  /\ \/ ~jobs[j].fresh
     \/ jobs[j].state # "queued" /\ ~(jobs[j].pid /\ Alive(j))

\* LiveWorkflowJob: a healthy admitted job exists.
HasHealthyJob == \E j \in Admitted : IsLive(j) /\ ~IsStale(j)

\* Attempts counted against the limit: all but displaced cancellations.
Attempts ==
  Cardinality({j \in Admitted :
                 ~(jobs[j].state = "cancelled" /\ jobs[j].displaced)})

\* Mutants: a cancelled job blocks too; a terminal workflow is blocked.
LedgerAfterFinishDisplaced(j, outcome) ==
  IF outcome # "succeeded" /\ ledger.state \in Blockable
  THEN Advance(ledger, "blocked", ledger.state, <<"job_failed", j>>,
               {<<"job_blocker", j>>})
  ELSE ledger

LedgerAfterFinishTerminal(j, outcome) ==
  IF outcome = "failed" /\ ledger.state # "blocked"
  THEN Advance(ledger, "blocked", ledger.state, <<"job_failed", j>>,
               {<<"job_blocker", j>>})
  ELSE ledger

\* The ledger FinishWorkflowJob leaves: a failure blocks a blockable workflow
\* where it stands.  The event is written without an idempotency record.
LedgerAfterFinish(j, outcome) ==
  IF outcome = "failed" /\ ledger.state \in Blockable
  THEN Advance(ledger, "blocked", ledger.state, <<"job_failed", j>>,
               {<<"job_blocker", j>>})
  ELSE ledger

\* The record of a job that has ended.
Finished(job, outcome, displaced, terminal) ==
  [state |-> outcome, pid |-> job.pid, fresh |-> TRUE,
   displaced |-> displaced, terminal |-> terminal]

\* The job, the row and the outbox as one transaction leaves them.
RecordFinish(j, outcome, displaced, terminal) ==
  /\ ledger' = LedgerAfterFinish(j, outcome)
  /\ jobs' = [jobs EXCEPT
               ![j] = Finished(jobs[j], outcome, displaced, terminal)]
  /\ notes' = IF \E n \in notes : n.job = j THEN notes
              ELSE notes \cup {[job |-> j, terminal |-> terminal]}

\* Mutant: the state read before the block is announced.
FinishJobEarlyState(j, outcome, displaced) ==
  IF jobs[j].state \in EndStates
  THEN UNCHANGED <<ledger, jobs, notes>>
  ELSE RecordFinish(j, outcome, displaced, ledger.state)

\* FinishWorkflowJob.  A finished job keeps its outcome, whoever else tries to
\* finish it.
FinishJob(j, outcome, displaced) ==
  IF jobs[j].state \in EndStates
  THEN UNCHANGED <<ledger, jobs, notes>>
  ELSE RecordFinish(j, outcome, displaced, LedgerAfterFinish(j, outcome).state)

-----------------------------------------------------------------------------
(* Time and death.  A heartbeat, a queue record or the fence may age past its *)
(* limit under any holder: the beats are best effort, a process may stall.    *)

\* Thirty seconds pass without a heartbeat (queued: since the record was made).
Lapse(j) ==
  /\ IsLive(j) /\ jobs[j].fresh
  /\ jobs' = [jobs EXCEPT ![j].fresh = FALSE]
  /\ UNCHANGED <<ledger, notes, patch, fence, running, pending>>

\* HeartbeatWorkflowJob: the worker's ticker.
Beat(j) ==
  /\ proc[j] \in {"working", "finishing"}
  /\ jobs[j].state \in {"running", "cancel_requested"} /\ ~jobs[j].fresh
  /\ jobs' = [jobs EXCEPT ![j].fresh = TRUE]
  /\ UNCHANGED <<ledger, notes, patch, fence, running, pending>>

\* The fence lease expires under its holder, dead or merely late.
FenceLapse ==
  /\ fence # None
  /\ fence' = None
  /\ UNCHANGED <<database, running, pending>>

\* The fence's own ticker takes it back while it is genuinely free.
FenceReclaim(e) ==
  /\ exec[e] \in Holding /\ fence = None
  /\ fence' = e
  /\ UNCHANGED <<database, running, pending>>

\* Job j's worker ends here and now, its fence still held.
Killed(j) ==
  /\ proc' = [proc EXCEPT ![j] = IF Alive(j) THEN "dead" ELSE proc[j]]
  /\ exec' = [exec EXCEPT ![j] = IF Alive(j) THEN "off" ELSE exec[j]]
  /\ seen' = [seen EXCEPT ![j] = IF Alive(j) THEN NoRow ELSE seen[j]]

WorkerCrash(j) ==
  /\ Alive(j)
  /\ Killed(j)
  /\ UNCHANGED <<database, fence, pending>>

ForegroundCrash(f) ==
  /\ exec[f] # "off"
  /\ exec' = [exec EXCEPT ![f] = "off"]
  /\ seen' = [seen EXCEPT ![f] = NoRow]
  /\ UNCHANGED <<database, fence, proc, pending>>

-----------------------------------------------------------------------------
(* ReconcileStaleWorkflowJobs, run by "status", "inspect" and launchers: the  *)
(* jobs are read first and finished one by one later, alive again or not.     *)

Observe(j) ==
  /\ IsStale(j) /\ j \notin suspects
  /\ suspects' = suspects \cup {j}
  /\ UNCHANGED <<database, fence, running, launch, cancelling>>

Retire(j) ==
  /\ j \in suspects
  /\ FinishJob(j, "failed", FALSE)
  /\ suspects' = suspects \ {j}
  /\ UNCHANGED <<patch, fence, running, launch, cancelling>>

-----------------------------------------------------------------------------
(* The launcher: workflowRunDetached and workflowQueueDetached.               *)

\* Launcher l goes on to pc, keeping a row and a job.
LauncherAt(l, pc, row, job) ==
  launch' = [launch EXCEPT ![l] = [pc |-> pc, row |-> row, job |-> job]]

\* Dead jobs are retired, the fence is free, the state admits a run.
LaunchCheck(l) ==
  /\ launch[l].pc = "idle"
  /\ \A j \in JobIds : ~IsStale(j)
  /\ fence = None
  /\ ledger.state \in Runnable \cup {"blocked"}
  /\ LauncherAt(l, "checked", NoRow, 0)
  /\ UNCHANGED <<database, fence, running, suspects, cancelling>>

\* After the preflight the row is read again.  A blocked workflow needs a retry,
\* any other is queued for, whatever state it is in by now.
QueueRead(l) ==
  /\ launch[l].pc = "checked"
  /\ \A j \in JobIds : ~IsStale(j)
  /\ IF ledger.state = "blocked"
     THEN LauncherAt(l, "retrying", Row(ledger), 0)
     ELSE LauncherAt(l, "creating", NoRow, 0)
  /\ UNCHANGED <<database, fence, running, suspects, cancelling>>

\* The artifacts of the last event that blocked the workflow.
LastBlocker ==
  LET blockers ==
        {i \in 1..Len(ledger.events) : ledger.events[i].to = "blocked"}
  IN IF blockers = {} THEN {}
     ELSE ledger.events[CHOOSE i \in blockers :
                          \A k \in blockers : k <= i].artifacts

\* RetryTechnicalWorkflowJob's admission: the latest job failed, attempts are
\* left, and the last blocker is that job's.
RetryAdmits ==
  /\ jobs # <<>> /\ jobs[Len(jobs)].state = "failed"
  /\ Attempts < MaxAttempts
  /\ <<"job_blocker", Len(jobs)>> \in LastBlocker

RetryCheck(l) ==
  /\ launch[l].pc = "retrying"
  /\ RetryAdmits
  /\ LauncherAt(l, "admitted", launch[l].row, Len(jobs))
  /\ UNCHANGED <<database, fence, running, suspects, cancelling>>

\* The retry leaves the blocker for the state it struck in.  A launcher that
\* lost the race is answered with the winner's transition and goes on too.
RetryCommit(l) ==
  LET row == launch[l].row
      req == Request("blocked", row.version, row.resume,
                     <<"technical_retry", launch[l].job>>, {}, NoState) IN
  /\ launch[l].pc = "admitted"
  /\ TransitionError(ledger, req) = "none"
  /\ ledger' = AfterTransition(ledger, req)
  /\ LauncherAt(l, "creating", NoRow, 0)
  /\ UNCHANGED <<jobs, notes, patch, fence, running, suspects, cancelling>>

NewJob == [state |-> "queued", pid |-> FALSE, fresh |-> TRUE,
           displaced |-> FALSE, terminal |-> NoState]

\* CreateWorkflowJobOperation; one_live_workflow_job admits one live job.
Create(l) ==
  /\ launch[l].pc = "creating"
  /\ \A j \in JobIds : ~IsLive(j)
  /\ Len(jobs) < MaxJobs
  /\ jobs' = Append(jobs, NewJob)
  /\ LauncherAt(l, "created", NoRow, Len(jobs'))
  /\ UNCHANGED <<ledger, notes, patch, fence, running, suspects, cancelling>>

Spawn(l) ==
  /\ launch[l].pc = "created"
  /\ proc' = [proc EXCEPT ![launch[l].job] = "spawned"]
  /\ LauncherAt(l, "spawned", NoRow, launch[l].job)
  /\ UNCHANGED <<database, fence, exec, seen, suspects, cancelling>>

\* The session cannot be bound or the process cannot be started.
SpawnFails(l) ==
  /\ launch[l].pc = "created"
  /\ FinishJob(launch[l].job, "failed", FALSE)
  /\ LauncherAt(l, "idle", NoRow, 0)
  /\ UNCHANGED <<patch, fence, running, suspects, cancelling>>

\* SetWorkflowJobPID: the worker may already have started, or even ended.
PIDIsSet(j) ==
  \/ jobs[j].state \in {"queued", "running"}
  \/ jobs[j].state \in EndStates /\ jobs[j].pid

SetPID(l) ==
  LET j == launch[l].job IN
  /\ launch[l].pc = "spawned" /\ PIDIsSet(j)
  /\ jobs' = [jobs EXCEPT ![j].pid = TRUE]
  /\ LauncherAt(l, "idle", NoRow, 0)
  /\ UNCHANGED <<ledger, notes, patch, fence, running, suspects, cancelling>>

\* The job was cancelled or retired meanwhile: its worker is stopped.
SetPIDFails(l) ==
  LET j == launch[l].job IN
  /\ launch[l].pc = "spawned" /\ ~PIDIsSet(j)
  /\ Killed(j)
  /\ FinishJob(j, "failed", FALSE)
  /\ LauncherAt(l, "idle", NoRow, 0)
  /\ UNCHANGED <<patch, fence, suspects, cancelling>>

\* The launcher is killed, or any of its steps is refused: its command ends.
LauncherEnds(l) ==
  /\ launch[l].pc # "idle"
  /\ LauncherAt(l, "idle", NoRow, 0)
  /\ UNCHANGED <<database, fence, running, suspects, cancelling>>

-----------------------------------------------------------------------------
(* Executors: workflowRunContext, in a worker or in the foreground.  The      *)
(* graph has one slice: pending while ready, active while executing.          *)

\* refuseWhileDetachedWorkerIsLive, then the execution proper.
ForegroundStart(f) ==
  /\ exec[f] = "off" /\ ~HasHealthyJob
  /\ exec' = [exec EXCEPT ![f] = "asked"]
  /\ UNCHANGED <<database, fence, proc, seen, pending>>

Enter(e, phase) ==
  /\ exec' = [exec EXCEPT ![e] = phase]
  /\ UNCHANGED <<jobs, notes, proc, pending>>

\* The run returns and its deferred Release gives back its own fence.
Return(e, outcome) ==
  /\ exec' = [exec EXCEPT ![e] = IF e \in Foreground THEN "off" ELSE outcome]
  /\ seen' = [seen EXCEPT ![e] = NoRow]
  /\ fence' = IF fence = e THEN None ELSE fence
  /\ UNCHANGED <<jobs, notes, proc, pending>>

AcquireFence(e) ==
  /\ exec[e] = "asked" /\ fence = None
  /\ fence' = e
  /\ Enter(e, "fenced")
  /\ UNCHANGED <<ledger, patch, seen>>

FenceRefused(e) ==
  /\ exec[e] = "asked" /\ fence # None
  /\ Return(e, "displaced")
  /\ UNCHANGED <<ledger, patch>>

\* ActivateExecutionSlice: the slice and the state in one transaction.
Begin(e) ==
  LET req == Request("ready", ledger.version, "executing", <<"execution", 1>>,
                     {}, NoState) IN
  /\ exec[e] = "fenced"
  /\ TransitionError(ledger, req) = "none"
  /\ ledger' = AfterTransition(ledger, req)
  /\ Enter(e, "dispatched")
  /\ UNCHANGED <<patch, fence, seen>>

\* An attempt left live by another executor is resumed under a validated fence.
Inherit(e) ==
  /\ exec[e] = "fenced" /\ ledger.state = "executing" /\ patch = "open"
  /\ fence = e
  /\ Enter(e, "dispatched")
  /\ UNCHANGED <<ledger, patch, fence, seen>>

\* The agent has answered; the fence is validated again before the patch.
Validate(e) ==
  /\ exec[e] = "dispatched" /\ fence = e
  /\ Enter(e, "validated")
  /\ UNCHANGED <<ledger, patch, fence, seen>>

FenceLost(e) ==
  /\ fence # e
  /\ \/ exec[e] = "dispatched"
     \/ exec[e] = "fenced" /\ ledger.state = "executing" /\ patch = "open"
  /\ Return(e, "displaced")
  /\ UNCHANGED <<ledger, patch>>

\* Broker.Apply commits the patch of an attempt that is still live; it does not
\* look at the workflow's state.  Its own steps are those of SliceExecution.
Apply(e) ==
  /\ exec[e] = "validated" /\ patch = "open"
  /\ patch' = "applied"
  /\ Enter(e, "applied")
  /\ UNCHANGED <<ledger, fence, seen>>

\* CompleteExecutionSlice after the patch, or ReconcileCompletedExecution by a
\* later executor when this one died between the two.  Both end in
\* completeExecutionIfReady, which writes the three tables itself.
Complete(e) ==
  LET req == Request("executing", ledger.version, "verifying",
                     <<"execution", 2>>, {}, NoState) IN
  /\ exec[e] = "applied" \/ (exec[e] = "fenced" /\ patch = "applied")
  /\ ledger.state = "executing"
  /\ ledger' = Remember(Advance(ledger, req.next, ledger.resume, req.key, {}),
                        req)
  /\ Enter(e, "fenced")
  /\ UNCHANGED <<patch, fence, seen>>

\* verification.Run reads the row its checks will be decided against.
ReadVerifying(e) ==
  /\ exec[e] = "fenced" /\ ledger.state = "verifying"
  /\ seen' = [seen EXCEPT ![e] = Row(ledger)]
  /\ Enter(e, "verifying")
  /\ UNCHANGED <<ledger, patch, fence>>

\* Verification decides on the row it read, without asking for the fence again.
\* Keys are scoped by its version; a drift is reported as an error.
Verify(e, kind) ==
  LET goal == IF kind = "frozen" THEN "candidate_frozen" ELSE "replan_required"
      req == Request("verifying", seen[e].version, goal,
                     <<kind, seen[e].version>>, {}, NoState) IN
  /\ exec[e] = "verifying"
  /\ TransitionError(ledger, req) = "none"
  /\ ledger' = AfterTransition(ledger, req)
  /\ Return(e, IF kind = "drift" THEN "erred" ELSE "passed")
  /\ UNCHANGED patch

\* Anything else fails: the runtime, a check that cannot run, a state in which
\* the run cannot proceed, a conflict with another writer.
Fail(e) ==
  /\ exec[e] \in Holding
  /\ Return(e, "erred")
  /\ UNCHANGED <<ledger, patch>>

Execute(e) ==
  \/ AcquireFence(e) \/ FenceRefused(e) \/ Begin(e) \/ Validate(e)
  \/ FenceLost(e) \/ Inherit(e) \/ Apply(e) \/ Complete(e) \/ ReadVerifying(e)
  \/ Fail(e)
  \/ \E kind \in {"frozen", "failed", "drift"} : Verify(e, kind)

-----------------------------------------------------------------------------
(* The worker around its executor: workflowWorker.                            *)

\* StartWorkflowJob: only a queued job starts, any other worker exits.
WorkerStart(j) ==
  /\ proc[j] = "spawned"
  /\ IF jobs[j].state = "queued"
     THEN /\ jobs' = [jobs EXCEPT ![j].state = "running", ![j].pid = TRUE,
                                  ![j].fresh = TRUE]
          /\ proc' = [proc EXCEPT ![j] = "working"]
          /\ exec' = [exec EXCEPT ![j] = "asked"]
     ELSE /\ proc' = [proc EXCEPT ![j] = "dead"]
          /\ UNCHANGED <<jobs, exec>>
  /\ UNCHANGED <<ledger, notes, patch, fence, seen, pending>>

\* After the run the worker reads the workflow's state, for its verdict.
WorkerRead(j) ==
  /\ proc[j] = "working" /\ exec[j] \in Returned
  /\ proc' = [proc EXCEPT ![j] = "finishing"]
  /\ exec' = [exec EXCEPT ![j] =
               IF ledger.state = "aborted" /\ exec[j] # "displaced"
               THEN "stopped" ELSE exec[j]]
  /\ UNCHANGED <<database, fence, seen, pending>>

\* Displacement is no failure of the work: it cancels the job.
Verdict == [passed |-> "succeeded", erred |-> "failed",
            displaced |-> "cancelled", stopped |-> "cancelled"]

WorkerFinish(j) ==
  /\ proc[j] = "finishing"
  /\ FinishJob(j, Verdict[exec[j]], exec[j] = "displaced")
  /\ proc' = [proc EXCEPT ![j] = "dead"]
  /\ exec' = [exec EXCEPT ![j] = "off"]
  /\ UNCHANGED <<patch, fence, seen, pending>>

-----------------------------------------------------------------------------
(* The kill switch: workflowAbort and cleanupAbortedWorkflow.                 *)

Abort ==
  /\ ledger.state \notin Terminal /\ MaxAborts = 1
  /\ ledger' = AfterTransition(ledger,
       Request(ledger.state, ledger.version, "aborted", <<"abort", 0>>, {},
               NoState))
  /\ UNCHANGED <<jobs, notes, patch, fence, running, pending>>

\* CancelWorkflowJobs, by the abort or by a repeated one.  A worker is signalled
\* only when its record is fresh enough for its pid to be its own.
CancelJobs ==
  /\ ledger.state = "aborted"
  /\ \E j \in Admitted : IsLive(j)
  /\ jobs' = [j \in Admitted |->
               IF IsLive(j) THEN [jobs[j] EXCEPT !.state = "cancel_requested"]
               ELSE jobs[j]]
  /\ cancelling' = cancelling \cup
       {[job |-> j, signal |-> jobs[j].pid /\ jobs[j].fresh] :
          j \in {k \in Admitted : IsLive(k)}}
  /\ UNCHANGED <<ledger, notes, patch, fence, running, launch, suspects>>

CancelFinish(c) ==
  /\ c \in cancelling
  /\ IF c.signal THEN Killed(c.job) ELSE UNCHANGED running
  /\ FinishJob(c.job, "cancelled", FALSE)
  /\ cancelling' = cancelling \ {c}
  /\ UNCHANGED <<patch, fence, launch, suspects>>

\* The abort ends by revoking the attempts that are still live.
RevokeAttempts ==
  /\ ledger.state = "aborted" /\ cancelling = {} /\ patch = "open"
  /\ patch' = "revoked"
  /\ UNCHANGED <<ledger, jobs, notes, fence, running, pending>>

-----------------------------------------------------------------------------
LauncherStep(l) ==
  \/ LaunchCheck(l) \/ QueueRead(l) \/ RetryCheck(l) \/ RetryCommit(l)
  \/ Create(l) \/ Spawn(l) \/ SpawnFails(l) \/ SetPID(l) \/ SetPIDFails(l)
  \/ LauncherEnds(l)

WorkerStep(j) ==
  WorkerStart(j) \/ Execute(j) \/ WorkerRead(j) \/ WorkerFinish(j)

Next ==
  \/ \E j \in JobIds : Lapse(j) \/ Beat(j) \/ WorkerCrash(j) \/ WorkerStep(j)
  \/ \E j \in JobIds : Observe(j) \/ Retire(j)
  \/ FenceLapse
  \/ \E e \in Executors : FenceReclaim(e)
  \/ \E f \in Foreground :
       ForegroundStart(f) \/ ForegroundCrash(f) \/ Execute(f)
  \/ \E l \in Launchers : LauncherStep(l)
  \/ Abort \/ CancelJobs \/ \E c \in cancelling : CancelFinish(c)
  \/ RevokeAttempts

Spec == Init /\ [][Next]_vars

\* What the operating system and the users provide: processes that live keep
\* taking steps, clocks advance past the heartbeat of a dead one, and somebody
\* keeps asking for the status.  A running executor ends by its own timeouts.
Fairness ==
  /\ \A l \in Launchers : WF_vars(LauncherStep(l))
  /\ \A j \in JobIds : /\ WF_vars(WorkerStep(j))
                        /\ WF_vars(Lapse(j) /\ ~Alive(j))
                        /\ WF_vars(Observe(j))
                        /\ WF_vars(Retire(j))

FairSpec == Spec /\ Fairness

-----------------------------------------------------------------------------
TypeOK ==
  /\ ledger \in LedgerType(EventKey, ArtifactSet)
  /\ jobs \in Seq(JobType) /\ Len(jobs) <= MaxJobs
  /\ notes \subseteq [job : JobIds, terminal : States]
  /\ fence \in Executors \cup {None}
  /\ proc \in [JobIds -> {"none", "spawned", "working", "finishing", "dead"}]
  /\ exec \in [Executors -> {"off", "stopped"} \cup Working \cup Returned]
  /\ patch \in {"open", "applied", "revoked"}
  /\ seen \in [Executors -> RowType]
  /\ launch \in [Launchers ->
       [pc : {"idle", "checked", "retrying", "admitted", "creating", "created",
              "spawned"}, row : RowType, job : {0} \cup JobIds]]
  /\ suspects \subseteq JobIds
  /\ cancelling \subseteq [job : JobIds, signal : BOOLEAN]

\* FinishWorkflowJob and completeExecutionIfReady write the row and the events
\* around Transition.  The audit trail still is a gap-free account of the row, a
\* key still names one event, and a blocker still keeps the stage it struck in.
LedgerKept ==
  /\ Chained(ledger) /\ KeysUnique(ledger) /\ IdemAgrees(ledger)
  /\ ResumeExact(ledger) /\ InOrder(ledger)

\* Every finished job, and no other, is announced once, with the state the
\* workflow had after the job's own blocker: nobody is told that a failed run
\* left the workflow where it can go on.
OutcomeAnnounced ==
  /\ \A m, n \in notes : m.job = n.job => m = n
  /\ \A j \in Admitted :
       IF jobs[j].state \in EndStates
       THEN /\ [job |-> j, terminal |-> jobs[j].terminal] \in notes
            /\ jobs[j].state = "failed" => jobs[j].terminal \notin Blockable
       ELSE \A n \in notes : n.job # j

\* What the jobs' writers keep of types, ledger and outbox.
JobsKept == TypeOK /\ LedgerKept /\ OutcomeAnnounced

\* A job blocks the workflow only when it failed.  Displaced and cancelled jobs
\* never do, whatever retires them (ExecutionDisplaced).
OnlyFailuresBlock ==
  \A i \in 1..Len(ledger.events) :
    LET e == ledger.events[i] IN
    e.key[1] = "job_failed" =>
      /\ jobs[e.key[2]].state = "failed"
      /\ e.artifacts = {<<"job_blocker", e.key[2]>>}

\* An aborted workflow stays aborted: no late worker, retirement or retry
\* revives or blocks it.
AbortIsFinal == [][ledger.state = "aborted" => ledger' = ledger]_vars

\* No job keeps the one live slot of its workflow: whoever dies, and whenever,
\* every job ends.
EveryJobEnds == \A j \in JobIds : IsLive(j) ~> ~IsLive(j)
=============================================================================
