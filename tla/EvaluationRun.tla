---------------------------- MODULE EvaluationRun ----------------------------
(***************************************************************************)
(* One evaluation sample: Engine.Run drives a private OpenCode runtime     *)
(* through a conversation (and, for a managed workflow, waits for the      *)
(* turns its plugin starts), records the global event stream beside it,    *)
(* reconciles the session tree pass after pass, stops the runtime and      *)
(* classifies the run.  The server, its plugin, the stream and the         *)
(* deadline move between any two of its steps.                             *)
(*                                                                         *)
(* Time is abstract: a timeout that is shorter than the run's deadline is  *)
(* a choice.  Everything that goes wrong without the run's deadline is a   *)
(* mishap, and a behaviour has at most MaxMishaps of them.                 *)
(***************************************************************************)
EXTENDS Naturals, Sequences, FiniteSets

CONSTANTS
    Children,        \* sessions an agent may delegate to
    Delegates,       \* those of the agent of each case
    Foreigners,      \* sessions somebody else may open on the server
    Modes,           \* the cases: "plain" or "managed" (managed-detach)
    AutonomousTurns, \* turns the managed driver waits for
    Answers,         \* answers each case holds for the agent's questions
    MaxJobs,         \* bound on the workflow jobs of a run
    StablePasses,    \* equal passes before a trace is accepted
    MaxPasses,       \* reconciliation passes
    MaxMishaps       \* bound on the mishaps of a behaviour

Root == "root"

ASSUME SessionsAreDistinct ==
    Root \notin Children \cup Foreigners /\ Children \cap Foreigners = {}
ASSUME CasesAreDescribed == /\ Delegates \in [Modes -> SUBSET Children]
                            /\ Answers \in [Modes -> Nat]
ASSUME BoundsAreNatural ==
    /\ {AutonomousTurns, MaxJobs, MaxMishaps} \subseteq Nat
    /\ {StablePasses, MaxPasses} \subseteq Nat \ {0}

VARIABLES
    run,      \* what Engine.Run holds in its locals
    server,   \* the OpenCode server: its sessions and its event log
    recorder, \* trace.Recorder and the stream it reads
    trace,    \* the collector's present pass
    flow,     \* the workflow of a managed case: jobs and notifications
    mishaps

runVars == <<run, server, recorder, trace, flow, mishaps>>

Sessions == {Root} \cup Children \cup Foreigners
Jobs == 1..MaxJobs

\* No run can complete more turns in one session: its own, one for each job
\* that finished, and one more for each notification that was released.
Turns(m) == 0..(1 + Answers[m] + MaxJobs + MaxMishaps)

Happens == mishaps < MaxMishaps /\ mishaps' = mishaps + 1
Fine == UNCHANGED mishaps

----------------------------------------------------------------------------
(* The collector's view *)

EmptyTrace == [mark |-> 0, statuses |-> {}, seen |-> {}, frontier |-> {},
               reading |-> {}, orphan |-> FALSE, failed |-> FALSE,
               late |-> FALSE]

Events(n) == {server.log[i] : i \in 1..n}

globalEventSessionIDs(e) == {e[2]}

childrenFromEvents(n) ==
    {e[2] : e \in {f \in Events(n) : f[1] = "created" /\ f[2] \in Children}}

\* A trace lists the sessions it read, with their messages.
TreeOf(t) == {m[1] : m \in t.seen}

\* The fence: no event of a session outside the tree, and no deletion.
validateGlobalSessionFence(n, tree) ==
    \E e \in Events(n) :
        globalEventSessionIDs(e) \cap tree = {} \/ e[1] = "deleted"

observedRootCreation(n) == <<"created", Root, 0>> \in Events(n)

\* An event names a message that the listing read after it does not have.
validateObservedEvents(t) ==
    \E e \in Events(t.mark), m \in t.seen :
        e[1] = "message" /\ e[2] = m[1] /\ e[3] > m[2]

containsMessageID(t, n) == \E m \in t.seen : m[1] = Root /\ n <= m[2]

StructurallyComplete(t) ==
    /\ ~t.failed /\ ~t.orphan /\ ~t.late
    /\ t.statuses \cap TreeOf(t) = {}
    /\ \A m \in t.seen : ~m[3]
    /\ ~validateObservedEvents(t)
    /\ ~validateGlobalSessionFence(t.mark, TreeOf(t))
    /\ run.anchored => containsMessageID(t, run.response)

traceFingerprint(t) ==
    <<t.mark, t.statuses \cap TreeOf(t), t.seen, t.orphan, t.failed>>

ValidateRootSessionAdmission(n) ==
    observedRootCreation(n) /\ ~validateGlobalSessionFence(n, {Root})

\* Mutant: events that arrive after the last pass are not looked at.
FinalizeLate(t, n) ==
    \/ validateGlobalSessionFence(t.mark, TreeOf(t))
    \/ ~observedRootCreation(n)

\* The fence over the whole recording, once the runtime has stopped.
FinalizeRunEvents(t, n) ==
    \/ validateGlobalSessionFence(n, TreeOf(t))
    \/ ~observedRootCreation(n)
    \/ \E i \in (t.mark + 1)..n :
           globalEventSessionIDs(server.log[i]) \cap TreeOf(t) # {}

----------------------------------------------------------------------------
(* The managed workflow *)

\* Mutant: a notification that is claimed but not acknowledged is ignored.
QuiescentClaimed ==
    /\ flow.state = "expected"
    /\ flow.live = {}
    /\ \A j \in Jobs : flow.notice[j] # "unacked"

TerminalQuiescent ==
    /\ flow.state = "expected"
    /\ flow.live = {}
    /\ \A j \in Jobs : flow.notice[j] \in {"absent", "acked"}

workflowAutonomousTurns == server.messages[Root] - run.response

----------------------------------------------------------------------------

Passing == {"pass", "statuses", "walk", "messages", "observe"}
Conversing == {"converse", "await", "initial", "drive", "terminal", "anchor"}
Ending == {"close", "reconcile", "stop", "judge"}

RunType(m) ==
    [pc : {"prepare", "start", "record", "ready", "create", "admit", "done"}
          \cup Conversing \cup Passing \cup Ending,
     mode : {m}, ctx : {"live", "canceled", "expired"},
     early : {"none", "invalid", "infra_error"},
     response : Turns(m), turn : 0..Answers[m], anchored : BOOLEAN,
     error : {"none", "contract", "other"}, model : BOOLEAN,
     accepted : BOOLEAN, latest : Turns(m), pass : 0..MaxPasses,
     stable : 0..MaxPasses,
     previous : {<<>>} \cup
         (Nat \X (SUBSET Sessions) \X (SUBSET (Sessions \X Turns(m) \X BOOLEAN))
          \X BOOLEAN \X BOOLEAN),
     closing : {"none", "ok", "credential", "failed"},
     attested : BOOLEAN, isolated : BOOLEAN,
     status : {"none", "pass", "fail", "invalid", "infra_error", "aborted",
               "budget_exhausted"}]

ServerType(m) ==
    [up : BOOLEAN, there : SUBSET Sessions, messages : [Sessions -> Turns(m)],
     busy : SUBSET Sessions,
     log : Seq({"created", "message", "deleted"} \X Sessions \X Turns(m))]

RecorderType ==
    [stream : {"none", "connected", "live", "broken", "ended"},
     delivered : Nat, stopping : BOOLEAN, err : BOOLEAN]

TraceType(m) ==
    [mark : Nat, statuses : SUBSET Sessions,
     seen : SUBSET (Sessions \X Turns(m) \X BOOLEAN),
     frontier : SUBSET Sessions, reading : SUBSET Sessions,
     orphan : BOOLEAN, failed : BOOLEAN, late : BOOLEAN]

FlowType ==
    [launched : 0..MaxJobs, live : SUBSET Jobs,
     notice : [Jobs -> {"absent", "unacked", "prompting", "acked"}],
     state : {"running", "expected", "other"}]

RunTypeOK ==
    /\ run.mode \in Modes
    /\ run \in RunType(run.mode)
    /\ server \in ServerType(run.mode)
    /\ recorder \in RecorderType /\ recorder.delivered <= Len(server.log)
    /\ trace \in TraceType(run.mode) /\ trace.mark <= recorder.delivered
    /\ flow \in FlowType
    /\ mishaps \in 0..MaxMishaps

RunInit ==
    /\ run \in [pc : {"prepare"}, mode : Modes, ctx : {"live"},
                early : {"none"}, response : {0}, turn : {0},
                anchored : {FALSE}, error : {"none"}, model : {FALSE},
                accepted : {FALSE}, latest : {0}, pass : {0},
                stable : {0}, previous : {<<>>}, closing : {"none"},
                attested : {TRUE}, isolated : {FALSE}, status : {"none"}]
    /\ server = [up |-> FALSE, there |-> {}, busy |-> {}, log |-> <<>>,
                 messages |-> [s \in Sessions |-> 0]]
    /\ recorder = [stream |-> "none", delivered |-> 0,
                   stopping |-> FALSE, err |-> FALSE]
    /\ trace = EmptyTrace
    /\ flow = [launched |-> 0, live |-> {}, state |-> "running",
               notice |-> [j \in Jobs |-> "absent"]]
    /\ mishaps = 0

----------------------------------------------------------------------------
(* The server, its plugin and the stream *)

\* The log holds what happens after the live bus of the stream began.
Logged(e) ==
    IF recorder.stream \in {"none", "connected"} THEN server.log
    ELSE Append(server.log, e)

InProgress == run.pc # "done"
Serving == server.up /\ InProgress

Delegate(c) ==
    /\ Serving /\ c \in Delegates[run.mode]
    /\ Root \in server.busy /\ c \notin server.there
    /\ server.messages[c] = 0
    /\ server' = [server EXCEPT !.there = @ \cup {c},
                                !.busy = @ \cup {c},
                                !.log = Logged(<<"created", c, 0>>)]
    /\ UNCHANGED <<run, recorder, trace, flow>> /\ Fine

Respond(s) ==
    /\ Serving /\ s \in server.busy
    /\ server' = [server EXCEPT
                     !.busy = @ \ {s}, !.messages[s] = @ + 1,
                     !.log = Logged(<<"message", s,
                                      server.messages[s] + 1>>)]
    /\ UNCHANGED <<run, recorder, trace, flow>> /\ Fine

OpenForeign(f) ==
    /\ Serving /\ f \notin server.there
    /\ recorder.stream # "none"
    /\ server' = [server EXCEPT !.there = @ \cup {f},
                                !.log = Logged(<<"created", f, 0>>)]
    /\ UNCHANGED <<run, recorder, trace, flow>> /\ Happens

DeleteSession(s) ==
    /\ Serving /\ s \in server.there \ {Root}
    /\ server' = [server EXCEPT !.there = @ \ {s}, !.busy = @ \ {s},
                                !.log = Logged(<<"deleted", s, 0>>)]
    /\ UNCHANGED <<run, recorder, trace, flow>> /\ Happens

ServerDies ==
    /\ Serving
    /\ server' = [server EXCEPT !.up = FALSE]
    /\ UNCHANGED <<run, recorder, trace, flow>> /\ Happens

\* The live bus follows the connected event; the heartbeat comes from it.
StreamGoesLive ==
    /\ Serving /\ recorder.stream = "connected"
    /\ recorder' = [recorder EXCEPT !.stream = "live"]
    /\ UNCHANGED <<run, server, trace, flow>> /\ Fine

\* The reader appends event after event; how far it has come shows only
\* when somebody looks, or when the stream ends.
Delivered ==
    recorder.delivered..(IF recorder.stream = "live" THEN Len(server.log)
                         ELSE recorder.delivered)

\* The reader ends; an intended end or a cancelled context is no error.
StreamEnds ==
    /\ InProgress /\ recorder.stream \in {"connected", "live"}
    /\ \E n \in Delivered :
          recorder' = [recorder EXCEPT
                          !.stream = "broken", !.delivered = n,
                          !.err = ~recorder.stopping /\ run.ctx = "live"]
    /\ IF server.up /\ run.ctx = "live" THEN Happens ELSE Fine
    /\ UNCHANGED <<run, server, trace, flow>>

ContextEnds(how) ==
    /\ InProgress /\ run.ctx = "live"
    /\ run' = [run EXCEPT !.ctx = how]
    /\ IF how = "canceled" THEN Happens ELSE Fine
    /\ UNCHANGED <<server, recorder, trace, flow>>

ServerStopsWithContext ==
    /\ Serving /\ run.ctx # "live"
    /\ server' = [server EXCEPT !.up = FALSE]
    /\ UNCHANGED <<run, recorder, trace, flow>> /\ Fine

LaunchJob ==
    /\ Serving /\ run.mode = "managed"
    /\ Root \in server.busy /\ flow.launched < MaxJobs /\ flow.live = {}
    /\ flow' = [flow EXCEPT !.launched = @ + 1,
                            !.live = {flow.launched + 1},
                            !.state = "running"]
    /\ UNCHANGED <<run, server, recorder, trace>> /\ Fine

FinishJob(state) ==
    /\ Serving
    /\ \E j \in flow.live :
          flow' = [flow EXCEPT !.live = {}, !.state = state,
                               !.notice[j] = "unacked"]
    /\ UNCHANGED <<run, server, recorder, trace>> /\ Fine

\* The plugin claims a notification and prompts the idle root session.
Wake(j) ==
    /\ Serving /\ Root \notin server.busy
    /\ flow.notice[j] = "unacked"
    /\ \A k \in Jobs : flow.notice[k] # "prompting"
    /\ flow' = [flow EXCEPT !.notice[j] = "prompting"]
    /\ server' = [server EXCEPT !.busy = @ \cup {Root}]
    /\ UNCHANGED <<run, recorder, trace>> /\ Fine

\* The prompt has returned: acknowledge it, or release it after an error.
Acknowledge(j) ==
    /\ Serving /\ Root \notin server.busy
    /\ flow.notice[j] = "prompting"
    /\ \/ flow' = [flow EXCEPT !.notice[j] = "acked"] /\ Fine
       \/ flow' = [flow EXCEPT !.notice[j] = "unacked"] /\ Happens
    /\ UNCHANGED <<run, server, recorder, trace>>

Plugin == LaunchJob \/ \E s \in {"expected", "other"} : FinishJob(s)
          \/ \E j \in Jobs : Wake(j) \/ Acknowledge(j)

RunEnvironment ==
    \/ \E c \in Children : Delegate(c)
    \/ \E s \in Sessions : Respond(s) \/ DeleteSession(s)
    \/ \E f \in Foreigners : OpenForeign(f)
    \/ ServerDies \/ StreamGoesLive \/ StreamEnds
    \/ \E how \in {"canceled", "expired"} : ContextEnds(how)
    \/ ServerStopsWithContext \/ Plugin

----------------------------------------------------------------------------
(* Engine.Run *)

EvalKeeps == UNCHANGED <<server, recorder, trace, flow>>

\* A request needs the server and the run's context; it may fail anyway.
Reachable == server.up /\ run.ctx = "live"
FailsAnyway == IF Reachable THEN Happens ELSE Fine

earlyResultForContext(fallback) ==
    CASE run.ctx = "canceled" -> "aborted"
      [] run.ctx = "expired" -> "budget_exhausted"
      [] OTHER -> fallback

Return(status) ==
    run' = [run EXCEPT !.pc = "done", !.status = status]

\* A failed preflight: stop the runtime, then return the early result.
CloseEarly(status) ==
    /\ run' = [run EXCEPT !.pc = "close", !.early = status]
    /\ recorder' = [recorder EXCEPT !.stopping = TRUE]
    /\ UNCHANGED <<server, trace, flow>>

\* Contracts, closure, workspace, ambient inputs and the frozen bundle.
PrepareRun ==
    /\ run.pc = "prepare"
    /\ \/ run' = [run EXCEPT !.pc = "start"] /\ Fine
       \/ Return("invalid") /\ Happens
       \/ Return(earlyResultForContext("infra_error")) /\ FailsAnyway
    /\ EvalKeeps

StartRuntime ==
    /\ run.pc = "start"
    /\ \/ /\ run.ctx = "live"
          /\ run' = [run EXCEPT !.pc = "record", !.attested = FALSE]
          /\ server' = [server EXCEPT !.up = TRUE]
          /\ Fine
       \/ /\ \E s \in {"invalid", "infra_error"} :
                Return(earlyResultForContext(s))
          /\ UNCHANGED server
          /\ IF run.ctx = "live" THEN Happens ELSE Fine
    /\ UNCHANGED <<recorder, trace, flow>>

StartRecorder ==
    /\ run.pc = "record"
    /\ \/ /\ Reachable
          /\ run' = [run EXCEPT !.pc = "ready"]
          /\ recorder' = [recorder EXCEPT !.stream = "connected"]
          /\ UNCHANGED <<server, trace, flow>> /\ Fine
       \/ CloseEarly("invalid") /\ FailsAnyway

WaitForServerReady ==
    /\ run.pc = "ready"
    /\ \/ /\ recorder.stream = "live"
          /\ run' = [run EXCEPT !.pc = "create"]
          /\ EvalKeeps /\ Fine
       \/ /\ CloseEarly("invalid")
          /\ IF recorder.stream = "broken" THEN Fine ELSE FailsAnyway

\* The root may exist although the answer that named it is lost.
CreateSession ==
    /\ run.pc = "create"
    /\ \/ /\ Reachable
          /\ run' = [run EXCEPT !.pc = "admit"]
          /\ server' = [server EXCEPT !.there = @ \cup {Root},
                                !.log = Logged(<<"created", Root, 0>>)]
          /\ UNCHANGED <<recorder, trace, flow>> /\ Fine
       \/ \E s \in {"invalid", "infra_error"} :
             CloseEarly(s) /\ FailsAnyway

AdmitRoot ==
    /\ run.pc = "admit"
    /\ \/ \E n \in Delivered :
             /\ ValidateRootSessionAdmission(n)
             /\ run' = [run EXCEPT !.pc = "converse"]
             /\ recorder' = [recorder EXCEPT !.delivered = n]
             /\ UNCHANGED <<server, trace, flow>> /\ Fine
       \/ \E n \in Delivered :
             /\ CloseEarly("invalid")
             /\ IF \/ recorder.stream = "broken"
                   \/ validateGlobalSessionFence(n, {Root})
                THEN Fine ELSE FailsAnyway

SendMessage ==
    /\ run.pc = "converse"
    /\ \/ /\ Reachable /\ Root \notin server.busy
          /\ run' = [run EXCEPT !.pc = "await"]
          /\ server' = [server EXCEPT !.busy = @ \cup {Root}]
          /\ UNCHANGED <<recorder, trace, flow>> /\ Fine
       \/ /\ run' = [run EXCEPT !.pc = "pass", !.error = "contract"]
          /\ EvalKeeps /\ FailsAnyway

AfterAnswer(error) ==
    IF run.mode = "managed" /\ error = "none" THEN "initial" ELSE "anchor"

\* The turn has ended: it answered, asked, or its answer is unusable.
ReceiveResponse ==
    /\ run.pc = "await"
    /\ \/ /\ Root \notin server.busy /\ Reachable
          /\ \/ \E e \in {"none", "other"} :
                   run' = [run EXCEPT
                              !.pc = AfterAnswer(e), !.error = e,
                              !.turn = 0,
                              !.response = server.messages[Root],
                              !.latest = server.messages[Root]]
             \/ /\ run.turn < Answers[run.mode]
                /\ run' = [run EXCEPT !.pc = "converse",
                                      !.turn = @ + 1]
          /\ Fine
       \/ /\ run' = [run EXCEPT !.pc = "pass", !.error = "contract"]
          /\ FailsAnyway
    /\ EvalKeeps

InitialAnchor ==
    /\ run.pc = "initial"
    /\ \/ Reachable /\ run' = [run EXCEPT !.pc = "drive"] /\ Fine
       \/ /\ run' = [run EXCEPT !.pc = "pass", !.error = "contract"]
          /\ FailsAnyway
    /\ EvalKeeps

DriverError == IF run.ctx = "live" THEN "contract" ELSE "other"

\* Mutant: the driver polls on when its context has ended.
DriverPollsOn ==
    run' = [run EXCEPT !.error = DriverError,
                       !.pc = IF run.ctx = "live" THEN "pass" ELSE "drive"]

DriverFails ==
    run' = [run EXCEPT !.error = DriverError,
                       !.pc = IF run.ctx = "live" THEN "pass" ELSE "anchor"]

\* A poll of the root's history; the workflow is looked at afterwards.
PollTurns ==
    /\ run.pc = "drive"
    /\ \/ /\ Reachable /\ workflowAutonomousTurns = AutonomousTurns
          /\ run' = [run EXCEPT !.pc = "terminal",
                                !.latest = server.messages[Root]]
          /\ Fine
       \/ /\ Reachable /\ workflowAutonomousTurns > AutonomousTurns
          /\ DriverFails /\ Fine
       \/ DriverFails /\ FailsAnyway
    /\ EvalKeeps

PollWorkflow ==
    /\ run.pc = "terminal"
    /\ \/ /\ TerminalQuiescent
          /\ run' = [run EXCEPT !.pc = "anchor", !.accepted = TRUE,
                                !.response = run.latest]
          /\ Fine
       \/ /\ ~TerminalQuiescent
          /\ run' = [run EXCEPT !.pc = "drive"] /\ Fine
       \/ DriverFails /\ FailsAnyway
    /\ EvalKeeps

AnchorResponse ==
    /\ run.pc = "anchor"
    /\ \/ /\ Reachable
          /\ run' = [run EXCEPT !.pc = "pass", !.anchored = TRUE] /\ Fine
       \/ /\ run' = [run EXCEPT !.pc = "pass", !.error = "contract"]
          /\ FailsAnyway
    /\ EvalKeeps

----------------------------------------------------------------------------
(* Reconciliation: events, statuses, then each session of the tree *)

BeginPass ==
    /\ run.pc = "pass"
    /\ run' = [run EXCEPT !.pc = "statuses", !.pass = @ + 1]
    /\ \E n \in Delivered :
          /\ trace' = [EmptyTrace EXCEPT !.mark = n, !.frontier = {Root}]
          /\ recorder' = [recorder EXCEPT !.delivered = n]
    /\ UNCHANGED <<server, flow>> /\ Fine

ReadStatuses ==
    /\ run.pc = "statuses"
    /\ run' = [run EXCEPT !.pc = "walk"]
    /\ \/ /\ Reachable /\ Fine
          /\ trace' = [trace EXCEPT !.statuses = server.busy]
       \/ trace' = [trace EXCEPT !.failed = TRUE] /\ FailsAnyway
    /\ UNCHANGED <<server, recorder, flow>>

\* GET session and children; a session that is gone cannot be read.
ReadSession(s) ==
    LET listed == IF s = Root THEN server.there \cap Children ELSE {}
        announced == IF s = Root THEN childrenFromEvents(trace.mark) ELSE {}
    IN
    /\ run.pc = "walk" /\ s \in trace.frontier
    /\ \/ /\ Reachable /\ s \in server.there
          /\ run' = [run EXCEPT !.pc = "messages"]
          /\ trace' = [trace EXCEPT
                          !.reading = {s},
                          !.frontier = (@ \ {s}) \cup listed \cup announced,
                          !.orphan = @ \/ ~(announced \subseteq listed)]
          /\ Fine
       \/ /\ UNCHANGED run
          /\ trace' = [trace EXCEPT !.frontier = @ \ {s}, !.failed = TRUE]
          /\ IF s \in server.there THEN FailsAnyway ELSE Fine
    /\ UNCHANGED <<server, recorder, flow>>

ReadMessages ==
    /\ run.pc = "messages"
    /\ run' = [run EXCEPT !.pc = "walk"]
    /\ \E s \in trace.reading :
          \/ /\ Reachable /\ s \in server.there /\ Fine
             /\ trace' = [trace EXCEPT
                             !.reading = {},
                             !.seen = @ \cup {<<s, server.messages[s],
                                                s \in server.busy>>}]
          \/ /\ trace' = [trace EXCEPT
                             !.reading = {}, !.failed = TRUE,
                             !.seen = @ \cup {<<s, 0, FALSE>>}]
             /\ IF s \in server.there THEN FailsAnyway ELSE Fine
    /\ UNCHANGED <<server, recorder, flow>>

StableAfter ==
    IF traceFingerprint(trace) = run.previous /\ ~trace.failed
    THEN run.stable + 1 ELSE 1

Accepted ==
    /\ StableAfter >= StablePasses
    /\ StructurallyComplete(trace) /\ ~trace.failed

PassesLeft == run.pass < MaxPasses

EndPass ==
    /\ run.pc = "walk" /\ trace.frontier = {}
    /\ \/ /\ Accepted
          /\ run' = [run EXCEPT !.pc = "observe"]
          /\ UNCHANGED trace /\ Fine
       \/ /\ ~Accepted /\ PassesLeft
          /\ run' = [run EXCEPT !.pc = "pass", !.stable = StableAfter,
                                !.previous = traceFingerprint(trace)]
          /\ UNCHANGED trace /\ Fine
       \/ /\ ~Accepted
          /\ run' = [run EXCEPT !.pc = "observe"]
          /\ trace' = [trace EXCEPT !.late = TRUE]
          /\ IF run.pass = MaxPasses THEN Fine ELSE FailsAnyway
    /\ UNCHANGED <<server, recorder, flow>>

\* The anchored response must be the one the listing holds.
validateDurableResponse ==
    ~run.anchored \/ containsMessageID(trace, run.response)

\* Every session of the tree answered, with the model of the case.
validateObservedRootModel ==
    /\ \E m \in trace.seen : m[1] = Root /\ m[2] > 0
    /\ \A m \in trace.seen : m[1] # Root => m[2] > 0

Observe ==
    /\ run.pc = "observe"
    /\ run' = [run EXCEPT
                  !.pc = "close", !.model = validateObservedRootModel,
                  !.error = IF validateDurableResponse THEN @
                            ELSE "contract",
                  !.previous = <<>>, !.stable = 0]
    /\ recorder' = [recorder EXCEPT !.stopping = TRUE]
    /\ UNCHANGED <<server, trace, flow>> /\ Fine

----------------------------------------------------------------------------
(* The end of the run *)

\* Mutant: a stop that failed counts as a cleanup.
AttestedAnyway(how) == run.mode # "managed"

\* Without a managed workflow the stop itself attests the cleanup.
AttestedByStop(how) == run.mode # "managed" /\ how = "ok"

CloseRuntime ==
    /\ run.pc = "close"
    /\ \E how \in {"ok", "credential", "failed"} :
          /\ run' = [run EXCEPT
                        !.closing = how, !.attested = AttestedByStop(how),
                        !.pc = IF run.mode = "managed" /\ how = "ok"
                               THEN "reconcile" ELSE "stop"]
          /\ server' = [server EXCEPT !.up = @ /\ how = "failed"]
          /\ IF how = "ok" THEN Fine ELSE Happens
    /\ UNCHANGED <<recorder, trace, flow>>

\* The process group is gone: its jobs are retired in the database.
ReconcileManaged ==
    /\ run.pc = "reconcile"
    /\ \/ /\ run' = [run EXCEPT !.pc = "stop", !.attested = TRUE]
          /\ flow' = [flow EXCEPT !.live = {}] /\ Fine
       \/ /\ run' = [run EXCEPT !.pc = "stop", !.closing = "failed"]
          /\ UNCHANGED flow /\ Happens
    /\ UNCHANGED <<server, recorder, trace>>

\* What was not delivered by now is never seen.
StopRecorder ==
    /\ run.pc = "stop"
    /\ \E n \in Delivered :
          /\ recorder' = [recorder EXCEPT !.stream = "ended",
                                          !.delivered = n]
          /\ IF run.early # "none"
             THEN Return(earlyResultForContext(run.early))
             ELSE run' = [run EXCEPT
                             !.pc = "judge",
                             !.isolated = /\ ~recorder.err
                                          /\ ~FinalizeRunEvents(trace, n)]
    /\ UNCHANGED <<server, trace, flow>> /\ Fine

\* A run whose session did not finish fails; without claims it is invalid.
Verdicts ==
    CASE ~run.model -> {"fail", "invalid"}
      [] ~StructurallyComplete(trace) \/ ~run.isolated -> {"fail"}
      [] run.error = "contract" -> {"fail", "invalid"}
      [] OTHER -> {"pass", "fail", "invalid"}

\* The overrides in their order; the last one that applies wins.
FinalStatus(verdict, persisted, drifted) ==
    LET closed == CASE run.closing = "credential" -> "invalid"
                    [] run.closing = "failed" -> "infra_error"
                    [] ~run.isolated -> "invalid"
                    [] OTHER -> verdict
        stored == IF persisted THEN closed ELSE "infra_error"
        built == IF drifted THEN "invalid" ELSE stored
        answered == IF run.error = "contract" /\ built # "infra_error"
                    THEN "invalid"
                    ELSE IF run.error # "none" /\ built = "pass"
                    THEN "fail" ELSE built
    IN earlyResultForContext(answered)

Judge ==
    /\ run.pc = "judge"
    /\ \E verdict \in Verdicts :
       \E persisted \in BOOLEAN, drifted \in BOOLEAN :
          /\ Return(FinalStatus(verdict, persisted, drifted))
          /\ IF persisted /\ ~drifted THEN Fine ELSE Happens
    /\ EvalKeeps

Engine ==
    \/ PrepareRun \/ StartRuntime \/ StartRecorder \/ WaitForServerReady
    \/ CreateSession \/ AdmitRoot \/ SendMessage \/ ReceiveResponse
    \/ InitialAnchor \/ PollTurns \/ PollWorkflow \/ AnchorResponse
    \/ BeginPass \/ ReadStatuses \/ (\E s \in Sessions : ReadSession(s))
    \/ ReadMessages \/ EndPass \/ Observe \/ CloseRuntime
    \/ ReconcileManaged \/ StopRecorder \/ Judge

RunNext == RunEnvironment \/ Engine

\* The engine runs on, and its deadline comes when it has not returned.
RunFairness == WF_runVars(Engine) /\ WF_runVars(ContextEnds("expired"))

RunSpec == RunInit /\ [][RunNext]_runVars /\ RunFairness

----------------------------------------------------------------------------
(* Properties *)

Descendants == server.there \ Foreigners

\* A run that passes with every event delivered has the final tree in its
\* trace: all sessions of the root with all their messages, none of them
\* running, and since the stream began no other session was opened beside
\* them and none was deleted.
\* It is about the passes that read session after session of a moving tree
\* and the fence over the events that came after them.
AcceptedTraceIsFinal ==
    run.status = "pass" /\ recorder.delivered = Len(server.log) =>
        /\ trace.seen =
               {<<s, server.messages[s], FALSE>> : s \in Descendants}
        /\ \A e \in Events(Len(server.log)) :
              e[1] # "deleted" /\ e[2] \in Descendants

\* A verdict, pass or fail, is given only of a run whose runtime has been
\* stopped cleanly, and a run attests its cleanup only when no server and
\* no job of its workflow are left, whichever way it ended.
VerdictsAreOfCleanRuns ==
    run.pc = "done" =>
        /\ run.status \in {"pass", "fail"} => run.attested
        /\ run.attested => ~server.up /\ flow.live = {}

\* What a run keeps of types and of its verdict.
RunKept == RunTypeOK /\ VerdictsAreOfCleanRuns

\* Once the driver has accepted the workflow's end, the plugin starts no
\* further turn and no job is launched: the poll of the turns and the later
\* poll of the jobs and notifications do not miss one between them.
AcceptedWorkflowIsSettled ==
    [][run.accepted => /\ flow'.launched = flow.launched
                       /\ flow'.notice = flow.notice
                       /\ Root \notin server'.busy]_runVars

\* Every run returns, whatever the server, its stream and its workflow do.
EveryRunReturns == <>(run.pc = "done")

=============================================================================
