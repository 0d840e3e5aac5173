-------------------------- MODULE EvaluationServer --------------------------
(***************************************************************************)
(* The lifecycle of the private `opencode serve` processes an evaluation   *)
(* runs against (internal/eval/lifecycle): the launch transaction, the     *)
(* health loop, the goroutines that wait for the process and for the       *)
(* context, the one Stop that tears a server down, and the OAuth session   *)
(* the servers of one experiment take turns in.                            *)
(*                                                                         *)
(* The environment is the process tree: a leader, its descendants (one     *)
(* Boolean), either of which may write the private credential, ignore TERM *)
(* or outlive a bounded wait.                                              *)
(***************************************************************************)
EXTENDS Naturals, FiniteSets

CONSTANTS
  Servers,        \* the Server values of one experiment
  NoServer        \* "nobody", as holder of the OAuth session

ASSUME ServersAssumption == NoServer \notin Servers

VARIABLES
  phase,          \* Server.state
  start,          \* where the one call of Start is
  stop,           \* where the one execution of stopOnce is
  wanted,         \* whether a caller of Stop waits for launchMu
  leader,         \* the process of cmd: none, alive, exited, reaped
  group,          \* whether a descendant is alive in its process group
  held,           \* what the Server holds: "log", "env", "auth"
  credential,     \* the private auth.json: none, staged, changed
  errors,         \* the errors joined into stopErr
  cancelled,      \* whether the context of Start has ended
  drifted,        \* whether the plugin all of them load has changed
  session         \* OpenAIOAuthSession: who holds its mutex; its taint

serverVars ==
  <<phase, start, stop, wanted, leader, group, held, credential, errors,
    cancelled, drifted, session>>

Phases == {"new", "starting", "running", "stopping", "stopped"}

(* "called" waits for launchMu; from "prepare" to "launch" Start holds it. *)
StartSteps == {"idle", "called", "prepare", "build", "stage", "launch",
               "health", "healthy", "stopping", "returned"}
Launching == {"prepare", "build", "stage", "launch"}
StopSteps == {"none", "kill", "reap", "gone", "release", "clean", "done"}
Stopping == StopSteps \ {"none", "done"}

Typed ==
  /\ phase \in [Servers -> Phases]
  /\ start \in [Servers -> StartSteps]
  /\ stop \in [Servers -> StopSteps]
  /\ wanted \in [Servers -> BOOLEAN]
  /\ leader \in [Servers -> {"none", "alive", "exited", "reaped"}]
  /\ group \in [Servers -> BOOLEAN]
  /\ held \in [Servers -> SUBSET {"log", "env", "auth"}]
  /\ credential \in [Servers -> {"none", "staged", "changed"}]
  /\ errors \in [Servers -> SUBSET {"reap", "group", "credential", "drift"}]
  /\ cancelled \in [Servers -> BOOLEAN]
  /\ drifted \in BOOLEAN
  /\ session \in [holder : Servers \cup {NoServer}, tainted : BOOLEAN]

(* The state names the transaction that is under way, the session whoever  *)
(* holds its lease.                                                        *)
Named(s) ==
  /\ start[s] \in Launching => phase[s] = "starting"
  /\ stop[s] \in Stopping => phase[s] = "stopping"
  /\ "auth" \in held[s] <=> session.holder = s

(* The types, and that state and session say what the servers do.          *)
ServerTypeOK == Typed /\ \A s \in Servers : Named(s)

ServerInit ==
  /\ phase = [s \in Servers |-> "new"]
  /\ start = [s \in Servers |-> "idle"]
  /\ stop = [s \in Servers |-> "none"]
  /\ wanted = [s \in Servers |-> FALSE]
  /\ leader = [s \in Servers |-> "none"]
  /\ group = [s \in Servers |-> FALSE]
  /\ held = [s \in Servers |-> {}]
  /\ credential = [s \in Servers |-> "none"]
  /\ errors = [s \in Servers |-> {}]
  /\ cancelled = [s \in Servers |-> FALSE]
  /\ drifted = FALSE
  /\ session = [holder |-> NoServer, tainted |-> FALSE]

-----------------------------------------------------------------------------
(* Helpers.                                                                *)

(* launchMu is held by Start over the launch and by Stop throughout.       *)
launchMuFree(s) == start[s] \notin Launching /\ stop[s] \notin Stopping

(* kill(-pgid, 0): an exited leader nobody reaped still looks alive.       *)
processGroupAlive(s) == leader[s] \in {"alive", "exited"} \/ group[s]

LiveProcess(s) == leader[s] = "alive" \/ group[s]

verifyControlledPluginBoundary == ~drifted

(* Mutant: the session admits a second runtime while the first holds it.   *)
StageUnlocked(s) == start[s] = "stage"

(* The mutex of OpenAIOAuthSession, which the lease of a runtime keeps.    *)
sessionFree(s) == session.holder = NoServer

(* The processes and what the operating system does with them are left     *)
(* alone by every step of the evaluator but Launch, Kill and Reap.         *)
Processes == <<leader, group, cancelled, drifted>>

-----------------------------------------------------------------------------
(* Start.                                                                  *)

(* Start is called: a context that already ended returns before launchMu.  *)
CallStart(s) ==
  /\ start[s] = "idle"
  /\ start' = [start EXCEPT ![s] = IF cancelled[s] THEN "returned"
                                                   ELSE "called"]
  /\ UNCHANGED <<phase, stop, wanted, held, credential, errors, session,
                 Processes>>

(* With launchMu: only a new server whose context lasts may launch.        *)
BeginLaunch(s) ==
  /\ start[s] = "called"
  /\ launchMuFree(s)
  /\ IF cancelled[s] \/ phase[s] # "new"
     THEN /\ start' = [start EXCEPT ![s] = "returned"]
          /\ UNCHANGED phase
     ELSE /\ start' = [start EXCEPT ![s] = "prepare"]
          /\ phase' = [phase EXCEPT ![s] = "starting"]
  /\ UNCHANGED <<stop, wanted, held, credential, errors, session, Processes>>

(* A failure before the process exists: the log is closed, the private     *)
(* directories are removed, the server is marked stopped and launchMu is   *)
(* released by the deferred unlock; stopOnce is not consumed.              *)
LaunchFails(s) ==
  /\ held' = [held EXCEPT ![s] = {}]
  /\ phase' = [phase EXCEPT ![s] = "stopped"]
  /\ start' = [start EXCEPT ![s] = "returned"]
  /\ UNCHANGED <<stop, wanted, credential, errors, session, Processes>>

(* prepare: the checks of the configuration and of the plugin, the run     *)
(* directory, the port and the log file.  A failure has opened no log.     *)
Prepare(s) ==
  /\ start[s] = "prepare"
  /\ \/ LaunchFails(s)
     \/ /\ verifyControlledPluginBoundary
        /\ ~cancelled[s]
        /\ held' = [held EXCEPT ![s] = {"log"}]
        /\ start' = [start EXCEPT ![s] = "build"]
        /\ UNCHANGED <<phase, stop, wanted, credential, errors, session,
                       Processes>>

(* buildEnvironment makes the private directories, or removes the ones it  *)
(* made when the rest of the environment is refused; then the manifest and *)
(* the configuration home are checked.                                     *)
BuildEnvironment(s) ==
  /\ start[s] = "build"
  /\ \/ LaunchFails(s)
     \/ /\ held' = [held EXCEPT ![s] = @ \cup {"env"}]
        /\ start' = [start EXCEPT ![s] = "stage"]
        /\ UNCHANGED <<phase, stop, wanted, credential, errors, session,
                       Processes>>

(* The session is staged.  stage waits for the session's mutex, holding    *)
(* launchMu; a tainted session, a credential that ends too early or a      *)
(* failed write refuses.  The lease keeps the mutex until it is released.  *)
Stage(s) ==
  /\ start[s] = "stage"
  /\ sessionFree(s)
  /\ \/ LaunchFails(s)
     \/ /\ ~session.tainted
        /\ session' = [session EXCEPT !.holder = s]
        /\ credential' = [credential EXCEPT ![s] = "staged"]
        /\ held' = [held EXCEPT ![s] = @ \cup {"auth"}]
        /\ start' = [start EXCEPT ![s] = "launch"]
        /\ UNCHANGED <<phase, stop, wanted, errors, Processes>>

(* The plugin is verified once more and the process is started; the PID is *)
(* published before launchMu is released.  A failure takes the server back *)
(* to new, releases launchMu and stops it.                                 *)
Launch(s) ==
  /\ start[s] = "launch"
  /\ \/ /\ phase' = [phase EXCEPT ![s] = "new"]
        /\ start' = [start EXCEPT ![s] = "stopping"]
        /\ wanted' = [wanted EXCEPT ![s] = TRUE]
        /\ UNCHANGED leader
     \/ /\ verifyControlledPluginBoundary
        /\ leader' = [leader EXCEPT ![s] = "alive"]
        /\ start' = [start EXCEPT ![s] = "health"]
        /\ UNCHANGED <<phase, wanted>>
  /\ UNCHANGED <<stop, group, held, credential, errors, cancelled, drifted,
                 session>>

StartStops(s) ==
  /\ start' = [start EXCEPT ![s] = "stopping"]
  /\ wanted' = [wanted EXCEPT ![s] = TRUE]
  /\ UNCHANGED <<phase, stop, held, credential, errors, session, Processes>>

(* The health loop: a live leader may answer; a wrong version, the end of  *)
(* the context, the startup timer or the exit of the process end the loop. *)
HealthAnswers(s) ==
  /\ start[s] = "health"
  /\ leader[s] = "alive"
  /\ phase[s] \in {"starting", "stopping"}
  /\ start' = [start EXCEPT ![s] = "healthy"]
  /\ UNCHANGED <<phase, stop, wanted, held, credential, errors, session,
                 Processes>>

HealthEnds(s) == start[s] = "health" /\ StartStops(s)

(* After the answer: a plugin that drifted stops the server; a server that *)
(* somebody stopped meanwhile is an error of Start; else it is running.    *)
Publish(s) ==
  /\ start[s] = "healthy"
  /\ IF ~verifyControlledPluginBoundary THEN StartStops(s)
     ELSE /\ start' = [start EXCEPT ![s] = "returned"]
          /\ phase' = [phase EXCEPT ![s] = IF @ = "starting" THEN "running"
                                                             ELSE @]
          /\ UNCHANGED <<stop, wanted, held, credential, errors, session,
                         Processes>>

(* Stop of Start returned.                                                 *)
StartReturns(s) ==
  /\ start[s] = "stopping"
  /\ stop[s] = "done"
  /\ start' = [start EXCEPT ![s] = "returned"]
  /\ UNCHANGED <<phase, stop, wanted, held, credential, errors, session,
                 Processes>>

-----------------------------------------------------------------------------
(* The goroutines.                                                         *)

(* waitForProcess reaps the leader, closes waitDone and asks for Stop.     *)
WaitForProcess(s) ==
  /\ leader[s] = "exited"
  /\ leader' = [leader EXCEPT ![s] = "reaped"]
  /\ wanted' = [wanted EXCEPT ![s] = TRUE]
  /\ UNCHANGED <<phase, start, stop, group, held, credential, errors,
                 cancelled, drifted, session>>

(* stopWhenContextEnds, from the moment Start published the server.        *)
StopWhenContextEnds(s) ==
  /\ start[s] = "returned"
  /\ phase[s] = "running"
  /\ leader[s] \in {"alive", "exited"}
  /\ cancelled[s]
  /\ ~wanted[s]
  /\ wanted' = [wanted EXCEPT ![s] = TRUE]
  /\ UNCHANGED <<phase, start, stop, held, credential, errors, session,
                 Processes>>

(* The engine closes the runtime at a time of its own.                     *)
OwnerStops(s) ==
  /\ ~wanted[s]
  /\ wanted' = [wanted EXCEPT ![s] = TRUE]
  /\ UNCHANGED <<phase, start, stop, held, credential, errors, session,
                 Processes>>

-----------------------------------------------------------------------------
(* Stop: launchMu, then stopOnce.                                          *)

(* loadExactOpenAIOAuth reads back the credential that was staged: the same *)
(* protected file, with the one provider and the same validated fields.    *)
LoadsExactly(s) == credential[s] = "staged"

(* Mutant: a session that is tainted keeps its mutex locked.               *)
ReleasedUnlessTainted(s, inspect) ==
  IF "auth" \notin held[s] THEN session
  ELSE [holder |-> IF inspect /\ ~LoadsExactly(s) THEN s
                   ELSE NoServer,
        tainted |-> session.tainted
                      \/ (inspect /\ ~LoadsExactly(s))]

(* release of the lease: the session's mutex is given back; with `inspect` *)
(* a credential that is not the staged one taints the session for good.    *)
Released(s, inspect) ==
  IF "auth" \notin held[s] THEN session
  ELSE [holder |-> NoServer,
        tainted |-> session.tainted
                      \/ (inspect /\ ~LoadsExactly(s))]

(* A server that never launched, or failed before it did.                  *)
StopUnlaunched(s) ==
  /\ stop[s] = "none"
  /\ wanted[s]
  /\ launchMuFree(s)
  /\ phase[s] \in {"new", "stopped"}
  /\ session' = Released(s, FALSE)
  /\ held' = [held EXCEPT ![s] = {}]
  /\ credential' = [credential EXCEPT ![s] = "none"]
  /\ phase' = [phase EXCEPT ![s] = "stopped"]
  /\ stop' = [stop EXCEPT ![s] = "done"]
  /\ UNCHANGED <<start, wanted, errors, Processes>>

(* TERM goes to the group; the processes answer in their own time.         *)
BeginStop(s) ==
  /\ stop[s] = "none"
  /\ wanted[s]
  /\ launchMuFree(s)
  /\ phase[s] \in {"starting", "running"}
  /\ phase' = [phase EXCEPT ![s] = "stopping"]
  /\ stop' = [stop EXCEPT ![s] = "kill"]
  /\ UNCHANGED <<start, wanted, held, credential, errors, session, Processes>>

(* Mutant: a reaped leader is taken for the end of its group.              *)
KillLeaderOnly(s) ==
  /\ stop[s] = "kill"
  /\ leader' = [leader EXCEPT ![s] = IF @ = "alive" THEN "exited" ELSE @]
  /\ stop' = [stop EXCEPT ![s] = "release"]
  /\ UNCHANGED <<phase, start, wanted, group, held, credential, errors,
                 cancelled, drifted, session>>

(* After the wait for the leader, KILL when kill(-pgid, 0) still finds the *)
(* group: every member dies, or those the kernel cannot end outlive it.    *)
Kill(s) ==
  /\ stop[s] = "kill"
  /\ stop' = [stop EXCEPT ![s] = "reap"]
  /\ IF processGroupAlive(s)
     THEN \E stuckLeader, stuckGroup \in BOOLEAN :
            /\ leader' = [leader EXCEPT
                            ![s] = IF @ = "alive" /\ ~stuckLeader
                                   THEN "exited" ELSE @]
            /\ group' = [group EXCEPT ![s] = @ /\ stuckGroup]
     ELSE UNCHANGED <<leader, group>>
  /\ UNCHANGED <<phase, start, wanted, held, credential, errors, cancelled,
                 drifted, session>>

(* The second wait for the leader: a timeout is an error of Stop.          *)
AwaitReapAgain(s) ==
  /\ stop[s] = "reap"
  /\ errors' = [errors EXCEPT ![s] = IF leader[s] = "reaped" THEN @
                                     ELSE @ \cup {"reap"}]
  /\ stop' = [stop EXCEPT ![s] = "gone"]
  /\ UNCHANGED <<phase, start, wanted, held, credential, session, Processes>>

(* The wait for the group; the log is closed whatever it found.            *)
AwaitGroup(s) ==
  /\ stop[s] = "gone"
  /\ errors' = [errors EXCEPT ![s] = IF ~processGroupAlive(s) THEN @
                                     ELSE @ \cup {"group"}]
  /\ held' = [held EXCEPT ![s] = @ \ {"log"}]
  /\ stop' = [stop EXCEPT ![s] = "release"]
  /\ UNCHANGED <<phase, start, wanted, credential, session, Processes>>

(* Mutant: the lease is returned without a look at the credential.         *)
ReleaseUnseen(s) ==
  /\ stop[s] = "release"
  /\ session' = Released(s, FALSE)
  /\ held' = [held EXCEPT ![s] = @ \ {"auth"}]
  /\ stop' = [stop EXCEPT ![s] = "clean"]
  /\ UNCHANGED <<phase, start, wanted, credential, errors, Processes>>

(* releaseOAuthLease(pid > 0): the process is gone, or Stop has an error.  *)
ReleaseLease(s) ==
  /\ stop[s] = "release"
  /\ session' = Released(s, TRUE)
  /\ errors' = [errors EXCEPT ![s] =
                  IF "auth" \in held[s] /\ ~LoadsExactly(s)
                  THEN @ \cup {"credential"} ELSE @]
  /\ held' = [held EXCEPT ![s] = @ \ {"auth"}]
  /\ stop' = [stop EXCEPT ![s] = "clean"]
  /\ UNCHANGED <<phase, start, wanted, credential, Processes>>

(* The private directories go, and the plugin is verified a last time.     *)
Clean(s) ==
  /\ stop[s] = "clean"
  /\ held' = [held EXCEPT ![s] = @ \ {"env"}]
  /\ credential' = [credential EXCEPT ![s] = "none"]
  /\ errors' = [errors EXCEPT ![s] =
                  IF verifyControlledPluginBoundary THEN @
                  ELSE @ \cup {"drift"}]
  /\ phase' = [phase EXCEPT ![s] = "stopped"]
  /\ stop' = [stop EXCEPT ![s] = "done"]
  /\ UNCHANGED <<start, wanted, session, Processes>>

-----------------------------------------------------------------------------
(* The environment.                                                        *)

LeaderExits(s) ==
  /\ leader[s] = "alive"
  /\ leader' = [leader EXCEPT ![s] = "exited"]
  /\ UNCHANGED <<phase, start, stop, wanted, group, held, credential, errors,
                 cancelled, drifted, session>>

(* A descendant is spawned, or the last one ends.                          *)
GroupChanges(s) ==
  /\ group[s] \/ leader[s] = "alive"
  /\ group' = [group EXCEPT ![s] = ~@]
  /\ UNCHANGED <<phase, start, stop, wanted, leader, held, credential, errors,
                 cancelled, drifted, session>>

(* Any process of the run may write the runtime-readable credential.       *)
CredentialChanges(s) ==
  /\ LiveProcess(s)
  /\ credential[s] = "staged"
  /\ credential' = [credential EXCEPT ![s] = "changed"]
  /\ UNCHANGED <<phase, start, stop, wanted, held, errors, session, Processes>>

PluginDrifts ==
  /\ ~drifted
  /\ drifted' = TRUE
  /\ UNCHANGED <<phase, start, stop, wanted, leader, group, held, credential,
                 errors, cancelled, session>>

Cancel(s) ==
  /\ ~cancelled[s]
  /\ cancelled' = [cancelled EXCEPT ![s] = TRUE]
  /\ UNCHANGED <<phase, start, stop, wanted, leader, group, held, credential,
                 errors, drifted, session>>

StartStep(s) ==
  \/ BeginLaunch(s) \/ Prepare(s) \/ BuildEnvironment(s) \/ Stage(s)
  \/ Launch(s) \/ HealthEnds(s) \/ Publish(s) \/ StartReturns(s)

StopStep(s) ==
  \/ StopUnlaunched(s) \/ BeginStop(s) \/ Kill(s)
  \/ AwaitReapAgain(s) \/ AwaitGroup(s) \/ ReleaseLease(s) \/ Clean(s)

Environment(s) ==
  \/ LeaderExits(s) \/ GroupChanges(s) \/ CredentialChanges(s)
  \/ Cancel(s)

ServerNext ==
  \/ PluginDrifts
  \/ \E s \in Servers :
    \/ CallStart(s) \/ StartStep(s) \/ HealthAnswers(s)
    \/ WaitForProcess(s) \/ StopWhenContextEnds(s) \/ OwnerStops(s)
    \/ StopStep(s) \/ Environment(s)

(* The goroutines of the evaluator run; the processes owe nothing.  The    *)
(* health loop ends because its startup timer does.                        *)
ServerFairness ==
  \A s \in Servers :
    /\ WF_serverVars(StartStep(s)) /\ WF_serverVars(StopStep(s))
    /\ WF_serverVars(WaitForProcess(s)) /\ WF_serverVars(StopWhenContextEnds(s))

ServerSpec == ServerInit /\ [][ServerNext]_serverVars /\ ServerFairness

-----------------------------------------------------------------------------
(* Properties.                                                             *)

(* A Stop that reports no error left nothing behind: no process of the     *)
(* group, no zombie, no lease, no private directory and no open log.       *)
CleanStopLeavesNothing ==
  \A s \in Servers :
    stop[s] = "done" /\ errors[s] = {} =>
      /\ leader[s] \in {"none", "reaped"} /\ ~group[s]
      /\ held[s] = {} /\ session.holder # s
      /\ credential[s] = "none"

(* Runtimes that share an OAuth session take turns: two of them have       *)
(* processes alive only after a Stop that reported what it could not end.  *)
OneRuntimeAtATime ==
  \A s, t \in Servers :
    s # t /\ LiveProcess(s) /\ LiveProcess(t) =>
      \E r \in {s, t} : errors[r] \cap {"reap", "group"} # {}

(* What the servers keep of types, processes and sessions.                 *)
ServersKept == ServerTypeOK /\ OneRuntimeAtATime

(* A private credential somebody rewrote never disappears in silence: its  *)
(* directory is removed only after the session was tainted and Stop has    *)
(* the error, or while Stop reports a process that may write it still.     *)
ChangesAreReported ==
  [][\A s \in Servers :
       credential[s] = "changed" /\ credential'[s] = "none" =>
         \/ session.tainted /\ "credential" \in errors[s]
         \/ errors[s] \cap {"reap", "group"} # {}]_serverVars

(* When every context has ended, every server that launched is stopped and *)
(* no Start is left waiting, not even for the session of another runtime.  *)
AllEnded ==
  \A s \in Servers :
    /\ start[s] \in {"idle", "returned"}
    /\ leader[s] # "none" => stop[s] = "done"
EveryServerStops == (\A s \in Servers : cancelled[s]) ~> AllEnded
=============================================================================
