---------------------------- MODULE Notifications ----------------------------
(***************************************************************************)
(* How the end of a detached job wakes an OpenCode session: the job is     *)
(* bound to the session that launched it, FinishWorkflowJob leaves a       *)
(* notice, and the plugin of each OpenCode process polls for its idle      *)
(* sessions, claims a notice, prompts the session with it and acknowledges *)
(* it (internal/workflow/jobs.go, cmd/skynex/workflow_detach.go,           *)
(* opencode/plugins/skynex-workflow.ts).  A claim expires; a notice whose  *)
(* session is gone goes to another one.  Hosts are OpenCode processes,     *)
(* which crash and restart; prompts and commands may fail; a prompt lasts  *)
(* as long as the turn it starts, which may outlast the claim.             *)
(*                                                                         *)
(* Time passes in half seconds, and what is stored is known by its age.    *)
(* The store compares times as RFC 3339 strings without trailing zeros, in *)
(* which a whole second sorts after its own fractions.                     *)
(***************************************************************************)
EXTENDS Integers, Sequences, FiniteSets

CONSTANTS
  Sessions,     \* OpenCode sessions
  HostOf,       \* HostOf[s]: the OpenCode process that serves session s
  Steady,       \* a session that stays open, on a host that stays up
  ClaimExpiry,  \* 5 minutes, in half seconds
  PresenceTTL,  \* WorkflowSessionPresenceTTL, in half seconds
  MaxJobs,      \* bound: jobs launched
  MaxMishaps    \* bound: crashes of a host, sessions deleted, answers lost,
                \* turns the user starts in an idle session

NoSession == "no session"

ASSUME NotificationsAssumption ==
  /\ Steady \in Sessions /\ NoSession \notin Sessions
  /\ ClaimExpiry \in Nat /\ ClaimExpiry % 2 = 0
  /\ PresenceTTL \in Nat /\ PresenceTTL % 2 = 0
  /\ MaxJobs \in Nat /\ MaxMishaps \in Nat

VARIABLES
  half,       \* whether the present time is in the second half of its second
  jobs,       \* workflow_jobs: jobs[j] is [session, ended]
  notices,    \* workflow_notifications: notices[j] is [by, age, acked], of job j
  presence,   \* workflow_session_presence: the age of s's last heartbeat, or Never
  known,      \* sessions the plugins know and beat for
  idle,       \* idleSessions of the plugins: whom the next tick polls
  flight,     \* flight[s]: the poll of s under way, from claim to acknowledgement
  delivered,  \* jobs some session accepted the prompt about (a history)
  mishaps     \* bound: mishaps so far

noteVars == <<half, jobs, notices, presence, known, idle, flight, delivered,
              mishaps>>

Free == [by |-> NoSession, age |-> 0, acked |-> FALSE]

Landed == [pc |-> "none", job |-> 0, age |-> 0]

\* Older than this nothing changes any more.
Never == PresenceTTL + 2

Spent == ClaimExpiry + 2

NoteInit ==
  /\ half = 0
  /\ jobs = <<>> /\ notices = <<>>
  /\ presence = [s \in Sessions |-> Never]
  /\ known = {} /\ idle = {}
  /\ flight = [s \in Sessions |-> Landed]
  /\ delivered = {} /\ mishaps = 0

HostSessions(h) == {s \in Sessions : HostOf[s] = h}

Mishap == mishaps < MaxMishaps /\ mishaps' = mishaps + 1

-----------------------------------------------------------------------------
(* Time, and the strings it is compared by.                                   *)

Older(age, oldest) == IF age < oldest THEN age + 1 ELSE oldest

Tick ==
  /\ half' = 1 - half
  /\ notices' = [j \in DOMAIN notices |->
       IF notices[j].by = NoSession THEN notices[j]
       ELSE [notices[j] EXCEPT !.age = Older(@, Spent)]]
  /\ presence' = [s \in Sessions |-> Older(presence[s], Never)]
  /\ flight' = [s \in Sessions |->
       IF flight[s] = Landed THEN Landed
       ELSE [flight[s] EXCEPT !.age = Older(@, Spent)]]
  /\ UNCHANGED <<jobs, known, idle, delivered, mishaps>>

\* The moment that many half seconds ago.
Moment(age) == half + 2 * (Never + Spent) - age

\* The order of two moments as strings.
SortsBefore(m, n) ==
  \/ m \div 2 < n \div 2
  \/ m \div 2 = n \div 2 /\ m % 2 = 1 /\ n % 2 = 0

\* claimed_at < cutoff; last_seen >= cutoff.
Expired(age) == SortsBefore(Moment(age), Moment(ClaimExpiry))

Present(s) == ~SortsBefore(Moment(presence[s]), Moment(PresenceTTL))

-----------------------------------------------------------------------------
(* Jobs.                                                                      *)

\* A command of session s, or of a terminal, launches a job;
\* BindWorkflowJobSession binds it while it is queued.
Launch(s) ==
  /\ Len(jobs) < MaxJobs
  /\ \A j \in DOMAIN jobs : jobs[j].ended
  /\ s # NoSession => s \in known
  /\ jobs' = Append(jobs, [session |-> s, ended |-> FALSE])
  /\ UNCHANGED <<half, notices, presence, known, idle, flight, delivered,
                 mishaps>>

\* FinishWorkflowJob leaves the notice of the job.
JobEnds(j) ==
  /\ ~jobs[j].ended
  /\ jobs' = [jobs EXCEPT ![j].ended = TRUE]
  /\ notices' = Append(notices, Free)
  /\ UNCHANGED <<half, presence, known, idle, flight, delivered, mishaps>>

-----------------------------------------------------------------------------
(* What the plugin hears of its sessions.                                     *)

\* HeartbeatWorkflowSession, at once and every five seconds; it may fail.
Beats(s) == presence' = [presence EXCEPT ![s] = 0]

\* Any event of a session, its shell or the list of sessions at startup.
Heard(s) ==
  /\ s \notin known
  /\ known' = known \cup {s}
  /\ Beats(s)
  /\ UNCHANGED <<half, jobs, notices, idle, flight, delivered, mishaps>>

Beat(s) ==
  /\ s \in known /\ presence[s] # 0
  /\ Beats(s)
  /\ UNCHANGED <<half, jobs, notices, known, idle, flight, delivered, mishaps>>

\* session.idle, and session.status or session.error.
TurnsIdle(s) ==
  /\ s \in known \ idle
  /\ idle' = idle \cup {s}
  /\ UNCHANGED <<half, jobs, notices, presence, known, flight, delivered,
                 mishaps>>

\* The user has the session do something else.
TurnsBusy(s) ==
  /\ s \in known \cap idle /\ Mishap
  /\ idle' = idle \ {s}
  /\ UNCHANGED <<half, jobs, notices, presence, known, flight, delivered>>

\* session.deleted: a poll that is under way goes on.
Deleted(s) ==
  /\ s \in known \ {Steady} /\ Mishap
  /\ known' = known \ {s}
  /\ idle' = idle \ {s}
  /\ UNCHANGED <<half, jobs, notices, presence, flight, delivered>>

\* A host dies with its plugin: its sessions are heard of again later, if ever.
HostCrash(h) ==
  /\ h # HostOf[Steady] /\ Mishap
  /\ HostSessions(h) \cap (known \cup idle) # {}
  /\ known' = known \ HostSessions(h)
  /\ idle' = idle \ HostSessions(h)
  /\ flight' = [s \in Sessions |->
                  IF HostOf[s] = h THEN Landed ELSE flight[s]]
  /\ UNCHANGED <<half, jobs, notices, presence, delivered>>

-----------------------------------------------------------------------------
(* claim, ack and release: one UPDATE each.                                   *)

\* Mutant: a claim lasts for ever.
UnclaimedForGood(j) == ~notices[j].acked /\ notices[j].by = NoSession

Unclaimed(j) ==
  ~notices[j].acked /\ (notices[j].by = NoSession \/ Expired(notices[j].age))

\* The notice is s's own, or that of a session that neither s's host knows nor
\* anybody has seen lately; a job without a session is anybody's.
Reachable(s, j) ==
  \/ jobs[j].session = s
  \/ /\ jobs[j].session \notin known \cap HostSessions(HostOf[s])
     /\ jobs[j].session \in Sessions => ~Present(jobs[j].session)

Claimable(s) == {j \in DOMAIN notices : Unclaimed(j) /\ Reachable(s, j)}

\* Jobs end one after the other: the notice created first is the least.
FirstOf(S) == CHOOSE j \in S : \A i \in S : j <= i

\* claimWorkflowNotification: the oldest one, and its job is rebound.
Claims(s, j) ==
  /\ notices' = [notices EXCEPT ![j] = [by |-> s, age |-> 0, acked |-> FALSE]]
  /\ jobs' = [jobs EXCEPT ![j].session = s]

\* Mutant: the claim token is not compared.
HoldsAny(s, j) == ~notices[j].acked

\* A token is known by its consumer: a session in flight does not claim again.
Holds(s, j) == ~notices[j].acked /\ notices[j].by = s

-----------------------------------------------------------------------------
(* The poller.                                                                *)

\* The tick polls an idle session that is not in flight.
Polls(s) == s \in idle /\ flight[s] = Landed /\ Claimable(s) # {}

Claim(s) ==
  LET j == FirstOf(Claimable(s)) IN
  /\ Polls(s)
  /\ Claims(s, j)
  /\ flight' = [flight EXCEPT ![s] = [pc |-> "prompting", job |-> j, age |-> 0]]
  /\ idle' = idle \ {s}
  /\ UNCHANGED <<half, presence, known, delivered, mishaps>>

\* The answer of the command is lost: the session waits for the next tick.
ClaimLost(s) ==
  /\ Polls(s) /\ Mishap
  /\ Claims(s, FirstOf(Claimable(s)))
  /\ UNCHANGED <<half, presence, known, idle, flight, delivered>>

InFlight(s, pc) == flight[s].pc = pc

FliesOn(s, pc) == flight' = [flight EXCEPT ![s].pc = pc]

\* The session takes the prompt and its turn ends; a deleted one never does.
PromptAccepted(s) ==
  /\ InFlight(s, "prompting") /\ s \in known
  /\ delivered' = delivered \cup {flight[s].job}
  /\ FliesOn(s, "acking")
  /\ UNCHANGED <<half, jobs, notices, presence, known, idle, mishaps>>

PromptFails(s) ==
  /\ InFlight(s, "prompting")
  /\ FliesOn(s, "releasing")
  /\ UNCHANGED <<half, jobs, notices, presence, known, idle, delivered, mishaps>>

\* A poll that did not handle its notice makes its session idle again, whatever
\* has become of it.
Lands(s, handled) ==
  /\ flight' = [flight EXCEPT ![s] = Landed]
  /\ idle' = IF handled THEN idle ELSE idle \cup {s}
  /\ UNCHANGED <<half, jobs, presence, known, delivered>>

Ack(s) ==
  LET j == flight[s].job IN
  /\ InFlight(s, "acking") /\ Holds(s, j)
  /\ notices' = [notices EXCEPT ![j].acked = TRUE]
  /\ Lands(s, TRUE)
  /\ UNCHANGED mishaps

\* The claim is no longer current, or the command fails.
AckFails(s) ==
  /\ InFlight(s, "acking")
  /\ IF Holds(s, flight[s].job) THEN Mishap ELSE UNCHANGED mishaps
  /\ FliesOn(s, "releasing")
  /\ UNCHANGED <<half, jobs, notices, presence, known, idle, delivered>>

Release(s) ==
  LET j == flight[s].job IN
  /\ InFlight(s, "releasing") /\ Holds(s, j)
  /\ notices' = [notices EXCEPT ![j] = Free]
  /\ Lands(s, FALSE)
  /\ UNCHANGED mishaps

\* A release that is refused, or fails, is forgotten.
ReleaseFails(s) ==
  /\ InFlight(s, "releasing")
  /\ IF Holds(s, flight[s].job) THEN Mishap ELSE UNCHANGED mishaps
  /\ Lands(s, FALSE)
  /\ UNCHANGED notices

-----------------------------------------------------------------------------
Plugin(s) ==
  \/ Heard(s) \/ Beat(s) \/ TurnsIdle(s) \/ TurnsBusy(s) \/ Deleted(s)
  \/ Claim(s) \/ ClaimLost(s) \/ PromptAccepted(s) \/ PromptFails(s)
  \/ Ack(s) \/ AckFails(s) \/ Release(s) \/ ReleaseFails(s)

NoteNext ==
  \/ Tick
  \/ \E s \in Sessions \cup {NoSession} : Launch(s)
  \/ \E j \in DOMAIN jobs : JobEnds(j)
  \/ \E s \in Sessions : Plugin(s)
  \/ \E h \in {HostOf[s] : s \in Sessions} : HostCrash(h)

NoteSpec == NoteInit /\ [][NoteNext]_noteVars

\* Clocks advance; the steady session's plugin runs and hears of its session;
\* what is in flight comes to an end.  A session that is polled time and again
\* gets its turn and, prompted time and again, takes the prompt in the end.
NoteFairness ==
  /\ WF_noteVars(Tick)
  /\ WF_noteVars(Heard(Steady))
  /\ \A s \in Sessions :
       /\ WF_noteVars(TurnsIdle(s))
       /\ SF_noteVars(Claim(s))
       /\ SF_noteVars(PromptAccepted(s))
       /\ WF_noteVars(PromptAccepted(s) \/ PromptFails(s))
       /\ WF_noteVars(Ack(s) \/ AckFails(s))
       /\ WF_noteVars(Release(s) \/ ReleaseFails(s))

-----------------------------------------------------------------------------
\* Two sessions are woken about one job only when the turn of one of them has
\* outlasted its claim: a refused, late or repeated answer of one consumer never
\* opens the claim of another.  String times err by less than a second.
NoDoubleWake ==
  \A s, t \in Sessions :
    /\ s # t /\ flight[s] # Landed /\ flight[t] # Landed
    /\ flight[s].job = flight[t].job
    => flight[s].age > ClaimExpiry - 2 \/ flight[t].age > ClaimExpiry - 2

\* The end of every job reaches a session that takes it, whoever claimed it and
\* died, was deleted or lost the answer.
NoticesArrive ==
  \A j \in 1..MaxJobs :
    (j \in DOMAIN notices) ~> (j \in delivered)
=============================================================================
