--------------------------- MODULE WorkflowLedger ----------------------------
(***************************************************************************)
(* The durable record of one workflow and the operators that write it.     *)
(* A ledger joins the three tables that every writer of a workflow must    *)
(* keep in step: its row in "workflows", its rows in "transition_events"   *)
(* and its rows in "idempotency" (internal/workflow/sqlite.go).  Each      *)
(* operator below is the effect of one SQLite transaction; the modules of  *)
(* the commands (jobs, execution, revisions, ...) compose them.            *)
(***************************************************************************)
EXTENDS WorkflowMachine, Naturals, Sequences

\* The types of its parts, over the keys K and artifact sets A a writer uses.
ResumeTargets == Blockable \cup {NoState}

RowType == [state : States, version : Nat, resume : ResumeTargets]

EventType(K, A) ==
  [from : States, to : States, version : Nat, key : K, artifacts : A]

RequestType(K, A) ==
  [expectedState : States, expectedVersion : Nat, next : States, key : K,
   artifacts : A, resume : ResumeTargets]

AnswerType(K, A) == [req : RequestType(K, A), result : RowType]

LedgerType(K, A) ==
  [state : States, version : Nat, resume : ResumeTargets,
   events : Seq(EventType(K, A)),
   idem : SUBSET AnswerType(K, A)]

\* What a writer leaves in the row: Workflow{State, StateVersion, ResumeTarget}.
Row(l) == [state |-> l.state, version |-> l.version, resume |-> l.resume]

\* SQLiteStore.Create: state created at version zero, no event, no key.
NewLedger == [state |-> "created", version |-> 0, resume |-> NoState,
              events |-> <<>>, idem |-> {}]

\* The keys of a ledger's events: transition_events is UNIQUE(workflow_id,
\* idempotency_key), so an insert that repeats one fails and rolls back.
EventKeys(l) == {l.events[i].key : i \in 1..Len(l.events)}

\* Set the row to next at the following version and append the audit event.
\* Every writer does exactly these two statements in one transaction.
Advance(l, next, resume, key, artifacts) ==
  [state |-> next, version |-> l.version + 1, resume |-> resume,
   events |-> Append(l.events, [from |-> l.state, to |-> next,
                                version |-> l.version + 1, key |-> key,
                                artifacts |-> artifacts]),
   idem |-> l.idem]

\* Mutant: the remembered row is the one before the update.
RememberOldVersion(l, req) ==
  [l EXCEPT !.idem = @ \cup
     {[req |-> req, result |-> [Row(l) EXCEPT !.version = l.version - 1]]}]

\* The writers that also answer replays keep the request and the row it left.
Remember(l, req) ==
  [l EXCEPT !.idem = @ \cup {[req |-> req, result |-> Row(l)]}]

-----------------------------------------------------------------------------
(* SQLiteStore.Transition: the answer to a request against a ledger.       *)

Request(state, version, next, key, artifacts, resume) ==
  [expectedState |-> state, expectedVersion |-> version, next |-> next,
   key |-> key, artifacts |-> artifacts, resume |-> resume]

\* The remembered answers under a request's key (idempotency's primary key
\* admits one), and whether one of them is to this very request (sameTransition).
AnswersTo(l, req) == {a \in l.idem : a.req.key = req.key}

IsReplay(l, req) == AnswersTo(l, req) # {}

SameTransition(l, req) == \E a \in AnswersTo(l, req) : a.req = req

\* Mutant: the state is compared, the version is not.
CASMatchesState(l, req) == l.state = req.expectedState

CASMatches(l, req) ==
  /\ l.state = req.expectedState
  /\ l.version = req.expectedVersion

\* The legality check, and the rule that a blocker resumes where it struck.
IsLegal(l, req) ==
  /\ CanTransition(l.state, req.next, l.resume)
  /\ req.next = "blocked" => req.resume \in Blockable /\ req.resume = l.state

\* The error Transition returns, in the order the code tests for them.
TransitionError(l, req) ==
  IF IsReplay(l, req)
  THEN IF SameTransition(l, req) THEN "none" ELSE "idempotency_reuse"
  ELSE IF ~CASMatches(l, req) THEN "cas_conflict"
  ELSE IF ~IsLegal(l, req) THEN "illegal_transition"
  ELSE IF req.key \in EventKeys(l) THEN "constraint" ELSE "none"

\* The resume target a transition leaves: set on blocking, cleared on leaving
\* blocked, otherwise untouched.
ResumeAfter(l, req) ==
  IF req.next = "blocked" THEN req.resume
  ELSE IF l.state = "blocked" THEN NoState ELSE l.resume

\* The ledger after a request whose error is "none".
AfterTransition(l, req) ==
  IF IsReplay(l, req) THEN l
  ELSE Remember(Advance(l, req.next, ResumeAfter(l, req), req.key,
                        req.artifacts), req)

\* Mutant: a replay is answered with the row as it is now.
TransitionResultNow(l, req) == Row(AfterTransition(l, req))

\* The row a successful request is answered with: the remembered one for a
\* replay, whatever the workflow has done since.
TransitionResult(l, req) ==
  IF IsReplay(l, req)
  THEN (CHOOSE a \in AnswersTo(l, req) : a.req = req).result
  ELSE Row(AfterTransition(l, req))

-----------------------------------------------------------------------------
(* What a well-kept ledger looks like.                                     *)

\* One event per version, each starting where the one before it ended, the
\* last one agreeing with the row.
Chained(l) ==
  /\ Len(l.events) = l.version
  /\ \A i \in 1..Len(l.events) :
       /\ l.events[i].version = i
       /\ l.events[i].from = IF i = 1 THEN "created" ELSE l.events[i-1].to
  /\ l.state = IF l.version = 0 THEN "created" ELSE l.events[l.version].to

\* A key names one event.
KeysUnique(l) ==
  \A i, j \in 1..Len(l.events) : l.events[i].key = l.events[j].key => i = j

\* A key is remembered once, with the event it caused and the row it left.
IdemAgrees(l) ==
  /\ \A a, b \in l.idem : a.req.key = b.req.key => a = b
  /\ \A a \in l.idem :
       LET i == a.req.expectedVersion + 1 IN
       /\ i \in 1..Len(l.events)
       /\ l.events[i].key = a.req.key
       /\ a.result.version = i
       /\ a.result.state = l.events[i].to

\* A blocked row, and no other, has a resume target; it is the state in which
\* the blocker struck, so the last event left exactly that state.
ResumeExact(l) ==
  IF l.state = "blocked"
  THEN /\ l.version > 0
       /\ l.resume \in Blockable
       /\ l.resume = l.events[l.version].from
  ELSE l.resume = NoState

\* The stages from planning to delivery, each with the states it may be entered
\* from.  Two of them are also entered by a repaired plan or check.
EnteredFrom ==
  [discovering |-> {"created", "replan_required"},
   ready |-> {"discovering", "replan_required", "integration_conflict"},
   executing |-> {"ready"},
   verifying |-> {"executing", "replan_required"},
   candidate_frozen |-> {"verifying"},
   reviewing |-> {"candidate_frozen"},
   receipted |-> {"reviewing"},
   delivered |-> {"receipted"}]

\* Each event enters its stage properly, or returns from a blocker (event i-1)
\* that struck in that stage.
InOrder(l) ==
  \A i \in 1..Len(l.events) :
    LET e == l.events[i] IN
    e.to \in DOMAIN EnteredFrom =>
      \/ e.from \in EnteredFrom[e.to]
      \/ e.from = "blocked" /\ i > 1 /\ l.events[i-1].from = e.to

=============================================================================

