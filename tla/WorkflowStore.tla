---------------------------- MODULE WorkflowStore ----------------------------
(***************************************************************************)
(* SQLiteStore.Get and SQLiteStore.Transition as commands of several       *)
(* processes use them: a command reads the row, decides on what it read,   *)
(* and later asks for a transition with that row as the expected one.      *)
(* Between the two, any other process may have moved the workflow.  A      *)
(* process may also miss the answer (it is killed, or the connection fails *)
(* after COMMIT) and repeat the request, or repeat its key for another.    *)
(***************************************************************************)
EXTENDS WorkflowLedger

CONSTANTS
  Clients,      \* processes that hold the database open
  Keys,         \* idempotency keys callers pass
  Goals,        \* states callers ask for
  MaxVersion    \* bound: no request is made on a later row

ASSUME GoalsAssumption == Goals \subseteq States
ASSUME MaxVersionAssumption == MaxVersion \in Nat

VARIABLES
  stored,       \* the workflow's record in the database
  basis,        \* basis[c]: the row client c decides on
  answers       \* history: (request, row) of every answer that was no error

storeVars == <<stored, basis, answers>>

StoreInit ==
  /\ stored = NewLedger
  /\ basis = [c \in Clients |-> Row(NewLedger)]
  /\ answers = {}

\* Get(id): a fresh look at the row.
Get(c) ==
  /\ basis' = [basis EXCEPT ![c] = Row(stored)]
  /\ UNCHANGED <<stored, answers>>

\* Requests a client may form from what it has seen.  A caller that blocks the
\* workflow names a resume target, and may name the wrong one.
RequestsOf(c) ==
  {req \in {Request(basis[c].state, basis[c].version, next, k, {}, r) :
              next \in Goals, k \in Keys, r \in {NoState} \cup Blockable} :
     req.next # "blocked" => req.resume = NoState}

\* Transition(req) commits, or replays what it committed before, and its answer
\* reaches the caller or is lost.  A refused request is rolled back: it leaves
\* everything as it was, its caller included.
Transition(c) ==
  \E req \in RequestsOf(c) :
    /\ req.expectedVersion < MaxVersion
    /\ TransitionError(stored, req) = "none"
    /\ stored' = AfterTransition(stored, req)
    /\ answers' = answers \cup
         {[req |-> req, result |-> TransitionResult(stored, req)]}
    /\ \/ basis' = [basis EXCEPT ![c] = TransitionResult(stored, req)]
       \/ UNCHANGED basis

StoreNext == \E c \in Clients : Get(c) \/ Transition(c)

StoreSpec == StoreInit /\ [][StoreNext]_storeVars

-----------------------------------------------------------------------------
StoreTypeOK ==
  /\ stored \in LedgerType(Keys, {{}})
  /\ basis \in [Clients -> RowType]
  /\ answers \subseteq AnswerType(Keys, {{}})

\* The audit trail is a gap-free account of the row: one event per version,
\* each starting where the one before it ended, the last one naming the row's
\* state (the UPDATE and the INSERT of Transition commit together).
HistoryChained == Chained(stored)

\* Committing one intent twice is impossible: a key names at most one event,
\* however often and by whomever the request is repeated, and the remembered
\* answer is the row that event left.
OneEffectPerKey == KeysUnique(stored) /\ IdemAgrees(stored)

\* A blocked row resumes exactly where it was blocked; no other row carries a
\* resume target that a later blocker could inherit.
ResumeIsExact == ResumeExact(stored)

\* Every pipeline stage is entered from the stage before it, or back from a
\* blocker that struck in that very stage: no sequence of legal transitions
\* skips verification, the freeze, or the review.
StagesInOrder == InOrder(stored)

\* What clients, whatever they repeat, keep of the audit trail.
TrailKept == HistoryChained /\ OneEffectPerKey /\ ResumeIsExact /\ StagesInOrder

\* Every client that asks with the same key hears of the same request and the
\* same row, even after the workflow has moved on.
ReplayIsStable ==
  \A a, b \in answers : a.req.key = b.req.key => a = b

\* No lost update: the row changes only by a client that decided on the row as
\* it stood.  Matching the state alone would let a decision taken before a
\* blocker and its resolution pass as current.
DecidedOnCurrentRow ==
  [][stored' # stored => \E c \in Clients : basis[c] = Row(stored)]_storeVars
=============================================================================
