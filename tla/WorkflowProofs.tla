---------------------------- MODULE WorkflowProofs ----------------------------
(***************************************************************************)
(* WorkflowStore's safety for any number of clients, keys and goals, then  *)
(* WorkflowJobs' for any number of launchers and foreground runs; for any  *)
(* bounds on versions, jobs and attempts.                                  *)
(***************************************************************************)
EXTENDS WorkflowStore, WorkflowJobs, WorkflowLedgerProofs

-----------------------------------------------------------------------------
(* The store.                                                               *)

\* A row some process holds is no newer than the database's, and if it is as
\* new it is the same row: versions never repeat, which is why comparing them
\* is enough and comparing states would not be.
IsPastRow(l, r) ==
  /\ r.version <= l.version
  /\ r.version = l.version => r = Row(l)

\* The inductive invariant.
StoreInv ==
  /\ StoreTypeOK
  /\ LedgerOK(stored, Keys, {{}})
  /\ IdemAgrees(stored)
  /\ answers \subseteq stored.idem
  /\ \A c \in Clients : IsPastRow(stored, basis[c])
  /\ \A a \in stored.idem : IsPastRow(stored, a.result)

\* No client and no answer has seen a row that was not written.
LEMMA StoreInitInv == StoreInit => StoreInv
<1> SUFFICES ASSUME StoreInit PROVE StoreInv
  OBVIOUS
<1>1. LedgerOK(stored, Keys, {{}}) /\ IdemAgrees(stored)
  BY NewLedgerOK DEF StoreInit
<1>2. /\ stored.idem = {} /\ stored.version = 0
      /\ \A c \in Clients : basis[c] = Row(stored)
      /\ basis = [c \in Clients |-> Row(stored)]
      /\ Row(stored).version = 0
  BY DEF StoreInit, NewLedger, Row
<1>3. stored \in LedgerType(Keys, {{}}) /\ Row(stored) \in RowType
  BY <1>1 DEF LedgerOK, LedgerType, Row, RowType
<1> QED
  BY <1>1, <1>2, <1>3 DEF StoreInit, StoreInv, StoreTypeOK, IsPastRow

\* The row an applied or replayed request is answered with, and its effect on
\* the answers remembered.
LEMMA AnswerFacts ==
  ASSUME StoreInv, NEW req \in RequestType(Keys, {{}}),
         TransitionError(stored, req) = "none"
  PROVE  LET m == AfterTransition(stored, req)
             a == [req |-> req, result |-> TransitionResult(stored, req)] IN
         /\ a \in m.idem
         /\ m.idem \subseteq stored.idem \cup {a}
         /\ stored.idem \subseteq m.idem
         /\ m = stored \/ /\ m.version = stored.version + 1
                          /\ a.result = Row(m)
                          /\ CASMatches(stored, req)
<1> DEFINE a == [req |-> req, result |-> TransitionResult(stored, req)]
<1>1. CASE IsReplay(stored, req)
  <2>1. PICK b \in AnswersTo(stored, req) : b.req = req
    BY <1>1 DEF TransitionError, SameTransition
  <2>2. \A b2 \in AnswersTo(stored, req) : b2 = b
    BY <2>1 DEF AnswersTo, StoreInv, IdemAgrees
  <2>3. TransitionResult(stored, req) = b.result
    BY <1>1, <2>1, <2>2 DEF TransitionResult
  <2>4. b \in AnswerType(Keys, {{}}) /\ b \in stored.idem
    BY <2>1 DEF AnswersTo, StoreInv, StoreTypeOK, LedgerType
  <2>5. a = b
    BY <2>1, <2>3, <2>4 DEF AnswerType
  <2> QED  BY <1>1, <2>4, <2>5 DEF AfterTransition
<1>2. CASE ~IsReplay(stored, req)
  <2>0. PICK d : d = Advance(stored, req.next, ResumeAfter(stored, req),
                             req.key, req.artifacts)
    OBVIOUS
  <2>1. AfterTransition(stored, req) = Remember(d, req)
    BY <1>2, <2>0 DEF AfterTransition
  <2>2. d.version = stored.version + 1 /\ d.idem = stored.idem
    BY <2>0 DEF Advance
  <2>3. d = [state |-> d.state, version |-> d.version, resume |-> d.resume,
             events |-> d.events, idem |-> d.idem]
    BY <2>0 DEF Advance
  <2>4. PICK m : m = Remember(d, req)
    OBVIOUS
  <2>5. m = [state |-> d.state, version |-> d.version, resume |-> d.resume,
             events |-> d.events,
             idem |-> d.idem \cup {[req |-> req, result |-> Row(d)]}]
    BY <2>3, <2>4 DEF Remember
  <2>6. Row(m) = Row(d)
    BY <2>5 DEF Row
  <2>7. TransitionResult(stored, req) = Row(d)
    BY <1>2, <2>1, <2>4, <2>6 DEF TransitionResult
  <2>8. CASMatches(stored, req)
    BY <1>2 DEF TransitionError
  <2> QED  BY <2>1, <2>2, <2>4, <2>5, <2>6, <2>7, <2>8
<1> QED  BY <1>1, <1>2
\* Both operations keep the inductive invariant.
LEMMA StoreNextInv == StoreInv /\ [StoreNext]_storeVars => StoreInv'
<1> SUFFICES ASSUME StoreInv, [StoreNext]_storeVars PROVE StoreInv'
  OBVIOUS
<1>1. ASSUME NEW c \in Clients, Get(c) PROVE StoreInv'
  <2>1. Row(stored) \in RowType /\ Row(stored).version = stored.version
        /\ stored.version \in Nat
    BY DEF StoreInv, StoreTypeOK, LedgerType, Row, RowType
  <2>2. stored' = stored /\ answers' = answers
        /\ basis' = [basis EXCEPT ![c] = Row(stored)]
    BY <1>1 DEF Get
  <2>3. StoreTypeOK'
    BY <2>1, <2>2 DEF StoreInv, StoreTypeOK
  <2>4. \A d \in Clients : IsPastRow(stored', basis'[d])
    BY <2>1, <2>2 DEF StoreInv, IsPastRow, StoreTypeOK
  <2>5. \A a \in stored'.idem : IsPastRow(stored', a.result)
    BY <2>2 DEF StoreInv, IsPastRow
  <2> QED  BY <2>2, <2>3, <2>4, <2>5 DEF StoreInv
<1>2. ASSUME NEW c \in Clients, Transition(c) PROVE StoreInv'
  <2>1. PICK req \in RequestsOf(c) :
          /\ TransitionError(stored, req) = "none"
          /\ stored' = AfterTransition(stored, req)
          /\ answers' = answers \cup
               {[req |-> req, result |-> TransitionResult(stored, req)]}
          /\ \/ basis' = [basis EXCEPT ![c] = TransitionResult(stored, req)]
             \/ UNCHANGED basis
    BY <1>2 DEF Transition
  <2>2. req \in RequestType(Keys, {{}})
    <3>1. /\ basis[c] \in RowType /\ Goals \subseteq States
          /\ Blockable \subseteq States
      BY GoalsAssumption DEF StoreInv, StoreTypeOK, Blockable, States
    <3>2. PICK next \in Goals, k \in Keys, r \in {NoState} \cup Blockable :
            req = Request(basis[c].state, basis[c].version, next, k, {}, r)
      BY DEF RequestsOf
    <3> QED  BY <3>1, <3>2 DEF Request, RequestType, RowType, ResumeTargets
  <2> DEFINE a == [req |-> req, result |-> TransitionResult(stored, req)]
  <2>3. /\ a \in stored'.idem
        /\ stored'.idem \subseteq stored.idem \cup {a}
        /\ stored.idem \subseteq stored'.idem
        /\ stored' = stored \/ /\ stored'.version = stored.version + 1
                               /\ a.result = Row(stored')
    BY <2>1, <2>2, AnswerFacts
  <2>4. LedgerOK(stored', Keys, {{}}) /\ IdemAgrees(stored')
    BY <2>1, <2>2, TransitionKeepsLedger DEF StoreInv
  <2>5. a.result = TransitionResult(stored, req) /\ answers' = answers \cup {a}
    BY <2>1
  <2> HIDE DEF a
  <2>6. /\ stored' \in LedgerType(Keys, {{}}) /\ stored'.version \in Nat
        /\ stored'.idem \subseteq AnswerType(Keys, {{}})
    BY <2>4 DEF LedgerOK, LedgerType
  <2>7. stored.version \in Nat /\ basis \in [Clients -> RowType]
        /\ \A d \in Clients : basis[d].version \in Nat
    BY DEF StoreInv, StoreTypeOK, LedgerType, RowType
  <2>8. a.result \in RowType /\ a.result.version \in Nat
    BY <2>3, <2>6 DEF AnswerType, RowType
  <2>9. \A b \in stored.idem : b.result.version \in Nat
    BY DEF StoreInv, StoreTypeOK, LedgerType, AnswerType, RowType
  <2>10. \A r : r.version \in Nat /\ IsPastRow(stored, r) => IsPastRow(stored', r)
    BY <2>3, <2>7 DEF IsPastRow
  <2>11. IsPastRow(stored', a.result)
    <3>1. CASE stored' = stored
      BY <2>3, <2>9, <2>10, <3>1 DEF StoreInv
    <3>2. CASE a.result = Row(stored')
      BY <2>6, <3>2 DEF IsPastRow, Row
    <3> QED  BY <2>3, <3>1, <3>2
  <2>12. \A d \in Clients : basis'[d] = basis[d] \/ basis'[d] = a.result
    BY <2>1, <2>5, <2>7
  <2>13. \A d \in Clients : IsPastRow(stored', basis'[d])
    <3> SUFFICES ASSUME NEW d \in Clients PROVE IsPastRow(stored', basis'[d])
      OBVIOUS
    <3>1. CASE basis'[d] = basis[d]
      BY <2>7, <2>10, <3>1 DEF StoreInv
    <3>2. CASE basis'[d] = a.result
      BY <2>11, <3>2 DEF IsPastRow
    <3> QED  BY <2>12, <3>1, <3>2
  <2>14. \A b \in stored'.idem : IsPastRow(stored', b.result)
    BY <2>3, <2>9, <2>10, <2>11 DEF StoreInv
  <2>15. answers' \subseteq stored'.idem
    BY <2>3, <2>5 DEF StoreInv
  <2>16. basis' \in [Clients -> RowType]
    BY <2>1, <2>5, <2>7, <2>8
  <2>17. StoreTypeOK'
    BY <2>6, <2>15, <2>16 DEF StoreTypeOK
  <2> QED  BY <2>4, <2>13, <2>14, <2>15, <2>17 DEF StoreInv
<1>3. CASE UNCHANGED storeVars
  BY <1>3 DEF storeVars, StoreInv, StoreTypeOK, IsPastRow
<1> QED  BY <1>1, <1>2, <1>3 DEF StoreNext

\* The inductive invariant holds throughout.
THEOREM StoreInvariant == StoreSpec => []StoreInv
  BY StoreInitInv, StoreNextInv, PTL DEF StoreSpec

\* The row, its events, its remembered answers and the rows the clients hold
\* keep their types (types.go, the tables of sqlite.go).
THEOREM StoreIsTyped == StoreSpec => []StoreTypeOK
<1>1. StoreInv => StoreTypeOK
  BY DEF StoreInv
<1> QED  BY <1>1, StoreInvariant, PTL

\* The audit trail accounts for the row, a key has one effect, resume targets
\* are exact and the pipeline is entered in order, whatever the clients do
\* (SQLiteStore.Transition and its retries).
THEOREM StoreSafety == StoreSpec => []TrailKept
<1>1. StoreInv => TrailKept
  BY DEF StoreInv, LedgerOK, TrailKept, HistoryChained, OneEffectPerKey,
         ResumeIsExact, StagesInOrder
<1> QED  BY <1>1, StoreInvariant, PTL

\* Two answers under one key are the same answer to the same request: a retry
\* of a lost reply learns exactly what the first attempt did.
THEOREM StoreReplay == StoreSpec => []ReplayIsStable
<1>1. StoreInv => ReplayIsStable
  BY DEF StoreInv, IdemAgrees, ReplayIsStable
<1> QED  BY <1>1, StoreInvariant, PTL

\* No lost update: the compare-and-set on state and version stands for a
\* comparison of the whole row.
THEOREM StoreNoLostUpdate == StoreSpec => DecidedOnCurrentRow
<1>1. StoreInv /\ [StoreNext]_storeVars =>
        [stored' # stored => \E c \in Clients : basis[c] = Row(stored)]_storeVars
  <2> SUFFICES ASSUME StoreInv, [StoreNext]_storeVars, stored' # stored
               PROVE  \E c \in Clients : basis[c] = Row(stored)
    OBVIOUS
  <2>1. PICK c \in Clients : Transition(c)
    BY DEF StoreNext, Get, storeVars
  <2>2. PICK req \in RequestsOf(c) :
          /\ TransitionError(stored, req) = "none"
          /\ stored' = AfterTransition(stored, req)
    BY <2>1 DEF Transition
  <2>3. req.expectedVersion = basis[c].version
    BY DEF RequestsOf, Request
  <2>4. CASMatches(stored, req)
    BY <2>2 DEF AfterTransition, TransitionError
  <2>5. basis[c] = Row(stored)
    BY <2>3, <2>4 DEF CASMatches, StoreInv, IsPastRow
  <2> QED  BY <2>5
<1> QED  BY <1>1, StoreInvariant, PTL DEF StoreSpec, DecidedOnCurrentRow

-----------------------------------------------------------------------------
(* The jobs.                                                                *)

\* Where the workflow stands, seen through a blocker.
Stage(l) == IF l.state = "blocked" THEN l.resume ELSE l.state

Past == {"verifying", "candidate_frozen", "replan_required", "aborted"}

\* The two keys that are used without looking whether they are free, by the end
\* of the execution and by the abort, are used once: neither step can recur.
KeysAreSpent(l) ==
  /\ <<"execution", 2>> \in EventKeys(l) => Stage(l) \in Past
  /\ <<"abort", 0>> \in EventKeys(l) => l.state = "aborted"

\* An event of FinishWorkflowJob belongs to an admitted job that failed and
\* stays failed, so a job that is still to be finished has caused none.
BlockersAreOfJobs ==
  \A i \in 1..Len(ledger.events) :
    LET e == ledger.events[i] IN
    e.key[1] = "job_failed" =>
      /\ e.key[2] \in Admitted
      /\ jobs[e.key[2]].state = "failed"
      /\ e.artifacts = {<<"job_blocker", e.key[2]>>}

\* Whoever is about to touch a job has an admitted one.
JobsAreKnown ==
  /\ suspects \subseteq Admitted
  /\ \A c \in cancelling : c.job \in Admitted
  /\ \A j \in JobIds : proc[j] # "none" => j \in Admitted
  /\ \A l \in Launchers :
       /\ launch[l].pc \in {"admitted", "created", "spawned"} =>
            launch[l].job \in Admitted
       /\ launch[l].pc \in {"retrying", "admitted"} =>
            launch[l].row.resume \in Blockable

\* A worker that writes its verdict has one.
FinishersHaveVerdicts ==
  \A j \in JobIds : proc[j] = "finishing" => exec[j] \in DOMAIN Verdict

-----------------------------------------------------------------------------
(* The database: what the writers of a workflow keep of its tables.        *)

\* The part of the invariant that speaks of ledger, jobs and notices alone.
DatabaseOK ==
  /\ LedgerOK(ledger, EventKey, ArtifactSet)
  /\ IdemAgrees(ledger)
  /\ KeysAreSpent(ledger)
  /\ BlockersAreOfJobs
  /\ OutcomeAnnounced
  /\ \A n \in notes : n.job \in Admitted

\* A job that has ended stays as it is, one that lives does not end.
EndsNothing ==
  /\ Len(jobs) <= Len(jobs')
  /\ \A j \in Admitted :
       IF jobs[j].state \in EndStates
       THEN /\ jobs'[j].state = jobs[j].state
            /\ jobs'[j].terminal = jobs[j].terminal
       ELSE jobs'[j].state \notin EndStates
  /\ \A j \in 1..Len(jobs') : j \notin Admitted => jobs'[j].state \notin EndStates

LEMMA EndsNothingKeepsDatabase ==
  ASSUME TypeOK, DatabaseOK, jobs' \in Seq(JobType), EndsNothing,
         UNCHANGED <<ledger, notes>>
  PROVE  DatabaseOK'
<1>1. Len(jobs) \in Nat /\ Len(jobs') \in Nat
  BY DEF TypeOK
<1>2. \A j \in Admitted : j \in 1..Len(jobs')
  BY <1>1 DEF Admitted, EndsNothing
<1>3. BlockersAreOfJobs'
  <2>1. \A j \in Admitted : jobs[j].state = "failed" => jobs'[j].state = "failed"
    BY DEF EndsNothing, EndStates
  <2> QED  BY <1>2, <2>1 DEF BlockersAreOfJobs, DatabaseOK, Admitted
<1>4. OutcomeAnnounced'
  <2>1. \A m, n \in notes' : m.job = n.job => m = n
    BY DEF DatabaseOK, OutcomeAnnounced
  <2>2. ASSUME NEW j \in 1..Len(jobs')
        PROVE  IF jobs'[j].state \in EndStates
               THEN /\ [job |-> j, terminal |-> jobs'[j].terminal] \in notes'
                    /\ jobs'[j].state = "failed"
                         => jobs'[j].terminal \notin Blockable
               ELSE \A n \in notes' : n.job # j
    <3>1. CASE j \notin Admitted
      BY <3>1 DEF EndsNothing, DatabaseOK
    <3>2. CASE j \in Admitted
      BY <3>2 DEF EndsNothing, DatabaseOK, OutcomeAnnounced
    <3> QED  BY <3>1, <3>2
  <2> QED  BY <2>1, <2>2 DEF OutcomeAnnounced, Admitted
<1> QED
  BY <1>2, <1>3, <1>4 DEF DatabaseOK, Admitted

\* FinishWorkflowJob.
LEMMA FinishKeepsDatabase ==
  ASSUME TypeOK, DatabaseOK, NEW j \in Admitted, NEW outcome \in EndStates,
         NEW displaced \in BOOLEAN, FinishJob(j, outcome, displaced)
  PROVE  /\ DatabaseOK'
         /\ jobs' \in Seq(JobType) /\ Len(jobs') = Len(jobs)
         /\ notes' \subseteq [job : JobIds, terminal : States]
         /\ ledger' \in LedgerType(EventKey, ArtifactSet)
         /\ \A n \in notes' : n.job \in 1..Len(jobs')
<1>1. CASE jobs[j].state \in EndStates
  BY <1>1 DEF FinishJob, DatabaseOK, TypeOK, LedgerOK, BlockersAreOfJobs,
              OutcomeAnnounced, Admitted
<1>2. CASE jobs[j].state \notin EndStates
  <2> DEFINE l == LedgerAfterFinish(j, outcome)
             terminal == l.state
  <2>1. RecordFinish(j, outcome, displaced, terminal)
    BY <1>2 DEF FinishJob
  <2>2. /\ jobs \in Seq(JobType) /\ Len(jobs) \in Nat /\ jobs[j] \in JobType
        /\ j \in JobIds /\ j \in 1..Len(jobs) /\ MaxJobs \in Nat
    BY JobsAssumption DEF TypeOK, Admitted, JobIds
  <2>3. /\ ledger' = l
        /\ LedgerOK(l, EventKey, ArtifactSet) /\ IdemAgrees(l)
        /\ terminal \in States
        /\ \/ /\ outcome = "failed" /\ ledger.state \in Blockable
              /\ OneLater(ledger, l, "blocked", ledger.state,
                          <<"job_failed", j>>, {<<"job_blocker", j>>})
           \/ l = ledger /\ (outcome = "failed" => ledger.state \notin Blockable)
    <3>1. CASE outcome = "failed" /\ ledger.state \in Blockable
      <4> DEFINE key == <<"job_failed", j>>
                 art == {<<"job_blocker", j>>}
      <4>1. l = Advance(ledger, "blocked", ledger.state, key, art)
        BY <3>1 DEF LedgerAfterFinish
      <4>2. /\ key \in EventKey /\ art \in ArtifactSet /\ "blocked" \in States
            /\ ledger.state \in ResumeTargets
        BY <2>2, <3>1 DEF EventKey, ArtifactSet, States, ResumeTargets, JobIds
      <4>3. key \notin EventKeys(ledger)
        <5>1. ASSUME NEW i \in 1..Len(ledger.events),
                     ledger.events[i].key = key
              PROVE  FALSE
          <6>1. key[1] = "job_failed" /\ key[2] = j
            OBVIOUS
          <6>2. jobs[j].state = "failed"
            BY <5>1, <6>1 DEF DatabaseOK, BlockersAreOfJobs
          <6> QED  BY <1>2, <6>2 DEF EndStates
        <5> QED  BY <5>1 DEF EventKeys
      <4>4. MayAdvance(ledger, "blocked", ledger.state, key)
        BY <3>1, <4>3 DEF MayAdvance, CanTransition
      <4> HIDE DEF key, art
      <4>5. LedgerOK(l, EventKey, ArtifactSet)
        BY <4>1, <4>2, <4>4, AdvanceKeepsLedger DEF DatabaseOK
      <4>6. IdemAgrees(l)
        BY <4>1, <4>2, AdvanceKeepsIdem DEF DatabaseOK
      <4>7. OneLater(ledger, l, "blocked", ledger.state, key, art)
        BY <4>1, <4>2, AdvanceAddsOne DEF DatabaseOK, LedgerOK
      <4> QED
        BY <2>1, <3>1, <4>2, <4>5, <4>6, <4>7
        DEF RecordFinish, OneLater, key, art
    <3>2. CASE ~(outcome = "failed" /\ ledger.state \in Blockable)
      BY <2>1, <3>2
      DEF LedgerAfterFinish, RecordFinish, DatabaseOK, LedgerOK, LedgerType
    <3> QED  BY <3>1, <3>2
  <2>4. outcome = "failed" => terminal \notin Blockable
    BY <2>3 DEF OneLater, Blockable
  <2> HIDE DEF l, terminal
  <2>5. /\ jobs' \in Seq(JobType) /\ Len(jobs') = Len(jobs)
        /\ jobs'[j].state = outcome /\ jobs'[j].terminal = terminal
        /\ \A k \in Admitted : k # j => jobs'[k] = jobs[k]
    <3> DEFINE job == Finished(jobs[j], outcome, displaced, terminal)
    <3>1. job \in JobType /\ job.state = outcome /\ job.terminal = terminal
      BY <2>2, <2>3 DEF Finished, JobType
    <3>2. jobs' = [jobs EXCEPT ![j] = job]
      BY <2>1 DEF RecordFinish
    <3> HIDE DEF job
    <3> QED  BY <2>2, <3>1, <3>2 DEF Admitted
  <2>6. /\ notes' = notes \cup {[job |-> j, terminal |-> terminal]}
        /\ \A n \in notes : n.job # j
    BY <1>2, <2>1 DEF RecordFinish, DatabaseOK, OutcomeAnnounced
  <2>7. notes' \subseteq [job : JobIds, terminal : States]
    BY <2>2, <2>3, <2>6 DEF TypeOK
  <2>8. \A n \in notes' : n.job \in 1..Len(jobs')
    BY <2>2, <2>5, <2>6 DEF DatabaseOK, Admitted
  <2>9. OutcomeAnnounced'
    <3>1. \A m, n \in notes' : m.job = n.job => m = n
      BY <2>6 DEF DatabaseOK, OutcomeAnnounced
    <3>2. ASSUME NEW k \in 1..Len(jobs')
          PROVE  IF jobs'[k].state \in EndStates
                 THEN /\ [job |-> k, terminal |-> jobs'[k].terminal] \in notes'
                      /\ jobs'[k].state = "failed"
                           => jobs'[k].terminal \notin Blockable
                 ELSE \A n \in notes' : n.job # k
      <4>1. CASE k = j
        BY <2>4, <2>5, <2>6, <4>1
      <4>2. CASE k # j
        BY <2>5, <2>6, <4>2 DEF DatabaseOK, OutcomeAnnounced, Admitted
      <4> QED  BY <4>1, <4>2
    <3> QED  BY <3>1, <3>2 DEF OutcomeAnnounced, Admitted
  <2>10. BlockersAreOfJobs'
    <3>1. \A k \in Admitted :
            jobs[k].state = "failed" => jobs'[k].state = "failed"
      BY <1>2, <2>5 DEF EndStates
    <3>2. CASE l = ledger
      BY <2>3, <2>5, <3>1, <3>2 DEF BlockersAreOfJobs, DatabaseOK, Admitted
    <3>3. CASE /\ outcome = "failed"
               /\ OneLater(ledger, l, "blocked", ledger.state,
                           <<"job_failed", j>>, {<<"job_blocker", j>>})
      <4>1. Len(ledger.events) \in Nat
        BY DEF DatabaseOK, LedgerOK, LedgerType
      <4>2. ASSUME NEW i \in 1..Len(ledger'.events),
                   ledger'.events[i].key[1] = "job_failed"
            PROVE  LET e == ledger'.events[i] IN
                   /\ e.key[2] \in 1..Len(jobs')
                   /\ jobs'[e.key[2]].state = "failed"
                   /\ e.artifacts = {<<"job_blocker", e.key[2]>>}
        <5>1. CASE i \in 1..Len(ledger.events)
          <6>1. ledger'.events[i] = ledger.events[i]
            BY <2>3, <3>3, <5>1 DEF OneLater
          <6> QED
            BY <2>5, <3>1, <4>2, <5>1, <6>1
            DEF DatabaseOK, BlockersAreOfJobs, Admitted
        <5>2. CASE i = Len(ledger.events) + 1
          <6>1. /\ ledger'.events[i].key = <<"job_failed", j>>
                /\ ledger'.events[i].artifacts = {<<"job_blocker", j>>}
            BY <2>3, <3>3, <5>2 DEF OneLater
          <6> QED  BY <2>2, <2>5, <3>3, <6>1
        <5> QED  BY <2>3, <3>3, <4>1, <5>1, <5>2 DEF OneLater
      <4> QED  BY <4>2 DEF BlockersAreOfJobs, Admitted
    <3> QED  BY <2>3, <3>2, <3>3
  <2>11. KeysAreSpent(ledger')
    BY <2>3 DEF OneLater, DatabaseOK, KeysAreSpent, Stage, Past, Blockable
  <2> QED
    BY <2>3, <2>5, <2>7, <2>8, <2>9, <2>10, <2>11
    DEF DatabaseOK, LedgerOK, Admitted
<1> QED  BY <1>1, <1>2

\* The database after an event that is not a job's: it may reuse no key of the
\* two that are spent, and leaves the stages that follow the execution only for
\* one another.
LEMMA EventKeepsDatabase ==
  ASSUME DatabaseOK, UNCHANGED <<jobs, notes>>,
         LedgerOK(ledger', EventKey, ArtifactSet), IdemAgrees(ledger'),
         NEW next, NEW resume, NEW key \in EventKey, NEW art,
         OneLater(ledger, ledger', next, resume, key, art),
         key[1] # "job_failed", ledger.state # "aborted",
         key = <<"abort", 0>> => next = "aborted",
         key = <<"execution", 2>> \/ Stage(ledger) \in Past
           => Stage(ledger') \in Past
  PROVE  DatabaseOK'
<1>1. Len(ledger.events) \in Nat
  BY DEF DatabaseOK, LedgerOK, LedgerType
<1>2. BlockersAreOfJobs'
  <2>1. ASSUME NEW i \in 1..Len(ledger'.events),
               ledger'.events[i].key[1] = "job_failed"
        PROVE  i \in 1..Len(ledger.events) /\ ledger'.events[i] = ledger.events[i]
    BY <1>1, <2>1 DEF OneLater
  <2> QED  BY <2>1 DEF DatabaseOK, BlockersAreOfJobs, Admitted
<1>3. KeysAreSpent(ledger')
  <2>1. <<"execution", 2>> \in EventKeys(ledger') => Stage(ledger') \in Past
    BY DEF OneLater, DatabaseOK, KeysAreSpent
  <2>2. <<"abort", 0>> \in EventKeys(ledger') => ledger'.state = "aborted"
    BY DEF OneLater, DatabaseOK, KeysAreSpent
  <2> QED  BY <2>1, <2>2 DEF KeysAreSpent
<1>4. OutcomeAnnounced' /\ (\A n \in notes : n.job \in Admitted)'
  BY DEF DatabaseOK, OutcomeAnnounced, Admitted
<1> QED  BY <1>2, <1>3, <1>4 DEF DatabaseOK

\* A transition the store accepted, under another key than those of jobs.
LEMMA TransitionKeepsDatabase ==
  ASSUME DatabaseOK, UNCHANGED <<jobs, notes>>,
         NEW req \in RequestType(EventKey, ArtifactSet),
         TransitionError(ledger, req) = "none",
         ledger' = AfterTransition(ledger, req),
         req.key[1] # "job_failed", req.key # <<"execution", 2>>,
         req.key = <<"abort", 0>> => req.next = "aborted",
         IF req.expectedState = "blocked" THEN req.next \in Blockable
         ELSE /\ req.expectedState # "aborted"
              /\ req.expectedState \in Past => req.next \in Past
  PROVE  DatabaseOK'
<1>1. LedgerOK(ledger', EventKey, ArtifactSet) /\ IdemAgrees(ledger')
  BY TransitionKeepsLedger DEF DatabaseOK
<1>2. CASE ledger' = ledger
  BY <1>2 DEF DatabaseOK, BlockersAreOfJobs, OutcomeAnnounced, Admitted
<1>3. CASE /\ CASMatches(ledger, req) /\ IsLegal(ledger, req)
           /\ OneLater(ledger, ledger', req.next, ResumeAfter(ledger, req),
                       req.key, req.artifacts)
  <2>1. req.key \in EventKey /\ ledger.state # "aborted"
    BY <1>3 DEF RequestType, CASMatches
  <2>2. Stage(ledger) \in Past => Stage(ledger') \in Past
    <3>1. CASE ledger.state = "blocked"
      <4>1. req.next = ledger.resume /\ req.next # "blocked"
        BY <1>3, <3>1
        DEF CASMatches, IsLegal, CanTransition, Forward, Blockable
      <4> QED  BY <1>3, <3>1, <4>1 DEF OneLater, Stage
    <3>2. CASE ledger.state # "blocked"
      BY <1>3, <3>2 DEF CASMatches, OneLater, Stage, Past
    <3> QED  BY <3>1, <3>2
  <2> QED  BY <1>1, <1>3, <2>1, <2>2, EventKeepsDatabase
<1> QED  BY <1>2, <1>3, TransitionAddsOne DEF DatabaseOK

\* completeExecutionIfReady, which writes the three tables itself.
LEMMA CompleteKeepsDatabase ==
  ASSUME DatabaseOK, UNCHANGED <<jobs, notes>>, NEW e, Complete(e)
  PROVE  DatabaseOK'
<1> DEFINE key == <<"execution", 2>>
           req == Request("executing", ledger.version, "verifying", key, {},
                          NoState)
<1>0. PICK d : d = Advance(ledger, "verifying", NoState, key, {})
  OBVIOUS
<1>1. /\ ledger.state = "executing"
      /\ ledger.resume = NoState /\ ledger \in LedgerType(EventKey, ArtifactSet)
      /\ ledger.version \in Nat /\ Len(ledger.events) = ledger.version
  BY DEF Complete, DatabaseOK, LedgerOK, ResumeExact, LedgerType, Chained
<1>2. ledger' = Remember(d, req)
  BY <1>0, <1>1 DEF Complete, Request
<1>3. /\ key \in EventKey /\ {} \in ArtifactSet /\ "verifying" \in States
      /\ NoState \in ResumeTargets
  BY DEF EventKey, ArtifactSet, States, ResumeTargets
<1>4. key \notin EventKeys(ledger)
  BY <1>1 DEF DatabaseOK, KeysAreSpent, Stage, Past
<1>5. MayAdvance(ledger, "verifying", NoState, key)
  BY <1>1, <1>4 DEF MayAdvance, CanTransition, Forward
<1>6. /\ req \in RequestType(EventKey, ArtifactSet)
      /\ req.key = key /\ req.expectedVersion = ledger.version
  BY <1>1, <1>3 DEF Request, RequestType, States
<1> HIDE DEF key, req
<1>7. /\ LedgerOK(d, EventKey, ArtifactSet) /\ IdemAgrees(d)
      /\ OneLater(ledger, d, "verifying", NoState, key, {})
      /\ d.idem = ledger.idem
  BY <1>0, <1>1, <1>3, <1>5, AdvanceKeepsLedger, AdvanceKeepsIdem,
     AdvanceAddsOne DEF DatabaseOK
<1>8. /\ LedgerOK(ledger', EventKey, ArtifactSet) /\ IdemAgrees(ledger')
  <2>1. ~IsReplay(ledger, req)
    BY <1>4, <1>6, FreshIsNoReplay DEF DatabaseOK
  <2>2. ~IsReplay(d, req)
    BY <1>7, <2>1 DEF IsReplay, AnswersTo
  <2>3. d.version = req.expectedVersion + 1 /\ d.events[d.version].key = req.key
    BY <1>1, <1>6, <1>7 DEF OneLater
  <2> QED  BY <1>2, <1>6, <1>7, <2>2, <2>3, RememberKeepsLedger
<1>9. OneLater(ledger, ledger', "verifying", NoState, key, {})
  <2>1. /\ ledger'.state = d.state /\ ledger'.version = d.version
        /\ ledger'.resume = d.resume /\ ledger'.events = d.events
        /\ EventKeys(ledger') = EventKeys(d)
    BY <1>2, <1>7, RememberAddsNone DEF LedgerOK
  <2> QED  BY <1>7, <2>1 DEF OneLater
<1>10. key[1] # "job_failed" /\ key # <<"abort", 0>>
  BY DEF key
<1>11. Stage(ledger') \in Past
  BY <1>9 DEF OneLater, Stage, Past
<1> QED
  BY <1>1, <1>3, <1>8, <1>9, <1>10, <1>11, EventKeepsDatabase

\* What TypeOK says of the processes.
ExecType == {"off", "stopped"} \cup Working \cup Returned

ProcessesTyped ==
  /\ proc \in [JobIds -> {"none", "spawned", "working", "finishing", "dead"}]
  /\ exec \in [Executors -> ExecType]
  /\ seen \in [Executors -> RowType]

-----------------------------------------------------------------------------
(* The inductive invariant.                                                *)

IInv ==
  /\ TypeOK
  /\ DatabaseOK
  /\ JobsAreKnown
  /\ FinishersHaveVerdicts

\* "start" has made the workflow ready by two transitions.
LEMMA InitIInv == Init => IInv
<1> SUFFICES ASSUME Init PROVE IInv
  OBVIOUS
<1> DEFINE req1 == Request("created", 0, "discovering", <<"start", 0>>, {},
                           NoState)
           req2 == Request("discovering", 1, "ready", <<"start", 1>>, {},
                           NoState)
<1>1. /\ req1 \in RequestType(EventKey, ArtifactSet)
      /\ req2 \in RequestType(EventKey, ArtifactSet)
  BY DEF Request, RequestType, States, ResumeTargets, EventKey, ArtifactSet
<1>2. /\ req1.key = <<"start", 0>> /\ req2.key = <<"start", 1>>
      /\ req1.expectedState = "created" /\ req2.expectedState = "discovering"
      /\ req1.expectedVersion = 0 /\ req2.expectedVersion = 1
      /\ req1.next = "discovering" /\ req2.next = "ready"
      /\ req1.resume = NoState /\ req2.resume = NoState
  BY DEF Request
<1>3. PICK l1 : l1 = AfterTransition(NewLedger, req1)
  OBVIOUS
<1>4. PICK l2 : l2 = AfterTransition(l1, req2)
  OBVIOUS
<1>5. ledger = l2
  BY <1>3, <1>4 DEF Init, ReadyLedger
<1> HIDE DEF req1, req2
<1>6. LedgerOK(NewLedger, EventKey, ArtifactSet) /\ IdemAgrees(NewLedger)
  BY NewLedgerOK
<1>7. /\ EventKeys(NewLedger) = {} /\ NewLedger.state = "created"
      /\ NewLedger.version = 0 /\ NewLedger.resume = NoState
      /\ Len(NewLedger.events) = 0
  BY DEF NewLedger, EventKeys
<1>8. ~IsReplay(NewLedger, req1) /\ TransitionError(NewLedger, req1) = "none"
  <2>1. ~IsReplay(NewLedger, req1)
    BY <1>6, <1>7, FreshIsNoReplay
  <2>2. CASMatches(NewLedger, req1) /\ IsLegal(NewLedger, req1)
    BY <1>2, <1>7 DEF CASMatches, IsLegal, CanTransition, Forward
  <2> QED  BY <1>7, <2>1, <2>2 DEF TransitionError
<1>9. LedgerOK(l1, EventKey, ArtifactSet) /\ IdemAgrees(l1)
  BY <1>1, <1>3, <1>6, <1>8, TransitionKeepsLedger
<1>10. OneLater(NewLedger, l1, "discovering", NoState, <<"start", 0>>, {})
  <2>1. l1 # NewLedger
    BY <1>3, <1>8 DEF AfterTransition, Remember, NewLedger
  <2>2. ResumeAfter(NewLedger, req1) = NoState /\ req1.artifacts = {}
    BY <1>2, <1>7 DEF ResumeAfter, req1, Request
  <2> QED  BY <1>1, <1>2, <1>3, <1>6, <1>8, <2>1, <2>2, TransitionAddsOne
<1>11. /\ l1.state = "discovering" /\ l1.version = 1 /\ l1.resume = NoState
       /\ EventKeys(l1) = {<<"start", 0>>} /\ Len(l1.events) = 1
       /\ l1.events[1].key = <<"start", 0>>
  BY <1>7, <1>10 DEF OneLater
<1>12. ~IsReplay(l1, req2) /\ TransitionError(l1, req2) = "none"
  <2>1. req2.key \notin EventKeys(l1)
    BY <1>2, <1>11
  <2>2. ~IsReplay(l1, req2)
    BY <1>9, <2>1, FreshIsNoReplay
  <2>3. CASMatches(l1, req2) /\ IsLegal(l1, req2)
    BY <1>2, <1>11 DEF CASMatches, IsLegal, CanTransition, Forward
  <2> QED  BY <2>1, <2>2, <2>3 DEF TransitionError
<1>13. LedgerOK(l2, EventKey, ArtifactSet) /\ IdemAgrees(l2)
  BY <1>1, <1>4, <1>9, <1>12, TransitionKeepsLedger
<1>14. OneLater(l1, l2, "ready", NoState, <<"start", 1>>, {})
  <2>1. l2 # l1
    <3>1. l2 = Remember(Advance(l1, "ready", ResumeAfter(l1, req2), req2.key,
                                req2.artifacts), req2)
      BY <1>2, <1>4, <1>12 DEF AfterTransition
    <3>2. l2.state = "ready"
      BY <3>1 DEF Remember, Advance
    <3> QED  BY <1>11, <3>2
  <2>2. ResumeAfter(l1, req2) = NoState /\ req2.artifacts = {}
    BY <1>2, <1>11 DEF ResumeAfter, req2, Request
  <2> QED  BY <1>1, <1>2, <1>4, <1>9, <1>12, <2>1, <2>2, TransitionAddsOne
<1>15. /\ l2.state = "ready" /\ Len(l2.events) = 2
       /\ EventKeys(l2) = {<<"start", 0>>, <<"start", 1>>}
       /\ \A i \in 1..Len(l2.events) : l2.events[i].key[1] = "start"
  <2>1. l2.events[1] = l1.events[1] /\ l2.events[2].key = <<"start", 1>>
    BY <1>11, <1>14 DEF OneLater
  <2>2. \A i \in 1..2 : i = 1 \/ i = 2
    OBVIOUS
  <2> QED  BY <1>11, <1>14, <2>1, <2>2 DEF OneLater
<1>16. jobs = <<>> /\ Len(jobs) = 0 /\ jobs \in Seq(JobType) /\ notes = {}
  BY DEF Init
<1>17. DatabaseOK
  BY <1>5, <1>13, <1>15, <1>16
  DEF DatabaseOK, KeysAreSpent, Stage, BlockersAreOfJobs, OutcomeAnnounced,
      Admitted
<1>18. NoRow \in RowType
  BY DEF NoRow, Row, NewLedger, RowType, States, ResumeTargets
<1>19. TypeOK
  BY <1>5, <1>13, <1>16, <1>18, JobsAssumption
  DEF Init, TypeOK, LedgerOK, IdleLauncher, Working, Holding
<1>20. JobsAreKnown /\ FinishersHaveVerdicts
  BY DEF Init, JobsAreKnown, FinishersHaveVerdicts, IdleLauncher
<1> QED  BY <1>17, <1>19, <1>20 DEF IInv

\* Steps that write no table keep the database as it is.
LEMMA ReaderKeepsDatabase ==
  ASSUME DatabaseOK, UNCHANGED <<ledger, jobs, notes>>
  PROVE  DatabaseOK'
  BY DEF DatabaseOK, BlockersAreOfJobs, OutcomeAnnounced, Admitted

\* One admitted job is written; it does not end by this, nor does one that has
\* ended change its outcome.
LEMMA JobWriteKeepsDatabase ==
  ASSUME TypeOK, DatabaseOK, NEW j \in Admitted, NEW job \in JobType,
         jobs' = [jobs EXCEPT ![j] = job], UNCHANGED <<ledger, notes>>,
         IF jobs[j].state \in EndStates
         THEN job.state = jobs[j].state /\ job.terminal = jobs[j].terminal
         ELSE job.state \notin EndStates
  PROVE  /\ DatabaseOK'
         /\ jobs' \in Seq(JobType) /\ Len(jobs') = Len(jobs)
<1>1. jobs \in Seq(JobType) /\ Len(jobs) \in Nat
  BY DEF TypeOK
<1>2. /\ jobs' \in Seq(JobType) /\ Len(jobs') = Len(jobs)
      /\ \A k \in Admitted : jobs'[k] = IF k = j THEN job ELSE jobs[k]
  BY <1>1 DEF Admitted
<1>3. EndsNothing
  BY <1>1, <1>2 DEF EndsNothing, Admitted
<1> QED  BY <1>2, <1>3, EndsNothingKeepsDatabase

\* What is known of jobs, and who has a verdict, when no table of jobs shrinks
\* and the processes and pointers stay.
LEMMA PointersStay ==
  ASSUME JobsAreKnown, Len(jobs) \in Nat, Len(jobs') \in Nat,
         Len(jobs) <= Len(jobs'),
         UNCHANGED <<proc, launch, suspects, cancelling>>
  PROVE  JobsAreKnown'
<1>1. \A j \in Admitted : j \in 1..Len(jobs')
  BY DEF Admitted
<1> QED  BY <1>1 DEF JobsAreKnown, Admitted

-----------------------------------------------------------------------------
(* Time, death and retirement.                                             *)

LEMMA LapseStep == ASSUME IInv, NEW j \in JobIds, Lapse(j) PROVE IInv'
<1>1. j \in Admitted /\ jobs[j] \in JobType /\ Len(jobs) \in Nat
  BY DEF Lapse, IsLive, IInv, TypeOK, Admitted
<1> DEFINE job == [jobs[j] EXCEPT !.fresh = FALSE]
<1>2. /\ job \in JobType /\ job.state = jobs[j].state
      /\ job.terminal = jobs[j].terminal
  BY <1>1 DEF JobType
<1>3. jobs' = [jobs EXCEPT ![j] = job]
  BY DEF Lapse
<1> HIDE DEF job
<1>4. DatabaseOK' /\ jobs' \in Seq(JobType) /\ Len(jobs') = Len(jobs)
  BY <1>1, <1>2, <1>3, JobWriteKeepsDatabase DEF Lapse, IInv
<1>5. TypeOK'
  BY <1>4 DEF Lapse, IInv, TypeOK, running, pending
<1>6. JobsAreKnown' /\ FinishersHaveVerdicts'
  BY <1>1, <1>4, PointersStay
  DEF Lapse, IInv, FinishersHaveVerdicts, running, pending
<1> QED  BY <1>4, <1>5, <1>6 DEF IInv

LEMMA BeatStep == ASSUME IInv, NEW j \in JobIds, Beat(j) PROVE IInv'
<1>1. j \in Admitted /\ jobs[j] \in JobType /\ Len(jobs) \in Nat
  BY DEF Beat, IInv, TypeOK, JobsAreKnown, Admitted
<1> DEFINE job == [jobs[j] EXCEPT !.fresh = TRUE]
<1>2. /\ job \in JobType /\ job.state = jobs[j].state
      /\ job.terminal = jobs[j].terminal
  BY <1>1 DEF JobType
<1>3. jobs' = [jobs EXCEPT ![j] = job]
  BY DEF Beat
<1> HIDE DEF job
<1>4. DatabaseOK' /\ jobs' \in Seq(JobType) /\ Len(jobs') = Len(jobs)
  BY <1>1, <1>2, <1>3, JobWriteKeepsDatabase DEF Beat, IInv
<1>5. TypeOK'
  BY <1>4 DEF Beat, IInv, TypeOK, running, pending
<1>6. JobsAreKnown' /\ FinishersHaveVerdicts'
  BY <1>1, <1>4, PointersStay
  DEF Beat, IInv, FinishersHaveVerdicts, running, pending
<1> QED  BY <1>4, <1>5, <1>6 DEF IInv

\* The worker's processes as a kill, a crash or a signal leaves them.
LEMMA KilledKeeps ==
  ASSUME TypeOK, FinishersHaveVerdicts, NEW j \in JobIds, Killed(j)
  PROVE  /\ ProcessesTyped'
         /\ FinishersHaveVerdicts'
         /\ \A k \in JobIds : proc'[k] # "none" => proc[k] # "none"
<1>1. NoRow \in RowType
  BY DEF NoRow, Row, NewLedger, RowType, States, ResumeTargets
<1>2. j \in Executors
  BY DEF Executors
<1> QED
  BY <1>1, <1>2
  DEF Killed, Alive, TypeOK, ProcessesTyped, ExecType, FinishersHaveVerdicts,
      Executors

LEMMA WorkerCrashStep ==
  ASSUME IInv, NEW j \in JobIds, WorkerCrash(j) PROVE IInv'
<1>1. /\ ProcessesTyped' /\ FinishersHaveVerdicts'
      /\ \A k \in JobIds : proc'[k] # "none" => proc[k] # "none"
  BY KilledKeeps DEF WorkerCrash, IInv
<1>2. UNCHANGED <<ledger, jobs, notes, patch, fence, launch, suspects,
                  cancelling>>
  BY DEF WorkerCrash, database, pending
<1>3. DatabaseOK'
  BY <1>2, ReaderKeepsDatabase DEF IInv
<1>4. TypeOK'
  BY <1>1, <1>2 DEF IInv, TypeOK, ProcessesTyped, ExecType
<1>5. JobsAreKnown'
  BY <1>1, <1>2 DEF IInv, JobsAreKnown, Admitted
<1> QED  BY <1>1, <1>3, <1>4, <1>5 DEF IInv

\* A foreground run is no job's worker.
LEMMA ForegroundSteps ==
  ASSUME IInv, NEW f \in Foreground, ForegroundStart(f) \/ ForegroundCrash(f)
  PROVE  IInv'
<1>1. UNCHANGED <<ledger, jobs, notes, patch, fence, proc, launch, suspects,
                  cancelling>>
  BY DEF ForegroundStart, ForegroundCrash, database, pending
<1>2. f \in Executors /\ f \notin JobIds /\ JobIds \subseteq Executors
  BY HoldersAreDistinct DEF Executors
<1>3. NoRow \in RowType
  BY DEF NoRow, Row, NewLedger, RowType, States, ResumeTargets
<1>4. /\ exec' \in [Executors -> ExecType] /\ seen' \in [Executors -> RowType]
      /\ \A j \in JobIds : exec'[j] = exec[j]
  BY <1>2, <1>3
  DEF ForegroundStart, ForegroundCrash, IInv, TypeOK, ExecType, Working
<1>5. DatabaseOK'
  BY <1>1, ReaderKeepsDatabase DEF IInv
<1>6. TypeOK'
  BY <1>1, <1>4 DEF IInv, TypeOK, ExecType
<1>7. JobsAreKnown' /\ FinishersHaveVerdicts'
  BY <1>1, <1>4 DEF IInv, JobsAreKnown, Admitted, FinishersHaveVerdicts
<1> QED  BY <1>5, <1>6, <1>7 DEF IInv

LEMMA FenceSteps ==
  ASSUME IInv, FenceLapse \/ \E e \in Executors : FenceReclaim(e)
  PROVE  IInv'
<1>1. UNCHANGED <<ledger, jobs, notes, patch, proc, exec, seen, launch,
                  suspects, cancelling>>
      /\ fence' \in Executors \cup {None}
  BY DEF FenceLapse, FenceReclaim, database, running, pending
<1>2. DatabaseOK'
  BY <1>1, ReaderKeepsDatabase DEF IInv
<1>3. TypeOK' /\ JobsAreKnown' /\ FinishersHaveVerdicts'
  BY <1>1 DEF IInv, TypeOK, JobsAreKnown, Admitted, FinishersHaveVerdicts
<1> QED  BY <1>2, <1>3 DEF IInv

LEMMA ObserveStep == ASSUME IInv, NEW j \in JobIds, Observe(j) PROVE IInv'
<1>1. UNCHANGED <<ledger, jobs, notes, patch, fence, proc, exec, seen, launch,
                  cancelling>>
      /\ suspects' = suspects \cup {j} /\ j \in Admitted
  BY DEF Observe, IsStale, IsLive, database, running
<1>2. DatabaseOK'
  BY <1>1, ReaderKeepsDatabase DEF IInv
<1>3. TypeOK' /\ JobsAreKnown' /\ FinishersHaveVerdicts'
  BY <1>1 DEF IInv, TypeOK, JobsAreKnown, Admitted, FinishersHaveVerdicts
<1> QED  BY <1>2, <1>3 DEF IInv

\* What any step that finishes a job leaves; the rest of it moves processes
\* and pointers.
LEMMA FinishStep ==
  ASSUME IInv, NEW j \in Admitted, NEW outcome \in EndStates,
         NEW displaced \in BOOLEAN, FinishJob(j, outcome, displaced),
         UNCHANGED <<patch, fence>>,
         ProcessesTyped', FinishersHaveVerdicts',
         \A k \in JobIds : proc'[k] # "none" => proc[k] # "none",
         suspects' \subseteq suspects, cancelling' \subseteq cancelling,
         launch' = launch \/ \E l \in Launchers : LauncherAt(l, "idle", NoRow, 0)
  PROVE  IInv'
<1>1. /\ DatabaseOK' /\ jobs' \in Seq(JobType) /\ Len(jobs') = Len(jobs)
      /\ notes' \subseteq [job : JobIds, terminal : States]
      /\ ledger' \in LedgerType(EventKey, ArtifactSet)
  BY FinishKeepsDatabase DEF IInv
<1>2. NoRow \in RowType
  BY DEF NoRow, Row, NewLedger, RowType, States, ResumeTargets
<1> DEFINE idle == [pc |-> "idle", row |-> NoRow, job |-> 0]
<1>3. launch' = launch \/ \E l \in Launchers : launch' = [launch EXCEPT ![l] = idle]
  BY DEF LauncherAt
<1>4. /\ idle \in [pc : {"idle", "checked", "retrying", "admitted", "creating",
                         "created", "spawned"},
                   row : RowType, job : {0} \cup JobIds]
      /\ idle.pc = "idle"
  BY <1>2
<1> HIDE DEF idle
<1>5. TypeOK'
  BY <1>1, <1>3, <1>4 DEF IInv, TypeOK, ProcessesTyped, ExecType
<1>6. \A l \in Launchers : launch'[l] = launch[l] \/ launch'[l].pc = "idle"
  BY <1>3, <1>4 DEF IInv, TypeOK
<1>7. JobsAreKnown'
  BY <1>1, <1>6 DEF IInv, JobsAreKnown, Admitted
<1> QED  BY <1>1, <1>5, <1>7 DEF IInv

LEMMA RetireStep == ASSUME IInv, NEW j \in JobIds, Retire(j) PROVE IInv'
<1>1. /\ j \in Admitted /\ FinishJob(j, "failed", FALSE) /\ "failed" \in EndStates
      /\ UNCHANGED <<patch, fence, proc, exec, seen, launch, cancelling>>
      /\ suspects' \subseteq suspects
  BY DEF Retire, IInv, JobsAreKnown, EndStates, running
<1>2. ProcessesTyped' /\ FinishersHaveVerdicts'
  BY <1>1 DEF IInv, TypeOK, ProcessesTyped, ExecType, FinishersHaveVerdicts
<1> QED  BY <1>1, <1>2, FinishStep

LEMMA CancelFinishStep ==
  ASSUME IInv, NEW c \in cancelling, CancelFinish(c) PROVE IInv'
<1>1. /\ c.job \in Admitted /\ FinishJob(c.job, "cancelled", FALSE)
      /\ "cancelled" \in EndStates /\ c.job \in JobIds
      /\ UNCHANGED <<patch, fence, launch, suspects>>
      /\ cancelling' \subseteq cancelling
  BY DEF CancelFinish, IInv, TypeOK, JobsAreKnown, EndStates
<1>2. /\ ProcessesTyped' /\ FinishersHaveVerdicts'
      /\ \A k \in JobIds : proc'[k] # "none" => proc[k] # "none"
  <2>1. CASE UNCHANGED running
    BY <2>1 DEF IInv, TypeOK, ProcessesTyped, ExecType, FinishersHaveVerdicts,
                running
  <2>2. CASE Killed(c.job)
    BY <1>1, <2>2, KilledKeeps DEF IInv
  <2> QED  BY <2>1, <2>2 DEF CancelFinish
<1> QED  BY <1>1, <1>2, FinishStep

-----------------------------------------------------------------------------
(* The launcher.                                                           *)

LaunchType ==
  [pc : {"idle", "checked", "retrying", "admitted", "creating", "created",
         "spawned"}, row : RowType, job : {0} \cup JobIds]

\* A launcher that goes on with a job it may rely on, or with none.
LEMMA LauncherMoves ==
  ASSUME TypeOK, JobsAreKnown, NEW l \in Launchers, NEW pc, NEW row, NEW job,
         [pc |-> pc, row |-> row, job |-> job] \in LaunchType,
         LauncherAt(l, pc, row, job),
         jobs' \in Seq(JobType), Len(jobs) <= Len(jobs'),
         pc \in {"admitted", "created", "spawned"} => job \in 1..Len(jobs'),
         pc \in {"retrying", "admitted"} => row.resume \in Blockable,
         \A k \in JobIds : proc'[k] # "none" => k \in 1..Len(jobs'),
         UNCHANGED <<suspects, cancelling>>
  PROVE  launch' \in [Launchers -> LaunchType] /\ JobsAreKnown'
<1>1. Len(jobs) \in Nat /\ Len(jobs') \in Nat /\ launch \in [Launchers -> LaunchType]
  BY DEF TypeOK, LaunchType
<1>2. \A j \in Admitted : j \in 1..Len(jobs')
  BY <1>1 DEF Admitted
<1> DEFINE r == [pc |-> pc, row |-> row, job |-> job]
<1>3. /\ r \in LaunchType /\ r.pc = pc /\ r.row = row /\ r.job = job
      /\ launch' = [launch EXCEPT ![l] = r]
  BY DEF LauncherAt
<1> HIDE DEF r
<1>4. /\ launch' \in [Launchers -> LaunchType]
      /\ \A k \in Launchers : launch'[k] = IF k = l THEN r ELSE launch[k]
  BY <1>1, <1>3
<1>5. \A k \in Launchers :
        /\ launch'[k].pc \in {"admitted", "created", "spawned"} =>
             launch'[k].job \in 1..Len(jobs')
        /\ launch'[k].pc \in {"retrying", "admitted"} =>
             launch'[k].row.resume \in Blockable
  <2> SUFFICES ASSUME NEW k \in Launchers
               PROVE  /\ launch'[k].pc \in {"admitted", "created", "spawned"} =>
                           launch'[k].job \in 1..Len(jobs')
                      /\ launch'[k].pc \in {"retrying", "admitted"} =>
                           launch'[k].row.resume \in Blockable
    OBVIOUS
  <2>1. CASE k = l
    BY <1>3, <1>4, <2>1
  <2>2. CASE k # l
    BY <1>2, <1>4, <2>2 DEF JobsAreKnown
  <2> QED  BY <2>1, <2>2
<1> QED  BY <1>2, <1>4, <1>5 DEF JobsAreKnown, Admitted

\* The steps that only read.
LEMMA LauncherReads ==
  ASSUME IInv, NEW l \in Launchers,
         LaunchCheck(l) \/ QueueRead(l) \/ RetryCheck(l) \/ LauncherEnds(l)
  PROVE  IInv'
<1>1. UNCHANGED <<ledger, jobs, notes, patch, fence, proc, exec, seen, suspects,
                  cancelling>>
  BY DEF LaunchCheck, QueueRead, RetryCheck, LauncherEnds, database, running
<1>2. DatabaseOK'
  BY <1>1, ReaderKeepsDatabase DEF IInv
<1>3. /\ NoRow \in RowType /\ Row(ledger) \in RowType
      /\ Row(ledger).resume = ledger.resume
      /\ ledger.state = "blocked" => ledger.resume \in Blockable
      /\ launch[l] \in LaunchType /\ launch[l].row \in RowType
      /\ jobs \in Seq(JobType) /\ Len(jobs) \in Nat /\ Len(jobs) <= MaxJobs
  BY DEF NoRow, Row, NewLedger, RowType, States, ResumeTargets, IInv, TypeOK,
         LedgerType, DatabaseOK, LedgerOK, ResumeExact, LaunchType
<1>4. \A k \in JobIds : proc'[k] # "none" => k \in 1..Len(jobs')
  BY <1>1 DEF IInv, JobsAreKnown, Admitted
<1>5. launch' \in [Launchers -> LaunchType] /\ JobsAreKnown'
  <2>1. CASE LaunchCheck(l) \/ LauncherEnds(l)
    <3> PICK pc \in {"checked", "idle"} : LauncherAt(l, pc, NoRow, 0)
      BY <2>1 DEF LaunchCheck, LauncherEnds
    <3>1. [pc |-> pc, row |-> NoRow, job |-> 0] \in LaunchType
      BY <1>3 DEF LaunchType
    <3> QED  BY <1>1, <1>3, <1>4, <3>1, LauncherMoves DEF IInv
  <2>2. CASE QueueRead(l)
    <3>1. CASE ledger.state = "blocked"
      <4>1. LauncherAt(l, "retrying", Row(ledger), 0)
        BY <2>2, <3>1 DEF QueueRead
      <4>2. [pc |-> "retrying", row |-> Row(ledger), job |-> 0] \in LaunchType
        BY <1>3 DEF LaunchType
      <4> QED  BY <1>1, <1>3, <1>4, <3>1, <4>1, <4>2, LauncherMoves DEF IInv
    <3>2. CASE ledger.state # "blocked"
      <4>1. LauncherAt(l, "creating", NoRow, 0)
        BY <2>2, <3>2 DEF QueueRead
      <4>2. [pc |-> "creating", row |-> NoRow, job |-> 0] \in LaunchType
        BY <1>3 DEF LaunchType
      <4> QED  BY <1>1, <1>3, <1>4, <4>1, <4>2, LauncherMoves DEF IInv
    <3> QED  BY <3>1, <3>2
  <2>3. CASE RetryCheck(l)
    <3>1. /\ launch[l].pc = "retrying"
          /\ LauncherAt(l, "admitted", launch[l].row, Len(jobs))
          /\ jobs # <<>>
      BY <2>3 DEF RetryCheck, RetryAdmits
    <3>2. Len(jobs) \in JobIds /\ Len(jobs) \in 1..Len(jobs)
      BY <1>3, <3>1, JobsAssumption DEF JobIds
    <3>3. launch[l].row.resume \in Blockable
      BY <3>1 DEF IInv, JobsAreKnown
    <3>4. [pc |-> "admitted", row |-> launch[l].row, job |-> Len(jobs)]
            \in LaunchType
      BY <1>3, <3>2 DEF LaunchType
    <3> QED
      BY <1>1, <1>3, <1>4, <3>1, <3>2, <3>3, <3>4, LauncherMoves DEF IInv
  <2> QED  BY <2>1, <2>2, <2>3
<1>6. TypeOK'
  BY <1>1, <1>5 DEF IInv, TypeOK, LaunchType
<1>7. FinishersHaveVerdicts'
  BY <1>1 DEF IInv, FinishersHaveVerdicts
<1> QED  BY <1>2, <1>5, <1>6, <1>7 DEF IInv

\* RetryTechnicalWorkflowJob's transition: back to where the blocker struck.
LEMMA RetryCommitStep ==
  ASSUME IInv, NEW l \in Launchers, RetryCommit(l) PROVE IInv'
<1> DEFINE row == launch[l].row
           key == <<"technical_retry", launch[l].job>>
           req == Request("blocked", row.version, row.resume, key, {}, NoState)
<1>1. /\ TransitionError(ledger, req) = "none"
      /\ ledger' = AfterTransition(ledger, req)
      /\ launch[l].pc = "admitted" /\ LauncherAt(l, "creating", NoRow, 0)
      /\ UNCHANGED <<jobs, notes, patch, fence, proc, exec, seen, suspects,
                     cancelling>>
  BY DEF RetryCommit, running
<1>2. /\ row \in RowType /\ row.resume \in Blockable /\ launch[l].job \in Nat
      /\ jobs \in Seq(JobType) /\ Len(jobs) \in Nat /\ NoRow \in RowType
  BY <1>1 DEF IInv, TypeOK, JobsAreKnown, JobIds, NoRow, Row, NewLedger,
              RowType, States, ResumeTargets
<1>3. /\ req \in RequestType(EventKey, ArtifactSet) /\ req.key = key
      /\ req.expectedState = "blocked" /\ req.next \in Blockable
  BY <1>2 DEF Request, RequestType, RowType, EventKey, ArtifactSet, States,
              ResumeTargets, Blockable
<1>4. key[1] # "job_failed" /\ key # <<"execution", 2>> /\ key # <<"abort", 0>>
  OBVIOUS
<1> HIDE DEF key, req
<1>5. DatabaseOK'
  BY <1>1, <1>3, <1>4, TransitionKeepsDatabase DEF IInv
<1>6. launch' \in [Launchers -> LaunchType] /\ JobsAreKnown'
  <2>1. [pc |-> "creating", row |-> NoRow, job |-> 0] \in LaunchType
    BY <1>2 DEF LaunchType
  <2>2. \A k \in JobIds : proc'[k] # "none" => k \in 1..Len(jobs')
    BY <1>1 DEF IInv, JobsAreKnown, Admitted
  <2> QED  BY <1>1, <1>2, <2>1, <2>2, LauncherMoves DEF IInv
<1>7. TypeOK'
  BY <1>1, <1>5, <1>6 DEF IInv, TypeOK, LaunchType, DatabaseOK, LedgerOK
<1>8. FinishersHaveVerdicts'
  BY <1>1 DEF IInv, FinishersHaveVerdicts
<1> QED  BY <1>5, <1>6, <1>7, <1>8 DEF IInv

LEMMA CreateStep == ASSUME IInv, NEW l \in Launchers, Create(l) PROVE IInv'
<1>1. /\ UNCHANGED <<ledger, notes, patch, fence, proc, exec, seen, suspects,
                     cancelling>>
      /\ jobs' = Append(jobs, NewJob) /\ Len(jobs) < MaxJobs
      /\ LauncherAt(l, "created", NoRow, Len(jobs'))
  BY DEF Create, running
<1>2. /\ NewJob \in JobType /\ NewJob.state = "queued" /\ NoRow \in RowType
      /\ jobs \in Seq(JobType) /\ Len(jobs) \in Nat /\ MaxJobs \in Nat
  BY JobsAssumption
  DEF NewJob, JobType, LiveStates, IInv, TypeOK, NoRow, Row, NewLedger, RowType,
      States, ResumeTargets
<1>3. /\ jobs' \in Seq(JobType) /\ Len(jobs') = Len(jobs) + 1
      /\ \A j \in 1..Len(jobs) : jobs'[j] = jobs[j]
      /\ jobs'[Len(jobs) + 1] = NewJob
  BY <1>1, <1>2
<1>4. EndsNothing
  <2>1. \A j \in 1..Len(jobs') : j \notin Admitted => j = Len(jobs) + 1
    BY <1>2, <1>3 DEF Admitted
  <2> QED  BY <1>2, <1>3, <2>1 DEF EndsNothing, Admitted, EndStates
<1>5. DatabaseOK'
  BY <1>1, <1>3, <1>4, EndsNothingKeepsDatabase DEF IInv
<1>6. launch' \in [Launchers -> LaunchType] /\ JobsAreKnown'
  <2>1. Len(jobs') \in JobIds /\ Len(jobs') \in 1..Len(jobs')
    BY <1>1, <1>2, <1>3 DEF JobIds
  <2>2. [pc |-> "created", row |-> NoRow, job |-> Len(jobs')] \in LaunchType
    BY <1>2, <2>1 DEF LaunchType
  <2>3. \A k \in JobIds : proc'[k] # "none" => k \in 1..Len(jobs')
    BY <1>1, <1>2, <1>3 DEF IInv, JobsAreKnown, Admitted
  <2> QED  BY <1>1, <1>2, <1>3, <2>1, <2>2, <2>3, LauncherMoves DEF IInv
<1>7. TypeOK'
  BY <1>1, <1>2, <1>3, <1>6 DEF IInv, TypeOK, LaunchType
<1>8. FinishersHaveVerdicts'
  BY <1>1 DEF IInv, FinishersHaveVerdicts
<1> QED  BY <1>5, <1>6, <1>7, <1>8 DEF IInv

LEMMA SpawnStep == ASSUME IInv, NEW l \in Launchers, Spawn(l) PROVE IInv'
<1> DEFINE j == launch[l].job
<1>1. /\ UNCHANGED <<ledger, jobs, notes, patch, fence, exec, seen, suspects,
                     cancelling>>
      /\ launch[l].pc = "created" /\ LauncherAt(l, "spawned", NoRow, j)
      /\ proc' = [proc EXCEPT ![j] = "spawned"]
  BY DEF Spawn, database
<1>2. /\ j \in Admitted /\ j \in JobIds /\ NoRow \in RowType
      /\ jobs \in Seq(JobType) /\ Len(jobs) \in Nat
  BY <1>1, JobsAssumption
  DEF IInv, JobsAreKnown, TypeOK, Admitted, JobIds, NoRow, Row, NewLedger,
      RowType, States, ResumeTargets
<1>3. DatabaseOK'
  BY <1>1, ReaderKeepsDatabase DEF IInv
<1>4. launch' \in [Launchers -> LaunchType] /\ JobsAreKnown'
  <2>1. [pc |-> "spawned", row |-> NoRow, job |-> j] \in LaunchType
    BY <1>2 DEF LaunchType
  <2>2. \A k \in JobIds : proc'[k] # "none" => k \in 1..Len(jobs')
    BY <1>1, <1>2 DEF IInv, TypeOK, JobsAreKnown, Admitted
  <2>3. j \in 1..Len(jobs')
    BY <1>1, <1>2 DEF Admitted
  <2> HIDE DEF j
  <2> QED  BY <1>1, <1>2, <2>1, <2>2, <2>3, LauncherMoves DEF IInv
<1>5. TypeOK' /\ FinishersHaveVerdicts'
  BY <1>1, <1>2, <1>4 DEF IInv, TypeOK, LaunchType, FinishersHaveVerdicts
<1> QED  BY <1>3, <1>4, <1>5 DEF IInv

LEMMA SetPIDStep == ASSUME IInv, NEW l \in Launchers, SetPID(l) PROVE IInv'
<1> DEFINE j == launch[l].job
           job == [jobs[j] EXCEPT !.pid = TRUE]
<1>1. /\ UNCHANGED <<ledger, notes, patch, fence, proc, exec, seen, suspects,
                     cancelling>>
      /\ launch[l].pc = "spawned" /\ LauncherAt(l, "idle", NoRow, 0)
      /\ jobs' = [jobs EXCEPT ![j] = job]
  BY DEF SetPID, running
<1>2. /\ j \in Admitted /\ NoRow \in RowType /\ jobs[j] \in JobType
      /\ jobs \in Seq(JobType) /\ Len(jobs) \in Nat
  BY <1>1
  DEF IInv, JobsAreKnown, TypeOK, Admitted, NoRow, Row, NewLedger,
      RowType, States, ResumeTargets
<1>3. /\ job \in JobType /\ job.state = jobs[j].state
      /\ job.terminal = jobs[j].terminal
  BY <1>2 DEF JobType
<1> HIDE DEF job, j
<1>4. DatabaseOK' /\ jobs' \in Seq(JobType) /\ Len(jobs') = Len(jobs)
  BY <1>1, <1>2, <1>3, JobWriteKeepsDatabase DEF IInv
<1>5. launch' \in [Launchers -> LaunchType] /\ JobsAreKnown'
  <2>1. [pc |-> "idle", row |-> NoRow, job |-> 0] \in LaunchType
    BY <1>2 DEF LaunchType
  <2>2. \A k \in JobIds : proc'[k] # "none" => k \in 1..Len(jobs')
    BY <1>1, <1>4 DEF IInv, JobsAreKnown, Admitted
  <2> QED  BY <1>1, <1>2, <1>4, <2>1, <2>2, LauncherMoves DEF IInv
<1>6. TypeOK' /\ FinishersHaveVerdicts'
  BY <1>1, <1>4, <1>5 DEF IInv, TypeOK, LaunchType, FinishersHaveVerdicts
<1> QED  BY <1>4, <1>5, <1>6 DEF IInv

\* The two launches that fail finish their job.
LEMMA LaunchFails ==
  ASSUME IInv, NEW l \in Launchers, SpawnFails(l) \/ SetPIDFails(l)
  PROVE  IInv'
<1>1. /\ FinishJob(launch[l].job, "failed", FALSE) /\ "failed" \in EndStates
      /\ launch[l].pc \in {"created", "spawned"}
      /\ LauncherAt(l, "idle", NoRow, 0)
      /\ UNCHANGED <<patch, fence, suspects, cancelling>>
  BY DEF SpawnFails, SetPIDFails, EndStates
<1>2. launch[l].job \in Admitted /\ launch[l].job \in JobIds
  BY <1>1, JobsAssumption DEF IInv, TypeOK, JobsAreKnown, Admitted, JobIds
<1>3. /\ ProcessesTyped' /\ FinishersHaveVerdicts'
      /\ \A k \in JobIds : proc'[k] # "none" => proc[k] # "none"
  <2>1. CASE SpawnFails(l)
    BY <2>1 DEF SpawnFails, IInv, TypeOK, ProcessesTyped, ExecType,
                FinishersHaveVerdicts, running
  <2>2. CASE SetPIDFails(l)
    BY <1>2, <2>2, KilledKeeps DEF SetPIDFails, IInv
  <2> QED  BY <2>1, <2>2
<1> QED  BY <1>1, <1>2, <1>3, FinishStep

-----------------------------------------------------------------------------
(* The executor.                                                           *)

\* An executor that goes on: it is nobody who writes a verdict.
LEMMA ExecutorMoves ==
  ASSUME IInv, NEW e \in Executors, exec[e] \in Working, NEW x \in ExecType,
         exec' = [exec EXCEPT ![e] = x],
         seen' = seen \/ \E r \in RowType : seen' = [seen EXCEPT ![e] = r],
         fence' \in Executors \cup {None},
         patch' \in {"open", "applied", "revoked"},
         UNCHANGED <<jobs, notes, proc, launch, suspects, cancelling>>,
         DatabaseOK'
  PROVE  IInv'
<1>1. exec' \in [Executors -> ExecType] /\ seen' \in [Executors -> RowType]
  BY DEF IInv, TypeOK, ExecType
<1>2. TypeOK'
  BY <1>1 DEF IInv, TypeOK, ExecType, DatabaseOK, LedgerOK
<1>3. FinishersHaveVerdicts'
  <2>1. \A y \in Working : y \notin DOMAIN Verdict
    BY DEF Working, Holding, Verdict
  <2>2. JobIds \subseteq Executors /\ exec \in [Executors -> ExecType]
    BY DEF Executors, IInv, TypeOK, ExecType
  <2> QED  BY <2>1, <2>2 DEF IInv, FinishersHaveVerdicts
<1>4. JobsAreKnown'
  BY DEF IInv, JobsAreKnown, Admitted
<1> QED  BY <1>2, <1>3, <1>4 DEF IInv

\* Return as ExecutorMoves wants it.
LEMMA ReturnMoves ==
  ASSUME IInv, NEW e \in Executors, NEW outcome \in Returned,
         Return(e, outcome)
  PROVE  /\ \E x \in ExecType : exec' = [exec EXCEPT ![e] = x]
         /\ \E r \in RowType : seen' = [seen EXCEPT ![e] = r]
         /\ fence' \in Executors \cup {None}
         /\ UNCHANGED <<jobs, notes, proc, launch, suspects, cancelling>>
<1>1. NoRow \in RowType
  BY DEF NoRow, Row, NewLedger, RowType, States, ResumeTargets
<1>2. (IF e \in Foreground THEN "off" ELSE outcome) \in ExecType
  BY DEF ExecType
<1> QED  BY <1>1, <1>2 DEF Return, IInv, TypeOK, pending

\* The steps that write nothing to the ledger.
LEMMA ExecutorReads ==
  ASSUME IInv, NEW e \in Executors,
         \/ AcquireFence(e) \/ FenceRefused(e) \/ Validate(e) \/ FenceLost(e)
         \/ Inherit(e) \/ Apply(e) \/ ReadVerifying(e) \/ Fail(e)
  PROVE  IInv'
<1>1. exec[e] \in Working /\ ledger' = ledger
  BY DEF AcquireFence, FenceRefused, Validate, FenceLost, Inherit, Apply,
         ReadVerifying, Fail, Working, Holding
<1>2. CASE AcquireFence(e) \/ Validate(e) \/ Inherit(e) \/ Apply(e)
           \/ ReadVerifying(e)
  <2>1. /\ \E x \in Holding : Enter(e, x)
        /\ fence' \in Executors \cup {None}
        /\ patch' \in {"open", "applied", "revoked"}
        /\ seen' = seen \/ seen' = [seen EXCEPT ![e] = Row(ledger)]
    BY <1>2 DEF AcquireFence, Validate, Inherit, Apply, ReadVerifying, Holding,
                IInv, TypeOK
  <2>2. Row(ledger) \in RowType /\ Holding \subseteq ExecType
    BY DEF IInv, TypeOK, Row, RowType, LedgerType, ExecType, Working
  <2>3. UNCHANGED <<jobs, notes, proc, launch, suspects, cancelling>>
    BY <2>1 DEF Enter, pending
  <2>4. \E x \in ExecType : exec' = [exec EXCEPT ![e] = x]
    BY <2>1, <2>2 DEF Enter
  <2>5. DatabaseOK'
    BY <1>1, <2>3, ReaderKeepsDatabase DEF IInv
  <2> QED  BY <1>1, <2>1, <2>2, <2>3, <2>4, <2>5, ExecutorMoves
<1>3. CASE FenceRefused(e) \/ FenceLost(e) \/ Fail(e)
  <2>1. /\ \E outcome \in Returned : Return(e, outcome)
        /\ patch' \in {"open", "applied", "revoked"}
    BY <1>3 DEF FenceRefused, FenceLost, Fail, Returned, IInv, TypeOK
  <2>2. /\ \E x \in ExecType : exec' = [exec EXCEPT ![e] = x]
        /\ \E r \in RowType : seen' = [seen EXCEPT ![e] = r]
        /\ fence' \in Executors \cup {None}
        /\ UNCHANGED <<jobs, notes, proc, launch, suspects, cancelling>>
    BY <2>1, ReturnMoves
  <2>3. DatabaseOK'
    BY <1>1, <2>2, ReaderKeepsDatabase DEF IInv
  <2> QED  BY <1>1, <2>1, <2>2, <2>3, ExecutorMoves
<1> QED  BY <1>2, <1>3

\* ActivateExecutionSlice.
LEMMA BeginStep == ASSUME IInv, NEW e \in Executors, Begin(e) PROVE IInv'
<1> DEFINE req == Request("ready", ledger.version, "executing",
                          <<"execution", 1>>, {}, NoState)
<1>1. /\ exec[e] = "fenced" /\ TransitionError(ledger, req) = "none"
      /\ ledger' = AfterTransition(ledger, req)
      /\ exec' = [exec EXCEPT ![e] = "dispatched"]
      /\ UNCHANGED <<jobs, notes, patch, fence, proc, seen, launch, suspects,
                     cancelling>>
  BY DEF Begin, Enter, pending
<1>2. /\ req \in RequestType(EventKey, ArtifactSet)
      /\ req.key = <<"execution", 1>>
      /\ req.expectedState = "ready" /\ req.next = "executing"
  BY DEF Request, RequestType, EventKey, ArtifactSet, States, ResumeTargets,
         IInv, TypeOK, LedgerType
<1> HIDE DEF req
<1>3. DatabaseOK'
  BY <1>1, <1>2, TransitionKeepsDatabase DEF IInv, Past
<1>4. /\ exec[e] \in Working /\ "dispatched" \in ExecType
      /\ fence' \in Executors \cup {None}
      /\ patch' \in {"open", "applied", "revoked"}
  BY <1>1 DEF Working, Holding, ExecType, IInv, TypeOK
<1> QED  BY <1>1, <1>3, <1>4, ExecutorMoves

LEMMA CompleteStep == ASSUME IInv, NEW e \in Executors, Complete(e) PROVE IInv'
<1>1. /\ exec[e] \in Working /\ "fenced" \in ExecType
      /\ exec' = [exec EXCEPT ![e] = "fenced"]
      /\ UNCHANGED <<jobs, notes, patch, fence, proc, seen, launch, suspects,
                     cancelling>>
      /\ fence' \in Executors \cup {None}
      /\ patch' \in {"open", "applied", "revoked"}
  BY DEF Complete, Enter, pending, Working, Holding, ExecType, IInv, TypeOK
<1>2. DatabaseOK'
  BY <1>1, CompleteKeepsDatabase DEF IInv
<1> QED  BY <1>1, <1>2, ExecutorMoves

\* verification.Run's decision, on a row read any number of steps before.
LEMMA VerifyStep ==
  ASSUME IInv, NEW e \in Executors, NEW kind \in {"frozen", "failed", "drift"},
         Verify(e, kind)
  PROVE  IInv'
<1> DEFINE goal == IF kind = "frozen" THEN "candidate_frozen"
                   ELSE "replan_required"
           key == <<kind, seen[e].version>>
           req == Request("verifying", seen[e].version, goal, key, {}, NoState)
<1>1. /\ exec[e] = "verifying" /\ TransitionError(ledger, req) = "none"
      /\ ledger' = AfterTransition(ledger, req)
      /\ \E outcome \in Returned : Return(e, outcome)
      /\ patch' = patch
  BY DEF Verify, Returned
<1>2. seen[e].version \in Nat
  BY DEF IInv, TypeOK, RowType
<1>3. /\ req \in RequestType(EventKey, ArtifactSet) /\ req.key = key
      /\ req.expectedState = "verifying" /\ req.next = goal
  BY <1>2 DEF Request, RequestType, EventKey, ArtifactSet, States,
              ResumeTargets
<1>4. /\ key[1] # "job_failed" /\ key # <<"execution", 2>>
      /\ key # <<"abort", 0>> /\ goal \in Past
  BY DEF Past
<1> HIDE DEF key, req, goal
<1>5. /\ \E x \in ExecType : exec' = [exec EXCEPT ![e] = x]
      /\ \E r \in RowType : seen' = [seen EXCEPT ![e] = r]
      /\ fence' \in Executors \cup {None}
      /\ UNCHANGED <<jobs, notes, proc, launch, suspects, cancelling>>
  BY <1>1, ReturnMoves
<1>6. DatabaseOK'
  BY <1>1, <1>3, <1>4, <1>5, TransitionKeepsDatabase DEF IInv
<1>7. exec[e] \in Working /\ patch' \in {"open", "applied", "revoked"}
  BY <1>1 DEF Working, Holding, IInv, TypeOK
<1> QED  BY <1>5, <1>6, <1>7, ExecutorMoves

LEMMA ExecuteStep == ASSUME IInv, NEW e \in Executors, Execute(e) PROVE IInv'
  BY ExecutorReads, BeginStep, CompleteStep, VerifyStep DEF Execute

-----------------------------------------------------------------------------
(* The worker around its executor, and the kill switch.                    *)

LEMMA WorkerStartStep ==
  ASSUME IInv, NEW j \in JobIds, WorkerStart(j) PROVE IInv'
<1>1. /\ proc[j] = "spawned" /\ j \in Admitted /\ jobs[j] \in JobType
      /\ j \in Executors /\ Len(jobs) \in Nat
      /\ UNCHANGED <<ledger, notes, patch, fence, seen, launch, suspects,
                     cancelling>>
  BY DEF WorkerStart, IInv, TypeOK, JobsAreKnown, Admitted, Executors, pending
<1>2. CASE jobs[j].state = "queued"
  <2> DEFINE job == [jobs[j] EXCEPT !.state = "running", !.pid = TRUE,
                                    !.fresh = TRUE]
  <2>1. job \in JobType /\ job.state = "running"
    BY <1>1 DEF JobType, LiveStates
  <2>2. /\ jobs' = [jobs EXCEPT ![j] = job]
        /\ proc' = [proc EXCEPT ![j] = "working"]
        /\ exec' = [exec EXCEPT ![j] = "asked"]
    BY <1>1, <1>2 DEF WorkerStart, IInv, TypeOK, Admitted, JobType
  <2> HIDE DEF job
  <2>3. DatabaseOK' /\ jobs' \in Seq(JobType) /\ Len(jobs') = Len(jobs)
    BY <1>1, <1>2, <2>1, <2>2, JobWriteKeepsDatabase DEF IInv, EndStates
  <2>4. TypeOK'
    BY <1>1, <2>2, <2>3 DEF IInv, TypeOK, Working
  <2>5. JobsAreKnown' /\ FinishersHaveVerdicts'
    BY <1>1, <2>2, <2>3
    DEF IInv, TypeOK, JobsAreKnown, Admitted, FinishersHaveVerdicts
  <2> QED  BY <2>3, <2>4, <2>5 DEF IInv
<1>3. CASE jobs[j].state # "queued"
  <2>1. /\ proc' = [proc EXCEPT ![j] = "dead"] /\ UNCHANGED <<jobs, exec>>
    BY <1>3 DEF WorkerStart
  <2>2. DatabaseOK'
    BY <1>1, <2>1, ReaderKeepsDatabase DEF IInv
  <2>3. TypeOK' /\ JobsAreKnown' /\ FinishersHaveVerdicts'
    BY <1>1, <2>1
    DEF IInv, TypeOK, JobsAreKnown, Admitted, FinishersHaveVerdicts
  <2> QED  BY <2>2, <2>3 DEF IInv
<1> QED  BY <1>2, <1>3

LEMMA WorkerReadStep ==
  ASSUME IInv, NEW j \in JobIds, WorkerRead(j) PROVE IInv'
<1>1. /\ proc[j] = "working" /\ exec[j] \in Returned /\ j \in Executors
      /\ proc' = [proc EXCEPT ![j] = "finishing"]
      /\ \E x \in DOMAIN Verdict : exec' = [exec EXCEPT ![j] = x]
      /\ UNCHANGED <<ledger, jobs, notes, patch, fence, seen, launch, suspects,
                     cancelling>>
  BY DEF WorkerRead, Returned, Verdict, Executors, database, pending
<1>2. DOMAIN Verdict = Returned \cup {"stopped"}
  BY DEF Verdict, Returned
<1>3. DatabaseOK'
  BY <1>1, ReaderKeepsDatabase DEF IInv
<1>4. TypeOK' /\ JobsAreKnown' /\ FinishersHaveVerdicts'
  BY <1>1, <1>2
  DEF IInv, TypeOK, JobsAreKnown, Admitted, FinishersHaveVerdicts, Executors
<1> QED  BY <1>3, <1>4 DEF IInv

LEMMA WorkerFinishStep ==
  ASSUME IInv, NEW j \in JobIds, WorkerFinish(j) PROVE IInv'
<1> DEFINE outcome == Verdict[exec[j]]
           displaced == exec[j] = "displaced"
<1>1. /\ proc[j] = "finishing" /\ FinishJob(j, outcome, displaced)
      /\ proc' = [proc EXCEPT ![j] = "dead"]
      /\ exec' = [exec EXCEPT ![j] = "off"]
      /\ UNCHANGED <<patch, fence, seen, launch, suspects, cancelling>>
  BY DEF WorkerFinish, pending
<1>2. j \in Admitted /\ outcome \in EndStates /\ displaced \in BOOLEAN
  BY <1>1
  DEF IInv, JobsAreKnown, FinishersHaveVerdicts, Verdict, EndStates
<1> HIDE DEF outcome, displaced
<1>3. /\ ProcessesTyped' /\ FinishersHaveVerdicts'
      /\ \A k \in JobIds : proc'[k] # "none" => proc[k] # "none"
  BY <1>1
  DEF IInv, TypeOK, ProcessesTyped, ExecType, FinishersHaveVerdicts, Executors
<1> QED  BY <1>1, <1>2, <1>3, FinishStep

\* The abort's transition never fails: it is legal from every state that is not
\* terminal, and its key has been used only if the workflow is aborted.
LEMMA AbortStep == ASSUME IInv, Abort PROVE IInv'
<1> DEFINE key == <<"abort", 0>>
           req == Request(ledger.state, ledger.version, "aborted", key, {},
                          NoState)
<1>1. /\ ledger.state \notin Terminal /\ ledger.state \in States
      /\ ledger.version \in Nat
      /\ ledger' = AfterTransition(ledger, req)
      /\ UNCHANGED <<jobs, notes, patch, fence, proc, exec, seen, launch,
                     suspects, cancelling>>
  BY DEF Abort, running, pending, IInv, TypeOK, LedgerType
<1>2. /\ req \in RequestType(EventKey, ArtifactSet) /\ req.key = key
      /\ req.expectedState = ledger.state /\ req.next = "aborted"
      /\ req.expectedVersion = ledger.version
      /\ key \in EventKey
  BY <1>1 DEF Request, RequestType, EventKey, ArtifactSet, States,
              ResumeTargets
<1>3. key \notin EventKeys(ledger)
  BY <1>1 DEF IInv, DatabaseOK, KeysAreSpent, Terminal
<1>4. TransitionError(ledger, req) = "none"
  <2>1. ~IsReplay(ledger, req)
    BY <1>2, <1>3, FreshIsNoReplay DEF IInv, DatabaseOK
  <2>2. CASMatches(ledger, req) /\ IsLegal(ledger, req)
    BY <1>1, <1>2 DEF CASMatches, IsLegal, CanTransition, NonTerminal
  <2> QED  BY <1>2, <1>3, <2>1, <2>2 DEF TransitionError
<1>5. key[1] # "job_failed" /\ key # <<"execution", 2>> /\ "aborted" \in Past
  BY DEF Past
<1> HIDE DEF req
<1>6. LedgerOK(ledger', EventKey, ArtifactSet) /\ IdemAgrees(ledger')
  BY <1>1, <1>2, <1>4, TransitionKeepsLedger DEF IInv, DatabaseOK
<1>7. CASE ledger' = ledger
  BY <1>1, <1>7, ReaderKeepsDatabase
  DEF IInv, TypeOK, JobsAreKnown, Admitted, FinishersHaveVerdicts
<1>8. CASE OneLater(ledger, ledger', "aborted", ResumeAfter(ledger, req), key,
                    req.artifacts)
  <2>1. Stage(ledger') \in Past /\ ledger.state # "aborted"
    BY <1>1, <1>5, <1>8 DEF OneLater, Stage, Terminal
  <2>2. DatabaseOK'
    BY <1>1, <1>2, <1>5, <1>6, <1>8, <2>1, EventKeepsDatabase DEF IInv
  <2> QED
    BY <1>1, <1>6, <2>2
    DEF IInv, TypeOK, LedgerOK, JobsAreKnown, Admitted, FinishersHaveVerdicts
<1> QED
  BY <1>1, <1>2, <1>4, <1>7, <1>8, TransitionAddsOne DEF IInv, DatabaseOK

LEMMA CancelJobsStep == ASSUME IInv, CancelJobs PROVE IInv'
<1>1. /\ UNCHANGED <<ledger, notes, patch, fence, proc, exec, seen, launch,
                     suspects>>
      /\ jobs \in Seq(JobType) /\ Len(jobs) \in Nat /\ Len(jobs) <= MaxJobs
      /\ Admitted \subseteq JobIds
  BY JobsAssumption DEF CancelJobs, running, IInv, TypeOK, Admitted, JobIds
<1>2. /\ jobs' \in Seq(JobType) /\ Len(jobs') = Len(jobs)
      /\ \A j \in Admitted :
           IF IsLive(j) THEN jobs'[j].state = "cancel_requested"
           ELSE jobs'[j] = jobs[j]
  <2> DEFINE job(j) == IF IsLive(j)
                       THEN [jobs[j] EXCEPT !.state = "cancel_requested"]
                       ELSE jobs[j]
  <2>1. \A j \in 1..Len(jobs) :
          /\ job(j) \in JobType
          /\ IF IsLive(j) THEN job(j).state = "cancel_requested"
             ELSE job(j) = jobs[j]
    <3> SUFFICES ASSUME NEW j \in 1..Len(jobs)
                 PROVE  /\ job(j) \in JobType
                        /\ IF IsLive(j) THEN job(j).state = "cancel_requested"
                           ELSE job(j) = jobs[j]
      OBVIOUS
    <3>1. jobs[j] \in JobType
      BY <1>1
    <3>2. [jobs[j] EXCEPT !.state = "cancel_requested"] \in JobType
      BY <3>1 DEF JobType, LiveStates
    <3>3. [jobs[j] EXCEPT !.state = "cancel_requested"].state
            = "cancel_requested"
      BY <3>1 DEF JobType
    <3> QED  BY <3>1, <3>2, <3>3
  <2>2. jobs' = [j \in 1..Len(jobs) |-> job(j)]
    BY DEF CancelJobs, Admitted
  <2> HIDE DEF job
  <2> QED  BY <1>1, <2>1, <2>2 DEF Admitted
<1>3. EndsNothing
  <2>1. \A j \in Admitted : jobs[j].state \in EndStates <=> ~IsLive(j)
    <3> SUFFICES ASSUME NEW j \in Admitted
                 PROVE  jobs[j].state \in EndStates <=> ~IsLive(j)
      OBVIOUS
    <3>1. jobs[j].state \in LiveStates \cup EndStates
      <4>1. jobs[j] \in JobType
        BY <1>1 DEF Admitted
      <4> QED  BY <4>1 DEF JobType
    <3> QED  BY <3>1 DEF IsLive, EndStates, LiveStates
  <2> QED  BY <1>2, <2>1 DEF EndsNothing, Admitted, EndStates
<1>4. DatabaseOK'
  BY <1>1, <1>2, <1>3, EndsNothingKeepsDatabase DEF IInv
<1>5. \A c \in cancelling' :
        c \in [job : JobIds, signal : BOOLEAN] /\ c.job \in Admitted
  <2> SUFFICES ASSUME NEW c \in cancelling', c \notin cancelling
               PROVE  /\ c \in [job : JobIds, signal : BOOLEAN]
                      /\ c.job \in Admitted
    BY DEF IInv, TypeOK, JobsAreKnown
  <2>1. PICK j \in Admitted :
          c = [job |-> j, signal |-> jobs[j].pid /\ jobs[j].fresh]
    BY DEF CancelJobs
  <2>2. (jobs[j].pid /\ jobs[j].fresh) \in BOOLEAN
    OBVIOUS
  <2> DEFINE signal == jobs[j].pid /\ jobs[j].fresh
  <2>3. c = [job |-> j, signal |-> signal] /\ signal \in BOOLEAN
    BY <2>1, <2>2
  <2> HIDE DEF signal
  <2> QED  BY <1>1, <2>3
<1>6. TypeOK' /\ JobsAreKnown' /\ FinishersHaveVerdicts'
  BY <1>1, <1>2, <1>5
  DEF IInv, TypeOK, JobsAreKnown, Admitted, FinishersHaveVerdicts
<1> QED  BY <1>4, <1>6 DEF IInv

LEMMA RevokeStep == ASSUME IInv, RevokeAttempts PROVE IInv'
<1>1. /\ UNCHANGED <<ledger, jobs, notes, fence, proc, exec, seen, launch,
                     suspects, cancelling>>
      /\ patch' = "revoked"
  BY DEF RevokeAttempts, running, pending
<1>2. DatabaseOK'
  BY <1>1, ReaderKeepsDatabase DEF IInv
<1> QED
  BY <1>1, <1>2
  DEF IInv, TypeOK, JobsAreKnown, Admitted, FinishersHaveVerdicts

LEMMA NextIInv == IInv /\ [Next]_vars => IInv'
<1> SUFFICES ASSUME IInv, [Next]_vars PROVE IInv'
  OBVIOUS
<1>1. CASE UNCHANGED vars
  <2>1. DatabaseOK'
    BY <1>1, ReaderKeepsDatabase DEF vars, IInv
  <2> QED
    BY <1>1, <2>1
    DEF vars, IInv, TypeOK, JobsAreKnown, Admitted, FinishersHaveVerdicts
<1>2. ASSUME NEW l \in Launchers, LauncherStep(l) PROVE IInv'
  BY <1>2, LauncherReads, RetryCommitStep, CreateStep, SpawnStep, SetPIDStep,
     LaunchFails DEF LauncherStep
<1>3. ASSUME NEW j \in JobIds, WorkerStep(j) PROVE IInv'
  <2>1. j \in Executors
    BY DEF Executors
  <2> QED
    BY <1>3, <2>1, WorkerStartStep, ExecuteStep, WorkerReadStep,
       WorkerFinishStep DEF WorkerStep
<1>4. ASSUME NEW f \in Foreground, Execute(f) PROVE IInv'
  BY <1>4, ExecuteStep DEF Executors
<1> QED
  BY <1>1, <1>2, <1>3, <1>4, LapseStep, BeatStep, WorkerCrashStep, ObserveStep,
     RetireStep, FenceSteps, ForegroundSteps, AbortStep, CancelJobsStep,
     CancelFinishStep, RevokeStep DEF Next

-----------------------------------------------------------------------------
(* What it gives.                                                          *)

LEMMA InvariantHolds == Spec => []IInv
  BY InitIInv, NextIInv, PTL DEF Spec

\* However launchers, workers, foreground runs, retirements and an abort
\* interleave and die, each of their transactions leaves a gap-free audit trail,
\* and every job that ended is announced once, in the state it left the workflow
\* in (FinishWorkflowJob, Transition, completeExecutionIfReady).
THEOREM JobsSafety == Spec => []JobsKept
<1>1. IInv => JobsKept
  BY DEF IInv, DatabaseOK, LedgerOK, JobsKept, LedgerKept
<1> QED  BY <1>1, InvariantHolds, PTL

\* Only the failure of a job blocks the workflow in the name of that job:
\* displaced and cancelled jobs never do, whoever retires them.
THEOREM JobsOnlyFailuresBlock == Spec => []OnlyFailuresBlock
<1>1. IInv => OnlyFailuresBlock
  BY DEF IInv, DatabaseOK, BlockersAreOfJobs, OnlyFailuresBlock
<1> QED  BY <1>1, InvariantHolds, PTL

\* No step writes to an aborted workflow's ledger: late workers, retirements,
\* retries and verifications are refused by the state they expect.
LEMMA AbortedLedgerStays ==
  ASSUME IInv, Next, ledger.state = "aborted" PROVE ledger' = ledger
<1>1. ASSUME NEW req \in RequestType(EventKey, ArtifactSet),
             req.expectedState # "aborted",
             TransitionError(ledger, req) = "none",
             ledger' = AfterTransition(ledger, req)
      PROVE  ledger' = ledger
  BY <1>1, TransitionAddsOne DEF IInv, DatabaseOK, CASMatches
<1>2. ASSUME NEW j, NEW outcome, NEW displaced,
             FinishJob(j, outcome, displaced)
      PROVE  ledger' = ledger
  BY <1>2 DEF FinishJob, RecordFinish, LedgerAfterFinish, Blockable
<1>3. ASSUME NEW l \in Launchers, LauncherStep(l) PROVE ledger' = ledger
  <2>1. CASE RetryCommit(l)
    <3> DEFINE row == launch[l].row
               req == Request("blocked", row.version, row.resume,
                              <<"technical_retry", launch[l].job>>, {},
                              NoState)
    <3>1. /\ TransitionError(ledger, req) = "none"
          /\ ledger' = AfterTransition(ledger, req)
          /\ launch[l].pc = "admitted"
      BY <2>1 DEF RetryCommit
    <3>2. row \in RowType /\ row.resume \in Blockable /\ launch[l].job \in Nat
      BY <3>1 DEF IInv, TypeOK, JobsAreKnown, JobIds
    <3>3. /\ req \in RequestType(EventKey, ArtifactSet)
          /\ req.expectedState = "blocked"
      BY <3>2 DEF Request, RequestType, RowType, EventKey, ArtifactSet, States,
                  ResumeTargets, Blockable
    <3> HIDE DEF req
    <3> QED  BY <1>1, <3>1, <3>3
  <2>2. CASE SpawnFails(l) \/ SetPIDFails(l)
    BY <1>2, <2>2 DEF SpawnFails, SetPIDFails
  <2>3. CASE LaunchCheck(l) \/ QueueRead(l) \/ RetryCheck(l) \/ Create(l)
             \/ Spawn(l) \/ SetPID(l) \/ LauncherEnds(l)
    BY <2>3 DEF LaunchCheck, QueueRead, RetryCheck, Create, Spawn, SetPID,
                LauncherEnds, database
  <2> QED  BY <1>3, <2>1, <2>2, <2>3 DEF LauncherStep
<1>4. ASSUME NEW e \in Executors, Execute(e) PROVE ledger' = ledger
  <2>1. CASE Begin(e)
    <3> DEFINE req == Request("ready", ledger.version, "executing",
                              <<"execution", 1>>, {}, NoState)
    <3>1. /\ req \in RequestType(EventKey, ArtifactSet)
          /\ req.expectedState = "ready"
      BY DEF Request, RequestType, EventKey, ArtifactSet, States,
             ResumeTargets, IInv, TypeOK, LedgerType
    <3>2. TransitionError(ledger, req) = "none"
          /\ ledger' = AfterTransition(ledger, req)
      BY <2>1 DEF Begin
    <3> HIDE DEF req
    <3> QED  BY <1>1, <3>1, <3>2
  <2>2. ASSUME NEW kind \in {"frozen", "failed", "drift"}, Verify(e, kind)
        PROVE  ledger' = ledger
    <3> DEFINE goal == IF kind = "frozen" THEN "candidate_frozen"
                       ELSE "replan_required"
               req == Request("verifying", seen[e].version, goal,
                              <<kind, seen[e].version>>, {}, NoState)
    <3>1. seen[e].version \in Nat
      BY DEF IInv, TypeOK, RowType
    <3>2. /\ req \in RequestType(EventKey, ArtifactSet)
          /\ req.expectedState = "verifying"
      BY <3>1 DEF Request, RequestType, EventKey, ArtifactSet, States,
                  ResumeTargets
    <3>3. TransitionError(ledger, req) = "none"
          /\ ledger' = AfterTransition(ledger, req)
      BY <2>2 DEF Verify
    <3> HIDE DEF req, goal
    <3> QED  BY <1>1, <3>2, <3>3
  <2>3. ~Complete(e)
    BY DEF Complete
  <2>4. CASE \/ AcquireFence(e) \/ FenceRefused(e) \/ Validate(e)
             \/ FenceLost(e) \/ Inherit(e) \/ Apply(e) \/ ReadVerifying(e)
             \/ Fail(e)
    BY <2>4 DEF AcquireFence, FenceRefused, Validate, FenceLost, Inherit, Apply,
                ReadVerifying, Fail
  <2> QED  BY <1>4, <2>1, <2>2, <2>3, <2>4 DEF Execute
<1>5. ASSUME NEW j \in JobIds, WorkerStep(j) PROVE ledger' = ledger
  BY <1>2, <1>4, <1>5
  DEF WorkerStep, WorkerStart, WorkerRead, WorkerFinish, database, Executors
<1>6. ASSUME NEW j \in JobIds,
             Lapse(j) \/ Beat(j) \/ WorkerCrash(j) \/ Observe(j) \/ Retire(j)
      PROVE  ledger' = ledger
  BY <1>2, <1>6 DEF Lapse, Beat, WorkerCrash, Observe, Retire, database
<1>7. ASSUME NEW f \in Foreground,
             ForegroundStart(f) \/ ForegroundCrash(f) \/ Execute(f)
      PROVE  ledger' = ledger
  BY <1>4, <1>7 DEF ForegroundStart, ForegroundCrash, database, Executors
<1>8. ASSUME \/ FenceLapse \/ (\E e \in Executors : FenceReclaim(e))
             \/ CancelJobs \/ (\E c \in cancelling : CancelFinish(c))
             \/ RevokeAttempts
      PROVE  ledger' = ledger
  BY <1>2, <1>8
  DEF FenceLapse, FenceReclaim, CancelJobs, CancelFinish, RevokeAttempts,
      database
<1>9. ~Abort
  BY DEF Abort, Terminal
<1> QED
  BY <1>3, <1>5, <1>6, <1>7, <1>8, <1>9 DEF Next

\* An aborted workflow stays aborted, with the audit trail it was aborted with.
THEOREM JobsAbortIsFinal == Spec => AbortIsFinal
<1>1. IInv /\ [Next]_vars
        => [ledger.state = "aborted" => ledger' = ledger]_vars
  BY AbortedLedgerStays DEF vars
<1> QED  BY <1>1, InvariantHolds, PTL DEF Spec, AbortIsFinal
===============================================================================
