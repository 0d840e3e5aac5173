--------------------------- MODULE RevisionsProofs ---------------------------
(***************************************************************************)
(* Revisions' safety for any number of processes, keys, edits and failures *)
(* of jobs.                                                                *)
(***************************************************************************)
EXTENDS Revisions, WorkflowLedgerProofs

\* Where the workflow stands, seen through a blocker.
Stage == IF ledger.state = "blocked" THEN ledger.resume ELSE ledger.state

\* The keys that are written without looking whether they are free say what
\* they were written for, so the next one is free.
KeysAreAccounted ==
  \A i \in 1..Len(ledger.events) :
    LET key == ledger.events[i].key IN
    /\ key[1] = "job_failed" => key[2] = i - 1
    /\ key[1] = "retry" => \E r \in revisions : r.key = key[2]
    /\ key[1] = "replan" => \E r \in replans : r.key = key[2]

\* No execution was started under a number no graph has yet; once one was started
\* under the number of the last graph, the workflow has left ready for good, until
\* the next graph.
StartsFollowGraphs ==
  /\ \A v \in Nat :
       <<"execution_start", v>> \in EventKeys(ledger) => v <= Len(graphs)
  /\ <<"execution_start", Len(graphs)>> \in EventKeys(ledger) => Stage # "ready"

GraphsAreNumbered ==
  /\ Len(graphs) >= 1 /\ graphs[1] = 1
  /\ \A i \in 1..Len(graphs) : graphs[i] \in 1..i

\* Archive and revisions are numbered without gaps.
NumbersAreDense ==
  /\ \E m \in Nat : ArchiveNumbers = 1..m
  /\ \E n \in Nat : RevisionNumbers = 1..n

\* The lineage of a candidate is recorded before it is decided on.
BasisIsRecorded ==
  /\ basis.pre # {}
  /\ Stage \in {"candidate_frozen", "reviewing", "receipted"} =>
       basis.candidate # {}

\* What a process that is about to write has made sure of.
Prepared(local, candidate, numbers) ==
  /\ local.pc \in {"recorded", "cleared"} => candidate # {}
  /\ local.pc = "retrying" => local.result.outcome = "failed"
  /\ local.pc = "replanning" => local.request.target \in 2..numbers + 1
  /\ local.pc = "resuming" =>
       /\ local.req.expectedState = "blocked"
       /\ local.req.next \in Blockable \cup {"integration_conflict"}
       /\ local.req.key[1] = "resume"

ProcsAreReady ==
  \A p \in Procs : Prepared(proc[p], basis.candidate, Len(graphs))

\* The part of the invariant that speaks of the ledger and the lineage alone.
DatabaseOK ==
  /\ LedgerOK(ledger, EventKey, SUBSET ArtifactID) /\ IdemAgrees(ledger)
  /\ KeysAreAccounted /\ StartsFollowGraphs /\ GraphsAreNumbered
  /\ ReplansMatchGraphs /\ RevisionsMatchArchive /\ NumbersAreDense

IInv == TypeOK /\ DatabaseOK /\ BasisIsRecorded /\ ProcsAreReady

-----------------------------------------------------------------------------
(* Numbers.                                                                *)

LEMMA HighestOfRange ==
  ASSUME NEW m \in Nat
  PROVE  Highest(1..m) = m
<1> DEFINE S == {0} \cup (1..m)
<1>1. m \in S /\ \A y \in S : m >= y
  OBVIOUS
<1>2. \A x \in S : (\A y \in S : x >= y) => x = m
  OBVIOUS
<1> QED  BY <1>1, <1>2 DEF Highest, Max

LEMMA HighestIsLast ==
  ASSUME NEW n \in Nat, NEW S \in SUBSET (1..n), n \in S
  PROVE  Highest(S) = n
<1> DEFINE R == {0} \cup S
<1>1. n \in R /\ \A y \in R : n >= y
  OBVIOUS
<1>2. \A x \in R : (\A y \in R : x >= y) => x = n
  OBVIOUS
<1> QED  BY <1>1, <1>2 DEF Highest, Max

-----------------------------------------------------------------------------
(* The database.                                                           *)

LEMMA LedgerStays ==
  ASSUME DatabaseOK, UNCHANGED <<ledger, lineage>>
  PROVE  DatabaseOK'
  BY DEF lineage, DatabaseOK, KeysAreAccounted, StartsFollowGraphs, Stage,
         GraphsAreNumbered, ReplansMatchGraphs, AnswersItsFinding,
         RevisionsMatchArchive, NumbersAreDense, ArchiveNumbers,
         RevisionNumbers

\* One event more takes no answer away from a replan.
LEMMA AnswersStay ==
  ASSUME NEW l, NEW m, NEW next, NEW resume, NEW key, NEW art,
         ledger = l, ledger' = m, Len(l.events) \in Nat,
         OneLater(l, m, next, resume, key, art),
         NEW r, AnswersItsFinding(r)
  PROVE  AnswersItsFinding(r)'
<1>1. PICK i \in 2..Len(ledger.events) :
        /\ ledger.events[i].key = <<"replan", r.key>>
        /\ ledger.events[i-1].to = "replan_required"
        /\ r.request.finding \in ledger.events[i-1].artifacts
  BY DEF AnswersItsFinding
<1>2. /\ i \in 2..Len(ledger'.events)
      /\ ledger'.events[i] = ledger.events[i]
      /\ ledger'.events[i-1] = ledger.events[i-1]
  BY DEF OneLater
<1> QED  BY <1>1, <1>2 DEF AnswersItsFinding

\* A writer other than the two corrections: the row moves by one event, of a key
\* that says what it was written for, and nobody comes to ready.
LEMMA LedgerMoves ==
  ASSUME DatabaseOK, UNCHANGED lineage,
         NEW next, NEW resume, NEW key, NEW art,
         OneLater(ledger, ledger', next, resume, key, art),
         LedgerOK(ledger', EventKey, SUBSET ArtifactID), IdemAgrees(ledger'),
         key[1] \notin {"retry", "replan"},
         key[1] = "job_failed" => key[2] = ledger.version,
         \A v \in Nat : key = <<"execution_start", v>> =>
            v = CurrentGraph /\ Stage' # "ready",
         Stage' = "ready" => Stage = "ready"
  PROVE  DatabaseOK'
<1> DEFINE n == Len(ledger.events)
<1>1. /\ n \in Nat /\ Len(ledger'.events) = n + 1 /\ n = ledger.version
      /\ \A i \in 1..n : ledger'.events[i] = ledger.events[i]
      /\ ledger'.events[n + 1].key = key
      /\ EventKeys(ledger') = EventKeys(ledger) \cup {key}
  BY DEF DatabaseOK, LedgerOK, LedgerType, Chained, OneLater
<1>2. KeysAreAccounted'
  <2> SUFFICES ASSUME NEW i \in 1..n + 1
               PROVE  LET k == ledger'.events[i].key IN
                      /\ k[1] = "job_failed" => k[2] = i - 1
                      /\ k[1] = "retry" => \E r \in revisions : r.key = k[2]
                      /\ k[1] = "replan" => \E r \in replans : r.key = k[2]
    BY <1>1 DEF KeysAreAccounted, lineage
  <2>1. CASE i = n + 1
    BY <1>1, <2>1
  <2>2. CASE i \in 1..n
    BY <1>1, <2>2 DEF DatabaseOK, KeysAreAccounted
  <2> QED  BY <1>1, <2>1, <2>2
<1>3. StartsFollowGraphs'
  <2>1. /\ graphs' = graphs /\ Len(graphs) \in Nat
        /\ CurrentGraph \in 1..Len(graphs)
    BY DEF lineage, DatabaseOK, GraphsAreNumbered, CurrentGraph
  <2>2. \A v \in Nat : <<"execution_start", v>> \in EventKeys(ledger') =>
           v <= Len(graphs)
    BY <1>1, <2>1 DEF DatabaseOK, StartsFollowGraphs
  <2>3. <<"execution_start", Len(graphs)>> \in EventKeys(ledger')
          => Stage' # "ready"
    BY <1>1, <2>1 DEF DatabaseOK, StartsFollowGraphs
  <2> QED  BY <2>1, <2>2, <2>3 DEF StartsFollowGraphs
<1>4. ReplansMatchGraphs'
  <2>1. \A r \in replans : AnswersItsFinding(r)'
    BY <1>1, AnswersStay DEF DatabaseOK, ReplansMatchGraphs
  <2> QED  BY <2>1 DEF DatabaseOK, ReplansMatchGraphs, lineage
<1> QED
  BY <1>2, <1>3, <1>4
  DEF DatabaseOK, lineage, GraphsAreNumbered, RevisionsMatchArchive,
      NumbersAreDense, ArchiveNumbers, RevisionNumbers

\* SQLiteStore.Transition, asked for anything but a blocker and for ready only by
\* a return to it.
LEMMA TransitionStep ==
  ASSUME DatabaseOK, UNCHANGED lineage,
         NEW req \in RequestType(EventKey, SUBSET ArtifactID),
         TransitionError(ledger, req) = "none",
         ledger' = AfterTransition(ledger, req),
         req.key[1] \notin {"retry", "replan", "job_failed"},
         \A v \in Nat : req.key = <<"execution_start", v>> =>
            v = CurrentGraph /\ req.next = "executing",
         req.next # "blocked",
         req.next = "ready" => req.expectedState = "blocked"
  PROVE  /\ DatabaseOK'
         /\ \/ ledger' = ledger
            \/ /\ ledger.state = req.expectedState
               /\ ledger'.state = req.next /\ Stage' = req.next
               /\ ledger.state = "blocked" =>
                    req.next \in {Stage, "integration_conflict",
                                 "replan_required", "aborted", "failed"}
<1> DEFINE m == AfterTransition(ledger, req)
<1>1. LedgerOK(ledger, EventKey, SUBSET ArtifactID) /\ IdemAgrees(ledger)
  BY DEF DatabaseOK
<1>2. LedgerOK(m, EventKey, SUBSET ArtifactID) /\ IdemAgrees(m)
  BY <1>1, TransitionKeepsLedger
<1>3. \/ m = ledger
      \/ /\ CASMatches(ledger, req) /\ IsLegal(ledger, req)
         /\ OneLater(ledger, m, req.next, ResumeAfter(ledger, req), req.key,
                     req.artifacts)
  BY <1>1, TransitionAddsOne
<1>4. ledger' = m
  OBVIOUS
<1> HIDE DEF m
<1>5. CASE m = ledger
  BY <1>4, <1>5, LedgerStays
<1>6. CASE /\ CASMatches(ledger, req) /\ IsLegal(ledger, req)
           /\ OneLater(ledger, m, req.next, ResumeAfter(ledger, req), req.key,
                       req.artifacts)
  <2>1. /\ ledger.state = req.expectedState
        /\ CanTransition(ledger.state, req.next, ledger.resume)
    BY <1>6 DEF CASMatches, IsLegal
  <2>2. ledger'.state = req.next
    BY <1>4, <1>6 DEF OneLater
  <2>3. Stage' = req.next
    BY <2>2 DEF Stage
  <2>4. ledger.state = "blocked" =>
          req.next \in {Stage, "integration_conflict", "replan_required",
                       "aborted", "failed"}
    BY <2>1 DEF Stage, CanTransition, Forward, Blockable
  <2>5. Stage' = "ready" => Stage = "ready"
    BY <2>1, <2>3, <2>4
  <2>6. DatabaseOK'
    <3>1. \A v \in Nat : req.key = <<"execution_start", v>> =>
             v = CurrentGraph /\ Stage' # "ready"
      BY <2>3
    <3> QED  BY <1>2, <1>4, <1>6, <2>5, <3>1, LedgerMoves
  <2> QED  BY <2>1, <2>2, <2>3, <2>4, <2>6
<1> QED  BY <1>3, <1>5, <1>6

-----------------------------------------------------------------------------
(* Basis and processes.                                                    *)

Judged == {"candidate_frozen", "reviewing", "receipted"}

LEMMA BasisStays ==
  ASSUME BasisIsRecorded,
         basis'.pre # {}, basis.candidate # {} => basis'.candidate # {},
         Stage' \in Judged => Stage \in Judged \/ basis'.candidate # {}
  PROVE  BasisIsRecorded'
  BY DEF BasisIsRecorded, Judged

LEMMA ProcsStay ==
  ASSUME ProcsAreReady, UNCHANGED proc,
         basis.candidate # {} => basis'.candidate # {},
         Len(graphs) \in Nat, Len(graphs') \in Nat, Len(graphs) <= Len(graphs')
  PROVE  ProcsAreReady'
  BY DEF ProcsAreReady, Prepared

LEMMA ProcBecomes ==
  ASSUME proc \in [Procs -> ProcType], ProcsAreReady,
         NEW p \in Procs, NEW local \in ProcType, Becomes(p, local),
         Prepared(local, basis'.candidate, Len(graphs')),
         basis.candidate # {} => basis'.candidate # {},
         Len(graphs) \in Nat, Len(graphs') \in Nat, Len(graphs) <= Len(graphs')
  PROVE  proc' \in [Procs -> ProcType] /\ ProcsAreReady'
<1>1. /\ proc' \in [Procs -> ProcType] /\ proc'[p] = local
      /\ \A q \in Procs : q # p => proc'[q] = proc[q]
  BY DEF Becomes
<1>2. \A q \in Procs : q # p =>
         Prepared(proc'[q], basis'.candidate, Len(graphs'))
  BY <1>1 DEF ProcsAreReady, Prepared
<1> QED  BY <1>1, <1>2 DEF ProcsAreReady

LEMMA GraphsHaveLength ==
  ASSUME TypeOK, DatabaseOK
  PROVE  Len(graphs) \in Nat /\ Len(graphs) >= 1 /\ CurrentGraph \in Nat
  BY DEF TypeOK, DatabaseOK, GraphsAreNumbered, CurrentGraph

LEMMA ProcOnly ==
  ASSUME IInv, NEW p \in Procs, NEW local \in ProcType, Becomes(p, local),
         UNCHANGED <<ledger, run, basis, tree, lineage>>,
         Prepared(local, basis.candidate, Len(graphs))
  PROVE  IInv'
<1>1. /\ TypeOK /\ DatabaseOK /\ BasisIsRecorded /\ ProcsAreReady
      /\ proc \in [Procs -> ProcType]
      /\ basis' = basis /\ graphs' = graphs /\ ledger' = ledger
  BY DEF IInv, TypeOK, lineage
<1>2. DatabaseOK'
  BY <1>1, LedgerStays
<1>3. BasisIsRecorded'
  BY <1>1 DEF BasisIsRecorded, Stage
<1>4. proc' \in [Procs -> ProcType] /\ ProcsAreReady'
  BY <1>1, GraphsHaveLength, ProcBecomes
<1>5. TypeOK'
  BY <1>1, <1>4 DEF TypeOK, lineage
<1> QED  BY <1>2, <1>3, <1>4, <1>5 DEF IInv

LEMMA IdleIsProc ==
  /\ Idle \in ProcType
  /\ \A candidate, numbers : Prepared(Idle, candidate, numbers)
  BY DEF Idle, ProcType, Prepared

LEMMA ReadingStep ==
  ASSUME IInv, NEW p \in Procs,
         \/ RunBegins(p) \/ ReadRow(p) \/ Quit(p)
         \/ \E k \in RetryKeys : RetryRepeats(p, k)
  PROVE  IInv'
<1>1. TypeOK
  BY DEF IInv
<1>2. /\ contract \in Nat /\ tree \in Nat /\ run \in ResultType \cup {NoResult}
      /\ Row(ledger) \in RowType /\ proc[p] \in ProcType
  BY <1>1 DEF TypeOK, LedgerType, RowType, Row
<1>3. CASE RunBegins(p) \/ \E k \in RetryKeys : RetryRepeats(p, k)
  <2> DEFINE local == [pc |-> "planned", contract |-> contract]
  <2>1. /\ local \in ProcType
        /\ Prepared(local, basis.candidate, Len(graphs))
    BY <1>2 DEF ProcType, Prepared
  <2>2. Becomes(p, local) /\ UNCHANGED <<ledger, run, basis, tree, lineage>>
    BY <1>3 DEF RunBegins, RetryRepeats
  <2> HIDE DEF local
  <2> QED  BY <2>1, <2>2, ProcOnly
<1>4. CASE Quit(p)
  BY <1>4, IdleIsProc, ProcOnly DEF Quit, Ends
<1>5. CASE ReadRow(p) /\ run = NoResult
  <2> DEFINE local == [pc |-> "checking", row |-> Row(ledger),
                       contract |-> proc[p].contract, tree |-> tree]
  <2>1. proc[p].contract \in Nat
    BY <1>2, <1>5 DEF ReadRow, ProcType, Idle
  <2>2. /\ local \in ProcType
        /\ Prepared(local, basis.candidate, Len(graphs))
    BY <1>2, <2>1 DEF ProcType, Prepared
  <2>3. Becomes(p, local) /\ UNCHANGED <<ledger, run, basis, tree, lineage>>
    BY <1>5 DEF ReadRow
  <2> HIDE DEF local
  <2> QED  BY <2>2, <2>3, ProcOnly
<1>6. CASE ReadRow(p) /\ run # NoResult
  <2> DEFINE local == [pc |-> "found", row |-> Row(ledger), result |-> run]
  <2>1. /\ local \in ProcType
        /\ Prepared(local, basis.candidate, Len(graphs))
    BY <1>2, <1>6 DEF ProcType, Prepared
  <2>2. Becomes(p, local) /\ UNCHANGED <<ledger, run, basis, tree, lineage>>
    BY <1>6 DEF ReadRow
  <2> HIDE DEF local
  <2> QED  BY <2>1, <2>2, ProcOnly
<1> QED  BY <1>3, <1>4, <1>5, <1>6

LEMMA RetryReadStep ==
  ASSUME IInv, NEW p \in Procs, NEW k \in RetryKeys, RetryRead(p, k)
  PROVE  IInv'
<1> DEFINE local == [pc |-> "retrying", key |-> k, result |-> run]
<1>1. run \in ResultType /\ k \in Keys
  BY DEF IInv, TypeOK, RetryRead, Keys
<1>2. local \in ProcType /\ Prepared(local, basis.candidate, Len(graphs))
  BY <1>1 DEF ProcType, Prepared, RetryRead
<1>3. Becomes(p, local) /\ UNCHANGED <<ledger, run, basis, tree, lineage>>
  BY DEF RetryRead
<1> HIDE DEF local
<1> QED  BY <1>2, <1>3, ProcOnly

\* Artifacts of events are artifact IDs.
LEMMA ArtifactsAreTyped ==
  ASSUME TypeOK, NEW i \in 1..Len(ledger.events)
  PROVE  ledger.events[i].artifacts \subseteq ArtifactID
<1>1. ledger.events \in Seq(EventType(EventKey, SUBSET ArtifactID))
  BY DEF TypeOK, LedgerType
<1>2. ledger.events[i] \in EventType(EventKey, SUBSET ArtifactID)
  BY <1>1
<1> QED  BY <1>2 DEF EventType

LEMMA ReplanReadStep ==
  ASSUME IInv, NEW p \in Procs, NEW k \in ReplanKeys,
         NEW finding \in KnownArtifacts, ReplanRead(p, k, finding)
  PROVE  IInv'
<1>1. TypeOK /\ DatabaseOK
  BY DEF IInv
<1>2. TargetVersion(k) \in 2..Len(graphs) + 1
  <2>1. CASE \E r \in replans : r.key = k
    <3>1. (CHOOSE r \in replans : r.key = k) \in replans
      BY <2>1
    <3> QED
      BY <1>1, <2>1, <3>1, GraphsHaveLength
      DEF TargetVersion, DatabaseOK, ReplansMatchGraphs
  <2>2. CASE ~\E r \in replans : r.key = k
    BY <1>1, <2>2, GraphsHaveLength DEF TargetVersion
  <2> QED  BY <2>1, <2>2
<1>3. TargetVersion(k) \in Nat
  BY <1>1, <1>2, GraphsHaveLength
<1>4. finding \in ArtifactID
  BY <1>1, ArtifactsAreTyped DEF KnownArtifacts, ReplanEvents
<1> DEFINE request == [finding |-> finding, target |-> TargetVersion(k)]
           local == [pc |-> "replanning", key |-> k, request |-> request]
<1>5. local \in ProcType /\ Prepared(local, basis.candidate, Len(graphs))
  BY <1>2, <1>3, <1>4 DEF ProcType, Prepared, Keys
<1>6. Becomes(p, local) /\ UNCHANGED <<ledger, run, basis, tree, lineage>>
  BY DEF ReplanRead
<1> HIDE DEF local
<1> QED  BY <1>5, <1>6, ProcOnly

LEMMA ResumeReadStep ==
  ASSUME IInv, NEW p \in Procs, NEW k \in ResumeKeys, NEW blocker,
         ResumeRead(p, k, blocker)
  PROVE  IInv'
<1>1. TypeOK /\ DatabaseOK
  BY DEF IInv
<1>2. /\ ledger.state = "blocked" /\ ledger.version \in Nat /\ tree \in Nat
      /\ ledger.resume \in Blockable
  BY <1>1 DEF TypeOK, LedgerType, ResumeRead, DatabaseOK, LedgerOK, ResumeExact
<1> DEFINE back == Ask(ledger.resume, <<"resume", k>>, {})
           away == Ask("integration_conflict", <<"resume", k>>,
                       {<<"observed", tree>>})
<1>3. PICK req \in {back, away} :
        /\ Becomes(p, [pc |-> "resuming", req |-> req])
        /\ UNCHANGED <<ledger, run, basis, tree, lineage>>
  BY DEF ResumeRead
<1>4. /\ req \in RequestType(EventKey, SUBSET ArtifactID)
      /\ req.expectedState = "blocked"
      /\ req.next \in Blockable \cup {"integration_conflict"}
      /\ req.key[1] = "resume"
  <2>1. /\ <<"resume", k>> \in EventKey
        /\ {<<"observed", tree>>} \subseteq ArtifactID
    BY <1>2 DEF EventKey, ArtifactID, Keys
  <2>2. CASE req = back
    BY <1>2, <2>1, <2>2
    DEF Ask, Request, RequestType, ResumeTargets, Blockable, States
  <2>3. CASE req = away
    BY <1>2, <2>1, <2>3
    DEF Ask, Request, RequestType, ResumeTargets, States
  <2> QED  BY <2>2, <2>3
<1> DEFINE local == [pc |-> "resuming", req |-> req]
<1>5. local \in ProcType /\ Prepared(local, basis.candidate, Len(graphs))
  BY <1>4 DEF ProcType, Prepared
<1> HIDE DEF local
<1> QED  BY <1>3, <1>5, ProcOnly DEF local

\* The worktree is edited, or a result or its lineage is written.
LEMMA EditStep ==
  ASSUME IInv, Edit
  PROVE  IInv'
<1>1. UNCHANGED <<ledger, run, basis, proc, lineage>> /\ tree' \in Nat
  BY DEF Edit, IInv, TypeOK
<1>2. DatabaseOK'
  BY <1>1, LedgerStays DEF IInv
<1> QED
  BY <1>1, <1>2 DEF IInv, TypeOK, lineage, BasisIsRecorded, Stage, ProcsAreReady

LEMMA CheckStep ==
  ASSUME IInv, NEW p \in Procs, Check(p)
  PROVE  IInv'
<1>1. /\ TypeOK /\ DatabaseOK /\ BasisIsRecorded /\ ProcsAreReady
      /\ proc \in [Procs -> ProcType]
      /\ UNCHANGED <<ledger, basis, tree, lineage>>
  BY DEF IInv, TypeOK, Check
<1>2. /\ proc[p].row \in RowType /\ proc[p].contract \in Nat
      /\ proc[p].tree \in Nat
  BY <1>1 DEF Check, ProcType, Idle
<1>3. PICK outcome \in Outcomes :
        LET result == [by |-> p, version |-> proc[p].row.version,
                       tree |-> proc[p].tree, contract |-> proc[p].contract,
                       outcome |-> outcome] IN
        /\ Persist(result)
        /\ Becomes(p, [pc |-> "checked", row |-> proc[p].row,
                       result |-> result])
  BY DEF Check, Outcomes
<1> DEFINE result == [by |-> p, version |-> proc[p].row.version,
                      tree |-> proc[p].tree, contract |-> proc[p].contract,
                      outcome |-> outcome]
           local == [pc |-> "checked", row |-> proc[p].row, result |-> result]
<1>4. result \in ResultType
  BY <1>2 DEF ResultType, RowType
<1>5. local \in ProcType /\ Prepared(local, basis.candidate, Len(graphs))
  <2> HIDE DEF result
  <2> QED  BY <1>2, <1>4 DEF ProcType, Prepared
<1>6. run' \in ResultType \cup {NoResult} /\ Becomes(p, local)
  BY <1>1, <1>3, <1>4 DEF Persist, TypeOK
<1> HIDE DEF local
<1>7. DatabaseOK'
  BY <1>1, LedgerStays
<1>8. BasisIsRecorded'
  BY <1>1 DEF BasisIsRecorded, Stage
<1>9. proc' \in [Procs -> ProcType] /\ ProcsAreReady'
  BY <1>1, <1>5, <1>6, GraphsHaveLength, ProcBecomes DEF lineage
<1> QED  BY <1>1, <1>6, <1>7, <1>8, <1>9 DEF IInv, TypeOK, lineage

LEMMA RecordStep ==
  ASSUME IInv, NEW p \in Procs, Record(p)
  PROVE  IInv'
<1>1. /\ TypeOK /\ DatabaseOK /\ BasisIsRecorded /\ ProcsAreReady
      /\ proc \in [Procs -> ProcType] /\ proc[p] \in ProcType
      /\ UNCHANGED <<ledger, run, tree, lineage>>
  BY DEF IInv, TypeOK, Record
<1>2. PICK pc \in {"recorded", "cleared"} :
        Becomes(p, [proc[p] EXCEPT !.pc = pc])
  BY DEF Record
<1>3. proc[p] \in [pc : {"found", "checked", "recorded", "cleared"},
                   row : RowType, result : ResultType]
  BY <1>1 DEF Record, ProcType, Idle
<1> DEFINE local == [proc[p] EXCEPT !.pc = pc]
<1>4. local \in ProcType /\ local.pc = pc /\ proc[p].result.tree \in Nat
  BY <1>3 DEF ProcType, ResultType
<1>5. /\ basis' \in [{"pre", "post", "candidate"} -> SUBSET Nat]
      /\ basis'.pre = basis.pre /\ basis'.candidate # {}
  BY <1>1, <1>4 DEF Record, TypeOK
<1>6. Prepared(local, basis'.candidate, Len(graphs'))
  BY <1>4, <1>5 DEF Prepared
<1>7. Becomes(p, local)
  BY <1>2
<1> HIDE DEF local
<1>8. DatabaseOK'
  BY <1>1, LedgerStays
<1>9. BasisIsRecorded'
  BY <1>1, <1>5 DEF BasisIsRecorded, Stage
<1>10. proc' \in [Procs -> ProcType] /\ ProcsAreReady'
  BY <1>1, <1>4, <1>5, <1>6, <1>7, GraphsHaveLength, ProcBecomes DEF lineage
<1> QED  BY <1>1, <1>5, <1>8, <1>9, <1>10 DEF IInv, TypeOK, lineage

-----------------------------------------------------------------------------
(* The transitions.                                                        *)

\* A transition leaves everything else alone.
LEMMA MoveStep ==
  ASSUME IInv, UNCHANGED <<run, basis, tree, proc, lineage>>,
         DatabaseOK', Stage' \in Judged => Stage \in Judged
  PROVE  IInv'
<1>1. /\ TypeOK /\ DatabaseOK /\ BasisIsRecorded /\ ProcsAreReady
      /\ UNCHANGED <<graphs, basis, proc>>
  BY DEF IInv, lineage
<1>2. ledger' \in LedgerType(EventKey, SUBSET ArtifactID)
  BY DEF DatabaseOK, LedgerOK
<1>3. BasisIsRecorded'
  BY <1>1 DEF BasisIsRecorded, Judged
<1>4. ProcsAreReady'
  BY <1>1 DEF ProcsAreReady
<1>5. TypeOK'
  BY <1>1, <1>2 DEF TypeOK, lineage
<1> QED  BY <1>1, <1>3, <1>4, <1>5 DEF IInv

\* An actor's transition: to a stage the review judges only from such a stage.
LEMMA AskedStep ==
  ASSUME IInv, NEW next \in States, NEW key \in EventKey,
         NEW art \in SUBSET ArtifactID, Moves(Ask(next, key, art)),
         key[1] \notin {"retry", "replan", "job_failed"},
         \A v \in Nat : key = <<"execution_start", v>> =>
            v = CurrentGraph /\ next = "executing",
         next # "blocked", next = "ready" => ledger.state = "blocked",
         next \in Judged => Stage \in Judged
  PROVE  IInv'
<1> DEFINE req == Ask(next, key, art)
<1>1. /\ DatabaseOK /\ ledger \in LedgerType(EventKey, SUBSET ArtifactID)
      /\ ledger.state \in States /\ ledger.version \in Nat
      /\ UNCHANGED <<run, basis, tree, proc, lineage>>
  BY DEF IInv, TypeOK, LedgerType, Moves
<1>2. /\ req \in RequestType(EventKey, SUBSET ArtifactID)
      /\ req.key = key /\ req.next = next /\ req.expectedState = ledger.state
  BY <1>1 DEF Ask, Request, RequestType, ResumeTargets
<1>3. /\ TransitionError(ledger, req) = "none"
      /\ ledger' = AfterTransition(ledger, req)
  BY DEF Moves
<1> HIDE DEF req
<1>4. DatabaseOK' /\ (ledger' = ledger \/ Stage' = next)
  BY <1>1, <1>2, <1>3, TransitionStep
<1>5. Stage' \in Judged => Stage \in Judged
  BY <1>4 DEF Stage
<1> QED  BY <1>1, <1>4, <1>5, MoveStep

LEMMA BeginStep ==
  ASSUME IInv, Begin
  PROVE  IInv'
<1>1. CurrentGraph \in Nat
  BY GraphsHaveLength DEF IInv
<1>2. /\ <<"execution_start", CurrentGraph>> \in EventKey
      /\ "executing" \in States /\ {} \in SUBSET ArtifactID
      /\ "executing" \notin Judged
  BY <1>1 DEF EventKey, States, Judged
<1>3. Moves(Ask("executing", <<"execution_start", CurrentGraph>>, {}))
  BY DEF Begin
<1> QED  BY <1>1, <1>2, <1>3, AskedStep

\* The transitions whose key carries the version they leave.
LEMMA VersionedStep ==
  ASSUME IInv,
         TechnicalRetry \/ ReviewStart \/ ReviewDrift \/ ReviewSevere
  PROVE  IInv'
<1>1. /\ TypeOK /\ ledger.version \in Nat /\ ledger.state \in States
      /\ ledger.state = "blocked" => ledger.resume \in Blockable
  BY DEF IInv, TypeOK, LedgerType, DatabaseOK, LedgerOK, ResumeExact
<1>2. CASE TechnicalRetry
  <2>1. /\ <<"technical_retry", ledger.version>> \in EventKey
        /\ ledger.resume \in States /\ ledger.resume # "blocked"
        /\ ledger.state = "blocked" /\ Stage = ledger.resume
    BY <1>1, <1>2 DEF EventKey, TechnicalRetry, Blockable, States, Stage
  <2>2. Moves(Ask(ledger.resume, <<"technical_retry", ledger.version>>, {}))
    BY <1>2 DEF TechnicalRetry
  <2> QED  BY <2>1, <2>2, AskedStep
<1>3. CASE ReviewStart
  <2>1. /\ <<"review_start", ledger.version>> \in EventKey
        /\ "reviewing" \in States /\ Stage \in Judged
    BY <1>1, <1>3 DEF EventKey, ReviewStart, States, Stage, Judged
  <2>2. Moves(Ask("reviewing", <<"review_start", ledger.version>>, {}))
    BY <1>3 DEF ReviewStart
  <2> QED  BY <2>1, <2>2, AskedStep
<1>4. CASE ReviewDrift
  <2>1. /\ <<"review_drift", ledger.version>> \in EventKey
        /\ "replan_required" \in States /\ "replan_required" \notin Judged
    BY <1>1 DEF EventKey, States, Judged
  <2>2. Moves(Ask("replan_required", <<"review_drift", ledger.version>>, {}))
    BY <1>4 DEF ReviewDrift
  <2> QED  BY <2>1, <2>2, AskedStep
<1>5. CASE ReviewSevere
  <2>1. /\ <<"review_severe", ledger.version>> \in EventKey
        /\ "replan_required" \in States /\ "replan_required" \notin Judged
        /\ {Finding(run)} \in SUBSET ArtifactID
    BY <1>1, <1>5
    DEF EventKey, States, Judged, Finding, ArtifactID, TypeOK, ResultType,
        ReviewSevere
  <2>2. Moves(Ask("replan_required", <<"review_severe", ledger.version>>,
                  {Finding(run)}))
    BY <1>5 DEF ReviewSevere
  <2> QED  BY <2>1, <2>2, AskedStep
<1> QED  BY <1>2, <1>3, <1>4, <1>5

\* A process's transition, after which it is idle.
LEMMA ProcessMoves ==
  ASSUME IInv, NEW p \in Procs,
         NEW req \in RequestType(EventKey, SUBSET ArtifactID),
         TransitionError(ledger, req) = "none",
         ledger' = AfterTransition(ledger, req),
         Ends(p), UNCHANGED <<run, basis, tree, lineage>>,
         req.key[1] \notin {"retry", "replan", "job_failed", "execution_start"},
         req.next # "blocked",
         req.next = "ready" => req.expectedState = "blocked",
         req.next \in Judged =>
            basis.candidate # {} \/ req.expectedState = "blocked"
  PROVE  IInv'
<1>1. /\ TypeOK /\ DatabaseOK /\ BasisIsRecorded /\ ProcsAreReady
      /\ proc \in [Procs -> ProcType] /\ UNCHANGED <<basis, graphs>>
  BY DEF IInv, TypeOK, lineage
<1>2. /\ DatabaseOK'
      /\ \/ ledger' = ledger
         \/ /\ ledger.state = req.expectedState
            /\ Stage' = req.next
            /\ ledger.state = "blocked" =>
                 req.next \in {Stage, "integration_conflict",
                              "replan_required", "aborted", "failed"}
  <2>1. \A v \in Nat : req.key # <<"execution_start", v>>
    OBVIOUS
  <2> QED  BY <1>1, <2>1, TransitionStep
<1>3. ledger' \in LedgerType(EventKey, SUBSET ArtifactID)
  BY <1>2 DEF DatabaseOK, LedgerOK
<1>4. BasisIsRecorded'
  <2>1. Stage' \in Judged => Stage \in Judged \/ basis.candidate # {}
    BY <1>2 DEF Stage, Judged
  <2> QED  BY <1>1, <2>1, BasisStays DEF BasisIsRecorded
<1>5. proc' \in [Procs -> ProcType] /\ ProcsAreReady'
  BY <1>1, IdleIsProc, GraphsHaveLength, ProcBecomes DEF Ends
<1>6. TypeOK'
  BY <1>1, <1>3, <1>5 DEF TypeOK, lineage
<1> QED  BY <1>2, <1>4, <1>5, <1>6 DEF IInv

LEMMA DecideStep ==
  ASSUME IInv, NEW p \in Procs, Decide(p)
  PROVE  IInv'
<1>1. /\ TypeOK /\ ProcsAreReady /\ proc[p] \in ProcType
      /\ UNCHANGED <<run, basis, tree, lineage>> /\ Ends(p)
      /\ TransitionError(ledger, Decision(p)) = "none"
      /\ ledger' = AfterTransition(ledger, Decision(p))
  BY DEF IInv, TypeOK, Decide
<1>2. /\ proc[p].row.version \in Nat /\ proc[p].result.tree \in Nat
  <2>1. proc[p] \in [pc : {"found", "checked", "recorded", "cleared"},
                     row : RowType, result : ResultType]
    BY <1>1 DEF Decide, ProcType, Idle
  <2> QED  BY <2>1 DEF RowType, ResultType
<1>3. PICK req : req = Decision(p)
  OBVIOUS
<1>4. /\ req \in RequestType(EventKey, SUBSET ArtifactID)
      /\ req.key[1] \in {"failed", "drift", "frozen"}
      /\ req.next \in {"replan_required", "candidate_frozen"}
  <2> DEFINE v == proc[p].row.version
             verdict(next, reason, art) ==
               Request("verifying", v, next, <<reason, v>>, art, NoState)
  <2> DEFINE evidence == {Evidence(proc[p].result.tree)}
  <2>1. \/ req = verdict("replan_required", "failed", evidence)
        \/ req = verdict("replan_required", "drift", {})
        \/ req = verdict("candidate_frozen", "frozen", {})
    BY <1>3 DEF Decision
  <2>2. /\ evidence \in SUBSET ArtifactID
        /\ <<"failed", v>> \in EventKey /\ <<"drift", v>> \in EventKey
        /\ <<"frozen", v>> \in EventKey
    BY <1>2 DEF Evidence, ArtifactID, EventKey
  <2> HIDE DEF evidence
  <2>3. CASE req = verdict("replan_required", "failed", evidence)
    BY <1>2, <2>2, <2>3 DEF Request, RequestType, States, ResumeTargets, NoState
  <2>4. CASE req = verdict("replan_required", "drift", {})
    BY <1>2, <2>2, <2>4 DEF Request, RequestType, States, ResumeTargets, NoState
  <2>5. CASE req = verdict("candidate_frozen", "frozen", {})
    BY <1>2, <2>2, <2>5 DEF Request, RequestType, States, ResumeTargets, NoState
  <2> HIDE DEF verdict
  <2> QED  BY <2>1, <2>3, <2>4, <2>5
<1>5. req.next = "candidate_frozen" => basis.candidate # {}
  <2>1. CASE proc[p].pc \in {"recorded", "cleared"}
    BY <1>1, <2>1 DEF ProcsAreReady, Prepared
  <2>2. CASE proc[p].pc \notin {"recorded", "cleared"}
    BY <1>3, <2>2 DEF Decide, DecisionReached, Decision, Request
  <2> QED  BY <2>1, <2>2
<1>6. req.next \in Judged => basis.candidate # {}
  BY <1>4, <1>5 DEF Judged
<1> QED  BY <1>1, <1>3, <1>4, <1>6, ProcessMoves

LEMMA ResumeCommitStep ==
  ASSUME IInv, NEW p \in Procs, ResumeCommit(p)
  PROVE  IInv'
<1>1. /\ TypeOK /\ ProcsAreReady /\ proc[p] \in ProcType
      /\ UNCHANGED <<run, basis, tree, lineage>> /\ Ends(p)
      /\ TransitionError(ledger, proc[p].req) = "none"
      /\ ledger' = AfterTransition(ledger, proc[p].req)
  BY DEF IInv, TypeOK, ResumeCommit
<1>2. PICK req : req = proc[p].req
  OBVIOUS
<1>3. /\ req.expectedState = "blocked"
      /\ req.next \in Blockable \cup {"integration_conflict"}
      /\ req.key[1] = "resume"
  BY <1>1, <1>2 DEF ProcsAreReady, Prepared, ResumeCommit
<1>4. req \in RequestType(EventKey, SUBSET ArtifactID)
  BY <1>1, <1>2 DEF ResumeCommit, ProcType, Idle
<1> QED  BY <1>1, <1>2, <1>3, <1>4, ProcessMoves DEF Blockable

\* The three writers that advance the row without SQLiteStore.Transition.
LEMMA AdvanceStep ==
  ASSUME DatabaseOK, NEW next \in States, NEW resume, NEW key \in EventKey,
         NEW art \in SUBSET ArtifactID, MayAdvance(ledger, next, resume, key)
  PROVE  LET m == Advance(ledger, next, resume, key, art) IN
         /\ LedgerOK(m, EventKey, SUBSET ArtifactID) /\ IdemAgrees(m)
         /\ OneLater(ledger, m, next, resume, key, art)
         /\ m.idem = ledger.idem
<1>1. /\ LedgerOK(ledger, EventKey, SUBSET ArtifactID) /\ IdemAgrees(ledger)
      /\ ledger \in LedgerType(EventKey, SUBSET ArtifactID)
  BY DEF DatabaseOK, LedgerOK
<1>2. resume \in ResumeTargets
  BY BlockedFromBlockable DEF MayAdvance, ResumeTargets
<1> QED
  BY <1>1, <1>2, AdvanceKeepsLedger, AdvanceKeepsIdem, AdvanceAddsOne

LEMMA JobFailsStep ==
  ASSUME IInv, JobFails
  PROVE  IInv'
<1> DEFINE key == <<"job_failed", ledger.version>>
           art == {<<"blocker", ledger.version>>}
           m == Advance(ledger, "blocked", ledger.state, key, art)
<1>1. /\ DatabaseOK /\ ledger.version \in Nat /\ ledger.state \in Blockable
      /\ ledger.version = Len(ledger.events)
      /\ ledger' = m /\ UNCHANGED <<run, basis, tree, proc, lineage>>
  BY DEF IInv, TypeOK, LedgerType, JobFails, DatabaseOK, LedgerOK, Chained
<1>2. key \in EventKey /\ art \in SUBSET ArtifactID /\ "blocked" \in States
  BY <1>1 DEF EventKey, ArtifactID, States
<1>3. key \notin EventKeys(ledger)
  BY <1>1 DEF DatabaseOK, KeysAreAccounted, EventKeys
<1>4. key[1] = "job_failed" /\ key[2] = ledger.version
  OBVIOUS
<1>5. \A v \in Nat : key # <<"execution_start", v>>
  OBVIOUS
<1> HIDE DEF key, art
<1>6. MayAdvance(ledger, "blocked", ledger.state, key)
  BY <1>1, <1>3 DEF MayAdvance, CanTransition
<1>7. /\ LedgerOK(m, EventKey, SUBSET ArtifactID) /\ IdemAgrees(m)
      /\ OneLater(ledger, m, "blocked", ledger.state, key, art)
  BY <1>1, <1>2, <1>6, AdvanceStep
<1> HIDE DEF m
<1>8. Stage' = ledger.state /\ Stage = ledger.state
  BY <1>1, <1>7 DEF OneLater, Stage, Blockable
<1>9. DatabaseOK'
  BY <1>1, <1>4, <1>5, <1>7, <1>8, LedgerMoves
<1> QED  BY <1>1, <1>8, <1>9, MoveStep

LEMMA CompleteStep ==
  ASSUME IInv, Complete
  PROVE  IInv'
<1> DEFINE key == <<"execution_complete", CurrentGraph>>
           req == Ask("verifying", key, {})
           m == Advance(ledger, "verifying", ledger.resume, key, {})
           r == Remember(m, req)
<1>1. /\ TypeOK /\ DatabaseOK /\ BasisIsRecorded /\ ProcsAreReady
      /\ ledger.version \in Nat /\ ledger.state = "executing"
      /\ ledger.version = Len(ledger.events) /\ ledger.resume = NoState
      /\ key \notin EventKeys(ledger) /\ ledger' = r
      /\ UNCHANGED <<run, proc, lineage>> /\ tree \in Nat
  <2>1. TypeOK /\ DatabaseOK /\ BasisIsRecorded /\ ProcsAreReady
    BY DEF IInv
  <2>2. /\ ledger.state = "executing" /\ key \notin EventKeys(ledger)
        /\ ledger' = r /\ UNCHANGED <<run, proc, lineage>>
    BY DEF Complete, Ask, Request
  <2>3. /\ ledger.version \in Nat /\ ledger.version = Len(ledger.events)
        /\ ledger.resume = NoState /\ tree \in Nat
    BY <2>1, <2>2
    DEF TypeOK, LedgerType, DatabaseOK, LedgerOK, Chained, ResumeExact
  <2> QED  BY <2>1, <2>2, <2>3
<1>2. /\ tree' \in Nat
      /\ basis' \in [{"pre", "post", "candidate"} -> SUBSET Nat]
      /\ basis'.pre # {} /\ basis'.candidate = basis.candidate
  <2>1. tree' \in Nat
    BY <1>1 DEF Complete
  <2>2. basis' = [basis EXCEPT !.pre = {tree}, !.post = {tree'}]
    BY DEF Complete
  <2>3. basis \in [{"pre", "post", "candidate"} -> SUBSET Nat]
    BY <1>1 DEF TypeOK
  <2> QED  BY <1>1, <2>1, <2>2, <2>3
<1>3. CurrentGraph \in Nat
  BY <1>1, GraphsHaveLength
<1>4. /\ key \in EventKey /\ {} \in SUBSET ArtifactID /\ "verifying" \in States
      /\ key[1] = "execution_complete"
      /\ \A v \in Nat : key # <<"execution_start", v>>
  BY <1>3 DEF EventKey, States
<1> HIDE DEF key
<1>5. MayAdvance(ledger, "verifying", ledger.resume, key)
  BY <1>1 DEF MayAdvance, CanTransition, Forward
<1>6. /\ LedgerOK(m, EventKey, SUBSET ArtifactID) /\ IdemAgrees(m)
      /\ OneLater(ledger, m, "verifying", ledger.resume, key, {})
      /\ m.idem = ledger.idem
  BY <1>1, <1>4, <1>5, AdvanceStep
<1>7. /\ req \in RequestType(EventKey, SUBSET ArtifactID)
      /\ req.key = key /\ req.expectedVersion = ledger.version
  BY <1>1, <1>4 DEF Ask, Request, RequestType, ResumeTargets, States
<1> HIDE DEF req, m
<1>8. ~IsReplay(m, req)
  <2>1. ~IsReplay(ledger, req)
    BY <1>1, <1>7, FreshIsNoReplay DEF DatabaseOK
  <2> QED  BY <1>6, <2>1 DEF IsReplay, AnswersTo
<1>9. /\ m.version = req.expectedVersion + 1 /\ m.events[m.version].key = req.key
      /\ m \in LedgerType(EventKey, SUBSET ArtifactID)
  BY <1>1, <1>6, <1>7 DEF OneLater, LedgerOK
<1>10. LedgerOK(r, EventKey, SUBSET ArtifactID) /\ IdemAgrees(r)
  BY <1>6, <1>7, <1>8, <1>9, RememberKeepsLedger
<1>11. /\ r.state = m.state /\ r.version = m.version /\ r.resume = m.resume
       /\ r.events = m.events /\ EventKeys(r) = EventKeys(m)
  BY <1>9, RememberAddsNone
<1>12. OneLater(ledger, r, "verifying", ledger.resume, key, {})
  BY <1>6, <1>11 DEF OneLater
<1> HIDE DEF r
<1>13. Stage' = "verifying"
  BY <1>1, <1>12 DEF OneLater, Stage
<1>14. DatabaseOK'
  BY <1>1, <1>4, <1>10, <1>12, <1>13, LedgerMoves
<1>15. ledger' \in LedgerType(EventKey, SUBSET ArtifactID)
  BY <1>14 DEF DatabaseOK, LedgerOK
<1>16. BasisIsRecorded'
  BY <1>1, <1>2, <1>13, BasisStays DEF Judged
<1>17. ProcsAreReady'
  BY <1>1, <1>2, GraphsHaveLength, ProcsStay DEF lineage
<1>18. TypeOK'
  BY <1>1, <1>2, <1>15 DEF TypeOK, lineage
<1> QED  BY <1>14, <1>16, <1>17, <1>18 DEF IInv

-----------------------------------------------------------------------------
(* The two corrections.                                                    *)

LEMMA KeysStayAccounted ==
  ASSUME KeysAreAccounted, Len(ledger.events) \in Nat,
         NEW next, NEW resume, NEW key, NEW art,
         OneLater(ledger, ledger', next, resume, key, art),
         revisions \subseteq revisions', replans \subseteq replans',
         key[1] # "job_failed",
         key[1] = "retry" => \E r \in revisions' : r.key = key[2],
         key[1] = "replan" => \E r \in replans' : r.key = key[2]
  PROVE  KeysAreAccounted'
<1> DEFINE n == Len(ledger.events)
<1>1. /\ n \in Nat /\ Len(ledger'.events) = n + 1
      /\ \A i \in 1..n : ledger'.events[i] = ledger.events[i]
      /\ ledger'.events[n + 1].key = key
  BY DEF OneLater
<1> SUFFICES ASSUME NEW i \in 1..n + 1
             PROVE  LET k == ledger'.events[i].key IN
                    /\ k[1] = "job_failed" => k[2] = i - 1
                    /\ k[1] = "retry" => \E r \in revisions' : r.key = k[2]
                    /\ k[1] = "replan" => \E r \in replans' : r.key = k[2]
  BY <1>1 DEF KeysAreAccounted
<1>2. CASE i = n + 1
  BY <1>1, <1>2
<1>3. CASE i \in 1..n
  BY <1>1, <1>3 DEF KeysAreAccounted
<1> QED  BY <1>1, <1>2, <1>3

\* A retry takes the number after the last of the archive and of the revisions,
\* which then are equally long.
LEMMA RetryTakesTheNext ==
  ASSUME RevisionsMatchArchive, NumbersAreDense,
         RetryRevision \notin ArchiveNumbers
  PROVE  \E n \in Nat : /\ ArchiveNumbers = 1..n /\ RevisionNumbers = 1..n
                        /\ RetryRevision = n + 1
<1>1. PICK m \in Nat, n \in Nat :
        ArchiveNumbers = 1..m /\ RevisionNumbers = 1..n
  BY DEF NumbersAreDense
<1>2. RetryRevision = n + 1
  BY <1>1, HighestOfRange DEF RetryRevision
<1>3. RevisionNumbers \subseteq ArchiveNumbers
  <2> SUFFICES ASSUME NEW r \in revisions PROVE r.revision \in ArchiveNumbers
    BY DEF RevisionNumbers
  <2> DEFINE h == [revision |-> r.revision, result |-> r.previous]
  <2>1. h \in history /\ h.revision = r.revision
    BY DEF RevisionsMatchArchive
  <2> QED  BY <2>1 DEF ArchiveNumbers
<1>4. m = n
  <2>1. n + 1 \notin 1..m
    BY <1>1, <1>2
  <2>2. n >= 1 => n \in 1..m
    BY <1>1, <1>3
  <2> QED  BY <2>1, <2>2
<1> QED  BY <1>1, <1>2, <1>4

LEMMA RetryCommitStep ==
  ASSUME IInv, NEW p \in Procs, RetryCommit(p)
  PROVE  IInv'
<1> DEFINE k == proc[p].key
           R == RetryRevision
           key == <<"retry", k>>
           art == {<<"revision", R>>}
           m == Advance(ledger, "verifying", NoState, key, art)
           kept == [revision |-> R, result |-> run]
           record == [revision |-> R, key |-> k, previous |-> run]
           local == [pc |-> "planned", contract |-> contract + 1]
<1>1. /\ TypeOK /\ DatabaseOK /\ BasisIsRecorded /\ ProcsAreReady
      /\ proc \in [Procs -> ProcType] /\ proc[p] \in ProcType
      /\ contract \in Nat
  BY DEF IInv, TypeOK
<1>2. /\ run = proc[p].result /\ run \in ResultType /\ run.outcome = "failed"
      /\ k \in Keys
  <2>1. proc[p].pc = "retrying" /\ run = proc[p].result
    BY DEF RetryCommit, RetryAdmitted
  <2>2. proc[p] \in [pc : {"retrying"}, key : Keys, result : ResultType]
    BY <1>1, <2>1 DEF ProcType, Idle
  <2>3. proc[p].result.outcome = "failed"
    BY <1>1, <2>1 DEF ProcsAreReady, Prepared
  <2> QED  BY <2>1, <2>2, <2>3
<1>3. /\ ledger' = m /\ run' = NoResult /\ contract' = contract + 1
      /\ history' = history \cup {kept}
      /\ revisions' = revisions \cup {record}
      /\ Becomes(p, local) /\ UNCHANGED <<graphs, replans, basis, tree>>
      /\ \A r \in revisions : r.key # k
      /\ \/ ledger.state = "replan_required"
         \/ ledger.state = "blocked" /\ ledger.resume = "verifying"
      /\ R \notin ArchiveNumbers
  BY <1>2 DEF RetryCommit, Archive, LedgerAfterRetry, RetryAdmitted
<1>4. PICK n \in Nat : /\ ArchiveNumbers = 1..n /\ RevisionNumbers = 1..n
                       /\ R = n + 1
  BY <1>1, <1>3, RetryTakesTheNext DEF DatabaseOK
<1>5. /\ key \in EventKey /\ art \in SUBSET ArtifactID /\ "verifying" \in States
      /\ key[1] = "retry" /\ key[2] = k
      /\ \A v \in Nat : key # <<"execution_start", v>>
  BY <1>2, <1>4 DEF EventKey, ArtifactID, States
<1>6. key \notin EventKeys(ledger)
  BY <1>1, <1>3 DEF DatabaseOK, KeysAreAccounted, EventKeys
<1>7. /\ kept \in [revision : Nat, result : ResultType]
      /\ record \in [revision : Nat, key : Keys, previous : ResultType]
      /\ kept.revision = R /\ kept.result = run
      /\ record.revision = R /\ record.key = k /\ record.previous = run
      /\ kept = [revision |-> record.revision, result |-> record.previous]
  BY <1>2, <1>4
<1>8. local \in ProcType /\ Prepared(local, basis'.candidate, Len(graphs'))
  BY <1>1 DEF ProcType, Prepared
<1> HIDE DEF key, art, R, local, kept, record, k
<1>9. MayAdvance(ledger, "verifying", NoState, key)
  BY <1>3, <1>6 DEF MayAdvance, CanTransition, Forward, Blockable
<1>10. /\ LedgerOK(m, EventKey, SUBSET ArtifactID) /\ IdemAgrees(m)
       /\ OneLater(ledger, m, "verifying", NoState, key, art)
  BY <1>1, <1>5, <1>9, AdvanceStep
<1> HIDE DEF m
<1>11. /\ Len(ledger.events) \in Nat
       /\ EventKeys(ledger') = EventKeys(ledger) \cup {key}
       /\ Stage' = "verifying"
  BY <1>1, <1>3, <1>10
  DEF DatabaseOK, LedgerOK, LedgerType, Chained, OneLater, Stage
<1>12. KeysAreAccounted'
  <2>1. KeysAreAccounted /\ record \in revisions'
    BY <1>1, <1>3 DEF DatabaseOK
  <2> QED
    BY <1>3, <1>5, <1>7, <1>10, <1>11, <2>1, KeysStayAccounted
<1>13. StartsFollowGraphs'
  BY <1>1, <1>3, <1>5, <1>11, GraphsHaveLength
     DEF DatabaseOK, StartsFollowGraphs
<1>14. GraphsAreNumbered'
  BY <1>1, <1>3 DEF DatabaseOK, GraphsAreNumbered
<1>15. ReplansMatchGraphs'
  <2>1. \A r \in replans : AnswersItsFinding(r)'
    BY <1>1, <1>3, <1>10, <1>11, AnswersStay DEF DatabaseOK, ReplansMatchGraphs
  <2> QED  BY <1>1, <1>3, <2>1 DEF DatabaseOK, ReplansMatchGraphs
<1>16. \A r \in revisions : r.revision \in 1..n
  BY <1>4 DEF RevisionNumbers
<1>17. \A h \in history : h.revision \in 1..n
  BY <1>4 DEF ArchiveNumbers
<1>18. RevisionsMatchArchive'
  <2>0. RevisionsMatchArchive
    BY <1>1 DEF DatabaseOK
  <2>1. \A r \in revisions' :
          /\ r.previous.outcome = "failed"
          /\ [revision |-> r.revision, result |-> r.previous] \in history'
    BY <1>2, <1>3, <1>7, <2>0 DEF RevisionsMatchArchive
  <2>2. \A r, q \in revisions' :
          r.key = q.key \/ r.revision = q.revision => r = q
    BY <1>3, <1>4, <1>7, <1>16, <2>0 DEF RevisionsMatchArchive
  <2>3. \A h, i \in history' : h.revision = i.revision => h = i
    BY <1>3, <1>4, <1>7, <1>17, <2>0 DEF RevisionsMatchArchive
  <2> QED  BY <2>1, <2>2, <2>3 DEF RevisionsMatchArchive
<1>19. NumbersAreDense'
  <2>1. ArchiveNumbers' = ArchiveNumbers \cup {R}
    BY <1>3, <1>7 DEF ArchiveNumbers
  <2>2. RevisionNumbers' = RevisionNumbers \cup {R}
    BY <1>3, <1>7 DEF RevisionNumbers
  <2>3. (1..n) \cup {n + 1} = 1..n + 1 /\ n + 1 \in Nat
    OBVIOUS
  <2> QED  BY <1>4, <2>1, <2>2, <2>3 DEF NumbersAreDense
<1>20. DatabaseOK'
  BY <1>3, <1>10, <1>12, <1>13, <1>14, <1>15, <1>18, <1>19 DEF DatabaseOK
<1>21. BasisIsRecorded'
  BY <1>1, <1>3, <1>11, BasisStays DEF BasisIsRecorded, Judged
<1>22. proc' \in [Procs -> ProcType] /\ ProcsAreReady'
  BY <1>1, <1>3, <1>8, GraphsHaveLength, ProcBecomes
<1>23. TypeOK'
  <2>1. ledger' \in LedgerType(EventKey, SUBSET ArtifactID)
    BY <1>20 DEF DatabaseOK, LedgerOK
  <2> QED  BY <1>1, <1>3, <1>7, <1>22, <2>1 DEF TypeOK
<1> QED  BY <1>20, <1>21, <1>22, <1>23 DEF IInv

LEMMA ReplanCommitStep ==
  ASSUME IInv, NEW p \in Procs, ReplanCommit(p)
  PROVE  IInv'
<1> DEFINE k == proc[p].key
           request == proc[p].request
           g == Len(graphs)
           n == Len(ledger.events)
           A == ReplanArchiveRevision
           key == <<"replan", k>>
           art == {request.finding, <<"graph", g + 1>>}
           m == Advance(ledger, "ready", NoState, key, art)
           kept == [revision |-> A, result |-> run]
           record == [key |-> k, request |-> request, version |-> g + 1]
<1>1. /\ TypeOK /\ DatabaseOK /\ BasisIsRecorded /\ ProcsAreReady
      /\ proc \in [Procs -> ProcType] /\ proc[p] \in ProcType
      /\ contract \in Nat /\ g \in Nat /\ g >= 1 /\ graphs \in Seq(Nat)
      /\ run \in ResultType \cup {NoResult}
  BY GraphsHaveLength DEF IInv, TypeOK
<1>2. /\ k \in Keys /\ request \in [finding : ArtifactID, target : Nat]
      /\ request.target \in 2..g + 1 /\ request.finding \in ArtifactID
  <2>1. proc[p].pc = "replanning"
    BY DEF ReplanCommit
  <2>2. proc[p] \in [pc : {"replanning"}, key : Keys,
                     request : [finding : ArtifactID, target : Nat]]
    BY <1>1, <2>1 DEF ProcType, Idle
  <2>3. proc[p].request.target \in 2..g + 1
    BY <1>1, <2>1 DEF ProcsAreReady, Prepared
  <2> QED  BY <2>2, <2>3
<1>3. /\ ledger' = m /\ run' = NoResult /\ contract' = contract + 1
      /\ graphs' = Append(graphs, request.target)
      /\ history' \in {history, history \cup {kept}}
      /\ run = NoResult => history' = history
      /\ run # NoResult => history' = history \cup {kept}
      /\ replans' = replans \cup {record}
      /\ Ends(p) /\ UNCHANGED <<revisions, basis, tree>>
      /\ \A r \in replans : r.key # k
      /\ ledger.state = "replan_required"
      /\ request.finding \in Invalidations
  BY DEF ReplanCommit, Archive
<1>4. PICK a \in Nat : ArchiveNumbers = 1..a
  BY <1>1 DEF DatabaseOK, NumbersAreDense
<1>5. A = a + 1
  BY <1>4, HighestOfRange DEF ReplanArchiveRevision
<1>6. /\ key \in EventKey /\ art \in SUBSET ArtifactID /\ "ready" \in States
      /\ key[1] = "replan" /\ key[2] = k
      /\ \A v \in Nat : key # <<"execution_start", v>>
  BY <1>1, <1>2 DEF EventKey, ArtifactID, States
<1>7. key \notin EventKeys(ledger)
  <2> SUFFICES ASSUME NEW i \in 1..n, ledger.events[i].key = key
               PROVE  FALSE
    BY DEF EventKeys
  <2>1. \E r \in replans : r.key = k
    BY <1>1, <1>6 DEF DatabaseOK, KeysAreAccounted
  <2> QED  BY <1>3, <2>1
<1>8. /\ record \in [key : Keys, version : Nat,
                     request : [finding : ArtifactID, target : Nat]]
      /\ record.key = k /\ record.version = g + 1 /\ record.request = request
  BY <1>1, <1>2
<1>9. kept.revision = a + 1 /\ kept.result = run
  BY <1>5
<1>10. run # NoResult => kept \in [revision : Nat, result : ResultType]
  BY <1>1, <1>5
<1>11. /\ Len(graphs') = g + 1 /\ graphs' \in Seq(Nat)
       /\ \A i \in 1..g : graphs'[i] = graphs[i]
       /\ graphs'[g + 1] = request.target
  BY <1>1, <1>2, <1>3
<1> HIDE DEF key, art, A, kept, record, k, request
<1>12. MayAdvance(ledger, "ready", NoState, key)
  BY <1>3, <1>7 DEF MayAdvance, CanTransition, Forward
<1>13. /\ LedgerOK(m, EventKey, SUBSET ArtifactID) /\ IdemAgrees(m)
       /\ OneLater(ledger, m, "ready", NoState, key, art)
  BY <1>1, <1>6, <1>12, AdvanceStep
<1> HIDE DEF m
<1>14. /\ n \in Nat /\ Len(ledger'.events) = n + 1
       /\ \A i \in 1..n : ledger'.events[i] = ledger.events[i]
       /\ ledger'.events[n + 1].key = key
       /\ EventKeys(ledger') = EventKeys(ledger) \cup {key}
       /\ Stage' = "ready"
  BY <1>1, <1>3, <1>13
  DEF DatabaseOK, LedgerOK, LedgerType, Chained, OneLater, Stage
\* The entry into replan_required that is left is the last one.
<1>15. /\ n >= 1 /\ ledger.events[n].to = "replan_required"
       /\ request.finding \in ledger.events[n].artifacts
  <2>1. n >= 1 /\ ledger.events[n].to = "replan_required"
    BY <1>1, <1>3, <1>14 DEF DatabaseOK, LedgerOK, Chained
  <2>2. n \in ReplanEvents /\ ReplanEvents \in SUBSET (1..n)
    BY <1>14, <2>1 DEF ReplanEvents
  <2>3. Highest(ReplanEvents) = n
    BY <1>14, <2>2, HighestIsLast
  <2> QED  BY <1>3, <2>1, <2>2, <2>3 DEF Invalidations
<1>16. KeysAreAccounted'
  <2>1. KeysAreAccounted /\ record \in replans'
    BY <1>1, <1>3 DEF DatabaseOK
  <2> QED
    BY <1>3, <1>6, <1>8, <1>13, <1>14, <2>1, KeysStayAccounted
<1>17. StartsFollowGraphs'
  <2>1. \A v \in Nat : <<"execution_start", v>> \in EventKeys(ledger') => v <= g
    BY <1>1, <1>6, <1>14 DEF DatabaseOK, StartsFollowGraphs
  <2> QED  BY <1>1, <1>11, <2>1 DEF StartsFollowGraphs
<1>18. GraphsAreNumbered'
  <2>1. g \in Nat /\ g >= 1 /\ request.target \in 2..g + 1
    BY <1>1, <1>2
  <2>2. graphs[1] = 1 /\ \A i \in 1..g : graphs[i] \in 1..i
    BY <1>1 DEF DatabaseOK, GraphsAreNumbered
  <2>3. graphs'[1] = 1 BY <1>11, <2>1, <2>2
  <2>4. \A i \in 1..g + 1 : graphs'[i] \in 1..i
    <3> SUFFICES ASSUME NEW i \in 1..g + 1 PROVE graphs'[i] \in 1..i
      OBVIOUS
    <3>1. CASE i = g + 1 BY <1>11, <2>1, <3>1
    <3>2. CASE i # g + 1
      <4>1. i \in 1..g BY <2>1, <3>2
      <4> QED BY <1>11, <2>2, <4>1
    <3> QED BY <3>1, <3>2
  <2> HIDE DEF g
  <2> QED BY <1>11, <2>1, <2>3, <2>4 DEF GraphsAreNumbered
<1>19. ReplansMatchGraphs'
  <2>0. ReplansMatchGraphs
    BY <1>1 DEF DatabaseOK
  <2>1. \A r \in replans : AnswersItsFinding(r)'
    BY <1>3, <1>13, <1>14, <2>0, AnswersStay DEF ReplansMatchGraphs
  <2>2. PICK r0 : r0 = record
    OBVIOUS
  <2>3. AnswersItsFinding(r0)'
    <3>1. /\ n + 1 \in 2..Len(ledger'.events)
          /\ ledger'.events[n + 1].key = <<"replan", k>>
          /\ ledger'.events[(n + 1) - 1] = ledger.events[n]
      BY <1>14, <1>15 DEF key
    <3> QED  BY <1>8, <1>15, <2>2, <3>1 DEF AnswersItsFinding
  <2>4. \A r \in replans' : AnswersItsFinding(r)'
    BY <1>3, <2>1, <2>2, <2>3
  <2>5. \A i \in 2..Len(graphs') : \E r \in replans' : r.version = i
    BY <1>1, <1>3, <1>8, <1>11, <2>0 DEF ReplansMatchGraphs
  <2>6. \A r \in replans' :
          /\ r.version \in 2..Len(graphs')
          /\ graphs'[r.version] = r.request.target
          /\ r.request.target \in 2..r.version
    BY <1>1, <1>2, <1>3, <1>8, <1>11, <2>0 DEF ReplansMatchGraphs
  <2>7. \A r, q \in replans' : r.key = q.key \/ r.version = q.version => r = q
    BY <1>1, <1>3, <1>8, <2>0 DEF ReplansMatchGraphs
  <2> QED  BY <2>4, <2>5, <2>6, <2>7 DEF ReplansMatchGraphs
<1>20. \A h \in history : h.revision \in 1..a
  BY <1>4 DEF ArchiveNumbers
<1>21. RevisionsMatchArchive'
  <2>0. RevisionsMatchArchive /\ history \subseteq history'
    BY <1>1, <1>3 DEF DatabaseOK
  <2>1. \A h, i \in history' : h.revision = i.revision => h = i
    BY <1>3, <1>4, <1>9, <1>20, <2>0 DEF RevisionsMatchArchive
  <2> QED  BY <1>3, <2>0, <2>1 DEF RevisionsMatchArchive
<1>22. NumbersAreDense'
  <2>1. ArchiveNumbers' \in {ArchiveNumbers, ArchiveNumbers \cup {a + 1}}
    BY <1>3, <1>9 DEF ArchiveNumbers
  <2>2. (1..a) \cup {a + 1} = 1..a + 1 /\ a + 1 \in Nat
    OBVIOUS
  <2>3. RevisionNumbers' = RevisionNumbers
    BY <1>3 DEF RevisionNumbers
  <2>4. \E b \in Nat : ArchiveNumbers' = 1..b
    BY <1>4, <2>1, <2>2
  <2> QED  BY <1>1, <2>3, <2>4 DEF DatabaseOK, NumbersAreDense
<1>23. DatabaseOK'
  BY <1>3, <1>13, <1>16, <1>17, <1>18, <1>19, <1>21, <1>22 DEF DatabaseOK
<1>24. BasisIsRecorded'
  BY <1>1, <1>3, <1>14, BasisStays DEF BasisIsRecorded, Judged
<1>25. proc' \in [Procs -> ProcType] /\ ProcsAreReady'
  BY <1>1, <1>3, <1>11, IdleIsProc, ProcBecomes DEF Ends
<1>26. TypeOK'
  <2>1. ledger' \in LedgerType(EventKey, SUBSET ArtifactID)
    BY <1>23 DEF DatabaseOK, LedgerOK
  <2> QED
    BY <1>1, <1>3, <1>8, <1>10, <1>11, <1>25, <2>1 DEF TypeOK
<1> QED  BY <1>23, <1>24, <1>25, <1>26 DEF IInv

-----------------------------------------------------------------------------
(* The theorems.                                                           *)

LEMMA InitIInv ==
  Init => IInv
<1> SUFFICES ASSUME Init PROVE IInv
  OBVIOUS
<1> DEFINE A == SUBSET ArtifactID
           discovering == Request("created", 0, "discovering", <<"start", 0>>,
                                  {}, NoState)
           ready == Request("discovering", 1, "ready", <<"start", 1>>, {},
                            NoState)
           one == AfterTransition(NewLedger, discovering)
           two == AfterTransition(one, ready)
<1>0. /\ ledger = two
      /\ discovering.next = "discovering" /\ discovering.key = <<"start", 0>>
      /\ discovering.artifacts = {}
      /\ ready.next = "ready" /\ ready.key = <<"start", 1>>
      /\ ready.artifacts = {}
  BY DEF Init, StartedLedger, Request
<1>1. /\ discovering \in RequestType(EventKey, A)
      /\ ready \in RequestType(EventKey, A)
      /\ <<"start", 0>> \in EventKey /\ <<"start", 1>> \in EventKey
  BY DEF Request, RequestType, EventKey, States, ResumeTargets, NoState
<1>2. LedgerOK(NewLedger, EventKey, A) /\ IdemAgrees(NewLedger)
  BY NewLedgerOK
<1>3. TransitionError(NewLedger, discovering) = "none"
  BY DEF TransitionError, NewLedger, Request, IsReplay, AnswersTo, CASMatches,
         IsLegal, CanTransition, Forward, EventKeys
<1>4. LedgerOK(one, EventKey, A) /\ IdemAgrees(one)
  BY <1>1, <1>2, <1>3, TransitionKeepsLedger
<1>5. /\ one.state = "discovering" /\ one.version = 1 /\ one.resume = NoState
      /\ EventKeys(one) = {<<"start", 0>>}
      /\ Len(one.events) = 1
  <2>1. /\ OneLater(NewLedger, one, "discovering",
                    ResumeAfter(NewLedger, discovering), <<"start", 0>>, {})
        \/ one = NewLedger
    <3> HIDE DEF one, discovering
    <3>1. LET x == AfterTransition(NewLedger, discovering) IN
          \/ x = NewLedger
          \/ OneLater(NewLedger, x, discovering.next,
                      ResumeAfter(NewLedger, discovering), discovering.key,
                      discovering.artifacts)
      BY <1>1, <1>2, <1>3, TransitionAddsOne
    <3> QED  BY <1>0, <3>1 DEF one
  <2>2. one.state = "discovering" /\ one.version = 1 /\ one.resume = NoState
    BY DEF AfterTransition, IsReplay, AnswersTo, NewLedger, Remember, Advance,
           Request, ResumeAfter
  <2>3. EventKeys(NewLedger) = {} /\ NewLedger.version = 0
        /\ Len(NewLedger.events) = 0
    BY DEF EventKeys, NewLedger
  <2> QED  BY <2>1, <2>2, <2>3 DEF OneLater
<1> HIDE DEF one
<1>6. ~IsReplay(one, ready) /\ ready.key \notin EventKeys(one)
  <2>1. ready.key = <<"start", 1>> /\ <<"start", 1>> # <<"start", 0>>
    BY DEF Request
  <2> QED  BY <1>4, <1>5, <2>1, FreshIsNoReplay
<1>7. TransitionError(one, ready) = "none"
  BY <1>5, <1>6
  DEF TransitionError, Request, CASMatches, IsLegal, CanTransition, Forward
<1>8. LedgerOK(two, EventKey, A) /\ IdemAgrees(two)
  BY <1>1, <1>4, <1>7, TransitionKeepsLedger
<1>9. /\ two.state = "ready"
      /\ EventKeys(two) = {<<"start", 0>>, <<"start", 1>>}
  <2>1. \/ two = one
        \/ OneLater(one, two, "ready", ResumeAfter(one, ready),
                    <<"start", 1>>, {})
    <3> HIDE DEF two, ready
    <3>1. LET x == AfterTransition(one, ready) IN
          \/ x = one
          \/ OneLater(one, x, ready.next, ResumeAfter(one, ready), ready.key,
                      ready.artifacts)
      BY <1>1, <1>4, <1>7, TransitionAddsOne
    <3> QED  BY <1>0, <3>1 DEF two
  <2>2. two.state = "ready"
    BY <1>6 DEF AfterTransition, Remember, Advance, Request
  <2> QED  BY <1>5, <2>1, <2>2 DEF OneLater
<1> HIDE DEF two, ready, discovering
<1>11. \A i \in 1..Len(ledger.events) : ledger.events[i].key[1] = "start"
  BY <1>9, <1>0 DEF EventKeys
<1>12. /\ graphs = <<1>> /\ history = {} /\ revisions = {} /\ replans = {}
       /\ Len(graphs) = 1 /\ graphs[1] = 1 /\ graphs \in Seq(Nat)
       /\ proc = [p \in Procs |-> Idle]
       /\ basis = [pre |-> {0}, post |-> {}, candidate |-> {}]
       /\ contract = 1 /\ tree = 0 /\ run = NoResult
  BY DEF Init
<1>13. KeysAreAccounted
  BY <1>11 DEF KeysAreAccounted
<1>14. StartsFollowGraphs
  BY <1>9, <1>0 DEF StartsFollowGraphs
<1>15. GraphsAreNumbered /\ ReplansMatchGraphs /\ RevisionsMatchArchive
  BY <1>12 DEF GraphsAreNumbered, ReplansMatchGraphs, RevisionsMatchArchive
<1>16. NumbersAreDense
  <2>1. ArchiveNumbers = 1..0 /\ RevisionNumbers = 1..0
    BY <1>12 DEF ArchiveNumbers, RevisionNumbers
  <2> QED  BY <2>1 DEF NumbersAreDense
<1>17. DatabaseOK
  BY <1>8, <1>0, <1>13, <1>14, <1>15, <1>16 DEF DatabaseOK
<1>18. BasisIsRecorded
  BY <1>9, <1>0, <1>12 DEF BasisIsRecorded, Stage
<1>19. ProcsAreReady
  BY <1>12, IdleIsProc DEF ProcsAreReady
<1>20. TypeOK
  BY <1>8, <1>0, <1>12, IdleIsProc DEF TypeOK, LedgerOK
<1> QED  BY <1>17, <1>18, <1>19, <1>20 DEF IInv

LEMMA NextIInv ==
  IInv /\ [Next]_vars => IInv'
<1> SUFFICES ASSUME IInv, [Next]_vars PROVE IInv'
  OBVIOUS
<1>1. CASE UNCHANGED vars
  <2>1. UNCHANGED <<ledger, run, basis, tree, proc, lineage>>
    BY <1>1 DEF vars, lineage
  <2>2. DatabaseOK'
    BY <2>1, LedgerStays DEF IInv
  <2>3. Stage' = Stage
    BY <2>1 DEF Stage
  <2> QED  BY <2>1, <2>2, <2>3, MoveStep
<1>2. CASE \/ Begin \/ Complete \/ JobFails \/ TechnicalRetry
           \/ ReviewStart \/ ReviewDrift \/ ReviewSevere \/ Edit
  BY <1>2, BeginStep, CompleteStep, JobFailsStep, VersionedStep, EditStep
<1>3. ASSUME NEW p \in Procs, ProcStep(p)
      PROVE  IInv'
  <2>1. CASE \/ RunBegins(p) \/ ReadRow(p) \/ Quit(p)
             \/ \E k \in RetryKeys : RetryRepeats(p, k)
    BY <2>1, ReadingStep
  <2>2. CASE Check(p) \/ Record(p) \/ Decide(p) \/ ResumeCommit(p)
    BY <2>2, CheckStep, RecordStep, DecideStep, ResumeCommitStep
  <2>3. CASE \E k \in ResumeKeys, blocker \in KnownBlockers :
               ResumeRead(p, k, blocker)
    BY <2>3, ResumeReadStep
  <2>4. CASE RetryCommit(p) \/ ReplanCommit(p)
    BY <2>4, RetryCommitStep, ReplanCommitStep
  <2>5. CASE \E k \in RetryKeys : RetryRead(p, k)
    BY <2>5, RetryReadStep
  <2>6. CASE \E k \in ReplanKeys, finding \in KnownArtifacts :
               ReplanRead(p, k, finding)
    BY <2>6, ReplanReadStep
  <2> QED  BY <1>3, <2>1, <2>2, <2>3, <2>4, <2>5, <2>6 DEF ProcStep
<1> QED  BY <1>1, <1>2, <1>3 DEF Next

\* The inductive invariant holds in every reachable state.
THEOREM InvariantHolds == Spec => []IInv
  BY InitIInv, NextIInv, PTL DEF Spec

\* Whatever processes retry, replan, resume, decide and die in whatever order:
\* the audit trail accounts for the row, the archive for the revisions, and the
\* graphs for the replans (RetryVerification, Replan, verification.Runner.Run).
THEOREM RevisionsSafety == Spec => []RevisionsKept
<1>1. IInv => RevisionsKept
  BY DEF IInv, DatabaseOK, LedgerOK, RevisionsKept, LedgerKept
<1> QED  BY <1>1, InvariantHolds, PTL

\* Wherever a failed job blocks the workflow, resume finds the recovery basis that
\* it compares the worktree with.
THEOREM RevisionsBasis == Spec => []BlockedHasBasis
<1>1. IInv => BlockedHasBasis
  BY DEF IInv, BasisIsRecorded, BlockedHasBasis, Reconciled, Stage
<1> QED  BY <1>1, InvariantHolds, PTL

\* A replaced plan that carries the number it is stored under has a new key for
\* its execution (beginExecutionIfReady).
THEOREM RevisionsCanStart == Spec => []ReplannedCanStart
<1>1. IInv => ReplannedCanStart
  BY DEF IInv, DatabaseOK, StartsFollowGraphs, ReplannedCanStart, Stage,
         CurrentGraph
<1> QED  BY <1>1, InvariantHolds, PTL

\* A stored verification result stays current or is archived: no step of any
\* process, and no order of them, loses or rewrites one.
THEOREM RevisionsKeepResults == Spec => ResultsAreKept
<1>1. IInv /\ [Next]_vars => [Stored \subseteq Stored']_vars
  <2> SUFFICES ASSUME IInv, Next PROVE Stored \subseteq Stored'
    BY DEF vars
  <2>1. CASE run' = run /\ history' = history
    BY <2>1 DEF Stored
  <2>2. CASE run = NoResult /\ history' = history
    BY <2>2 DEF Stored
  <2>3. ASSUME NEW p \in Procs, RetryCommit(p)
        PROVE  Stored \subseteq Stored'
    <3> DEFINE kept == [revision |-> RetryRevision, result |-> run]
    <3>1. history' = history \cup {kept} /\ kept.result = run
      BY <2>3 DEF RetryCommit, RetryAdmitted, Archive
    <3> HIDE DEF kept
    <3> QED  BY <3>1 DEF Stored
  <2>4. ASSUME NEW p \in Procs, ReplanCommit(p), run # NoResult
        PROVE  Stored \subseteq Stored'
    <3> DEFINE kept == [revision |-> ReplanArchiveRevision, result |-> run]
    <3>1. history' = history \cup {kept} /\ kept.result = run
      BY <2>4 DEF ReplanCommit, Archive
    <3> HIDE DEF kept
    <3> QED  BY <3>1 DEF Stored
  <2>5. ASSUME NEW p \in Procs, ReplanCommit(p), run = NoResult
        PROVE  Stored \subseteq Stored'
    BY <2>5 DEF ReplanCommit, Stored
  <2>6. ASSUME NEW p \in Procs, Check(p)
        PROVE  Stored \subseteq Stored'
    BY <2>6 DEF Check, Persist, lineage, Stored
  <2>7. CASE \/ Begin \/ Complete \/ JobFails \/ TechnicalRetry
             \/ ReviewStart \/ ReviewDrift \/ ReviewSevere \/ Edit
    BY <2>1, <2>7
    DEF Begin, Complete, JobFails, TechnicalRetry, ReviewStart, ReviewDrift,
        ReviewSevere, Edit, Moves, lineage
  <2>8. ASSUME NEW p \in Procs, ProcStep(p), ~Check(p), ~RetryCommit(p),
               ~ReplanCommit(p)
        PROVE  run' = run /\ history' = history
    BY <2>8
    DEF ProcStep, RunBegins, ReadRow, Record, ResumeCommit, ResumeRead, Decide,
        Quit, RetryRead, RetryRepeats, ReplanRead, lineage
  <2> QED  BY <2>1, <2>3, <2>4, <2>5, <2>6, <2>7, <2>8 DEF Next
<1> QED  BY <1>1, InvariantHolds, PTL DEF Spec, ResultsAreKept
=============================================================================
