------------------------- MODULE WorkflowLedgerProofs -------------------------
(***************************************************************************)
(* Lemmas about the operators of WorkflowLedger, for any set of keys K and *)
(* of artifact sets A.  The modules that prove a command's invariants cite *)
(* them.                                                                   *)
(***************************************************************************)
EXTENDS WorkflowLedger, TLAPS

\* A well-typed ledger whose row and audit trail agree.
LedgerOK(l, K, A) ==
  /\ l \in LedgerType(K, A)
  /\ Chained(l)
  /\ KeysUnique(l)
  /\ ResumeExact(l)
  /\ InOrder(l)

\* The condition under which a writer may advance the row.
MayAdvance(l, next, resume, key) ==
  /\ CanTransition(l.state, next, l.resume)
  /\ key \notin EventKeys(l)
  /\ resume = IF next = "blocked" THEN l.state ELSE NoState

\* A workflow that has just been created is well kept.
LEMMA NewLedgerOK ==
  ASSUME NEW K, NEW A
  PROVE  LedgerOK(NewLedger, K, A) /\ IdemAgrees(NewLedger)
  BY DEF LedgerOK, NewLedger, LedgerType, Chained, KeysUnique, ResumeExact,
         InOrder, IdemAgrees, States, ResumeTargets

\* The pipeline's order is the transition table's: a legal step that does not
\* return from a blocker enters its stage from one of EnteredFrom.
LEMMA LegalEntersInOrder ==
  ASSUME NEW from \in States, NEW to \in States, NEW resume,
         CanTransition(from, to, resume), to \in DOMAIN EnteredFrom
  PROVE  from \in EnteredFrom[to] \/ (from = "blocked" /\ to = resume)
  BY DEF CanTransition, EnteredFrom, Forward, Blockable, Replannable,
         NonTerminal, Terminal, States

\* Only a blockable state is blocked.
LEMMA BlockedFromBlockable ==
  ASSUME NEW from, NEW resume, CanTransition(from, "blocked", resume)
  PROVE  from \in Blockable
  BY DEF CanTransition, Forward, Replannable, Blockable

\* A legal step with a fresh key, blocking where it stands and otherwise
\* clearing the resume target, leaves a well-kept ledger.
LEMMA AdvanceKeepsLedger ==
  ASSUME NEW K, NEW A, NEW l, LedgerOK(l, K, A), NEW next \in States,
         NEW resume, NEW key \in K, NEW art \in A,
         MayAdvance(l, next, resume, key)
  PROVE  LedgerOK(Advance(l, next, resume, key, art), K, A)
<1> DEFINE n == Len(l.events)
<1>0. PICK m : m = Advance(l, next, resume, key, art)
  OBVIOUS
<1>1. /\ l \in LedgerType(K, A) /\ l.state \in States /\ l.version \in Nat
      /\ n \in Nat /\ l.version = n
      /\ resume \in ResumeTargets
  BY BlockedFromBlockable
  DEF LedgerOK, LedgerType, MayAdvance, Chained, ResumeTargets
<1>2. /\ m \in LedgerType(K, A)
      /\ m.state = next /\ m.version = n + 1 /\ m.resume = resume
      /\ Len(m.events) = n + 1
      /\ \A i \in 1..n : m.events[i] = l.events[i]
      /\ m.events[n + 1].from = l.state /\ m.events[n + 1].to = next
      /\ m.events[n + 1].version = n + 1 /\ m.events[n + 1].key = key
  <2> DEFINE e == [from |-> l.state, to |-> next, version |-> l.version + 1,
                   key |-> key, artifacts |-> art]
             evs == Append(l.events, e)
  <2>1. e \in EventType(K, A) /\ l.events \in Seq(EventType(K, A))
    BY <1>1 DEF LedgerType, EventType
  <2>2. /\ evs \in Seq(EventType(K, A))
        /\ Len(evs) = n + 1
        /\ \A i \in 1..n : evs[i] = l.events[i]
        /\ evs[n + 1] = e
    <3> HIDE DEF e
    <3> QED  BY <2>1
  <2>3. m = [state |-> next, version |-> l.version + 1, resume |-> resume,
             events |-> evs, idem |-> l.idem]
    BY <1>0 DEF Advance
  <2>4. m \in LedgerType(K, A) /\ m.events = evs
    <3> HIDE DEF evs
    <3> QED  BY <1>1, <2>2, <2>3 DEF LedgerType
  <2> QED  BY <1>1, <2>2, <2>3, <2>4
<1>3. \A i \in 1..Len(m.events) : i \in 1..n \/ i = n + 1
  BY <1>1, <1>2
<1>4. Chained(m)
  <2>1. l.state = IF n = 0 THEN "created" ELSE l.events[n].to
    BY <1>1 DEF LedgerOK, Chained
  <2>2. \A i \in 1..n : /\ l.events[i].version = i
                        /\ l.events[i].from = IF i = 1 THEN "created"
                                              ELSE l.events[i-1].to
    BY DEF LedgerOK, Chained
  <2>3. ASSUME NEW i \in 1..Len(m.events)
        PROVE  /\ m.events[i].version = i
               /\ m.events[i].from = IF i = 1 THEN "created"
                                     ELSE m.events[i-1].to
    <3>1. CASE i \in 1..n
      <4>1. i = 1 \/ i - 1 \in 1..n
        BY <1>1, <3>1
      <4> QED  BY <1>2, <2>2, <3>1, <4>1
    <3>2. CASE i = n + 1
      BY <1>1, <1>2, <2>1, <3>2
    <3> QED  BY <1>3, <3>1, <3>2
  <2>4. m.state = IF m.version = 0 THEN "created" ELSE m.events[m.version].to
    BY <1>1, <1>2
  <2> QED  BY <1>1, <1>2, <2>3, <2>4 DEF Chained
<1>5. KeysUnique(m)
  <2>1. \A i \in 1..n : l.events[i].key # key
    BY DEF MayAdvance, EventKeys
  <2>2. \A i, j \in 1..n : l.events[i].key = l.events[j].key => i = j
    BY DEF LedgerOK, KeysUnique
  <2>3. ASSUME NEW i \in 1..Len(m.events), NEW j \in 1..Len(m.events),
               m.events[i].key = m.events[j].key
        PROVE  i = j
    <3>1. CASE i \in 1..n /\ j \in 1..n
      BY <1>2, <2>2, <2>3, <3>1
    <3>2. CASE i \in 1..n /\ j = n + 1
      BY <1>2, <2>1, <2>3, <3>2
    <3>3. CASE i = n + 1 /\ j \in 1..n
      BY <1>2, <2>1, <2>3, <3>3
    <3> QED  BY <1>3, <3>1, <3>2, <3>3
  <2> QED  BY <2>3 DEF KeysUnique
<1>6. ResumeExact(m)
  <2>1. CASE next = "blocked"
    <3>1. l.state \in Blockable
      BY <2>1, BlockedFromBlockable DEF MayAdvance
    <3> QED  BY <1>1, <1>2, <2>1, <3>1 DEF ResumeExact, MayAdvance
  <2>2. CASE next # "blocked"
    BY <1>2, <2>2 DEF ResumeExact, MayAdvance
  <2> QED  BY <2>1, <2>2
<1>7. InOrder(m)
  <2>1. ASSUME NEW i \in 1..Len(m.events), m.events[i].to \in DOMAIN EnteredFrom
        PROVE  \/ m.events[i].from \in EnteredFrom[m.events[i].to]
               \/ /\ m.events[i].from = "blocked" /\ i > 1
                  /\ m.events[i-1].from = m.events[i].to
    <3>1. CASE i \in 1..n
      <4>1. i - 1 \in 1..n \/ ~(i > 1)
        BY <1>1, <3>1
      <4> QED  BY <1>2, <2>1, <3>1, <4>1 DEF LedgerOK, InOrder
    <3>2. CASE i = n + 1
      <4>1. CASE l.state \in EnteredFrom[next]
        BY <1>2, <3>2, <4>1
      <4>2. CASE l.state = "blocked" /\ next = l.resume
        <5>1. n > 0 /\ l.resume = l.events[n].from
          BY <1>1, <4>2 DEF LedgerOK, ResumeExact
        <5> QED  BY <1>1, <1>2, <3>2, <4>2, <5>1
      <4> QED
        BY <1>1, <1>2, <2>1, <3>2, <4>1, <4>2, LegalEntersInOrder
        DEF MayAdvance
    <3> QED  BY <1>3, <3>1, <3>2
  <2> QED  BY <2>1 DEF InOrder
<1> QED
  BY <1>0, <1>2, <1>4, <1>5, <1>6, <1>7 DEF LedgerOK

\* A step that remembers no request leaves every remembered answer right.
LEMMA AdvanceKeepsIdem ==
  ASSUME NEW K, NEW A, NEW l, LedgerOK(l, K, A), IdemAgrees(l),
         NEW next \in States, NEW resume \in ResumeTargets,
         NEW key \in K, NEW art \in A
  PROVE  IdemAgrees(Advance(l, next, resume, key, art))
<1>0. PICK m : m = Advance(l, next, resume, key, art)
  OBVIOUS
<1>1. /\ m.idem = l.idem /\ Len(m.events) = Len(l.events) + 1
      /\ Len(l.events) \in Nat
      /\ \A i \in 1..Len(l.events) : m.events[i] = l.events[i]
  <2>1. l.events \in Seq(EventType(K, A))
    BY DEF LedgerOK, LedgerType
  <2> DEFINE e == [from |-> l.state, to |-> next, version |-> l.version + 1,
                   key |-> key, artifacts |-> art]
  <2>2. m.idem = l.idem /\ m.events = Append(l.events, e)
    BY <1>0 DEF Advance
  <2>3. e \in EventType(K, A)
    BY DEF LedgerOK, LedgerType, EventType
  <2> HIDE DEF e
  <2> QED  BY <2>1, <2>2, <2>3
<1>2. ASSUME NEW a \in m.idem
      PROVE  LET i == a.req.expectedVersion + 1 IN
             /\ i \in 1..Len(m.events)
             /\ m.events[i].key = a.req.key
             /\ a.result.version = i
             /\ a.result.state = m.events[i].to
  <2> DEFINE i == a.req.expectedVersion + 1
  <2>1. /\ i \in 1..Len(l.events)
        /\ l.events[i].key = a.req.key
        /\ a.result.version = i
        /\ a.result.state = l.events[i].to
    BY <1>1 DEF IdemAgrees
  <2> HIDE DEF i
  <2>2. i \in 1..Len(m.events) /\ m.events[i] = l.events[i]
    BY <1>1, <2>1
  <2>3. /\ i \in 1..Len(m.events)
        /\ m.events[i].key = a.req.key
        /\ a.result.version = i
        /\ a.result.state = m.events[i].to
    BY <2>1, <2>2
  <2> QED  BY <2>3 DEF i
<1>3. \A a, b \in m.idem : a.req.key = b.req.key => a = b
  BY <1>1 DEF IdemAgrees
<1>4. IdemAgrees(m)
  BY <1>2, <1>3 DEF IdemAgrees
<1> QED  BY <1>0, <1>4

\* Remembering the request that caused the last event keeps every answer right.
LEMMA RememberKeepsLedger ==
  ASSUME NEW K, NEW A, NEW m, LedgerOK(m, K, A), IdemAgrees(m),
         NEW req \in RequestType(K, A), ~IsReplay(m, req),
         m.version = req.expectedVersion + 1,
         m.events[m.version].key = req.key
  PROVE  LedgerOK(Remember(m, req), K, A) /\ IdemAgrees(Remember(m, req))
<1>0. PICK r : r = Remember(m, req)
  OBVIOUS
<1> DEFINE a0 == [req |-> req, result |-> Row(m)]
<1>1. m \in LedgerType(K, A) /\ Chained(m)
  BY DEF LedgerOK
<1>2. a0 \in AnswerType(K, A)
  BY <1>1 DEF AnswerType, RowType, Row, LedgerType
<1>3. r = [m EXCEPT !.idem = m.idem \cup {a0}]
  BY <1>0 DEF Remember
<1>4. /\ r.state = m.state /\ r.version = m.version /\ r.resume = m.resume
      /\ r.events = m.events /\ r.idem = m.idem \cup {a0}
      /\ r \in LedgerType(K, A)
  <2> HIDE DEF a0
  <2> QED  BY <1>1, <1>2, <1>3 DEF LedgerType
<1>5. LedgerOK(r, K, A)
  BY <1>4 DEF LedgerOK, Chained, KeysUnique, ResumeExact, InOrder
<1>6. /\ a0.req = req /\ a0.result.version = m.version
      /\ a0.result.state = m.state
  BY DEF Row
<1> HIDE DEF a0
<1>7. \A a \in m.idem : a.req.key # req.key
  BY DEF IsReplay, AnswersTo
<1>8. m.version \in 1..Len(m.events) /\ m.state = m.events[m.version].to
  BY <1>1 DEF Chained, LedgerType, RequestType
<1>9. IdemAgrees(r)
  <2>1. \A a, b \in r.idem : a.req.key = b.req.key => a = b
    BY <1>4, <1>6, <1>7 DEF IdemAgrees
  <2>2. ASSUME NEW a \in r.idem
        PROVE  LET i == a.req.expectedVersion + 1 IN
               /\ i \in 1..Len(r.events)
               /\ r.events[i].key = a.req.key
               /\ a.result.version = i
               /\ a.result.state = r.events[i].to
    <3>1. CASE a \in m.idem
      BY <1>4, <3>1 DEF IdemAgrees
    <3>2. CASE a = a0
      BY <1>4, <1>6, <1>8, <3>2
    <3> QED  BY <1>4, <3>1, <3>2
  <2> QED  BY <2>1, <2>2 DEF IdemAgrees
<1> QED  BY <1>0, <1>5, <1>9

\* Transition, applied or replayed, leaves a well-kept ledger: its row follows
\* the table, its trail has one more event or none, and every answer it gives
\* is remembered.
LEMMA TransitionKeepsLedger ==
  ASSUME NEW K, NEW A, NEW l, LedgerOK(l, K, A), IdemAgrees(l),
         NEW req \in RequestType(K, A), TransitionError(l, req) = "none"
  PROVE  LET m == AfterTransition(l, req) IN
         LedgerOK(m, K, A) /\ IdemAgrees(m)
<1>1. CASE IsReplay(l, req)
  BY <1>1 DEF AfterTransition
<1>2. CASE ~IsReplay(l, req)
  <2> DEFINE res == ResumeAfter(l, req)
  <2>0. PICK m : m = Advance(l, req.next, res, req.key, req.artifacts)
    OBVIOUS
  <2>1. CASMatches(l, req) /\ IsLegal(l, req) /\ req.key \notin EventKeys(l)
    BY <1>2 DEF TransitionError
  <2>2. /\ req.next \in States /\ req.key \in K /\ req.artifacts \in A
        /\ l \in LedgerType(K, A) /\ l.state \in States /\ l.version \in Nat
    BY DEF RequestType, LedgerOK, LedgerType
  <2>3. res = IF req.next = "blocked" THEN l.state ELSE NoState
    BY <2>1 DEF ResumeAfter, IsLegal, LedgerOK, ResumeExact
  <2>4. MayAdvance(l, req.next, res, req.key)
    BY <2>1, <2>3 DEF MayAdvance, IsLegal
  <2>5. res \in ResumeTargets
    BY <2>3, <2>4, BlockedFromBlockable DEF MayAdvance, ResumeTargets
  <2> HIDE DEF res
  <2>6. LedgerOK(m, K, A) /\ IdemAgrees(m)
    BY <2>0, <2>2, <2>4, <2>5, AdvanceKeepsLedger, AdvanceKeepsIdem
  <2>7. /\ m.version = req.expectedVersion + 1 /\ m.idem = l.idem
        /\ m.events[m.version].key = req.key
    BY <2>0, <2>1, <2>2 DEF Advance, CASMatches, LedgerOK, LedgerType, Chained
  <2>8. ~IsReplay(m, req)
    BY <1>2, <2>7 DEF IsReplay, AnswersTo
  <2>9. LedgerOK(Remember(m, req), K, A) /\ IdemAgrees(Remember(m, req))
    BY <2>6, <2>7, <2>8, RememberKeepsLedger
  <2> QED  BY <1>2, <2>0, <2>9 DEF AfterTransition, res
<1> QED  BY <1>1, <1>2

\* m is l after one more event: the row names the event's target.
OneLater(l, m, next, resume, key, art) ==
  /\ m.state = next /\ m.version = l.version + 1 /\ m.resume = resume
  /\ Len(m.events) = Len(l.events) + 1
  /\ \A i \in 1..Len(l.events) : m.events[i] = l.events[i]
  /\ m.events[Len(l.events) + 1].from = l.state
  /\ m.events[Len(l.events) + 1].to = next
  /\ m.events[Len(l.events) + 1].key = key
  /\ m.events[Len(l.events) + 1].artifacts = art
  /\ EventKeys(m) = EventKeys(l) \cup {key}

\* Advance adds that event and forgets nothing.
LEMMA AdvanceAddsOne ==
  ASSUME NEW K, NEW A, NEW l \in LedgerType(K, A), NEW next \in States,
         NEW resume, NEW key \in K, NEW art \in A
  PROVE  /\ OneLater(l, Advance(l, next, resume, key, art),
                     next, resume, key, art)
         /\ Advance(l, next, resume, key, art).idem = l.idem
<1> DEFINE n == Len(l.events)
           e == [from |-> l.state, to |-> next, version |-> l.version + 1,
                 key |-> key, artifacts |-> art]
<1>0. PICK m : m = Advance(l, next, resume, key, art)
  OBVIOUS
<1>1. e \in EventType(K, A) /\ l.events \in Seq(EventType(K, A)) /\ n \in Nat
  BY DEF LedgerType, EventType
<1>2. /\ m.state = next /\ m.version = l.version + 1 /\ m.resume = resume
      /\ m.idem = l.idem /\ m.events = Append(l.events, e)
  BY <1>0 DEF Advance
<1>3. e.from = l.state /\ e.to = next /\ e.key = key /\ e.artifacts = art
  OBVIOUS
<1> HIDE DEF e
<1>4. /\ Len(m.events) = n + 1
      /\ \A i \in 1..n : m.events[i] = l.events[i]
      /\ m.events[n + 1] = e
  BY <1>1, <1>2
<1>5. \A i \in 1..Len(m.events) : i \in 1..n \/ i = n + 1
  BY <1>1, <1>4
<1>6. EventKeys(m) = EventKeys(l) \cup {key}
  <2>1. \A k \in EventKeys(m) : k \in EventKeys(l) \cup {key}
    BY <1>3, <1>4, <1>5 DEF EventKeys
  <2>2. 1..n \subseteq 1..Len(m.events) /\ n + 1 \in 1..Len(m.events)
    BY <1>1, <1>4
  <2>3. \A k \in EventKeys(l) \cup {key} : k \in EventKeys(m)
    BY <1>3, <1>4, <2>2 DEF EventKeys
  <2> QED  BY <2>1, <2>3
<1> QED  BY <1>0, <1>2, <1>3, <1>4, <1>6 DEF OneLater

\* Remembering a request leaves row and events alone.
LEMMA RememberAddsNone ==
  ASSUME NEW K, NEW A, NEW m \in LedgerType(K, A), NEW req
  PROVE  LET r == Remember(m, req) IN
         /\ r.state = m.state /\ r.version = m.version
         /\ r.resume = m.resume /\ r.events = m.events
         /\ EventKeys(r) = EventKeys(m)
<1>1. PICK r : r = Remember(m, req)
  OBVIOUS
<1>2. /\ r.state = m.state /\ r.version = m.version /\ r.resume = m.resume
      /\ r.events = m.events
  BY <1>1 DEF Remember, LedgerType
<1> QED  BY <1>1, <1>2 DEF EventKeys

\* The key of a remembered answer is the key of an event, so a key no event
\* has is no replay.
LEMMA FreshIsNoReplay ==
  ASSUME NEW l, IdemAgrees(l), NEW req, req.key \notin EventKeys(l)
  PROVE  ~IsReplay(l, req)
  BY DEF IdemAgrees, EventKeys, IsReplay, AnswersTo

\* What a transition without error does: nothing, for a replay, or one legal
\* event more on the row that was expected.
LEMMA TransitionAddsOne ==
  ASSUME NEW K, NEW A, NEW l, LedgerOK(l, K, A),
         NEW req \in RequestType(K, A), TransitionError(l, req) = "none"
  PROVE  LET m == AfterTransition(l, req) IN
         \/ m = l
         \/ /\ CASMatches(l, req) /\ IsLegal(l, req)
            /\ req.key \notin EventKeys(l)
            /\ OneLater(l, m, req.next, ResumeAfter(l, req), req.key,
                        req.artifacts)
<1>1. CASE IsReplay(l, req)
  BY <1>1 DEF AfterTransition
<1>2. CASE ~IsReplay(l, req)
  <2> DEFINE res == ResumeAfter(l, req)
  <2>0. PICK d : d = Advance(l, req.next, res, req.key, req.artifacts)
    OBVIOUS
  <2>1. CASMatches(l, req) /\ IsLegal(l, req) /\ req.key \notin EventKeys(l)
    BY <1>2 DEF TransitionError
  <2>2. /\ req.next \in States /\ req.key \in K /\ req.artifacts \in A
        /\ l \in LedgerType(K, A)
    BY DEF RequestType, LedgerOK
  <2>3. res = IF req.next = "blocked" THEN l.state ELSE NoState
    BY <2>1 DEF ResumeAfter, IsLegal, LedgerOK, ResumeExact
  <2>4. LedgerOK(d, K, A)
    <3>1. MayAdvance(l, req.next, res, req.key)
      BY <2>1, <2>3 DEF MayAdvance, IsLegal
    <3> HIDE DEF res
    <3> QED  BY <2>0, <2>2, <3>1, AdvanceKeepsLedger
  <2> HIDE DEF res
  <2>5. OneLater(l, d, req.next, res, req.key, req.artifacts)
    BY <2>0, <2>2, AdvanceAddsOne
  <2>6. PICK m : m = Remember(d, req)
    OBVIOUS
  <2>7. /\ m.state = d.state /\ m.version = d.version
        /\ m.resume = d.resume /\ m.events = d.events
        /\ EventKeys(m) = EventKeys(d)
    BY <2>4, <2>6, RememberAddsNone DEF LedgerOK
  <2>8. OneLater(l, m, req.next, res, req.key, req.artifacts)
    BY <2>5, <2>7 DEF OneLater
  <2> QED  BY <1>2, <2>0, <2>1, <2>6, <2>8 DEF AfterTransition, res
<1> QED  BY <1>1, <1>2
=============================================================================
