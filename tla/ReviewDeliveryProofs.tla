------------------------ MODULE ReviewDeliveryProofs -------------------------
(***************************************************************************)
(* ReviewDelivery's safety for any number of reviews and deliveries, any   *)
(* lenses, and any number of candidates, commits and acts of the user.     *)
(***************************************************************************)
EXTENDS ReviewDelivery, WorkflowLedgerProofs, FiniteSetTheorems,
        SequenceTheorems

LedgerKeys ==
  ({"run", "start", "drift", "severe", "receipted", "replan", "abort"} \X Nat)
    \cup ({"delivery"} \X Keys)

Artifacts ==
  SUBSET (ReceiptType \cup IntentType \cup (Candidates \X Stages))

\* What a process has in hand.
Hand ==
  [pc : {"invoking", "running", "answered"}, version : Nat, cand : Candidates,
   plan : Seq(Stages), answers : Seq(Risks \cup {"clean", "severe"}),
   answer : Risks \cup {"absent", "clean", "severe"}]

ReviewLocals ==
  {Idle, [pc |-> "reported"]} \cup [pc : {"started"}, version : Nat] \cup Hand
    \cup [pc : {"issued"}, receipt : ReceiptType]

DeliveryLocals ==
  {Idle} \cup
  [pc : {"gate", "built", "moving", "moved"}, key : Keys, receipt : ReceiptType,
   record : Candidates, intent : IntentType \cup {NoIntent}]

\* The types of the tables, whose rows TypeOK types one by one.
TablesTyped ==
  /\ invocations \in [Candidates -> [Stages ->
        Statuses \cup Risks \cup {"clean", "severe"} \cup Reviewers]]
  /\ checkpoints \in [Candidates -> [Stages ->
        Risks \cup {"absent", "clean", "severe"}]]
  /\ approvals \in [Actions \X Candidates -> {"absent", "valid", "expired"}]
  /\ current \in [Actions -> 0..MaxCandidates]
  /\ intents \in [Keys -> IntentType \cup {NoIntent}]
  /\ rev \in [Reviewers -> ReviewLocals]
  /\ del \in [Deliverers -> DeliveryLocals]

Typed == TypeOK /\ TablesTyped

\* A key names what it was written for and the version it was written at, so the
\* keys that are written without looking whether they are free are free; after
\* the abort nothing is written, and after the delivery neither.
Accounted(l) ==
  /\ \A i \in 1..Len(l.events) :
       /\ l.events[i].key[1] \notin {"abort", "delivery"} =>
            l.events[i].key[2] = i - 1
       /\ l.events[i].to = "delivered" => l.state = "delivered"
  /\ <<"abort", 0>> \in EventKeys(l) => l.state = "aborted"

\* Candidates are numbered as they are frozen, and one more may be frozen once
\* the stored one is gone.
CandidatesAreCounted ==
  /\ candidate <= Freezes
  /\ candidate = 0 => Freezes < MaxCandidates

\* The finding that ended a plan is about a candidate of that plan.
PlansEndForTheirCandidate ==
  \A i \in 1..Len(ledger.events) :
    ledger.events[i].to = "replan_required" =>
      \A a \in ledger.events[i].artifacts :
        /\ a[1] \in 1..Freezes
        /\ a[1] = candidate => ledger.state \in {"replan_required", "aborted"}

\* What a review has read: while the row is still the one it found, the row is
\* under review and the stored candidate is the one in hand.
ReadsAreFresh(p) ==
  rev[p].pc \in {"started", "invoking", "running", "answered"} =>
    /\ rev[p].version <= ledger.version
    /\ rev[p].version = ledger.version =>
         /\ ledger.state = "reviewing"
         /\ rev[p].pc # "started" => rev[p].cand = candidate

\* What a review has been answered: nothing yet, or an admissible risk and an
\* answer of each lens so far.
AnswersAreInOrder(p) ==
  rev[p].pc \in {"invoking", "running", "answered"} =>
    LET answers == rev[p].answers IN
    /\ \/ answers = <<>> /\ rev[p].plan = <<"semantic">>
       \/ /\ Len(answers) > 0 /\ answers[1] \in Answers
          /\ Rank(answers[1]) >= Rank(Floor)
          /\ rev[p].plan = <<"semantic">> \o LensesFor(answers[1])
          /\ \A i \in 2..Len(answers) : answers[i] \in {"clean", "severe"}
          /\ answers[1] = "high" =>
               approvals[<<"review", rev[p].cand>>] # "absent"
    /\ Len(answers) <= Len(rev[p].plan)
    /\ rev[p].pc # "invoking" => Len(answers) < Len(rev[p].plan)
    /\ rev[p].pc = "answered" => rev[p].answer \in StageAnswers(Stage(p))

\* A lone review that is under way has found no authority.
LoneFindsNoAuthority(p) ==
  LoneReview /\ rev[p].pc \in {"started", "invoking", "running", "answered"} =>
    authority = NoReceipt

ReviewOK(p) ==
  /\ ReadsAreFresh(p)
  /\ AnswersAreInOrder(p)
  /\ LoneFindsNoAuthority(p)
  /\ rev[p].pc = "issued" => rev[p].receipt \in receipts

\* What a delivery has in hand: a receipt that its approvals admit, of the
\* candidate that is stored for as long as the workflow is receipted.
DeliveryOK(d) ==
  del[d] # Idle =>
    /\ ledger.state \in {"receipted", "delivered", "aborted"}
    /\ del[d].record = candidate
    /\ del[d].receipt \in receipts
    /\ LoneReview => del[d].receipt = authority
    /\ del[d].receipt.risk = "high" =>
         approvals[<<"delivery", del[d].receipt.cand>>] # "absent"
    /\ del[d].pc # "gate" =>
         /\ del[d].receipt.cand = candidate
         /\ del[d].intent \in IntentType /\ del[d].intent.cand = candidate
    /\ del[d].pc \in {"moving", "moved"} =>
         intents[del[d].key] = del[d].intent

\* A high risk is receipted only when a human has approved the review.
HighRiskReceipts ==
  \A r \in receipts :
    r.risk = "high" => approvals[<<"review", r.cand>>] # "absent"

\* A delivery's event names its receipt, approved and of the stored candidate,
\* and its intent.
DeliveriesAreOfTheirReceipt ==
  \A i \in 1..Len(ledger.events) : ledger.events[i].to = "delivered" =>
    \E k \in Keys, r \in receipts :
      /\ ledger.events[i].key = <<"delivery", k>>
      /\ ledger.events[i].artifacts = {r, intents[k]}
      /\ intents[k] \in IntentType /\ intents[k].cand = candidate
      /\ r.cand = candidate
      /\ LoneReview => r = authority
      /\ r.risk = "high" => approvals[<<"delivery", r.cand>>] # "absent"

Safe(l) ==
  LedgerOK(l, LedgerKeys, Artifacts) /\ IdemAgrees(l) /\ Accounted(l)

Locals ==
  /\ \A p \in Reviewers : ReviewOK(p)
  /\ \A d \in Deliverers : DeliveryOK(d)

History ==
  /\ CandidatesAreCounted /\ PlansEndForTheirCandidate
  /\ HighRiskReceipts /\ DeliveriesAreOfTheirReceipt

IInv ==
  /\ Typed /\ Safe(ledger) /\ ReceiptsAreWhole
  /\ History /\ Locals

-----------------------------------------------------------------------------
(* The ledger.                                                             *)

Stamped == {"run", "start", "drift", "severe", "receipted", "replan"}

\* A key stamped with the version of the row has not been written.
LEMMA StampIsFresh ==
  ASSUME NEW l, Safe(l), NEW name \in Stamped
  PROVE  /\ <<name, l.version>> \in LedgerKeys
         /\ <<name, l.version>> \notin EventKeys(l)
<1>1. l.version \in Nat /\ Len(l.events) = l.version
  BY DEF Safe, LedgerOK, LedgerType, Chained
<1>2. <<name, l.version>> \in LedgerKeys
  BY <1>1 DEF LedgerKeys, Stamped
<1>3. ASSUME <<name, l.version>> \in EventKeys(l)
      PROVE  FALSE
  <2>1. PICK i \in 1..Len(l.events) : l.events[i].key = <<name, l.version>>
    BY <1>3 DEF EventKeys
  <2>2. l.events[i].key[1] = name /\ l.events[i].key[2] = l.version
    BY <2>1
  <2>3. name \notin {"abort", "delivery"}
    BY DEF Stamped
  <2>4. l.version = i - 1
    BY <2>2, <2>3 DEF Safe, Accounted
  <2> QED  BY <1>1, <2>4
<1> QED  BY <1>2, <1>3

\* One event more, by a writer that stamps its keys, on a row that is not final.
LEMMA OneMoreIsAccounted ==
  ASSUME NEW l, NEW m, Safe(l), NEW next, NEW resume, NEW key, NEW art,
         OneLater(l, m, next, resume, key, art), l.state \notin Terminal,
         key[1] \notin {"abort", "delivery"} => key[2] = l.version,
         key = <<"abort", 0>> => next = "aborted"
  PROVE  Accounted(m)
<1>1. /\ Len(l.events) = l.version /\ l.version \in Nat
      /\ Len(m.events) = Len(l.events) + 1
      /\ \A i \in 1..Len(l.events) : m.events[i] = l.events[i]
      /\ m.events[Len(l.events) + 1].to = next
      /\ m.events[Len(l.events) + 1].key = key
      /\ EventKeys(m) = EventKeys(l) \cup {key} /\ m.state = next
  BY DEF Safe, LedgerOK, LedgerType, Chained, OneLater
<1>2. /\ \A i \in 1..Len(l.events) :
           /\ l.events[i].key[1] \notin {"abort", "delivery"} =>
                l.events[i].key[2] = i - 1
           /\ l.events[i].to # "delivered"
      /\ <<"abort", 0>> \notin EventKeys(l)
  BY DEF Safe, Accounted, Terminal
<1>3. ASSUME NEW i \in 1..Len(m.events)
      PROVE  /\ m.events[i].key[1] \notin {"abort", "delivery"} =>
                  m.events[i].key[2] = i - 1
             /\ m.events[i].to = "delivered" => m.state = "delivered"
  <2>1. CASE i \in 1..Len(l.events)
    BY <1>1, <1>2, <2>1
  <2>2. CASE i = Len(l.events) + 1
    BY <1>1, <2>2
  <2> QED  BY <1>1, <2>1, <2>2
<1>4. <<"abort", 0>> \in EventKeys(m) => m.state = "aborted"
  BY <1>1, <1>2
<1> QED  BY <1>3, <1>4 DEF Accounted

\* What a final row allows: nothing.
LEMMA LegalIsNotFinal ==
  ASSUME NEW l, NEW next, CanTransition(l.state, next, l.resume)
  PROVE  l.state \notin Terminal
  BY DEF CanTransition, Terminal, Forward, Blockable, Replannable, NonTerminal

\* A transition, applied or replayed, keeps the ledger.
LEMMA TransitionIsSafe ==
  ASSUME NEW l, Safe(l), NEW req \in RequestType(LedgerKeys, Artifacts),
         TransitionError(l, req) = "none",
         req.key[1] \notin {"abort", "delivery"} =>
           req.key[2] = req.expectedVersion,
         req.key = <<"abort", 0>> => req.next = "aborted"
  PROVE  LET m == AfterTransition(l, req) IN
         /\ Safe(m)
         /\ \/ m = l
            \/ /\ CASMatches(l, req) /\ IsLegal(l, req)
               /\ l.state \notin Terminal
               /\ OneLater(l, m, req.next, ResumeAfter(l, req), req.key,
                           req.artifacts)
<1>0. PICK m : m = AfterTransition(l, req)
  OBVIOUS
<1>1. LedgerOK(m, LedgerKeys, Artifacts) /\ IdemAgrees(m)
  BY <1>0, TransitionKeepsLedger DEF Safe
<1>2. \/ m = l
      \/ /\ CASMatches(l, req) /\ IsLegal(l, req)
         /\ OneLater(l, m, req.next, ResumeAfter(l, req), req.key,
                     req.artifacts)
  BY <1>0, TransitionAddsOne DEF Safe
<1>3. CASE m = l
  BY <1>0, <1>3
<1>4. CASE /\ CASMatches(l, req) /\ IsLegal(l, req)
           /\ OneLater(l, m, req.next, ResumeAfter(l, req), req.key,
                       req.artifacts)
  <2>1. l.state \notin Terminal
    BY <1>4, LegalIsNotFinal DEF IsLegal
  <2>2. l.version = req.expectedVersion
    BY <1>4 DEF CASMatches
  <2>3. Accounted(m)
    BY <1>4, <2>1, <2>2, OneMoreIsAccounted
  <2> QED  BY <1>0, <1>1, <1>4, <2>1, <2>3 DEF Safe
<1> QED  BY <1>2, <1>3, <1>4

\* What is asked of the row as it is, under a key that is free, is granted.
LEMMA AskIsGranted ==
  ASSUME NEW l, Safe(l), NEW next \in States \ {"blocked"},
         CanTransition(l.state, next, l.resume),
         NEW key \in LedgerKeys, key \notin EventKeys(l), NEW art \in Artifacts,
         key[1] \notin {"abort", "delivery"} => key[2] = l.version,
         key = <<"abort", 0>> => next = "aborted"
  PROVE  LET m == AfterTransition(l, Ask(l, next, key, art)) IN
         /\ TransitionError(l, Ask(l, next, key, art)) = "none"
         /\ Safe(m) /\ l.state \notin Terminal
         /\ m.state = next /\ m.resume = NoState /\ m.version = l.version + 1
         /\ OneLater(l, m, next, NoState, key, art)
<1>0. PICK req : req = Ask(l, next, key, art)
  OBVIOUS
<1>1. PICK m : m = AfterTransition(l, req)
  OBVIOUS
<1>2. /\ req.expectedState = l.state /\ req.expectedVersion = l.version
      /\ req.next = next /\ req.key = key /\ req.artifacts = art
      /\ req.resume = NoState
  BY <1>0 DEF Ask, Request
<1>3. l.state \in States /\ l.version \in Nat /\ NoState \in ResumeTargets
  BY DEF Safe, LedgerOK, LedgerType, ResumeTargets
<1>4. req \in RequestType(LedgerKeys, Artifacts)
  BY <1>0, <1>3 DEF Ask, Request, RequestType
<1>5. ~IsReplay(l, req)
  BY <1>2, FreshIsNoReplay DEF Safe
<1>6. TransitionError(l, req) = "none"
  BY <1>2, <1>5 DEF TransitionError, CASMatches, IsLegal
<1>7. /\ Safe(m)
      /\ \/ m = l
         \/ /\ l.state \notin Terminal
            /\ OneLater(l, m, req.next, ResumeAfter(l, req), req.key,
                        req.artifacts)
  BY <1>1, <1>2, <1>4, <1>6, TransitionIsSafe
<1>8. m # l
  <2>1. PICK d : d = Advance(l, req.next, ResumeAfter(l, req), req.key,
                             req.artifacts)
    OBVIOUS
  <2>2. m = Remember(d, req)
    BY <1>1, <1>5, <2>1 DEF AfterTransition
  <2>3. m.version = d.version /\ d.version = l.version + 1
    BY <2>1, <2>2 DEF Remember, Advance
  <2> QED  BY <1>3, <2>3
<1>9. ResumeAfter(l, req) = NoState
  BY <1>2 DEF ResumeAfter, Safe, LedgerOK, ResumeExact
<1>10. OneLater(l, m, next, NoState, key, art) /\ l.state \notin Terminal
  BY <1>2, <1>7, <1>8, <1>9
<1>11. m.state = next /\ m.resume = NoState /\ m.version = l.version + 1
  BY <1>10 DEF OneLater
<1> QED  BY <1>0, <1>1, <1>6, <1>7, <1>10, <1>11

\* A step of the run from planning to the frozen candidate.
LEMMA StepIsGranted ==
  ASSUME NEW l, Safe(l), NEW next \in States \ {"blocked"},
         CanTransition(l.state, next, l.resume)
  PROVE  LET m == Step(l, next) IN
         /\ Safe(m) /\ m.state = next /\ m.resume = NoState
         /\ m.version = l.version + 1
         /\ OneLater(l, m, next, NoState, <<"run", l.version>>, {})
<1> DEFINE key == <<"run", l.version>>
<1>1. key \in LedgerKeys /\ key \notin EventKeys(l)
  BY StampIsFresh DEF Stamped
<1>2. {} \in Artifacts
  BY DEF Artifacts
<1>3. key[1] = "run" /\ key[2] = l.version /\ key # <<"abort", 0>>
  OBVIOUS
<1> HIDE DEF key
<1>4. LET m == AfterTransition(l, Ask(l, next, key, {})) IN
      /\ Safe(m) /\ m.state = next /\ m.resume = NoState
      /\ m.version = l.version + 1
      /\ OneLater(l, m, next, NoState, key, {})
  BY <1>1, <1>2, <1>3, AskIsGranted
<1> QED  BY <1>4 DEF Step, key

\* The events that froze a candidate.
FrozenIn(l) == {i \in DOMAIN l.events : l.events[i].to = "candidate_frozen"}

LEMMA FreezesAreCounted ==
  ASSUME NEW l, Safe(l)
  PROVE  /\ DOMAIN l.events = 1..Len(l.events) /\ Len(l.events) \in Nat
         /\ IsFiniteSet(FrozenIn(l)) /\ Cardinality(FrozenIn(l)) \in Nat
<1>1. DOMAIN l.events = 1..Len(l.events) /\ Len(l.events) \in Nat
  BY DEF Safe, LedgerOK, LedgerType
<1>2. IsFiniteSet(1..Len(l.events))
  BY <1>1, FS_Interval
<1>3. FrozenIn(l) \subseteq 1..Len(l.events)
  BY <1>1 DEF FrozenIn
<1> QED  BY <1>1, <1>2, <1>3, FS_Subset, FS_CardinalityType

\* One event more freezes one candidate more, or none.
LEMMA FreezesMove ==
  ASSUME NEW l, NEW m, Safe(l), Safe(m), NEW next, NEW resume, NEW key, NEW art,
         OneLater(l, m, next, resume, key, art)
  PROVE  Cardinality(FrozenIn(m)) =
           IF next = "candidate_frozen" THEN Cardinality(FrozenIn(l)) + 1
           ELSE Cardinality(FrozenIn(l))
<1> DEFINE n == Len(l.events)
<1>1. /\ n \in Nat /\ DOMAIN l.events = 1..n /\ DOMAIN m.events = 1..(n + 1)
      /\ \A i \in 1..n : m.events[i] = l.events[i]
      /\ m.events[n + 1].to = next
  BY FreezesAreCounted DEF OneLater
<1>2. FrozenIn(m) = IF next = "candidate_frozen"
                    THEN FrozenIn(l) \cup {n + 1} ELSE FrozenIn(l)
  <2>1. \A i \in FrozenIn(m) : i \in FrozenIn(l) \/
                               (i = n + 1 /\ next = "candidate_frozen")
    BY <1>1 DEF FrozenIn
  <2>2. \A i \in FrozenIn(l) : i \in FrozenIn(m)
    BY <1>1 DEF FrozenIn
  <2>3. next = "candidate_frozen" => n + 1 \in FrozenIn(m)
    BY <1>1 DEF FrozenIn
  <2> QED  BY <2>1, <2>2, <2>3
<1>3. n + 1 \notin FrozenIn(l)
  BY <1>1 DEF FrozenIn
<1> QED  BY <1>2, <1>3, FreezesAreCounted, FS_AddElement

\* A ready plan that is executed, verified and frozen.
LEMMA FreezeIsSafe ==
  ASSUME NEW l, Safe(l), l.state = "ready"
  PROVE  LET m == Freeze(l) IN
         /\ Safe(m) /\ m.state = "candidate_frozen"
         /\ m.version = l.version + 3 /\ Len(m.events) = Len(l.events) + 3
         /\ \A i \in 1..Len(l.events) : m.events[i] = l.events[i]
         /\ \A i \in 1..Len(m.events) : i \in 1..Len(l.events) \/
              m.events[i].to \in {"executing", "verifying", "candidate_frozen"}
         /\ Cardinality(FrozenIn(m)) = Cardinality(FrozenIn(l)) + 1
<1>1. PICK a : a = Step(l, "executing")
  OBVIOUS
<1>2. PICK b : b = Step(a, "verifying")
  OBVIOUS
<1>3. PICK m : m = Step(b, "candidate_frozen")
  OBVIOUS
<1>4. /\ {"executing", "verifying", "candidate_frozen"}
           \subseteq States \ {"blocked"}
      /\ \A r : /\ CanTransition("ready", "executing", r)
                /\ CanTransition("executing", "verifying", r)
                /\ CanTransition("verifying", "candidate_frozen", r)
  BY DEF States, CanTransition, Forward
<1>5. /\ Safe(a) /\ a.state = "executing" /\ a.version = l.version + 1
      /\ OneLater(l, a, "executing", NoState, <<"run", l.version>>, {})
  BY <1>1, <1>4, StepIsGranted
<1>6. /\ Safe(b) /\ b.state = "verifying" /\ b.version = a.version + 1
      /\ OneLater(a, b, "verifying", NoState, <<"run", a.version>>, {})
  BY <1>2, <1>4, <1>5, StepIsGranted
<1>7. /\ Safe(m) /\ m.state = "candidate_frozen" /\ m.version = b.version + 1
      /\ OneLater(b, m, "candidate_frozen", NoState, <<"run", b.version>>, {})
  BY <1>3, <1>4, <1>6, StepIsGranted
<1>8. Cardinality(FrozenIn(m)) = Cardinality(FrozenIn(l)) + 1
  BY <1>5, <1>6, <1>7, FreezesMove
<1>9. l.version \in Nat /\ Len(l.events) \in Nat
  BY DEF Safe, LedgerOK, LedgerType
<1>10. /\ Len(m.events) = Len(l.events) + 3
       /\ \A i \in 1..Len(l.events) : m.events[i] = l.events[i]
  <2> DEFINE n == Len(l.events)
  <2>1. Len(a.events) = n + 1 /\ \A i \in 1..n : a.events[i] = l.events[i]
    BY <1>5 DEF OneLater
  <2>2. /\ Len(b.events) = Len(a.events) + 1
        /\ \A i \in 1..Len(a.events) : b.events[i] = a.events[i]
    BY <1>6 DEF OneLater
  <2>3. /\ Len(m.events) = Len(b.events) + 1
        /\ \A i \in 1..Len(b.events) : m.events[i] = b.events[i]
    BY <1>7 DEF OneLater
  <2> HIDE DEF n
  <2>4. n \in Nat
    BY <1>9 DEF n
  <2>5. /\ Len(a.events) = n + 1 /\ Len(b.events) = n + 2
        /\ Len(m.events) = n + 3
    BY <2>1, <2>2, <2>3, <2>4 DEF n
  <2>6. \A i \in 1..n : m.events[i] = l.events[i]
    BY <2>1, <2>2, <2>3, <2>4, <2>5
  <2> QED  BY <2>5, <2>6 DEF n
<1>11. /\ m.events[Len(l.events) + 1].to = "executing"
       /\ m.events[Len(l.events) + 2].to = "verifying"
       /\ m.events[Len(l.events) + 3].to = "candidate_frozen"
  <2> DEFINE n == Len(l.events)
  <2>1. Len(a.events) = n + 1 /\ a.events[n + 1].to = "executing"
    BY <1>5 DEF OneLater
  <2>2. /\ Len(b.events) = Len(a.events) + 1
        /\ b.events[Len(a.events) + 1].to = "verifying"
        /\ \A i \in 1..Len(a.events) : b.events[i] = a.events[i]
    BY <1>6 DEF OneLater
  <2>3. /\ m.events[Len(b.events) + 1].to = "candidate_frozen"
        /\ \A i \in 1..Len(b.events) : m.events[i] = b.events[i]
    BY <1>7 DEF OneLater
  <2> HIDE DEF n
  <2>4. n \in Nat
    BY <1>9 DEF n
  <2>5. Len(a.events) = n + 1 /\ Len(b.events) = n + 2
    BY <2>1, <2>2, <2>4
  <2>6. /\ m.events[n + 1].to = "executing" /\ m.events[n + 2].to = "verifying"
        /\ m.events[n + 3].to = "candidate_frozen"
    BY <2>1, <2>2, <2>3, <2>4, <2>5
  <2> QED  BY <2>6 DEF n
<1>12. \A i \in 1..Len(m.events) : i \in 1..Len(l.events) \/
         m.events[i].to \in {"executing", "verifying", "candidate_frozen"}
  BY SMTT(60), <1>9, <1>10, <1>11
<1>13. m = Freeze(l)
  BY <1>1, <1>2, <1>3 DEF Freeze
<1> QED  BY <1>5, <1>6, <1>7, <1>8, <1>9, <1>10, <1>12, <1>13

-----------------------------------------------------------------------------
(* The history of candidates, findings and deliveries.                     *)

LEMMA FreezesAreFrozen == Freezes = Cardinality(FrozenIn(ledger))
  BY DEF Freezes, FrozenIn

\* Before the delivery there is none to account for.
LEMMA NoDeliveryYet ==
  ASSUME Safe(ledger'), ledger'.state # "delivered"
  PROVE  DeliveriesAreOfTheirReceipt'
  BY DEF Safe, Accounted, DeliveriesAreOfTheirReceipt

\* One event that freezes nothing: a finding it names is about a candidate of
\* the plan it ends, and a plan that has ended is only left for a new one.
LEMMA HistoryMoves ==
  ASSUME Safe(ledger), Safe(ledger'), ledger.state \notin Terminal,
         CandidatesAreCounted, PlansEndForTheirCandidate,
         NEW next, NEW resume, NEW key, NEW art, next # "candidate_frozen",
         OneLater(ledger, ledger', next, resume, key, art),
         next = "replan_required" => \A a \in art : a[1] \in 1..Freezes,
         \/ /\ candidate' = candidate
            /\ ledger.state = "replan_required" => next = "aborted"
         \/ candidate' = 0 /\ Freezes < MaxCandidates
  PROVE  CandidatesAreCounted' /\ PlansEndForTheirCandidate'
<1>1. Freezes' = Freezes /\ Freezes \in Nat
  <2>1. Cardinality(FrozenIn(ledger')) = Cardinality(FrozenIn(ledger))
    BY FreezesMove
  <2>2. Freezes' = Cardinality(FrozenIn(ledger'))
    BY FreezesAreFrozen DEF Freezes, FrozenIn
  <2> QED  BY <2>1, <2>2, FreezesAreFrozen, FreezesAreCounted
<1>2. CandidatesAreCounted'
  BY <1>1 DEF CandidatesAreCounted
<1>3. PlansEndForTheirCandidate'
  <2> SUFFICES ASSUME NEW i \in 1..Len(ledger'.events),
                      ledger'.events[i].to = "replan_required",
                      NEW a \in ledger'.events[i].artifacts
               PROVE  /\ a[1] \in 1..Freezes
                      /\ a[1] = candidate' =>
                           ledger'.state \in {"replan_required", "aborted"}
    BY <1>1 DEF PlansEndForTheirCandidate
  <2>1. /\ Len(ledger.events) \in Nat
        /\ Len(ledger'.events) = Len(ledger.events) + 1
        /\ \A j \in 1..Len(ledger.events) :
             ledger'.events[j] = ledger.events[j]
        /\ ledger'.events[Len(ledger.events) + 1].to = next
        /\ ledger'.events[Len(ledger.events) + 1].artifacts = art
        /\ ledger'.state = next
    BY FreezesAreCounted DEF OneLater
  <2>2. CASE i = Len(ledger.events) + 1
    BY <2>1, <2>2
  <2>3. CASE i \in 1..Len(ledger.events)
    <3>1. /\ a[1] \in 1..Freezes
          /\ a[1] = candidate => ledger.state \in {"replan_required", "aborted"}
      BY <2>1, <2>3 DEF PlansEndForTheirCandidate
    <3>2. CASE candidate' = candidate
               /\ (ledger.state = "replan_required" => next = "aborted")
      BY <2>1, <3>1, <3>2 DEF Terminal
    <3>3. CASE candidate' = 0
      BY <1>1, <3>1, <3>3
    <3> QED  BY <3>2, <3>3
  <2> QED  BY <2>1, <2>2, <2>3
<1> QED  BY <1>2, <1>3

\* What no action takes back.
Grows ==
  /\ receipts \subseteq receipts'
  /\ \A a \in Actions \X Candidates :
       approvals[a] # "absent" => approvals'[a] # "absent"
  /\ \A k \in Keys : intents[k] # NoIntent => intents'[k] = intents[k]

\* A lone review's authority is not replaced.
AuthorityStays == LoneReview /\ authority # NoReceipt => authority' = authority

LEMMA IntentsAreNotNone ==
  /\ NoIntent \notin IntentType
  /\ NoReceipt \notin ReceiptType
  /\ \A r \in ReceiptType : r.cand \in Candidates
<1>1. NoIntent.cand = 0 /\ NoReceipt.cand = 0 /\ 0 \notin Candidates
  BY DEF NoIntent, NoReceipt, Candidates
<1>2. \A i \in IntentType : i.cand \in Candidates
  BY DEF IntentType
<1>3. \A r \in ReceiptType : r.cand \in Candidates
  BY DEF ReceiptType
<1> QED  BY <1>1, <1>2, <1>3

\* Where the ledger and the candidate stay, the history does.
LEMMA HistoryStays ==
  ASSUME Typed, History, Grows, AuthorityStays, UNCHANGED <<ledger, candidate>>,
         HighRiskReceipts'
  PROVE  History'
<1>1. CandidatesAreCounted' /\ PlansEndForTheirCandidate'
  BY DEF History, CandidatesAreCounted, PlansEndForTheirCandidate, Freezes
<1>2. DeliveriesAreOfTheirReceipt'
  <2> SUFFICES ASSUME NEW i \in 1..Len(ledger.events),
                      ledger.events[i].to = "delivered"
               PROVE  \E k \in Keys, r \in receipts' :
                        /\ ledger.events[i].key = <<"delivery", k>>
                        /\ ledger.events[i].artifacts = {r, intents'[k]}
                        /\ intents'[k] \in IntentType
                        /\ intents'[k].cand = candidate /\ r.cand = candidate
                        /\ LoneReview => r = authority'
                        /\ r.risk = "high" =>
                             approvals'[<<"delivery", r.cand>>] # "absent"
    BY DEF DeliveriesAreOfTheirReceipt
  <2>1. PICK k \in Keys, r \in receipts :
          /\ ledger.events[i].key = <<"delivery", k>>
          /\ ledger.events[i].artifacts = {r, intents[k]}
          /\ intents[k] \in IntentType /\ intents[k].cand = candidate
          /\ r.cand = candidate
          /\ LoneReview => r = authority
          /\ r.risk = "high" => approvals[<<"delivery", r.cand>>] # "absent"
    BY DEF History, DeliveriesAreOfTheirReceipt
  <2>2. r \in ReceiptType /\ r.cand \in Candidates /\ r # NoReceipt
    BY IntentsAreNotNone DEF Typed, TypeOK
  <2>3. <<"delivery", r.cand>> \in Actions \X Candidates
    BY <2>2 DEF Actions
  <2>4. intents'[k] = intents[k]
    BY <2>1, IntentsAreNotNone DEF Grows
  <2>5. r \in receipts' /\ (LoneReview => r = authority')
    BY <2>1, <2>2 DEF Grows, AuthorityStays
  <2>6. r.risk = "high" => approvals'[<<"delivery", r.cand>>] # "absent"
    BY <2>1, <2>3 DEF Grows
  <2> QED  BY <2>1, <2>4, <2>5, <2>6
<1> QED  BY <1>1, <1>2 DEF History

-----------------------------------------------------------------------------
(* What the processes have in hand.                                        *)

LEMMA InHand ==
  ASSUME Typed, NEW p \in Reviewers,
         rev[p].pc \in {"invoking", "running", "answered"}
  PROVE  rev[p] \in Hand
<1>1. rev[p] \in ReviewLocals
  BY DEF Typed, TablesTyped
<1>2. Idle.pc = "idle"
  BY DEF Idle
<1> QED  BY <1>1, <1>2 DEF ReviewLocals

LEMMA OneReviewMoves ==
  ASSUME Typed, NEW p \in Reviewers, NEW local \in ReviewLocals,
         ReviewBecomes(p, local)
  PROVE  /\ rev' \in [Reviewers -> ReviewLocals] /\ rev'[p] = local
         /\ \A q \in Reviewers \ {p} : rev'[q] = rev[q]
  BY DEF Typed, TablesTyped, ReviewBecomes

LEMMA OneDeliveryMoves ==
  ASSUME Typed, NEW d \in Deliverers, NEW local \in DeliveryLocals,
         DeliveryBecomes(d, local)
  PROVE  /\ del' \in [Deliverers -> DeliveryLocals] /\ del'[d] = local
         /\ \A e \in Deliverers \ {d} : del'[e] = del[e]
  BY DEF Typed, TablesTyped, DeliveryBecomes

\* The row has not changed, or it has a later version.
RowStaysOrMoves ==
  \/ /\ ledger'.version = ledger.version /\ ledger'.state = ledger.state
     /\ candidate' = candidate
  \/ ledger.version < ledger'.version

LEMMA ReviewUndisturbed ==
  ASSUME Typed, ledger.version \in Nat, ledger'.version \in Nat,
         NEW p \in Reviewers, ReviewOK(p), rev'[p] = rev[p],
         Grows, RowStaysOrMoves,
         LoneReview /\ authority = NoReceipt => authority' = NoReceipt
  PROVE  ReviewOK(p)'
<1>1. ReadsAreFresh(p)'
  <2>1. CASE rev[p].pc \in {"started", "invoking", "running", "answered"}
    <3>1. rev[p].version \in Nat
      <4>1. rev[p] \in ReviewLocals /\ Idle.pc = "idle"
        BY DEF Typed, TablesTyped, Idle
      <4> QED  BY <2>1, <4>1 DEF ReviewLocals, Hand
    <3>2. /\ rev[p].version <= ledger.version
          /\ rev[p].version = ledger.version =>
               /\ ledger.state = "reviewing"
               /\ rev[p].pc # "started" => rev[p].cand = candidate
      BY <2>1 DEF ReviewOK, ReadsAreFresh
    <3> QED  BY <3>1, <3>2 DEF RowStaysOrMoves, ReadsAreFresh
  <2> QED  BY <2>1 DEF ReadsAreFresh
<1>2. AnswersAreInOrder(p)'
  <2>1. CASE rev[p].pc \in {"invoking", "running", "answered"}
    <3>1. rev[p].cand \in Candidates
      BY <2>1, InHand DEF Hand
    <3>2. <<"review", rev[p].cand>> \in Actions \X Candidates
      BY <3>1 DEF Actions
    <3>3. approvals[<<"review", rev[p].cand>>] # "absent" =>
            approvals'[<<"review", rev[p].cand>>] # "absent"
      BY <3>2 DEF Grows
    <3> QED  BY <3>3 DEF ReviewOK, AnswersAreInOrder, Stage
  <2> QED  BY <2>1 DEF AnswersAreInOrder
<1>3. LoneFindsNoAuthority(p)'
  BY DEF ReviewOK, LoneFindsNoAuthority
<1>4. rev'[p].pc = "issued" => rev'[p].receipt \in receipts'
  BY DEF ReviewOK, Grows
<1> QED  BY <1>1, <1>2, <1>3, <1>4 DEF ReviewOK

LEMMA DeliveryUndisturbed ==
  ASSUME Typed, NEW d \in Deliverers, DeliveryOK(d), del'[d] = del[d],
         Grows, AuthorityStays,
         ledger.state \in {"receipted", "delivered", "aborted"} =>
           /\ ledger'.state \in {"receipted", "delivered", "aborted"}
           /\ candidate' = candidate
  PROVE  DeliveryOK(d)'
<1> SUFFICES ASSUME del[d] # Idle
             PROVE  DeliveryOK(d)'
  BY DEF DeliveryOK
<1>1. /\ ledger.state \in {"receipted", "delivered", "aborted"}
      /\ del[d].record = candidate
      /\ del[d].receipt \in receipts
      /\ LoneReview => del[d].receipt = authority
      /\ del[d].receipt.risk = "high" =>
           approvals[<<"delivery", del[d].receipt.cand>>] # "absent"
      /\ del[d].pc # "gate" =>
           /\ del[d].receipt.cand = candidate
           /\ del[d].intent \in IntentType /\ del[d].intent.cand = candidate
      /\ del[d].pc \in {"moving", "moved"} =>
           intents[del[d].key] = del[d].intent
  BY DEF DeliveryOK
<1>2. /\ del[d].pc \in {"gate", "built", "moving", "moved"}
      /\ del[d].key \in Keys
  BY DEF Typed, TablesTyped, DeliveryLocals
<1>3. /\ del[d].receipt \in ReceiptType /\ del[d].receipt # NoReceipt
      /\ del[d].receipt.cand \in Candidates
  BY <1>1, IntentsAreNotNone DEF Typed, TypeOK
<1>4. /\ del[d].receipt \in receipts'
      /\ LoneReview => del[d].receipt = authority'
  BY <1>1, <1>3 DEF Grows, AuthorityStays
<1>5. del[d].receipt.risk = "high" =>
        approvals'[<<"delivery", del[d].receipt.cand>>] # "absent"
  BY <1>1, <1>3 DEF Grows, Actions
<1>6. del[d].pc \in {"moving", "moved"} =>
        intents'[del[d].key] = del[d].intent
  BY <1>1, <1>2, IntentsAreNotNone DEF Grows
<1> QED  BY <1>1, <1>4, <1>5, <1>6 DEF DeliveryOK

\* A step of one review that writes nothing of what others have read.
LEMMA ReviewGoesOn ==
  ASSUME IInv, NEW p \in Reviewers, NEW local \in ReviewLocals,
         ReviewBecomes(p, local), ReviewOK(p)', Typed',
         UNCHANGED <<ledger, candidate, receiptTables, approvals, intents, del>>
  PROVE  IInv'
<1>1. Typed /\ History /\ Locals /\ Safe(ledger) /\ ReceiptsAreWhole
  BY DEF IInv
<1>2. Grows /\ AuthorityStays /\ RowStaysOrMoves
  BY DEF Grows, AuthorityStays, RowStaysOrMoves, receiptTables
<1>3. /\ HighRiskReceipts' /\ ReceiptsAreWhole' /\ Safe(ledger')
  BY <1>1 DEF History, HighRiskReceipts, ReceiptsAreWhole, receiptTables
<1>4. History'
  BY <1>1, <1>2, <1>3, HistoryStays
<1>5. ledger.version \in Nat /\ ledger'.version \in Nat
  BY <1>1 DEF Safe, LedgerOK, LedgerType
<1>6. \A q \in Reviewers \ {p} : rev'[q] = rev[q]
  BY <1>1, OneReviewMoves
<1>7. \A q \in Reviewers : ReviewOK(q)'
  BY <1>1, <1>2, <1>5, <1>6, ReviewUndisturbed DEF Locals, receiptTables
<1>8. \A d \in Deliverers : DeliveryOK(d)'
  BY <1>1, <1>2, DeliveryUndisturbed DEF Locals
<1> QED  BY <1>3, <1>4, <1>7, <1>8 DEF IInv, Locals

\* A step of one delivery that writes at most an intent that was not there.
LEMMA DeliveryGoesOn ==
  ASSUME IInv, NEW d \in Deliverers, NEW local \in DeliveryLocals,
         DeliveryBecomes(d, local), DeliveryOK(d)', Typed', Grows,
         UNCHANGED <<ledger, candidate, receiptTables, approvals, rev>>
  PROVE  IInv'
<1>1. Typed /\ History /\ Locals /\ Safe(ledger) /\ ReceiptsAreWhole
  BY DEF IInv
<1>2. AuthorityStays /\ RowStaysOrMoves
  BY DEF AuthorityStays, RowStaysOrMoves, receiptTables
<1>3. /\ HighRiskReceipts' /\ ReceiptsAreWhole' /\ Safe(ledger')
  BY <1>1 DEF History, HighRiskReceipts, ReceiptsAreWhole, receiptTables
<1>4. History'
  BY <1>1, <1>2, <1>3, HistoryStays
<1>5. ledger.version \in Nat /\ ledger'.version \in Nat
  BY <1>1 DEF Safe, LedgerOK, LedgerType
<1>6. \A e \in Deliverers \ {d} : del'[e] = del[e]
  BY <1>1, OneDeliveryMoves
<1>7. \A e \in Deliverers : DeliveryOK(e)'
  BY <1>1, <1>2, <1>6, DeliveryUndisturbed DEF Locals
<1>8. \A q \in Reviewers : ReviewOK(q)'
  BY <1>1, <1>2, <1>5, ReviewUndisturbed DEF Locals, receiptTables
<1> QED  BY <1>3, <1>4, <1>7, <1>8 DEF IInv, Locals

-----------------------------------------------------------------------------
(* The steps of a review that leave the ledger and the receipts alone.     *)

Invocation == Statuses \cup Risks \cup {"clean", "severe"} \cup Reviewers
Checkpoint == Risks \cup {"absent", "clean", "severe"}

InvocationsTyped ==
  /\ invocations \in [Candidates -> [Stages -> Invocation]]
  /\ \A c \in Candidates, s \in Stages :
       invocations[c][s] \in Statuses \cup StageAnswers(s) \cup Reviewers

CheckpointsTyped ==
  /\ checkpoints \in [Candidates -> [Stages -> Checkpoint]]
  /\ \A c \in Candidates, s \in Stages :
       checkpoints[c][s] \in {"absent"} \cup StageAnswers(s)

LEMMA AnswersAreKnown ==
  ASSUME NEW s
  PROVE  StageAnswers(s) \subseteq Risks \cup {"clean", "severe"}
  BY ReviewAssumption DEF StageAnswers

LEMMA ReviewTablesTyped ==
  ASSUME Typed
  PROVE  InvocationsTyped /\ CheckpointsTyped
  BY DEF Typed, TypeOK, TablesTyped, InvocationsTyped, CheckpointsTyped,
         Invocation, Checkpoint

LEMMA SetInvocationTyped ==
  ASSUME InvocationsTyped, NEW c \in Candidates, NEW s \in Stages,
         NEW status \in Statuses \cup StageAnswers(s) \cup Reviewers,
         SetInvocation(c, s, status)
  PROVE  InvocationsTyped'
<1>1. status \in Invocation
  BY AnswersAreKnown DEF Invocation
<1>2. invocations' = [invocations EXCEPT ![c] =
                        [invocations[c] EXCEPT ![s] = status]]
  BY DEF SetInvocation
<1>3. \A d \in Candidates : invocations'[d] =
        IF d = c THEN [invocations[c] EXCEPT ![s] = status] ELSE invocations[d]
  BY <1>2 DEF InvocationsTyped
<1>4. invocations' \in [Candidates -> [Stages -> Invocation]]
  BY <1>1, <1>2 DEF InvocationsTyped
<1>5. ASSUME NEW d \in Candidates, NEW r \in Stages
      PROVE  invocations'[d][r] \in Statuses \cup StageAnswers(r) \cup Reviewers
  <2>1. CASE d = c /\ r = s
    BY <1>3, <2>1 DEF InvocationsTyped
  <2>2. CASE ~(d = c /\ r = s)
    <3>1. invocations'[d][r] = invocations[d][r]
      BY <1>3, <2>2 DEF InvocationsTyped
    <3> QED  BY <3>1 DEF InvocationsTyped
  <2> QED  BY <2>1, <2>2
<1> QED  BY <1>4, <1>5 DEF InvocationsTyped

LEMMA PersistTyped ==
  ASSUME CheckpointsTyped, NEW c \in Candidates, NEW s \in Stages,
         NEW answer \in StageAnswers(s), PersistCheckpoint(c, s, answer)
  PROVE  CheckpointsTyped'
<1>1. answer \in Checkpoint
  BY AnswersAreKnown DEF Checkpoint
<1>2. checkpoints' = [checkpoints EXCEPT ![c] =
                        [checkpoints[c] EXCEPT ![s] = answer]]
  BY DEF PersistCheckpoint
<1>3. \A d \in Candidates : checkpoints'[d] =
        IF d = c THEN [checkpoints[c] EXCEPT ![s] = answer] ELSE checkpoints[d]
  BY <1>2 DEF CheckpointsTyped
<1>4. checkpoints' \in [Candidates -> [Stages -> Checkpoint]]
  BY <1>1, <1>2 DEF CheckpointsTyped
<1>5. ASSUME NEW d \in Candidates, NEW r \in Stages
      PROVE  checkpoints'[d][r] \in {"absent"} \cup StageAnswers(r)
  <2>1. CASE d = c /\ r = s
    BY <1>3, <2>1 DEF CheckpointsTyped
  <2>2. CASE ~(d = c /\ r = s)
    <3>1. checkpoints'[d][r] = checkpoints[d][r]
      BY <1>3, <2>2 DEF CheckpointsTyped
    <3> QED  BY <3>1 DEF CheckpointsTyped
  <2> QED  BY <2>1, <2>2
<1> QED  BY <1>4, <1>5 DEF CheckpointsTyped

LEMMA ReconciledTyped ==
  ASSUME InvocationsTyped, invocations' = Reconciled
  PROVE  InvocationsTyped'
<1>1. "interrupted" \in Statuses
  BY DEF Statuses
<1>2. \A c \in Candidates, s \in Stages :
        invocations'[c][s] \in {"interrupted", invocations[c][s]}
  BY DEF Reconciled
<1>3. invocations' \in [Candidates -> [Stages -> Invocation]]
  <2>1. \A c \in Candidates, s \in Stages :
          /\ invocations[c][s] \in Invocation /\ "interrupted" \in Invocation
    BY <1>1 DEF InvocationsTyped, Invocation
  <2> QED  BY <2>1 DEF Reconciled
<1> QED  BY <1>1, <1>2, <1>3 DEF InvocationsTyped

\* What a step of a review may write, of what is typed.
LEMMA ReviewStepTyped ==
  ASSUME Typed, ReviewKeeps, UNCHANGED <<ledger, receiptTables>>,
         rev' \in [Reviewers -> ReviewLocals],
         InvocationsTyped', CheckpointsTyped',
         findings' \subseteq Candidates \X ToSet(Lenses)
  PROVE  Typed'
<1>1. TypeOK'
  BY DEF Typed, TypeOK, ReviewKeeps, receiptTables, git, approvalTables,
         deliveryTables, InvocationsTyped, CheckpointsTyped
<1>2. TablesTyped'
  BY DEF Typed, TablesTyped, ReviewKeeps, approvalTables, deliveryTables,
         InvocationsTyped, CheckpointsTyped, Invocation, Checkpoint
<1> QED  BY <1>1, <1>2 DEF Typed

\* A command that has nothing in hand.
LEMMA IdleIsFine ==
  ASSUME NEW p, rev'[p].pc \in {"idle", "reported"}
  PROVE  ReviewOK(p)'
  BY DEF ReviewOK, ReadsAreFresh, AnswersAreInOrder, LoneFindsNoAuthority

LEMMA IdlesAreLocals ==
  /\ Idle \in ReviewLocals /\ [pc |-> "reported"] \in ReviewLocals
  /\ Idle.pc = "idle" /\ Idle \in DeliveryLocals
  BY DEF ReviewLocals, DeliveryLocals, Idle

\* A review's step into idleness.
LEMMA ReviewRests ==
  ASSUME IInv, NEW p \in Reviewers,
         NEW local \in {Idle, [pc |-> "reported"]}, ReviewBecomes(p, local),
         ReviewKeeps,
         UNCHANGED <<ledger, checkpoints, findings, receiptTables>>,
         InvocationsTyped'
  PROVE  IInv'
<1>1. Typed /\ CheckpointsTyped
  BY ReviewTablesTyped DEF IInv
<1>2. local \in ReviewLocals /\ local.pc \in {"idle", "reported"}
  BY IdlesAreLocals
<1>3. rev' \in [Reviewers -> ReviewLocals] /\ rev'[p] = local
  BY <1>1, <1>2, OneReviewMoves
<1>4. ReviewOK(p)'
  BY <1>2, <1>3, IdleIsFine
<1>5. CheckpointsTyped' /\ findings' \subseteq Candidates \X ToSet(Lenses)
  BY <1>1 DEF CheckpointsTyped, Typed, TypeOK
<1>6. Typed'
  BY <1>1, <1>3, <1>5, ReviewStepTyped
<1> QED
  BY <1>2, <1>4, <1>6, ReviewGoesOn DEF ReviewKeeps, approvalTables,
     deliveryTables

LEMMA ReviewReturnsAuthorityKeepsIInv ==
  ASSUME IInv, NEW p \in Reviewers, ReviewReturnsAuthority(p)
  PROVE  IInv'
<1>1. InvocationsTyped'
  BY ReviewTablesTyped, ReconciledTyped DEF IInv, ReviewReturnsAuthority
<1> QED  BY <1>1, ReviewRests DEF ReviewReturnsAuthority

LEMMA ReviewEndsKeepsIInv ==
  ASSUME IInv, NEW p \in Reviewers, ReviewEnds(p)
  PROVE  IInv'
<1>1. InvocationsTyped'
  BY ReviewTablesTyped DEF IInv, ReviewEnds, InvocationsTyped, reviewTables
<1> QED  BY <1>1, ReviewRests DEF ReviewEnds, reviewTables

LEMMA HandBecomes ==
  ASSUME NEW h \in Hand, NEW pc \in {"invoking", "running", "answered"},
         NEW a \in Risks \cup {"absent", "clean", "severe"}
  PROVE  LET g == [h EXCEPT !.pc = pc, !.answer = a] IN
         /\ g \in Hand /\ g.pc = pc /\ g.answer = a
         /\ g.version = h.version /\ g.cand = h.cand
         /\ g.plan = h.plan /\ g.answers = h.answers
  BY DEF Hand

\* The stage a review is at is one, and the plan still holds it.
LEMMA AtAStage ==
  ASSUME Typed, NEW p \in Reviewers,
         rev[p].pc \in {"invoking", "running", "answered"},
         Len(rev[p].answers) < Len(rev[p].plan)
  PROVE  Stage(p) \in Stages
<1>1. rev[p].plan \in Seq(Stages) /\ Len(rev[p].answers) \in Nat
  BY InHand DEF Hand
<1>2. Len(rev[p].answers) + 1 \in 1..Len(rev[p].plan)
  BY <1>1
<1> QED  BY <1>1, <1>2 DEF Stage

\* A step that keeps candidate and version in hand.
LEMMA ReviewHasInHand ==
  ASSUME IInv, NEW p \in Reviewers,
         rev[p].pc \in {"invoking", "running", "answered"}, NEW local \in Hand,
         local.version = rev[p].version, local.cand = rev[p].cand,
         ReviewBecomes(p, local),
         ReviewKeeps, UNCHANGED <<ledger, receiptTables>>,
         InvocationsTyped', CheckpointsTyped',
         findings' \subseteq Candidates \X ToSet(Lenses), AnswersAreInOrder(p)'
  PROVE  IInv'
<1>1. Typed /\ ReviewOK(p)
  BY DEF IInv, Locals
<1>2. local \in ReviewLocals
  BY DEF ReviewLocals
<1>3. rev' \in [Reviewers -> ReviewLocals] /\ rev'[p] = local
  BY <1>1, <1>2, OneReviewMoves
<1>4. local.pc \in {"invoking", "running", "answered"}
  BY DEF Hand
<1>5. ReadsAreFresh(p)' /\ LoneFindsNoAuthority(p)'
  BY <1>1, <1>3, <1>4
  DEF ReviewOK, ReadsAreFresh, LoneFindsNoAuthority, ReviewKeeps, receiptTables
<1>6. ReviewOK(p)'
  BY <1>3, <1>4, <1>5 DEF ReviewOK
<1>7. Typed'
  BY <1>1, <1>3, ReviewStepTyped
<1> QED
  BY <1>2, <1>6, <1>7, ReviewGoesOn
  DEF ReviewKeeps, approvalTables, deliveryTables

LEMMA InvokeRecoversKeepsIInv ==
  ASSUME IInv, NEW p \in Reviewers, InvokeRecovers(p)
  PROVE  IInv'
<1>1. /\ Typed /\ ReviewOK(p) /\ InvocationsTyped /\ CheckpointsTyped
      /\ rev[p].pc = "invoking" /\ Len(rev[p].answers) < Len(rev[p].plan)
  BY ReviewTablesTyped DEF IInv, Locals, InvokeRecovers, AtStage
<1>2. PICK a : a = Recovered(rev[p].cand, Stage(p))
  OBVIOUS
<1>3. /\ a \in StageAnswers(Stage(p))
      /\ a \in Risks \cup {"absent", "clean", "severe"}
  BY <1>2, AnswersAreKnown DEF InvokeRecovers
<1> DEFINE local == [rev[p] EXCEPT !.pc = "answered", !.answer = a]
<1>4. rev[p] \in Hand
  BY <1>1, InHand
<1>5. /\ local \in Hand /\ local.pc = "answered" /\ local.answer = a
      /\ local.version = rev[p].version /\ local.cand = rev[p].cand
      /\ local.plan = rev[p].plan /\ local.answers = rev[p].answers
  BY <1>3, <1>4, HandBecomes
<1>6. ReviewBecomes(p, local)
  BY <1>2 DEF InvokeRecovers, Answered
<1> HIDE DEF local
<1>7. rev'[p] = local
  BY <1>1, <1>5, <1>6, OneReviewMoves DEF ReviewLocals
<1>8. AnswersAreInOrder(p)'
  BY <1>1, <1>3, <1>5, <1>7
  DEF ReviewOK, AnswersAreInOrder, Stage, InvokeRecovers, ReviewKeeps,
      approvalTables
<1>9. /\ InvocationsTyped' /\ CheckpointsTyped'
      /\ findings' \subseteq Candidates \X ToSet(Lenses)
  BY <1>1 DEF InvokeRecovers, reviewTables, InvocationsTyped, CheckpointsTyped,
              Typed, TypeOK
<1> QED  BY <1>1, <1>5, <1>6, <1>8, <1>9, ReviewHasInHand DEF InvokeRecovers

LEMMA InvokeStartsKeepsIInv ==
  ASSUME IInv, NEW p \in Reviewers, InvokeStarts(p)
  PROVE  IInv'
<1>1. /\ Typed /\ ReviewOK(p) /\ InvocationsTyped /\ CheckpointsTyped
      /\ rev[p].pc = "invoking" /\ Len(rev[p].answers) < Len(rev[p].plan)
  BY ReviewTablesTyped DEF IInv, Locals, InvokeStarts, AtStage
<1> DEFINE local == [rev[p] EXCEPT !.pc = "running"]
<1>2. rev[p] \in Hand /\ rev[p].cand \in Candidates /\ Stage(p) \in Stages
  BY <1>1, InHand, AtAStage DEF Hand
<1>3. /\ local \in Hand /\ local.pc = "running"
      /\ local.version = rev[p].version /\ local.cand = rev[p].cand
      /\ local.plan = rev[p].plan /\ local.answers = rev[p].answers
  BY <1>2 DEF Hand
<1>4. ReviewBecomes(p, local)
  BY DEF InvokeStarts
<1> HIDE DEF local
<1>5. rev'[p] = local
  BY <1>1, <1>3, <1>4, OneReviewMoves DEF ReviewLocals
<1>6. AnswersAreInOrder(p)'
  BY <1>1, <1>3, <1>5
  DEF ReviewOK, AnswersAreInOrder, InvokeStarts, ReviewKeeps, approvalTables
<1>7. InvocationsTyped'
  BY <1>1, <1>2, SetInvocationTyped DEF InvokeStarts
<1>8. CheckpointsTyped' /\ findings' \subseteq Candidates \X ToSet(Lenses)
  BY <1>1 DEF InvokeStarts, CheckpointsTyped, Typed, TypeOK
<1> QED
  BY <1>1, <1>3, <1>4, <1>6, <1>7, <1>8, ReviewHasInHand DEF InvokeStarts

LEMMA InvokeEndsKeepsIInv ==
  ASSUME IInv, NEW p \in Reviewers, InvokeEnds(p)
  PROVE  IInv'
<1>1. /\ Typed /\ ReviewOK(p) /\ InvocationsTyped /\ CheckpointsTyped
      /\ rev[p].pc = "running" /\ ReviewKeeps
      /\ UNCHANGED <<ledger, checkpoints, findings, evidence, receiptTables>>
  BY ReviewTablesTyped DEF IInv, Locals, InvokeEnds
<1>2. rev[p] \in Hand /\ rev[p].cand \in Candidates
  BY <1>1, InHand DEF Hand
<1>3. Len(rev[p].answers) < Len(rev[p].plan)
  BY <1>1 DEF ReviewOK, AnswersAreInOrder
<1>4. Stage(p) \in Stages
  BY <1>1, <1>3, AtAStage
<1>5. CheckpointsTyped' /\ findings' \subseteq Candidates \X ToSet(Lenses)
  BY <1>1 DEF CheckpointsTyped, Typed, TypeOK
<1>6. ASSUME NEW a \in StageAnswers(Stage(p)),
             SetInvocation(rev[p].cand, Stage(p), a), Answered(p, a)
      PROVE  IInv'
  <2> DEFINE local == [rev[p] EXCEPT !.pc = "answered", !.answer = a]
  <2>1. a \in Risks \cup {"absent", "clean", "severe"}
    BY AnswersAreKnown
  <2>2. /\ local \in Hand /\ local.pc = "answered" /\ local.answer = a
        /\ local.version = rev[p].version /\ local.cand = rev[p].cand
        /\ local.plan = rev[p].plan /\ local.answers = rev[p].answers
    BY <1>2, <2>1, HandBecomes
  <2>3. ReviewBecomes(p, local)
    BY <1>6 DEF Answered
  <2> HIDE DEF local
  <2>4. rev'[p] = local
    BY <1>1, <2>2, <2>3, OneReviewMoves DEF ReviewLocals
  <2>5. AnswersAreInOrder(p)'
    BY <1>1, <1>3, <2>2, <2>4
    DEF ReviewOK, AnswersAreInOrder, Stage, ReviewKeeps, approvalTables
  <2>6. InvocationsTyped'
    BY <1>1, <1>2, <1>4, <1>6, SetInvocationTyped
  <2> QED  BY <1>1, <1>5, <2>2, <2>3, <2>5, <2>6, ReviewHasInHand
<1>7. ASSUME SetInvocation(rev[p].cand, Stage(p), "failed"),
             ReviewBecomes(p, Idle)
      PROVE  IInv'
  <2>1. InvocationsTyped'
    BY <1>1, <1>2, <1>4, <1>7, SetInvocationTyped DEF Statuses
  <2> QED  BY <1>1, <1>7, <2>1, ReviewRests
<1> QED  BY <1>6, <1>7 DEF InvokeEnds

LEMMA LensesAreStages ==
  ASSUME NEW risk
  PROVE  /\ LensesFor(risk) \in Seq(Stages) /\ Len(LensesFor(risk)) \in Nat
         /\ <<"semantic">> \o LensesFor(risk) \in Seq(Stages)
         /\ Len(<<"semantic">> \o LensesFor(risk)) = Len(LensesFor(risk)) + 1
<1>1. Lenses \in Seq(STRING) /\ Len(Lenses) > 0
  BY ReviewAssumption
<1>2. \A i \in 1..Len(Lenses) : Lenses[i] \in Stages
  BY <1>1 DEF Stages, ToSet
<1>3. Lenses \in Seq(Stages) /\ Lenses[1] \in Stages
  BY <1>1, <1>2
<1>4. <<>> \in Seq(Stages) /\ <<Lenses[1]>> \in Seq(Stages)
  BY <1>3
<1>5. LensesFor(risk) \in Seq(Stages)
  BY <1>3, <1>4 DEF LensesFor
<1>6. "semantic" \in Stages
  BY DEF Stages
<1> QED  BY <1>5, <1>6

\* An admissible answer has an effective risk that was asked for, and no lower
\* than the floor.
LEMMA EffectiveRiskIsAsked ==
  ASSUME NEW answer \in Answers, Admissible(answer)
  PROVE  /\ EffectiveRisk(answer) \in Answers
         /\ Rank(EffectiveRisk(answer)) >= Rank(Floor)
<1>1. answer \in Risks /\ Floor \in Risks
  BY ReviewAssumption
<1>2. Rank(answer) <= Rank(Floor) => answer = Floor
  BY <1>1 DEF Admissible, Rank, Risks
<1>3. \A r \in Risks : Rank(r) \in Nat
  BY DEF Rank, Risks
<1> QED  BY <1>1, <1>2, <1>3 DEF EffectiveRisk

LEMMA AcceptSemanticKeepsIInv ==
  ASSUME IInv, NEW p \in Reviewers, AcceptSemantic(p)
  PROVE  IInv'
<1> DEFINE c == rev[p].cand
           answer == rev[p].answer
           risk == EffectiveRisk(answer)
           local == [pc |-> "invoking", version |-> rev[p].version, cand |-> c,
                     plan |-> <<"semantic">> \o LensesFor(risk),
                     answers |-> <<risk>>, answer |-> "absent"]
<1>1. /\ Typed /\ ReviewOK(p) /\ InvocationsTyped /\ CheckpointsTyped
      /\ rev[p].pc = "answered" /\ Stage(p) = "semantic" /\ ReviewKeeps
      /\ UNCHANGED <<ledger, findings, evidence, receiptTables>>
  BY ReviewTablesTyped DEF IInv, Locals, AcceptSemantic
<1>2. /\ rev[p] \in Hand /\ c \in Candidates /\ rev[p].version \in Nat
      /\ "semantic" \in Stages
  BY <1>1, InHand DEF Hand, Stages
<1>3. answer \in Answers /\ answer \in StageAnswers("semantic")
  BY <1>1 DEF ReviewOK, AnswersAreInOrder, StageAnswers
<1>4. findings' \subseteq Candidates \X ToSet(Lenses)
  BY <1>1 DEF Typed, TypeOK
<1>5. CASE ~Admissible(answer)
  <2>1. /\ SetInvocation(c, "semantic", "malformed") /\ ReviewBecomes(p, Idle)
        /\ UNCHANGED checkpoints
    BY <1>5 DEF AcceptSemantic
  <2>2. InvocationsTyped'
    BY <1>1, <1>2, <2>1, SetInvocationTyped DEF Statuses
  <2> QED  BY <1>1, <2>1, <2>2, ReviewRests
<1>6. CASE Admissible(answer)
  <2>1. /\ PersistCheckpoint(c, "semantic", answer) /\ UNCHANGED invocations
        /\ ReviewBecomes(p, IF risk = "high" /\ ~Approved("review", c) THEN Idle
                            ELSE local)
    BY <1>6 DEF AcceptSemantic
  <2>2. InvocationsTyped' /\ CheckpointsTyped'
    BY <1>1, <1>2, <1>3, <2>1, PersistTyped DEF InvocationsTyped
  <2>3. CASE risk = "high" /\ ~Approved("review", c)
    <3>1. ReviewBecomes(p, Idle)
      BY <2>1, <2>3
    <3>2. /\ Idle \in ReviewLocals
          /\ rev' \in [Reviewers -> ReviewLocals] /\ rev'[p] = Idle
      BY <1>1, <3>1, IdlesAreLocals, OneReviewMoves
    <3>3. ReviewOK(p)'
      BY <3>2, IdlesAreLocals, IdleIsFine
    <3>4. Typed'
      BY <1>1, <1>4, <2>2, <3>2, ReviewStepTyped
    <3> QED
      BY <1>1, <3>1, <3>2, <3>3, <3>4, ReviewGoesOn
      DEF ReviewKeeps, approvalTables, deliveryTables
  <2>4. CASE ~(risk = "high" /\ ~Approved("review", c))
    <3>1. /\ risk \in Answers /\ risk \in Risks /\ Rank(risk) >= Rank(Floor)
      BY <1>3, <1>6, EffectiveRiskIsAsked, ReviewAssumption
    <3>2. risk = "high" => approvals[<<"review", c>>] # "absent"
      BY <2>4 DEF Approved
    <3>3. ReviewBecomes(p, local)
      BY <2>1, <2>4
    <3> HIDE DEF risk, answer
    <3>4. /\ local \in Hand /\ local.pc = "invoking"
          /\ local.version = rev[p].version /\ local.cand = c
          /\ local.plan = <<"semantic">> \o LensesFor(risk)
          /\ local.answers = <<risk>>
      <4>1. <<risk>> \in Seq(Risks \cup {"clean", "severe"})
        BY <3>1
      <4> QED  BY <1>2, <4>1, LensesAreStages DEF Hand
    <3> HIDE DEF local
    <3>5. rev'[p] = local
      BY <1>1, <3>3, <3>4, OneReviewMoves DEF ReviewLocals
    <3>6. AnswersAreInOrder(p)'
      <4>0. PICK new : new = <<risk>>
        OBVIOUS
      <4>1. /\ Len(new) = 1 /\ new[1] = risk
            /\ \A i \in 2..Len(new) : new[i] \in {"clean", "severe"}
            /\ Len(new) <= Len(<<"semantic">> \o LensesFor(risk))
        BY <4>0, LensesAreStages
      <4>2. approvals' = approvals
        BY <1>1 DEF ReviewKeeps, approvalTables
      <4>3. /\ rev'[p].pc = "invoking" /\ rev'[p].cand = c
            /\ rev'[p].plan = <<"semantic">> \o LensesFor(risk)
            /\ rev'[p].answers = new
        BY <3>4, <3>5, <4>0
      <4>5. /\ Len(new) > 0 /\ new[1] \in Answers
            /\ Rank(new[1]) >= Rank(Floor)
            /\ rev'[p].plan = <<"semantic">> \o LensesFor(new[1])
            /\ new[1] = "high" =>
                 approvals'[<<"review", rev'[p].cand>>] # "absent"
            /\ Len(new) <= Len(rev'[p].plan)
        BY <3>1, <3>2, <4>1, <4>2, <4>3
      <4> QED  BY <4>1, <4>3, <4>5 DEF AnswersAreInOrder
    <3> QED  BY <1>1, <1>4, <2>2, <3>3, <3>4, <3>6, ReviewHasInHand
  <2> QED  BY <2>3, <2>4
<1> QED  BY <1>5, <1>6

LEMMA AcceptLensKeepsIInv ==
  ASSUME IInv, NEW p \in Reviewers, AcceptLens(p)
  PROVE  IInv'
<1> DEFINE c == rev[p].cand
           answer == rev[p].answer
           old == rev[p].answers
           new == Append(old, answer)
           local == [pc |-> "invoking", version |-> rev[p].version, cand |-> c,
                     plan |-> rev[p].plan, answers |-> new,
                     answer |-> "absent"]
<1>1. /\ Typed /\ ReviewOK(p) /\ InvocationsTyped /\ CheckpointsTyped
      /\ rev[p].pc = "answered" /\ Stage(p) # "semantic" /\ ReviewKeeps
      /\ PersistCheckpoint(c, Stage(p), answer) /\ ReviewBecomes(p, local)
      /\ UNCHANGED <<ledger, invocations, evidence, receiptTables>>
  BY ReviewTablesTyped DEF IInv, Locals, AcceptLens
<1>2. /\ rev[p] \in Hand /\ c \in Candidates /\ rev[p].version \in Nat
      /\ old \in Seq(Risks \cup {"clean", "severe"})
      /\ rev[p].plan \in Seq(Stages)
  BY <1>1, InHand DEF Hand
<1>3. /\ Len(old) < Len(rev[p].plan) /\ answer \in StageAnswers(Stage(p))
  BY <1>1 DEF ReviewOK, AnswersAreInOrder
<1>4. Stage(p) \in Stages /\ Stage(p) \in ToSet(Lenses)
  BY <1>1, <1>3, AtAStage DEF Stages
<1>5. answer \in {"clean", "severe"}
  BY <1>1, <1>3 DEF StageAnswers
<1>6. old # <<>>
  <2>1. old = <<>> /\ rev[p].plan = <<"semantic">> => Stage(p) = "semantic"
    BY DEF Stage
  <2> QED  BY <1>1, <2>1 DEF ReviewOK, AnswersAreInOrder
<1>7. /\ Len(old) > 0 /\ old[1] \in Answers
      /\ Rank(old[1]) >= Rank(Floor)
      /\ rev[p].plan = <<"semantic">> \o LensesFor(old[1])
      /\ \A i \in 2..Len(old) : old[i] \in {"clean", "severe"}
      /\ old[1] = "high" => approvals[<<"review", c>>] # "absent"
  BY <1>1, <1>6 DEF ReviewOK, AnswersAreInOrder
<1>8. /\ new \in Seq(Risks \cup {"clean", "severe"})
      /\ Len(new) = Len(old) + 1 /\ new[1] = old[1]
      /\ \A i \in 2..Len(new) : new[i] \in {"clean", "severe"}
  <2> HIDE DEF old, answer
  <2>1. /\ new \in Seq(Risks \cup {"clean", "severe"})
        /\ Len(new) = Len(old) + 1 /\ Len(old) \in Nat
        /\ \A i \in 1..Len(old) : new[i] = old[i]
        /\ new[Len(old) + 1] = answer
    BY <1>2, <1>5
  <2> HIDE DEF new
  <2>2. new[1] = old[1]
    BY <1>7, <2>1
  <2>3. \A i \in 2..Len(new) : new[i] \in {"clean", "severe"}
    BY <1>5, <1>7, <2>1
  <2> QED  BY <2>1, <2>2, <2>3
<1> HIDE DEF new
<1>9. /\ local \in Hand /\ local.pc = "invoking"
      /\ local.version = rev[p].version /\ local.cand = c
      /\ local.plan = rev[p].plan /\ local.answers = new
  BY <1>2, <1>8 DEF Hand
<1> HIDE DEF local
<1>10. rev'[p] = local
  BY <1>1, <1>9, OneReviewMoves DEF ReviewLocals
<1>11. AnswersAreInOrder(p)'
  <2>1. approvals' = approvals
    BY <1>1 DEF ReviewKeeps, approvalTables
  <2>2. Len(new) > 0 /\ Len(new) <= Len(rev[p].plan)
    BY <1>2, <1>3, <1>8
  <2> QED  BY <1>7, <1>8, <1>9, <1>10, <2>1, <2>2 DEF AnswersAreInOrder
<1>12. InvocationsTyped' /\ CheckpointsTyped'
  BY <1>1, <1>2, <1>3, <1>4, PersistTyped DEF InvocationsTyped
<1>13. findings' \subseteq Candidates \X ToSet(Lenses)
  BY <1>1, <1>2, <1>4 DEF AcceptLens, Typed, TypeOK
<1> QED  BY <1>1, <1>9, <1>11, <1>12, <1>13, ReviewHasInHand

-----------------------------------------------------------------------------
(* The receipt.                                                            *)

\* A complete review without a severe finding has a whole receipt.
LEMMA CompleteReceiptIsWhole ==
  ASSUME IInv, NEW p \in Reviewers, Complete(p), SevereLenses(p) = {}
  PROVE  LET r == ReceiptOf(p) IN
         /\ r \in ReceiptType /\ r.cand = rev[p].cand
         /\ Rank(r.risk) >= Rank(Floor) /\ r.risk = r.answers[1]
         /\ Tail(r.answers) = [i \in DOMAIN LensesFor(r.risk) |-> "clean"]
         /\ r.risk = "high" => approvals[<<"review", r.cand>>] # "absent"
<1>1. /\ Typed /\ rev[p].pc = "invoking" /\ AnswersAreInOrder(p)
      /\ Len(rev[p].answers) = Len(rev[p].plan)
  BY DEF IInv, Locals, ReviewOK, Complete
<1>2. PICK s : s = rev[p].answers
  OBVIOUS
<1>3. /\ rev[p].cand \in Candidates /\ rev[p].plan \in Seq(Stages)
      /\ s \in Seq(Risks \cup {"clean", "severe"}) /\ Len(s) \in Nat
      /\ DOMAIN s = 1..Len(s)
  BY <1>1, <1>2, InHand DEF Hand
<1>4. s # <<>>
  <2>1. CASE s = <<>> /\ rev[p].plan = <<"semantic">>
    <3>1. Len(s) = 0 /\ Len(rev[p].plan) = 1
      BY <2>1
    <3>2. Len(s) = Len(rev[p].plan)
      BY <1>1, <1>2
    <3> QED  BY <3>1, <3>2
  <2>2. CASE Len(s) > 0
    <3>1. Len(<<>>) = 0
      OBVIOUS
    <3> QED  BY <2>2, <3>1
  <2> QED  BY <1>1, <1>2, <2>1, <2>2 DEF AnswersAreInOrder
<1>5. /\ Len(s) > 0 /\ s[1] \in Answers /\ Rank(s[1]) >= Rank(Floor)
      /\ rev[p].plan = <<"semantic">> \o LensesFor(s[1])
      /\ \A i \in 2..Len(s) : s[i] \in {"clean", "severe"}
      /\ s[1] = "high" => approvals[<<"review", rev[p].cand>>] # "absent"
  BY <1>1, <1>2, <1>4 DEF AnswersAreInOrder
<1>6. \A i \in 2..Len(s) : s[i] = "clean"
  <2>1. \A i \in 1..Len(s) : s[i] # "severe"
    BY <1>2, <1>3 DEF SevereLenses
  <2>2. \A i \in 2..Len(s) : i \in 1..Len(s)
    BY <1>3
  <2> QED  BY <1>5, <2>1, <2>2
<1>7. s \in Seq(Answers \cup {"clean"})
  <2>1. \A i \in 1..Len(s) : s[i] \in Answers \cup {"clean"}
    <3>1. \A i \in 1..Len(s) : i = 1 \/ i \in 2..Len(s)
      BY <1>3
    <3> QED  BY <1>5, <1>6, <3>1
  <2> QED  BY <1>3, <2>1
<1>8. Tail(s) = [i \in DOMAIN LensesFor(s[1]) |-> "clean"]
  <2>1. PICK t : t = LensesFor(s[1])
    OBVIOUS
  <2>2. Len(s) = Len(t) + 1 /\ Len(t) \in Nat /\ DOMAIN t = 1..Len(t)
    BY <1>1, <1>2, <1>5, <2>1, LensesAreStages
  <2>3. /\ Tail(s) \in Seq(Answers \cup {"clean"}) /\ Len(Tail(s)) = Len(t)
        /\ \A i \in 1..Len(t) : Tail(s)[i] = s[i + 1]
    BY <1>5, <1>7, <2>2
  <2>4. \A i \in 1..Len(t) : Tail(s)[i] = "clean"
    BY <1>3, <1>6, <2>2, <2>3
  <2>5. Tail(s) = [i \in 1..Len(t) |-> Tail(s)[i]]
    BY <2>3, LenProperties
  <2> QED  BY <2>1, <2>2, <2>4, <2>5
<1>9. PICK r : r = ReceiptOf(p)
  OBVIOUS
<1>10. r.cand = rev[p].cand /\ r.risk = s[1] /\ r.answers = s
  BY <1>2, <1>9 DEF ReceiptOf
<1>11. r \in ReceiptType
  BY <1>2, <1>3, <1>5, <1>7, <1>9 DEF ReceiptOf, ReceiptType
<1> QED  BY <1>5, <1>8, <1>9, <1>10, <1>11

LEMMA IssueKeepsIInv ==
  ASSUME IInv, NEW p \in Reviewers, Issue(p)
  PROVE  IInv'
<1>1. PICK r : r = ReceiptOf(p)
  OBVIOUS
<1>2. /\ r \in ReceiptType /\ r.cand = rev[p].cand
      /\ Rank(r.risk) >= Rank(Floor) /\ r.risk = r.answers[1]
      /\ Tail(r.answers) = [i \in DOMAIN LensesFor(r.risk) |-> "clean"]
      /\ r.risk = "high" => approvals[<<"review", r.cand>>] # "absent"
  BY <1>1, CompleteReceiptIsWhole DEF Issue
<1> DEFINE local == [pc |-> "issued", receipt |-> r]
<1>3. /\ \A q \in receipts : q.cand = r.cand => q = r
      /\ receipts' = receipts \cup {r}
      /\ authority' = (IF r \in receipts THEN authority ELSE r)
      /\ ReviewBecomes(p, local) /\ ReviewKeeps
      /\ UNCHANGED <<ledger, invocations, checkpoints, findings>>
  BY <1>1, <1>2 DEF Issue, ReceiptFits
<1>4. /\ Typed /\ History /\ Locals /\ Safe(ledger) /\ ReceiptsAreWhole
      /\ ReviewOK(p) /\ rev[p].pc = "invoking"
  BY DEF IInv, Locals, Issue, Complete
<1>5. local \in ReviewLocals /\ local.pc = "issued" /\ local.receipt = r
  BY <1>2 DEF ReviewLocals
<1> HIDE DEF local
<1>6. /\ rev' \in [Reviewers -> ReviewLocals] /\ rev'[p] = local
      /\ \A q \in Reviewers \ {p} : rev'[q] = rev[q]
  BY <1>3, <1>4, <1>5, OneReviewMoves
<1>7. UNCHANGED <<candidate, tree, ref, foreign, approvals, current, intents,
                  commits, del>>
  BY <1>3 DEF ReviewKeeps, git, approvalTables, deliveryTables
<1>8. LoneReview => authority = NoReceipt
  BY <1>4 DEF ReviewOK, LoneFindsNoAuthority
<1>9. Grows /\ AuthorityStays /\ RowStaysOrMoves
  BY <1>3, <1>7, <1>8 DEF Grows, AuthorityStays, RowStaysOrMoves
<1>10. Typed'
  <2>1. TypeOK'
    BY <1>2, <1>3, <1>4, <1>7 DEF Typed, TypeOK
  <2>2. TablesTyped'
    BY <1>3, <1>4, <1>6, <1>7 DEF Typed, TablesTyped
  <2> QED  BY <2>1, <2>2 DEF Typed
<1>11. ReceiptsAreWhole'
  BY <1>2, <1>3, <1>4 DEF ReceiptsAreWhole
<1>12. HighRiskReceipts'
  BY <1>2, <1>3, <1>4, <1>7 DEF History, HighRiskReceipts
<1>13. History'
  BY <1>3, <1>4, <1>7, <1>9, <1>12, HistoryStays
<1>14. ledger.version \in Nat /\ ledger'.version \in Nat
  BY <1>3, <1>4 DEF Safe, LedgerOK, LedgerType
<1>15. ReviewOK(p)'
  BY <1>3, <1>5, <1>6
  DEF ReviewOK, ReadsAreFresh, AnswersAreInOrder, LoneFindsNoAuthority
<1>16. ASSUME NEW q \in Reviewers, q # p
       PROVE  ReviewOK(q)'
  <2>1. ~LoneReview /\ ReviewOK(q) /\ rev'[q] = rev[q]
    BY <1>4, <1>6, <1>16 DEF LoneReview, Locals
  <2> QED  BY <1>4, <1>9, <1>14, <2>1, ReviewUndisturbed
<1>17. \A d \in Deliverers : DeliveryOK(d)'
  BY <1>3, <1>4, <1>7, <1>9, DeliveryUndisturbed DEF Locals
<1>18. Safe(ledger')
  BY <1>3, <1>4
<1> QED
  BY <1>10, <1>11, <1>13, <1>15, <1>16, <1>17, <1>18 DEF IInv, Locals

-----------------------------------------------------------------------------
(* The steps that move the row.                                            *)

\* One event more, which freezes and delivers nothing, while the tables of
\* receipts, approvals and intents stay: the history, the reviews and the
\* deliveries that wait are as sound as before.
LEMMA RowMoves ==
  ASSUME IInv, Safe(ledger'), NEW next, NEW resume, NEW key, NEW art,
         OneLater(ledger, ledger', next, resume, key, art),
         ledger.state \notin Terminal,
         next \notin {"candidate_frozen", "delivered"},
         ledger.state = "replan_required" => next = "aborted",
         ledger.state = "receipted" => next = "aborted",
         next = "replan_required" => \A a \in art : a[1] \in 1..Freezes,
         UNCHANGED <<candidate, receiptTables, approvals, intents>>
  PROVE  /\ History' /\ ReceiptsAreWhole'
         /\ \A p \in Reviewers : rev'[p] = rev[p] => ReviewOK(p)'
         /\ \A d \in Deliverers : del'[d] = del[d] => DeliveryOK(d)'
<1>1. Typed /\ History /\ Locals /\ Safe(ledger) /\ ReceiptsAreWhole
  BY DEF IInv
<1>2. ledger'.state = next /\ ledger'.version = ledger.version + 1
  BY DEF OneLater
<1>3. ledger.version \in Nat /\ ledger'.version \in Nat
  BY <1>1 DEF Safe, LedgerOK, LedgerType
<1>4. Grows /\ AuthorityStays /\ RowStaysOrMoves
  BY <1>2, <1>3 DEF Grows, AuthorityStays, RowStaysOrMoves, receiptTables
<1>5. CandidatesAreCounted' /\ PlansEndForTheirCandidate'
  BY <1>1, HistoryMoves DEF History
<1>6. DeliveriesAreOfTheirReceipt'
  BY <1>2, NoDeliveryYet
<1>7. HighRiskReceipts' /\ ReceiptsAreWhole'
  BY <1>1 DEF History, HighRiskReceipts, ReceiptsAreWhole, receiptTables
<1>8. \A p \in Reviewers : rev'[p] = rev[p] => ReviewOK(p)'
  BY <1>1, <1>3, <1>4, ReviewUndisturbed DEF Locals, receiptTables
<1>9. ledger.state \in {"receipted", "delivered", "aborted"} =>
        /\ ledger'.state \in {"receipted", "delivered", "aborted"}
        /\ candidate' = candidate
  BY <1>2 DEF Terminal
<1>10. \A d \in Deliverers : del'[d] = del[d] => DeliveryOK(d)'
  BY <1>1, <1>4, <1>9, DeliveryUndisturbed DEF Locals
<1> QED  BY <1>5, <1>6, <1>7, <1>8, <1>10 DEF History

\* The types after a step that moves the row and one review.
LEMMA MovedReviewTyped ==
  ASSUME Typed, Safe(ledger'), ReviewKeeps, UNCHANGED receiptTables,
         rev' \in [Reviewers -> ReviewLocals],
         InvocationsTyped', UNCHANGED <<checkpoints, findings>>
  PROVE  Typed'
<1>1. ledger'.state \in States /\ ledger'.version \in Nat
  BY DEF Safe, LedgerOK, LedgerType
<1>2. TypeOK'
  BY <1>1 DEF Typed, TypeOK, ReviewKeeps, receiptTables, git, approvalTables,
              deliveryTables, InvocationsTyped
<1>3. TablesTyped'
  BY DEF Typed, TablesTyped, ReviewKeeps, approvalTables, deliveryTables,
         InvocationsTyped, Invocation
<1> QED  BY <1>2, <1>3 DEF Typed

\* A review that moves the row.
LEMMA ReviewAdvances ==
  ASSUME IInv, Safe(ledger'), NEW next, NEW resume, NEW key, NEW art,
         OneLater(ledger, ledger', next, resume, key, art),
         ledger.state \notin Terminal,
         next \notin {"candidate_frozen", "delivered"},
         ledger.state \notin {"replan_required", "receipted"},
         next = "replan_required" => \A a \in art : a[1] \in 1..Freezes,
         NEW p \in Reviewers, NEW local \in ReviewLocals,
         ReviewBecomes(p, local), ReviewOK(p)', ReviewKeeps,
         UNCHANGED <<receiptTables, checkpoints, findings>>, InvocationsTyped'
  PROVE  IInv'
<1>1. Typed
  BY DEF IInv
<1>2. UNCHANGED <<candidate, receiptTables, approvals, intents, del>>
  BY DEF ReviewKeeps, approvalTables, deliveryTables
<1>3. /\ rev' \in [Reviewers -> ReviewLocals]
      /\ \A q \in Reviewers \ {p} : rev'[q] = rev[q]
  BY <1>1, OneReviewMoves
<1>4. /\ History' /\ ReceiptsAreWhole'
      /\ \A q \in Reviewers : rev'[q] = rev[q] => ReviewOK(q)'
      /\ \A d \in Deliverers : del'[d] = del[d] => DeliveryOK(d)'
  BY <1>2, RowMoves
<1>5. Typed'
  BY <1>1, <1>3, MovedReviewTyped
<1>6. Locals'
  BY <1>2, <1>3, <1>4 DEF Locals
<1> QED  BY <1>4, <1>5, <1>6 DEF IInv

LEMMA ReviewBeginsKeepsIInv ==
  ASSUME IInv, NEW p \in Reviewers, ReviewBegins(p)
  PROVE  IInv'
<1> DEFINE local == [pc |-> "started", version |-> ledger'.version]
<1>1. /\ Typed /\ Safe(ledger) /\ ledger.version \in Nat
      /\ authority = NoReceipt
      /\ ReviewBecomes(p, local) /\ ReviewKeeps
      /\ UNCHANGED <<checkpoints, findings, evidence, receiptTables>>
  BY DEF IInv, ReviewBegins, Safe, LedgerOK, LedgerType
<1>2. InvocationsTyped'
  BY <1>1, ReviewTablesTyped, ReconciledTyped DEF ReviewBegins
<1>3. ASSUME ledger'.version \in Nat, ledger'.state = "reviewing"
      PROVE  local \in ReviewLocals /\ ReviewOK(p)'
  <2>1. local \in ReviewLocals
    BY <1>3 DEF ReviewLocals
  <2>2. rev'[p] = local
    BY <1>1, <2>1, OneReviewMoves
  <2>3. /\ rev'[p].pc = "started" /\ rev'[p].version = ledger'.version
        /\ authority' = NoReceipt
    BY <1>1, <2>2 DEF receiptTables
  <2> QED
    BY <1>3, <2>1, <2>3
    DEF ReviewOK, ReadsAreFresh, AnswersAreInOrder, LoneFindsNoAuthority
<1> HIDE DEF local
<1>4. CASE ledger.state = "reviewing" /\ UNCHANGED ledger
  <2>1. local \in ReviewLocals /\ ReviewOK(p)'
    BY <1>1, <1>3, <1>4
  <2>2. rev' \in [Reviewers -> ReviewLocals]
    BY <1>1, <2>1, OneReviewMoves
  <2>3. Typed'
    BY <1>1, <1>2, <1>4, <2>2, MovedReviewTyped
  <2> QED
    BY <1>1, <1>4, <2>1, <2>3, ReviewGoesOn
    DEF ReviewKeeps, approvalTables, deliveryTables
<1>5. CASE /\ ledger.state = "candidate_frozen"
           /\ ledger' = AfterTransition(ledger,
                Ask(ledger, "reviewing", <<"start", ledger.version>>, {}))
  <2> DEFINE key == <<"start", ledger.version>>
  <2>1. /\ key \in LedgerKeys /\ key \notin EventKeys(ledger)
        /\ key[1] = "start" /\ key[2] = ledger.version /\ key # <<"abort", 0>>
    BY <1>1, StampIsFresh DEF Stamped
  <2>2. /\ {} \in Artifacts /\ "reviewing" \in States \ {"blocked"}
        /\ CanTransition(ledger.state, "reviewing", ledger.resume)
    BY <1>5 DEF Artifacts, States, CanTransition, Forward
  <2> HIDE DEF key
  <2>3. ledger' = AfterTransition(ledger, Ask(ledger, "reviewing", key, {}))
    BY <1>5 DEF key
  <2>4. /\ Safe(ledger') /\ ledger.state \notin Terminal
        /\ ledger'.state = "reviewing" /\ ledger'.version = ledger.version + 1
        /\ OneLater(ledger, ledger', "reviewing", NoState, key, {})
    BY <1>1, <2>1, <2>2, <2>3, AskIsGranted
  <2>5. local \in ReviewLocals /\ ReviewOK(p)'
    BY <1>1, <1>3, <2>4
  <2> QED  BY <1>1, <1>2, <1>5, <2>4, <2>5, ReviewAdvances
<1> QED  BY <1>4, <1>5 DEF ReviewBegins

\* A review that asks for a new plan, and ends whatever the answer is.
LEMMA ReviewAsksForAPlan ==
  ASSUME IInv, NEW p \in Reviewers, NEW name \in {"drift", "severe"},
         NEW v \in Nat, NEW art \in Artifacts,
         ledger.version = v => \A a \in art : a[1] \in 1..Freezes,
         TryTransition(Request("reviewing", v, "replan_required", <<name, v>>,
                               art, NoState)),
         ReviewBecomes(p, Idle), ReviewKeeps,
         UNCHANGED <<reviewTables, receiptTables>>
  PROVE  IInv'
<1>1. PICK req : req = Request("reviewing", v, "replan_required", <<name, v>>,
                               art, NoState)
  OBVIOUS
<1>2. /\ req.expectedState = "reviewing" /\ req.expectedVersion = v
      /\ req.next = "replan_required" /\ req.artifacts = art
      /\ req.key = <<name, v>>
      /\ req \in RequestType(LedgerKeys, Artifacts)
  <2>1. <<name, v>> \in LedgerKeys
    BY DEF LedgerKeys
  <2>2. /\ "reviewing" \in States /\ "replan_required" \in States
        /\ NoState \in ResumeTargets
    BY DEF States, ResumeTargets
  <2> QED  BY <1>1, <2>1, <2>2 DEF Request, RequestType
<1>3. /\ Typed /\ Safe(ledger) /\ InvocationsTyped
      /\ UNCHANGED <<invocations, checkpoints, findings>>
  BY ReviewTablesTyped DEF IInv, reviewTables
<1>4. InvocationsTyped'
  BY <1>3 DEF InvocationsTyped
<1>5. Idle \in ReviewLocals /\ rev'[p] = Idle /\ ReviewOK(p)'
  BY <1>3, IdlesAreLocals, OneReviewMoves, IdleIsFine
<1>6. CASE ledger' = ledger
  BY <1>3, <1>4, <1>6, ReviewRests
<1>7. CASE /\ TransitionError(ledger, req) = "none"
           /\ ledger' = AfterTransition(ledger, req)
  <2>1. /\ req.key[1] \notin {"abort", "delivery"} =>
             req.key[2] = req.expectedVersion
        /\ req.key # <<"abort", 0>>
    BY <1>2
  <2>2. /\ Safe(ledger')
        /\ \/ ledger' = ledger
           \/ /\ CASMatches(ledger, req) /\ ledger.state \notin Terminal
              /\ OneLater(ledger, ledger', req.next, ResumeAfter(ledger, req),
                          req.key, req.artifacts)
    BY <1>2, <1>3, <1>7, <2>1, TransitionIsSafe
  <2>3. CASE /\ CASMatches(ledger, req) /\ ledger.state \notin Terminal
             /\ OneLater(ledger, ledger', req.next, ResumeAfter(ledger, req),
                         req.key, req.artifacts)
    <3>1. ledger.state = "reviewing" /\ ledger.version = v
      BY <1>2, <2>3 DEF CASMatches
    <3> QED
      BY <1>2, <1>3, <1>4, <1>5, <2>2, <2>3, <3>1, ReviewAdvances
  <2> QED  BY <1>6, <2>2, <2>3
<1> QED  BY <1>1, <1>6, <1>7 DEF TryTransition

LEMMA ReviewReadsKeepsIInv ==
  ASSUME IInv, NEW p \in Reviewers, ReviewReads(p)
  PROVE  IInv'
<1>1. /\ Typed /\ Safe(ledger) /\ ReviewOK(p) /\ InvocationsTyped
      /\ CheckpointsTyped /\ rev[p].pc = "started" /\ candidate # 0
      /\ ReviewKeeps /\ UNCHANGED <<reviewTables, receiptTables>>
  BY ReviewTablesTyped DEF IInv, Locals, ReviewReads
<1>2. rev[p].version \in Nat /\ candidate \in Candidates
  <2>1. rev[p] \in ReviewLocals /\ Idle.pc = "idle"
    BY <1>1 DEF Typed, TablesTyped, Idle
  <2>2. rev[p].version \in Nat
    BY <1>1, <2>1 DEF ReviewLocals, Hand
  <2>3. candidate \in 0..MaxCandidates /\ MaxCandidates \in Nat
    BY <1>1, ReviewAssumption DEF Typed, TypeOK
  <2> QED  BY <1>1, <2>2, <2>3 DEF Candidates
<1>3. CASE Drifted(candidate)
  <2>1. {} \in Artifacts
    BY DEF Artifacts
  <2>2. /\ TryTransition(Request("reviewing", rev[p].version,
              "replan_required", <<"drift", rev[p].version>>, {}, NoState))
        /\ ReviewBecomes(p, Idle)
    BY <1>3 DEF ReviewReads
  <2> QED  BY <1>1, <1>2, <2>1, <2>2, ReviewAsksForAPlan
<1>4. CASE ~Drifted(candidate)
  <2> DEFINE local == [pc |-> "invoking", version |-> rev[p].version,
                       cand |-> candidate, plan |-> <<"semantic">>,
                       answers |-> <<>>, answer |-> "absent"]
  <2>1. ReviewBecomes(p, local) /\ UNCHANGED ledger
    BY <1>4 DEF ReviewReads
  <2>2. /\ <<"semantic">> \in Seq(Stages) /\ Len(<<"semantic">>) = 1
        /\ <<>> \in Seq(Risks \cup {"clean", "severe"}) /\ Len(<<>>) = 0
    BY DEF Stages
  <2>3. /\ local \in Hand /\ local.pc = "invoking"
        /\ local.version = rev[p].version /\ local.cand = candidate
        /\ local.plan = <<"semantic">> /\ local.answers = <<>>
    BY <1>2, <2>2 DEF Hand
  <2> HIDE DEF local
  <2>4. local \in ReviewLocals
    BY <2>3 DEF ReviewLocals
  <2>5. rev' \in [Reviewers -> ReviewLocals] /\ rev'[p] = local
    BY <1>1, <2>1, <2>4, OneReviewMoves
  <2>6. ReadsAreFresh(p)'
    BY <1>1, <2>1, <2>3, <2>5 DEF ReviewOK, ReadsAreFresh, ReviewKeeps
  <2>7. AnswersAreInOrder(p)'
    <3>1. /\ rev'[p].pc = "invoking" /\ rev'[p].answers = <<>>
          /\ rev'[p].plan = <<"semantic">>
      BY <2>3, <2>5
    <3>2. Len(rev'[p].answers) <= Len(rev'[p].plan)
      BY <2>2, <3>1
    <3> QED  BY <3>1, <3>2 DEF AnswersAreInOrder
  <2>8. ReviewOK(p)'
    BY <1>1, <2>3, <2>5, <2>6, <2>7
    DEF ReviewOK, LoneFindsNoAuthority, receiptTables
  <2>9. Typed'
    <3>1. InvocationsTyped' /\ CheckpointsTyped'
      BY <1>1 DEF reviewTables, InvocationsTyped, CheckpointsTyped
    <3>2. findings' \subseteq Candidates \X ToSet(Lenses)
      BY <1>1 DEF reviewTables, Typed, TypeOK
    <3> QED  BY <1>1, <2>1, <2>5, <3>1, <3>2, ReviewStepTyped
  <2> QED
    BY <1>1, <2>1, <2>4, <2>8, <2>9, ReviewGoesOn
    DEF ReviewKeeps, approvalTables, deliveryTables
<1> QED  BY <1>3, <1>4

LEMMA ReviewSevereKeepsIInv ==
  ASSUME IInv, NEW p \in Reviewers, ReviewSevere(p)
  PROVE  IInv'
<1> DEFINE art == {<<rev[p].cand, l>> : l \in SevereLenses(p)}
<1>1. /\ Typed /\ ReviewOK(p) /\ CandidatesAreCounted /\ Safe(ledger)
      /\ rev[p].pc = "invoking" /\ Len(rev[p].answers) = Len(rev[p].plan)
      /\ ReviewKeeps /\ UNCHANGED <<reviewTables, receiptTables>>
  BY DEF IInv, Locals, History, ReviewSevere, Complete
<1>2. /\ rev[p].cand \in Candidates /\ rev[p].version \in Nat
      /\ rev[p].plan \in Seq(Stages)
      /\ rev[p].answers \in Seq(Risks \cup {"clean", "severe"})
  BY <1>1, InHand DEF Hand
<1>3. SevereLenses(p) \subseteq Stages
  <2>1. \A i \in DOMAIN rev[p].answers : rev[p].plan[i] \in Stages
    BY <1>1, <1>2
  <2> QED  BY <2>1 DEF SevereLenses
<1>4. art \in Artifacts
  BY <1>2, <1>3 DEF Artifacts
<1>5. ledger.version = rev[p].version => \A a \in art : a[1] \in 1..Freezes
  <2>1. ledger.version = rev[p].version => rev[p].cand = candidate
    BY <1>1 DEF ReviewOK, ReadsAreFresh
  <2>2. Freezes \in Nat
    BY <1>1, FreezesAreFrozen, FreezesAreCounted
  <2>3. candidate \in Candidates => candidate \in 1..Freezes
    BY <1>1, <2>2, ReviewAssumption DEF CandidatesAreCounted, Candidates
  <2> QED  BY <1>2, <2>1, <2>3
<1> HIDE DEF art
<1>6. /\ TryTransition(Request("reviewing", rev[p].version, "replan_required",
            <<"severe", rev[p].version>>, art, NoState))
      /\ ReviewBecomes(p, Idle)
  BY DEF ReviewSevere, art
<1> QED  BY <1>1, <1>2, <1>4, <1>5, <1>6, ReviewAsksForAPlan

LEMMA ReviewReceiptsKeepsIInv ==
  ASSUME IInv, NEW p \in Reviewers, ReviewReceipts(p)
  PROVE  IInv'
<1> DEFINE local == [pc |-> "reported"]
           key == <<"receipted", ledger.version>>
<1>1. PICK req : req = Ask(ledger, "receipted", key, {rev[p].receipt})
  OBVIOUS
<1>2. /\ Typed /\ Safe(ledger) /\ ReviewOK(p) /\ InvocationsTyped
      /\ rev[p].pc = "issued" /\ ReviewKeeps
      /\ TransitionError(ledger, req) = "none"
      /\ ledger' = AfterTransition(ledger, req)
      /\ ReviewBecomes(p, local)
      /\ UNCHANGED <<reviewTables, receiptTables>>
  BY <1>1, ReviewTablesTyped DEF IInv, Locals, ReviewReceipts
<1>3. rev[p].receipt \in ReceiptType
  BY <1>2 DEF ReviewOK, Typed, TypeOK
<1>4. /\ req.expectedVersion = ledger.version /\ req.next = "receipted"
      /\ req.key = key /\ req \in RequestType(LedgerKeys, Artifacts)
  <2>1. key \in LedgerKeys
    BY <1>2, StampIsFresh DEF Stamped
  <2>2. /\ ledger.state \in States /\ ledger.version \in Nat
        /\ "receipted" \in States /\ NoState \in ResumeTargets
    BY <1>2 DEF Safe, LedgerOK, LedgerType, States, ResumeTargets
  <2>3. {rev[p].receipt} \in Artifacts
    BY <1>3 DEF Artifacts
  <2> QED  BY <1>1, <2>1, <2>2, <2>3 DEF Ask, Request, RequestType
<1>5. req.key[1] = "receipted" /\ req.key[2] = ledger.version
  BY <1>4
<1>6. /\ Safe(ledger')
      /\ \/ ledger' = ledger
         \/ /\ IsLegal(ledger, req) /\ ledger.state \notin Terminal
            /\ OneLater(ledger, ledger', req.next, ResumeAfter(ledger, req),
                        req.key, req.artifacts)
  BY <1>2, <1>4, <1>5, TransitionIsSafe
<1>7. local \in ReviewLocals /\ local.pc = "reported" /\ local \in {Idle, local}
  BY IdlesAreLocals
<1>8. ReviewOK(p)'
  BY <1>2, <1>7, OneReviewMoves, IdleIsFine
<1>9. InvocationsTyped' /\ UNCHANGED <<checkpoints, findings>>
  BY <1>2 DEF InvocationsTyped, reviewTables
<1> HIDE DEF key
<1>10. CASE ledger' = ledger
  BY <1>2, <1>7, <1>9, <1>10, ReviewRests
<1>11. CASE /\ IsLegal(ledger, req) /\ ledger.state \notin Terminal
            /\ OneLater(ledger, ledger', req.next, ResumeAfter(ledger, req),
                        req.key, req.artifacts)
  <2>1. ledger.state \notin {"replan_required", "receipted"}
    BY <1>4, <1>11
    DEF IsLegal, CanTransition, Forward, Blockable, Replannable
  <2> QED
    BY <1>2, <1>4, <1>6, <1>7, <1>8, <1>9, <1>11, <2>1, ReviewAdvances
<1> QED  BY <1>6, <1>10, <1>11

-----------------------------------------------------------------------------
(* Approvals, the kill switch and the user.                                *)

\* A step that leaves the ledger, the reviews and the deliveries alone.
LEMMA OthersGoOn ==
  ASSUME IInv, Typed', Grows,
         UNCHANGED <<ledger, candidate, receiptTables, rev, del>>
  PROVE  IInv'
<1>1. Typed /\ History /\ Locals /\ Safe(ledger) /\ ReceiptsAreWhole
  BY DEF IInv
<1>2. AuthorityStays /\ RowStaysOrMoves
  BY DEF AuthorityStays, RowStaysOrMoves, receiptTables
<1>3. HighRiskReceipts'
  <2> SUFFICES ASSUME NEW r \in receipts, r.risk = "high"
               PROVE  approvals'[<<"review", r.cand>>] # "absent"
    BY DEF HighRiskReceipts, receiptTables
  <2>1. approvals[<<"review", r.cand>>] # "absent"
    BY <1>1 DEF History, HighRiskReceipts
  <2>2. <<"review", r.cand>> \in Actions \X Candidates
    BY <1>1, IntentsAreNotNone DEF Typed, TypeOK, Actions
  <2> QED  BY <2>1, <2>2 DEF Grows
<1>4. History'
  BY <1>1, <1>2, <1>3, HistoryStays
<1>5. ledger.version \in Nat /\ ledger'.version \in Nat
  BY <1>1 DEF Safe, LedgerOK, LedgerType
<1>6. Locals'
  BY <1>1, <1>2, <1>5, ReviewUndisturbed, DeliveryUndisturbed
  DEF Locals, receiptTables
<1> QED  BY <1>1, <1>4, <1>6 DEF IInv, ReceiptsAreWhole, receiptTables

\* The types after a step on the approvals.
LEMMA ApprovalStepTyped ==
  ASSUME Typed, ApprovalKeeps,
         approvals' \in
           [Actions \X Candidates -> {"absent", "valid", "expired"}],
         current' \in [Actions -> 0..MaxCandidates]
  PROVE  Typed'
<1>1. TypeOK'
  BY DEF Typed, TypeOK, ApprovalKeeps, git, reviewTables, receiptTables,
         deliveryTables
<1>2. TablesTyped'
  BY DEF Typed, TablesTyped, ApprovalKeeps, reviewTables, deliveryTables
<1> QED  BY <1>1, <1>2 DEF Typed

LEMMA ApprovalStepKeepsIInv ==
  ASSUME IInv, ApprovalKeeps, Typed',
         \A a \in Actions \X Candidates :
           approvals[a] # "absent" => approvals'[a] # "absent"
  PROVE  IInv'
<1>1. Grows
  BY DEF Grows, ApprovalKeeps, receiptTables, deliveryTables
<1> QED  BY <1>1, OthersGoOn DEF ApprovalKeeps

LEMMA ApproveKeepsIInv ==
  ASSUME IInv, NEW a \in Actions, Approve(a)
  PROVE  IInv'
<1>1. /\ Typed /\ candidate \in 0..MaxCandidates /\ candidate # 0
      /\ ApprovalKeeps /\ MaxCandidates \in Nat
  BY ReviewAssumption DEF IInv, Typed, TypeOK, Approve
<1>2. /\ approvals' = [approvals EXCEPT ![<<a, candidate>>] =
            IF approvals[<<a, candidate>>] = "absent" THEN "valid"
            ELSE approvals[<<a, candidate>>]]
      /\ current' = [current EXCEPT ![a] = candidate]
  BY DEF Approve, IssueApproval
<1>3. <<a, candidate>> \in Actions \X Candidates
  BY <1>1 DEF Candidates
<1>4. /\ approvals' \in
           [Actions \X Candidates -> {"absent", "valid", "expired"}]
      /\ \A b \in Actions \X Candidates :
           approvals[b] # "absent" => approvals'[b] # "absent"
  BY <1>1, <1>2, <1>3 DEF Typed, TablesTyped
<1>5. current' \in [Actions -> 0..MaxCandidates]
  BY <1>1, <1>2 DEF Typed, TablesTyped
<1> QED  BY <1>1, <1>4, <1>5, ApprovalStepTyped, ApprovalStepKeepsIInv

LEMMA RevokeApprovalKeepsIInv ==
  ASSUME IInv, NEW a \in Actions, RevokeApproval(a)
  PROVE  IInv'
<1>1. Typed /\ ApprovalKeeps /\ approvals' = approvals
  BY DEF IInv, RevokeApproval
<1>2. current' \in [Actions -> 0..MaxCandidates]
  BY <1>1, ReviewAssumption DEF Typed, TablesTyped, RevokeApproval
<1>3. approvals' \in [Actions \X Candidates -> {"absent", "valid", "expired"}]
  BY <1>1 DEF Typed, TablesTyped
<1> QED  BY <1>1, <1>2, <1>3, ApprovalStepTyped, ApprovalStepKeepsIInv

LEMMA ExpireKeepsIInv ==
  ASSUME IInv, NEW a \in Actions, NEW c \in Candidates, Expire(a, c)
  PROVE  IInv'
<1>1. Typed /\ ApprovalKeeps /\ current' = current
  BY DEF IInv, Expire
<1>2. <<a, c>> \in Actions \X Candidates
  OBVIOUS
<1>3. /\ approvals' \in
           [Actions \X Candidates -> {"absent", "valid", "expired"}]
      /\ \A b \in Actions \X Candidates :
           approvals[b] # "absent" => approvals'[b] # "absent"
  BY <1>1, <1>2 DEF Typed, TablesTyped, Expire
<1>4. current' \in [Actions -> 0..MaxCandidates]
  BY <1>1 DEF Typed, TablesTyped
<1> QED  BY <1>1, <1>3, <1>4, ApprovalStepTyped, ApprovalStepKeepsIInv

LEMMA AbortCleanupKeepsIInv ==
  ASSUME IInv, AbortCleanup
  PROVE  IInv'
<1>1. /\ Typed /\ InvocationsTyped
      /\ UNCHANGED <<ledger, candidate, git, checkpoints, findings, evidence,
                     receiptTables, approvals, deliveryTables, rev, del>>
      /\ invocations' = [c \in Candidates |-> [s \in Stages |->
           IF invocations[c][s] \in Reviewers THEN "cancelled"
           ELSE invocations[c][s]]]
      /\ current' = [a \in Actions |-> 0]
  BY ReviewTablesTyped DEF IInv, AbortCleanup
<1>2. InvocationsTyped'
  <2>1. "cancelled" \in Statuses
    BY DEF Statuses
  <2>2. \A c \in Candidates, s \in Stages :
          invocations'[c][s] \in {"cancelled", invocations[c][s]}
    BY <1>1
  <2>3. invocations' \in [Candidates -> [Stages -> Invocation]]
    <3>1. \A c \in Candidates, s \in Stages :
            invocations[c][s] \in Invocation /\ "cancelled" \in Invocation
      BY <1>1, <2>1 DEF InvocationsTyped, Invocation
    <3> QED  BY <1>1, <3>1
  <2> QED  BY <1>1, <2>1, <2>2, <2>3 DEF InvocationsTyped
<1>3. current' \in [Actions -> 0..MaxCandidates]
  BY <1>1, ReviewAssumption
<1>4. TypeOK'
  BY <1>1, <1>2, <1>3
  DEF Typed, TypeOK, git, receiptTables, deliveryTables, InvocationsTyped
<1>5. TablesTyped'
  BY <1>1, <1>2, <1>3
  DEF Typed, TablesTyped, deliveryTables, InvocationsTyped, Invocation
<1>6. Grows
  BY <1>1 DEF Grows, receiptTables, deliveryTables
<1> QED  BY <1>1, <1>4, <1>5, <1>6, OthersGoOn DEF Typed

LEMMA UserActsKeepsIInv ==
  ASSUME IInv, UserActs
  PROVE  IInv'
<1>1. /\ Typed /\ foreign' \in 0..MaxForeign
      /\ tree' \in 0..MaxCandidates
      /\ ref' \in {Base, Foreign} \cup {Commit(n) : n \in 1..MaxCommits}
      /\ UNCHANGED <<ledger, candidate, reviewTables, receiptTables,
                     approvalTables, deliveryTables, rev, del>>
  <2>1. Typed /\ MaxForeign \in Nat /\ MaxCandidates \in Nat
    BY ReviewAssumption DEF IInv
  <2> QED  BY <2>1 DEF UserActs, Typed, TypeOK
<1>2. TypeOK'
  BY <1>1 DEF Typed, TypeOK, reviewTables, receiptTables, approvalTables,
              deliveryTables
<1>3. TablesTyped'
  BY <1>1 DEF Typed, TablesTyped, reviewTables, approvalTables, deliveryTables
<1>4. Grows
  BY <1>1 DEF Grows, receiptTables, approvalTables, deliveryTables
<1> QED  BY <1>1, <1>2, <1>3, <1>4, OthersGoOn DEF Typed

LEMMA AbortKeepsIInv ==
  ASSUME IInv, Abort
  PROVE  IInv'
<1> DEFINE key == <<"abort", 0>>
<1>1. /\ Typed /\ Safe(ledger) /\ ledger.state \notin Terminal
      /\ ledger' = AfterTransition(ledger, Ask(ledger, "aborted", key, {}))
      /\ UNCHANGED <<candidate, git, reviewTables, receiptTables,
                     approvalTables, deliveryTables, rev, del>>
  BY DEF IInv, Abort
<1>2. key \in LedgerKeys /\ key \notin EventKeys(ledger) /\ key[1] = "abort"
  BY <1>1 DEF LedgerKeys, Safe, Accounted, Terminal
<1>3. /\ {} \in Artifacts /\ "aborted" \in States \ {"blocked"}
      /\ CanTransition(ledger.state, "aborted", ledger.resume)
  BY <1>1 DEF Artifacts, States, CanTransition, NonTerminal, Safe, LedgerOK,
              LedgerType
<1> HIDE DEF key
<1>4. /\ Safe(ledger')
      /\ OneLater(ledger, ledger', "aborted", NoState, key, {})
  BY <1>1, <1>2, <1>3, AskIsGranted
<1>5. /\ History' /\ ReceiptsAreWhole' /\ Locals'
  BY <1>1, <1>4, RowMoves DEF Locals, approvalTables, deliveryTables
<1>6. ledger'.state \in States /\ ledger'.version \in Nat
  BY <1>4 DEF Safe, LedgerOK, LedgerType
<1>7. Typed'
  BY <1>1, <1>6 DEF Typed, TypeOK, TablesTyped, git, reviewTables,
     receiptTables, approvalTables, deliveryTables
<1> QED  BY <1>4, <1>5, <1>7 DEF IInv

-----------------------------------------------------------------------------
(* A new plan and its candidate.                                           *)

\* While the workflow is to be planned or ready, no delivery is under way.
LEMMA NoDeliveryUnderWay ==
  ASSUME IInv, ledger.state \in {"replan_required", "ready"},
         NEW d \in Deliverers
  PROVE  del[d] = Idle
  BY DEF IInv, Locals, DeliveryOK

LEMMA ReplanKeepsIInv ==
  ASSUME IInv, Replan
  PROVE  IInv'
<1> DEFINE key == <<"replan", ledger.version>>
<1>1. /\ Typed /\ History /\ Locals /\ Safe(ledger) /\ ReceiptsAreWhole
      /\ ledger.state = "replan_required" /\ Freezes < MaxCandidates
      /\ ledger' = Advance(ledger, "ready", NoState, key, {})
      /\ candidate' = 0 /\ authority' = NoReceipt
      /\ current' = [a \in Actions |-> 0]
      /\ UNCHANGED <<git, reviewTables, receipts, approvals, deliveryTables,
                     rev, del>>
  BY DEF IInv, Replan, RevokeForReplan
<1>2. /\ key \in LedgerKeys /\ key \notin EventKeys(ledger)
      /\ key[1] = "replan" /\ key[2] = ledger.version /\ key # <<"abort", 0>>
  BY <1>1, StampIsFresh DEF Stamped
<1>3. /\ {} \in Artifacts /\ "ready" \in States /\ NoState \in ResumeTargets
      /\ CanTransition(ledger.state, "ready", ledger.resume)
      /\ ledger.state \notin Terminal
  BY <1>1 DEF Artifacts, States, ResumeTargets, CanTransition, Forward, Terminal
<1> HIDE DEF key
<1>4. MayAdvance(ledger, "ready", NoState, key)
  BY <1>2, <1>3 DEF MayAdvance
<1>5. LedgerOK(ledger', LedgerKeys, Artifacts) /\ IdemAgrees(ledger')
  BY <1>1, <1>2, <1>3, <1>4, AdvanceKeepsLedger, AdvanceKeepsIdem DEF Safe
<1>6. OneLater(ledger, ledger', "ready", NoState, key, {})
  BY <1>1, <1>2, <1>3, AdvanceAddsOne DEF Safe, LedgerOK
<1>7. Safe(ledger')
  BY <1>1, <1>2, <1>3, <1>5, <1>6, OneMoreIsAccounted DEF Safe
<1>8. /\ ledger'.state = "ready" /\ ledger'.version = ledger.version + 1
      /\ ledger.version \in Nat /\ ledger'.version \in Nat
  BY <1>1, <1>6 DEF OneLater, Safe, LedgerOK, LedgerType
<1>9. CandidatesAreCounted' /\ PlansEndForTheirCandidate'
  BY <1>1, <1>3, <1>6, <1>7, HistoryMoves DEF History
<1>10. DeliveriesAreOfTheirReceipt' /\ HighRiskReceipts' /\ ReceiptsAreWhole'
  BY <1>1, <1>7, <1>8, NoDeliveryYet
  DEF History, HighRiskReceipts, ReceiptsAreWhole
<1>11. Grows /\ RowStaysOrMoves
  BY <1>1, <1>8 DEF Grows, RowStaysOrMoves, deliveryTables
<1>12. \A p \in Reviewers : ReviewOK(p)'
  BY <1>1, <1>8, <1>11, ReviewUndisturbed DEF Locals
<1>13. \A d \in Deliverers : DeliveryOK(d)'
  BY <1>1, NoDeliveryUnderWay DEF DeliveryOK
<1>14. Typed'
  <2>1. current' \in [Actions -> 0..MaxCandidates] /\ 0 \in 0..MaxCandidates
    BY <1>1, ReviewAssumption
  <2>2. TypeOK'
    BY <1>1, <1>8, <2>1 DEF Typed, TypeOK, git, reviewTables, deliveryTables,
                            States
  <2>3. TablesTyped'
    BY <1>1, <2>1 DEF Typed, TablesTyped, reviewTables, deliveryTables
  <2> QED  BY <2>2, <2>3 DEF Typed
<1> QED
  BY <1>7, <1>9, <1>10, <1>12, <1>13, <1>14 DEF IInv, History, Locals

LEMMA RefreezeKeepsIInv ==
  ASSUME IInv, Refreeze
  PROVE  IInv'
<1>1. /\ Typed /\ History /\ Locals /\ Safe(ledger) /\ ReceiptsAreWhole
      /\ ledger.state = "ready" /\ candidate = 0
      /\ candidate' = Freezes + 1 /\ tree' = Freezes + 1
      /\ ledger' = Freeze(ledger)
      /\ UNCHANGED <<ref, foreign, reviewTables, receiptTables, approvalTables,
                     deliveryTables, rev, del>>
  BY DEF IInv, Refreeze
<1>2. /\ Safe(ledger') /\ ledger'.state = "candidate_frozen"
      /\ ledger'.version = ledger.version + 3
      /\ Len(ledger'.events) = Len(ledger.events) + 3
      /\ \A i \in 1..Len(ledger.events) : ledger'.events[i] = ledger.events[i]
      /\ \A i \in 1..Len(ledger'.events) : i \in 1..Len(ledger.events) \/
           ledger'.events[i].to \in {"executing", "verifying",
                                     "candidate_frozen"}
      /\ Cardinality(FrozenIn(ledger')) = Cardinality(FrozenIn(ledger)) + 1
  BY <1>1, FreezeIsSafe
<1>3. Freezes' = Freezes + 1 /\ Freezes \in Nat
  <2>1. Freezes' = Cardinality(FrozenIn(ledger'))
    BY DEF Freezes, FrozenIn
  <2> QED  BY <1>1, <1>2, <2>1, FreezesAreFrozen, FreezesAreCounted
<1>4. candidate' \in 1..MaxCandidates /\ tree' \in 0..MaxCandidates
  BY <1>1, <1>3, ReviewAssumption DEF History, CandidatesAreCounted
<1>5. CandidatesAreCounted'
  BY <1>1, <1>3, <1>4 DEF CandidatesAreCounted
<1>6. PlansEndForTheirCandidate'
  <2> SUFFICES ASSUME NEW i \in 1..Len(ledger'.events),
                      ledger'.events[i].to = "replan_required",
                      NEW a \in ledger'.events[i].artifacts
               PROVE  a[1] \in 1..(Freezes + 1) /\ a[1] # candidate'
    BY <1>3 DEF PlansEndForTheirCandidate
  <2>1. i \in 1..Len(ledger.events) /\ ledger'.events[i] = ledger.events[i]
    BY <1>2
  <2>2. a[1] \in 1..Freezes
    BY <1>1, <2>1 DEF History, PlansEndForTheirCandidate
  <2> QED  BY <1>1, <1>3, <2>2
<1>7. DeliveriesAreOfTheirReceipt' /\ HighRiskReceipts' /\ ReceiptsAreWhole'
  BY <1>1, <1>2, NoDeliveryYet
  DEF History, HighRiskReceipts, ReceiptsAreWhole, receiptTables, approvalTables
<1>8. ledger.version \in Nat /\ ledger'.version \in Nat
  BY <1>1, <1>2 DEF Safe, LedgerOK, LedgerType
<1>9. Grows /\ RowStaysOrMoves
  BY <1>1, <1>2, <1>8 DEF Grows, RowStaysOrMoves, receiptTables, approvalTables,
                          deliveryTables
<1>10. \A p \in Reviewers : ReviewOK(p)'
  BY <1>1, <1>8, <1>9, ReviewUndisturbed DEF Locals, receiptTables
<1>11. \A d \in Deliverers : DeliveryOK(d)'
  BY <1>1, NoDeliveryUnderWay DEF DeliveryOK
<1>12. Typed'
  <2>1. candidate' \in 0..MaxCandidates
    BY <1>4, ReviewAssumption
  <2>2. ledger'.state \in States
    BY <1>2 DEF States
  <2>3. TypeOK'
    BY <1>1, <1>4, <1>8, <2>1, <2>2
    DEF Typed, TypeOK, reviewTables, receiptTables, approvalTables,
        deliveryTables
  <2>4. TablesTyped'
    BY <1>1 DEF Typed, TablesTyped, reviewTables, approvalTables,
                deliveryTables
  <2> QED  BY <2>3, <2>4 DEF Typed
<1> QED
  BY <1>2, <1>5, <1>6, <1>7, <1>10, <1>11, <1>12 DEF IInv, History, Locals

-----------------------------------------------------------------------------
(* Deliveries.                                                             *)

\* What a delivery that is under way has in hand.
LEMMA InDelivery ==
  ASSUME IInv, NEW d \in Deliverers,
         del[d].pc \in {"gate", "built", "moving", "moved"}
  PROVE  /\ del[d] # Idle
         /\ del[d] \in [pc : {"gate", "built", "moving", "moved"}, key : Keys,
                        receipt : ReceiptType, record : Candidates,
                        intent : IntentType \cup {NoIntent}]
         /\ ledger.state \in {"receipted", "delivered", "aborted"}
         /\ del[d].record = candidate /\ candidate \in Candidates
         /\ del[d].receipt \in receipts
         /\ LoneReview => del[d].receipt = authority
         /\ del[d].receipt.risk = "high" =>
              approvals[<<"delivery", del[d].receipt.cand>>] # "absent"
         /\ del[d].pc # "gate" =>
              /\ del[d].receipt.cand = candidate
              /\ del[d].intent \in IntentType
              /\ del[d].intent.cand = candidate
         /\ del[d].pc \in {"moving", "moved"} =>
              intents[del[d].key] = del[d].intent
<1>1. del[d] # Idle
  BY IdlesAreLocals
<1>2. del[d] \in [pc : {"gate", "built", "moving", "moved"}, key : Keys,
                  receipt : ReceiptType, record : Candidates,
                  intent : IntentType \cup {NoIntent}]
  BY <1>1 DEF IInv, Typed, TablesTyped, DeliveryLocals
<1>3. del[d].record \in Candidates
  BY <1>2
<1> QED  BY <1>1, <1>2, <1>3 DEF IInv, Locals, DeliveryOK

\* What a step of a delivery may write, of what is typed.
LEMMA DeliveryStepTyped ==
  ASSUME Typed, DeliveryKeeps, UNCHANGED ledger,
         ref' \in {Base, Foreign} \cup {Commit(n) : n \in 1..MaxCommits},
         commits' \in 0..MaxCommits,
         intents' \in [Keys -> IntentType \cup {NoIntent}],
         del' \in [Deliverers -> DeliveryLocals]
  PROVE  Typed'
<1>1. TypeOK'
  BY DEF Typed, TypeOK, DeliveryKeeps, reviewTables, receiptTables,
         approvalTables
<1>2. TablesTyped'
  BY DEF Typed, TablesTyped, DeliveryKeeps, reviewTables, approvalTables
<1> QED  BY <1>1, <1>2 DEF Typed

\* A step of a delivery other than its last: its hand stays sound.
LEMMA DeliveryHasInHand ==
  ASSUME IInv, NEW d \in Deliverers, NEW local \in DeliveryLocals,
         DeliveryBecomes(d, local), DeliveryKeeps, UNCHANGED ledger,
         ref' \in {Base, Foreign} \cup {Commit(n) : n \in 1..MaxCommits},
         commits' \in 0..MaxCommits,
         intents' \in [Keys -> IntentType \cup {NoIntent}],
         \A k \in Keys : intents[k] # NoIntent => intents'[k] = intents[k],
         del'[d] = local => DeliveryOK(d)'
  PROVE  IInv'
<1>1. Typed
  BY DEF IInv
<1>2. del' \in [Deliverers -> DeliveryLocals] /\ del'[d] = local
  BY <1>1, OneDeliveryMoves
<1>3. Typed'
  BY <1>1, <1>2, DeliveryStepTyped
<1>4. Grows
  BY DEF Grows, DeliveryKeeps, receiptTables, approvalTables
<1> QED
  BY <1>2, <1>3, <1>4, DeliveryGoesOn DEF DeliveryKeeps, approvalTables

\* The types a delivery's step finds.
LEMMA DeliveryTablesTyped ==
  ASSUME IInv
  PROVE  /\ ref \in {Base, Foreign} \cup {Commit(n) : n \in 1..MaxCommits}
         /\ commits \in 0..MaxCommits /\ MaxCommits \in Nat
         /\ intents \in [Keys -> IntentType \cup {NoIntent}]
  BY ReviewAssumption DEF IInv, Typed, TypeOK, TablesTyped

LEMMA DeliverStopsKeepsIInv ==
  ASSUME IInv, NEW d \in Deliverers, DeliverStops(d)
  PROVE  IInv'
<1>1. del'[d] = Idle => DeliveryOK(d)'
  BY DEF DeliveryOK
<1> QED
  BY <1>1, IdlesAreLocals, DeliveryTablesTyped, DeliveryHasInHand
  DEF DeliverStops, deliveryTables

LEMMA DeliverBeginsKeepsIInv ==
  ASSUME IInv, NEW d \in Deliverers, NEW k \in Keys, DeliverBegins(d, k)
  PROVE  IInv'
<1> DEFINE local == [pc |-> "gate", key |-> k, receipt |-> authority,
                     record |-> candidate, intent |-> NoIntent]
<1>1. /\ ledger.state = "receipted" /\ authority # NoReceipt /\ candidate # 0
      /\ authority.risk = "high" => Approved("delivery", authority.cand)
      /\ DeliveryBecomes(d, local) /\ DeliveryKeeps
      /\ UNCHANGED <<ledger, ref, deliveryTables>>
  BY DEF DeliverBegins
<1>2. /\ authority \in receipts /\ authority \in ReceiptType
      /\ candidate \in Candidates
  BY <1>1, ReviewAssumption DEF IInv, Typed, TypeOK, Candidates
<1>3. local \in DeliveryLocals
  BY <1>2 DEF DeliveryLocals
<1>4. /\ local.pc = "gate" /\ local.receipt = authority
      /\ local.record = candidate
  OBVIOUS
<1> HIDE DEF local
<1>5. authority.risk = "high" =>
        approvals[<<"delivery", authority.cand>>] # "absent"
  BY <1>1 DEF Approved
<1>6. UNCHANGED <<candidate, receipts, authority, approvals, intents, commits>>
  BY <1>1 DEF DeliveryKeeps, receiptTables, approvalTables, deliveryTables
<1>7. del'[d] = local => DeliveryOK(d)'
  BY <1>1, <1>2, <1>4, <1>5, <1>6 DEF DeliveryOK
<1> QED
  BY <1>1, <1>3, <1>6, <1>7, DeliveryTablesTyped, DeliveryHasInHand

\* A delivery that has its intent in hand.
LEMMA DeliveryHasIntent ==
  ASSUME IInv, NEW d \in Deliverers,
         del[d].pc \in {"gate", "built", "moving"},
         NEW pc \in {"built", "moving", "moved"}, NEW intent \in IntentType,
         intent.cand = candidate, del[d].receipt.cand = candidate,
         DeliveryBecomes(d, [del[d] EXCEPT !.pc = pc, !.intent = intent]),
         DeliveryKeeps, UNCHANGED ledger,
         ref' \in {Base, Foreign} \cup {Commit(n) : n \in 1..MaxCommits},
         commits' \in 0..MaxCommits,
         intents' \in [Keys -> IntentType \cup {NoIntent}],
         \A k \in Keys : intents[k] # NoIntent => intents'[k] = intents[k],
         pc # "built" => intents'[del[d].key] = intent
  PROVE  IInv'
<1> DEFINE local == [del[d] EXCEPT !.pc = pc, !.intent = intent]
<1>1. /\ del[d] \in [pc : {"gate", "built", "moving", "moved"}, key : Keys,
                     receipt : ReceiptType, record : Candidates,
                     intent : IntentType \cup {NoIntent}]
      /\ ledger.state \in {"receipted", "delivered", "aborted"}
      /\ del[d].record = candidate /\ del[d].receipt \in receipts
      /\ LoneReview => del[d].receipt = authority
      /\ del[d].receipt.risk = "high" =>
           approvals[<<"delivery", del[d].receipt.cand>>] # "absent"
  BY InDelivery
<1>2. /\ local \in DeliveryLocals /\ local.pc = pc /\ local.intent = intent
      /\ local.key = del[d].key /\ local.receipt = del[d].receipt
      /\ local.record = del[d].record
  BY <1>1 DEF DeliveryLocals
<1>3. DeliveryBecomes(d, local)
  OBVIOUS
<1> HIDE DEF local
<1>4. UNCHANGED <<candidate, receipts, authority, approvals>>
  BY DEF DeliveryKeeps, receiptTables, approvalTables
<1>5. del'[d] = local => DeliveryOK(d)'
  BY <1>1, <1>2, <1>4 DEF DeliveryOK
<1> QED  BY <1>2, <1>3, <1>5, DeliveryHasInHand

LEMMA GateCommitsKeepsIInv ==
  ASSUME IInv, NEW d \in Deliverers, GateCommits(d)
  PROVE  IInv'
<1> DEFINE intent == [cand |-> del[d].record, commit |-> commits + 1]
<1>1. /\ del[d].pc = "gate" /\ GateAdmits(d)
      /\ commits < MaxCommits /\ commits' = commits + 1
      /\ DeliveryBecomes(d, [del[d] EXCEPT !.pc = "built", !.intent = intent])
      /\ DeliveryKeeps /\ UNCHANGED <<ledger, ref, intents>>
  BY DEF GateCommits
<1>2. del[d].record = candidate /\ candidate \in Candidates
  BY <1>1, InDelivery
<1>3. intent \in IntentType /\ intent.cand = candidate
  BY <1>1, <1>2, DeliveryTablesTyped DEF IntentType
<1>4. del[d].receipt.cand = candidate
  BY <1>1, <1>2 DEF GateAdmits
<1>5. commits' \in 0..MaxCommits
  BY <1>1, DeliveryTablesTyped
<1> HIDE DEF intent
<1> QED
  BY <1>1, <1>3, <1>4, <1>5, DeliveryTablesTyped, DeliveryHasIntent

LEMMA PutIntentKeepsIInv ==
  ASSUME IInv, NEW d \in Deliverers, PutIntent(d)
  PROVE  IInv'
<1>1. PICK intent : intent = del[d].intent
  OBVIOUS
<1>2. /\ del[d].pc = "built" /\ intents[del[d].key] = NoIntent
      /\ intents' = [intents EXCEPT ![del[d].key] = intent]
      /\ DeliveryBecomes(d, [del[d] EXCEPT !.pc = "moving"])
      /\ DeliveryKeeps /\ UNCHANGED <<ledger, ref, commits>>
  BY <1>1 DEF PutIntent
<1>3. /\ del[d] \in [pc : {"gate", "built", "moving", "moved"}, key : Keys,
                     receipt : ReceiptType, record : Candidates,
                     intent : IntentType \cup {NoIntent}]
      /\ del[d].receipt.cand = candidate
      /\ intent \in IntentType /\ intent.cand = candidate
  BY <1>1, <1>2, InDelivery
<1>4. /\ del[d].key \in Keys
      /\ [del[d] EXCEPT !.pc = "moving"] =
           [del[d] EXCEPT !.pc = "moving", !.intent = intent]
  BY <1>1, <1>3
<1>5. /\ intents' \in [Keys -> IntentType \cup {NoIntent}]
      /\ intents'[del[d].key] = intent
      /\ \A k \in Keys : intents[k] # NoIntent => intents'[k] = intents[k]
  BY <1>2, <1>3, <1>4, DeliveryTablesTyped
<1> QED
  BY <1>2, <1>3, <1>4, <1>5, DeliveryTablesTyped, DeliveryHasIntent

LEMMA GateRecoversKeepsIInv ==
  ASSUME IInv, NEW d \in Deliverers, GateRecovers(d)
  PROVE  IInv'
<1>1. PICK intent : intent = intents[del[d].key]
  OBVIOUS
<1>2. PICK pc : pc = IF ref = Base THEN "moving" ELSE "moved"
  OBVIOUS
<1>3. /\ del[d].pc = "gate" /\ GateAdmits(d)
      /\ intent # NoIntent /\ intent.cand = del[d].record
      /\ DeliveryBecomes(d, [del[d] EXCEPT !.pc = pc, !.intent = intent])
      /\ DeliveryKeeps /\ UNCHANGED <<ledger, ref, deliveryTables>>
  BY <1>1, <1>2 DEF GateRecovers
<1>4. /\ del[d].record = candidate /\ del[d].key \in Keys
      /\ pc \in {"built", "moving", "moved"}
  BY <1>2, <1>3, InDelivery
<1>5. intent \in IntentType
  BY <1>1, <1>3, <1>4, DeliveryTablesTyped
<1>6. del[d].receipt.cand = candidate
  BY <1>3, <1>4 DEF GateAdmits
<1>7. commits' = commits /\ intents' = intents
  BY <1>3 DEF deliveryTables
<1> QED
  BY <1>1, <1>3, <1>4, <1>5, <1>6, <1>7, DeliveryTablesTyped,
     DeliveryHasIntent

LEMMA MoveRefKeepsIInv ==
  ASSUME IInv, NEW d \in Deliverers, MoveRef(d)
  PROVE  IInv'
<1>1. PICK intent : intent = del[d].intent
  OBVIOUS
<1>2. /\ del[d].pc = "moving" /\ ref' = Commit(intent.commit)
      /\ DeliveryBecomes(d, [del[d] EXCEPT !.pc = "moved"])
      /\ DeliveryKeeps /\ UNCHANGED <<ledger, deliveryTables>>
  BY <1>1 DEF MoveRef
<1>3. /\ del[d] \in [pc : {"gate", "built", "moving", "moved"}, key : Keys,
                     receipt : ReceiptType, record : Candidates,
                     intent : IntentType \cup {NoIntent}]
      /\ del[d].receipt.cand = candidate
      /\ intent \in IntentType /\ intent.cand = candidate
      /\ intents[del[d].key] = intent
  BY <1>1, <1>2, InDelivery
<1>4. [del[d] EXCEPT !.pc = "moved"] =
        [del[d] EXCEPT !.pc = "moved", !.intent = intent]
  BY <1>1, <1>3
<1>5. ref' \in {Base, Foreign} \cup {Commit(n) : n \in 1..MaxCommits}
  BY <1>2, <1>3 DEF IntentType
<1>6. commits' = commits /\ intents' = intents
  BY <1>2 DEF deliveryTables
<1> QED
  BY <1>2, <1>3, <1>4, <1>5, <1>6, DeliveryTablesTyped, DeliveryHasIntent

\* A receipt is no intent.
LEMMA IntentIsNoReceipt ==
  ASSUME NEW x \in IntentType
  PROVE  x \notin ReceiptType
<1>1. DOMAIN x = {"cand", "commit"}
  BY DEF IntentType
<1>2. \A y \in ReceiptType : DOMAIN y = {"cand", "risk", "answers"}
  BY DEF ReceiptType
<1>3. "risk" \notin {"cand", "commit"}
  OBVIOUS
<1> QED  BY <1>1, <1>2, <1>3

LEMMA DeliverEndsKeepsIInv ==
  ASSUME IInv, NEW d \in Deliverers, DeliverEnds(d)
  PROVE  IInv'
<1> DEFINE r == del[d].receipt
           intent == del[d].intent
           k == del[d].key
           key == <<"delivery", del[d].key>>
           art == {del[d].receipt, del[d].intent}
<1>1. PICK req : req = Request("receipted", ledger.version, "delivered", key,
                               art, NoState)
  OBVIOUS
<1>2. /\ Typed /\ History /\ Locals /\ Safe(ledger) /\ ReceiptsAreWhole
      /\ del[d].pc = "moved" /\ TransitionError(ledger, req) = "none"
      /\ ledger' = AfterTransition(ledger, req)
      /\ DeliveryBecomes(d, Idle) /\ DeliveryKeeps
      /\ UNCHANGED <<ref, deliveryTables>>
  BY <1>1 DEF IInv, DeliverEnds
<1>3. /\ k \in Keys /\ r \in receipts /\ r \in ReceiptType
      /\ r.cand = candidate /\ (LoneReview => r = authority)
      /\ r.risk = "high" => approvals[<<"delivery", r.cand>>] # "absent"
      /\ intent \in IntentType /\ intent.cand = candidate
      /\ intents[k] = intent
  BY <1>2, InDelivery
<1>4. /\ UNCHANGED <<candidate, receipts, authority, approvals, intents, rev>>
      /\ UNCHANGED <<tree, ref, foreign, reviewTables, current, commits>>
  BY <1>2 DEF DeliveryKeeps, receiptTables, approvalTables, deliveryTables
<1>5. /\ req.expectedState = "receipted"
      /\ req.expectedVersion = ledger.version /\ req.next = "delivered"
      /\ req.key = key /\ req.artifacts = art
      /\ req \in RequestType(LedgerKeys, Artifacts)
  <2>1. key \in LedgerKeys
    BY <1>3 DEF LedgerKeys
  <2>2. art \in Artifacts
    BY <1>3 DEF Artifacts
  <2>3. /\ "receipted" \in States /\ "delivered" \in States
        /\ NoState \in ResumeTargets /\ ledger.version \in Nat
    BY <1>2 DEF States, ResumeTargets, Safe, LedgerOK, LedgerType
  <2> HIDE DEF key, art
  <2> QED  BY <1>1, <2>1, <2>2, <2>3 DEF Request, RequestType
<1>6. req.key[1] = "delivery" /\ req.key # <<"abort", 0>>
  BY <1>5
<1> HIDE DEF key, art, r, intent, k
<1>7. /\ Safe(ledger')
      /\ \/ ledger' = ledger
         \/ /\ CASMatches(ledger, req) /\ ledger.state \notin Terminal
            /\ OneLater(ledger, ledger', "delivered", ResumeAfter(ledger, req),
                        key, art)
  BY <1>2, <1>5, <1>6, TransitionIsSafe
<1>8. /\ Idle \in DeliveryLocals /\ del' \in [Deliverers -> DeliveryLocals]
      /\ del'[d] = Idle
      /\ \A e \in Deliverers \ {d} : del'[e] = del[e]
  BY <1>2, IdlesAreLocals, OneDeliveryMoves
<1>9. DeliveryOK(d)'
  BY <1>8 DEF DeliveryOK
<1>10. CASE ledger' = ledger
  <2>1. \A j \in Keys : intents[j] # NoIntent => intents'[j] = intents[j]
    BY <1>4
  <2> QED
    BY <1>2, <1>4, <1>8, <1>9, <1>10, <2>1, DeliveryTablesTyped,
       DeliveryHasInHand
<1>11. CASE /\ CASMatches(ledger, req) /\ ledger.state \notin Terminal
            /\ OneLater(ledger, ledger', "delivered", ResumeAfter(ledger, req),
                        key, art)
  <2>1. /\ ledger.state = "receipted" /\ ledger'.state = "delivered"
        /\ ledger'.version = ledger.version + 1
        /\ ledger.version \in Nat /\ ledger'.version \in Nat
    BY <1>2, <1>5, <1>11
    DEF CASMatches, OneLater, Safe, LedgerOK, LedgerType
  <2>2. Grows /\ AuthorityStays /\ RowStaysOrMoves
    BY <1>4, <2>1 DEF Grows, AuthorityStays, RowStaysOrMoves
  <2>3. CandidatesAreCounted' /\ PlansEndForTheirCandidate'
    BY <1>2, <1>4, <1>7, <1>11, <2>1, HistoryMoves DEF History
  <2>4. DeliveriesAreOfTheirReceipt'
    <3> SUFFICES ASSUME NEW i \in 1..Len(ledger'.events),
                        ledger'.events[i].to = "delivered"
                 PROVE  \E j \in Keys, q \in receipts :
                          /\ ledger'.events[i].key = <<"delivery", j>>
                          /\ ledger'.events[i].artifacts = {q, intents[j]}
                          /\ intents[j] \in IntentType
                          /\ intents[j].cand = candidate /\ q.cand = candidate
                          /\ LoneReview => q = authority
                          /\ q.risk = "high" =>
                               approvals[<<"delivery", q.cand>>] # "absent"
      BY <1>4 DEF DeliveriesAreOfTheirReceipt
    <3>1. /\ Len(ledger.events) \in Nat
          /\ Len(ledger'.events) = Len(ledger.events) + 1
          /\ \A j \in 1..Len(ledger.events) :
               ledger'.events[j] = ledger.events[j]
          /\ ledger'.events[Len(ledger.events) + 1].key = key
          /\ ledger'.events[Len(ledger.events) + 1].artifacts = art
      BY <1>2, <1>11, FreezesAreCounted DEF OneLater
    <3>2. \A j \in 1..Len(ledger.events) : ledger.events[j].to # "delivered"
      BY <1>2, <2>1 DEF Safe, Accounted
    <3>3. i = Len(ledger.events) + 1
      BY <3>1, <3>2
    <3>4. /\ ledger'.events[i].key = <<"delivery", k>>
          /\ ledger'.events[i].artifacts = {r, intents[k]}
      BY <1>3, <3>1, <3>3 DEF key, art, k, r, intent
    <3> QED  BY <1>3, <3>4
  <2>5. HighRiskReceipts' /\ ReceiptsAreWhole'
    BY <1>2, <1>4 DEF History, HighRiskReceipts, ReceiptsAreWhole
  <2>6. \A p \in Reviewers : ReviewOK(p)'
    BY <1>2, <1>4, <2>1, <2>2, ReviewUndisturbed DEF Locals
  <2>7. \A e \in Deliverers : DeliveryOK(e)'
    BY <1>2, <1>4, <1>8, <1>9, <2>1, <2>2, DeliveryUndisturbed DEF Locals
  <2>8. Typed'
    <3>1. ledger'.state \in States
      BY <2>1 DEF States
    <3>2. TypeOK'
      BY <1>2, <1>4, <2>1, <3>1 DEF Typed, TypeOK, reviewTables
    <3>3. TablesTyped'
      BY <1>2, <1>4, <1>8 DEF Typed, TablesTyped, reviewTables
    <3> QED  BY <3>2, <3>3 DEF Typed
  <2> QED
    BY <1>7, <2>3, <2>4, <2>5, <2>6, <2>7, <2>8 DEF IInv, History, Locals
<1> QED  BY <1>7, <1>10, <1>11

-----------------------------------------------------------------------------
(* The invariant.                                                          *)

\* The run from planning to the first frozen candidate.
LEMMA FirstCandidateIsSafe ==
  ASSUME NEW m, m = Freeze(Step(Step(NewLedger, "discovering"), "ready"))
  PROVE  /\ Safe(m) /\ m.state = "candidate_frozen" /\ m.version \in Nat
         /\ Cardinality(FrozenIn(m)) = 1
         /\ \A i \in 1..Len(m.events) :
              m.events[i].to \notin {"replan_required", "delivered"}
<1>1. PICK a : a = Step(NewLedger, "discovering")
  OBVIOUS
<1>2. PICK b : b = Step(a, "ready")
  OBVIOUS
<1>3. /\ NewLedger.state = "created" /\ NewLedger.version = 0
      /\ NewLedger.events = <<>> /\ Len(NewLedger.events) = 0
  BY DEF NewLedger
<1>4. Safe(NewLedger)
  BY <1>3, NewLedgerOK DEF Safe, Accounted, EventKeys
<1>5. /\ {"discovering", "ready"} \subseteq States \ {"blocked"}
      /\ \A r : /\ CanTransition("created", "discovering", r)
                /\ CanTransition("discovering", "ready", r)
  BY DEF States, CanTransition, Forward
<1>6. /\ Safe(a) /\ a.state = "discovering" /\ a.version = NewLedger.version + 1
      /\ OneLater(NewLedger, a, "discovering", NoState,
                  <<"run", NewLedger.version>>, {})
  BY <1>1, <1>3, <1>4, <1>5, StepIsGranted
<1>7. /\ Safe(b) /\ b.state = "ready" /\ b.version = a.version + 1
      /\ OneLater(a, b, "ready", NoState, <<"run", a.version>>, {})
  BY <1>2, <1>5, <1>6, StepIsGranted
<1>8. m = Freeze(b)
  BY <1>1, <1>2
<1>9. /\ Safe(m) /\ m.state = "candidate_frozen"
      /\ Len(m.events) = Len(b.events) + 3
      /\ \A i \in 1..Len(b.events) : m.events[i] = b.events[i]
      /\ \A i \in 1..Len(m.events) : i \in 1..Len(b.events) \/
           m.events[i].to \in {"executing", "verifying", "candidate_frozen"}
      /\ Cardinality(FrozenIn(m)) = Cardinality(FrozenIn(b)) + 1
  BY <1>7, <1>8, FreezeIsSafe
<1>10. Cardinality(FrozenIn(b)) = 0
  <2>1. FrozenIn(NewLedger) = {}
    BY <1>3 DEF FrozenIn
  <2> QED  BY <1>4, <1>6, <1>7, <2>1, FreezesMove, FS_EmptySet
<1>11. \A i \in 1..Len(b.events) : b.events[i].to \in {"discovering", "ready"}
  <2>1. Len(a.events) = 1 /\ a.events[1].to = "discovering"
    BY <1>3, <1>6 DEF OneLater
  <2>2. /\ Len(b.events) = 2 /\ b.events[1] = a.events[1]
        /\ b.events[2].to = "ready"
    BY <1>7, <2>1 DEF OneLater
  <2> QED  BY <2>1, <2>2
<1>12. \A i \in 1..Len(m.events) :
         m.events[i].to \notin {"replan_required", "delivered"}
  BY <1>9, <1>11
<1>13. m.version \in Nat
  BY <1>9 DEF Safe, LedgerOK, LedgerType
<1> QED  BY <1>9, <1>10, <1>12, <1>13

LEMMA InitIInv == Init => IInv
<1> SUFFICES ASSUME Init
             PROVE  IInv
  OBVIOUS
<1>1. /\ Safe(ledger) /\ ledger.state = "candidate_frozen"
      /\ ledger.version \in Nat
      /\ Freezes = 1
      /\ \A i \in 1..Len(ledger.events) :
           ledger.events[i].to \notin {"replan_required", "delivered"}
  BY FirstCandidateIsSafe, FreezesAreFrozen DEF Init
<1>2. /\ candidate = 1 /\ MaxCandidates \in Nat \ {0} /\ MaxCommits \in Nat
      /\ MaxForeign \in Nat /\ receipts = {} /\ authority = NoReceipt
  BY ReviewAssumption DEF Init
<1>3. /\ rev = [p \in Reviewers |-> Idle] /\ del = [d \in Deliverers |-> Idle]
  BY DEF Init
<1>4. TypeOK
  <2>1. /\ \A c \in Candidates, s \in Stages :
             invocations[c][s] = "absent" /\ checkpoints[c][s] = "absent"
        /\ "absent" \in Statuses
    BY DEF Init, Statuses
  <2>2. /\ candidate \in 0..MaxCandidates /\ tree \in 0..MaxCandidates
        /\ commits \in 0..MaxCommits /\ foreign \in 0..MaxForeign
        /\ ref = Base /\ findings = {}
        /\ \A a \in Actions : current[a] \in 0..MaxCandidates
        /\ \A k \in Keys : intents[k] = NoIntent
        /\ ledger.state \in States
    BY <1>1, <1>2 DEF Init, States
  <2> QED  BY <1>1, <1>2, <2>1, <2>2 DEF TypeOK
<1>5. TablesTyped
  <2>1. /\ "absent" \in Statuses /\ 0 \in 0..MaxCandidates
        /\ Idle \in ReviewLocals /\ Idle \in DeliveryLocals
    BY <1>2, IdlesAreLocals DEF Statuses
  <2> QED  BY <2>1 DEF Init, TablesTyped
<1>6. History
  BY <1>1, <1>2 DEF History, CandidatesAreCounted, PlansEndForTheirCandidate,
                    HighRiskReceipts, DeliveriesAreOfTheirReceipt
<1>7. ReceiptsAreWhole
  BY <1>2 DEF ReceiptsAreWhole
<1>8. Locals
  BY <1>3, IdlesAreLocals
  DEF Locals, ReviewOK, ReadsAreFresh, AnswersAreInOrder,
      LoneFindsNoAuthority, DeliveryOK
<1> QED  BY <1>1, <1>4, <1>5, <1>6, <1>7, <1>8 DEF IInv, Typed

LEMMA StutterKeepsIInv ==
  ASSUME IInv, UNCHANGED vars
  PROVE  IInv'
<1>1. Typed'
  BY DEF IInv, Typed, TypeOK, TablesTyped, vars, git, reviewTables,
         receiptTables, approvalTables, deliveryTables
<1>2. Grows
  BY DEF Grows, vars, receiptTables, approvalTables, deliveryTables
<1> QED  BY <1>1, <1>2, OthersGoOn DEF vars

LEMMA NextIInv == IInv /\ [Next]_vars => IInv'
<1> SUFFICES ASSUME IInv, [Next]_vars
             PROVE  IInv'
  OBVIOUS
<1>1. ASSUME NEW p \in Reviewers, ReviewStep(p)
      PROVE  IInv'
  BY <1>1, ReviewReturnsAuthorityKeepsIInv, ReviewBeginsKeepsIInv,
     ReviewReadsKeepsIInv, InvokeRecoversKeepsIInv, InvokeStartsKeepsIInv,
     InvokeEndsKeepsIInv, AcceptSemanticKeepsIInv, AcceptLensKeepsIInv,
     ReviewSevereKeepsIInv, IssueKeepsIInv, ReviewReceiptsKeepsIInv,
     ReviewEndsKeepsIInv
  DEF ReviewStep
<1>2. ASSUME NEW d \in Deliverers, DeliveryStep(d)
      PROVE  IInv'
  BY <1>2, DeliverBeginsKeepsIInv, GateCommitsKeepsIInv, PutIntentKeepsIInv,
     GateRecoversKeepsIInv, MoveRefKeepsIInv, DeliverEndsKeepsIInv,
     DeliverStopsKeepsIInv
  DEF DeliveryStep
<1>3. ASSUME NEW a \in Actions, Approve(a) \/ RevokeApproval(a)
      PROVE  IInv'
  BY <1>3, ApproveKeepsIInv, RevokeApprovalKeepsIInv
<1>4. ASSUME NEW a \in Actions, NEW c \in Candidates, Expire(a, c)
      PROVE  IInv'
  BY <1>4, ExpireKeepsIInv
<1>5. CASE Abort
  BY <1>5, AbortKeepsIInv
<1>6. CASE AbortCleanup
  BY <1>6, AbortCleanupKeepsIInv
<1>7. CASE Replan
  BY <1>7, ReplanKeepsIInv
<1>8. CASE Refreeze
  BY <1>8, RefreezeKeepsIInv
<1>9. CASE UserActs
  BY <1>9, UserActsKeepsIInv
<1>10. CASE UNCHANGED vars
  BY <1>10, StutterKeepsIInv
<1> QED
  BY <1>1, <1>2, <1>3, <1>4, <1>5, <1>6, <1>7, <1>8, <1>9, <1>10 DEF Next

LEMMA IInvIsReviewsKept == IInv => ReviewsKept
<1> SUFFICES ASSUME IInv
             PROVE  ReviewsKept
  OBVIOUS
<1>1. /\ TypeOK /\ Safe(ledger) /\ ReceiptsAreWhole
      /\ PlansEndForTheirCandidate /\ DeliveriesAreOfTheirReceipt
  BY DEF IInv, Typed, History
<1>2. LedgerKept
  BY <1>1 DEF LedgerKept, Safe, LedgerOK
<1>3. DeliveredIsReviewed
  <2> SUFFICES ASSUME NEW i \in DeliveredEvents
               PROVE  \E r \in receipts :
                 /\ r.cand = candidate /\ (LoneReview => r = authority)
                 /\ ledger.events[i].artifacts =
                      {r, intents[ledger.events[i].key[2]]}
                 /\ intents[ledger.events[i].key[2]].cand = r.cand
                 /\ \A j \in DOMAIN ledger.events :
                      \A a \in ledger.events[j].artifacts :
                        ledger.events[j].to = "replan_required" =>
                          a[1] # r.cand
    BY DEF DeliveredIsReviewed
  <2>1. i \in 1..Len(ledger.events) /\ ledger.events[i].to = "delivered"
    BY <1>1, FreezesAreCounted DEF DeliveredEvents
  <2>2. PICK k \in Keys, r \in receipts :
          /\ ledger.events[i].key = <<"delivery", k>>
          /\ ledger.events[i].artifacts = {r, intents[k]}
          /\ intents[k].cand = candidate /\ r.cand = candidate
          /\ LoneReview => r = authority
    BY <1>1, <2>1 DEF DeliveriesAreOfTheirReceipt
  <2>3. ledger.events[i].key[2] = k
    BY <2>2
  <2>4. ledger.state = "delivered"
    BY <1>1, <2>1 DEF Safe, Accounted
  <2>5. \A j \in DOMAIN ledger.events :
          \A a \in ledger.events[j].artifacts :
            ledger.events[j].to = "replan_required" => a[1] # candidate
    BY <1>1, <2>4, FreezesAreCounted DEF PlansEndForTheirCandidate
  <2> QED  BY <2>2, <2>3, <2>5
<1> QED  BY <1>1, <1>2, <1>3 DEF ReviewsKept

LEMMA IInvIsHighRiskApproved == IInv => HighRiskIsApproved
<1> SUFFICES ASSUME IInv, NEW i \in DeliveredEvents,
                    NEW r \in ledger.events[i].artifacts \cap receipts,
                    r.risk = "high", NEW a \in Actions
             PROVE  approvals[<<a, r.cand>>] # "absent"
  BY DEF HighRiskIsApproved
<1>1. /\ Safe(ledger) /\ HighRiskReceipts /\ DeliveriesAreOfTheirReceipt
      /\ receipts \subseteq ReceiptType
  BY DEF IInv, Typed, TypeOK, History
<1>2. i \in 1..Len(ledger.events) /\ ledger.events[i].to = "delivered"
  BY <1>1, FreezesAreCounted DEF DeliveredEvents
<1>3. PICK k \in Keys, q \in receipts :
        /\ ledger.events[i].artifacts = {q, intents[k]}
        /\ intents[k] \in IntentType
        /\ q.risk = "high" => approvals[<<"delivery", q.cand>>] # "absent"
  BY <1>1, <1>2 DEF DeliveriesAreOfTheirReceipt
<1>4. r = q
  BY <1>1, <1>3, IntentIsNoReceipt
<1>5. CASE a = "review"
  BY <1>1, <1>5 DEF HighRiskReceipts
<1>6. CASE a = "delivery"
  BY <1>3, <1>4, <1>6
<1> QED  BY <1>5, <1>6 DEF Actions

\* However many reviews and deliveries race with a replan and the kill switch:
\* the audit trail is gap-free, a candidate has one whole receipt, and what is
\* delivered is the reviewed candidate (internal/review, internal/delivery).
THEOREM ReviewsAreKept == Spec => []ReviewsKept
<1>1. Spec => []IInv
  BY InitIInv, NextIInv, PTL DEF Spec
<1> QED  BY <1>1, IInvIsReviewsKept, PTL

\* A candidate of high risk is delivered only after a human has approved its
\* review and its delivery, whichever review issued the receipt
\* (approval.Require in review/runner.go and workflowDeliver).
THEOREM HighRiskNeedsApproval == Spec => []HighRiskIsApproved
<1>1. Spec => []IInv
  BY InitIInv, NextIInv, PTL DEF Spec
<1> QED  BY <1>1, IInvIsHighRiskApproved, PTL

\* No delivery moves a ref that has left the base: Gate.Commit's update-ref
\* compares it with the base the candidate was frozen upon.
THEOREM ForeignCommitsAreKept == Spec => ForeignCommitsSurvive
<1>1. IInv /\ [Next]_vars
        => [ref # Base /\ ref' # ref => foreign' # foreign]_vars
  <2> SUFFICES ASSUME IInv, Next, ref # Base, ref' # ref
               PROVE  foreign' # foreign
    OBVIOUS
  <2>1. foreign \in Nat
    BY ReviewAssumption DEF IInv, Typed, TypeOK
  <2>2. ASSUME NEW p \in Reviewers, ReviewStep(p)
        PROVE  FALSE
    BY <2>2 DEF ReviewStep, ReviewReturnsAuthority, ReviewBegins, ReviewReads,
       InvokeRecovers, InvokeStarts, InvokeEnds, AcceptSemantic, AcceptLens,
       ReviewSevere, Issue, ReviewReceipts, ReviewEnds, ReviewKeeps, git
  <2>3. ASSUME NEW d \in Deliverers, DeliveryStep(d)
        PROVE  FALSE
    BY <2>3 DEF DeliveryStep, DeliverBegins, GateCommits, PutIntent,
       GateRecovers, MoveRef, RefAdmits, DeliverEnds, DeliverStops
  <2>4. CASE UserActs
    BY <2>1, <2>4 DEF UserActs
  <2>5. ASSUME NEW a \in Actions, Approve(a) \/ RevokeApproval(a)
        PROVE  FALSE
    BY <2>5 DEF Approve, RevokeApproval, ApprovalKeeps, git
  <2>6. ASSUME NEW a \in Actions, NEW c \in Candidates, Expire(a, c)
        PROVE  FALSE
    BY <2>6 DEF Expire, ApprovalKeeps, git
  <2>7. CASE Abort \/ AbortCleanup \/ Replan \/ Refreeze
    BY <2>7 DEF Abort, AbortCleanup, Replan, Refreeze, git
  <2> QED  BY <2>2, <2>3, <2>4, <2>5, <2>6, <2>7 DEF Next
<1> QED  BY <1>1, InitIInv, NextIInv, PTL DEF Spec, ForeignCommitsSurvive
=============================================================================
