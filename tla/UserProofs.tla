----------------------------- MODULE UserProofs ------------------------------
(***************************************************************************)
(* What the program owes its user.  That no two sessions are woken about   *)
(* one job at once, for any number of sessions, hosts, jobs and mishaps    *)
(* and any even limits of time; that planning keeps answers, decisions and *)
(* approvals, for any number of commands, questions, requests, plans and   *)
(* versions; and that installations and uninstalls, for any number of      *)
(* processes, versions and files, keep the user's files and servers.       *)
(***************************************************************************)
EXTENDS Planning, Notifications, Installation, WellFoundedInduction,
        SequenceTheorems, TLAPS

Consumers == Sessions \cup {NoSession}

NoticeType == [by : Consumers, age : 0..Spent, acked : BOOLEAN]

FlightType ==
  {Landed} \cup [pc : {"prompting", "acking", "releasing"},
                 job : Nat \ {0}, age : 0..Spent]

\* A claim the store would not give to another consumer, as its holder counts.
Lasts(s) == flight[s] # Landed /\ flight[s].age <= ClaimExpiry - 2

\* While a claim lasts the notice is its holder's and of its age.
HoldsItsNotice(s) ==
  Lasts(s) =>
    notices[flight[s].job] = [by |-> s, age |-> flight[s].age, acked |-> FALSE]

Typed ==
  /\ half \in {0, 1}
  /\ notices \in Seq(NoticeType)
  /\ flight \in [Sessions -> FlightType]
  /\ \A s \in Sessions :
       flight[s] # Landed => flight[s].job \in 1..Len(notices)

IInv == Typed /\ \A s \in Sessions : HoldsItsNotice(s)

-----------------------------------------------------------------------------
(* Times.                                                                  *)

\* A claim the strings call expired is at most half a second short of its time.
LEMMA ExpiredIsOld ==
  ASSUME NEW age \in 0..Spent, half \in {0, 1}, Expired(age)
  PROVE  age >= ClaimExpiry - 1
  BY NotificationsAssumption
  DEF Expired, SortsBefore, Moment, Never, Spent

\* Ages stay within their limit, and a young one grows by one.
LEMMA OlderIsBounded ==
  ASSUME NEW age \in 0..Spent
  PROVE  /\ Older(age, Spent) \in 0..Spent
         /\ Older(age, Spent) >= age
         /\ age <= ClaimExpiry => Older(age, Spent) = age + 1
  BY NotificationsAssumption DEF Older, Spent

\* The notice created first is one of those that can be claimed.
LEMMA FirstIsClaimable ==
  ASSUME NEW S, S \subseteq Nat, S # {}
  PROVE  FirstOf(S) \in S
<1> DEFINE R == {ss \in Nat \X Nat : ss[1] < ss[2]}
<1>0. IsWellFoundedOn(R, Nat)
  BY NatLessThanWellFounded DEF OpToRel
<1>1. \E x \in S : \A y \in S : ~(<<y, x>> \in R)
  <2> HIDE DEF R
  <2> QED
    BY <1>0, WFMin
<1>2. PICK x \in S : \A y \in S : ~(<<y, x>> \in R)
  BY <1>1
<1>3. \A y \in S : x <= y
  <2> TAKE y \in S
  <2>1. x \in Nat /\ y \in Nat
    BY <1>2
  <2>2. ~(y < x)
    BY <1>2, <2>1
  <2> QED
    BY <2>1, <2>2
<1> HIDE DEF R
<1> QED
  BY <1>2, <1>3 DEF FirstOf

-----------------------------------------------------------------------------
(* Claims.                                                                 *)

\* What may be claimed is a notice, and none whose claim lasts.
LEMMA ClaimableIsFree ==
  ASSUME IInv, NEW s \in Sessions, NEW j \in Claimable(s)
  PROVE  /\ j \in 1..Len(notices)
         /\ \A t \in Sessions : Lasts(t) => flight[t].job # j
<1>1. j \in 1..Len(notices) /\ Unclaimed(j)
  BY DEF Claimable, IInv, Typed
<1>2. ASSUME NEW t \in Sessions, Lasts(t), flight[t].job = j PROVE FALSE
  <2>1. notices[j] = [by |-> t, age |-> flight[t].age, acked |-> FALSE]
    BY <1>2 DEF IInv, HoldsItsNotice
  <2>2. t # NoSession
    BY NotificationsAssumption
  <2>3. flight[t].age \in 0..Spent /\ flight[t].age <= ClaimExpiry - 2
    BY <1>2 DEF IInv, Typed, Lasts, FlightType, Landed
  <2>4. Expired(flight[t].age)
    BY <1>1, <2>1, <2>2 DEF Unclaimed
  <2> QED
    BY <2>3, <2>4, ExpiredIsOld, NotificationsAssumption DEF IInv, Typed
<1> QED
  BY <1>1, <1>2

LEMMA FirstIsFree ==
  ASSUME IInv, NEW s \in Sessions, Polls(s)
  PROVE  /\ FirstOf(Claimable(s)) \in 1..Len(notices)
         /\ \A t \in Sessions :
              Lasts(t) => flight[t].job # FirstOf(Claimable(s))
<1>1. Claimable(s) \subseteq Nat /\ Claimable(s) # {}
  BY DEF Polls, Claimable, IInv, Typed
<1>2. FirstOf(Claimable(s)) \in Claimable(s)
  BY <1>1, FirstIsClaimable
<1> QED
  BY <1>2, ClaimableIsFree

LEMMA ClaimKeepsIInv ==
  ASSUME IInv, NEW s \in Sessions, Claim(s)
  PROVE  IInv'
<1> DEFINE j == FirstOf(Claimable(s))
           note == [by |-> s, age |-> 0, acked |-> FALSE]
<1>1. /\ j \in 1..Len(notices)
      /\ \A t \in Sessions : Lasts(t) => flight[t].job # j
  BY FirstIsFree DEF Claim
<1>2. /\ notices' = [notices EXCEPT ![j] = note]
      /\ flight' = [flight EXCEPT ![s] =
                      [pc |-> "prompting", job |-> j, age |-> 0]]
      /\ half' = half
  BY DEF Claim, Claims
<1> HIDE DEF j
<1>3. note \in NoticeType /\ 0 \in 0..Spent
  BY NotificationsAssumption DEF NoticeType, Consumers, Spent
<1>4. notices' \in Seq(NoticeType) /\ Len(notices') = Len(notices)
  BY <1>1, <1>2, <1>3 DEF IInv, Typed
<1>5. Typed'
  BY <1>1, <1>2, <1>3, <1>4 DEF IInv, Typed, FlightType
<1>6. ASSUME NEW t \in Sessions PROVE HoldsItsNotice(t)'
  <2>1. CASE t = s
    BY <1>1, <1>2, <2>1 DEF IInv, Typed, HoldsItsNotice
  <2>2. CASE t # s
    <3>1. flight'[t] = flight[t]
      BY <1>2, <2>2 DEF IInv, Typed
    <3>2. Lasts(t) => flight[t].job \in 1..Len(notices) /\ flight[t].job # j
      BY <1>1 DEF IInv, Typed, Lasts
    <3> QED
      BY <1>2, <3>1, <3>2 DEF IInv, Typed, HoldsItsNotice, Lasts
  <2> QED
    BY <2>1, <2>2
<1> QED
  BY <1>5, <1>6 DEF IInv

LEMMA ClaimLostKeepsIInv ==
  ASSUME IInv, NEW s \in Sessions, ClaimLost(s)
  PROVE  IInv'
<1> DEFINE j == FirstOf(Claimable(s))
           note == [by |-> s, age |-> 0, acked |-> FALSE]
<1>1. /\ j \in 1..Len(notices)
      /\ \A t \in Sessions : Lasts(t) => flight[t].job # j
  BY FirstIsFree DEF ClaimLost
<1>2. /\ notices' = [notices EXCEPT ![j] = note]
      /\ UNCHANGED <<flight, half>>
  BY DEF ClaimLost, Claims
<1> HIDE DEF j
<1>3. note \in NoticeType
  BY NotificationsAssumption DEF NoticeType, Consumers, Spent
<1>4. notices' \in Seq(NoticeType) /\ Len(notices') = Len(notices)
  BY <1>1, <1>2, <1>3 DEF IInv, Typed
<1>5. Typed'
  BY <1>2, <1>4 DEF IInv, Typed
<1>6. ASSUME NEW t \in Sessions PROVE HoldsItsNotice(t)'
  <2>1. Lasts(t) => flight[t].job \in 1..Len(notices) /\ flight[t].job # j
    BY <1>1 DEF IInv, Typed, Lasts
  <2> QED
    BY <1>2, <2>1 DEF IInv, Typed, HoldsItsNotice, Lasts
<1> QED
  BY <1>5, <1>6 DEF IInv

-----------------------------------------------------------------------------
(* The end of a poll.                                                      *)

\* A step that only goes on with polls, or ends them, touches no claim.
FliesOrLands ==
  /\ UNCHANGED <<half, notices>>
  /\ flight' \in [Sessions -> FlightType]
  /\ \A s \in Sessions : flight'[s] # Landed =>
       /\ flight[s] # Landed
       /\ flight'[s].job = flight[s].job /\ flight'[s].age = flight[s].age

LEMMA FliesOrLandsKeepsIInv ==
  ASSUME IInv, FliesOrLands
  PROVE  IInv'
<1>1. Typed'
  BY DEF IInv, Typed, FliesOrLands
<1>2. ASSUME NEW s \in Sessions PROVE HoldsItsNotice(s)'
  <2>1. Lasts(s)' => Lasts(s)
    BY DEF Lasts, FliesOrLands
  <2> QED
    BY <2>1 DEF IInv, HoldsItsNotice, FliesOrLands, Lasts
<1> QED
  BY <1>1, <1>2 DEF IInv

\* A session in flight is polling some notice.
LEMMA FlightIsKnown ==
  ASSUME IInv, NEW s \in Sessions,
         flight[s].pc \in {"prompting", "acking", "releasing"}
  PROVE  /\ flight[s] # Landed
         /\ flight[s] \in [pc : {"prompting", "acking", "releasing"},
                           job : Nat \ {0}, age : 0..Spent]
         /\ flight[s].job \in 1..Len(notices)
<1>1. flight[s] # Landed
  BY DEF Landed
<1> QED
  BY <1>1 DEF IInv, Typed, FlightType

LEMMA FliesOnKeepsIInv ==
  ASSUME IInv, NEW s \in Sessions, UNCHANGED <<half, notices>>,
         flight[s].pc \in {"prompting", "acking", "releasing"},
         NEW pc \in {"acking", "releasing"}, FliesOn(s, pc)
  PROVE  IInv'
<1>1. flight \in [Sessions -> FlightType]
  BY DEF IInv, Typed
<1>2. [flight[s] EXCEPT !.pc = pc] \in FlightType
  BY FlightIsKnown DEF FlightType
<1>3. flight' = [flight EXCEPT ![s] = [flight[s] EXCEPT !.pc = pc]]
  BY DEF FliesOn
<1>4. FliesOrLands
  BY <1>1, <1>2, <1>3, FlightIsKnown DEF FliesOrLands
<1> QED
  BY <1>4, FliesOrLandsKeepsIInv

LEMMA ReleaseFailsKeepsIInv ==
  ASSUME IInv, NEW s \in Sessions, ReleaseFails(s)
  PROVE  IInv'
<1>1. flight' = [flight EXCEPT ![s] = Landed] /\ UNCHANGED <<half, notices>>
  BY DEF ReleaseFails, Lands
<1>2. FliesOrLands
  BY <1>1 DEF IInv, Typed, FliesOrLands, FlightType
<1> QED
  BY <1>2, FliesOrLandsKeepsIInv

LEMMA HostCrashKeepsIInv ==
  ASSUME IInv, NEW h, HostCrash(h)
  PROVE  IInv'
<1>1. FliesOrLands
  BY DEF HostCrash, IInv, Typed, FliesOrLands, FlightType
<1> QED
  BY <1>1, FliesOrLandsKeepsIInv

\* Only the holder of a claim ends it, and its poll ends with it.
LEMMA HolderEndsItsClaim ==
  ASSUME IInv, NEW s \in Sessions, NEW note \in NoticeType,
         flight[s].pc \in {"acking", "releasing"}, Holds(s, flight[s].job),
         notices' = [notices EXCEPT ![flight[s].job] = note],
         flight' = [flight EXCEPT ![s] = Landed], half' = half
  PROVE  IInv'
<1> DEFINE j == flight[s].job
<1>1. j \in 1..Len(notices)
  BY FlightIsKnown
<1>2. notices' \in Seq(NoticeType) /\ Len(notices') = Len(notices)
  BY <1>1 DEF IInv, Typed
<1>3. Typed'
  BY <1>2 DEF IInv, Typed, FlightType
<1>4. ASSUME NEW t \in Sessions PROVE HoldsItsNotice(t)'
  <2>1. CASE t = s
    BY <2>1 DEF IInv, Typed, HoldsItsNotice, Lasts
  <2>2. CASE t # s
    <3>1. flight'[t] = flight[t]
      BY <2>2 DEF IInv, Typed
    <3>2. Lasts(t) => flight[t].job \in 1..Len(notices)
      BY DEF IInv, Typed, Lasts
    <3>3. Lasts(t) => notices[flight[t].job].by = t
      <4>1. Lasts(t) => notices[flight[t].job] =
                          [by |-> t, age |-> flight[t].age, acked |-> FALSE]
        BY DEF IInv, HoldsItsNotice
      <4> QED
        BY <4>1
    <3>4. Lasts(t) => flight[t].job # j
      BY <2>2, <3>3 DEF Holds
    <3> QED
      BY <1>1, <3>1, <3>2, <3>4 DEF IInv, Typed, HoldsItsNotice, Lasts
  <2> QED
    BY <2>1, <2>2
<1> QED
  BY <1>3, <1>4 DEF IInv

LEMMA AckKeepsIInv ==
  ASSUME IInv, NEW s \in Sessions, Ack(s)
  PROVE  IInv'
<1> DEFINE j == flight[s].job
           note == [notices[j] EXCEPT !.acked = TRUE]
<1>1. flight[s].pc = "acking" /\ Holds(s, j) /\ half' = half
  BY DEF Ack, InFlight, Lands
<1>2. j \in 1..Len(notices)
  BY <1>1, FlightIsKnown
<1>3. notices[j] \in NoticeType
  BY <1>2 DEF IInv, Typed
<1>4. note \in NoticeType
  BY <1>3 DEF NoticeType
<1>5. notices' = [notices EXCEPT ![j] = note]
      /\ flight' = [flight EXCEPT ![s] = Landed]
  BY DEF Ack, Lands
<1> QED
  BY <1>1, <1>4, <1>5, HolderEndsItsClaim

LEMMA ReleaseKeepsIInv ==
  ASSUME IInv, NEW s \in Sessions, Release(s)
  PROVE  IInv'
<1>1. Free \in NoticeType
  BY NotificationsAssumption DEF Free, NoticeType, Consumers, Spent
<1> QED
  BY <1>1, HolderEndsItsClaim DEF Release, InFlight, Lands

-----------------------------------------------------------------------------
(* The clock and the jobs.                                                 *)

LEMMA TickKeepsIInv ==
  ASSUME IInv, Tick
  PROVE  IInv'
<1>1. ASSUME NEW j \in 1..Len(notices)
      PROVE  /\ notices'[j] \in NoticeType
             /\ notices[j].by # NoSession =>
                  notices'[j] = [by |-> notices[j].by,
                                 age |-> Older(notices[j].age, Spent),
                                 acked |-> notices[j].acked]
  <2>1. notices[j] \in NoticeType
    BY DEF IInv, Typed
  <2>2. notices'[j] = IF notices[j].by = NoSession THEN notices[j]
                      ELSE [notices[j] EXCEPT !.age = Older(@, Spent)]
    <3>1. j \in DOMAIN notices
      BY DEF IInv, Typed
    <3> QED
      BY <3>1 DEF Tick
  <2> QED
    BY <2>1, <2>2, OlderIsBounded DEF NoticeType
<1>2. notices' \in Seq(NoticeType) /\ Len(notices') = Len(notices)
  <2>1. DOMAIN notices' = 1..Len(notices)
    BY DEF Tick, IInv, Typed
  <2>2. notices' = [j \in 1..Len(notices) |-> notices'[j]]
    BY <2>1 DEF Tick
  <2> QED
    BY <1>1, <2>1, <2>2 DEF IInv, Typed
<1>3. ASSUME NEW s \in Sessions
      PROVE  /\ flight'[s] \in FlightType
             /\ flight'[s] # Landed =>
                  /\ flight[s] # Landed /\ flight'[s].job = flight[s].job
                  /\ flight'[s].age = Older(flight[s].age, Spent)
                  /\ flight[s].age \in 0..Spent
  <2>1. flight[s] \in FlightType
    BY DEF IInv, Typed
  <2>2. flight'[s] = IF flight[s] = Landed THEN Landed
                     ELSE [flight[s] EXCEPT !.age = Older(@, Spent)]
    BY DEF Tick
  <2> QED
    BY <2>1, <2>2, OlderIsBounded DEF FlightType
<1>4. Typed'
  <2>1. half' \in {0, 1}
    BY DEF Tick, IInv, Typed
  <2>2. flight' \in [Sessions -> FlightType]
    BY <1>3 DEF Tick
  <2> QED
    BY <1>2, <1>3, <2>1, <2>2 DEF IInv, Typed
<1>5. ASSUME NEW s \in Sessions PROVE HoldsItsNotice(s)'
  <2> SUFFICES ASSUME Lasts(s)'
      PROVE notices'[flight'[s].job] =
              [by |-> s, age |-> flight'[s].age, acked |-> FALSE]
    BY DEF HoldsItsNotice
  <2>1. /\ flight[s] # Landed /\ flight'[s].job = flight[s].job
        /\ flight'[s].age = Older(flight[s].age, Spent)
        /\ flight[s].age \in 0..Spent
    BY <1>3 DEF Lasts
  <2>2. Lasts(s)
    BY <2>1, OlderIsBounded, NotificationsAssumption DEF Lasts
  <2>3. notices[flight[s].job] =
          [by |-> s, age |-> flight[s].age, acked |-> FALSE]
    BY <2>2 DEF IInv, HoldsItsNotice
  <2>4. PICK j \in 1..Len(notices) : j = flight[s].job
    BY <2>1 DEF IInv, Typed
  <2>5. notices[j].by = s /\ s # NoSession
    BY <2>3, <2>4, NotificationsAssumption
  <2>6. notices'[j] = [by |-> notices[j].by,
                       age |-> Older(notices[j].age, Spent),
                       acked |-> notices[j].acked]
    BY <1>1, <2>5
  <2>7. /\ notices[j].by = s /\ notices[j].age = flight[s].age
        /\ notices[j].acked = FALSE
    BY <2>3, <2>4
  <2> QED
    BY <2>1, <2>4, <2>6, <2>7
<1> QED
  BY <1>4, <1>5 DEF IInv

LEMMA JobEndsKeepsIInv ==
  ASSUME IInv, NEW j, JobEnds(j)
  PROVE  IInv'
<1>1. notices' = Append(notices, Free) /\ UNCHANGED <<half, flight>>
  BY DEF JobEnds
<1>2. Free \in NoticeType
  BY NotificationsAssumption DEF Free, NoticeType, Consumers, Spent
<1>3. /\ notices' \in Seq(NoticeType) /\ Len(notices') = Len(notices) + 1
      /\ \A i \in 1..Len(notices) : notices'[i] = notices[i]
  BY <1>1, <1>2 DEF IInv, Typed
<1>4. Typed'
  BY <1>1, <1>3 DEF IInv, Typed
<1>5. ASSUME NEW s \in Sessions PROVE HoldsItsNotice(s)'
  BY <1>1, <1>3 DEF IInv, Typed, HoldsItsNotice, Lasts
<1> QED
  BY <1>4, <1>5 DEF IInv

-----------------------------------------------------------------------------
LEMMA InitIInv == NoteInit => IInv
  BY DEF NoteInit, IInv, Typed, FlightType, HoldsItsNotice, Lasts

\* What the plugins hear, launches and heartbeats leave notices and polls alone.
LEMMA PluginKeepsIInv ==
  ASSUME IInv, NEW s \in Sessions, Plugin(s)
  PROVE  IInv'
<1>1. CASE Heard(s) \/ Beat(s) \/ TurnsIdle(s) \/ TurnsBusy(s) \/ Deleted(s)
  <2>1. UNCHANGED <<half, notices, flight>>
    BY <1>1 DEF Heard, Beat, TurnsIdle, TurnsBusy, Deleted
  <2> QED
    BY <2>1 DEF IInv, Typed, HoldsItsNotice, Lasts
<1>2. CASE PromptAccepted(s) \/ PromptFails(s) \/ AckFails(s)
  <2>1. /\ UNCHANGED <<half, notices>>
        /\ flight[s].pc \in {"prompting", "acking", "releasing"}
        /\ \E pc \in {"acking", "releasing"} : FliesOn(s, pc)
    BY <1>2 DEF PromptAccepted, PromptFails, AckFails, InFlight
  <2> QED
    BY <2>1, FliesOnKeepsIInv
<1> QED
  BY <1>1, <1>2, ClaimKeepsIInv, ClaimLostKeepsIInv, AckKeepsIInv,
     ReleaseKeepsIInv, ReleaseFailsKeepsIInv
  DEF Plugin

LEMMA NextIInv == IInv /\ [NoteNext]_noteVars => IInv'
<1> SUFFICES ASSUME IInv, [NoteNext]_noteVars PROVE IInv'
  OBVIOUS
<1>1. CASE UNCHANGED noteVars
  BY <1>1 DEF noteVars, IInv, Typed, HoldsItsNotice, Lasts
<1>2. ASSUME NEW s, Launch(s) PROVE IInv'
  BY <1>2 DEF Launch, IInv, Typed, HoldsItsNotice, Lasts
<1> QED
  BY <1>1, <1>2, TickKeepsIInv, JobEndsKeepsIInv, PluginKeepsIInv,
     HostCrashKeepsIInv
  DEF NoteNext

\* Every claim that lasts is of the session that is polling with it.
THEOREM ClaimsAreHeld == NoteSpec => []IInv
  BY InitIInv, NextIInv, PTL DEF NoteSpec

\* Two sessions are woken about one job only when the turn of one of them has
\* outlasted its claim, whoever crashes, is deleted or loses an answer.
THEOREM WokenOnce == NoteSpec => []NoDoubleWake
<1>1. IInv => NoDoubleWake
  <2> SUFFICES ASSUME IInv, NEW s \in Sessions, NEW t \in Sessions, s # t,
                      flight[s] # Landed, flight[t] # Landed,
                      flight[s].job = flight[t].job
               PROVE  \/ flight[s].age > ClaimExpiry - 2
                      \/ flight[t].age > ClaimExpiry - 2
    BY DEF NoDoubleWake
  <2>1. flight[s].age \in 0..Spent /\ flight[t].age \in 0..Spent
    <3>1. flight[s] \in FlightType /\ flight[t] \in FlightType
      BY DEF IInv, Typed
    <3> QED
      BY <3>1 DEF FlightType
  <2>2. ASSUME Lasts(s), Lasts(t) PROVE FALSE
    <3>1. [by |-> s, age |-> flight[s].age, acked |-> FALSE] =
          [by |-> t, age |-> flight[t].age, acked |-> FALSE]
      BY <2>2 DEF IInv, HoldsItsNotice
    <3> QED
      BY <3>1
  <2> QED
    BY <2>1, <2>2, NotificationsAssumption DEF Lasts
<1> QED
  BY <1>1, ClaimsAreHeld, PTL

-----------------------------------------------------------------------------
(* Planning: what the tables hold.                                         *)

AnswersType == UNION {[S -> Commands \cup {NoOne}] : S \in SUBSET Questions}

GraphType == [answers : AnswersType, closed : BOOLEAN]

\* The plans a workflow may be given: files, and what its request describes.
PlanFiles ==
  Plans \cup {r.plan : r \in Requests} \cup {r.arguments : r \in Requests}

Starting == {"routing", "decided", "routed", "saved"}

Closed == {"contracting", "graphing", "readying", "handing"}

\* What a command has in hand.
CommandType ==
  {Rest, [pc |-> "filed"]}
    \cup [pc : Starting \cup {"filing"}, request : Requests]
    \cup [pc : {"validating", "answering"}, question : Questions,
          version : Nat]
    \cup [pc : {"closing"}, by : {"start", "close"}, plan : PlanFiles,
          closes : Nat, graph : GraphType]
    \cup [pc : Closed, by : {"start", "close"}, plan : PlanFiles]

PlanTyped ==
  /\ wayfinder \in Seq(GraphType)
  /\ current \in [Prototypes -> Nat]
  /\ command \in [Commands -> CommandType]
  /\ told \subseteq Questions \X Commands

\* No question that is open in g holds up the plan.
NothingBlocks(g) == \A q \in Open(g) : ~QuestionOf[q].blocking

SomeGraphIsClosed ==
  \E v \in 1..Latest : wayfinder[v].closed /\ NothingBlocks(wayfinder[v])

Executable(slices) == slices # Absent /\ ValidExecution(slices)

\* A start has decided as its request asks, and saved the graph that follows.
StartKnows(c) ==
  LET r == command[c].request IN
  /\ command[c].pc \in Starting => row # Absent /\ Startable(r)
  /\ command[c].pc \in Starting \ {"routing"} => decision = DecisionOn(r)
  /\ command[c].pc = "saved" => Latest >= 1 /\ wayfinder[1] = FirstGraph(r)
  /\ command[c].pc = "filing" => r.graph # Absent

\* An answer is to a question of a version there is, and a prototype's has an
\* approval of that version.
AnswerKnows(c) ==
  LET q == command[c].question IN
  /\ command[c].pc \in {"validating", "answering"} =>
       /\ command[c].version \in 1..Latest
       /\ q \in Open(wayfinder[command[c].version])
  /\ command[c].pc = "answering" /\ q \in Prototypes =>
       <<q, command[c].version>> \in issued

\* A closing has the graph before the version it is about to write, then the
\* tables it has written agree with its plan.
CloseKnows(c) ==
  /\ command[c].pc = "closing" =>
       /\ command[c].closes - 1 \in 1..Latest
       /\ command[c].graph = wayfinder[command[c].closes - 1]
       /\ NothingBlocks(command[c].graph)
  /\ command[c].pc \in Closed \cup {"closing"} =>
       Executable(command[c].plan.slices)
  /\ command[c].pc \in Closed => SomeGraphIsClosed
  /\ command[c].pc \in Closed \ {"contracting"} =>
       /\ contract # Absent
       /\ contract.criteria = Criteria(command[c].plan.slices)
  /\ command[c].pc \in Closed \ {"contracting", "graphing"} =>
       execution = command[c].plan.slices

CommandOK(c) == StartKnows(c) /\ AnswerKnows(c) /\ CloseKnows(c)

\* One process creates the workflow, so there is one start.
OneStarts ==
  \A c, d \in Commands :
    command[c].pc \in Starting /\ command[d].pc \in Starting => c = d

\* The first graph is nobody's answer, and asks for no prototype.
FirstIsUnanswered ==
  /\ told # {} => Latest >= 2
  /\ Latest >= 1 => \A q \in Prototypes : q \notin DOMAIN wayfinder[1].answers

ApprovalsAreIssued ==
  \A q \in Prototypes : current[q] # 0 => <<q, current[q]>> \in issued

PlanInv ==
  /\ PlanTyped /\ OneStarts /\ FirstIsUnanswered /\ ApprovalsAreIssued
  /\ \A c \in Commands : CommandOK(c)
  /\ PlanKept

-----------------------------------------------------------------------------
(* Planning: what a step leaves alone.                                     *)

\* Versions are only added, a row only filled, an approval never unsaid.
PlanGrows ==
  /\ Latest' \in Nat /\ Latest' >= Latest
  /\ \A v \in 1..Latest : wayfinder'[v] = wayfinder[v]
  /\ row # Absent => row' # Absent
  /\ contract # Absent => contract' = contract
  /\ execution # Absent => execution' = execution
  /\ issued \subseteq issued'

USE DEF Latest

\* The record a command has at each point.
LEMMA CommandIs ==
  ASSUME PlanTyped, NEW c \in Commands
  PROVE  /\ command[c].pc \in Starting \cup {"filing"} =>
              /\ command[c] = [pc |-> command[c].pc,
                               request |-> command[c].request]
              /\ command[c].request \in Requests
         /\ command[c].pc \in {"validating", "answering"} =>
              /\ command[c] = [pc |-> command[c].pc,
                               question |-> command[c].question,
                               version |-> command[c].version]
              /\ command[c].question \in Questions
              /\ command[c].version \in Nat
         /\ command[c].pc = "closing" =>
              /\ command[c].by \in {"start", "close"}
              /\ command[c].plan \in PlanFiles
              /\ command[c].closes \in Nat /\ command[c].graph \in GraphType
         /\ command[c].pc \in Closed =>
              /\ command[c] = [pc |-> command[c].pc, by |-> command[c].by,
                               plan |-> command[c].plan]
              /\ command[c].by \in {"start", "close"}
              /\ command[c].plan \in PlanFiles
<1>1. command[c] \in CommandType
  BY DEF PlanTyped
<1>2. CASE command[c] \in {Rest, [pc |-> "filed"]}
  BY <1>2 DEF Rest, Starting, Closed
<1>3. CASE command[c] \in [pc : Starting \cup {"filing"}, request : Requests]
  BY <1>3 DEF Starting, Closed
<1>4. CASE command[c] \in [pc : {"validating", "answering"},
                           question : Questions, version : Nat]
  BY <1>4 DEF Starting, Closed
<1>5. CASE command[c] \in [pc : {"closing"}, by : {"start", "close"},
                           plan : PlanFiles, closes : Nat, graph : GraphType]
  BY <1>5 DEF Starting, Closed
<1>6. CASE command[c] \in [pc : Closed, by : {"start", "close"},
                           plan : PlanFiles]
  BY <1>6 DEF Starting, Closed
<1> QED
  BY <1>1, <1>2, <1>3, <1>4, <1>5, <1>6 DEF CommandType

\* What one command knows stays true while others work.
LEMMA OthersKnow ==
  ASSUME PlanInv, PlanGrows, NEW d \in Commands, command'[d] = command[d],
         command[d].pc \in Starting => decision' = decision
  PROVE  CommandOK(d)'
<1>1. StartKnows(d) /\ AnswerKnows(d) /\ CloseKnows(d) /\ Latest \in Nat
      /\ Latest' >= Latest /\ \A v \in 1..Latest : wayfinder'[v] = wayfinder[v]
  BY DEF PlanInv, CommandOK, PlanTyped, PlanGrows
<1>3. StartKnows(d)'
  <2>1. CASE command[d].pc \in Starting
    <3>1. FirstGraph(command[d].request)' = FirstGraph(command[d].request)
      BY <2>1 DEF FirstGraph
    <3> QED  BY <1>1, <2>1, <3>1 DEF StartKnows, PlanGrows
  <2>2. CASE command[d].pc \notin Starting
    BY <1>1, <2>2 DEF StartKnows, Starting
  <2> QED  BY <2>1, <2>2
<1>4. AnswerKnows(d)'
  BY <1>1 DEF AnswerKnows, PlanGrows
<1>5. CloseKnows(d)'
  BY <1>1 DEF CloseKnows, PlanGrows, SomeGraphIsClosed, Executable
<1> QED
  BY <1>3, <1>4, <1>5 DEF CommandOK

\* A step of one command.
LEMMA OneCommandMoves ==
  ASSUME PlanInv, PlanGrows, NEW c \in Commands,
         NEW local \in CommandType, Goes(c, local),
         local.pc \in Starting => command[c].pc \in Starting \/ row = Absent,
         decision' = decision \/ command[c].pc \in Starting,
         CommandOK(c)', wayfinder' \in Seq(GraphType), UNCHANGED current,
         told' \subseteq Questions \X Commands,
         FirstIsUnanswered', PlanKept'
  PROVE  PlanInv'
<1>1. /\ PlanTyped /\ OneStarts /\ ApprovalsAreIssued
      /\ \A d \in Commands : StartKnows(d)
  BY DEF PlanInv, CommandOK
<1>2. /\ command' \in [Commands -> CommandType] /\ command'[c] = local
      /\ \A d \in Commands \ {c} : command'[d] = command[d]
  BY <1>1 DEF Goes, PlanTyped
<1>3. PlanTyped'
  BY <1>1, <1>2 DEF PlanTyped
<1>4. ASSUME NEW d \in Commands \ {c}, command[d].pc \in Starting,
             command[c].pc \in Starting \/ row = Absent
      PROVE  FALSE
  BY <1>1, <1>4 DEF OneStarts, StartKnows
<1>5. OneStarts'
  BY <1>1, <1>2, <1>4 DEF OneStarts
<1>6. ApprovalsAreIssued'
  BY <1>1 DEF ApprovalsAreIssued, PlanGrows
<1>7. \A d \in Commands : CommandOK(d)'
  BY <1>2, <1>4, OthersKnow
<1> QED
  BY <1>3, <1>5, <1>6, <1>7 DEF PlanInv

\* A step that adds no version.
LEMMA PlanStays ==
  ASSUME PlanInv, PlanGrows, UNCHANGED <<wayfinder, told>>,
         ledger'.state \in {ledger.state, "discovering"}
  PROVE  PlanKept' /\ FirstIsUnanswered' /\ wayfinder' \in Seq(GraphType)
<1>1. /\ PlanTyped /\ AnswersSurvive /\ ReadyIsDecided /\ PrototypesAreApproved
      /\ FirstIsUnanswered
  BY DEF PlanInv, PlanKept
<1>2. AnswersSurvive'
  BY <1>1 DEF AnswersSurvive
<1>3. ReadyIsDecided'
  BY <1>1 DEF ReadyIsDecided, PlanGrows
<1>4. PrototypesAreApproved'
  BY <1>1 DEF PrototypesAreApproved, PlanGrows
<1>5. FirstIsUnanswered' /\ wayfinder' \in Seq(GraphType)
  BY <1>1 DEF FirstIsUnanswered, PlanTyped
<1> QED
  BY <1>2, <1>3, <1>4, <1>5 DEF PlanKept

\* A version more, which has every answer somebody was told is recorded, and an
\* approval for each prototype it answers.
LEMMA VersionIsAdded ==
  ASSUME PlanInv, NEW g \in GraphType, wayfinder' = Append(wayfinder, g),
         UNCHANGED <<ledger, row, contract, execution, issued>>,
         \A t \in told' :
           t[1] \in DOMAIN g.answers /\ g.answers[t[1]] = t[2],
         \A q \in Prototypes :
           /\ Latest >= 1 /\ q \in DOMAIN wayfinder[Latest].answers
           /\ wayfinder[Latest].answers[q] = NoOne /\ g.answers[q] # NoOne
           => <<q, Latest>> \in issued
  PROVE  /\ PlanGrows /\ PlanKept' /\ wayfinder' \in Seq(GraphType)
         /\ Latest \in Nat /\ Latest' = Latest + 1
         /\ wayfinder'[Latest + 1] = g
         /\ Latest >= 1 => FirstIsUnanswered'
<1>1. /\ PlanTyped /\ FirstIsUnanswered /\ AnswersSurvive
      /\ ReadyIsDecided /\ PrototypesAreApproved
  BY DEF PlanInv, PlanKept
<1>2. /\ Latest \in Nat /\ Latest' = Latest + 1 /\ wayfinder'[Latest + 1] = g
      /\ \A v \in 1..Latest : wayfinder'[v] = wayfinder[v]
      /\ wayfinder' \in Seq(GraphType)
  BY <1>1, AppendProperties DEF PlanTyped
<1>3. PlanGrows
  BY <1>2 DEF PlanGrows
<1>4. AnswersSurvive'
  BY <1>2 DEF AnswersSurvive
<1>5. ReadyIsDecided'
  BY <1>1, <1>2 DEF ReadyIsDecided
<1>6. PrototypesAreApproved'
  <2> SUFFICES ASSUME NEW v \in 2..(Latest + 1), NEW q \in Prototypes,
                      q \in DOMAIN wayfinder'[v - 1].answers,
                      wayfinder'[v - 1].answers[q] = NoOne,
                      wayfinder'[v].answers[q] # NoOne
               PROVE  <<q, v - 1>> \in issued
    BY <1>2 DEF PrototypesAreApproved, Prototypes
  <2>1. CASE v \in 2..Latest
    BY <1>1, <1>2, <2>1 DEF PrototypesAreApproved
  <2>2. CASE v = Latest + 1
    <3>1. v - 1 = Latest /\ Latest >= 1
      BY <1>2, <2>2
    <3> QED  BY <1>2, <2>2, <3>1
  <2> QED  BY <1>2, <2>1, <2>2
<1>7. Latest >= 1 => FirstIsUnanswered'
  BY <1>1, <1>2 DEF FirstIsUnanswered
<1> QED
  BY <1>2, <1>3, <1>4, <1>5, <1>6, <1>7 DEF PlanKept

\* A step that adds no version, closes no table and revokes nothing.
LEMMA CommandGoesOn ==
  ASSUME PlanInv, NEW c \in Commands,
         NEW local \in CommandType, Goes(c, local),
         UNCHANGED <<wayfinder, contract, execution, issued, current, told>>,
         row # Absent => row' # Absent,
         ledger'.state \in {ledger.state, "discovering"},
         local.pc \in Starting => command[c].pc \in Starting \/ row = Absent,
         decision' = decision \/ command[c].pc \in Starting,
         CommandOK(c)'
  PROVE  PlanInv'
<1>1. PlanGrows /\ told' \subseteq Questions \X Commands
  BY DEF PlanInv, PlanTyped, PlanGrows
<1> QED
  BY <1>1, PlanStays, OneCommandMoves

LEMMA InCommand ==
  ASSUME PlanInv, NEW c \in Commands, NEW local, Goes(c, local)
  PROVE  /\ command'[c] = local
         /\ StartKnows(c) /\ AnswerKnows(c) /\ CloseKnows(c) /\ PlanTyped
         /\ Latest \in Nat /\ wayfinder \in Seq(GraphType)
  BY DEF PlanInv, CommandOK, PlanTyped, Goes

LEMMA DiesKeepsPlan ==
  ASSUME PlanInv, NEW c \in Commands, Dies(c)
  PROVE  PlanInv'
<1>1. Goes(c, Rest) /\ Rest \in CommandType /\ Rest.pc \notin Starting
  BY DEF Dies, Stops, CommandType, Rest, Starting
<1>2. command'[c] = Rest
  BY <1>1, InCommand
<1>3. CommandOK(c)'
  BY <1>2 DEF CommandOK, StartKnows, AnswerKnows, CloseKnows, Rest, Starting,
              Closed
<1> QED
  BY <1>1, <1>3, CommandGoesOn DEF Dies, closing, answering

-----------------------------------------------------------------------------
(* Planning: start.                                                        *)

LEMMA StartCreatesKeepsPlan ==
  ASSUME PlanInv, NEW c \in Commands, NEW r \in Requests, StartCreates(c, r)
  PROVE  PlanInv'
<1> DEFINE local == [pc |-> "routing", request |-> r]
<1>1. /\ Goes(c, local) /\ local \in CommandType
      /\ row = Absent /\ row' # Absent /\ Startable(r)
  BY DEF StartCreates, CommandType, Starting, Absent
<1>2. command'[c] = local
  BY <1>1, InCommand
<1>3. CommandOK(c)'
  BY <1>1, <1>2 DEF CommandOK, StartKnows, AnswerKnows, CloseKnows, Starting,
                    Closed
<1> QED
  BY <1>1, <1>3, CommandGoesOn DEF StartCreates, closing, answering

\* A decision is a row.
LEMMA DecisionIsARow ==
  ASSUME NEW r
  PROVE  DecisionOn(r) # Absent
  BY DEF DecisionOn, RouteDecision, Absent

LEMMA StartDecidesKeepsPlan ==
  ASSUME PlanInv, NEW c \in Commands, StartDecides(c)
  PROVE  PlanInv'
<1> DEFINE r == command[c].request
           local == [pc |-> "decided", request |-> r]
<1>1. command[c].pc = "routing" /\ decision' = DecisionOn(r)
  BY DEF StartDecides
<1>2. /\ command[c] = [pc |-> "routing", request |-> r] /\ r \in Requests
      /\ row # Absent /\ Startable(r)
  BY <1>1, CommandIs DEF PlanInv, Starting, CommandOK, StartKnows
<1>3. Goes(c, local) /\ local \in CommandType
  BY <1>2 DEF StartDecides, CommandType, Starting
<1>4. command'[c] = local
  BY <1>3, InCommand
<1>5. CommandOK(c)'
  BY <1>1, <1>2, <1>4 DEF CommandOK, StartKnows, AnswerKnows, CloseKnows,
                          StartDecides, Starting, Closed
<1> QED
  BY <1>1, <1>3, <1>5, CommandGoesOn
  DEF StartDecides, Starting, closing, answering

LEMMA StartRoutesKeepsPlan ==
  ASSUME PlanInv, NEW c \in Commands, StartRoutes(c)
  PROVE  PlanInv'
<1> DEFINE r == command[c].request
           local == [pc |-> "routed", request |-> r]
<1>1. command[c].pc = "decided" /\ row' = decision
  BY DEF StartRoutes
<1>2. /\ command[c] = [pc |-> "decided", request |-> r] /\ r \in Requests
      /\ Startable(r) /\ decision = DecisionOn(r)
  BY <1>1, CommandIs DEF PlanInv, Starting, CommandOK, StartKnows
<1>3. row' # Absent
  BY <1>1, <1>2, DecisionIsARow
<1>4. Goes(c, local) /\ local \in CommandType
  BY <1>2 DEF StartRoutes, CommandType, Starting
<1>5. command'[c] = local
  BY <1>4, InCommand
<1>6. CommandOK(c)'
  BY <1>1, <1>2, <1>3, <1>5 DEF CommandOK, StartKnows, AnswerKnows,
     CloseKnows, StartRoutes, Starting, Closed
<1> QED
  BY <1>1, <1>3, <1>4, <1>6, CommandGoesOn
  DEF StartRoutes, Starting, closing, answering

\* The graph that begins a discovery, and the one that has nothing to ask.
LEMMA FirstGraphs ==
  ASSUME NEW r
  PROVE  /\ NoQuestions \in GraphType /\ FirstGraph(r) \in GraphType
         /\ \A q \in Prototypes : q \notin DOMAIN FirstGraph(r).answers
         /\ NothingBlocks(NoQuestions)
<1> DEFINE none == [q \in {} |-> NoOne]
           fog == [q \in {0} |-> NoOne]
<1>1. 0 \in Questions /\ 0 \notin Prototypes
  BY PlanningAssumption DEF Prototypes
<1>2. /\ none \in [{} -> Commands \cup {NoOne}]
      /\ fog \in [{0} -> Commands \cup {NoOne}]
  OBVIOUS
<1>3. none \in AnswersType /\ fog \in AnswersType
  BY <1>1, <1>2 DEF AnswersType
<1>4. /\ NoQuestions = [answers |-> none, closed |-> FALSE]
      /\ FirstGraph(r) \in {NoQuestions, [answers |-> fog, closed |-> FALSE]}
  BY DEF FirstGraph, NoQuestions, Graph
<1>5. DOMAIN none = {} /\ DOMAIN fog = {0}
  OBVIOUS
<1> HIDE DEF none, fog
<1>6. NoQuestions \in GraphType /\ FirstGraph(r) \in GraphType
  <2>1. \A a \in AnswersType : [answers |-> a, closed |-> FALSE] \in GraphType
    BY DEF GraphType
  <2> QED  BY <1>3, <1>4, <2>1
<1>7. \A q \in Prototypes : q \notin DOMAIN FirstGraph(r).answers
  BY <1>1, <1>4, <1>5
<1>8. NothingBlocks(NoQuestions)
  BY <1>4, <1>5 DEF NothingBlocks, Open
<1> QED
  BY <1>6, <1>7, <1>8

LEMMA StartSavesKeepsPlan ==
  ASSUME PlanInv, NEW c \in Commands, StartSaves(c)
  PROVE  PlanInv'
<1> DEFINE r == command[c].request
           local == [pc |-> "saved", request |-> r]
           g == FirstGraph(r)
<1>1. command[c].pc = "routed" /\ KeepsVersion(1, g)
  BY DEF StartSaves
<1>2. /\ command[c] = [pc |-> "routed", request |-> r] /\ r \in Requests
      /\ row # Absent /\ Startable(r) /\ decision = DecisionOn(r)
  BY <1>1, CommandIs DEF PlanInv, Starting, CommandOK, StartKnows
<1>3. Goes(c, local) /\ local \in CommandType
  BY <1>2 DEF StartSaves, CommandType, Starting
<1>4. /\ command'[c] = local /\ Latest \in Nat
      /\ UNCHANGED <<ledger, row, decision, contract, execution, issued,
                     current, told>>
      /\ told \subseteq Questions \X Commands
  BY <1>3, InCommand DEF StartSaves, closing, answering, PlanTyped
<1>5. PlanGrows /\ PlanKept' /\ FirstIsUnanswered'
      /\ wayfinder' \in Seq(GraphType) /\ Latest' >= 1 /\ wayfinder'[1] = g
  <2>1. CASE WritesVersion(1, g)
    <3>1. Latest = 0 /\ wayfinder' = Append(wayfinder, g)
      BY <1>4, <2>1 DEF WritesVersion
    <3>2. told = {}
      BY <3>1 DEF PlanInv, FirstIsUnanswered
    <3>3. g \in GraphType
      BY FirstGraphs
    <3> HIDE DEF g
    <3>4. /\ PlanGrows /\ PlanKept' /\ wayfinder' \in Seq(GraphType)
          /\ Latest' = Latest + 1 /\ wayfinder'[Latest + 1] = g
      BY <1>4, <3>1, <3>2, <3>3, VersionIsAdded
    <3>5. \A q \in Prototypes : q \notin DOMAIN g.answers
      BY FirstGraphs DEF g
    <3> QED  BY <1>4, <3>1, <3>2, <3>4, <3>5 DEF FirstIsUnanswered
  <2>2. CASE 1 <= Latest /\ wayfinder[1] = g /\ UNCHANGED wayfinder
    <3>1. PlanGrows
      BY <1>4, <2>2 DEF PlanGrows
    <3> QED  BY <1>4, <2>2, <3>1, PlanStays
  <2> QED  BY <1>1, <2>1, <2>2 DEF KeepsVersion
<1>6. g = FirstGraph(r)'
  BY <1>4 DEF FirstGraph
<1>7. CommandOK(c)'
  <2>1. StartKnows(c)'
    BY <1>2, <1>4, <1>5, <1>6 DEF StartKnows, Starting
  <2> QED
    BY <1>4, <2>1 DEF CommandOK, AnswerKnows, CloseKnows, Closed
<1> QED
  BY <1>1, <1>3, <1>4, <1>5, <1>7, OneCommandMoves DEF Starting

\* What is asked of the ledger takes the workflow where it asks, or is a replay.
LEMMA PlanMoves ==
  ASSUME NEW c, NEW req, NEW local, PlanMove(c, req, local)
  PROVE  Goes(c, local) /\ ledger'.state \in {ledger.state, req.next}
<1>1. PICK d : d = Advance(ledger, req.next, ResumeAfter(ledger, req), req.key,
                           req.artifacts)
  OBVIOUS
<1>2. d.state = req.next
  BY <1>1 DEF Advance
<1>3. Remember(d, req).state = d.state
  BY <1>1 DEF Remember, Advance
<1> QED
  BY <1>1, <1>2, <1>3 DEF PlanMove, AfterTransition

\* Discovery is what the request asks for, and nothing else is.
LEMMA RouteIsAsked ==
  ASSUME NEW r
  PROVE  DecisionOn(r).route = "discovery" <=> AskedRoute(r) = "discovery"
<1>1. NoOne # "discovery"
  BY DEF NoOne
<1> QED
  BY <1>1 DEF DecisionOn, RouteDecision, SelectedRoute, AskedRoute

\* The plan a start closes with is one that can be executed.
LEMMA AskedPlanIsExecutable ==
  ASSUME NEW r \in Requests, Startable(r), AskedRoute(r) # "discovery"
  PROVE  PlanOf(r) \in PlanFiles /\ Executable(PlanOf(r).slices)
<1>1. PlanOf(r) \in {r.plan, r.arguments} /\ PlanOf(r) # Absent
      /\ ValidExecution(PlanOf(r).slices)
  BY DEF PlanOf, Startable
<1>2. PlanOf(r).slices # Absent
  BY <1>1, PlanningAssumption
<1> QED
  BY <1>1, <1>2 DEF PlanFiles, Executable

LEMMA StartDiscoversKeepsPlan ==
  ASSUME PlanInv, NEW c \in Commands, StartDiscovers(c)
  PROVE  PlanInv'
<1> DEFINE r == command[c].request
           files == [pc |-> "filing", request |-> r]
           closes == [pc |-> "closing", by |-> "start", plan |-> PlanOf(r),
                      closes |-> 2, graph |-> NoQuestions]
           req == Request("created", 0, "discovering", "discover",
                          {<<"wayfinder", 1>>}, NoState)
           local == IF decision.route = "discovery" THEN files ELSE closes
<1>1. /\ command[c].pc = "saved" /\ PlanMove(c, req, local)
      /\ UNCHANGED <<row, decision, wayfinder, contract, execution, issued,
                     current, told>>
  BY DEF StartDiscovers, closing, answering
<1>2. req.next = "discovering"
  BY DEF Request
<1> HIDE DEF local, req
<1>3. Goes(c, local) /\ ledger'.state \in {ledger.state, "discovering"}
  BY <1>1, <1>2, PlanMoves
<1>4. /\ command'[c] = local /\ r \in Requests /\ Startable(r)
      /\ decision = DecisionOn(r)
      /\ Latest >= 1 /\ wayfinder[1] = FirstGraph(r) /\ Latest \in Nat
  BY <1>1, <1>3, InCommand, CommandIs DEF StartKnows, Starting
<1>5. CASE decision.route = "discovery"
  <2>1. local = files
    BY <1>5 DEF local
  <2>2. files \in CommandType /\ files.pc = "filing"
    BY <1>4 DEF CommandType
  <2>3. r.graph # Absent
    BY <1>4, <1>5, RouteIsAsked DEF Startable
  <2>4. CommandOK(c)'
    BY <1>4, <2>1, <2>2, <2>3
    DEF CommandOK, StartKnows, AnswerKnows, CloseKnows,
                            Starting, Closed
  <2> QED
    BY <1>1, <1>3, <2>1, <2>2, <2>4, CommandGoesOn DEF Starting
<1>6. CASE decision.route # "discovery"
  <2>1. local = closes
    BY <1>6 DEF local
  <2>2. PlanOf(r) \in PlanFiles /\ Executable(PlanOf(r).slices)
    BY <1>4, <1>6, RouteIsAsked, AskedPlanIsExecutable
  <2>3. /\ NoQuestions \in GraphType /\ NothingBlocks(NoQuestions)
        /\ wayfinder[1] = NoQuestions
    BY <1>4, <1>6, FirstGraphs DEF FirstGraph
  <2>4. closes \in CommandType
    BY <2>2, <2>3 DEF CommandType
  <2>5. /\ closes.pc = "closing" /\ closes.closes - 1 = 1
        /\ closes.graph = NoQuestions /\ closes.plan = PlanOf(r)
    OBVIOUS
  <2> HIDE DEF closes
  <2>6. CloseKnows(c)'
    BY <1>1, <1>4, <2>1, <2>2, <2>3, <2>5 DEF CloseKnows, Closed
  <2>7. StartKnows(c)' /\ AnswerKnows(c)'
    BY <1>4, <2>1, <2>5 DEF StartKnows, AnswerKnows, Starting
  <2> QED
    BY <1>1, <1>3, <2>1, <2>4, <2>5, <2>6, <2>7, CommandGoesOn
    DEF Starting, CommandOK
<1> QED
  BY <1>5, <1>6

LEMMA StartFilesKeepsPlan ==
  ASSUME PlanInv, NEW c \in Commands, StartFiles(c)
  PROVE  PlanInv'
<1> DEFINE r == command[c].request
           a == [q \in r.graph.questions |-> NoOne]
           g == Graph(a, FALSE)
           local == [pc |-> "filed"]
<1>1. /\ command[c].pc = "filing" /\ WritesVersion(2, g) /\ Goes(c, local)
      /\ UNCHANGED <<ledger, row, decision, contract, execution, issued,
                     current, told>>
  BY DEF StartFiles, closing, answering
<1>2. /\ command'[c] = local /\ local \in CommandType /\ Latest \in Nat
      /\ told \subseteq Questions \X Commands
  BY <1>1, InCommand DEF CommandType, PlanTyped
<1>3. /\ Latest = 1 /\ wayfinder' = Append(wayfinder, g) /\ told = {}
      /\ \A q \in Prototypes : q \notin DOMAIN wayfinder[1].answers
  <2>1. 2 = Latest + 1 /\ wayfinder' = Append(wayfinder, g)
    BY <1>1 DEF WritesVersion
  <2>2. FirstIsUnanswered
    BY DEF PlanInv
  <2>3. Latest = 1
    <3>1. Latest \in Nat /\ 2 = Latest + 1
      BY <1>2, <2>1
    <3>2. \A n \in Nat : 2 = n + 1 => n = 1
      OBVIOUS
    <3> QED  BY <3>1, <3>2
  <2>4. told = {} /\ \A q \in Prototypes : q \notin DOMAIN wayfinder[1].answers
    BY <2>2, <2>3 DEF FirstIsUnanswered
  <2> QED  BY <2>1, <2>3, <2>4
<1>4. g \in GraphType
  <2>1. r \in Requests /\ r.graph # Absent
    BY <1>1, CommandIs, InCommand DEF StartKnows, Starting
  <2>2. r.graph.questions \subseteq Questions
    BY <2>1, PlanningAssumption
  <2>3. a \in [r.graph.questions -> Commands \cup {NoOne}]
    OBVIOUS
  <2>4. a \in AnswersType
    BY <2>2, <2>3 DEF AnswersType
  <2> QED
    BY <2>4 DEF Graph, GraphType
<1> HIDE DEF g, local
<1>5. /\ PlanGrows /\ PlanKept' /\ wayfinder' \in Seq(GraphType)
      /\ FirstIsUnanswered'
  BY <1>1, <1>3, <1>4, VersionIsAdded
<1>6. CommandOK(c)'
  BY <1>2 DEF CommandOK, StartKnows, AnswerKnows, CloseKnows, Starting, Closed,
              local
<1> QED
  BY <1>1, <1>2, <1>5, <1>6, OneCommandMoves DEF Starting, local

LEMMA StartDiscoveryKeepsPlan ==
  ASSUME PlanInv, NEW c \in Commands, StartDiscovery(c)
  PROVE  PlanInv'
<1>1. Goes(c, Rest) /\ Rest \in CommandType /\ Rest.pc \notin Starting
  BY DEF StartDiscovery, Stops, CommandType, Rest, Starting
<1>2. command'[c] = Rest
  BY <1>1, InCommand
<1>3. CommandOK(c)'
  BY <1>2 DEF CommandOK, StartKnows, AnswerKnows, CloseKnows, Rest, Starting,
              Closed
<1> QED
  BY <1>1, <1>3, CommandGoesOn DEF StartDiscovery, answering

-----------------------------------------------------------------------------
(* Planning: answers and approvals.                                        *)

\* The versions of a graph, and the questions of one.
LEMMA VersionIsGraph ==
  ASSUME PlanInv, NEW v \in 1..Latest
  PROVE  /\ wayfinder[v] \in GraphType
         /\ Open(wayfinder[v]) \subseteq Questions
<1>1. wayfinder[v] \in GraphType
  BY DEF PlanInv, PlanTyped
<1>2. wayfinder[v].answers \in AnswersType
  BY <1>1 DEF GraphType
<1>3. DOMAIN wayfinder[v].answers \subseteq Questions
  BY <1>2 DEF AnswersType
<1> QED
  BY <1>1, <1>3 DEF Open

LEMMA AnswerReadsKeepsPlan ==
  ASSUME PlanInv, NEW c \in Commands, NEW q, AnswerReads(c, q)
  PROVE  PlanInv'
<1> DEFINE local == [pc |-> IF q \in Prototypes THEN "validating"
                            ELSE "answering",
                     question |-> q, version |-> Latest]
<1>1. /\ Goes(c, local) /\ wayfinder # <<>> /\ q \in Open(wayfinder[Latest])
      /\ UNCHANGED <<ledger, row, decision, wayfinder, contract, execution,
                     issued, current, told>>
  BY DEF AnswerReads, closing, answering
<1>2. command'[c] = local /\ Latest \in Nat /\ wayfinder \in Seq(GraphType)
  BY <1>1, InCommand
<1>3. Latest \in 1..Latest
  BY <1>1, <1>2, EmptySeq
<1>4. q \in Questions
  BY <1>1, <1>3, VersionIsGraph
<1>5. local \in CommandType
  BY <1>2, <1>4 DEF CommandType
<1>6. AnswerKnows(c)'
  BY <1>1, <1>2, <1>3 DEF AnswerKnows
<1>7. StartKnows(c)' /\ CloseKnows(c)'
  BY <1>2 DEF StartKnows, CloseKnows, Starting, Closed
<1>8. local.pc \notin Starting
  BY DEF Starting
<1> QED
  BY <1>1, <1>5, <1>6, <1>7, <1>8, CommandGoesOn DEF CommandOK

LEMMA AnswerValidatesKeepsPlan ==
  ASSUME PlanInv, NEW c \in Commands, AnswerValidates(c)
  PROVE  PlanInv'
<1> DEFINE q == command[c].question
           local == [pc |-> "answering", question |-> q,
                     version |-> command[c].version]
<1>1. /\ command[c].pc = "validating" /\ Approved(q, command[c].version)
      /\ UNCHANGED <<ledger, row, decision, wayfinder, contract, execution,
                     issued, current, told>>
  BY DEF AnswerValidates, closing
<1>2. /\ command[c] = [pc |-> "validating", question |-> q,
                       version |-> command[c].version]
      /\ q \in Questions /\ command[c].version \in Nat
  BY <1>1, CommandIs DEF PlanInv
<1>3. Goes(c, local) /\ local \in CommandType /\ local.pc \notin Starting
  BY <1>2 DEF AnswerValidates, CommandType, Starting
<1>4. /\ command'[c] = local /\ AnswerKnows(c)
  BY <1>3, InCommand
<1>5. /\ command[c].version \in 1..Latest
      /\ q \in Open(wayfinder[command[c].version])
  BY <1>1, <1>4 DEF AnswerKnows
<1>6. q \in Prototypes => <<q, command[c].version>> \in issued
  BY <1>1, <1>5 DEF PlanInv, ApprovalsAreIssued, Approved
<1>7. AnswerKnows(c)'
  BY <1>1, <1>4, <1>5, <1>6 DEF AnswerKnows
<1>8. StartKnows(c)' /\ CloseKnows(c)'
  BY <1>4 DEF StartKnows, CloseKnows, Starting, Closed
<1> QED
  BY <1>1, <1>3, <1>7, <1>8, CommandGoesOn DEF CommandOK

LEMMA AnswerWritesKeepsPlan ==
  ASSUME PlanInv, NEW c \in Commands, AnswerWrites(c)
  PROVE  PlanInv'
<1> DEFINE q == command[c].question
           old == wayfinder[command[c].version]
           g == [old EXCEPT !.answers = [@ EXCEPT ![q] = c]]
<1>1. /\ command[c].pc = "answering"
      /\ WritesVersion(command[c].version + 1, g)
      /\ told' = told \cup {<<q, c>>} /\ Goes(c, Rest)
      /\ UNCHANGED <<ledger, row, decision, contract, execution, issued,
                     current>>
  BY DEF AnswerWrites, Stops, closing
<1>2. /\ command'[c] = Rest /\ AnswerKnows(c) /\ Latest \in Nat
      /\ told \subseteq Questions \X Commands /\ q \in Questions
  BY <1>1, InCommand, CommandIs DEF PlanTyped
<1>3. /\ command[c].version \in 1..Latest /\ q \in Open(old)
      /\ q \in Prototypes => <<q, command[c].version>> \in issued
  BY <1>1, <1>2 DEF AnswerKnows
<1>4. /\ command[c].version = Latest /\ Latest >= 1
      /\ wayfinder' = Append(wayfinder, g)
  BY <1>1, <1>2, <1>3 DEF WritesVersion
<1>5. /\ old \in GraphType /\ old.answers[q] = NoOne
      /\ q \in DOMAIN old.answers
  BY <1>3, VersionIsGraph DEF Open
<1>6. /\ g \in GraphType /\ DOMAIN g.answers = DOMAIN old.answers
      /\ g.answers[q] = c
      /\ \A o \in DOMAIN old.answers \ {q} : g.answers[o] = old.answers[o]
  <2> DEFINE a == [old.answers EXCEPT ![q] = c]
  <2>1. old.answers \in AnswersType /\ old.closed \in BOOLEAN
        /\ old = [answers |-> old.answers, closed |-> old.closed]
    BY <1>5 DEF GraphType
  <2>2. /\ a \in AnswersType /\ DOMAIN a = DOMAIN old.answers /\ a[q] = c
        /\ \A o \in DOMAIN old.answers \ {q} : a[o] = old.answers[o]
    BY <1>5, <2>1 DEF AnswersType
  <2>3. g = [answers |-> a, closed |-> old.closed]
    BY <2>1
  <2> HIDE DEF a
  <2> QED  BY <2>1, <2>2, <2>3 DEF GraphType
<1> HIDE DEF g
<1>7. \A t \in told' : t[1] \in DOMAIN g.answers /\ g.answers[t[1]] = t[2]
  <2> SUFFICES ASSUME NEW t \in told'
               PROVE  t[1] \in DOMAIN g.answers /\ g.answers[t[1]] = t[2]
    OBVIOUS
  <2>1. CASE t = <<q, c>>
    BY <1>5, <1>6, <2>1
  <2>2. CASE t \in told
    <3>1. t[1] \in DOMAIN old.answers /\ old.answers[t[1]] = t[2]
      BY <1>4, <2>2 DEF PlanInv, PlanKept, AnswersSurvive
    <3>2. t[2] # NoOne
      BY <1>2, <2>2, PlanningAssumption
    <3> QED  BY <1>5, <1>6, <3>1, <3>2
  <2> QED  BY <1>1, <2>1, <2>2
<1>8. \A o \in Prototypes :
        /\ o \in DOMAIN old.answers /\ old.answers[o] = NoOne
        /\ g.answers[o] # NoOne
        => <<o, Latest>> \in issued
  BY <1>3, <1>4, <1>6
<1>9. /\ PlanGrows /\ PlanKept' /\ wayfinder' \in Seq(GraphType)
      /\ FirstIsUnanswered'
  BY <1>1, <1>4, <1>6, <1>7, <1>8, VersionIsAdded
<1>10. CommandOK(c)' /\ Rest \in CommandType /\ Rest.pc \notin Starting
  BY <1>2 DEF CommandOK, StartKnows, AnswerKnows, CloseKnows, Rest, Starting,
              Closed, CommandType
<1>11. told' \subseteq Questions \X Commands
  BY <1>1, <1>2
<1> QED
  BY <1>1, <1>9, <1>10, <1>11, OneCommandMoves

LEMMA ApproveKeepsPlan ==
  ASSUME PlanInv, NEW q \in Prototypes, Approve(q)
  PROVE  PlanInv'
<1>1. /\ issued' = issued \cup {<<q, Latest>>}
      /\ current' = [current EXCEPT ![q] = Latest]
      /\ UNCHANGED <<ledger, row, decision, wayfinder, contract, execution,
                     told, command>>
  BY DEF Approve, closing
<1>2. PlanTyped /\ Latest \in Nat /\ ApprovalsAreIssued /\ OneStarts
  BY DEF PlanInv, PlanTyped
<1>3. PlanGrows
  BY <1>1, <1>2 DEF PlanGrows
<1>4. PlanKept' /\ FirstIsUnanswered'
  BY <1>1, <1>3, PlanStays
<1>5. PlanTyped' /\ ApprovalsAreIssued' /\ OneStarts'
  BY <1>1, <1>2 DEF PlanTyped, ApprovalsAreIssued, OneStarts
<1>6. \A d \in Commands : CommandOK(d)'
  BY <1>1, <1>3, OthersKnow
<1> QED
  BY <1>4, <1>5, <1>6 DEF PlanInv

LEMMA RevokeKeepsPlan ==
  ASSUME PlanInv, NEW q \in Prototypes, Revoke(q)
  PROVE  PlanInv'
<1>1. /\ current' = [current EXCEPT ![q] = 0]
      /\ UNCHANGED <<ledger, row, decision, wayfinder, contract, execution,
                     issued, told, command>>
  BY DEF Revoke, closing
<1>2. PlanTyped /\ Latest \in Nat /\ ApprovalsAreIssued /\ OneStarts
  BY DEF PlanInv, PlanTyped
<1>3. PlanGrows
  BY <1>1, <1>2 DEF PlanGrows
<1>4. PlanKept' /\ FirstIsUnanswered'
  BY <1>1, <1>3, PlanStays
<1>5. PlanTyped' /\ ApprovalsAreIssued' /\ OneStarts'
  BY <1>1, <1>2 DEF PlanTyped, ApprovalsAreIssued, OneStarts
<1>6. \A d \in Commands : CommandOK(d)'
  BY <1>1, <1>3, OthersKnow
<1> QED
  BY <1>4, <1>5, <1>6 DEF PlanInv

-----------------------------------------------------------------------------
(* Planning: closing.                                                      *)

LEMMA CloseReadsKeepsPlan ==
  ASSUME PlanInv, NEW c \in Commands, NEW plan \in Plans, CloseReads(c, plan)
  PROVE  PlanInv'
<1> DEFINE g == wayfinder[Latest]
           local == [pc |-> "closing", by |-> "close", plan |-> plan,
                     closes |-> Latest + 1, graph |-> g]
<1>1. /\ Goes(c, local) /\ wayfinder # <<>>
      /\ Decided(g) /\ ValidExecution(plan.slices)
      /\ UNCHANGED <<ledger, row, decision, wayfinder, contract, execution,
                     issued, current, told>>
  BY DEF CloseReads, closing, answering
<1>2. command'[c] = local /\ Latest \in Nat /\ wayfinder \in Seq(GraphType)
  BY <1>1, InCommand
<1>3. Latest \in 1..Latest
  BY <1>1, <1>2, EmptySeq
<1>4. g \in GraphType /\ NothingBlocks(g)
  BY <1>1, <1>3, VersionIsGraph DEF Decided, NothingBlocks
<1>5. Executable(plan.slices) /\ plan \in PlanFiles
  BY <1>1, PlanningAssumption DEF Executable, PlanFiles
<1>6. local \in CommandType
  BY <1>2, <1>4, <1>5 DEF CommandType
<1>7. /\ local.pc = "closing" /\ local.closes - 1 = Latest /\ local.graph = g
      /\ local.plan = plan
  BY <1>2
<1> HIDE DEF local
<1>8. CloseKnows(c)'
  BY <1>1, <1>2, <1>3, <1>4, <1>5, <1>7 DEF CloseKnows, Closed
<1>9. StartKnows(c)' /\ AnswerKnows(c)' /\ local.pc \notin Starting
  BY <1>2, <1>7 DEF StartKnows, AnswerKnows, Starting
<1> QED
  BY <1>1, <1>6, <1>8, <1>9, CommandGoesOn DEF CommandOK

LEMMA CloseSavesKeepsPlan ==
  ASSUME PlanInv, NEW c \in Commands, CloseSaves(c)
  PROVE  PlanInv'
<1> DEFINE n == command[c].closes
           old == command[c].graph
           g == [old EXCEPT !.closed = TRUE]
           local == [pc |-> "contracting", by |-> command[c].by,
                     plan |-> command[c].plan]
<1>1. /\ command[c].pc = "closing" /\ KeepsVersion(n, g) /\ Goes(c, local)
      /\ UNCHANGED <<ledger, row, decision, contract, execution, issued,
                     current, told>>
  BY DEF CloseSaves, closing, answering
<1>2. /\ command'[c] = local /\ CloseKnows(c) /\ Latest \in Nat
      /\ command[c].by \in {"start", "close"} /\ command[c].plan \in PlanFiles
      /\ n \in Nat /\ old \in GraphType /\ told \subseteq Questions \X Commands
  BY ZenonT(60), <1>1, InCommand, CommandIs DEF PlanTyped
<1>3. /\ n - 1 \in 1..Latest /\ old = wayfinder[n - 1] /\ NothingBlocks(old)
      /\ Executable(command[c].plan.slices)
  BY <1>1, <1>2 DEF CloseKnows
<1>4. local \in CommandType
  BY <1>2 DEF CommandType, Closed
<1>5. g \in GraphType /\ g.closed /\ g.answers = old.answers
  BY <1>2 DEF GraphType
<1>6. NothingBlocks(g)
  BY <1>3, <1>5 DEF NothingBlocks, Open
<1>7. local.pc = "contracting" /\ local.plan = command[c].plan
  OBVIOUS
<1> HIDE DEF g, local
<1>8. /\ PlanGrows /\ PlanKept' /\ FirstIsUnanswered'
      /\ wayfinder' \in Seq(GraphType) /\ SomeGraphIsClosed'
  <2>1. CASE WritesVersion(n, g)
    <3>1. n = Latest + 1 /\ wayfinder' = Append(wayfinder, g) /\ Latest >= 1
      BY <1>2, <1>3, <2>1 DEF WritesVersion
    <3>2. old = wayfinder[Latest]
      BY <1>2, <1>3, <3>1
    <3>3. \A t \in told' :
            t[1] \in DOMAIN g.answers /\ g.answers[t[1]] = t[2]
      BY <1>1, <1>5, <3>2 DEF PlanInv, PlanKept, AnswersSurvive
    <3>4. /\ PlanGrows /\ PlanKept' /\ FirstIsUnanswered'
          /\ wayfinder' \in Seq(GraphType)
          /\ Latest' = Latest + 1 /\ wayfinder'[Latest + 1] = g
      BY <1>1, <1>5, <3>1, <3>2, <3>3, VersionIsAdded
    <3> QED  BY <1>2, <1>5, <1>6, <3>4 DEF SomeGraphIsClosed
  <2>2. CASE n <= Latest /\ wayfinder[n] = g /\ UNCHANGED wayfinder
    <3>1. PlanGrows
      BY <1>1, <1>2, <2>2 DEF PlanGrows
    <3>2. n \in 1..Latest
      BY <1>2, <1>3, <2>2
    <3>3. SomeGraphIsClosed'
      BY <1>5, <1>6, <2>2, <3>2 DEF SomeGraphIsClosed
    <3> QED  BY <1>1, <2>2, <3>1, <3>3, PlanStays
  <2> QED  BY <1>1, <2>1, <2>2 DEF KeepsVersion
<1>9. CommandOK(c)'
  <2>1. CloseKnows(c)'
    BY <1>2, <1>3, <1>7, <1>8 DEF CloseKnows, Closed
  <2> QED
    BY <1>2, <1>7, <2>1 DEF CommandOK, StartKnows, AnswerKnows, Starting
<1> QED
  BY <1>1, <1>2, <1>4, <1>7, <1>8, <1>9, OneCommandMoves DEF Starting

\* A closing beyond its first table.
LEMMA InClosing ==
  ASSUME PlanInv, NEW c \in Commands, command[c].pc \in Closed
  PROVE  /\ command[c].by \in {"start", "close"}
         /\ command[c].plan \in PlanFiles
         /\ command[c] = [pc |-> command[c].pc, by |-> command[c].by,
                          plan |-> command[c].plan]
         /\ Executable(command[c].plan.slices) /\ SomeGraphIsClosed
  BY CommandIs DEF PlanInv, CommandOK, CloseKnows

LEMMA CloseContractsKeepsPlan ==
  ASSUME PlanInv, NEW c \in Commands, CloseContracts(c)
  PROVE  PlanInv'
<1> DEFINE plan == command[c].plan
           own == [by |-> command[c].by, criteria |-> Criteria(plan.slices)]
           local == [pc |-> "graphing", by |-> command[c].by, plan |-> plan]
<1>1. /\ command[c].pc = "contracting"
      /\ Admits(contract, own) /\ contract' = Keeps(contract, own)
      /\ UNCHANGED <<ledger, row, decision, wayfinder, execution, issued,
                     current, told>>
  BY DEF CloseContracts, answering
<1>2. /\ command[c].by \in {"start", "close"} /\ plan \in PlanFiles
      /\ command[c] = [pc |-> "contracting", by |-> command[c].by,
                       plan |-> plan]
      /\ Executable(plan.slices) /\ SomeGraphIsClosed
  BY <1>1, InClosing DEF Closed
<1>3. Goes(c, local) /\ local \in CommandType
  BY <1>2 DEF CloseContracts, CommandType, Closed
<1>4. command'[c] = local /\ Latest \in Nat /\ PlanTyped
  BY <1>3, InCommand
<1>5. /\ contract' # Absent /\ contract'.criteria = Criteria(plan.slices)
      /\ contract # Absent => contract' = contract
  BY <1>1 DEF Admits, Keeps, Absent
<1>6. local.pc = "graphing" /\ local.plan = plan
  OBVIOUS
<1> HIDE DEF own, local
<1>7. PlanGrows
  BY <1>1, <1>4, <1>5 DEF PlanGrows
<1>8. CloseKnows(c)'
  BY <1>1, <1>2, <1>4, <1>5, <1>6 DEF CloseKnows, Closed, SomeGraphIsClosed
<1>9. StartKnows(c)' /\ AnswerKnows(c)' /\ local.pc \notin Starting
  BY <1>4, <1>6 DEF StartKnows, AnswerKnows, Starting
<1>10. PlanKept' /\ FirstIsUnanswered' /\ wayfinder' \in Seq(GraphType)
  BY <1>1, <1>7, PlanStays
<1>11. told' \subseteq Questions \X Commands
  BY <1>1, <1>4 DEF PlanTyped
<1> QED
  BY <1>1, <1>3, <1>7, <1>8, <1>9, <1>10, <1>11, OneCommandMoves
  DEF CommandOK

LEMMA CloseGraphsKeepsPlan ==
  ASSUME PlanInv, NEW c \in Commands, CloseGraphs(c)
  PROVE  PlanInv'
<1> DEFINE plan == command[c].plan
           local == [pc |-> "readying", by |-> command[c].by, plan |-> plan]
<1>1. /\ command[c].pc = "graphing"
      /\ Admits(execution, plan.slices)
      /\ execution' = Keeps(execution, plan.slices)
      /\ UNCHANGED <<ledger, row, decision, wayfinder, contract, issued,
                     current, told>>
  BY DEF CloseGraphs, answering
<1>2. /\ command[c].by \in {"start", "close"} /\ plan \in PlanFiles
      /\ command[c] = [pc |-> "graphing", by |-> command[c].by, plan |-> plan]
      /\ Executable(plan.slices) /\ SomeGraphIsClosed
  BY <1>1, InClosing DEF Closed
<1>3. Goes(c, local) /\ local \in CommandType
  BY <1>2 DEF CloseGraphs, CommandType, Closed
<1>4. command'[c] = local /\ Latest \in Nat /\ PlanTyped /\ CloseKnows(c)
  BY <1>3, InCommand
<1>5. contract # Absent /\ contract.criteria = Criteria(plan.slices)
  BY <1>1, <1>4 DEF CloseKnows, Closed
<1>6. execution' = plan.slices /\ (execution # Absent => execution' = execution)
  BY <1>1 DEF Admits, Keeps
<1>7. local.pc = "readying" /\ local.plan = plan
  OBVIOUS
<1> HIDE DEF local
<1>8. PlanGrows
  BY <1>1, <1>4, <1>6 DEF PlanGrows
<1>9. CloseKnows(c)'
  BY <1>1, <1>2, <1>4, <1>5, <1>6, <1>7
  DEF CloseKnows, Closed, SomeGraphIsClosed
<1>10. StartKnows(c)' /\ AnswerKnows(c)' /\ local.pc \notin Starting
  BY <1>4, <1>7 DEF StartKnows, AnswerKnows, Starting
<1>11. PlanKept' /\ FirstIsUnanswered' /\ wayfinder' \in Seq(GraphType)
  BY <1>1, <1>8, PlanStays
<1>12. told' \subseteq Questions \X Commands
  BY <1>1, <1>4 DEF PlanTyped
<1> QED
  BY <1>1, <1>3, <1>8, <1>9, <1>10, <1>11, <1>12, OneCommandMoves
  DEF CommandOK

\* Whoever makes the workflow ready has written what it is to be ready with.
LEMMA CloseReadiesKeepsPlan ==
  ASSUME PlanInv, NEW c \in Commands, CloseReadies(c)
  PROVE  PlanInv'
<1> DEFINE plan == command[c].plan
           local == [pc |-> "handing", by |-> command[c].by, plan |-> plan]
           req == Request("discovering", 1, "ready", "ready",
                          {<<"contract", 1>>, <<"execution", 1>>}, NoState)
<1>1. /\ command[c].pc = "readying"
      /\ PlanMove(c, req, [command[c] EXCEPT !.pc = "handing"])
      /\ UNCHANGED <<row, decision, wayfinder, contract, execution, issued,
                     current, told>>
  BY DEF CloseReadies, closing, answering
<1>2. /\ command[c].by \in {"start", "close"} /\ plan \in PlanFiles
      /\ command[c] = [pc |-> "readying", by |-> command[c].by, plan |-> plan]
      /\ Executable(plan.slices) /\ SomeGraphIsClosed
  BY <1>1, InClosing DEF Closed
<1>3. [command[c] EXCEPT !.pc = "handing"] = local /\ local \in CommandType
  BY <1>2 DEF CommandType, Closed
<1> HIDE DEF req
<1>4. Goes(c, local)
  BY <1>1, <1>3, PlanMoves
<1>5. /\ command'[c] = local /\ Latest \in Nat /\ CloseKnows(c) /\ PlanTyped
  BY <1>4, InCommand
<1>6. /\ contract # Absent /\ contract.criteria = Criteria(plan.slices)
      /\ execution = plan.slices
  BY <1>1, <1>5 DEF CloseKnows, Closed
<1>7. local.pc = "handing" /\ local.plan = plan
  OBVIOUS
<1> HIDE DEF local
<1>8. PlanGrows
  BY <1>1, <1>5 DEF PlanGrows
<1>9. CloseKnows(c)'
  BY <1>1, <1>2, <1>5, <1>6, <1>7 DEF CloseKnows, Closed, SomeGraphIsClosed
<1>10. StartKnows(c)' /\ AnswerKnows(c)' /\ local.pc \notin Starting
  BY <1>5, <1>7 DEF StartKnows, AnswerKnows, Starting
<1>11. PlanKept'
  <2>1. AnswersSurvive' /\ PrototypesAreApproved'
    BY <1>1 DEF PlanInv, PlanKept, AnswersSurvive, PrototypesAreApproved
  <2>2. ReadyIsDecided'
    BY <1>1, <1>2, <1>6
    DEF ReadyIsDecided, SomeGraphIsClosed, NothingBlocks, Executable
  <2> QED  BY <2>1, <2>2 DEF PlanKept
<1>12. /\ told' \subseteq Questions \X Commands /\ wayfinder' \in Seq(GraphType)
       /\ FirstIsUnanswered'
  BY <1>1, <1>5 DEF PlanTyped, PlanInv, FirstIsUnanswered
<1> QED
  BY <1>1, <1>3, <1>4, <1>8, <1>9, <1>10, <1>11, <1>12, OneCommandMoves
  DEF CommandOK

LEMMA CloseHandsKeepsPlan ==
  ASSUME PlanInv, NEW c \in Commands, CloseHands(c)
  PROVE  PlanInv'
<1>1. Goes(c, Rest) /\ Rest \in CommandType /\ Rest.pc \notin Starting
  BY DEF CloseHands, Stops, CommandType, Rest, Starting
<1>2. command'[c] = Rest
  BY <1>1, InCommand
<1>3. CommandOK(c)'
  BY <1>2 DEF CommandOK, StartKnows, AnswerKnows, CloseKnows, Rest, Starting,
              Closed
<1> QED
  BY <1>1, <1>3, CommandGoesOn DEF CloseHands, answering

-----------------------------------------------------------------------------
(* Planning: the invariant.                                                *)

LEMMA PlanInitInv == PlanInit => PlanInv
<1> SUFFICES ASSUME PlanInit
             PROVE  PlanInv
  OBVIOUS
<1>1. /\ wayfinder = <<>> /\ Latest = 0 /\ told = {} /\ issued = {}
      /\ current = [q \in Prototypes |-> 0]
      /\ command = [c \in Commands |-> Rest] /\ ledger.state = "created"
  BY DEF PlanInit, NewLedger
<1>2. PlanTyped
  BY <1>1 DEF PlanTyped, CommandType
<1>3. OneStarts /\ FirstIsUnanswered /\ ApprovalsAreIssued
  BY <1>1 DEF OneStarts, FirstIsUnanswered, ApprovalsAreIssued, Rest, Starting
<1>4. \A c \in Commands : CommandOK(c)
  BY <1>1 DEF CommandOK, StartKnows, AnswerKnows, CloseKnows, Rest, Starting,
              Closed
<1>5. PlanKept
  BY <1>1 DEF PlanKept, AnswersSurvive, ReadyIsDecided, PrototypesAreApproved
<1> QED
  BY <1>2, <1>3, <1>4, <1>5 DEF PlanInv

LEMMA PlanNextInv == PlanInv /\ [PlanNext]_planVars => PlanInv'
<1> SUFFICES ASSUME PlanInv, [PlanNext]_planVars
             PROVE  PlanInv'
  OBVIOUS
<1>1. ASSUME NEW c \in Commands, StartStep(c)
      PROVE  PlanInv'
  BY <1>1, StartCreatesKeepsPlan, StartDecidesKeepsPlan, StartRoutesKeepsPlan,
     StartSavesKeepsPlan, StartDiscoversKeepsPlan, StartFilesKeepsPlan,
     StartDiscoveryKeepsPlan
  DEF StartStep
<1>2. ASSUME NEW c \in Commands, AnswerStep(c)
      PROVE  PlanInv'
  BY <1>2, AnswerReadsKeepsPlan, AnswerValidatesKeepsPlan,
     AnswerWritesKeepsPlan
  DEF AnswerStep, AnswerFrontier
<1>3. ASSUME NEW c \in Commands, CloseStep(c)
      PROVE  PlanInv'
  BY <1>3, CloseReadsKeepsPlan, CloseSavesKeepsPlan, CloseContractsKeepsPlan,
     CloseGraphsKeepsPlan, CloseReadiesKeepsPlan, CloseHandsKeepsPlan
  DEF CloseStep
<1>4. ASSUME NEW c \in Commands, Dies(c)
      PROVE  PlanInv'
  BY <1>4, DiesKeepsPlan
<1>5. ASSUME NEW q \in Prototypes, Approve(q) \/ Revoke(q)
      PROVE  PlanInv'
  BY <1>5, ApproveKeepsPlan, RevokeKeepsPlan
<1>6. CASE UNCHANGED planVars
  <2>1. PlanGrows /\ PlanTyped' /\ OneStarts' /\ ApprovalsAreIssued'
    BY <1>6 DEF planVars, PlanGrows, PlanInv, PlanTyped, OneStarts,
                ApprovalsAreIssued
  <2> QED
    BY <1>6, <2>1, PlanStays, OthersKnow DEF planVars, PlanInv
<1> QED
  BY <1>1, <1>2, <1>3, <1>4, <1>5, <1>6 DEF PlanNext

\* However many commands start, answer, approve and close at once and die
\* between their writes: no answer that was reported as recorded is lost, what
\* is ready has a decided graph, a contract and slices that can be executed,
\* and a prototype is answered on the graph its approval was given on
\* (workflowAnswer, Engine.Close).
THEOREM PlansAreKept == PlanSpec => []PlanKept
<1>1. PlanInv => PlanKept
  BY DEF PlanInv
<1> QED
  BY <1>1, PlanInitInv, PlanNextInv, PTL DEF PlanSpec

-----------------------------------------------------------------------------
(* Installations.                                                          *)

Active(p) == inst[p].pc # "idle"

SnapshotOf(p) == snapshots[inst[p].snap]

\* What runs installs a version, and finds its snapshot.
HasBegun ==
  \A p \in Installers :
    Active(p) => /\ inst[p].version \in Versions
                 /\ inst[p].snap \in DOMAIN snapshots

TypeInv == TypeOK /\ HasBegun

-----------------------------------------------------------------------------
(* Types.                                                                  *)

\* A manifest is a function from some of its files to versions.
LEMMA ManifestFacts ==
  ASSUME NEW S, NEW owns
  PROVE  owns \in Manifests(S) <=>
           DOMAIN owns \subseteq S /\ owns \in [DOMAIN owns -> Versions]
  BY DEF Manifests

\* Nothing is owned by an empty manifest.
LEMMA NothingIsOwned ==
  ASSUME NEW S
  PROVE  <<>> \in Manifests(S)
<1>1. <<>> \in [{} -> Versions]
  OBVIOUS
<1> QED
  BY <1>1 DEF Manifests

\* What a version ships is a manifest.
LEMMA ShippedIsManifest ==
  ASSUME NEW v \in Versions, NEW S
  PROVE  Shipped(v, S) \in Manifests(S)
<1> DEFINE D == {g \in S : Ships(v, g)}
<1>1. Shipped(v, S) \in [D -> Versions] /\ D \subseteq S
  BY DEF Shipped
<1> HIDE DEF D
<1> QED
  BY <1>1 DEF Manifests

\* A manifest that says a version of one more file is a manifest.
LEMMA RecordsIsManifest ==
  ASSUME NEW S, NEW owns \in Manifests(S), NEW f \in S, NEW v \in Versions
  PROVE  Records(owns, f, v) \in Manifests(S)
<1>1. DOMAIN owns \subseteq S /\ owns \in [DOMAIN owns -> Versions]
  BY ManifestFacts
<1>2. /\ DOMAIN owns \cup {f} \subseteq S
      /\ Records(owns, f, v) \in [DOMAIN owns \cup {f} -> Versions]
  BY <1>1 DEF Records
<1> QED
  BY <1>2 DEF Manifests

\* State files as they are written and removed.
LEMMA StateFileTypes ==
  /\ [s \in StateFiles |-> NoStateFile] \in StateType
  /\ \A v \in Versions \cup {User}, f \in {"config", "lock"} :
       StateFile(<<f, v>>) \in RecordType
  /\ \A s \in StateType, owns \in Manifests(SkillSet) :
       [s EXCEPT !["ownership"] = StateFile(owns)] \in StateType
  /\ \A s \in StateType, f \in {"config", "lock"}, r \in RecordType :
       [s EXCEPT ![f] = r] \in StateType
<1>1. NoStateFile \in RecordType
  BY DEF NoStateFile, RecordType
<1>2. NoStateFile \in [there : BOOLEAN, value : Manifests(SkillSet)]
  BY NothingIsOwned DEF NoStateFile
<1>3. [s \in StateFiles |-> NoStateFile] \in StateType
  BY <1>1, <1>2 DEF StateType, StateFiles
<1>4. ASSUME NEW v \in Versions \cup {User}, NEW f \in {"config", "lock"}
      PROVE  StateFile(<<f, v>>) \in RecordType
  BY DEF StateFile, RecordType
<1>5. ASSUME NEW s \in StateType, NEW owns \in Manifests(SkillSet)
      PROVE  [s EXCEPT !["ownership"] = StateFile(owns)] \in StateType
  <2>1. StateFile(owns) \in [there : BOOLEAN, value : Manifests(SkillSet)]
    BY DEF StateFile
  <2> QED
    BY <2>1 DEF StateType
<1>6. ASSUME NEW s \in StateType, NEW f \in {"config", "lock"},
             NEW r \in RecordType
      PROVE  [s EXCEPT ![f] = r] \in StateType
  BY DEF StateType
<1> QED
  BY <1>3, <1>4, <1>5, <1>6

\* Nothing is being installed.
LEMMA IdleType == Idle \in InstallType
<1>1. <<>> \in Reports
  <2>1. <<>> \in [{} -> [status : Statuses, local : Contents]]
    OBVIOUS
  <2> QED
    BY <2>1 DEF Reports
<1>2. NoStateFile \in RecordType
  BY DEF NoStateFile, RecordType
<1> QED
  BY NothingIsOwned, <1>1, <1>2 DEF Idle, InstallType

\* Nothing is being removed.
LEMMA NoRemovalType ==
  NoRemoval.pc = "idle" /\ NoRemoval.owns \in Manifests(Files)
  BY NothingIsOwned DEF NoRemoval

\* An installation may be anywhere, and keeps the type of its record.
LEMMA GoesOnType ==
  ASSUME NEW r \in InstallType,
         NEW pc \in {"idle", "inspect", "verify", "skills", "backup", "assets",
                     "retire", "merge", "state", "locked", "commit",
                     "rollback", "restore"}
  PROVE  /\ [r EXCEPT !.pc = pc] \in InstallType
         /\ [r EXCEPT !.pc = pc].pc = pc
         /\ [r EXCEPT !.pc = pc].snap = r.snap
         /\ [r EXCEPT !.pc = pc].version = r.version
  BY DEF InstallType

\* When one installation moves, the types and the places of snapshots stay.
LEMMA OneMoves ==
  ASSUME TypeInv, NEW p \in Installers, NEW r \in InstallType,
         InstBecomes(p, r),
         r.pc # "idle" => /\ Active(p)
                          /\ r.version = inst[p].version
                          /\ r.snap = inst[p].snap,
         DOMAIN snapshots' = DOMAIN snapshots
  PROVE  inst' \in [Installers -> InstallType] /\ HasBegun'
  BY DEF TypeInv, TypeOK, HasBegun, Active, InstBecomes

\* One installation goes on, and nothing else of what is typed changes.
LEMMA GoesOnTyped ==
  ASSUME TypeInv, NEW p \in Installers, Active(p),
         NEW pc \in {"idle", "inspect", "verify", "skills", "backup", "assets",
                     "retire", "merge", "state", "locked", "commit",
                     "rollback", "restore"},
         GoesOn(p, pc), DOMAIN snapshots' = DOMAIN snapshots
  PROVE  inst' \in [Installers -> InstallType] /\ HasBegun'
<1> DEFINE r == [inst[p] EXCEPT !.pc = pc]
<1>1. inst[p] \in InstallType
  BY DEF TypeInv, TypeOK
<1>2. /\ r \in InstallType /\ r.version = inst[p].version
      /\ r.snap = inst[p].snap
  BY <1>1 DEF InstallType
<1>3. InstBecomes(p, r)
  BY DEF GoesOn
<1> HIDE DEF r
<1> QED
  BY <1>2, <1>3, OneMoves

\* Only what was renamed over changes when a state file is.
LEMMA RewritesType ==
  ASSUME TypeInv, NEW f \in StateFiles
  PROVE  /\ Rewrites(f) \in [Installers -> InstallType]
         /\ \A p \in Installers :
              /\ Rewrites(f)[p].pc = inst[p].pc
              /\ Rewrites(f)[p].version = inst[p].version
              /\ Rewrites(f)[p].snap = inst[p].snap
              /\ Rewrites(f)[p].report = inst[p].report
              /\ Rewrites(f)[p].replace = inst[p].replace
              /\ Rewrites(f)[p].read = inst[p].read
<1> SUFFICES ASSUME NEW p \in Installers
             PROVE  /\ Rewrites(f)[p] \in InstallType
                    /\ Rewrites(f)[p].pc = inst[p].pc
                    /\ Rewrites(f)[p].version = inst[p].version
                    /\ Rewrites(f)[p].snap = inst[p].snap
                    /\ Rewrites(f)[p].report = inst[p].report
                    /\ Rewrites(f)[p].replace = inst[p].replace
                    /\ Rewrites(f)[p].read = inst[p].read
  BY DEF Rewrites
<1> DEFINE r == [inst[p] EXCEPT !.rewritten = @ \cup {f}]
<1>1. inst[p] \in InstallType
  BY DEF TypeInv, TypeOK
<1>2. /\ r \in InstallType
      /\ r.pc = inst[p].pc /\ r.version = inst[p].version
      /\ r.snap = inst[p].snap /\ r.report = inst[p].report
      /\ r.replace = inst[p].replace /\ r.read = inst[p].read
  BY <1>1 DEF InstallType
<1>3. Rewrites(f)[p] = IF inst[p] = Idle THEN Idle ELSE r
  BY DEF Rewrites
<1> HIDE DEF r
<1> QED
  BY <1>1, <1>2, <1>3

\* One field changes, and the record keeps its type.
LEMMA FieldTypes ==
  ASSUME NEW r \in InstallType
  PROVE  /\ [r EXCEPT !.pc = "assets"] \in InstallType
         /\ [r EXCEPT !.at = 1] \in InstallType
         /\ [r EXCEPT !.at = @ + 1] \in InstallType
         /\ \A servers \in SUBSET Servers :
              [r EXCEPT !.read = servers] \in InstallType
         /\ \A owns \in Manifests(AssetSet) :
              /\ [r EXCEPT !.old = owns] \in InstallType
              /\ [r EXCEPT !.next = owns] \in InstallType
<1>1. [r EXCEPT !.pc = "assets"] \in InstallType
  BY DEF InstallType
<1>2. [r EXCEPT !.at = 1] \in InstallType
  BY DEF InstallType
<1>3. [r EXCEPT !.at = @ + 1] \in InstallType
  BY DEF InstallType
<1>4. ASSUME NEW servers \in SUBSET Servers
      PROVE  [r EXCEPT !.read = servers] \in InstallType
  BY DEF InstallType
<1>5. ASSUME NEW owns \in Manifests(AssetSet)
      PROVE  [r EXCEPT !.old = owns] \in InstallType
  BY DEF InstallType
<1>6. ASSUME NEW owns \in Manifests(AssetSet)
      PROVE  [r EXCEPT !.next = owns] \in InstallType
  BY DEF InstallType
<1> QED
  BY <1>1, <1>2, <1>3, <1>4, <1>5, <1>6

\* What is read for the merge.
LEMMA ReadsType ==
  ASSUME NEW r \in InstallType, NEW servers \in SUBSET Servers,
         NEW owns \in Manifests(AssetSet)
  PROVE  [r EXCEPT !.pc = "assets", !.at = 1, !.read = servers, !.old = owns]
           \in InstallType
<1> DEFINE a == [r EXCEPT !.pc = "assets"]
           b == [a EXCEPT !.at = 1]
           c == [b EXCEPT !.read = servers]
           d == [c EXCEPT !.old = owns]
<1>1. a \in InstallType
  BY FieldTypes
<1>2. b \in InstallType
  <2> HIDE DEF a
  <2> QED BY <1>1, FieldTypes
<1>3. c \in InstallType
  <2> HIDE DEF b
  <2> QED BY <1>2, FieldTypes
<1>4. d \in InstallType
  <2> HIDE DEF c
  <2> QED BY <1>3, FieldTypes
<1> QED
  BY <1>4

\* A step of the walk through the assets.
LEMMA WalksType ==
  ASSUME NEW r \in InstallType, NEW owns \in Manifests(AssetSet)
  PROVE  [r EXCEPT !.at = @ + 1, !.next = owns] \in InstallType
<1> DEFINE a == [r EXCEPT !.at = @ + 1]
           b == [a EXCEPT !.next = owns]
<1>1. a \in InstallType
  BY FieldTypes
<1>2. b \in InstallType
  <2> HIDE DEF a
  <2> QED BY <1>1, FieldTypes
<1> QED
  BY <1>2

\* The snapshot an installation took.
LEMMA SnapshotIsTyped ==
  ASSUME TypeInv, NEW p \in Installers, Active(p)
  PROVE  SnapshotOf(p) \in SnapshotType
<1>1. inst[p].snap \in 1..Len(snapshots)
  BY DEF TypeInv, TypeOK, HasBegun
<1> QED
  BY <1>1, ElementOfSeq DEF TypeInv, TypeOK, SnapshotOf

\* The report on the skills of a version.
LEMMA ReportType ==
  ASSUME TypeOK, NEW v \in Versions
  PROVE  Report(v) \in Reports
<1> DEFINE D == DOMAIN Report(v)
<1>1. D \subseteq SkillSet
  BY DEF Report
<1>2. ASSUME NEW f \in D
      PROVE  Report(v)[f] \in [status : Statuses, local : Contents]
  <2>1. f \in Files
    BY <1>1 DEF Files
  <2>2. disk[f] \in Contents
    BY <2>1 DEF TypeOK
  <2>3. ASSUME NEW owns, NEW legacy
        PROVE  Status(v, f, owns, legacy) \in Statuses
    BY DEF Status, Statuses
  <2> QED
    BY <2>2, <2>3 DEF Report
<1>3. Report(v) \in [D -> [status : Statuses, local : Contents]]
  BY <1>2 DEF Report
<1> HIDE DEF D
<1> QED
  BY <1>1, <1>3 DEF Reports

-----------------------------------------------------------------------------
(* Every step keeps the types.                                             *)

LEMMA InitTyped == Init => TypeInv
<1> SUFFICES ASSUME Init
             PROVE  TypeInv
  OBVIOUS
<1>1. HasBegun
  BY DEF Init, Idle, HasBegun, Active
<1>2. inst \in [Installers -> InstallType]
  BY IdleType DEF Init
<1>3. /\ NoConfig \in ConfigType /\ Config({}) \in ConfigType
      /\ NoInventory \in InventoryType
  BY NothingIsOwned DEF NoConfig, Config, ConfigType, NoInventory, InventoryType
<1>4. /\ backup \in ConfigType /\ locks \subseteq StateFiles
      /\ snapshots \in Seq(SnapshotType)
      /\ installs \in 0..MaxInstalls /\ edits \in 0..MaxEdits
      /\ DOMAIN removal = DOMAIN NoRemoval
      /\ removal.pc \in {"idle", "stage"} /\ removal.owns \in Manifests(Files)
      /\ mine \subseteq Files /\ wanted \subseteq Servers
  BY <1>3, NoRemovalType, EmptySeq, InstallationAssumption DEF Init
<1>5. CASE Fresh
  <2>1. disk \in [Files -> Contents]
    BY <1>5 DEF Fresh, Contents
  <2> QED
    BY <1>1, <1>2, <1>3, <1>4, <1>5, <2>1, StateFileTypes
    DEF Fresh, TypeInv, TypeOK
<1>6. ASSUME NEW v \in Versions, Installed(v)
      PROVE  TypeInv
  <2>1. disk \in [Files -> Contents]
    BY <1>6 DEF Installed, Bundle, Contents
  <2>2. inventory \in InventoryType
    BY <1>6, ShippedIsManifest DEF Installed, InventoryType
  <2>3. state["ownership"] \in [there : BOOLEAN, value : Manifests(SkillSet)]
    BY <1>6, ShippedIsManifest DEF Installed, StateFile, StateFiles
  <2>4. state["config"] = StateFile(<<"config", v>>)
        /\ state["lock"] = StateFile(<<"lock", v>>)
    BY <1>6 DEF Installed, StateFiles
  <2>5. state["config"] \in RecordType /\ state["lock"] \in RecordType
    BY <2>4, StateFileTypes
  <2>6. state \in StateType
    BY <1>6, <2>3, <2>5 DEF Installed, StateType, StateFiles
  <2> QED
    BY <1>1, <1>2, <1>3, <1>4, <1>6, <2>1, <2>2, <2>6
    DEF Installed, TypeInv, TypeOK
<1> QED
  BY <1>5, <1>6 DEF Init

LEMMA BeginsTyped ==
  ASSUME TypeInv, NEW p \in Installers, NEW v \in Versions, InstallBegins(p, v)
  PROVE  TypeInv'
<1> DEFINE r == [Idle EXCEPT !.pc = "inspect", !.version = v,
                             !.snap = Len(snapshots) + 1,
                             !.loaded = state["config"]]
<1>1. Snapshot \in SnapshotType
  BY DEF TypeInv, TypeOK, Snapshot, SnapshotType
<1>2. /\ snapshots \in Seq(SnapshotType)
      /\ snapshots' = Append(snapshots, Snapshot)
  BY DEF TypeInv, TypeOK, InstallBegins
<1>3. /\ snapshots' \in Seq(SnapshotType)
      /\ DOMAIN snapshots \subseteq DOMAIN snapshots'
      /\ Len(snapshots) + 1 \in DOMAIN snapshots'
  BY <1>1, <1>2, AppendProperties
<1>4. state["config"] \in RecordType
  BY DEF TypeInv, TypeOK, StateType
<1>5. Len(snapshots) + 1 \in Nat
  BY <1>2
<1>6. /\ r \in InstallType /\ r.version = v
      /\ r.snap = Len(snapshots) + 1
  BY <1>4, <1>5, IdleType DEF InstallType
<1>7. inst' = [inst EXCEPT ![p] = r]
  BY DEF InstallBegins, InstBecomes
<1> HIDE DEF r
<1>8. inst' \in [Installers -> InstallType] /\ HasBegun'
  BY <1>3, <1>6, <1>7 DEF TypeInv, TypeOK, HasBegun, Active
<1>9. installs' \in 0..MaxInstalls
  BY InstallationAssumption DEF TypeInv, TypeOK, InstallBegins
<1> QED
  BY <1>3, <1>8, <1>9 DEF TypeInv, TypeOK, InstallBegins, tree, history

LEMMA PruneTyped ==
  ASSUME TypeInv, Prune
  PROVE  TypeInv'
<1>1. PICK i \in DOMAIN snapshots : snapshots' = RemoveAt(snapshots, i)
  BY DEF Prune
<1>2. snapshots \in Seq(SnapshotType) /\ i \in 1..Len(snapshots)
  BY <1>1 DEF TypeInv, TypeOK
<1>3. /\ \A j \in 1..i-1 : snapshots[j] \in SnapshotType
      /\ \A j \in i+1..Len(snapshots) : snapshots[j] \in SnapshotType
  BY <1>2, ElementOfSeq
<1>4. /\ SubSeq(snapshots, 1, i-1) \in Seq(SnapshotType)
      /\ SubSeq(snapshots, i+1, Len(snapshots)) \in Seq(SnapshotType)
  BY <1>2, <1>3, SubSeqProperties
<1>5. snapshots' \in Seq(SnapshotType)
  BY <1>1, <1>4, ConcatProperties DEF RemoveAt
<1>6. HasBegun'
  BY DEF Prune, Idle, HasBegun, Active
<1> QED
  BY <1>5, <1>6 DEF TypeInv, TypeOK, Prune, tree, history

LEMMA CommitTyped ==
  ASSUME TypeInv, NEW p \in Installers, Commit(p)
  PROVE  TypeInv'
<1>1. Idle.pc = "idle"
  BY DEF Idle
<1>2. /\ snapshots' \in Seq(SnapshotType)
      /\ DOMAIN snapshots' = DOMAIN snapshots
  <2> DEFINE s == [SnapshotOf(p) EXCEPT !.status = "committed"]
  <2>1. Active(p)
    BY DEF Commit, Active
  <2>2. /\ snapshots \in Seq(SnapshotType)
        /\ inst[p].snap \in 1..Len(snapshots)
    BY <2>1 DEF TypeInv, TypeOK, HasBegun
  <2>3. s \in SnapshotType
    BY <2>1, SnapshotIsTyped DEF SnapshotType
  <2>4. snapshots' = [snapshots EXCEPT ![inst[p].snap] = s]
    BY DEF Commit, SnapshotOf
  <2> HIDE DEF s
  <2> QED
    BY <2>2, <2>3, <2>4, ExceptSeq
<1>3. inst' \in [Installers -> InstallType] /\ HasBegun'
  BY <1>1, <1>2, IdleType, OneMoves DEF Commit
<1> QED
  BY <1>2, <1>3 DEF TypeInv, TypeOK, Commit, InstallKeeps, tree

LEMMA FailsTyped ==
  ASSUME TypeInv, NEW p \in Installers, InstallFails(p)
  PROVE  TypeInv'
<1>1. inst[p] \in InstallType /\ Active(p)
  BY DEF TypeInv, TypeOK, InstallFails, Active
<1>2. inst' \in [Installers -> InstallType] /\ HasBegun'
  BY <1>1, GoesOnType, OneMoves DEF InstallFails, GoesOn
<1>3. locks' \subseteq StateFiles
  BY DEF TypeInv, TypeOK, InstallFails
<1> QED
  BY <1>2, <1>3 DEF TypeInv, TypeOK, InstallFails, InstallKeeps, tree

LEMMA DiesTyped ==
  ASSUME TypeInv, NEW p \in Installers, InstallDies(p)
  PROVE  TypeInv'
<1>1. Idle.pc = "idle"
  BY DEF Idle
<1>2. inst' \in [Installers -> InstallType] /\ HasBegun'
  BY <1>1, IdleType, OneMoves DEF InstallDies
<1> QED
  BY <1>2 DEF TypeInv, TypeOK, InstallDies, InstallKeeps, tree

LEMMA RemovesTyped ==
  ASSUME TypeInv, NEW p \in Installers, RollbackRemoves(p)
  PROVE  TypeInv'
<1> DEFINE s == SnapshotOf(p)
<1>1. inst[p] \in InstallType /\ Active(p)
  BY DEF TypeInv, TypeOK, RollbackRemoves, Active
<1>2. s \in SnapshotType
  BY <1>1, SnapshotIsTyped
<1>3. inst' \in [Installers -> InstallType] /\ HasBegun'
  <2>1. Idle.pc = "idle"
    BY DEF Idle
  <2>2. GoesOn(p, "restore") \/ InstBecomes(p, Idle)
    BY DEF RollbackRemoves
  <2>3. DOMAIN snapshots' = DOMAIN snapshots
    BY DEF RollbackRemoves
  <2> QED
    BY ZenonT(60), <1>1, <2>1, <2>2, <2>3, IdleType, GoesOnType, OneMoves
    DEF GoesOn
<1>4. disk' \in [Files -> Contents]
  BY DEF TypeInv, TypeOK, RollbackRemoves, Contents
<1>5. /\ config' \in ConfigType /\ backup' \in ConfigType
      /\ inventory' \in InventoryType
  BY NothingIsOwned
  DEF TypeInv, TypeOK, RollbackRemoves, NoConfig, ConfigType, NoInventory,
      InventoryType
<1>6. state' \in StateType
  <2>1. [f \in StateFiles |-> NoStateFile] \in StateType
    BY StateFileTypes
  <2>2. state' = [f \in StateFiles |->
                    IF s.state[f].there THEN state[f] ELSE NoStateFile]
    BY DEF RollbackRemoves, SnapshotOf
  <2> HIDE DEF s
  <2> QED
    BY <2>1, <2>2 DEF TypeInv, TypeOK, StateType, StateFiles
<1>7. mine' \subseteq Files
  BY DEF TypeInv, TypeOK, RollbackRemoves
<1> QED
  BY <1>3, <1>4, <1>5, <1>6, <1>7
  DEF TypeInv, TypeOK, RollbackRemoves, InstallKeeps

LEMMA RestoresTyped ==
  ASSUME TypeInv, NEW p \in Installers, RollbackRestores(p)
  PROVE  TypeInv'
<1> DEFINE s == SnapshotOf(p)
<1>1. Active(p) /\ Idle.pc = "idle"
  BY DEF RollbackRestores, Active, Idle
<1>2. s \in SnapshotType
  BY <1>1, SnapshotIsTyped
<1>3. inst' \in [Installers -> InstallType] /\ HasBegun'
  BY <1>1, IdleType, OneMoves DEF RollbackRestores
<1>4. /\ s.disk \in [Files -> Contents]
      /\ s.config \in ConfigType /\ s.backup \in ConfigType
      /\ s.inventory \in InventoryType /\ s.numbered \in BOOLEAN
      /\ s.state \in StateType
  BY <1>2 DEF SnapshotType
<1>5. /\ disk' = [f \in Files |->
                     IF s.disk[f] = NoFile THEN disk[f] ELSE s.disk[f]]
      /\ config' = IF s.config.there THEN s.config ELSE config
      /\ backup' = IF s.backup.there THEN s.backup ELSE backup
      /\ inventory' = IF s.inventory.there THEN s.inventory ELSE inventory
      /\ numbered' = IF s.inventory.there THEN s.numbered ELSE numbered
      /\ state' = [f \in StateFiles |->
                      IF s.state[f].there THEN s.state[f] ELSE state[f]]
  BY DEF RollbackRestores, SnapshotOf
<1> HIDE DEF s
<1>6. /\ disk' \in [Files -> Contents]
      /\ config' \in ConfigType /\ backup' \in ConfigType
      /\ inventory' \in InventoryType /\ numbered' \in BOOLEAN
  BY <1>4, <1>5 DEF TypeInv, TypeOK
<1>7. state' \in StateType
  BY <1>4, <1>5 DEF TypeInv, TypeOK, StateType, StateFiles
<1> QED
  BY <1>3, <1>6, <1>7 DEF TypeInv, TypeOK, RollbackRestores, InstallKeeps

\* The steps of an installation that change little else than its record.
LEMMA InspectTyped ==
  ASSUME TypeInv, NEW p \in Installers, SkillsInspect(p)
  PROVE  TypeInv'
<1> DEFINE report == Report(inst[p].version)
<1>1. /\ inst[p] \in InstallType /\ Active(p)
      /\ inst[p].version \in Versions
  BY DEF TypeInv, TypeOK, SkillsInspect, Active, HasBegun
<1>2. report \in Reports /\ DOMAIN report \subseteq SkillSet
  BY <1>1, ReportType DEF TypeInv, Report
<1>3. PICK replace \in SUBSET DOMAIN report :
        /\ mine' = mine \ replace
        /\ InstBecomes(p, [inst[p] EXCEPT !.pc = "verify", !.report = report,
                                          !.replace = replace])
  BY DEF SkillsInspect
<1> HIDE DEF report
<1>4. inst' \in [Installers -> InstallType] /\ HasBegun'
  <2> DEFINE r == [inst[p] EXCEPT !.pc = "verify", !.report = report,
                                  !.replace = replace]
  <2>1. /\ r \in InstallType /\ r.version = inst[p].version
        /\ r.snap = inst[p].snap
    BY <1>1, <1>2 DEF InstallType
  <2>2. InstBecomes(p, r) /\ snapshots' = snapshots
    BY <1>3 DEF SkillsInspect
  <2> HIDE DEF r
  <2> QED
    BY <1>1, <2>1, <2>2, OneMoves
<1> QED
  BY <1>3, <1>4
  DEF TypeInv, TypeOK, SkillsInspect, InstallKeeps, tree

LEMMA VerifyTyped ==
  ASSUME TypeInv, NEW p \in Installers, SkillsVerify(p)
  PROVE  TypeInv'
<1>1. inst[p] \in InstallType /\ Active(p)
  BY DEF TypeInv, TypeOK, SkillsVerify, Active
<1>2. inst' \in [Installers -> InstallType] /\ HasBegun'
  BY <1>1, GoesOnTyped DEF SkillsVerify
<1> QED
  BY <1>2 DEF TypeInv, TypeOK, SkillsVerify, InstallKeeps, tree

LEMMA WriteTyped ==
  ASSUME TypeInv, NEW p \in Installers, SkillsWrite(p)
  PROVE  TypeInv'
<1>1. inst[p] \in InstallType /\ Active(p) /\ inst[p].version \in Versions
  BY DEF TypeInv, TypeOK, SkillsWrite, Active, HasBegun
<1>2. inst' \in [Installers -> InstallType] /\ HasBegun'
  <2> DEFINE r == [inst[p] EXCEPT !.at = @ + 1]
  <2>1. /\ r \in InstallType /\ r.version = inst[p].version
        /\ r.snap = inst[p].snap
    BY <1>1 DEF InstallType
  <2>2. InstBecomes(p, r) /\ snapshots' = snapshots
    BY DEF SkillsWrite
  <2> HIDE DEF r
  <2> QED
    BY <1>1, <2>1, <2>2, OneMoves
<1>3. disk' \in [Files -> Contents]
  <2> DEFINE f == Skills[inst[p].at]
  <2>1. f \in Files
    <3>1. inst[p].at \in 1..Len(Skills)
      BY <1>1 DEF SkillsWrite, InstallType
    <3> QED
      BY <3>1, ElementOfSeq, InstallationAssumption DEF Files
  <2>2. disk[f] \in Contents /\ Bundle(inst[p].version, f) \in Contents
    BY <1>1, <2>1 DEF TypeInv, TypeOK, Bundle, Contents
  <2>3. Reconciled(p, f) \in Contents
    BY <2>2 DEF Reconciled
  <2>4. \/ disk' = [disk EXCEPT ![f] = Reconciled(p, f)]
        \/ disk' = disk
    BY DEF SkillsWrite
  <2> HIDE DEF f
  <2> QED
    BY <2>3, <2>4 DEF TypeInv, TypeOK
<1> QED
  BY <1>2, <1>3 DEF TypeInv, TypeOK, SkillsWrite, InstallKeeps

LEMMA ManifestTyped ==
  ASSUME TypeInv, NEW p \in Installers, SkillsManifest(p)
  PROVE  TypeInv'
<1>1. inst[p] \in InstallType /\ Active(p) /\ inst[p].version \in Versions
  BY DEF TypeInv, TypeOK, SkillsManifest, Active, HasBegun
<1>2. "ownership" \in StateFiles
  BY DEF StateFiles
<1> DEFINE w == Rewrites("ownership")
<1>3. /\ w \in [Installers -> InstallType]
      /\ \A q \in Installers : /\ w[q].pc = inst[q].pc
                                /\ w[q].version = inst[q].version
                                /\ w[q].snap = inst[q].snap
  BY <1>2, RewritesType
<1>4. inst' = [w EXCEPT ![p].pc = "backup"] /\ snapshots' = snapshots
  BY DEF SkillsManifest
<1> HIDE DEF w
<1>5. PICK r : /\ r = [w[p] EXCEPT !.pc = "backup"]
               /\ inst' = [w EXCEPT ![p] = r]
  BY <1>4
<1>6. /\ r \in InstallType /\ r.version = inst[p].version
      /\ r.snap = inst[p].snap
  <2>1. w[p] \in InstallType
    BY <1>3
  <2>2. /\ [w[p] EXCEPT !.pc = "backup"] \in InstallType
        /\ [w[p] EXCEPT !.pc = "backup"].version = w[p].version
        /\ [w[p] EXCEPT !.pc = "backup"].snap = w[p].snap
    BY <2>1, GoesOnType
  <2> QED
    BY <1>3, <1>5, <2>2
<1>8. inst' \in [Installers -> InstallType] /\ HasBegun'
  BY <1>1, <1>3, <1>4, <1>5, <1>6 DEF TypeInv, HasBegun, Active
<1>7. state' \in StateType
  BY <1>1, ShippedIsManifest, StateFileTypes DEF TypeInv, TypeOK, SkillsManifest
<1> QED
  BY <1>7, <1>8 DEF TypeInv, TypeOK, SkillsManifest, InstallKeeps, tree

LEMMA BackupTyped ==
  ASSUME TypeInv, NEW p \in Installers, ConfigBackup(p)
  PROVE  TypeInv'
<1>1. inst[p] \in InstallType /\ Active(p)
  BY DEF TypeInv, TypeOK, ConfigBackup, Active
<1> DEFINE old == IF inventory.there THEN inventory.owns ELSE <<>>
<1>2. old \in Manifests(AssetSet) /\ config.servers \in SUBSET Servers
  BY NothingIsOwned DEF TypeInv, TypeOK, InventoryType, ConfigType
<1>3. inst' \in [Installers -> InstallType] /\ HasBegun'
  <2> DEFINE r == [inst[p] EXCEPT !.pc = "assets", !.at = 1,
                                  !.read = config.servers, !.old = old]
  <2>1. InstBecomes(p, r) /\ snapshots' = snapshots
    BY DEF ConfigBackup
  <2>2. r \in InstallType
    <3> HIDE DEF old
    <3> QED
      BY <1>1, <1>2, ReadsType
  <2>3. /\ r.pc = "assets" /\ r.version = inst[p].version
        /\ r.snap = inst[p].snap
    BY <1>1 DEF InstallType
  <2> HIDE DEF r
  <2> QED
    BY <1>1, <2>1, <2>2, <2>3, OneMoves
<1> QED
  BY <1>3 DEF TypeInv, TypeOK, ConfigBackup, InstallKeeps

\* What an installation finds to be owned was shipped.
LEMMA NextOwnedType ==
  ASSUME TypeInv, NEW p \in Installers, Active(p), NEW f \in AssetSet
  PROVE  NextOwned(p, f) \in Manifests(AssetSet)
<1>1. /\ inst[p].version \in Versions
      /\ inst[p].old \in Manifests(AssetSet)
      /\ inst[p].next \in Manifests(AssetSet)
  BY DEF TypeInv, TypeOK, HasBegun, InstallType
<1>2. Owned(inst[p].old, f) => inst[p].old[f] \in Versions
  BY <1>1, ManifestFacts DEF Owned
<1> QED
  BY <1>1, <1>2, RecordsIsManifest DEF NextOwned

LEMMA AssetTyped ==
  ASSUME TypeInv, NEW p \in Installers, AssetWrite(p)
  PROVE  TypeInv'
<1> DEFINE f == Assets[inst[p].at]
           r == [inst[p] EXCEPT !.at = @ + 1]
           s == [inst[p] EXCEPT !.at = @ + 1, !.next = NextOwned(p, f)]
<1>1. inst[p] \in InstallType /\ Active(p) /\ inst[p].version \in Versions
  BY DEF TypeInv, TypeOK, AssetWrite, Active, HasBegun
<1>2. f \in AssetSet
  <2>1. inst[p].at \in 1..Len(Assets)
    BY <1>1 DEF AssetWrite, InstallType
  <2> QED
    BY <2>1, ElementOfSeq, InstallationAssumption
<1>3. NextOwned(p, f) \in Manifests(AssetSet)
  BY <1>1, <1>2, NextOwnedType
<1>4. /\ InstBecomes(p, r) \/ InstBecomes(p, s)
      /\ disk' = disk \/ disk' = [disk EXCEPT ![f] = inst[p].version]
      /\ snapshots' = snapshots
  BY DEF AssetWrite
<1>5. /\ r \in InstallType /\ r.version = inst[p].version
      /\ r.snap = inst[p].snap
  BY <1>1 DEF InstallType
<1>6. /\ s \in InstallType /\ s.version = inst[p].version
      /\ s.snap = inst[p].snap
  <2>1. s \in InstallType
    <3> DEFINE owns == NextOwned(p, f)
    <3> HIDE DEF owns
    <3>1. /\ owns \in Manifests(AssetSet)
          /\ s = [inst[p] EXCEPT !.at = @ + 1, !.next = owns]
      BY <1>3 DEF owns
    <3> HIDE DEF s
    <3>2. [inst[p] EXCEPT !.at = @ + 1, !.next = owns] \in InstallType
      BY <1>1, <3>1, WalksType
    <3> QED
      BY <3>1, <3>2
  <2>2. s.version = inst[p].version /\ s.snap = inst[p].snap
    BY <1>1 DEF InstallType
  <2> QED
    BY <2>1, <2>2
<1>7. disk' \in [Files -> Contents]
  BY <1>1, <1>4 DEF TypeInv, TypeOK, Contents
<1> HIDE DEF r, s
<1>8. inst' \in [Installers -> InstallType] /\ HasBegun'
  BY <1>1, <1>4, <1>5, <1>6, OneMoves
<1> QED
  BY <1>7, <1>8 DEF TypeInv, TypeOK, AssetWrite, InstallKeeps

LEMMA ConfigTyped ==
  ASSUME TypeInv, NEW p \in Installers, ConfigWrite(p) \/ ConfigMerge(p)
  PROVE  TypeInv'
<1>1. Active(p) /\ inst[p] \in InstallType
  BY DEF TypeInv, TypeOK, ConfigWrite, ConfigMerge, Active
<1>2. inst[p].read \in SUBSET Servers
  BY <1>1 DEF InstallType
<1>3. inst' \in [Installers -> InstallType] /\ HasBegun'
  BY <1>1, GoesOnTyped DEF ConfigWrite, ConfigMerge
<1>4. PICK servers : config' = Config(servers) /\ servers \subseteq Servers
  <2>1. config.servers \subseteq Servers
    BY DEF TypeInv, TypeOK, ConfigType
  <2> QED
    BY <1>2, <2>1 DEF ConfigWrite, ConfigMerge
<1>5. config' \in ConfigType
  BY <1>4 DEF Config, ConfigType
<1> QED
  BY <1>3, <1>5
  DEF TypeInv, TypeOK, ConfigWrite, ConfigMerge, InstallKeeps

LEMMA RetireTyped ==
  ASSUME TypeInv, NEW p \in Installers, AssetsRetire(p)
  PROVE  TypeInv'
<1>1. Active(p) /\ inst[p] \in InstallType
  BY DEF TypeInv, TypeOK, AssetsRetire, Active
<1>2. inst' \in [Installers -> InstallType] /\ HasBegun'
  BY <1>1, GoesOnTyped DEF AssetsRetire
<1>3. inventory' \in InventoryType
  <2>1. inst[p].next \in Manifests(AssetSet)
    BY <1>1 DEF InstallType
  <2> QED
    BY <2>1 DEF AssetsRetire, InventoryType
<1>4. disk' \in [Files -> Contents] /\ numbered' \in BOOLEAN
  BY DEF TypeInv, TypeOK, AssetsRetire, Contents
<1> QED
  BY <1>2, <1>3, <1>4 DEF TypeInv, TypeOK, AssetsRetire, InstallKeeps

LEMMA LockTyped ==
  ASSUME TypeInv, NEW p \in Installers, StateLock(p)
  PROVE  TypeInv'
<1>1. Active(p) /\ inst[p] \in InstallType
  BY DEF TypeInv, TypeOK, StateLock, Active
<1>2. inst' \in [Installers -> InstallType] /\ HasBegun'
  BY <1>1, GoesOnTyped DEF StateLock
<1>3. inst[p].file \in StateFiles
  BY <1>1 DEF InstallType, StateFiles
<1> QED
  BY <1>2, <1>3 DEF TypeInv, TypeOK, StateLock, InstallKeeps, tree

LEMMA StateTyped ==
  ASSUME TypeInv, NEW p \in Installers, StateWrite(p)
  PROVE  TypeInv'
<1> DEFINE f == inst[p].file
           w == Rewrites(f)
           goal == IF f = "config" THEN "state" ELSE "commit"
<1>1. inst[p] \in InstallType /\ Active(p) /\ inst[p].version \in Versions
  BY DEF TypeInv, TypeOK, StateWrite, Active, HasBegun
<1>2. f \in {"config", "lock"} /\ f \in StateFiles
  BY <1>1 DEF InstallType, StateFiles
<1>3. /\ w \in [Installers -> InstallType]
      /\ \A q \in Installers : /\ w[q].pc = inst[q].pc
                                /\ w[q].version = inst[q].version
                                /\ w[q].snap = inst[q].snap
  BY <1>2, RewritesType
<1>4. /\ inst' = [w EXCEPT ![p].pc = goal, ![p].file = "lock"]
      /\ snapshots' = snapshots /\ goal \in {"state", "commit"}
  BY DEF StateWrite
<1>5. state' \in StateType
  <2>1. state \in StateType
    BY DEF TypeInv, TypeOK
  <2>2. StateFile(<<f, inst[p].version>>) \in RecordType
    BY <1>1, <1>2, StateFileTypes
  <2>3. state' = [state EXCEPT ![f] = StateFile(<<f, inst[p].version>>)]
    BY DEF StateWrite
  <2> HIDE DEF f
  <2> QED
    BY <1>2, <2>1, <2>2, <2>3, StateFileTypes
<1> HIDE DEF w, f, goal
<1>6. PICK r : /\ r = [w[p] EXCEPT !.pc = goal, !.file = "lock"]
               /\ inst' = [w EXCEPT ![p] = r]
  BY <1>3, <1>4
<1>7. /\ r \in InstallType /\ r.version = inst[p].version
      /\ r.snap = inst[p].snap
  <2>1. w[p] \in InstallType
    BY <1>3
  <2> QED
    BY <1>3, <1>4, <1>6, <2>1 DEF InstallType
<1>8. inst' \in [Installers -> InstallType] /\ HasBegun'
  BY <1>1, <1>3, <1>4, <1>6, <1>7 DEF TypeInv, HasBegun, Active
<1>9. locks' \subseteq StateFiles
  BY DEF TypeInv, TypeOK, StateWrite
<1> QED
  BY <1>5, <1>8, <1>9 DEF TypeInv, TypeOK, StateWrite, InstallKeeps, tree

LEMMA UninstallTyped ==
  ASSUME TypeInv, UninstallStep
  PROVE  TypeInv'
<1>1. inst' = inst /\ snapshots' = snapshots
  BY DEF UninstallStep, UninstallBegins, UninstallStages, UninstallEnds,
         UninstallFails, RemovalKeeps
<1>2. HasBegun'
  BY <1>1 DEF TypeInv, HasBegun, Active
<1>3. CASE UninstallBegins
  <2> DEFINE skills == state["ownership"].value
             D == DOMAIN inventory.owns \cup DOMAIN skills
             owns == [f \in D |-> IF Owned(inventory.owns, f)
                                  THEN inventory.owns[f] ELSE skills[f]]
  <2>1. /\ inventory.owns \in Manifests(AssetSet)
        /\ skills \in Manifests(SkillSet)
    BY DEF TypeInv, TypeOK, InventoryType, StateType
  <2>2. /\ DOMAIN inventory.owns \subseteq AssetSet
        /\ inventory.owns \in [DOMAIN inventory.owns -> Versions]
    BY <2>1, ManifestFacts
  <2>3. /\ DOMAIN skills \subseteq SkillSet
        /\ skills \in [DOMAIN skills -> Versions]
    BY <2>1, ManifestFacts
  <2>4. owns \in Manifests(Files)
    <3>1. D \subseteq Files /\ owns \in [D -> Versions]
      BY <2>2, <2>3 DEF Owned, Files
    <3> HIDE DEF D
    <3> QED
      BY <3>1 DEF Manifests
  <2>5. /\ removal'.pc = "stage" /\ removal'.owns = owns
        /\ DOMAIN removal' = DOMAIN NoRemoval
    BY <1>3 DEF UninstallBegins, NoRemoval
  <2> HIDE DEF owns
  <2> QED
    BY <1>1, <1>2, <1>3, <2>4, <2>5
    DEF TypeInv, TypeOK, UninstallBegins, RemovalKeeps
<1>4. CASE UninstallStages
  <2>1. disk' \in [Files -> Contents]
    BY <1>4 DEF TypeInv, TypeOK, UninstallStages, Contents
  <2>2. /\ removal'.pc = removal.pc /\ removal'.owns = removal.owns
        /\ DOMAIN removal' = DOMAIN removal
    BY <1>4 DEF TypeInv, TypeOK, UninstallStages, NoRemoval
  <2> QED
    BY <1>1, <1>2, <1>4, <2>1, <2>2
    DEF TypeInv, TypeOK, UninstallStages, RemovalKeeps
<1>5. CASE UninstallEnds
  <2>1. NoInventory \in InventoryType
    BY NothingIsOwned DEF NoInventory, InventoryType
  <2> QED
    BY <1>1, <1>2, <1>5, <2>1, StateFileTypes, NoRemovalType
    DEF TypeInv, TypeOK, UninstallEnds, RemovalKeeps
<1>6. CASE UninstallFails
  BY <1>1, <1>2, <1>6, NoRemovalType
  DEF TypeInv, TypeOK, UninstallFails, RemovalKeeps
<1> QED
  BY <1>3, <1>4, <1>5, <1>6 DEF UninstallStep

LEMMA UserTyped ==
  ASSUME TypeInv, UserStep
  PROVE  TypeInv'
<1>1. ASSUME NEW f \in Files, NEW c \in {User, NoFile}, UserWrites(f, c)
      PROVE  TypeInv'
  <2>1. edits' \in 0..MaxEdits
    BY <1>1, InstallationAssumption DEF TypeInv, TypeOK, UserWrites
  <2>2. disk' \in [Files -> Contents]
    BY <1>1 DEF TypeInv, TypeOK, UserWrites, Contents
  <2>3. mine' \subseteq Files
    BY <1>1 DEF TypeInv, TypeOK, UserWrites
  <2> QED
    BY <1>1, <2>1, <2>2, <2>3
    DEF TypeInv, TypeOK, UserWrites, HasBegun, Active
<1>2. ASSUME NEW s \in Servers, UserConfigures(s)
      PROVE  TypeInv'
  <2>1. edits' \in 0..MaxEdits
    BY <1>2, InstallationAssumption DEF TypeInv, TypeOK, UserConfigures
  <2>2. config' \in ConfigType /\ wanted' \subseteq Servers
    BY <1>2 DEF TypeInv, TypeOK, UserConfigures, Config, ConfigType
  <2> QED
    BY <1>2, <2>1, <2>2 DEF TypeInv, TypeOK, UserConfigures, HasBegun, Active
<1>3. CASE UserEditsState
  <2>1. edits' \in 0..MaxEdits
    BY <1>3, InstallationAssumption DEF TypeInv, TypeOK, UserEditsState
  <2>2. state' \in StateType
    BY <1>3, StateFileTypes DEF TypeInv, TypeOK, UserEditsState
  <2>3. "config" \in StateFiles
    BY DEF StateFiles
  <2>4. inst' \in [Installers -> InstallType] /\ HasBegun'
    BY <1>3, <2>3, RewritesType DEF TypeInv, UserEditsState, HasBegun, Active
  <2> QED
    BY <1>3, <2>1, <2>2, <2>4
    DEF TypeInv, TypeOK, UserEditsState, tree, history
<1> QED
  BY <1>1, <1>2, <1>3 DEF UserStep

LEMMA StepTyped ==
  ASSUME TypeInv, [Next]_vars
  PROVE  TypeInv'
<1>1. ASSUME NEW p \in Installers, InstallStep(p)
      PROVE  TypeInv'
  BY <1>1, BeginsTyped, InspectTyped, VerifyTyped, WriteTyped, ManifestTyped,
     BackupTyped, AssetTyped, ConfigTyped, RetireTyped, LockTyped, StateTyped,
     CommitTyped, FailsTyped, RemovesTyped, RestoresTyped, DiesTyped
  DEF InstallStep
<1>2. CASE UNCHANGED vars
  BY <1>2 DEF TypeInv, TypeOK, HasBegun, Active, vars
<1> QED
  BY <1>1, <1>2, PruneTyped, UninstallTyped, UserTyped DEF Next

\* The types hold in every reachable state, and what runs finds its snapshot.
THEOREM InstallationTyped == Spec => []TypeInv
<1> QED
  BY InitTyped, StepTyped, PTL DEF Spec

\* Every reachable state is typed; manifests own shipped content only.
THEOREM OwnersAreKept == Spec => []OwnersKept
<1>1. TypeInv => OwnersKept
  <2> SUFFICES ASSUME TypeInv
               PROVE  UserContentIsNeverOwned
    BY DEF TypeInv, OwnersKept
  <2>1. /\ inventory.owns \in Manifests(AssetSet)
        /\ state["ownership"].value \in Manifests(SkillSet)
    BY DEF TypeInv, TypeOK, InventoryType, StateType
  <2> QED
    BY <2>1, ManifestFacts DEF UserContentIsNeverOwned
<1> QED
  BY <1>1, InstallationTyped, PTL

-----------------------------------------------------------------------------
(* What the user wrote.                                                    *)

\* Nothing that an installation was told or has found replaces f.
Spares(r, f) ==
  /\ f \notin r.replace
  /\ f \in DOMAIN r.report =>
       r.report[f].status \notin {"Missing", "Outdated"}

Deciding == {"verify", "skills"}

\* f was the user's when the installation began, and stays so.
Respects(p, f) ==
  /\ Active(p) => SnapshotOf(p).disk[f] = User
  /\ inst[p].pc \in Deciding => Spares(inst[p], f)

UserFilesAreKnown ==
  \A f \in mine : disk[f] = User /\ \A p \in Installers : Respects(p, f)

UserInv == TypeInv /\ UserFilesAreKnown

\* r goes on from where p is: with its snapshot, and with what was decided.
Follows(r, p) ==
  /\ r.pc # "idle" => Active(p) /\ r.snap = inst[p].snap
  /\ r.pc \in Deciding => /\ inst[p].pc \in Deciding
                         /\ r.replace = inst[p].replace
                         /\ r.report = inst[p].report

\* When one goes on, all do.
LEMMA OneFollows ==
  ASSUME TypeInv, NEW p \in Installers, NEW r, InstBecomes(p, r), Follows(r, p)
  PROVE  \A q \in Installers : Follows(inst'[q], q)
<1> TAKE q \in Installers
<1>1. inst' = [inst EXCEPT ![p] = r] /\ inst \in [Installers -> InstallType]
  BY DEF TypeInv, TypeOK, InstBecomes
<1>2. CASE q = p
  BY <1>1, <1>2
<1>3. CASE q # p
  <2>1. inst'[q] = inst[q]
    BY <1>1, <1>3
  <2> QED
    BY <2>1 DEF Follows, Active
<1> QED
  BY <1>2, <1>3

LEMMA GoesOnFollows ==
  ASSUME TypeInv, NEW p \in Installers, Active(p),
         NEW pc, GoesOn(p, pc),
         pc \in Deciding => inst[p].pc \in Deciding
  PROVE  \A q \in Installers : Follows(inst'[q], q)
<1> DEFINE r == [inst[p] EXCEPT !.pc = pc]
<1>1. inst[p] \in InstallType
  BY DEF TypeInv, TypeOK
<1>2. /\ r.pc = pc /\ r.snap = inst[p].snap
      /\ r.replace = inst[p].replace /\ r.report = inst[p].report
  BY <1>1 DEF InstallType
<1>3. InstBecomes(p, r)
  BY DEF GoesOn
<1> HIDE DEF r
<1>4. Follows(r, p)
  BY <1>2 DEF Follows
<1> QED
  BY <1>3, <1>4, OneFollows

LEMMA IdleFollows ==
  ASSUME TypeInv, NEW p \in Installers, InstBecomes(p, Idle)
  PROVE  \A q \in Installers : Follows(inst'[q], q)
<1>1. Follows(Idle, p)
  BY DEF Follows, Idle, Deciding
<1> QED
  BY <1>1, OneFollows

\* What is the user's is known as long as nothing replaces it on disk.
LEMMA KnownStays ==
  ASSUME UserInv, mine' \subseteq mine,
         \A f \in mine' : disk'[f] = User,
         \A q \in Installers :
           Active(q) => snapshots'[inst[q].snap].disk = SnapshotOf(q).disk,
         \A q \in Installers : Follows(inst'[q], q)
  PROVE  UserFilesAreKnown'
<1> SUFFICES ASSUME NEW f \in mine', NEW q \in Installers
             PROVE  Respects(q, f)'
  BY DEF UserFilesAreKnown
<1>1. Respects(q, f) /\ Follows(inst'[q], q)
  BY DEF UserInv, UserFilesAreKnown
<1>2. Active(q)' => SnapshotOf(q)'.disk[f] = User
  BY <1>1 DEF Respects, Follows, Active, SnapshotOf
<1>3. inst'[q].pc \in Deciding => Spares(inst[q], f)
  BY <1>1 DEF Respects, Follows
<1>4. inst'[q].pc \in Deciding => Spares(inst'[q], f)
  BY <1>1, <1>3 DEF Follows, Spares
<1> QED
  BY <1>2, <1>4 DEF Respects

\* A manifest does not own what is the user's, and no bundle ships it.
LEMMA UserIsNoVersion == User \notin Versions /\ User # NoFile
  BY InstallationAssumption DEF User, NoFile

-----------------------------------------------------------------------------
(* No step replaces what the user wrote.                                   *)

LEMMA BeginsKnown ==
  ASSUME UserInv, NEW p \in Installers, NEW v \in Versions, InstallBegins(p, v)
  PROVE  UserFilesAreKnown'
<1>1. /\ snapshots \in Seq(SnapshotType)
      /\ snapshots' = Append(snapshots, Snapshot)
      /\ mine' = mine /\ disk' = disk
  BY DEF UserInv, TypeInv, TypeOK, InstallBegins, tree, history
<1>2. /\ snapshots'[Len(snapshots) + 1] = Snapshot
      /\ \A i \in DOMAIN snapshots : snapshots'[i] = snapshots[i]
  BY <1>1
<1> DEFINE r == [Idle EXCEPT !.pc = "inspect", !.version = v,
                             !.snap = Len(snapshots) + 1,
                             !.loaded = state["config"]]
<1>3. r.pc = "inspect" /\ r.snap = Len(snapshots) + 1
  BY DEF Idle
<1>4. inst' = [inst EXCEPT ![p] = r] /\ inst \in [Installers -> InstallType]
  BY DEF UserInv, TypeInv, TypeOK, InstallBegins, InstBecomes
<1> HIDE DEF r
<1>5. ASSUME NEW f \in mine', NEW q \in Installers
      PROVE  Respects(q, f)'
  <2>1. disk[f] = User /\ Respects(q, f)
    BY <1>1 DEF UserInv, UserFilesAreKnown
  <2>2. CASE q = p
    <3>1. inst'[q] = r
      BY <1>4, <2>2
    <3> QED
      BY <1>2, <1>3, <2>1, <3>1 DEF Respects, SnapshotOf, Snapshot, Deciding
  <2>3. CASE q # p
    <3>1. inst'[q] = inst[q]
      BY <1>4, <2>3
    <3>2. Active(q) => SnapshotOf(q)' = SnapshotOf(q)
      BY <1>2, <3>1 DEF UserInv, TypeInv, HasBegun, SnapshotOf
    <3> QED
      BY <2>1, <3>1, <3>2 DEF Respects, Active
  <2> QED
    BY <2>2, <2>3
<1> QED
  BY <1>1, <1>5 DEF UserInv, UserFilesAreKnown

LEMMA PruneKnown ==
  ASSUME UserInv, Prune
  PROVE  UserFilesAreKnown'
  BY DEF UserInv, UserFilesAreKnown, Respects, Prune, Idle, Active, Deciding,
         tree, history

LEMMA CommitKnown ==
  ASSUME UserInv, NEW p \in Installers, Commit(p)
  PROVE  UserFilesAreKnown'
<1>1. \A q \in Installers : Follows(inst'[q], q)
  BY IdleFollows DEF UserInv, Commit
<1>2. mine' = mine /\ disk' = disk
  BY DEF Commit, tree
<1>3. ASSUME NEW q \in Installers, Active(q)
      PROVE  snapshots'[inst[q].snap].disk = SnapshotOf(q).disk
  <2>1. SnapshotOf(q) \in SnapshotType /\ inst[q].snap \in DOMAIN snapshots
    BY <1>3, SnapshotIsTyped DEF UserInv, TypeInv, HasBegun
  <2> QED
    BY <2>1 DEF Commit, SnapshotOf, SnapshotType
<1> QED
  BY <1>1, <1>2, <1>3, KnownStays DEF UserInv, UserFilesAreKnown

\* The steps of an installation that leave the files alone.
LEMMA QuietKnown ==
  ASSUME UserInv, NEW p \in Installers,
         \/ SkillsVerify(p) \/ ConfigBackup(p) \/ ConfigWrite(p)
         \/ ConfigMerge(p) \/ StateLock(p) \/ InstallFails(p) \/ InstallDies(p)
  PROVE  UserFilesAreKnown'
<1>1. mine' = mine /\ disk' = disk /\ snapshots' = snapshots
  BY DEF SkillsVerify, ConfigBackup, ConfigWrite, ConfigMerge, StateLock,
         InstallFails, InstallDies, tree
<1>2. inst[p] \in InstallType /\ TypeInv
  BY DEF UserInv, TypeInv, TypeOK
<1>3. CASE ConfigBackup(p)
  <2> DEFINE r == [inst[p] EXCEPT
                     !.pc = "assets", !.at = 1, !.read = config.servers,
                     !.old = IF inventory.there THEN inventory.owns ELSE <<>>]
  <2>1. r.pc = "assets" /\ r.snap = inst[p].snap /\ Active(p)
    BY <1>2, <1>3 DEF InstallType, ConfigBackup, Active
  <2>2. InstBecomes(p, r)
    BY <1>3 DEF ConfigBackup
  <2> HIDE DEF r
  <2>3. Follows(r, p)
    BY <2>1 DEF Follows, Deciding
  <2>4. \A q \in Installers : Follows(inst'[q], q)
    BY <1>2, <2>2, <2>3, OneFollows
  <2> QED
    BY <1>1, <2>4, KnownStays DEF UserInv, UserFilesAreKnown, SnapshotOf
<1>4. CASE InstallDies(p)
  <2>1. \A q \in Installers : Follows(inst'[q], q)
    BY <1>2, <1>4, IdleFollows DEF InstallDies
  <2> QED
    BY <1>1, <2>1, KnownStays DEF UserInv, UserFilesAreKnown, SnapshotOf
<1>5. CASE \/ SkillsVerify(p) \/ ConfigWrite(p) \/ ConfigMerge(p)
           \/ StateLock(p) \/ InstallFails(p)
  <2>1. /\ Active(p)
        /\ \/ GoesOn(p, "skills") /\ inst[p].pc \in Deciding
           \/ GoesOn(p, "retire") \/ GoesOn(p, "state")
           \/ GoesOn(p, "locked") \/ GoesOn(p, "rollback")
    BY <1>5 DEF SkillsVerify, ConfigWrite, ConfigMerge, StateLock,
                InstallFails, Active, Deciding
  <2>2. ASSUME NEW pc, pc \notin Deciding, GoesOn(p, pc)
        PROVE  \A q \in Installers : Follows(inst'[q], q)
    BY <1>2, <2>1, <2>2, GoesOnFollows
  <2>3. ASSUME GoesOn(p, "skills"), inst[p].pc \in Deciding
        PROVE  \A q \in Installers : Follows(inst'[q], q)
    BY <1>2, <2>1, <2>3, GoesOnFollows
  <2>4. \A q \in Installers : Follows(inst'[q], q)
    BY <2>1, <2>2, <2>3 DEF Deciding
  <2> QED
    BY <1>1, <2>4, KnownStays DEF UserInv, UserFilesAreKnown, SnapshotOf
<1> QED
  BY <1>3, <1>4, <1>5

\* The steps that write a state file.
LEMMA StateKnown ==
  ASSUME UserInv, NEW f \in StateFiles, inst' = Rewrites(f),
         mine' = mine, disk' = disk, snapshots' = snapshots
  PROVE  UserFilesAreKnown'
<1>1. \A q \in Installers : Follows(inst'[q], q)
  BY RewritesType DEF UserInv, Follows, Active
<1> QED
  BY <1>1, KnownStays DEF UserInv, UserFilesAreKnown, SnapshotOf

\* The installation rewrites a state file and goes on.
LEMMA StateStepRewrites ==
  ASSUME TypeInv, NEW p \in Installers, SkillsManifest(p) \/ StateWrite(p)
  PROVE  \E f \in StateFiles, goal \in {"backup", "state", "commit"} :
           \/ inst' = [Rewrites(f) EXCEPT ![p].pc = goal]
           \/ inst' = [Rewrites(f) EXCEPT ![p].pc = goal, ![p].file = "lock"]
<1>1. CASE SkillsManifest(p)
  <2>1. "ownership" \in StateFiles
    BY DEF StateFiles
  <2> QED
    BY <1>1, <2>1 DEF SkillsManifest
<1>2. CASE StateWrite(p)
  <2> DEFINE goal == IF inst[p].file = "config" THEN "state" ELSE "commit"
  <2>1. inst[p].file \in StateFiles
    BY DEF TypeInv, TypeOK, InstallType, StateFiles
  <2>2. inst' = [Rewrites(inst[p].file) EXCEPT ![p].pc = goal,
                                               ![p].file = "lock"]
    BY <1>2 DEF StateWrite
  <2>3. goal \in {"backup", "state", "commit"}
    OBVIOUS
  <2> HIDE DEF goal
  <2> QED
    BY <2>1, <2>2, <2>3
<1> QED
  BY <1>1, <1>2

LEMMA StateStepKnown ==
  ASSUME UserInv, NEW p \in Installers, SkillsManifest(p) \/ StateWrite(p)
  PROVE  UserFilesAreKnown'
<1>1. PICK f \in StateFiles, goal \in {"backup", "state", "commit"} :
        \/ inst' = [Rewrites(f) EXCEPT ![p].pc = goal]
        \/ inst' = [Rewrites(f) EXCEPT ![p].pc = goal, ![p].file = "lock"]
  BY StateStepRewrites DEF UserInv
<1>2. mine' = mine /\ disk' = disk /\ snapshots' = snapshots /\ Active(p)
  BY DEF SkillsManifest, StateWrite, tree, Active
<1> DEFINE w == Rewrites(f)
<1>3. /\ w \in [Installers -> InstallType]
      /\ \A q \in Installers : /\ w[q].pc = inst[q].pc
                                /\ w[q].snap = inst[q].snap
                                /\ w[q].report = inst[q].report
                                /\ w[q].replace = inst[q].replace
  BY RewritesType DEF UserInv
<1>4. inst' = [w EXCEPT ![p].pc = goal]
        \/ inst' = [w EXCEPT ![p].pc = goal, ![p].file = "lock"]
  BY <1>1
<1> HIDE DEF w
<1>5. /\ inst'[p].pc = goal /\ inst'[p].snap = inst[p].snap
      /\ \A q \in Installers \ {p} : inst'[q] = w[q]
  <2>1. w[p] \in InstallType
    BY <1>3
  <2>2. CASE inst' = [w EXCEPT ![p].pc = goal]
    BY <1>3, <2>1, <2>2 DEF InstallType
  <2>3. CASE inst' = [w EXCEPT ![p].pc = goal, ![p].file = "lock"]
    BY <1>3, <2>1, <2>3 DEF InstallType
  <2> QED
    BY <1>4, <2>2, <2>3
<1>6. ASSUME NEW q \in Installers
      PROVE  Follows(inst'[q], q)
  <2>1. CASE q = p
    BY <1>2, <1>5, <2>1 DEF Follows, Deciding
  <2>2. CASE q # p
    BY <1>3, <1>5, <2>2 DEF Follows, Active
  <2> QED
    BY <2>1, <2>2
<1> QED
  BY <1>2, <1>6, KnownStays DEF UserInv, UserFilesAreKnown, SnapshotOf

LEMMA InspectKnown ==
  ASSUME UserInv, NEW p \in Installers, SkillsInspect(p)
  PROVE  UserFilesAreKnown'
<1> DEFINE report == Report(inst[p].version)
<1>1. /\ inst \in [Installers -> InstallType] /\ inst[p] \in InstallType
      /\ Active(p) /\ inst[p].version \in Versions
      /\ disk' = disk /\ snapshots' = snapshots
  BY DEF UserInv, TypeInv, TypeOK, SkillsInspect, Active, HasBegun, tree
<1>2. PICK replace \in SUBSET DOMAIN report :
        /\ mine' = mine \ replace
        /\ InstBecomes(p, [inst[p] EXCEPT !.pc = "verify", !.report = report,
                                          !.replace = replace])
  BY DEF SkillsInspect
<1> DEFINE r == [inst[p] EXCEPT !.pc = "verify", !.report = report,
                                !.replace = replace]
<1>3. /\ r.pc = "verify" /\ r.snap = inst[p].snap
      /\ r.report = report /\ r.replace = replace
  BY <1>1 DEF InstallType
<1>4. ASSUME NEW f \in mine', f \in DOMAIN report
      PROVE  report[f].status \notin {"Missing", "Outdated"}
  <2> DEFINE owns == state["ownership"].value
  <2>1. disk[f] = User
    BY <1>2, <1>4 DEF UserInv, UserFilesAreKnown
  <2>2. Owned(owns, f) => owns[f] # User
    <3>1. owns \in Manifests(SkillSet)
      BY DEF UserInv, TypeInv, TypeOK, StateType
    <3>2. owns \in [DOMAIN owns -> Versions]
      BY <3>1, ManifestFacts
    <3> QED
      BY <3>2, UserIsNoVersion DEF Owned
  <2>3. ASSUME NEW legacy
        PROVE  Status(inst[p].version, f, owns, legacy)
                 \notin {"Missing", "Outdated"}
    <3> HIDE DEF owns
    <3> QED
      BY <2>1, <2>2, UserIsNoVersion DEF Status
  <2>4. report[f].status =
          Status(inst[p].version, f, owns, ~state["ownership"].there)
    BY <1>4 DEF Report
  <2> QED
    BY <2>3, <2>4
<1>5. inst' = [inst EXCEPT ![p] = r]
  BY <1>2 DEF InstBecomes
<1> HIDE DEF r, report
<1>6. ASSUME NEW f \in mine', NEW q \in Installers
      PROVE  Respects(q, f)'
  <2>1. f \in mine /\ f \notin replace /\ Respects(q, f)
    BY <1>2 DEF UserInv, UserFilesAreKnown
  <2>2. CASE q = p
    <3>1. inst'[q] = r
      BY <1>1, <1>5, <2>2
    <3>2. Spares(r, f)
      BY <1>3, <1>4, <2>1 DEF Spares
    <3> QED
      BY <1>1, <1>3, <2>1, <2>2, <3>1, <3>2 DEF Respects, Active, SnapshotOf
  <2>3. CASE q # p
    <3>1. inst'[q] = inst[q]
      BY <1>1, <1>5, <2>3
    <3> QED
      BY <1>1, <2>1, <3>1 DEF Respects, Active, SnapshotOf
  <2> QED
    BY <2>2, <2>3
<1> QED
  BY <1>1, <1>2, <1>6 DEF UserInv, UserFilesAreKnown

LEMMA WriteKnown ==
  ASSUME UserInv, NEW p \in Installers, SkillsWrite(p)
  PROVE  UserFilesAreKnown'
<1> DEFINE f == Skills[inst[p].at]
           r == [inst[p] EXCEPT !.at = @ + 1]
<1>1. /\ inst[p] \in InstallType /\ Active(p) /\ TypeInv
      /\ inst[p].pc = "skills" /\ disk \in [Files -> Contents]
      /\ mine' = mine /\ mine \subseteq Files /\ snapshots' = snapshots
  BY DEF UserInv, TypeInv, TypeOK, SkillsWrite, Active
<1>2. /\ r.pc = inst[p].pc /\ r.snap = inst[p].snap
      /\ r.report = inst[p].report /\ r.replace = inst[p].replace
  BY <1>1 DEF InstallType
<1>3. /\ InstBecomes(p, r)
      /\ disk' = IF f \in DOMAIN inst[p].report
                 THEN [disk EXCEPT ![f] = Reconciled(p, f)] ELSE disk
  BY DEF SkillsWrite
<1> HIDE DEF f, r
<1>4. Follows(r, p)
  BY <1>1, <1>2 DEF Follows
<1>5. \A q \in Installers : Follows(inst'[q], q)
  BY <1>1, <1>3, <1>4, OneFollows
<1>6. ASSUME NEW g \in mine'
      PROVE  disk'[g] = User
  <2>1. /\ g \in Files /\ disk[g] = User
        /\ Spares(inst[p], g)
    BY <1>1 DEF UserInv, UserFilesAreKnown, Respects, Deciding
  <2>2. CASE g = f /\ f \in DOMAIN inst[p].report
    <3>1. disk'[g] = Reconciled(p, g)
      BY <1>1, <1>3, <2>1, <2>2
    <3>2. Reconciled(p, g) = disk[g]
      BY <2>1, <2>2 DEF Reconciled, Spares, NeedsDecision
    <3> QED
      BY <2>1, <3>1, <3>2
  <2>3. CASE ~(g = f /\ f \in DOMAIN inst[p].report)
    BY <1>1, <1>3, <2>1, <2>3
  <2> QED
    BY <2>2, <2>3
<1> QED
  BY <1>1, <1>5, <1>6, KnownStays DEF SnapshotOf

\* What a manifest owns is not the user's.
LEMMA OwnedIsNotUsers ==
  ASSUME UserInv, NEW S, NEW owns \in Manifests(S), NEW f \in mine,
         Owned(owns, f)
  PROVE  disk[f] # owns[f]
<1>1. owns[f] \in Versions
  BY ManifestFacts DEF Owned
<1> QED
  BY <1>1, UserIsNoVersion DEF UserInv, UserFilesAreKnown

LEMMA AssetKnown ==
  ASSUME UserInv, NEW p \in Installers, AssetWrite(p)
  PROVE  UserFilesAreKnown'
<1> DEFINE f == Assets[inst[p].at]
           r == [inst[p] EXCEPT !.at = @ + 1]
           s == [inst[p] EXCEPT !.at = @ + 1, !.next = NextOwned(p, f)]
<1>1. /\ inst[p] \in InstallType /\ Active(p) /\ TypeInv
      /\ inst[p].pc = "assets" /\ disk \in [Files -> Contents]
      /\ mine' = mine /\ mine \subseteq Files /\ snapshots' = snapshots
  BY DEF UserInv, TypeInv, TypeOK, AssetWrite, Active
<1>2. /\ r.pc = inst[p].pc /\ r.snap = inst[p].snap
      /\ s.pc = inst[p].pc /\ s.snap = inst[p].snap
  BY <1>1 DEF InstallType
<1>3. /\ InstBecomes(p, r) \/ InstBecomes(p, s)
      /\ \/ disk' = disk
         \/ MayWrite(p, f) /\ disk' = [disk EXCEPT ![f] = inst[p].version]
  BY DEF AssetWrite
<1> HIDE DEF f, r, s
<1>4. Follows(r, p) /\ Follows(s, p)
  BY <1>1, <1>2 DEF Follows, Deciding
<1>5. \A q \in Installers : Follows(inst'[q], q)
  BY <1>1, <1>3, <1>4, OneFollows
<1>6. ASSUME NEW g \in mine'
      PROVE  disk'[g] = User
  <2>1. g \in mine /\ g \in Files /\ disk[g] = User
    BY <1>1 DEF UserInv, UserFilesAreKnown
  <2>2. ~MayWrite(p, g)
    <3>1. inst[p].old \in Manifests(AssetSet)
      BY <1>1 DEF InstallType
    <3> QED
      BY <2>1, <3>1, OwnedIsNotUsers, UserIsNoVersion DEF MayWrite
  <2> QED
    BY <1>1, <1>3, <2>1, <2>2
<1> QED
  BY <1>1, <1>5, <1>6, KnownStays DEF SnapshotOf

LEMMA RetireKnown ==
  ASSUME UserInv, NEW p \in Installers, AssetsRetire(p)
  PROVE  UserFilesAreKnown'
<1>1. /\ inst[p] \in InstallType /\ Active(p) /\ TypeInv
      /\ mine' = mine /\ mine \subseteq Files /\ snapshots' = snapshots
  BY DEF UserInv, TypeInv, TypeOK, AssetsRetire, Active
<1>2. \A q \in Installers : Follows(inst'[q], q)
  BY <1>1, GoesOnFollows DEF AssetsRetire, Deciding
<1>3. ASSUME NEW g \in mine'
      PROVE  disk'[g] = User
  <2>1. g \in mine /\ g \in Files /\ disk[g] = User
    BY <1>1 DEF UserInv, UserFilesAreKnown
  <2>2. inst[p].old \in Manifests(AssetSet)
    BY <1>1 DEF InstallType
  <2>3. g \in DOMAIN inst[p].old => disk[g] # inst[p].old[g]
    BY <2>1, <2>2, OwnedIsNotUsers DEF Owned
  <2> QED
    BY <2>1, <2>3 DEF AssetsRetire
<1> QED
  BY <1>1, <1>2, <1>3, KnownStays DEF SnapshotOf

LEMMA RemovesKnown ==
  ASSUME UserInv, NEW p \in Installers, RollbackRemoves(p)
  PROVE  UserFilesAreKnown'
<1>1. /\ Active(p) /\ TypeInv /\ snapshots' = snapshots /\ mine \subseteq Files
      /\ mine' = mine \ CreatedSince(SnapshotOf(p))
      /\ disk' = [f \in Files |-> IF f \in CreatedSince(SnapshotOf(p))
                                  THEN NoFile ELSE disk[f]]
      /\ GoesOn(p, "restore") \/ InstBecomes(p, Idle)
  BY DEF UserInv, TypeInv, TypeOK, RollbackRemoves, Active, SnapshotOf
<1>2. \A q \in Installers : Follows(inst'[q], q)
  <2>1. CASE GoesOn(p, "restore")
    BY <1>1, <2>1, GoesOnFollows DEF Deciding
  <2>2. CASE InstBecomes(p, Idle)
    BY <1>1, <2>2, IdleFollows
  <2> QED
    BY <1>1, <2>1, <2>2
<1>3. \A f \in mine' : disk'[f] = User
  BY <1>1 DEF UserInv, UserFilesAreKnown
<1> QED
  BY <1>1, <1>2, <1>3, KnownStays DEF SnapshotOf

LEMMA RestoresKnown ==
  ASSUME UserInv, NEW p \in Installers, RollbackRestores(p)
  PROVE  UserFilesAreKnown'
<1>1. /\ Active(p) /\ TypeInv /\ snapshots' = snapshots
      /\ mine' = mine /\ mine \subseteq Files
      /\ disk' = [f \in Files |-> IF SnapshotOf(p).disk[f] = NoFile
                                  THEN disk[f] ELSE SnapshotOf(p).disk[f]]
      /\ InstBecomes(p, Idle)
  BY DEF UserInv, TypeInv, TypeOK, RollbackRestores, Active, SnapshotOf
<1>2. \A q \in Installers : Follows(inst'[q], q)
  BY <1>1, IdleFollows
<1>3. \A f \in mine' : disk'[f] = User
  BY <1>1 DEF UserInv, UserFilesAreKnown, Respects
<1> QED
  BY <1>1, <1>2, <1>3, KnownStays DEF SnapshotOf

LEMMA UninstallKnown ==
  ASSUME UserInv, UninstallStep
  PROVE  UserFilesAreKnown'
<1>1. /\ inst' = inst /\ snapshots' = snapshots /\ mine' = mine
      /\ mine \subseteq Files /\ disk \in [Files -> Contents]
  BY DEF UserInv, TypeInv, TypeOK, UninstallStep, UninstallBegins,
         UninstallStages, UninstallEnds, UninstallFails, RemovalKeeps
<1>2. \A f \in mine : disk'[f] = User
  <2>1. CASE UninstallStages
    <3> TAKE f \in mine
    <3>1. f \in Files /\ disk[f] = User
      BY <1>1 DEF UserInv, UserFilesAreKnown
    <3>2. removal.owns \in Manifests(Files)
      BY DEF UserInv, TypeInv, TypeOK
    <3>3. ~Eligible(removal.owns, f)
      BY <3>2, OwnedIsNotUsers DEF Eligible
    <3> QED
      BY <1>1, <2>1, <3>1, <3>3 DEF UninstallStages
  <2>2. CASE ~UninstallStages
    BY <2>2 DEF UserInv, UserFilesAreKnown, UninstallStep, UninstallBegins,
                UninstallEnds, UninstallFails
  <2> QED
    BY <2>1, <2>2
<1> QED
  BY <1>1, <1>2 DEF UserInv, UserFilesAreKnown, Respects, Active, SnapshotOf

LEMMA UserKnown ==
  ASSUME UserInv, UserStep
  PROVE  UserFilesAreKnown'
<1>1. ASSUME NEW f \in Files, NEW c \in {User, NoFile}, UserWrites(f, c)
      PROVE  UserFilesAreKnown'
  <2>1. /\ inst' = inst /\ snapshots' = snapshots /\ mine \subseteq Files
        /\ disk \in [Files -> Contents] /\ disk' = [disk EXCEPT ![f] = c]
    BY <1>1 DEF UserInv, TypeInv, TypeOK, UserWrites
  <2>2. CASE c = User /\ Quiet
    <3>1. \A q \in Installers : inst[q].pc = "idle"
      BY <2>2 DEF Quiet, Idle
    <3>2. mine' = mine \cup {f}
      BY <1>1, <2>2 DEF UserWrites
    <3>3. \A g \in mine' : disk'[g] = User
      BY <2>1, <2>2, <3>2 DEF UserInv, UserFilesAreKnown
    <3>4. \A g \in mine', q \in Installers : Respects(q, g)'
      BY <2>1, <3>1 DEF Respects, Active, Deciding
    <3> QED
      BY <3>3, <3>4 DEF UserFilesAreKnown
  <2>3. CASE ~(c = User /\ Quiet)
    <3>1. mine' = mine \ {f}
      BY <1>1, <2>3 DEF UserWrites
    <3> QED
      BY <2>1, <3>1
      DEF UserInv, UserFilesAreKnown, Respects, Active, SnapshotOf
  <2> QED
    BY <2>2, <2>3
<1>2. ASSUME NEW s \in Servers, UserConfigures(s)
      PROVE  UserFilesAreKnown'
  BY <1>2 DEF UserInv, UserConfigures, UserFilesAreKnown, Respects, Active,
              SnapshotOf
<1>3. CASE UserEditsState
  <2>1. "config" \in StateFiles
    BY DEF StateFiles
  <2> QED
    BY <1>3, <2>1, StateKnown DEF UserEditsState, tree, history
<1> QED
  BY <1>1, <1>2, <1>3 DEF UserStep

LEMMA StepKnown ==
  ASSUME UserInv, [Next]_vars
  PROVE  UserFilesAreKnown'
<1>1. ASSUME NEW p \in Installers, InstallStep(p)
      PROVE  UserFilesAreKnown'
  BY <1>1, BeginsKnown, QuietKnown, StateStepKnown, InspectKnown, WriteKnown,
     AssetKnown, RetireKnown, CommitKnown, RemovesKnown, RestoresKnown
  DEF InstallStep
<1>2. CASE UNCHANGED vars
  BY <1>2 DEF UserInv, UserFilesAreKnown, Respects, Active, SnapshotOf, vars
<1> QED
  BY <1>1, <1>2, PruneKnown, UninstallKnown, UserKnown DEF Next

\* What the user wrote while nothing was running survives whatever any number
\* of installations and uninstalls do, fail at or die of, unless a human
\* decided to replace it.
THEOREM UserFilesAreSafe == Spec => []UserFilesSurvive
<1>1. Init => UserInv
  BY InitTyped DEF Init, UserInv, UserFilesAreKnown
<1>2. UserInv /\ [Next]_vars => UserInv'
  BY StepTyped, StepKnown DEF UserInv
<1>3. UserInv => UserFilesSurvive
  BY DEF UserInv, UserFilesAreKnown, UserFilesSurvive
<1> QED
  BY <1>1, <1>2, <1>3, PTL DEF Spec

-----------------------------------------------------------------------------
(* The servers of a lone installer.                                        *)

\* Two that run at once may lose servers: the second one reads and copies the
\* configuration while the first has taken its servers out, and writes it after
\* the first has committed.
LoneInstaller == \A p, q \in Installers : p = q

\* A snapshot that pruning leaves alone has the server s.
InSnapshot(s) ==
  \E i \in DOMAIN snapshots :
    /\ snapshots[i].status = "recovery-needed"
    /\ s \in snapshots[i].config.servers

WantedIsFound == \A s \in wanted : s \in config.servers \/ InSnapshot(s)

\* A configuration that is not there has no servers.
NoServersWithoutConfig ==
  /\ ~config.there => config.servers = {}
  /\ \A i \in DOMAIN snapshots :
       ~snapshots[i].config.there => snapshots[i].config.servers = {}

\* An installation has not touched the configuration, or holds what was in it.
Whole ==
  {"inspect", "verify", "skills", "backup", "state", "locked", "commit"}
Merging == {"assets", "retire", "merge"}

Finds(p) ==
  /\ Active(p) => /\ SnapshotOf(p).status = "recovery-needed"
                  /\ config.servers \subseteq SnapshotOf(p).config.servers
  /\ inst[p].pc \in Whole => config.servers = SnapshotOf(p).config.servers
  /\ inst[p].pc \in Merging => inst[p].read = SnapshotOf(p).config.servers

ServersInv ==
  /\ WantedIsFound /\ NoServersWithoutConfig
  /\ \A p \in Installers : Finds(p)

\* r goes on from where p is, and does not touch the configuration.
Continues(r, p) ==
  /\ r.pc # "idle" => Active(p) /\ r.snap = inst[p].snap
  /\ r.pc \in Whole => inst[p].pc \in Whole
  /\ r.pc \in Merging => r.read = SnapshotOf(p).config.servers

LEMMA OneContinues ==
  ASSUME TypeInv, ServersInv, NEW p \in Installers, NEW r, InstBecomes(p, r),
         Continues(r, p)
  PROVE  \A q \in Installers : Continues(inst'[q], q)
<1> TAKE q \in Installers
<1>1. inst' = [inst EXCEPT ![p] = r] /\ inst \in [Installers -> InstallType]
  BY DEF TypeInv, TypeOK, InstBecomes
<1>2. CASE q = p
  BY <1>1, <1>2
<1>3. CASE q # p
  <2>1. inst'[q] = inst[q] /\ Finds(q)
    BY <1>1, <1>3 DEF ServersInv
  <2> QED
    BY <2>1 DEF Continues, Active, Finds
<1> QED
  BY <1>2, <1>3

LEMMA ServersStay ==
  ASSUME ServersInv, config' = config, snapshots' = snapshots,
         wanted' = wanted, \A q \in Installers : Continues(inst'[q], q)
  PROVE  ServersInv'
<1>1. ASSUME NEW q \in Installers
      PROVE  Finds(q)'
  <2>1. Finds(q) /\ Continues(inst'[q], q)
    BY DEF ServersInv
  <2>2. inst'[q].pc # "idle" => SnapshotOf(q)' = SnapshotOf(q)
    BY <2>1 DEF Continues, SnapshotOf
  <2>3. "idle" \notin Whole /\ "idle" \notin Merging
    BY DEF Whole, Merging
  <2> QED
    BY <2>1, <2>2, <2>3 DEF Finds, Continues, Active
<1> QED
  BY <1>1 DEF ServersInv, WantedIsFound, InSnapshot, NoServersWithoutConfig

\* When one installation goes on to a place that asks no more of it.
LEMMA GoesOnContinues ==
  ASSUME TypeInv, ServersInv, NEW p \in Installers, Active(p),
         NEW pc, GoesOn(p, pc),
         pc \in Whole => inst[p].pc \in Whole,
         pc \in Merging => inst[p].pc \in Merging
  PROVE  \A q \in Installers : Continues(inst'[q], q)
<1> DEFINE r == [inst[p] EXCEPT !.pc = pc]
<1>1. inst[p] \in InstallType /\ Finds(p)
  BY DEF TypeInv, TypeOK, ServersInv
<1>2. /\ r.pc = pc /\ r.snap = inst[p].snap /\ r.read = inst[p].read
  BY <1>1 DEF InstallType
<1>3. InstBecomes(p, r)
  BY DEF GoesOn
<1> HIDE DEF r
<1>4. Continues(r, p)
  BY <1>1, <1>2 DEF Continues, Finds
<1> QED
  BY <1>3, <1>4, OneContinues

LEMMA IdleContinues ==
  ASSUME TypeInv, ServersInv, NEW p \in Installers, InstBecomes(p, Idle)
  PROVE  \A q \in Installers : Continues(inst'[q], q)
<1>1. Continues(Idle, p)
  BY DEF Continues, Idle, Whole, Merging
<1> QED
  BY <1>1, OneContinues

\* A step of the installation's own that leaves its place as it is.
LEMMA WalkContinues ==
  ASSUME TypeInv, ServersInv, NEW p \in Installers, Active(p), NEW r,
         InstBecomes(p, r), r.snap = inst[p].snap, r.read = inst[p].read,
         r.pc = inst[p].pc
  PROVE  \A q \in Installers : Continues(inst'[q], q)
<1>1. Finds(p)
  BY DEF ServersInv
<1>2. Continues(r, p)
  BY <1>1 DEF Continues, Finds
<1> QED
  BY <1>2, OneContinues

-----------------------------------------------------------------------------
(* No step loses a server.                                                 *)

\* The steps that leave configuration and snapshots alone.
LEMMA MovesServers ==
  ASSUME TypeInv, ServersInv, NEW p \in Installers,
         \/ SkillsVerify(p) \/ AssetsRetire(p) \/ StateLock(p)
         \/ InstallFails(p) \/ InstallDies(p)
  PROVE  ServersInv'
<1>1. config' = config /\ snapshots' = snapshots /\ wanted' = wanted
  BY DEF SkillsVerify, AssetsRetire, StateLock, InstallFails, InstallDies,
         InstallKeeps, tree
<1>2. \A q \in Installers : Continues(inst'[q], q)
  <2>1. CASE SkillsVerify(p)
    BY <2>1, GoesOnContinues DEF SkillsVerify, Active, Whole, Merging
  <2>2. CASE AssetsRetire(p)
    BY <2>2, GoesOnContinues DEF AssetsRetire, Active, Whole, Merging
  <2>3. CASE StateLock(p)
    BY <2>3, GoesOnContinues DEF StateLock, Active, Whole, Merging
  <2>4. CASE InstallFails(p)
    BY <2>4, GoesOnContinues DEF InstallFails, Active, Whole, Merging
  <2>5. CASE InstallDies(p)
    BY <2>5, IdleContinues DEF InstallDies
  <2> QED
    BY <2>1, <2>2, <2>3, <2>4, <2>5
<1> QED
  BY <1>1, <1>2, ServersStay

LEMMA WalksServers ==
  ASSUME TypeInv, ServersInv, NEW p \in Installers,
         SkillsInspect(p) \/ SkillsWrite(p) \/ ConfigBackup(p) \/ AssetWrite(p)
  PROVE  ServersInv'
<1>1. /\ config' = config /\ snapshots' = snapshots /\ wanted' = wanted
      /\ inst[p] \in InstallType /\ Active(p) /\ Finds(p)
  BY DEF SkillsInspect, SkillsWrite, ConfigBackup, AssetWrite, InstallKeeps,
         tree, TypeInv, TypeOK, Active, ServersInv
<1>2. CASE SkillsInspect(p)
  <2> DEFINE report == Report(inst[p].version)
  <2>1. PICK replace : InstBecomes(p,
          [inst[p] EXCEPT !.pc = "verify", !.report = report,
                          !.replace = replace])
    BY <1>2 DEF SkillsInspect
  <2> DEFINE r == [inst[p] EXCEPT !.pc = "verify", !.report = report,
                                  !.replace = replace]
  <2> HIDE DEF report
  <2>2. r.pc = "verify" /\ r.snap = inst[p].snap
    BY <1>1 DEF InstallType
  <2>3. InstBecomes(p, r)
    BY <2>1
  <2> HIDE DEF r
  <2>4. Continues(r, p)
    BY <1>1, <1>2, <2>2 DEF Continues, SkillsInspect, Whole, Merging
  <2>5. \A q \in Installers : Continues(inst'[q], q)
    BY <2>3, <2>4, OneContinues
  <2> QED
    BY <1>1, <2>5, ServersStay
<1>3. CASE ConfigBackup(p)
  <2> DEFINE r == [inst[p] EXCEPT
                     !.pc = "assets", !.at = 1, !.read = config.servers,
                     !.old = IF inventory.there THEN inventory.owns ELSE <<>>]
  <2>1. /\ r.pc = "assets" /\ r.snap = inst[p].snap
        /\ r.read = config.servers
    BY <1>1 DEF InstallType
  <2>2. InstBecomes(p, r) /\ inst[p].pc = "backup"
    BY <1>3 DEF ConfigBackup
  <2> HIDE DEF r
  <2>3. Continues(r, p)
    BY <1>1, <2>1, <2>2 DEF Continues, Finds, Whole, Merging
  <2>4. \A q \in Installers : Continues(inst'[q], q)
    BY <2>2, <2>3, OneContinues
  <2> QED
    BY <1>1, <2>4, ServersStay
<1>4. CASE SkillsWrite(p) \/ AssetWrite(p)
  <2> DEFINE f == Assets[inst[p].at]
             r == [inst[p] EXCEPT !.at = @ + 1]
             s == [inst[p] EXCEPT !.at = @ + 1, !.next = NextOwned(p, f)]
  <2>1. /\ r.pc = inst[p].pc /\ r.snap = inst[p].snap
        /\ r.read = inst[p].read
        /\ s.pc = inst[p].pc /\ s.snap = inst[p].snap
        /\ s.read = inst[p].read
    BY <1>1 DEF InstallType
  <2>2. InstBecomes(p, r) \/ InstBecomes(p, s)
    BY <1>4 DEF SkillsWrite, AssetWrite
  <2> HIDE DEF r, s
  <2>3. \A q \in Installers : Continues(inst'[q], q)
    BY <1>1, <2>1, <2>2, WalkContinues
  <2> QED
    BY <1>1, <2>3, ServersStay
<1> QED
  BY <1>2, <1>3, <1>4

LEMMA StateServers ==
  ASSUME TypeInv, ServersInv, NEW p \in Installers,
         SkillsManifest(p) \/ StateWrite(p)
  PROVE  ServersInv'
<1>1. PICK f \in StateFiles, goal \in {"backup", "state", "commit"} :
        \/ inst' = [Rewrites(f) EXCEPT ![p].pc = goal]
        \/ inst' = [Rewrites(f) EXCEPT ![p].pc = goal, ![p].file = "lock"]
  BY StateStepRewrites
<1>2. /\ config' = config /\ snapshots' = snapshots /\ wanted' = wanted
      /\ inst[p].pc \in {"skills", "locked"}
  BY DEF SkillsManifest, StateWrite, tree, InstallKeeps
<1> DEFINE w == Rewrites(f)
<1>3. /\ w \in [Installers -> InstallType]
      /\ \A q \in Installers : /\ w[q].pc = inst[q].pc
                                /\ w[q].snap = inst[q].snap
                                /\ w[q].read = inst[q].read
  BY RewritesType
<1>4. inst' = [w EXCEPT ![p].pc = goal]
        \/ inst' = [w EXCEPT ![p].pc = goal, ![p].file = "lock"]
  BY <1>1
<1> HIDE DEF w
<1>5. /\ inst'[p].pc = goal /\ inst'[p].snap = inst[p].snap
      /\ \A q \in Installers \ {p} : inst'[q] = w[q]
  <2>1. w[p] \in InstallType
    BY <1>3
  <2>2. CASE inst' = [w EXCEPT ![p].pc = goal]
    BY <1>3, <2>1, <2>2 DEF InstallType
  <2>3. CASE inst' = [w EXCEPT ![p].pc = goal, ![p].file = "lock"]
    BY <1>3, <2>1, <2>3 DEF InstallType
  <2> QED
    BY <1>4, <2>2, <2>3
<1>6. ASSUME NEW q \in Installers
      PROVE  Continues(inst'[q], q)
  <2>1. CASE q = p
    BY <1>2, <1>5, <2>1 DEF Continues, Active, Whole, Merging
  <2>2. CASE q # p
    <3>1. Finds(q)
      BY DEF ServersInv
    <3> QED
      BY <1>3, <1>5, <2>2, <3>1 DEF Continues, Active, Finds
  <2> QED
    BY <2>1, <2>2
<1> QED
  BY <1>2, <1>6, ServersStay

LEMMA BeginsServers ==
  ASSUME TypeInv, ServersInv, LoneInstaller, NEW p \in Installers,
         NEW v \in Versions, InstallBegins(p, v)
  PROVE  ServersInv'
<1> DEFINE r == [Idle EXCEPT !.pc = "inspect", !.version = v,
                             !.snap = Len(snapshots) + 1,
                             !.loaded = state["config"]]
<1>1. /\ snapshots \in Seq(SnapshotType)
      /\ snapshots' = Append(snapshots, Snapshot)
      /\ config' = config /\ wanted' = wanted
  BY DEF TypeInv, TypeOK, InstallBegins, tree, history
<1>2. /\ Len(snapshots) + 1 \in DOMAIN snapshots'
      /\ snapshots'[Len(snapshots) + 1] = Snapshot
      /\ \A i \in DOMAIN snapshots :
           i \in DOMAIN snapshots' /\ snapshots'[i] = snapshots[i]
      /\ \A i \in DOMAIN snapshots' :
           i \in DOMAIN snapshots \/ snapshots'[i] = Snapshot
  BY <1>1
<1>3. r.pc = "inspect" /\ r.snap = Len(snapshots) + 1
  BY DEF Idle
<1>4. inst' = [inst EXCEPT ![p] = r] /\ inst \in [Installers -> InstallType]
  BY DEF TypeInv, TypeOK, InstallBegins, InstBecomes
<1> HIDE DEF r
<1>5. inst'[p] = r /\ SnapshotOf(p)' = Snapshot
  BY <1>2, <1>3, <1>4 DEF SnapshotOf
<1>6. Finds(p)'
  BY <1>1, <1>3, <1>5 DEF Finds, Snapshot, Whole, Merging
<1>7. \A q \in Installers : Finds(q)'
  BY <1>6 DEF LoneInstaller
<1>8. NoServersWithoutConfig'
  BY <1>1, <1>2 DEF ServersInv, NoServersWithoutConfig, Snapshot
<1>9. WantedIsFound'
  BY <1>1, <1>2 DEF ServersInv, WantedIsFound, InSnapshot
<1> QED
  BY <1>7, <1>8, <1>9 DEF ServersInv

LEMMA PruneServers ==
  ASSUME TypeInv, ServersInv, Prune
  PROVE  ServersInv'
<1>1. PICK i \in DOMAIN snapshots :
        /\ EligibleToPrune(snapshots[i])
        /\ snapshots' = RemoveAt(snapshots, i)
  BY DEF Prune
<1> DEFINE n == Len(snapshots)
           a == SubSeq(snapshots, 1, i-1)
           b == SubSeq(snapshots, i+1, n)
<1>2. /\ snapshots \in Seq(SnapshotType) /\ i \in 1..n /\ n \in Nat
      /\ config' = config /\ wanted' = wanted
  BY <1>1 DEF TypeInv, TypeOK, Prune, tree, history
<1>3. /\ \A j \in 1..i-1 : snapshots[j] \in SnapshotType
      /\ \A j \in i+1..n : snapshots[j] \in SnapshotType
  BY <1>2, ElementOfSeq
<1>4. /\ a \in Seq(SnapshotType) /\ Len(a) = i - 1
      /\ \A j \in 1..i-1 : a[j] = snapshots[j]
  BY <1>2, <1>3, SubSeqProperties
<1>5. /\ b \in Seq(SnapshotType) /\ Len(b) = n - i
      /\ \A j \in 1..n-i : b[j] = snapshots[i + j]
  BY <1>2, <1>3, SubSeqProperties
<1>6. snapshots' = a \o b
  BY <1>1 DEF RemoveAt
<1> HIDE DEF a, b, n
<1>7. /\ snapshots' \in Seq(SnapshotType) /\ Len(snapshots') = n - 1
      /\ \A j \in 1..n-1 :
           snapshots'[j] = IF j <= i - 1 THEN a[j] ELSE b[j - (i - 1)]
  <2>1. Len(a) + Len(b) = n - 1
    BY <1>2, <1>4, <1>5
  <2>2. /\ a \o b \in Seq(SnapshotType) /\ Len(a \o b) = Len(a) + Len(b)
        /\ \A j \in 1..Len(a) + Len(b) :
             (a \o b)[j] = IF j <= Len(a) THEN a[j] ELSE b[j - Len(a)]
    BY <1>4, <1>5, ConcatProperties
  <2> QED
    BY <1>4, <1>6, <2>1, <2>2
<1>8. \A j \in 1..n-1 :
        snapshots'[j] = IF j < i THEN snapshots[j] ELSE snapshots[j + 1]
  <2> TAKE j \in 1..n-1
  <2>1. CASE j < i
    BY <1>2, <1>4, <1>7, <2>1
  <2>2. CASE j >= i
    <3>1. j - (i - 1) \in 1..n-i /\ i + (j - (i - 1)) = j + 1
      BY <1>2, <2>2
    <3> QED
      BY SMTT(60), <1>2, <1>5, <1>7, <2>2, <3>1
  <2> QED
    BY <1>2, <2>1, <2>2
<1>9. DOMAIN snapshots = 1..n /\ DOMAIN snapshots' = 1..n-1
  BY <1>2, <1>7 DEF n
<1>10. \A j \in DOMAIN snapshots' :
         \E k \in DOMAIN snapshots : snapshots'[j] = snapshots[k]
  BY SMTT(60), <1>2, <1>8, <1>9
<1>11. ASSUME NEW k \in DOMAIN snapshots, k # i
       PROVE  \E j \in DOMAIN snapshots' : snapshots'[j] = snapshots[k]
  <2>1. CASE k < i
    <3>1. k \in 1..n-1
      BY <1>2, <1>9, <2>1
    <3> QED
      BY <1>8, <1>9, <2>1, <3>1
  <2>2. CASE k > i
    <3>1. k - 1 \in 1..n-1 /\ ~(k - 1 < i) /\ (k - 1) + 1 = k
      BY <1>2, <1>9, <2>2
    <3>2. snapshots'[k - 1] = snapshots[k]
      BY <1>8, <3>1
    <3> QED
      BY <1>9, <3>1, <3>2
  <2> QED
    BY <1>2, <1>9, <1>11, <2>1, <2>2
<1>12. snapshots[i].status = "committed"
  BY <1>1 DEF EligibleToPrune
<1>13. WantedIsFound'
  <2> SUFFICES ASSUME NEW s \in wanted, InSnapshot(s)
               PROVE  InSnapshot(s)'
    BY <1>2 DEF ServersInv, WantedIsFound
  <2>1. PICK k \in DOMAIN snapshots :
          /\ snapshots[k].status = "recovery-needed"
          /\ s \in snapshots[k].config.servers
    BY DEF InSnapshot
  <2>2. PICK j \in DOMAIN snapshots' : snapshots'[j] = snapshots[k]
    BY <1>11, <1>12, <2>1
  <2> QED
    BY <2>1, <2>2 DEF InSnapshot
<1>14. NoServersWithoutConfig'
  BY <1>2, <1>10 DEF ServersInv, NoServersWithoutConfig
<1>15. \A q \in Installers : Finds(q)'
  BY DEF Prune, Idle, Finds, Active, Whole, Merging
<1> QED
  BY <1>13, <1>14, <1>15 DEF ServersInv

LEMMA CommitServers ==
  ASSUME TypeInv, ServersInv, LoneInstaller, NEW p \in Installers, Commit(p)
  PROVE  ServersInv'
<1> DEFINE n == inst[p].snap
<1>1. /\ config' = config /\ wanted' = wanted /\ Active(p) /\ Finds(p)
      /\ inst[p].pc \in Whole /\ n \in DOMAIN snapshots
      /\ snapshots \in Seq(SnapshotType)
  BY DEF Commit, InstallKeeps, tree, ServersInv, Active, Whole, TypeInv, TypeOK,
         HasBegun
<1>2. SnapshotOf(p) \in SnapshotType
  BY <1>1, SnapshotIsTyped
<1>3. /\ DOMAIN snapshots' = DOMAIN snapshots
      /\ snapshots'[n].config = snapshots[n].config
      /\ \A i \in DOMAIN snapshots \ {n} : snapshots'[i] = snapshots[i]
  BY <1>1, <1>2 DEF Commit, SnapshotOf, SnapshotType
<1>4. config.servers = snapshots[n].config.servers
  BY <1>1 DEF Finds, SnapshotOf
<1> HIDE DEF n
<1>5. WantedIsFound'
  <2> SUFFICES ASSUME NEW s \in wanted, InSnapshot(s), s \notin config.servers
               PROVE  InSnapshot(s)'
    BY <1>1 DEF ServersInv, WantedIsFound
  <2> QED
    BY <1>3, <1>4 DEF InSnapshot
<1>6. NoServersWithoutConfig'
  BY <1>1, <1>3 DEF ServersInv, NoServersWithoutConfig
<1>7. inst'[p] = Idle
  BY DEF Commit, InstBecomes, TypeInv, TypeOK
<1>8. \A q \in Installers : Finds(q)'
  BY <1>7 DEF LoneInstaller, Idle, Finds, Active, Whole, Merging
<1> QED
  BY <1>5, <1>6, <1>8 DEF ServersInv

\* What a running installation found is kept by its snapshot.
LEMMA RunningKeeps ==
  ASSUME TypeInv, ServersInv, NEW p \in Installers, Active(p)
  PROVE  /\ \A s \in wanted : InSnapshot(s)
         /\ ~SnapshotOf(p).config.there => config.servers = {}
<1>1. /\ Finds(p) /\ inst[p].snap \in DOMAIN snapshots
      /\ WantedIsFound /\ NoServersWithoutConfig
  BY DEF ServersInv, TypeInv, HasBegun
<1>2. /\ SnapshotOf(p).status = "recovery-needed"
      /\ config.servers \subseteq SnapshotOf(p).config.servers
  BY <1>1 DEF Finds
<1> QED
  BY <1>1, <1>2
  DEF WantedIsFound, InSnapshot, SnapshotOf, NoServersWithoutConfig

LEMMA ConfigServers ==
  ASSUME TypeInv, ServersInv, LoneInstaller, NEW p \in Installers,
         ConfigWrite(p) \/ ConfigMerge(p)
  PROVE  ServersInv'
<1>1. /\ snapshots' = snapshots /\ wanted' = wanted /\ Active(p) /\ Finds(p)
      /\ inst[p].pc \in Merging /\ inst[p] \in InstallType
  BY DEF ConfigWrite, ConfigMerge, InstallKeeps, ServersInv, TypeInv, TypeOK,
         Active, Merging
<1>2. /\ SnapshotOf(p).status = "recovery-needed"
      /\ config.servers \subseteq SnapshotOf(p).config.servers
      /\ inst[p].read = SnapshotOf(p).config.servers
  BY <1>1 DEF Finds
<1>3. PICK pc : /\ GoesOn(p, pc) /\ config'.there
                /\ \/ pc = "retire" /\ config'.servers = {}
                   \/ /\ pc = "state"
                      /\ config'.servers = config.servers \cup inst[p].read
  BY DEF ConfigWrite, ConfigMerge, Config
<1>4. /\ inst'[p].pc = pc /\ inst'[p].snap = inst[p].snap
      /\ inst'[p].read = inst[p].read
  BY <1>1, <1>3 DEF GoesOn, InstBecomes, TypeInv, TypeOK, InstallType
<1>5. SnapshotOf(p)' = SnapshotOf(p)
  BY <1>1, <1>4 DEF SnapshotOf
<1>6. Finds(p)'
  BY <1>2, <1>3, <1>4, <1>5 DEF Finds, Active, Whole, Merging
<1>7. \A q \in Installers : Finds(q)'
  BY <1>6 DEF LoneInstaller
<1>8. WantedIsFound'
  BY <1>1, RunningKeeps DEF WantedIsFound, InSnapshot
<1>9. NoServersWithoutConfig'
  BY <1>1, <1>3 DEF ServersInv, NoServersWithoutConfig
<1> QED
  BY <1>7, <1>8, <1>9 DEF ServersInv

LEMMA RollbackServers ==
  ASSUME TypeInv, ServersInv, LoneInstaller, NEW p \in Installers,
         RollbackRemoves(p) \/ RollbackRestores(p)
  PROVE  ServersInv'
<1>1. /\ snapshots' = snapshots /\ wanted' = wanted /\ Active(p) /\ Finds(p)
      /\ inst[p] \in InstallType /\ inst[p].snap \in DOMAIN snapshots
  BY DEF RollbackRemoves, RollbackRestores, InstallKeeps, ServersInv, TypeInv,
         TypeOK, Active, HasBegun
<1>2. /\ SnapshotOf(p).status = "recovery-needed"
      /\ config.servers \subseteq SnapshotOf(p).config.servers
  BY <1>1 DEF Finds
<1>3. \/ config' = config
      \/ config' = NoConfig
      \/ config' = SnapshotOf(p).config
  BY DEF RollbackRemoves, RollbackRestores, SnapshotOf
<1>4. config'.servers \subseteq SnapshotOf(p).config.servers
  BY <1>2, <1>3 DEF NoConfig
<1>5. NoServersWithoutConfig'
  BY <1>1, <1>3 DEF ServersInv, NoServersWithoutConfig, NoConfig, SnapshotOf
<1>6. WantedIsFound'
  BY <1>1, RunningKeeps DEF WantedIsFound, InSnapshot
<1>7. \/ inst'[p].pc = "idle"
      \/ inst'[p].pc = "restore" /\ inst'[p].snap = inst[p].snap
  BY <1>1 DEF RollbackRemoves, RollbackRestores, GoesOn, InstBecomes, TypeInv,
              TypeOK, InstallType, Idle
<1>8. Finds(p)'
  BY <1>1, <1>2, <1>4, <1>7 DEF Finds, Active, Whole, Merging, SnapshotOf
<1>9. \A q \in Installers : Finds(q)'
  BY <1>8 DEF LoneInstaller
<1> QED
  BY <1>5, <1>6, <1>9 DEF ServersInv

LEMMA OthersServers ==
  ASSUME TypeInv, ServersInv, UninstallStep \/ UserStep
  PROVE  ServersInv'
<1>1. ASSUME inst' = inst, config' = config, snapshots' = snapshots,
             wanted' = wanted
      PROVE  ServersInv'
  BY <1>1 DEF ServersInv, WantedIsFound, InSnapshot, NoServersWithoutConfig,
              Finds, Active, SnapshotOf
<1>2. CASE UninstallStep
  BY <1>1, <1>2 DEF UninstallStep, UninstallBegins, UninstallStages,
                    UninstallEnds, UninstallFails, RemovalKeeps
<1>3. ASSUME NEW f \in Files, NEW c \in {User, NoFile}, UserWrites(f, c)
      PROVE  ServersInv'
  BY <1>1, <1>3 DEF UserWrites
<1>4. ASSUME NEW s \in Servers, UserConfigures(s)
      PROVE  ServersInv'
  <2>1. /\ snapshots' = snapshots /\ inst' = inst
        /\ config'.there /\ config'.servers = config.servers \cup {s}
        /\ wanted' = wanted \cup {s}
    BY <1>4 DEF UserConfigures, Config
  <2>2. \A q \in Installers : inst[q].pc = "idle"
    BY <1>4 DEF UserConfigures, Quiet, Idle
  <2>3. \A q \in Installers : Finds(q)'
    BY <2>1, <2>2 DEF Finds, Active, Whole, Merging
  <2> QED
    BY <2>1, <2>3
    DEF ServersInv, WantedIsFound, InSnapshot, NoServersWithoutConfig
<1>5. CASE UserEditsState
  <2>1. "config" \in StateFiles /\ inst' = Rewrites("config")
    BY <1>5 DEF StateFiles, UserEditsState
  <2>2. \A q \in Installers : Continues(inst'[q], q)
    BY <2>1, RewritesType DEF ServersInv, Finds, Continues, Active
  <2> QED
    BY <1>5, <2>2, ServersStay DEF UserEditsState, tree, history
<1> QED
  BY <1>2, <1>3, <1>4, <1>5 DEF UserStep

LEMMA StepServers ==
  ASSUME LoneInstaller, TypeInv, ServersInv, [Next]_vars
  PROVE  ServersInv'
<1>1. ASSUME NEW p \in Installers, InstallStep(p)
      PROVE  ServersInv'
  BY <1>1, MovesServers, WalksServers, StateServers, BeginsServers,
     CommitServers, ConfigServers, RollbackServers
  DEF InstallStep
<1>2. CASE UNCHANGED vars
  BY <1>2 DEF ServersInv, WantedIsFound, InSnapshot, NoServersWithoutConfig,
              Finds, Active, SnapshotOf, vars
<1> QED
  BY <1>1, <1>2, PruneServers, OthersServers DEF Next

\* A server the user configured comes back from the configuration or from a
\* snapshot that pruning leaves alone, wherever an installation that runs alone
\* fails or dies; with two at once the second reads what the first took out.
THEOREM ServersComeBack ==
  ASSUME LoneInstaller
  PROVE  Spec => []ServersAreRecoverable
<1>1. Init => TypeInv /\ ServersInv
  <2> SUFFICES ASSUME Init
               PROVE  ServersInv
    BY InitTyped
  <2>1. \A p \in Installers : inst[p].pc = "idle"
    BY DEF Init, Idle
  <2>2. wanted = {} /\ snapshots = <<>>
    BY DEF Init
  <2>3. ~config.there => config.servers = {}
    BY DEF Init, Fresh, Installed, NoConfig, Config
  <2> QED
    BY <2>1, <2>2, <2>3 DEF ServersInv, WantedIsFound, NoServersWithoutConfig,
                            Finds, Active, Whole, Merging
<1>2. TypeInv /\ ServersInv /\ [Next]_vars => TypeInv' /\ ServersInv'
  BY StepTyped, StepServers
<1>3. ServersInv => ServersAreRecoverable
  BY DEF ServersInv, WantedIsFound, InSnapshot, ServersAreRecoverable
<1> QED
  BY <1>1, <1>2, <1>3, PTL DEF Spec
==============================================================================
