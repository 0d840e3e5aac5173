---------------------------- MODULE MCConversation ----------------------------
(***************************************************************************)
(* The two conversations of a workflow with its user, on small instances:  *)
(* two commands plan a workflow of three questions, and the sessions of    *)
(* two OpenCode processes are told how a job of a planned one ended.  The  *)
(* two share the workflow a job is launched on and nothing else, so each   *)
(* behaviour explores one of them: "planning" from nothing, "running" from *)
(* the row that a simple start leaves.                                     *)
(***************************************************************************)
EXTENDS Planning, Notifications, TLC

CONSTANTS c1, c2, s1, s2

TwoCommands == {c1, c2}

TwoSessions == {s1, s2}

OwnHosts == [s \in TwoSessions |-> s]

\* The fog Begin writes, and the questions of a wayfinder file.
ThreeQuestions == 0..2

QuestionTable ==
  [q \in ThreeQuestions |->
     [type |-> <<"fog", "grill", "prototype">>[q + 1],
      blocking |-> TRUE, unlocks |-> 0]]

Slice(criteria, needs) == [criteria |-> criteria, needs |-> needs]

Plan(slices, checks) == [slices |-> slices, checks |-> checks]

OneSlice == Plan([s \in {"main"} |-> Slice({"c"}, {})], "arguments")

TwoSlices(checks) ==
  Plan([s \in {"a", "b"} |-> IF s = "a" THEN Slice({"x"}, {})
                             ELSE Slice({"y"}, {"a"})], checks)

Cyclic == Plan([s \in {"a", "b"} |-> Slice({"x"}, {"a", "b"} \ {s})], "none")

\* The same slices with other checks.
TwoPlans == {TwoSlices("one"), TwoSlices("other")}

Asks(route, sensitive, plan, arguments, graph) ==
  [route |-> route, sensitive |-> sensitive, plan |-> plan,
   arguments |-> arguments, graph |-> graph]

File(valid) == [questions |-> {1, 2}, valid |-> valid]

SimpleRequest == Asks(NoOne, FALSE, Absent, OneSlice, Absent)

\* One that is simple, one sensitive, one with a plan that has a cycle, and two
\* discoveries, of which one names an invalid file.
FiveRequests ==
  {SimpleRequest,
   Asks(NoOne, TRUE, TwoSlices("one"), Absent, Absent),
   Asks("planned", FALSE, Cyclic, Absent, Absent),
   Asks("discovery", FALSE, Absent, Absent, File(TRUE)),
   Asks("discovery", FALSE, Absent, Absent, File(FALSE))}

-----------------------------------------------------------------------------
VARIABLE phase

vars == <<phase, planVars, noteVars>>

Discovers == Request("created", 0, "discovering", "discover",
                     {<<"wayfinder", 1>>}, NoState)

Readies == Request("discovering", 1, "ready", "ready",
                   {<<"contract", 1>>, <<"execution", 1>>}, NoState)

\* What StartCreates .. CloseHands leave of the simple request.
PlannedInit ==
  /\ ledger = AfterTransition(AfterTransition(NewLedger, Discovers), Readies)
  /\ decision = [route |-> "simple", risk |-> "low"] /\ row = decision
  /\ wayfinder = <<NoQuestions, [NoQuestions EXCEPT !.closed = TRUE]>>
  /\ contract = [by |-> "start", criteria |-> Criteria(OneSlice.slices)]
  /\ execution = OneSlice.slices
  /\ input = RunInput(OneSlice)
  /\ issued = {} /\ evidence = {} /\ told = {}
  /\ current = [q \in Prototypes |-> 0]
  /\ command = [c \in Commands |-> Rest]

Init ==
  /\ NoteInit
  /\ \/ phase = "planning" /\ PlanInit
     \/ phase = "running" /\ PlannedInit

\* run --detach refuses a workflow that is not ready or has no run input.
Runnable == ledger.state = "ready" /\ input # Absent

Next ==
  /\ UNCHANGED phase
  /\ \/ phase = "planning" /\ PlanNext /\ UNCHANGED noteVars
     \/ phase = "running" /\ Runnable /\ NoteNext /\ UNCHANGED planVars

Spec == Init /\ [][Next]_vars /\ (phase = "running" => NoteFairness)
=============================================================================
