------------------------------- MODULE Planning -------------------------------
(***************************************************************************)
(* How one workflow gets its plan: "start" creates it and routes the       *)
(* request, "answer" and "approve" resolve the questions of its wayfinder  *)
(* graph, "close-discovery" turns the answers into the contract and the    *)
(* execution graph that run (cmd/skynex/workflow_run.go,                   *)
(* internal/orchestration/orchestration.go).  Every command is a process   *)
(* of its own that writes one table at a time, without a transaction       *)
(* around them, and may die between two writes.                            *)
(***************************************************************************)
EXTENDS WorkflowLedger, FiniteSets

CONSTANTS
  Commands,    \* processes that run planning commands
  Questions,   \* the nodes of a wayfinder graph, in the order of their IDs
  QuestionOf,  \* QuestionOf[q]: its type, whether it blocks, what it unlocks
  Requests,    \* what users start a workflow with
  Plans,       \* plan files users close the discovery with
  MaxVersions  \* bound: versions of the wayfinder graph

QuestionType ==
  [type : {"decision", "fog", "research", "prototype", "grill"},
   blocking : BOOLEAN, unlocks : Nat]

\* What a table without a row yields.
Absent == [absent |-> TRUE]

NoOne == "nobody"

ASSUME PlanningAssumption ==
  /\ Questions \subseteq Nat /\ 0 \in Questions
  /\ QuestionOf \in [Questions -> QuestionType] /\ QuestionOf[0].type = "fog"
  /\ NoOne \notin Commands /\ MaxVersions \in Nat
  /\ \A plan \in Plans : plan.slices # Absent
  /\ \A r \in Requests :
       /\ r.graph # Absent => r.graph.questions \subseteq Questions
       /\ \A plan \in {r.plan, r.arguments} \ {Absent} : plan.slices # Absent

VARIABLES
  ledger,      \* the workflow's row, events and idempotency records
  row,         \* the route and the minimum risk in its row
  decision,    \* orchestration_routes
  wayfinder,   \* wayfinder_graphs: graph i is version i
  contract,    \* execution_contracts
  execution,   \* execution_graphs, version 1
  input,       \* workflow_run_inputs
  issued,      \* approvals: <<prototype, version of the graph it was given on>>
  current,     \* current_approvals: the version a prototype's stands on, or 0
  evidence,    \* prototype_validations: <<prototype, version of the graph>>
  told,        \* the answers somebody was told are recorded (a history)
  command      \* command[c]: what process c is doing and has read

planVars == <<ledger, row, decision, wayfinder, contract, execution, input,
              issued, current, evidence, told, command>>

answering == <<issued, current, evidence, told>>

closing == <<contract, execution, input>>

Rest == [pc |-> "idle"]

Prototypes == {q \in Questions : QuestionOf[q].type = "prototype"}

PlanInit ==
  /\ ledger = NewLedger
  /\ row = Absent /\ decision = Absent
  /\ wayfinder = <<>>
  /\ contract = Absent /\ execution = Absent /\ input = Absent
  /\ issued = {} /\ evidence = {} /\ told = {}
  /\ current = [q \in Prototypes |-> 0]
  /\ command = [c \in Commands |-> Rest]

Goes(c, local) == command' = [command EXCEPT ![c] = local]

Stops(c) == Goes(c, Rest)

-----------------------------------------------------------------------------
(* Routes, graphs, contracts: the pure part of orchestration.go.              *)

\* SelectRoute, without an override.
SelectedRoute(uncertain, slices, sensitive) ==
  IF uncertain THEN "discovery"
  ELSE IF slices <= 1 /\ ~sensitive THEN "simple" ELSE "planned"

RouteFloor(route) == IF route = "simple" THEN "low" ELSE "medium"

\* An override decides the route; the risk is the higher one of both.
RouteDecision(selected, override) ==
  [route |-> IF override = NoOne THEN selected ELSE override,
   risk |-> IF override # NoOne /\ RouteFloor(override) = "medium" THEN "medium"
            ELSE RouteFloor(selected)]

\* A version of the graph: the answer to each of its questions, or NoOne.
Graph(answers, closed) == [answers |-> answers, closed |-> closed]

NoQuestions == Graph([q \in {} |-> NoOne], FALSE)

Open(g) == {q \in DOMAIN g.answers : g.answers[q] = NoOne}

Latest == Len(wayfinder)

\* Frontier: of the blocking Grill questions that are open, the one that unlocks
\* most, and of those the one with the least ID.
GrillQuestions(g) ==
  {q \in Open(g) : QuestionOf[q].type = "grill" /\ QuestionOf[q].blocking}

Frontier(g) ==
  {q \in GrillQuestions(g) : \A o \in GrillQuestions(g) :
     \/ QuestionOf[q].unlocks > QuestionOf[o].unlocks
     \/ QuestionOf[q].unlocks = QuestionOf[o].unlocks /\ q <= o}

\* Close refuses a graph with a blocking node that is not resolved.
Decided(g) ==
  /\ Frontier(g) = {}
  /\ \A q \in Open(g) : ~QuestionOf[q].blocking

\* ValidateExecution, of slices with acceptance criteria and dependencies: known
\* dependencies without a cycle.
ValidExecution(slices) ==
  /\ DOMAIN slices # {}
  /\ \A s \in DOMAIN slices :
       /\ slices[s].criteria # {}
       /\ slices[s].needs \subseteq DOMAIN slices \ {s}
  /\ \A S \in SUBSET DOMAIN slices :
       S # {} => \E s \in S : slices[s].needs \cap S = {}

\* The acceptance criteria of a contract are those of its slices, in order.
Criteria(slices) == UNION {slices[s].criteria : s \in DOMAIN slices}

RunInput(plan) == [slices |-> DOMAIN plan.slices, checks |-> plan.checks]

\* What a discovery is started with: the plan is still to come.
BareInput == [slices |-> {}, checks |-> NoOne]

-----------------------------------------------------------------------------
(* The writes the commands share.                                             *)

\* Mutant: the row of a version that exists is replaced.
WritesVersionOver(version, g) ==
  /\ version <= Latest + 1
  /\ wayfinder' = [v \in 1..(IF version > Latest THEN version ELSE Latest) |->
                     IF v = version THEN g ELSE wayfinder[v]]

\* INSERT INTO wayfinder_graphs: the primary key refuses a version that exists.
WritesVersion(version, g) ==
  /\ version = Latest + 1
  /\ wayfinder' = Append(wayfinder, g)

\* insertImmutable: what is there already must be the same.
KeepsVersion(version, g) ==
  \/ WritesVersion(version, g)
  \/ version <= Latest /\ wayfinder[version] = g /\ UNCHANGED wayfinder

Keeps(table, value) == IF table = Absent THEN value ELSE table

Admits(table, value) == table = Absent \/ table = value

PlanMove(c, req, local) ==
  /\ TransitionError(ledger, req) = "none"
  /\ ledger' = AfterTransition(ledger, req)
  /\ Goes(c, local)

\* Any error, and a death, end a command where it is.
Dies(c) ==
  /\ command[c] # Rest
  /\ Stops(c)
  /\ UNCHANGED <<ledger, row, decision, wayfinder, closing, answering>>

-----------------------------------------------------------------------------
(* start.                                                                     *)

\* The route the arguments ask for; a sensitive request is planned by default.
AskedRoute(r) ==
  IF r.route # NoOne THEN r.route
  ELSE IF r.sensitive THEN "planned" ELSE "simple"

\* The plan of a request: its file when it is planned, or the one slice its
\* arguments describe.
PlanOf(r) ==
  IF AskedRoute(r) = "planned" /\ r.plan # Absent THEN r.plan ELSE r.arguments

\* What start checks before it creates anything.
Startable(r) ==
  /\ ~(r.sensitive /\ r.route = "simple")
  /\ AskedRoute(r) = "discovery" => r.graph # Absent
  /\ r.route = "planned" => r.plan # Absent
  /\ AskedRoute(r) # "discovery" =>
       PlanOf(r) # Absent /\ ValidExecution(PlanOf(r).slices)

DecisionOn(r) ==
  RouteDecision(
    SelectedRoute(AskedRoute(r) = "discovery",
                  IF AskedRoute(r) = "planned" /\ r.plan # Absent
                  THEN Cardinality(DOMAIN r.plan.slices) ELSE 1,
                  r.sensitive),
    r.route)

\* Create: one process creates a workflow.
StartCreates(c, r) ==
  /\ command[c] = Rest /\ row = Absent /\ Startable(r)
  /\ row' = [route |-> "simple", risk |-> "low"]
  /\ Goes(c, [pc |-> "routing", request |-> r])
  /\ UNCHANGED <<ledger, decision, wayfinder, closing, answering>>

\* Engine.Begin, write by write: the decision, the row, the first graph, the
\* transition.
StartDecides(c) ==
  /\ command[c].pc = "routing"
  /\ decision' = DecisionOn(command[c].request)
  /\ Goes(c, [command[c] EXCEPT !.pc = "decided"])
  /\ UNCHANGED <<ledger, row, wayfinder, closing, answering>>

StartRoutes(c) ==
  /\ command[c].pc = "decided"
  /\ row' = decision
  /\ Goes(c, [command[c] EXCEPT !.pc = "routed"])
  /\ UNCHANGED <<ledger, decision, wayfinder, closing, answering>>

\* The fog that Begin writes itself: question 0 of a discovery.
FirstGraph(r) ==
  IF decision.route = "discovery" THEN Graph([q \in {0} |-> NoOne], FALSE)
  ELSE NoQuestions

StartSaves(c) ==
  /\ command[c].pc = "routed"
  /\ KeepsVersion(1, FirstGraph(command[c].request))
  /\ Goes(c, [command[c] EXCEPT !.pc = "saved"])
  /\ UNCHANGED <<ledger, row, decision, closing, answering>>

StartDiscovers(c) ==
  LET r == command[c].request IN
  /\ command[c].pc = "saved"
  /\ PlanMove(c, Request("created", 0, "discovering", "discover",
                         {<<"wayfinder", 1>>}, NoState),
              IF decision.route = "discovery"
              THEN [pc |-> "filing", request |-> r]
              ELSE [pc |-> "closing", by |-> "start", plan |-> PlanOf(r),
                    closes |-> 2, graph |-> NoQuestions])
  /\ UNCHANGED <<row, decision, wayfinder, closing, answering>>

\* The graph of the wayfinder file is version 2, if it is valid.
StartFiles(c) ==
  LET g == command[c].request.graph IN
  /\ command[c].pc = "filing" /\ g.valid
  /\ WritesVersion(2, Graph([q \in g.questions |-> NoOne], FALSE))
  /\ Goes(c, [pc |-> "filed"])
  /\ UNCHANGED <<ledger, row, decision, closing, answering>>

StartDiscovery(c) ==
  /\ command[c].pc = "filed" /\ input = Absent
  /\ input' = BareInput
  /\ Stops(c)
  /\ UNCHANGED <<ledger, row, decision, wayfinder, contract, execution,
                 answering>>

-----------------------------------------------------------------------------
(* answer, approve and revoke.                                                *)

\* Any open question of the latest graph may be answered, closed or not.
AnswerReads(c, q) ==
  /\ command[c] = Rest /\ wayfinder # <<>> /\ Latest < MaxVersions
  /\ q \in Open(wayfinder[Latest])
  /\ Goes(c, [pc |-> IF q \in Prototypes THEN "validating" ELSE "answering",
              question |-> q, version |-> Latest])
  /\ UNCHANGED <<ledger, row, decision, wayfinder, closing, answering>>

\* The user asks for the frontier and answers it.
AnswerFrontier(c) ==
  /\ wayfinder # <<>>
  /\ \E q \in Frontier(wayfinder[Latest]) : AnswerReads(c, q)

\* approval.Require: the current approval is for this very graph.  One that has
\* expired is refused like one that was revoked.
Approved(q, version) == current[q] = version

\* A prototype is approved on the graph that was read; its validation is kept
\* as it was first written.
AnswerValidates(c) ==
  LET q == command[c].question IN
  /\ command[c].pc = "validating"
  /\ Approved(q, command[c].version)
  /\ evidence' = IF \E e \in evidence : e[1] = q THEN evidence
                 ELSE evidence \cup {<<q, command[c].version>>}
  /\ Goes(c, [command[c] EXCEPT !.pc = "answering"])
  /\ UNCHANGED <<ledger, row, decision, wayfinder, closing,
                 issued, current, told>>

AnswerWrites(c) ==
  LET q == command[c].question
      read == wayfinder[command[c].version] IN
  /\ command[c].pc = "answering"
  /\ WritesVersion(command[c].version + 1,
                   [read EXCEPT !.answers = [@ EXCEPT ![q] = c]])
  /\ told' = told \cup {<<q, c>>}
  /\ Stops(c)
  /\ UNCHANGED <<ledger, row, decision, closing,
                 issued, current, evidence>>

\* "approve" binds to the latest graph.  To approve what is not open, or is
\* approved already, changes nothing.
Approve(q) ==
  /\ wayfinder # <<>> /\ q \in Open(wayfinder[Latest]) /\ current[q] # Latest
  /\ issued' = issued \cup {<<q, Latest>>}
  /\ current' = [current EXCEPT ![q] = Latest]
  /\ UNCHANGED <<ledger, row, decision, wayfinder, closing, evidence,
                 told, command>>

Revoke(q) ==
  /\ current[q] # 0
  /\ current' = [current EXCEPT ![q] = 0]
  /\ UNCHANGED <<ledger, row, decision, wayfinder, closing, issued, evidence,
                 told, command>>

-----------------------------------------------------------------------------
(* close-discovery, and the closing of a start that needs no discovery.       *)

\* The checks of Engine.Close, on the latest graph and the plan file.
CloseReads(c, plan) ==
  /\ command[c] = Rest /\ wayfinder # <<>> /\ Latest < MaxVersions
  /\ Decided(wayfinder[Latest]) /\ ValidExecution(plan.slices)
  /\ Goes(c, [pc |-> "closing", by |-> "close", plan |-> plan,
              closes |-> Latest + 1, graph |-> wayfinder[Latest]])
  /\ UNCHANGED <<ledger, row, decision, wayfinder, closing, answering>>

CloseSaves(c) ==
  /\ command[c].pc = "closing"
  /\ KeepsVersion(command[c].closes,
                  [command[c].graph EXCEPT !.closed = TRUE])
  /\ Goes(c, [pc |-> "contracting", by |-> command[c].by,
              plan |-> command[c].plan])
  /\ UNCHANGED <<ledger, row, decision, closing, answering>>

\* The contract names the request, or "discovery contract".
CloseContracts(c) ==
  LET mine == [by |-> command[c].by,
               criteria |-> Criteria(command[c].plan.slices)] IN
  /\ command[c].pc = "contracting"
  /\ Admits(contract, mine)
  /\ contract' = Keeps(contract, mine)
  /\ Goes(c, [command[c] EXCEPT !.pc = "graphing"])
  /\ UNCHANGED <<ledger, row, decision, wayfinder, execution, input, answering>>

CloseGraphs(c) ==
  LET mine == command[c].plan.slices IN
  /\ command[c].pc = "graphing"
  /\ Admits(execution, mine)
  /\ execution' = Keeps(execution, mine)
  /\ Goes(c, [command[c] EXCEPT !.pc = "readying"])
  /\ UNCHANGED <<ledger, row, decision, wayfinder, contract, input, answering>>

\* The transition is the same request each time: a repeated close is a replay.
CloseReadies(c) ==
  /\ command[c].pc = "readying"
  /\ PlanMove(c, Request("discovering", 1, "ready", "ready",
                         {<<"contract", 1>>, <<"execution", 1>>}, NoState),
              [command[c] EXCEPT !.pc = "handing"])
  /\ UNCHANGED <<row, decision, wayfinder, closing, answering>>

\* start inserts the run input, close-discovery updates the one there is.
CloseHands(c) ==
  /\ command[c].pc = "handing"
  /\ IF command[c].by = "start"
     THEN input = Absent /\ input' = RunInput(command[c].plan)
     ELSE input' = IF input = Absent THEN Absent ELSE RunInput(command[c].plan)
  /\ Stops(c)
  /\ UNCHANGED <<ledger, row, decision, wayfinder, contract, execution,
                 answering>>

-----------------------------------------------------------------------------
StartStep(c) ==
  \/ \E r \in Requests : StartCreates(c, r)
  \/ StartDecides(c) \/ StartRoutes(c) \/ StartSaves(c) \/ StartDiscovers(c)
  \/ StartFiles(c) \/ StartDiscovery(c)

AnswerStep(c) ==
  \/ AnswerFrontier(c)
  \/ \E q \in Questions : QuestionOf[q].type # "grill" /\ AnswerReads(c, q)
  \/ AnswerValidates(c) \/ AnswerWrites(c)

CloseStep(c) ==
  \/ \E plan \in Plans : CloseReads(c, plan)
  \/ CloseSaves(c) \/ CloseContracts(c) \/ CloseGraphs(c) \/ CloseReadies(c)
  \/ CloseHands(c)

PlanNext ==
  \/ \E c \in Commands :
       StartStep(c) \/ AnswerStep(c) \/ CloseStep(c) \/ Dies(c)
  \/ \E q \in Prototypes : Approve(q) \/ Revoke(q)

PlanSpec == PlanInit /\ [][PlanNext]_planVars

-----------------------------------------------------------------------------
\* No answer somebody was told is recorded is lost, whoever answers another
\* question or closes the discovery at the same time.
AnswersSurvive ==
  \A t \in told :
    /\ t[1] \in DOMAIN wayfinder[Latest].answers
    /\ wayfinder[Latest].answers[t[1]] = t[2]

\* A workflow leaves discovery with its plan whole: some graph was closed with
\* every blocking question answered, and the contract agrees with a graph of
\* slices that can be executed, whichever commands raced or died on the way.
ReadyIsDecided ==
  ledger.state \notin {"created", "discovering"} =>
    /\ \E v \in 1..Latest :
         wayfinder[v].closed /\
         \A q \in Open(wayfinder[v]) : ~QuestionOf[q].blocking
    /\ execution # Absent /\ ValidExecution(execution)
    /\ contract # Absent /\ contract.criteria = Criteria(execution)

\* A prototype's answer was approved on the graph it completes, not on another
\* one that has been overtaken by other answers.
PrototypesAreApproved ==
  \A v \in 2..Latest : \A q \in Prototypes :
    /\ q \in DOMAIN wayfinder[v - 1].answers
    /\ wayfinder[v - 1].answers[q] = NoOne /\ wayfinder[v].answers[q] # NoOne
    => <<q, v - 1>> \in issued

\* What planning keeps of answers, decisions and approvals.
PlanKept == AnswersSurvive /\ ReadyIsDecided /\ PrototypesAreApproved

=============================================================================
