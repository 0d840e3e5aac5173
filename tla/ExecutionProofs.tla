--------------------------- MODULE ExecutionProofs ---------------------------
(***************************************************************************)
(* What executes: the slices of a workflow, and the samples of its         *)
(* evaluation.  The safety of SliceExecution, and that it implements       *)
(* SlicePatches, for any number of workflows, executors and slices and any *)
(* dependencies; of EvaluationServer, for any number of servers that share *)
(* one OAuth session; of EvaluationRun, for any sessions, jobs, answers    *)
(* and bounds; and of Canary, which promotes its candidate only upon       *)
(* complete, proven evidence, whatever its samples report, however long    *)
(* they take, and whatever drifts or is interrupted.                       *)
(***************************************************************************)
EXTENDS SliceExecution, EvaluationServer, EvaluationRun, Canary,
        FiniteSetTheorems, SequenceTheorems, WellFoundedInduction, TLAPS

-----------------------------------------------------------------------------
(* The slices                                                              *)

\* Where an executor works on an attempt that is in the table.
Engaged ==
  {"inherited", "claimed", "resuming", "recovering", "adopting", "activated",
   "dispatching", "running", "answered", "validated", "current", "checked",
   "locked", "matched", "patching", "recorded", "applied", "releasing"}

\* Where it holds the file lock of the worktree.
Critical == {"locked", "matched", "patching", "recorded"}

Tree == SUBSET Written

StatusType == [Slices -> {"pending", "active", "completed"}]

AttemptType == [live : BOOLEAN, token : Tokens \cup {NoToken}, basis : Tree]

OperationType ==
  [status : {"none", "intended", "mutated", "completed"},
   pre : Tree \cup {NoTree}, post : Tree \cup {NoTree}]

ExecType ==
  [pc : {"off", "entered", "looping"}]
  \cup [pc : {"waiting"}, slice : Slices]
  \cup [pc : {"leased"}, slice : Slices, token : Tokens]
  \cup [pc : {"frozen"} \cup (Engaged \ {"recovering"}), slice : Slices,
        token : Tokens \cup {NoToken}, basis : Tree]
  \cup [pc : {"recovering"}, slice : Slices, token : Tokens \cup {NoToken},
        basis : Tree, op : OperationType]

\* The records that TypeOK describes by their fields.
TablesTyped ==
  /\ attempt \in [Workflows -> [Slices -> AttemptType]]
  /\ op \in [Workflows -> [Slices -> OperationType]]
  /\ exec \in [Executors -> ExecType]
  /\ \A w \in Workflows : \A s \in Slices :
       op[w][s].status = "none" => op[w][s] = NoOperation

FilesOf(w, s) == {<<w, s, 1>>, <<w, s, 2>>}

\* No file of a slice's patch is in tree t.
Untouched(t, w, s) == \A x \in t : x.file \notin FilesOf(w, s)

\* A slice whose turn has not come left no trace, and its turn comes after those
\* it depends on and while no other is active.
SliceInOrder(w, s) ==
  /\ slice[w][s] = "pending" =>
       /\ Untouched(tree, w, s) /\ ~attempt[w][s].live
       /\ op[w][s] = NoOperation
  /\ slice[w][s] # "pending" =>
       \A d \in Depends[s] : slice[w][d] = "completed"
  /\ \A r \in Slices :
       slice[w][s] = "active" /\ slice[w][r] = "active" => r = s
  /\ attempt[w][s].live => slice[w][s] = "active"

SlicesInOrder ==
  \A w \in Workflows : \A s \in Slices : SliceInOrder(w, s)

\* A slice is attempted once, on a tree without its patch, so a tree with a part
\* of the patch is never the basis again: the part has one author.
OneAuthor ==
  \A w \in Workflows : \A s \in Slices :
    /\ Untouched(attempt[w][s].basis, w, s)
    /\ \A x, y \in tree :
         x.file \in FilesOf(w, s) /\ y.file \in FilesOf(w, s) => x.by = y.by

\* What an executor knows of its attempt is what the table says.
AttemptIsKnown(e) ==
  LET w == RunsFor[e]
      s == exec[e].slice IN
  /\ exec[e].pc \in Engaged =>
       /\ exec[e].token = attempt[w][s].token
       /\ exec[e].basis = attempt[w][s].basis
       /\ slice[w][s] # "pending"
  /\ exec[e].pc = "frozen" /\ slice[w][s] = "pending" =>
       Untouched(exec[e].basis, w, s)

KnowsItsAttempt == \A e \in Executors : AttemptIsKnown(e)

\* Under the lock an executor finds the tree its agent saw, and changes nothing
\* but its own files; the operation says how far it came.
TreeIsHeld(e) ==
  LET w == RunsFor[e]
      s == exec[e].slice IN
  /\ exec[e].pc \in Critical => lock = e
  /\ exec[e].pc \in {"matched", "patching", "recorded"} =>
       \A x \in tree : \/ x \in exec[e].basis \/ x.file = UserFile
                       \/ exec[e].pc # "matched" /\ x \in PatchOf(w, s, e)
  /\ exec[e].pc = "matched" => op[w][s].status \in {"none", "intended"}
  /\ exec[e].pc = "patching" => op[w][s].status = "intended"
  /\ exec[e].pc = "recorded" => op[w][s].status \in {"mutated", "completed"}
  /\ exec[e].pc = "applied" =>
       op[w][s].status = "completed" /\ ~attempt[w][s].live

HoldsTheTree == \A e \in Executors : TreeIsHeld(e)

IInv ==
  /\ TypeOK /\ TablesTyped /\ SlicesInOrder /\ OneAuthor /\ KnowsItsAttempt
  /\ HoldsTheTree /\ CompletedIsWhole

-----------------------------------------------------------------------------
(* What the constants and the types say.                                   *)

USE DEF StatusType

LEMMA Homes ==
  ASSUME NEW e \in Executors
  PROVE  RunsFor[e] \in Workflows /\ e # Nobody
  BY SliceAssumption

\* Records with which an executor works on an attempt.
Attempting(pcs) ==
  [pc : pcs, slice : Slices, token : Tokens \cup {NoToken}, basis : Tree]

\* An executor that works on an attempt knows slice, token and basis.
LEMMA EngagedType ==
  ASSUME TablesTyped, NEW e \in Executors,
         exec[e].pc \in (Engaged \ {"recovering"}) \cup {"frozen"}
  PROVE  /\ exec[e] \in Attempting((Engaged \ {"recovering"}) \cup {"frozen"})
         /\ exec[e].slice \in Slices
         /\ exec[e].basis \in Tree
         /\ exec[e].token \in Tokens \cup {NoToken}
  BY DEF TablesTyped, ExecType, Engaged, Attempting

LEMMA RecoveringType ==
  ASSUME TablesTyped, NEW e \in Executors, exec[e].pc = "recovering"
  PROVE  /\ exec[e].slice \in Slices
         /\ exec[e].basis \in Tree
         /\ exec[e].token \in Tokens \cup {NoToken}
         /\ exec[e].op \in OperationType
  BY DEF TablesTyped, ExecType, Engaged

LEMMA MovedType ==
  ASSUME TablesTyped, NEW e \in Executors,
         exec[e].pc \in (Engaged \ {"recovering"}) \cup {"frozen"},
         NEW pc \in Engaged \ {"recovering"}
  PROVE  /\ [exec[e] EXCEPT !.pc = pc] \in ExecType
         /\ [exec[e] EXCEPT !.pc = pc].pc = pc
         /\ [exec[e] EXCEPT !.pc = pc].slice = exec[e].slice
         /\ [exec[e] EXCEPT !.pc = pc].token = exec[e].token
         /\ [exec[e] EXCEPT !.pc = pc].basis = exec[e].basis
  <1>1. exec[e] \in Attempting((Engaged \ {"recovering"}) \cup {"frozen"})
    BY EngagedType
  <1>2. [exec[e] EXCEPT !.pc = pc] \in Attempting(Engaged \ {"recovering"})
    BY <1>1 DEF Attempting
  <1> QED BY <1>1, <1>2 DEF Attempting, ExecType

LEMMA RowTypes ==
  ASSUME TypeOK, TablesTyped, NEW w \in Workflows, NEW s \in Slices
  PROVE  /\ attempt[w] \in [Slices -> AttemptType]
         /\ attempt[w][s] \in AttemptType
         /\ op[w] \in [Slices -> OperationType]
         /\ op[w][s] \in OperationType
         /\ slice[w] \in StatusType
         /\ slice[w][s] \in {"pending", "active", "completed"}
  BY DEF TypeOK, TablesTyped

LEMMA OffType == Off \in ExecType /\ Off.pc = "off"
  BY DEF Off, ExecType

LEMMA NoOperationType == NoOperation \in OperationType
  BY DEF NoOperation, OperationType, Tree

LEMMA TokensAreTokens == NoToken \notin Tokens
  BY SliceAssumption DEF NoToken, Tokens

-----------------------------------------------------------------------------
(* Steps of an executor that change neither tables nor worktree.           *)

\* Executor e comes to know r.  It is in the critical section only when it has
\* the lock, it takes the lock from nobody else, and what r says of its attempt
\* and the worktree is true.
LEMMA ExecutorMoves ==
  ASSUME IInv, NEW e \in Executors, NEW r \in ExecType,
         exec' = [exec EXCEPT ![e] = r],
         UNCHANGED <<tables, tree>>,
         fence' \in [Workflows -> Executors \cup {Nobody}],
         lease' \in Tokens \cup {NoToken},
         lock' \in Executors \cup {Nobody},
         \A f \in Executors \ {e} : lock = f => lock' = f,
         r.pc \in Critical => lock' = e,
         r.pc \in Engaged =>
           /\ r.token = attempt[RunsFor[e]][r.slice].token
           /\ r.basis = attempt[RunsFor[e]][r.slice].basis
           /\ slice[RunsFor[e]][r.slice] # "pending",
         r.pc = "frozen" /\ slice[RunsFor[e]][r.slice] = "pending" =>
           Untouched(r.basis, RunsFor[e], r.slice),
         r.pc \in {"matched", "patching", "recorded"} =>
           \A x \in tree : \/ x \in r.basis \/ x.file = UserFile
                           \/ /\ r.pc # "matched"
                              /\ x \in PatchOf(RunsFor[e], r.slice, e),
         r.pc = "matched" =>
           op[RunsFor[e]][r.slice].status \in {"none", "intended"},
         r.pc = "patching" => op[RunsFor[e]][r.slice].status = "intended",
         r.pc = "recorded" =>
           op[RunsFor[e]][r.slice].status \in {"mutated", "completed"},
         r.pc = "applied" =>
           /\ op[RunsFor[e]][r.slice].status = "completed"
           /\ ~attempt[RunsFor[e]][r.slice].live
  PROVE  IInv'
  <1> USE DEF tables
  <1>1. exec' \in [Executors -> ExecType]
    BY DEF IInv, TablesTyped
  <1>2. TablesTyped' BY <1>1 DEF IInv, TablesTyped
  <1>3. TypeOK'
    <2>1. \A f \in Executors : "basis" \in DOMAIN exec'[f] =>
            exec'[f].basis \subseteq Written
      BY <1>1 DEF ExecType, Tree
    <2> QED BY <2>1 DEF IInv, TypeOK
  <1>4. SlicesInOrder' BY DEF IInv, SlicesInOrder, SliceInOrder, Untouched
  <1>5. OneAuthor' BY DEF IInv, OneAuthor, Untouched
  <1>6. KnowsItsAttempt'
    <2> SUFFICES ASSUME NEW f \in Executors
                 PROVE
           LET w == RunsFor[f]
               s == exec'[f].slice IN
           /\ exec'[f].pc \in Engaged =>
                /\ exec'[f].token = attempt'[w][s].token
                /\ exec'[f].basis = attempt'[w][s].basis
                /\ slice'[w][s] # "pending"
           /\ exec'[f].pc = "frozen" /\ slice'[w][s] = "pending" =>
                Untouched(exec'[f].basis, w, s)
      BY DEF KnowsItsAttempt, AttemptIsKnown, Untouched
    <2>1. CASE f = e
      <3>1. exec'[f] = r BY <2>1 DEF IInv, TablesTyped
      <3> QED BY <2>1, <3>1
    <2>2. CASE f # e
      <3>1. exec'[f] = exec[f] BY <2>2 DEF IInv, TablesTyped
      <3> QED BY <3>1 DEF IInv, KnowsItsAttempt, AttemptIsKnown
    <2> QED BY <2>1, <2>2
  <1>7. HoldsTheTree'
    <2> SUFFICES ASSUME NEW f \in Executors
                 PROVE
          LET w == RunsFor[f]
              s == exec'[f].slice IN
          /\ exec'[f].pc \in Critical => lock' = f
          /\ exec'[f].pc \in {"matched", "patching", "recorded"} =>
               \A x \in tree : \/ x \in exec'[f].basis \/ x.file = UserFile
                               \/ /\ exec'[f].pc # "matched"
                                  /\ x \in PatchOf(w, s, f)
          /\ exec'[f].pc = "matched" =>
               op'[w][s].status \in {"none", "intended"}
          /\ exec'[f].pc = "patching" => op'[w][s].status = "intended"
          /\ exec'[f].pc = "recorded" =>
               op'[w][s].status \in {"mutated", "completed"}
          /\ exec'[f].pc = "applied" =>
               op'[w][s].status = "completed" /\ ~attempt'[w][s].live
      BY DEF HoldsTheTree, TreeIsHeld, PatchOf
    <2>1. CASE f = e
      <3>1. exec'[f] = r BY <2>1 DEF IInv, TablesTyped
      <3> QED BY <2>1, <3>1
    <2>2. CASE f # e
      <3>1. exec'[f] = exec[f] BY <2>2 DEF IInv, TablesTyped
      <3> QED BY <2>2, <3>1 DEF IInv, HoldsTheTree, TreeIsHeld
    <2> QED BY <2>1, <2>2
  <1>8. CompletedIsWhole'
    BY DEF IInv, CompletedIsWhole, WholeIn, PatchOf
  <1> QED BY <1>2, <1>3, <1>4, <1>5, <1>6, <1>7, <1>8 DEF IInv

\* Nothing but the three locks of time changes.
LEMMA LocksMove ==
  ASSUME IInv, UNCHANGED <<tables, lock, tree, exec>>,
         fence' \in [Workflows -> Executors \cup {Nobody}],
         lease' \in Tokens \cup {NoToken}
  PROVE  IInv'
  BY SMTT(60) DEF IInv, TypeOK, TablesTyped, SlicesInOrder, SliceInOrder,
         OneAuthor, KnowsItsAttempt, AttemptIsKnown, HoldsTheTree, TreeIsHeld,
         CompletedIsWhole, Untouched, WholeIn, PatchOf, tables

\* Executor e, which works on an attempt, goes on to pc.
LEMMA ExecutorGoes ==
  ASSUME IInv, NEW e \in Executors, NEW pc \in Engaged \ {"recovering"},
         exec[e].pc \in Engaged \ {"recovering"}, Goes(e, pc),
         UNCHANGED <<tables, tree, fence>>,
         lease' \in Tokens \cup {NoToken},
         lock' \in Executors \cup {Nobody},
         \A f \in Executors \ {e} : lock = f => lock' = f,
         pc \in Critical => lock' = e,
         pc \in {"matched", "patching", "recorded"} =>
           \A x \in tree : x \in exec[e].basis,
         pc = "matched" =>
           op[RunsFor[e]][exec[e].slice].status \in {"none", "intended"},
         pc \notin {"patching", "recorded", "applied"}
  PROVE  IInv'
  <1> DEFINE r == [exec[e] EXCEPT !.pc = pc]
  <1>1. /\ r \in ExecType /\ r.pc = pc /\ r.slice = exec[e].slice
        /\ r.token = exec[e].token /\ r.basis = exec[e].basis
    BY MovedType DEF IInv
  <1>2. exec' = [exec EXCEPT ![e] = r]
    BY DEF Goes
  <1> HIDE DEF r
  <1>3. /\ r.token = attempt[RunsFor[e]][r.slice].token
        /\ r.basis = attempt[RunsFor[e]][r.slice].basis
        /\ slice[RunsFor[e]][r.slice] # "pending"
    BY <1>1 DEF IInv, KnowsItsAttempt, AttemptIsKnown
  <1>4. fence' \in [Workflows -> Executors \cup {Nobody}]
    BY DEF IInv, TypeOK
  <1>5. r.pc # "frozen" BY <1>1 DEF Engaged
  <1> QED BY <1>1, <1>2, <1>3, <1>4, <1>5, ExecutorMoves

\* Executor e ends, having changed neither tables nor worktree.
LEMMA ExecutorEnds ==
  ASSUME IInv, NEW e \in Executors, Ends(e), UNCHANGED <<tables, tree>>,
         lease' \in Tokens \cup {NoToken}
  PROVE  IInv'
  <1>1. /\ exec' = [exec EXCEPT ![e] = Off]
        /\ fence' \in [Workflows -> Executors \cup {Nobody}]
        /\ lock' \in Executors \cup {Nobody}
        /\ \A f \in Executors \ {e} : lock = f => lock' = f
    BY DEF Ends, Knows, IInv, TypeOK
  <1>2. Off.pc \notin Engaged \cup Critical \cup {"frozen"}
    BY DEF Off, Engaged, Critical
  <1> HIDE DEF Off
  <1> QED BY <1>1, <1>2, OffType, ExecutorMoves DEF Engaged, Critical

\* A check that an executor makes before it goes on.
LEMMA ExecutorChecks ==
  ASSUME IInv, NEW e \in Executors, NEW pc \in Engaged \ {"recovering"},
         exec[e].pc \in Engaged \ {"recovering"},
         NEW condition \in BOOLEAN, Requires(e, condition, pc),
         UNCHANGED <<tables, tree, lease>>,
         pc \notin {"patching", "recorded", "applied"},
         condition /\ pc \in Critical => lock = e,
         condition /\ pc \in {"matched", "patching", "recorded"} =>
           \A x \in tree : x \in exec[e].basis,
         condition /\ pc = "matched" =>
           op[RunsFor[e]][exec[e].slice].status \in {"none", "intended"}
  PROVE  IInv'
  <1>1. lease' \in Tokens \cup {NoToken} /\ lock \in Executors \cup {Nobody}
    BY DEF IInv, TypeOK
  <1>2. CASE condition
    <2>1. Goes(e, pc) /\ UNCHANGED <<fence, lock>>
      BY <1>2 DEF Requires
    <2> QED BY <1>1, <1>2, <2>1, ExecutorGoes
  <1>3. CASE ~condition
    <2>1. Ends(e) BY <1>3 DEF Requires
    <2> QED BY <1>1, <2>1, ExecutorEnds
  <1> QED BY <1>2, <1>3

\* Enter, Choose, TakeLease, FreezeBasis and Inherit: what e comes to know is no
\* attempt yet, or one that is live in the table.
LEMMA TakeUpStep ==
  ASSUME IInv, NEW e \in Executors,
         \/ Enter(e) \/ Choose(e) \/ TakeLease(e) \/ FreezeBasis(e)
         \/ Inherit(e) \/ Release(e)
  PROVE  IInv'
  <1> USE DEF Knows, guards
  <1>0. /\ fence \in [Workflows -> Executors \cup {Nobody}]
        /\ lease \in Tokens \cup {NoToken}
        /\ lock \in Executors \cup {Nobody}
        /\ tree \in Tree
    BY DEF IInv, TypeOK, Tree
  <1>1. CASE Enter(e)
    <2> DEFINE r == [pc |-> "entered"]
    <2>1. r \in ExecType /\ r.pc = "entered" BY DEF ExecType
    <2>2. /\ exec' = [exec EXCEPT ![e] = r]
          /\ fence' \in [Workflows -> Executors \cup {Nobody}]
      BY <1>0, <1>1 DEF Enter
    <2> HIDE DEF r
    <2> QED BY <1>0, <1>1, <2>1, <2>2, ExecutorMoves
            DEF Enter, Engaged, Critical
  <1>2. CASE Choose(e)
    <2>1. PICK s \in Slices : exec' = [exec EXCEPT ![e] =
                                         [pc |-> "waiting", slice |-> s]]
      BY <1>2 DEF Choose
    <2> DEFINE r == [pc |-> "waiting", slice |-> s]
    <2>2. r \in ExecType /\ r.pc = "waiting" BY DEF ExecType
    <2>3. exec' = [exec EXCEPT ![e] = r] BY <2>1
    <2> HIDE DEF r
    <2> QED BY <1>0, <1>2, <2>2, <2>3, ExecutorMoves
            DEF Choose, Engaged, Critical
  <1>3. CASE TakeLease(e)
    <2> DEFINE r == [pc |-> "leased", slice |-> exec[e].slice,
                     token |-> <<e, exec[e].slice>>]
    <2>0. exec[e].slice \in Slices
      BY <1>3 DEF TakeLease, IInv, TablesTyped, ExecType, Engaged
    <2>1. r \in ExecType /\ r.pc = "leased" BY <2>0 DEF ExecType, Tokens
    <2>2. exec' = [exec EXCEPT ![e] = r] BY <1>3 DEF TakeLease
    <2>3. lease' \in Tokens \cup {NoToken}
      BY <1>3, <2>0 DEF TakeLease, Tokens
    <2> HIDE DEF r
    <2> QED BY <1>0, <1>3, <2>1, <2>2, <2>3, ExecutorMoves
            DEF TakeLease, Engaged, Critical
  <1>4. CASE FreezeBasis(e)
    <2> DEFINE r == [pc |-> "frozen", slice |-> exec[e].slice,
                     token |-> exec[e].token, basis |-> tree]
    <2>0. exec[e].slice \in Slices /\ exec[e].token \in Tokens
      BY <1>4 DEF FreezeBasis, IInv, TablesTyped, ExecType, Engaged
    <2>1. /\ r \in ExecType /\ r.pc = "frozen"
          /\ r.slice = exec[e].slice /\ r.basis = tree
      BY <1>0, <2>0 DEF ExecType
    <2>2. exec' = [exec EXCEPT ![e] = r] BY <1>4 DEF FreezeBasis
    <2> HIDE DEF r
    <2>3. slice[RunsFor[e]][r.slice] = "pending" =>
            Untouched(r.basis, RunsFor[e], r.slice)
      BY <2>0, <2>1, Homes DEF IInv, SlicesInOrder, SliceInOrder
    <2> QED BY <1>0, <1>4, <2>1, <2>2, <2>3, ExecutorMoves
            DEF FreezeBasis, Engaged, Critical
  <1>5. CASE Inherit(e)
    <2>1. PICK s \in LiveAttempts(RunsFor[e]) :
            exec' = [exec EXCEPT ![e] =
              [pc |-> "inherited", slice |-> s,
               token |-> attempt[RunsFor[e]][s].token,
               basis |-> attempt[RunsFor[e]][s].basis]]
      BY <1>5 DEF Inherit
    <2> DEFINE r == [pc |-> "inherited", slice |-> s,
                     token |-> attempt[RunsFor[e]][s].token,
                     basis |-> attempt[RunsFor[e]][s].basis]
    <2>2. s \in Slices /\ slice[RunsFor[e]][s] = "active"
      BY Homes DEF LiveAttempts, IInv, SlicesInOrder, SliceInOrder
    <2>3. attempt[RunsFor[e]][s] \in AttemptType
      BY <2>2, Homes, RowTypes DEF IInv
    <2>4. /\ r \in ExecType /\ r.pc = "inherited" /\ r.slice = s
          /\ r.token = attempt[RunsFor[e]][s].token
          /\ r.basis = attempt[RunsFor[e]][s].basis
      BY <2>2, <2>3 DEF ExecType, AttemptType, Engaged
    <2>5. exec' = [exec EXCEPT ![e] = r] BY <2>1
    <2> HIDE DEF r
    <2>6. slice[RunsFor[e]][r.slice] # "pending" BY <2>2, <2>4
    <2> QED BY <1>0, <1>5, <2>4, <2>5, <2>6, ExecutorMoves
            DEF Inherit, Engaged, Critical
  <1>6. CASE Release(e)
    <2> DEFINE r == [pc |-> "looping"]
    <2>1. r \in ExecType /\ r.pc = "looping" BY DEF ExecType
    <2>2. exec' = [exec EXCEPT ![e] = r] BY <1>6 DEF Release
    <2>3. lease' \in Tokens \cup {NoToken}
      BY <1>0, <1>6 DEF Release, Unleased
    <2> HIDE DEF r
    <2> QED BY <1>0, <1>6, <2>1, <2>2, <2>3, ExecutorMoves
            DEF Release, Engaged, Critical
  <1> QED BY <1>1, <1>2, <1>3, <1>4, <1>5, <1>6

\* A tree that is the basis of a slice's attempt holds nothing of its patch, so
\* no mutation of the slice is recorded.
LEMMA BasisIsBefore ==
  ASSUME IInv, NEW e \in Executors, exec[e].pc \in Engaged,
         exec[e].slice \in Slices, tree = exec[e].basis
  PROVE  op[RunsFor[e]][exec[e].slice].status \in {"none", "intended"}
  <1> DEFINE w == RunsFor[e]
             s == exec[e].slice
  <1>1. w \in Workflows /\ s \in Slices BY Homes
  <1>2. tree = attempt[w][s].basis BY DEF IInv, KnowsItsAttempt, AttemptIsKnown
  <1>3. Untouched(tree, w, s) BY <1>1, <1>2 DEF IInv, OneAuthor
  <1>4. ASSUME op[w][s].status \in {"mutated", "completed"} PROVE FALSE
    <2>1. WholeIn(tree, w, s) BY <1>1, <1>4 DEF IInv, CompletedIsWhole
    <2>2. PICK f \in Executors : PatchOf(w, s, f) \subseteq tree
      BY <2>1 DEF WholeIn
    <2>3. [file |-> <<w, s, 1>>, by |-> f] \in tree BY <2>2 DEF PatchOf
    <2> QED BY <1>3, <2>3 DEF Untouched, FilesOf
  <1>5. op[w][s] \in OperationType BY <1>1, RowTypes DEF IInv
  <1> QED BY <1>4, <1>5 DEF OperationType

\* The checks of Scheduler.ResumeAttempt, of the adapter and of Broker.Apply up
\* to its file lock.
LEMMA CheckStep ==
  ASSUME IInv, NEW e \in Executors,
         \/ ValidateToResume(e) \/ Dispatch(e) \/ Answer(e)
         \/ ValidateToApply(e) \/ CheckResult(e) \/ CheckLease(e)
         \/ FreezeLocked(e)
  PROVE  IInv'
  <1>1. CASE ValidateToResume(e)
    BY <1>1, ExecutorChecks DEF ValidateToResume, Engaged, Critical
  <1>2. CASE Dispatch(e)
    BY <1>2, ExecutorChecks DEF Dispatch, Engaged, Critical
  <1>3. CASE Answer(e)
    BY <1>3, ExecutorChecks DEF Answer, Engaged, Critical
  <1>4. CASE ValidateToApply(e)
    BY <1>4, ExecutorChecks DEF ValidateToApply, Engaged, Critical
  <1>5. CASE CheckResult(e)
    <2>1. ResultIsCurrent(e) \in BOOLEAN
      <3>1. exec[e].slice \in Slices
        BY <1>5, EngagedType DEF CheckResult, IInv, Engaged
      <3>2. attempt[RunsFor[e]][exec[e].slice].live \in BOOLEAN
        BY <3>1, Homes, RowTypes DEF IInv, AttemptType
      <3> QED BY <3>2 DEF ResultIsCurrent
    <2> QED BY <1>5, <2>1, ExecutorChecks DEF CheckResult, Engaged, Critical
  <1>6. CASE CheckLease(e)
    BY <1>6, ExecutorChecks DEF CheckLease, Engaged, Critical
  <1>7. CASE FreezeLocked(e)
    <2>1. exec[e].pc = "locked" /\ exec[e].slice \in Slices
      BY <1>7, EngagedType DEF FreezeLocked, IInv, Engaged
    <2>2. lock = e BY <2>1 DEF IInv, HoldsTheTree, TreeIsHeld, Critical
    <2>3. BasisIsCurrent(e) =>
            op[RunsFor[e]][exec[e].slice].status \in {"none", "intended"}
      BY <2>1, BasisIsBefore DEF BasisIsCurrent, Engaged
    <2>4. BasisIsCurrent(e) => \A x \in tree : x \in exec[e].basis
      BY DEF BasisIsCurrent
    <2>5. BasisIsCurrent(e) \in BOOLEAN BY DEF BasisIsCurrent
    <2>6. /\ Requires(e, BasisIsCurrent(e), "matched")
          /\ UNCHANGED <<tables, lease, tree>>
      BY <1>7 DEF FreezeLocked
    <2> HIDE DEF BasisIsCurrent
    <2> QED BY <2>1, <2>2, <2>3, <2>4, <2>5, <2>6, ExecutorChecks
            DEF Engaged, Critical
  <1> QED BY <1>1, <1>2, <1>3, <1>4, <1>5, <1>6, <1>7

LEMMA LockStep ==
  ASSUME IInv, NEW e \in Executors, Lock(e)
  PROVE  IInv'
  <1>1. lease' \in Tokens \cup {NoToken} BY DEF Lock, IInv, TypeOK
  <1>2. CASE lock = Nobody
    <2>1. lock' = e /\ Goes(e, "locked") BY <1>2 DEF Lock
    <2> QED BY <1>1, <1>2, <2>1, ExecutorGoes, Homes
            DEF Lock, Engaged, Critical
  <1>3. CASE lock # Nobody
    BY <1>1, <1>3, ExecutorEnds DEF Lock
  <1> QED BY <1>2, <1>3

LEMMA ClaimStep ==
  ASSUME IInv, NEW e \in Executors, Claim(e)
  PROVE  IInv'
  <1> DEFINE pc == IF exec[e].pc = "inherited" THEN "claimed" ELSE "dispatching"
  <1>1. exec[e].pc \in Engaged \ {"recovering"}
    BY DEF Claim, Engaged
  <1>2. lease' \in Tokens \cup {NoToken}
    BY <1>1, EngagedType DEF Claim, IInv
  <1>3. pc \in Engaged \ {"recovering"} /\ pc \notin Critical
    BY DEF Engaged, Critical
  <1>4. lock \in Executors \cup {Nobody} BY DEF IInv, TypeOK
  <1>5. pc \notin {"matched", "patching", "recorded", "applied"} OBVIOUS
  <1>6. Goes(e, pc) /\ UNCHANGED <<tables, fence, lock, tree>> BY DEF Claim
  <1> HIDE DEF pc
  <1> QED BY <1>1, <1>2, <1>3, <1>4, <1>5, <1>6, ExecutorGoes

LEMMA ReadOperationStep ==
  ASSUME IInv, NEW e \in Executors, ReadOperation(e)
  PROVE  IInv'
  <1> DEFINE w == RunsFor[e]
             s == exec[e].slice
  <1>0. /\ fence \in [Workflows -> Executors \cup {Nobody}]
        /\ lease \in Tokens \cup {NoToken}
        /\ lock \in Executors \cup {Nobody}
    BY DEF IInv, TypeOK
  <1>1. /\ exec[e].pc \in Engaged \ {"recovering"}
        /\ UNCHANGED <<tables, guards, tree>>
    BY DEF ReadOperation, Engaged
  <1>2. CASE op[w][s] = NoOperation
    <2>1. Goes(e, "dispatching") BY <1>2 DEF ReadOperation
    <2> QED BY <1>0, <1>1, <2>1, ExecutorGoes DEF Engaged, Critical, guards
  <1>3. CASE op[w][s] # NoOperation
    <2> DEFINE r == [pc |-> "recovering", slice |-> s, token |-> exec[e].token,
                     basis |-> exec[e].basis, op |-> op[w][s]]
    <2>1. exec' = [exec EXCEPT ![e] = r]
      BY <1>3 DEF ReadOperation, Knows
    <2>2. /\ s \in Slices /\ exec[e].basis \in Tree
          /\ exec[e].token \in Tokens \cup {NoToken}
      BY <1>1, EngagedType DEF IInv
    <2>3. op[w][s] \in OperationType BY <2>2, Homes, RowTypes DEF IInv
    <2>4. /\ r \in ExecType /\ r.pc = "recovering" /\ r.slice = s
          /\ r.token = exec[e].token /\ r.basis = exec[e].basis
      BY <2>2, <2>3 DEF ExecType
    <2> HIDE DEF r
    <2>5. /\ r.token = attempt[w][r.slice].token
          /\ r.basis = attempt[w][r.slice].basis
          /\ slice[w][r.slice] # "pending"
      BY <1>1, <2>4 DEF IInv, KnowsItsAttempt, AttemptIsKnown
    <2> QED BY <1>0, <1>1, <2>1, <2>4, <2>5, ExecutorMoves
            DEF Critical, guards
  <1> QED BY <1>2, <1>3

\* RecoverPost and RecoverPre.
LEMMA RecoverStep ==
  ASSUME IInv, NEW e \in Executors, RecoverPost(e) \/ RecoverPre(e)
  PROVE  IInv'
  <1>0. /\ fence \in [Workflows -> Executors \cup {Nobody}]
        /\ lease \in Tokens \cup {NoToken}
        /\ lock \in Executors \cup {Nobody}
    BY DEF IInv, TypeOK
  <1>1. exec[e].pc = "recovering" /\ UNCHANGED <<tables, guards, tree>>
    BY DEF RecoverPost, RecoverPre, Recovers
  <1>2. PICK pc \in {"adopting", "dispatching"} :
          exec' = [exec EXCEPT ![e] = Attempted(e, pc)]
    BY DEF RecoverPost, RecoverPre, Knows
  <1> DEFINE r == Attempted(e, pc)
  <1>3. exec' = [exec EXCEPT ![e] = r] BY <1>2
  <1>4. /\ exec[e].slice \in Slices /\ exec[e].basis \in Tree
        /\ exec[e].token \in Tokens \cup {NoToken}
    BY <1>1, RecoveringType DEF IInv
  <1>5. /\ r \in ExecType /\ r.pc = pc /\ r.slice = exec[e].slice
        /\ r.token = exec[e].token /\ r.basis = exec[e].basis
    BY <1>4 DEF Attempted, ExecType, Engaged
  <1> HIDE DEF r
  <1>6. /\ r.token = attempt[RunsFor[e]][r.slice].token
        /\ r.basis = attempt[RunsFor[e]][r.slice].basis
        /\ slice[RunsFor[e]][r.slice] # "pending"
    BY <1>1, <1>5 DEF IInv, KnowsItsAttempt, AttemptIsKnown, Engaged
  <1> QED BY <1>0, <1>1, <1>3, <1>5, <1>6, ExecutorMoves DEF Critical, guards

\* Finish, Fail and Crash: the executor is gone, the tables stay.
LEMMA EndStep ==
  ASSUME IInv, NEW e \in Executors, Finish(e) \/ Fail(e) \/ Crash(e)
  PROVE  IInv'
  <1>1. CASE Finish(e)
    BY <1>1, ExecutorEnds DEF Finish, IInv, TypeOK
  <1>2. CASE Fail(e)
    <2>1. lease' \in Tokens \cup {NoToken}
      BY <1>2 DEF Fail, Unleased, IInv, TypeOK
    <2> QED BY <1>2, <2>1, ExecutorEnds DEF Fail
  <1>3. CASE Crash(e)
    <2>1. /\ exec' = [exec EXCEPT ![e] = Off]
          /\ fence' \in [Workflows -> Executors \cup {Nobody}]
          /\ lease' \in Tokens \cup {NoToken}
          /\ lock' \in Executors \cup {Nobody}
          /\ \A f \in Executors \ {e} : lock = f => lock' = f
          /\ UNCHANGED <<tables, tree>>
      BY <1>3 DEF Crash, Knows, IInv, TypeOK
    <2>2. Off.pc \notin Engaged \cup Critical \cup {"frozen"}
      BY DEF Off, Engaged, Critical
    <2> HIDE DEF Off
    <2> QED BY <2>1, <2>2, OffType, ExecutorMoves DEF Engaged, Critical
  <1> QED BY <1>1, <1>2, <1>3

-----------------------------------------------------------------------------
(* Steps that change the tables.                                           *)

\* The rows of slice s of w stay, or advance: its recorded mutation becomes
\* completed, its attempt retires, and with both it becomes completed.
RowAdvances(w, s) ==
  /\ \/ op'[w][s] = op[w][s]
     \/ /\ op[w][s].status \in {"mutated", "completed"}
        /\ op'[w][s].status = "completed"
        /\ op'[w][s].pre = op[w][s].pre
        /\ op'[w][s].post = op[w][s].post
  /\ \/ attempt'[w][s] = attempt[w][s]
     \/ /\ ~attempt'[w][s].live
        /\ attempt'[w][s].token = attempt[w][s].token
        /\ attempt'[w][s].basis = attempt[w][s].basis
  /\ \/ slice'[w][s] = slice[w][s]
     \/ /\ slice[w][s] = "active" /\ slice'[w][s] = "completed"
        /\ op'[w][s].status = "completed" /\ ~attempt'[w][s].live

\* Executor f stays where it is, or what it knows is true now.
StaysTrue(f) ==
  \/ exec'[f] = exec[f] /\ (lock = f => lock' = f)
  \/ AttemptIsKnown(f)' /\ TreeIsHeld(f)'

LEMMA TablesAdvance ==
  ASSUME IInv,
         slice' \in [Workflows -> StatusType],
         op' \in [Workflows -> [Slices -> OperationType]],
         attempt' \in [Workflows -> [Slices -> AttemptType]],
         \A w \in Workflows : \A s \in Slices : RowAdvances(w, s),
         state' \in [Workflows -> States],
         \A w \in Workflows : state'[w] = "verifying" =>
           \/ state[w] = "verifying"
           \/ \A s \in Slices : slice'[w][s] = "completed",
         UNCHANGED tree,
         fence' \in [Workflows -> Executors \cup {Nobody}],
         lease' \in Tokens \cup {NoToken},
         lock' \in Executors \cup {Nobody},
         exec' \in [Executors -> ExecType],
         \A f \in Executors : StaysTrue(f)
  PROVE  IInv'
  <1>3. TablesTyped'
    <2> SUFFICES ASSUME NEW v \in Workflows, NEW s \in Slices,
                        op'[v][s].status = "none"
                 PROVE  op'[v][s] = NoOperation
      BY DEF TablesTyped
    <2> QED BY DEF RowAdvances, IInv, TablesTyped
  <1>4. TypeOK'
    <2>1. ASSUME NEW v \in Workflows, NEW s \in Slices
          PROVE
       /\ attempt'[v][s].live \in BOOLEAN
       /\ attempt'[v][s].token \in Tokens \cup {NoToken}
       /\ attempt'[v][s].basis \subseteq Written
       /\ op'[v][s].status \in {"none", "intended", "mutated", "completed"}
       /\ op'[v][s].pre \subseteq Written \/ op'[v][s].pre = NoTree
       /\ IF op'[v][s].status \in {"mutated", "completed"}
          THEN op'[v][s].post \subseteq Written ELSE op'[v][s].post = NoTree
      <3>1. op'[v][s] \in OperationType /\ attempt'[v][s] \in AttemptType
        OBVIOUS
      <3>2. IF op[v][s].status \in {"mutated", "completed"}
            THEN op[v][s].post \subseteq Written ELSE op[v][s].post = NoTree
        BY DEF IInv, TypeOK
      <3>3. IF op'[v][s].status \in {"mutated", "completed"}
            THEN op'[v][s].post \subseteq Written ELSE op'[v][s].post = NoTree
        BY <3>2 DEF RowAdvances
      <3> QED BY <3>1, <3>3 DEF OperationType, AttemptType, Tree
    <2>2. ASSUME NEW f \in Executors, "basis" \in DOMAIN exec'[f]
          PROVE  exec'[f].basis \subseteq Written
      <3>1. exec'[f] \in ExecType OBVIOUS
      <3> QED BY <2>2, <3>1 DEF ExecType, Tree
    <2>3. tree' \subseteq Written BY DEF IInv, TypeOK
    <2> QED BY <2>1, <2>2, <2>3 DEF TypeOK
  <1>5. SlicesInOrder'
    <2> SUFFICES ASSUME NEW v \in Workflows, NEW s \in Slices
                 PROVE  SliceInOrder(v, s)'
      BY DEF SlicesInOrder
    <2>1. Depends[s] \subseteq Slices BY SliceAssumption
    <2>2. NoOperation.status = "none" BY DEF NoOperation
    <2>3. SlicesInOrder BY DEF IInv
    <2>4. ASSUME slice'[v][s] = "pending"
          PROVE  /\ Untouched(tree, v, s)' /\ ~attempt'[v][s].live
                 /\ op'[v][s] = NoOperation
      <3>1. slice[v][s] = "pending" BY <2>4 DEF RowAdvances
      <3>2. /\ Untouched(tree, v, s) /\ ~attempt[v][s].live
            /\ op[v][s] = NoOperation
        BY <2>3, <3>1 DEF SlicesInOrder, SliceInOrder
      <3>3. op'[v][s] = NoOperation BY <2>2, <3>2 DEF RowAdvances
      <3>4. ~attempt'[v][s].live BY <3>2 DEF RowAdvances
      <3>5. Untouched(tree, v, s)' BY <3>2 DEF Untouched
      <3> QED BY <2>4, <3>3, <3>4, <3>5
    <2>5. ASSUME slice'[v][s] # "pending", NEW d \in Depends[s]
          PROVE  slice'[v][d] = "completed"
      <3>1. slice[v][s] # "pending" BY <2>5 DEF RowAdvances
      <3>2. slice[v][d] = "completed"
        BY <2>3, <3>1 DEF SlicesInOrder, SliceInOrder
      <3> QED BY <2>1, <3>2 DEF RowAdvances
    <2>6. ASSUME NEW r \in Slices, slice'[v][s] = "active",
                 slice'[v][r] = "active"
          PROVE  r = s
      <3>1. slice[v][s] = "active" /\ slice[v][r] = "active"
        BY <2>6 DEF RowAdvances
      <3> QED BY <2>3, <3>1 DEF SlicesInOrder, SliceInOrder
    <2>7. ASSUME attempt'[v][s].live PROVE slice'[v][s] = "active"
      <3>1. attempt[v][s].live BY <2>7 DEF RowAdvances
      <3>2. slice[v][s] = "active" BY <2>3, <3>1 DEF SlicesInOrder, SliceInOrder
      <3> QED BY <2>7, <3>2 DEF RowAdvances
    <2>8. slice'[v][s] = "pending" =>
            /\ Untouched(tree, v, s)' /\ ~attempt'[v][s].live
            /\ op'[v][s] = NoOperation
      BY <2>4
    <2> QED BY <2>5, <2>6, <2>7, <2>8 DEF SliceInOrder, Untouched
  <1>6. OneAuthor'
    <2>1. ASSUME NEW v \in Workflows, NEW s \in Slices
          PROVE  attempt'[v][s].basis = attempt[v][s].basis
      BY DEF RowAdvances
    <2> QED BY <2>1 DEF IInv, OneAuthor, Untouched
  <1>7. ASSUME NEW f \in Executors, exec'[f] = exec[f], lock = f => lock' = f
        PROVE  AttemptIsKnown(f)' /\ TreeIsHeld(f)'
    <2> DEFINE v == RunsFor[f]
               s == exec[f].slice
    <2>1. AttemptIsKnown(f) /\ TreeIsHeld(f)
      BY DEF IInv, KnowsItsAttempt, HoldsTheTree
    <2>2. CASE exec[f].pc \in Engaged \cup {"frozen"}
      <3>1. v \in Workflows /\ s \in Slices
        BY <2>2, Homes, EngagedType, RecoveringType DEF IInv
      <3>2. RowAdvances(v, s) BY <3>1
      <3>3. /\ attempt'[v][s].token = attempt[v][s].token
            /\ attempt'[v][s].basis = attempt[v][s].basis
            /\ slice'[v][s] = "pending" <=> slice[v][s] = "pending"
        BY <3>2 DEF RowAdvances
      <3>4. AttemptIsKnown(f)'
        BY <1>7, <2>1, <3>3 DEF AttemptIsKnown, Untouched
      <3>5. TreeIsHeld(f)'
        BY <1>7, <2>1, <3>1 DEF RowAdvances, TreeIsHeld, PatchOf
      <3> QED BY <3>4, <3>5
    <2>3. CASE exec[f].pc \notin Engaged \cup {"frozen"}
      BY <1>7, <2>1, <2>3
         DEF AttemptIsKnown, TreeIsHeld, Engaged, Critical
    <2> QED BY <2>2, <2>3
  <1>8. KnowsItsAttempt' /\ HoldsTheTree'
    BY <1>7 DEF KnowsItsAttempt, HoldsTheTree, StaysTrue
  <1>9. CompletedIsWhole'
    <2>1. ASSUME NEW v \in Workflows, NEW s \in Slices
          PROVE
         /\ slice'[v][s] = "completed" => op'[v][s].status = "completed"
         /\ op'[v][s].status \in {"mutated", "completed"} =>
              WholeIn(op'[v][s].post, v, s) /\ WholeIn(tree', v, s)
      <3>1. /\ slice[v][s] = "completed" => op[v][s].status = "completed"
            /\ op[v][s].status \in {"mutated", "completed"} =>
                 WholeIn(op[v][s].post, v, s) /\ WholeIn(tree', v, s)
        BY DEF IInv, CompletedIsWhole
      <3> QED BY <3>1 DEF RowAdvances
    <2>2. ASSUME NEW v \in Workflows, state'[v] = "verifying", NEW s \in Slices
          PROVE  slice'[v][s] = "completed"
      <3>1. CASE state[v] = "verifying"
        <4>1. slice[v][s] = "completed"
          BY <3>1 DEF IInv, CompletedIsWhole
        <4>2. RowAdvances(v, s) OBVIOUS
        <4> QED BY <4>1, <4>2 DEF RowAdvances
      <3> QED BY <2>2, <3>1
    <2> QED BY <2>1, <2>2 DEF CompletedIsWhole, WholeIn, PatchOf
  <1> QED BY <1>3, <1>4, <1>5, <1>6, <1>8, <1>9 DEF IInv

LEMMA Tables ==
  ASSUME IInv
  PROVE  /\ slice \in [Workflows -> StatusType]
         /\ op \in [Workflows -> [Slices -> OperationType]]
         /\ attempt \in [Workflows -> [Slices -> AttemptType]]
         /\ state \in [Workflows -> States]
         /\ fence \in [Workflows -> Executors \cup {Nobody}]
         /\ lease \in Tokens \cup {NoToken}
         /\ lock \in Executors \cup {Nobody}
         /\ exec \in [Executors -> ExecType]
  BY DEF IInv, TypeOK, TablesTyped

\* Where the slices of w become status, with completeExecutionIfReady.
LEMMA CompletionState ==
  ASSUME IInv, NEW w \in Workflows,
         NEW status \in StatusType,
         CompletedIn(w, status)
  PROVE  /\ slice' \in [Workflows -> StatusType]
         /\ slice'[w] = status
         /\ \A v \in Workflows : v # w => slice'[v] = slice[v]
         /\ state' \in [Workflows -> States]
         /\ \A v \in Workflows : state'[v] = "verifying" =>
              \/ state[v] = "verifying"
              \/ \A s \in Slices : slice'[v][s] = "completed"
  <1>1. "verifying" \in States BY DEF States
  <1>2. /\ state \in [Workflows -> States]
        /\ slice \in [Workflows -> StatusType]
    BY Tables
  <1> QED BY <1>1, <1>2 DEF CompletedIn, AllCompleted

\* Executor e, which works on an attempt, goes on to pc: its record then.
LEMMA GoesTo ==
  ASSUME IInv, NEW e \in Executors, NEW pc \in Engaged \ {"recovering"},
         exec[e].pc \in Engaged \ {"recovering"}, Goes(e, pc)
  PROVE  /\ exec' \in [Executors -> ExecType]
         /\ exec'[e].pc = pc /\ exec'[e].slice = exec[e].slice
         /\ exec'[e].token = exec[e].token /\ exec'[e].basis = exec[e].basis
         /\ \A f \in Executors \ {e} : exec'[f] = exec[f]
  <1>1. exec \in [Executors -> ExecType] BY Tables
  <1> DEFINE r == [exec[e] EXCEPT !.pc = pc]
  <1>2. exec' = [exec EXCEPT ![e] = r] BY DEF Goes
  <1>3. /\ r \in ExecType /\ r.pc = pc /\ r.slice = exec[e].slice
        /\ r.token = exec[e].token /\ r.basis = exec[e].basis
    BY MovedType DEF IInv
  <1> HIDE DEF r
  <1> QED BY <1>1, <1>2, <1>3

LEMMA CompleteStep ==
  ASSUME IInv, NEW e \in Executors, Complete(e)
  PROVE  IInv'
  <1> DEFINE w == RunsFor[e]
             s == exec[e].slice
             status == [slice[w] EXCEPT ![s] = "completed"]
  <1>0. /\ exec[e].pc = "applied" /\ exec[e].pc \in Engaged \ {"recovering"}
        /\ w \in Workflows /\ s \in Slices
        /\ UNCHANGED <<attempt, op, lease, tree>>
    BY Homes, EngagedType DEF Complete, IInv, Engaged
  <1>1. CASE slice[w][s] # "active" \/ CompletionFails(w, status)
    <2>1. Ends(e) /\ UNCHANGED <<tables, tree>>
      BY <1>0, <1>1 DEF Complete, tables
    <2> QED BY <1>0, <2>1, Tables, ExecutorEnds
  <1>2. CASE ~(slice[w][s] # "active" \/ CompletionFails(w, status))
    <2>1. /\ CompletedIn(w, status) /\ Goes(e, "releasing")
          /\ UNCHANGED <<fence, lock>> /\ slice[w][s] = "active"
      BY <1>2 DEF Complete
    <2>2. /\ op[w][s].status = "completed" /\ ~attempt[w][s].live
          /\ exec[e].token = attempt[w][s].token
          /\ exec[e].basis = attempt[w][s].basis
      BY <1>0 DEF IInv, HoldsTheTree, TreeIsHeld, KnowsItsAttempt,
                  AttemptIsKnown
    <2>3. status \in StatusType
      BY <1>0, Tables
    <2>4. /\ slice' \in [Workflows -> StatusType]
          /\ slice'[w] = status
          /\ \A v \in Workflows : v # w => slice'[v] = slice[v]
          /\ state' \in [Workflows -> States]
          /\ \A v \in Workflows : state'[v] = "verifying" =>
               \/ state[v] = "verifying"
               \/ \A r \in Slices : slice'[v][r] = "completed"
      BY <1>0, <2>1, <2>3, CompletionState
    <2>5. \A v \in Workflows : \A r \in Slices : RowAdvances(v, r)
      <3> SUFFICES ASSUME NEW v \in Workflows, NEW r \in Slices
                   PROVE  slice'[v][r] = slice[v][r] \/ (v = w /\ r = s)
        BY <1>0, <2>1, <2>2, <2>4, Tables DEF RowAdvances
      <3> QED BY <1>0, <2>4, Tables
    <2>6. /\ exec' \in [Executors -> ExecType]
          /\ exec'[e].pc = "releasing" /\ exec'[e].slice = exec[e].slice
          /\ exec'[e].token = exec[e].token /\ exec'[e].basis = exec[e].basis
          /\ \A f \in Executors \ {e} : exec'[f] = exec[f]
      BY <1>0, <2>1, GoesTo DEF Engaged
    <2>7. slice'[w][s] = "completed" BY <1>0, <2>4, Tables
    <2>8. AttemptIsKnown(e)' /\ TreeIsHeld(e)'
      BY <1>0, <2>2, <2>6, <2>7
         DEF AttemptIsKnown, TreeIsHeld, Engaged, Critical
    <2>9. \A f \in Executors : StaysTrue(f)
      BY <2>1, <2>6, <2>8 DEF StaysTrue
    <2> HIDE DEF w, s, status
    <2> QED BY <1>0, <2>1, <2>4, <2>5, <2>6, <2>9, Tables, TablesAdvance
  <1> QED BY <1>1, <1>2

LEMMA AdoptStep ==
  ASSUME IInv, NEW e \in Executors, Adopt(e)
  PROVE  IInv'
  <1> DEFINE w == RunsFor[e]
             s == exec[e].slice
             status == [slice[w] EXCEPT ![s] = "completed"]
             fails == \/ op[w][s].status \notin {"mutated", "completed"}
                      \/ slice[w][s] # "active" \/ CompletionFails(w, status)
  <1>0. /\ exec[e].pc = "adopting" /\ exec[e].pc \in Engaged \ {"recovering"}
        /\ w \in Workflows /\ s \in Slices
        /\ UNCHANGED <<lease, tree>>
    BY Homes, EngagedType DEF Adopt, IInv, Engaged
  <1>1. CASE fails
    <2>1. Ends(e) /\ UNCHANGED <<tables, tree>>
      BY <1>0, <1>1 DEF Adopt
    <2> QED BY <1>0, <2>1, Tables, ExecutorEnds
  <1>2. CASE ~fails
    <2>1. /\ op' = [op EXCEPT ![w][s].status = "completed"]
          /\ attempt' = [attempt EXCEPT ![w][s].live = FALSE]
          /\ CompletedIn(w, status) /\ Goes(e, "releasing")
          /\ UNCHANGED <<fence, lock>>
          /\ op[w][s].status \in {"mutated", "completed"}
          /\ slice[w][s] = "active"
      BY <1>2 DEF Adopt
    <2>2. /\ exec[e].token = attempt[w][s].token
          /\ exec[e].basis = attempt[w][s].basis
      BY <1>0 DEF IInv, KnowsItsAttempt, AttemptIsKnown
    <2>3. status \in StatusType
      BY <1>0, Tables
    <2>4. /\ slice' \in [Workflows -> StatusType]
          /\ slice'[w] = status
          /\ \A v \in Workflows : v # w => slice'[v] = slice[v]
          /\ state' \in [Workflows -> States]
          /\ \A v \in Workflows : state'[v] = "verifying" =>
               \/ state[v] = "verifying"
               \/ \A r \in Slices : slice'[v][r] = "completed"
      BY <1>0, <2>1, <2>3, CompletionState
    <2> HIDE DEF fails
    <2>5. /\ op[w][s] \in OperationType /\ attempt[w][s] \in AttemptType
          /\ op \in [Workflows -> [Slices -> OperationType]]
          /\ attempt \in [Workflows -> [Slices -> AttemptType]]
      BY <1>0, Tables
    <2>6. /\ op'[w][s] = [op[w][s] EXCEPT !.status = "completed"]
          /\ attempt'[w][s] = [attempt[w][s] EXCEPT !.live = FALSE]
          /\ \A v \in Workflows : \A r \in Slices : v # w \/ r # s =>
               op'[v][r] = op[v][r] /\ attempt'[v][r] = attempt[v][r]
      BY <1>0, <2>1, <2>5
    <2>7. /\ op'[w][s] \in OperationType /\ op'[w][s].status = "completed"
          /\ op'[w][s].pre = op[w][s].pre /\ op'[w][s].post = op[w][s].post
          /\ attempt'[w][s] \in AttemptType /\ ~attempt'[w][s].live
          /\ attempt'[w][s].token = attempt[w][s].token
          /\ attempt'[w][s].basis = attempt[w][s].basis
      BY <2>5, <2>6 DEF OperationType, AttemptType
    <2>8. /\ op' \in [Workflows -> [Slices -> OperationType]]
          /\ attempt' \in [Workflows -> [Slices -> AttemptType]]
      BY <1>0, <2>1, <2>5, <2>6, <2>7
    <2>9. slice'[w][s] = "completed" BY <1>0, <2>4, Tables
    <2>10. \A v \in Workflows : \A r \in Slices : v # w \/ r # s =>
             slice'[v][r] = slice[v][r]
      BY <1>0, <2>4, Tables
    <2>11. \A v \in Workflows : \A r \in Slices : RowAdvances(v, r)
      BY ZenonT(60), <2>1, <2>6, <2>7, <2>9, <2>10 DEF RowAdvances
    <2>12. /\ exec' \in [Executors -> ExecType]
           /\ exec'[e].pc = "releasing" /\ exec'[e].slice = exec[e].slice
           /\ exec'[e].token = exec[e].token /\ exec'[e].basis = exec[e].basis
           /\ \A f \in Executors \ {e} : exec'[f] = exec[f]
      BY <1>0, <2>1, GoesTo DEF Engaged
    <2>13. AttemptIsKnown(e)' /\ TreeIsHeld(e)'
      BY <1>0, <2>2, <2>7, <2>9, <2>12
         DEF AttemptIsKnown, TreeIsHeld, Engaged, Critical
    <2>14. \A f \in Executors : StaysTrue(f)
      BY <2>1, <2>12, <2>13 DEF StaysTrue
    <2> HIDE DEF w, s, status
    <2> QED BY <1>0, <2>1, <2>4, <2>8, <2>11, <2>12, <2>14, Tables,
               TablesAdvance
  <1> QED BY <1>1, <1>2

LEMMA ReconcileStep ==
  ASSUME IInv, NEW e \in Executors, Reconcile(e)
  PROVE  IInv'
  <1> DEFINE w == RunsFor[e]
             status == [s \in Slices |->
               IF s \in Adoptable(w) THEN "completed" ELSE slice[w][s]]
             x == [exec[e] EXCEPT !.pc = "looping"]
  <1>0. /\ exec[e].pc = "entered" /\ w \in Workflows
        /\ UNCHANGED <<attempt, op, lease, tree>>
    BY Homes DEF Reconcile
  <1>1. CASE CompletionFails(w, status)
    <2>1. Ends(e) /\ UNCHANGED <<tables, tree>>
      BY <1>0, <1>1 DEF Reconcile, tables
    <2> QED BY <1>0, <2>1, Tables, ExecutorEnds
  <1>2. CASE ~CompletionFails(w, status)
    <2>1. /\ CompletedIn(w, status) /\ Goes(e, "looping")
          /\ UNCHANGED <<fence, lock>>
      BY <1>2 DEF Reconcile
    <2>2. status \in StatusType
      BY <1>0, Tables
    <2>3. /\ slice' \in [Workflows -> StatusType]
          /\ slice'[w] = status
          /\ \A v \in Workflows : v # w => slice'[v] = slice[v]
          /\ state' \in [Workflows -> States]
          /\ \A v \in Workflows : state'[v] = "verifying" =>
               \/ state[v] = "verifying"
               \/ \A r \in Slices : slice'[v][r] = "completed"
      BY <1>0, <2>1, <2>2, CompletionState
    <2>4. ASSUME NEW v \in Workflows, NEW r \in Slices
          PROVE  RowAdvances(v, r)
      <3>1. CASE v = w /\ r \in Adoptable(w)
        <4>1. /\ slice[v][r] = "active" /\ op[v][r].status = "completed"
              /\ ~attempt[v][r].live /\ slice'[v][r] = "completed"
          BY <2>3, <3>1 DEF Adoptable
        <4> QED BY <1>0, <4>1 DEF RowAdvances
      <3>2. CASE ~(v = w /\ r \in Adoptable(w))
        BY <1>0, <2>3, <3>2 DEF RowAdvances
      <3> QED BY <3>1, <3>2
    <2>5. /\ exec' = [exec EXCEPT ![e] = x] /\ x \in ExecType
          /\ x.pc = "looping"
      BY <1>0, <2>1 DEF Goes, IInv, TablesTyped, ExecType, Engaged
    <2>6. exec' \in [Executors -> ExecType] /\ exec'[e].pc = "looping"
          /\ \A f \in Executors \ {e} : exec'[f] = exec[f]
      BY <2>5, Tables
    <2>7. AttemptIsKnown(e)' /\ TreeIsHeld(e)'
      BY <2>6 DEF AttemptIsKnown, TreeIsHeld, Engaged, Critical
    <2>8. \A f \in Executors : StaysTrue(f)
      BY <2>1, <2>6, <2>7 DEF StaysTrue
    <2> HIDE DEF w, status, x
    <2> QED BY <1>0, <2>1, <2>3, <2>4, <2>6, <2>8, Tables, TablesAdvance
  <1> QED BY <1>1, <1>2

LEMMA CommitStep ==
  ASSUME IInv, NEW e \in Executors, Commit(e)
  PROVE  IInv'
  <1> DEFINE w == RunsFor[e]
             s == exec[e].slice
  <1>0. /\ exec[e].pc = "recorded" /\ exec[e].pc \in Engaged \ {"recovering"}
        /\ w \in Workflows /\ s \in Slices
        /\ UNCHANGED <<state, slice, fence, lease, tree>> /\ lock' = Nobody
        /\ Goes(e, "applied")
    BY Homes, EngagedType DEF Commit, IInv, Engaged
  <1>1. /\ op' = [op EXCEPT ![w][s].status =
                    IF @ = "mutated" THEN "completed" ELSE @]
        /\ attempt' = [attempt EXCEPT ![w][s].live = FALSE]
    BY DEF Commit
  <1>2. /\ exec[e].token = attempt[w][s].token
        /\ exec[e].basis = attempt[w][s].basis
        /\ slice[w][s] # "pending"
        /\ op[w][s].status \in {"mutated", "completed"} /\ lock = e
    BY <1>0 DEF IInv, KnowsItsAttempt, AttemptIsKnown, HoldsTheTree,
                TreeIsHeld, Critical
  <1>3. /\ op[w][s] \in OperationType /\ attempt[w][s] \in AttemptType
        /\ op \in [Workflows -> [Slices -> OperationType]]
        /\ attempt \in [Workflows -> [Slices -> AttemptType]]
    BY <1>0, Tables
  <1>4. /\ op'[w][s] = [op[w][s] EXCEPT !.status = "completed"]
        /\ attempt'[w][s] = [attempt[w][s] EXCEPT !.live = FALSE]
        /\ \A v \in Workflows : \A r \in Slices : v # w \/ r # s =>
             op'[v][r] = op[v][r] /\ attempt'[v][r] = attempt[v][r]
    BY <1>0, <1>1, <1>2, <1>3
  <1>5. /\ op'[w][s] \in OperationType /\ op'[w][s].status = "completed"
        /\ op'[w][s].pre = op[w][s].pre /\ op'[w][s].post = op[w][s].post
        /\ attempt'[w][s] \in AttemptType /\ ~attempt'[w][s].live
        /\ attempt'[w][s].token = attempt[w][s].token
        /\ attempt'[w][s].basis = attempt[w][s].basis
    BY <1>3, <1>4 DEF OperationType, AttemptType
  <1>6. /\ op' \in [Workflows -> [Slices -> OperationType]]
        /\ attempt' \in [Workflows -> [Slices -> AttemptType]]
    BY ZenonT(60), <1>0, <1>1, <1>3, <1>4, <1>5
  <1>7. \A v \in Workflows : \A r \in Slices : RowAdvances(v, r)
    <2>1. RowAdvances(w, s) BY <1>0, <1>2, <1>5 DEF RowAdvances
    <2>2. \A v \in Workflows : \A r \in Slices :
            v # w \/ r # s => RowAdvances(v, r)
      BY <1>0, <1>4 DEF RowAdvances
    <2> HIDE DEF w, s
    <2> QED BY <2>1, <2>2
  <1>8. /\ exec' \in [Executors -> ExecType]
        /\ exec'[e].pc = "applied" /\ exec'[e].slice = exec[e].slice
        /\ exec'[e].token = exec[e].token /\ exec'[e].basis = exec[e].basis
        /\ \A f \in Executors \ {e} : exec'[f] = exec[f]
    BY <1>0, GoesTo DEF Engaged
  <1>9. AttemptIsKnown(e)' /\ TreeIsHeld(e)'
    BY <1>0, <1>2, <1>5, <1>8
       DEF AttemptIsKnown, TreeIsHeld, Engaged, Critical
  <1>10. \A f \in Executors : StaysTrue(f)
    BY <1>2, <1>8, <1>9 DEF StaysTrue
  <1> HIDE DEF w, s
  <1> QED BY <1>0, <1>6, <1>7, <1>8, <1>10, Tables, TablesAdvance,
             SliceAssumption

LEMMA RecoverUnknownStep ==
  ASSUME IInv, NEW e \in Executors, RecoverUnknown(e)
  PROVE  IInv'
  <1>0. /\ UNCHANGED <<slice, attempt, op, lease, tree>> /\ Ends(e)
        /\ state' = [state EXCEPT ![RunsFor[e]] =
              IF state[RunsFor[e]] = "executing" THEN "integration_conflict"
              ELSE state[RunsFor[e]]]
    BY DEF RecoverUnknown
  <1>1. /\ exec' = [exec EXCEPT ![e] = Off]
        /\ fence' \in [Workflows -> Executors \cup {Nobody}]
        /\ lock' \in Executors \cup {Nobody}
        /\ \A f \in Executors \ {e} : lock = f => lock' = f
    BY <1>0, Tables DEF Ends, Knows
  <1>2. /\ state' \in [Workflows -> States]
        /\ \A v \in Workflows :
             state'[v] = "verifying" => state[v] = "verifying"
    <2>1. "integration_conflict" \in States BY DEF States
    <2> QED BY <1>0, <2>1, Homes, Tables
  <1>3. \A v \in Workflows : \A r \in Slices : RowAdvances(v, r)
    BY <1>0 DEF RowAdvances
  <1>4. /\ exec' \in [Executors -> ExecType] /\ exec'[e].pc = "off"
        /\ \A f \in Executors \ {e} : exec'[f] = exec[f]
    BY <1>1, OffType, Tables
  <1>5. AttemptIsKnown(e)' /\ TreeIsHeld(e)'
    BY <1>4 DEF AttemptIsKnown, TreeIsHeld, Engaged, Critical
  <1>6. \A f \in Executors : StaysTrue(f)
    BY <1>1, <1>4, <1>5 DEF StaysTrue
  <1> QED BY <1>0, <1>1, <1>2, <1>3, <1>4, <1>6, Tables, TablesAdvance

LEMMA AbortStep ==
  ASSUME IInv, NEW w \in Workflows, Abort(w)
  PROVE  IInv'
  <1>0. /\ UNCHANGED <<slice, attempt, op, fence, lease, lock, tree, exec>>
        /\ state' = [state EXCEPT ![w] = "aborted"]
    BY DEF Abort, guards
  <1>1. /\ state' \in [Workflows -> States]
        /\ \A v \in Workflows :
             state'[v] = "verifying" => state[v] = "verifying"
    <2>1. "aborted" \in States BY DEF States
    <2> QED BY <1>0, <2>1, Tables
  <1>2. \A v \in Workflows : \A r \in Slices : RowAdvances(v, r)
    BY <1>0 DEF RowAdvances
  <1>3. \A f \in Executors : StaysTrue(f) BY <1>0 DEF StaysTrue
  <1> QED BY <1>0, <1>1, <1>2, <1>3, Tables, TablesAdvance

LEMMA CleanUpStep ==
  ASSUME IInv, NEW w \in Workflows, CleanUp(w)
  PROVE  IInv'
  <1>0. /\ UNCHANGED <<state, slice, op, fence, lock, tree, exec>>
        /\ lease' = NoToken
    BY DEF CleanUp
  <1> DEFINE Retired(s) == [attempt[w][s] EXCEPT !.live = FALSE]
  <1>1. attempt' = [attempt EXCEPT ![w] = [s \in Slices |-> Retired(s)]]
    BY DEF CleanUp
  <1>2. ASSUME NEW s \in Slices
        PROVE  /\ Retired(s) \in AttemptType /\ ~Retired(s).live
               /\ Retired(s).token = attempt[w][s].token
               /\ Retired(s).basis = attempt[w][s].basis
    <2>1. attempt[w][s] \in AttemptType BY Tables
    <2> QED BY <2>1 DEF AttemptType
  <1> HIDE DEF Retired
  <1>3. attempt \in [Workflows -> [Slices -> AttemptType]] BY Tables
  <1>4. /\ attempt' \in [Workflows -> [Slices -> AttemptType]]
        /\ \A s \in Slices : attempt'[w][s] = Retired(s)
        /\ \A v \in Workflows : v # w => attempt'[v] = attempt[v]
    BY <1>1, <1>2, <1>3
  <1>5. \A v \in Workflows : \A r \in Slices : RowAdvances(v, r)
    BY <1>0, <1>2, <1>4 DEF RowAdvances
  <1>6. \A f \in Executors : StaysTrue(f) BY <1>0 DEF StaysTrue
  <1> QED BY <1>0, <1>4, <1>5, <1>6, Tables, TablesAdvance

-----------------------------------------------------------------------------
(* An attempt begins, and its mutation is intended and recorded.           *)

LEMMA ActivateStep ==
  ASSUME IInv, NEW e \in Executors, Activate(e)
  PROVE  IInv'
  <1> DEFINE w == RunsFor[e]
             s == exec[e].slice
             a == [live |-> TRUE, token |-> exec[e].token,
                   basis |-> exec[e].basis]
             x == [exec[e] EXCEPT !.pc = "activated"]
  <1>0. /\ exec[e].pc = "frozen" /\ w \in Workflows /\ s \in Slices
        /\ exec[e].token \in Tokens \cup {NoToken} /\ exec[e].basis \in Tree
        /\ UNCHANGED <<op, fence, lease, lock, tree>> /\ IsNext(w, s)
    BY Homes, EngagedType DEF Activate, IInv, guards
  <1>1. /\ slice[w][s] = "pending"
        /\ \A d \in Depends[s] : slice[w][d] = "completed"
        /\ \A r \in Slices : slice[w][r] # "active"
    BY <1>0 DEF IsNext, ReadySlices
  <1>2. /\ slice' = [slice EXCEPT ![w][s] = "active"]
        /\ attempt' = [attempt EXCEPT ![w][s] = a]
        /\ state' = [state EXCEPT ![w] = "executing"]
        /\ exec' = [exec EXCEPT ![e] = x]
    BY DEF Activate, Goes
  <1>3. /\ a \in AttemptType /\ a.live /\ a.token = exec[e].token
        /\ a.basis = exec[e].basis
    BY <1>0 DEF AttemptType
  <1>4. /\ x \in ExecType /\ x.pc = "activated" /\ x.slice = s
        /\ x.token = exec[e].token /\ x.basis = exec[e].basis
    BY <1>0, MovedType DEF IInv, Engaged
  <1> HIDE DEF a, x
  <1>5. /\ slice' \in [Workflows -> StatusType]
        /\ attempt' \in [Workflows -> [Slices -> AttemptType]]
        /\ state' \in [Workflows -> States]
        /\ exec' \in [Executors -> ExecType]
    <2>1. "executing" \in States BY DEF States
    <2> QED BY <1>0, <1>2, <1>3, <1>4, <2>1, Tables
  <1>6. /\ slice'[w][s] = "active" /\ attempt'[w][s] = a /\ exec'[e] = x
        /\ \A v \in Workflows : \A r \in Slices : v # w \/ r # s =>
             slice'[v][r] = slice[v][r] /\ attempt'[v][r] = attempt[v][r]
        /\ \A f \in Executors \ {e} : exec'[f] = exec[f]
        /\ state'[w] = "executing"
        /\ \A v \in Workflows : v # w => state'[v] = state[v]
    BY <1>0, <1>2, Tables
  <1>7. Untouched(a.basis, w, s) /\ op[w][s] = NoOperation
    BY <1>0, <1>1, <1>3 DEF IInv, KnowsItsAttempt, AttemptIsKnown,
                            SlicesInOrder, SliceInOrder
  <1> HIDE DEF w, s
  <1>8. TablesTyped' BY <1>0, <1>5 DEF IInv, TablesTyped
  <1>9. TypeOK'
    <2>1. \A v \in Workflows : \A r \in Slices : attempt'[v][r] \in AttemptType
      BY <1>5
    <2>2. \A f \in Executors : exec'[f] \in ExecType BY <1>5
    <2>3. \A f \in Executors :
            "basis" \in DOMAIN exec'[f] => exec'[f].basis \subseteq Written
      BY <2>2 DEF ExecType, Tree
    <2> QED BY <1>0, <1>5, <2>1, <2>3 DEF IInv, TypeOK, AttemptType, Tree
  <1>10. SlicesInOrder'
    <2> SUFFICES ASSUME NEW v \in Workflows, NEW r \in Slices
                 PROVE  SliceInOrder(v, r)'
      BY DEF SlicesInOrder
    <2>0. SliceInOrder(v, r) BY DEF IInv, SlicesInOrder
    <2>1. Depends[r] \subseteq Slices BY SliceAssumption
    <2>2. CASE v = w /\ r = s
      <3>1. \A d \in Depends[s] : slice'[w][d] = "completed"
        <4> SUFFICES ASSUME NEW d \in Depends[s]
                     PROVE  slice'[w][d] = "completed"
          OBVIOUS
        <4> QED BY <1>0, <1>1, <1>6, <2>1, <2>2
      <3>2. \A q \in Slices : slice'[w][q] = "active" => q = s
        BY <1>0, <1>1, <1>6
      <3> QED BY <1>6, <2>2, <3>1, <3>2 DEF SliceInOrder
    <2>3. CASE ~(v = w /\ r = s)
      <3>1. slice'[v][r] = slice[v][r] /\ attempt'[v][r] = attempt[v][r]
        BY <1>6, <2>3
      <3>2. v = w => slice[v][r] # "active" BY <1>1
      <3>3. \A d \in Depends[r] : slice[v][d] = "completed" =>
                                    slice'[v][d] = "completed"
        BY <1>1, <1>6, <2>1
      <3>4. \A q \in Slices : slice'[v][q] = "active" =>
                                v = w \/ slice[v][q] = "active"
        BY <1>6
      <3>5. Untouched(tree, v, r)' <=> Untouched(tree, v, r)
        BY <1>0 DEF Untouched
      <3> QED BY <1>0, <2>0, <3>1, <3>2, <3>3, <3>4, <3>5 DEF SliceInOrder
    <2> QED BY <2>2, <2>3
  <1>11. OneAuthor'
    <2>1. ASSUME NEW v \in Workflows, NEW r \in Slices
          PROVE  Untouched(attempt'[v][r].basis, v, r)
      BY <1>6, <1>7 DEF IInv, OneAuthor
    <2> QED BY <1>0, <2>1 DEF IInv, OneAuthor, Untouched
  <1>12. ASSUME NEW f \in Executors
         PROVE  AttemptIsKnown(f)' /\ TreeIsHeld(f)'
    <2>1. CASE f = e
      BY <1>3, <1>4, <1>6, <2>1
         DEF AttemptIsKnown, TreeIsHeld, Engaged, Critical, w, s
    <2>2. CASE f # e
      <3>1. exec'[f] = exec[f] BY <1>6, <2>2
      <3>2. AttemptIsKnown(f) /\ TreeIsHeld(f)
        BY DEF IInv, KnowsItsAttempt, HoldsTheTree
      <3>3. CASE exec[f].pc \in Engaged \cup {"frozen"}
        <4>1. RunsFor[f] \in Workflows /\ exec[f].slice \in Slices
          BY <3>3, Homes, EngagedType, RecoveringType DEF IInv
        <4>2. CASE RunsFor[f] = w /\ exec[f].slice = s
          <5>1. exec[f].pc = "frozen"
            BY <1>1, <3>2, <3>3, <4>2 DEF AttemptIsKnown
          <5> QED BY <1>6, <3>1, <4>2, <5>1
                  DEF AttemptIsKnown, TreeIsHeld, Engaged, Critical
        <4>3. CASE ~(RunsFor[f] = w /\ exec[f].slice = s)
          <5>1. /\ slice'[RunsFor[f]][exec[f].slice] =
                     slice[RunsFor[f]][exec[f].slice]
                /\ attempt'[RunsFor[f]][exec[f].slice] =
                     attempt[RunsFor[f]][exec[f].slice]
            BY <1>6, <4>1, <4>3
          <5> QED BY <1>0, <3>1, <3>2, <5>1
                  DEF AttemptIsKnown, TreeIsHeld, PatchOf, Untouched
        <4> QED BY <4>2, <4>3
      <3>4. CASE exec[f].pc \notin Engaged \cup {"frozen"}
        BY <3>1, <3>4 DEF AttemptIsKnown, TreeIsHeld, Engaged, Critical
      <3> QED BY <3>3, <3>4
    <2> QED BY <2>1, <2>2
  <1>13. KnowsItsAttempt' /\ HoldsTheTree'
    BY <1>12 DEF KnowsItsAttempt, HoldsTheTree
  <1>14. CompletedIsWhole'
    <2>1. ASSUME NEW v \in Workflows, NEW r \in Slices,
                 slice'[v][r] = "completed"
          PROVE  op'[v][r].status = "completed"
      BY <1>0, <1>6, <2>1 DEF IInv, CompletedIsWhole
    <2>2. ASSUME NEW v \in Workflows, NEW r \in Slices, state'[v] = "verifying"
          PROVE  slice'[v][r] = "completed"
      <3>1. v # w BY <1>6, <2>2
      <3> QED BY <1>6, <2>2, <3>1 DEF IInv, CompletedIsWhole
    <2>3. UNCHANGED <<op, tree>> BY <1>0
    <2> QED BY <2>1, <2>2, <2>3 DEF IInv, CompletedIsWhole, WholeIn, PatchOf
  <1> QED BY <1>8, <1>9, <1>10, <1>11, <1>13, <1>14 DEF IInv

\* Executor e, which holds the file lock, writes operation o of its attempt and
\* goes on to pc.  What is recorded of a mutation stays.
LEMMA OperationMoves ==
  ASSUME IInv, NEW e \in Executors, NEW o \in OperationType,
         NEW pc \in Engaged \ {"recovering"},
         exec[e].pc \in Engaged \ {"recovering"}, exec[e].pc \in Critical,
         Goes(e, pc), UNCHANGED <<state, slice, attempt, guards, tree>>,
         op' = [op EXCEPT ![RunsFor[e]][exec[e].slice] = o],
         o.status # "none",
         op[RunsFor[e]][exec[e].slice].status \in {"mutated", "completed"} =>
           o = op[RunsFor[e]][exec[e].slice],
         IF o.status \in {"mutated", "completed"}
         THEN /\ o.post \in Tree
              /\ WholeIn(o.post, RunsFor[e], exec[e].slice)
              /\ WholeIn(tree, RunsFor[e], exec[e].slice)
         ELSE o.post = NoTree,
         TreeIsHeld(e)'
  PROVE  IInv'
  <1> DEFINE w == RunsFor[e]
             s == exec[e].slice
  <1>0. w \in Workflows /\ s \in Slices /\ lock = e
    BY Homes, EngagedType DEF IInv, HoldsTheTree, TreeIsHeld
  <1>1. /\ exec' \in [Executors -> ExecType]
        /\ exec'[e].pc = pc /\ exec'[e].slice = exec[e].slice
        /\ exec'[e].token = exec[e].token /\ exec'[e].basis = exec[e].basis
        /\ \A f \in Executors \ {e} : exec'[f] = exec[f]
    BY GoesTo
  <1>2. /\ op' \in [Workflows -> [Slices -> OperationType]]
        /\ op'[w][s] = o
        /\ \A v \in Workflows : \A r \in Slices : v # w \/ r # s =>
             op'[v][r] = op[v][r]
    BY <1>0, Tables
  <1>3. /\ exec[e].token = attempt[w][s].token
        /\ exec[e].basis = attempt[w][s].basis
        /\ slice[w][s] # "pending"
    BY DEF IInv, KnowsItsAttempt, AttemptIsKnown
  <1>4. UNCHANGED <<state, slice, attempt, fence, lease, lock, tree>>
    BY DEF guards
  <1> HIDE DEF w, s
  <1>5. TablesTyped'
    BY <1>1, <1>2, <1>4 DEF IInv, TablesTyped
  <1>6. TypeOK'
    <2>1. ASSUME NEW v \in Workflows, NEW r \in Slices
          PROVE
       /\ op'[v][r].status \in {"none", "intended", "mutated", "completed"}
       /\ op'[v][r].pre \subseteq Written \/ op'[v][r].pre = NoTree
       /\ IF op'[v][r].status \in {"mutated", "completed"}
          THEN op'[v][r].post \subseteq Written ELSE op'[v][r].post = NoTree
      <3>1. op'[v][r] \in OperationType BY <1>2
      <3>2. IF op[v][r].status \in {"mutated", "completed"}
            THEN op[v][r].post \subseteq Written ELSE op[v][r].post = NoTree
        BY DEF IInv, TypeOK
      <3>3. IF op'[v][r].status \in {"mutated", "completed"}
            THEN op'[v][r].post \subseteq Written ELSE op'[v][r].post = NoTree
        BY <1>2, <3>2 DEF Tree
      <3> QED BY <3>1, <3>3 DEF OperationType, Tree
    <2>2. ASSUME NEW f \in Executors, "basis" \in DOMAIN exec'[f]
          PROVE  exec'[f].basis \subseteq Written
      <3>1. exec'[f] \in ExecType BY <1>1
      <3> QED BY <2>2, <3>1 DEF ExecType, Tree
    <2> QED BY <1>4, <2>1, <2>2 DEF IInv, TypeOK
  <1>7. SlicesInOrder'
    <2> SUFFICES ASSUME NEW v \in Workflows, NEW r \in Slices
                 PROVE  SliceInOrder(v, r)'
      BY DEF SlicesInOrder
    <2>1. SliceInOrder(v, r) BY DEF IInv, SlicesInOrder
    <2>2. slice[v][r] = "pending" => op'[v][r] = op[v][r]
      BY <1>2, <1>3
    <2> QED BY <1>4, <2>1, <2>2 DEF SliceInOrder, Untouched
  <1>8. OneAuthor' BY <1>4 DEF IInv, OneAuthor, Untouched
  <1>9. ASSUME NEW f \in Executors
        PROVE  AttemptIsKnown(f)' /\ TreeIsHeld(f)'
    <2>1. CASE f = e
      <3>1. AttemptIsKnown(e)'
        BY <1>1, <1>3, <1>4 DEF AttemptIsKnown, Engaged, w, s
      <3> QED BY <2>1, <3>1
    <2>2. CASE f # e
      <3>1. exec'[f] = exec[f] BY <1>1, <2>2
      <3>2. AttemptIsKnown(f) /\ TreeIsHeld(f)
        BY DEF IInv, KnowsItsAttempt, HoldsTheTree
      <3>3. AttemptIsKnown(f)'
        BY <1>4, <3>1, <3>2 DEF AttemptIsKnown, Untouched
      <3>4. exec[f].pc \notin Critical
        BY <1>0, <2>2, <3>2 DEF TreeIsHeld
      <3>5. exec[f].pc = "applied" =>
              op'[RunsFor[f]][exec[f].slice].status = "completed"
        <4> SUFFICES ASSUME exec[f].pc = "applied"
                     PROVE op'[RunsFor[f]][exec[f].slice].status = "completed"
          OBVIOUS
        <4>1. RunsFor[f] \in Workflows /\ exec[f].slice \in Slices
          BY Homes, EngagedType DEF IInv, Engaged
        <4>2. op[RunsFor[f]][exec[f].slice].status = "completed"
          BY <3>2 DEF TreeIsHeld
        <4> QED BY <1>2, <4>1, <4>2 DEF w, s
      <3>6. TreeIsHeld(f)'
        BY <1>4, <3>1, <3>2, <3>4, <3>5 DEF TreeIsHeld, Critical
      <3> QED BY <3>3, <3>6
    <2> QED BY <2>1, <2>2
  <1>10. KnowsItsAttempt' /\ HoldsTheTree'
    BY <1>9 DEF KnowsItsAttempt, HoldsTheTree
  <1>11. CompletedIsWhole'
    <2>1. ASSUME NEW v \in Workflows, NEW r \in Slices
          PROVE
         /\ slice'[v][r] = "completed" => op'[v][r].status = "completed"
         /\ op'[v][r].status \in {"mutated", "completed"} =>
              WholeIn(op'[v][r].post, v, r) /\ WholeIn(tree', v, r)
      <3>1. /\ slice[v][r] = "completed" => op[v][r].status = "completed"
            /\ op[v][r].status \in {"mutated", "completed"} =>
                 WholeIn(op[v][r].post, v, r) /\ WholeIn(tree, v, r)
        BY DEF IInv, CompletedIsWhole
      <3>2. tree' = tree /\ slice' = slice BY <1>4
      <3>3. CASE v = w /\ r = s
        BY <1>2, <3>1, <3>2, <3>3 DEF w, s
      <3>4. CASE ~(v = w /\ r = s)
        BY <1>2, <3>1, <3>2, <3>4
      <3> QED BY <3>3, <3>4
    <2>2. ASSUME NEW v \in Workflows, state'[v] = "verifying", NEW r \in Slices
          PROVE  slice'[v][r] = "completed"
      BY <1>4, <2>2 DEF IInv, CompletedIsWhole
    <2> QED BY <2>1, <2>2 DEF CompletedIsWhole, WholeIn, PatchOf
  <1> QED BY <1>5, <1>6, <1>7, <1>8, <1>10, <1>11 DEF IInv

LEMMA IntendStep ==
  ASSUME IInv, NEW e \in Executors, Intend(e)
  PROVE  IInv'
  <1> DEFINE w == RunsFor[e]
             s == exec[e].slice
             o == IF op[w][s] = NoOperation
                  THEN [status |-> "intended", pre |-> exec[e].basis,
                        post |-> NoTree]
                  ELSE op[w][s]
  <1>0. /\ exec[e].pc = "matched" /\ w \in Workflows /\ s \in Slices
        /\ exec[e].basis \in Tree
        /\ Goes(e, "patching")
        /\ UNCHANGED <<state, slice, attempt, guards, tree>>
    BY Homes, EngagedType DEF Intend, IInv, Engaged
  <1>1. op[w][s] \in OperationType /\ op[w][s].status \in {"none", "intended"}
    BY <1>0, Tables DEF IInv, HoldsTheTree, TreeIsHeld
  <1>2. op[w][s].status = "none" => op[w][s] = NoOperation
    BY <1>0 DEF IInv, TablesTyped
  <1>3. op[w][s].status = "intended" => op[w][s].post = NoTree
    BY <1>0 DEF IInv, TypeOK
  <1>4. op' = [op EXCEPT ![w][s] = o] BY DEF Intend
  <1>5. /\ o \in OperationType /\ o.status = "intended" /\ o.post = NoTree
    BY <1>0, <1>1, <1>2, <1>3 DEF OperationType, Tree, NoOperation
  <1>6. /\ exec' \in [Executors -> ExecType]
        /\ exec'[e].pc = "patching" /\ exec'[e].slice = exec[e].slice
        /\ exec'[e].basis = exec[e].basis
    BY <1>0, GoesTo DEF Engaged
  <1> HIDE DEF o
  <1>7. op'[w][s] = o BY <1>0, <1>4, Tables
  <1>8. TreeIsHeld(e)'
    <2>1. TreeIsHeld(e) BY DEF IInv, HoldsTheTree
    <2>2. UNCHANGED <<lock, tree, attempt>> BY <1>0 DEF guards
    <2> QED BY <1>0, <1>5, <1>6, <1>7, <2>1, <2>2
            DEF TreeIsHeld, Critical, PatchOf
  <1> QED BY <1>0, <1>1, <1>4, <1>5, <1>8, OperationMoves
          DEF Engaged, Critical

LEMMA RecordStep ==
  ASSUME IInv, NEW e \in Executors, Record(e)
  PROVE  IInv'
  <1> DEFINE w == RunsFor[e]
             s == exec[e].slice
             o == [status |-> "mutated", pre |-> op[w][s].pre, post |-> tree]
  <1>0. /\ exec[e].pc = "patching" /\ w \in Workflows /\ s \in Slices
        /\ Unpatched(e) = {} /\ tree \in Tree
        /\ Goes(e, "recorded")
        /\ UNCHANGED <<state, slice, attempt, guards, tree>>
    BY Homes, EngagedType DEF Record, IInv, Engaged, TypeOK, Tree
  <1>1. op[w][s] \in OperationType /\ op[w][s].status = "intended"
    BY <1>0, Tables DEF IInv, HoldsTheTree, TreeIsHeld
  <1>2. op' = [op EXCEPT ![w][s] = o]
    <2>1. op \in [Workflows -> [Slices -> OperationType]] BY Tables
    <2> QED BY <1>0, <1>1, <2>1 DEF Record
  <1>3. /\ o \in OperationType /\ o.status = "mutated" /\ o.post = tree
    BY <1>0, <1>1 DEF OperationType
  <1>4. WholeIn(tree, w, s)
    BY <1>0 DEF Unpatched, WholeIn, PatchOf
  <1>5. /\ exec' \in [Executors -> ExecType]
        /\ exec'[e].pc = "recorded" /\ exec'[e].slice = exec[e].slice
        /\ exec'[e].basis = exec[e].basis
    BY <1>0, GoesTo DEF Engaged
  <1> HIDE DEF o
  <1>6. op'[w][s] = o BY <1>0, <1>2, Tables
  <1>7. TreeIsHeld(e)'
    <2>1. TreeIsHeld(e) BY DEF IInv, HoldsTheTree
    <2>2. UNCHANGED <<lock, tree, attempt>> BY <1>0 DEF guards
    <2> QED BY <1>0, <1>3, <1>5, <1>6, <2>1, <2>2
            DEF TreeIsHeld, Critical, PatchOf
  <1> QED BY <1>0, <1>1, <1>2, <1>3, <1>4, <1>7, OperationMoves
          DEF Engaged, Critical

-----------------------------------------------------------------------------
(* The worktree grows.                                                     *)

LEMMA FilesDiffer ==
  ASSUME NEW w \in Workflows, NEW s \in Slices, NEW v \in Workflows,
         NEW r \in Slices, NEW file \in FilesOf(w, s), file \in FilesOf(v, r)
  PROVE  v = w /\ r = s
  BY DEF FilesOf

LEMMA UserFileIsNoPatch ==
  ASSUME NEW w \in Workflows, NEW s \in Slices
  PROVE  UserFile \notin FilesOf(w, s)
  BY DEF FilesOf, UserFile

\* A file is written for the first time.
LEMMA TreeGrows ==
  ASSUME IInv, NEW x \in Written, tree' = tree \cup {x},
         UNCHANGED <<tables, guards, exec>>,
         \A w \in Workflows : \A s \in Slices : x.file \in FilesOf(w, s) =>
           /\ slice[w][s] # "pending"
           /\ \A y \in tree : y.file \in FilesOf(w, s) => y.by = x.by,
         \A f \in Executors :
           exec[f].pc \in {"matched", "patching", "recorded"} =>
             \/ x.file = UserFile
             \/ /\ exec[f].pc # "matched"
                /\ x \in PatchOf(RunsFor[f], exec[f].slice, f)
  PROVE  IInv'
  <1>0. UNCHANGED <<state, slice, attempt, op, fence, lease, lock, exec>>
    BY DEF tables, guards
  <1>1. TablesTyped' BY <1>0 DEF IInv, TablesTyped
  <1>2. TypeOK' BY <1>0 DEF IInv, TypeOK
  <1>3. SlicesInOrder'
    <2> SUFFICES ASSUME NEW w \in Workflows, NEW s \in Slices
                 PROVE  SliceInOrder(w, s)'
      BY DEF SlicesInOrder
    <2>1. SliceInOrder(w, s) BY DEF IInv, SlicesInOrder
    <2>2. slice[w][s] = "pending" /\ Untouched(tree, w, s) =>
            Untouched(tree, w, s)'
      BY DEF Untouched
    <2> QED BY <1>0, <2>1, <2>2 DEF SliceInOrder
  <1>4. OneAuthor'
    <2> SUFFICES ASSUME NEW w \in Workflows, NEW s \in Slices
                 PROVE
         /\ Untouched(attempt'[w][s].basis, w, s)
         /\ \A y, z \in tree' :
              y.file \in FilesOf(w, s) /\ z.file \in FilesOf(w, s) =>
                y.by = z.by
      BY DEF OneAuthor, Untouched
    <2> QED BY <1>0 DEF IInv, OneAuthor
  <1>5. KnowsItsAttempt'
    BY <1>0 DEF IInv, KnowsItsAttempt, AttemptIsKnown, Untouched
  <1>6. HoldsTheTree'
    <2> SUFFICES ASSUME NEW f \in Executors PROVE TreeIsHeld(f)'
      BY DEF HoldsTheTree
    <2>1. TreeIsHeld(f) BY DEF IInv, HoldsTheTree
    <2> QED BY <1>0, <2>1 DEF TreeIsHeld, PatchOf
  <1>7. CompletedIsWhole'
    <2>1. ASSUME NEW w \in Workflows, NEW s \in Slices, WholeIn(tree, w, s)
          PROVE  WholeIn(tree', w, s)
      BY <2>1 DEF WholeIn
    <2> QED BY <1>0, <2>1 DEF IInv, CompletedIsWhole, WholeIn, PatchOf
  <1> QED BY <1>1, <1>2, <1>3, <1>4, <1>5, <1>6, <1>7 DEF IInv

\* What Patch does: it adds the next file, which no author has written yet, and
\* the worktree holds beside the patch what the agent saw and the user's file.
LEMMA PatchAdds ==
  ASSUME IInv, NEW e \in Executors, Patch(e)
  PROVE  /\ RunsFor[e] \in Workflows /\ exec[e].slice \in Slices
         /\ slice[RunsFor[e]][exec[e].slice] # "pending"
         /\ \A y \in tree : y.file \in FilesOf(RunsFor[e], exec[e].slice) =>
              y.by = e
         /\ \E i \in {1, 2} :
              /\ tree' = tree \cup
                   {[file |-> <<RunsFor[e], exec[e].slice, i>>, by |-> e]}
              /\ [file |-> <<RunsFor[e], exec[e].slice, i>>,
                  by |-> e] \notin tree
              /\ i = 2 => [file |-> <<RunsFor[e], exec[e].slice, 1>>,
                           by |-> e] \in tree
  <1> DEFINE w == RunsFor[e]
             s == exec[e].slice
             i == CHOOSE j \in Unpatched(e) : \A k \in Unpatched(e) : j <= k
             At(j) == [file |-> <<w, s, j>>, by |-> e]
  <1>1. /\ exec[e].pc = "patching" /\ w \in Workflows /\ s \in Slices
        /\ Unpatched(e) # {} /\ tree' = Write(<<w, s, i>>, e)
    BY Homes, EngagedType DEF Patch, IInv, Engaged
  <1>2. /\ i \in Unpatched(e) /\ i \in {1, 2}
        /\ i = 2 => 1 \notin Unpatched(e)
    <2>1. Unpatched(e) \subseteq {1, 2} BY DEF Unpatched
    <2>2. \E j \in Unpatched(e) : \A k \in Unpatched(e) : j <= k
      <3>1. CASE 1 \in Unpatched(e) BY <2>1, <3>1
      <3>2. CASE 1 \notin Unpatched(e)
        <4>1. Unpatched(e) = {2} BY <1>1, <2>1, <3>2
        <4> QED BY <4>1
      <3> QED BY <3>1, <3>2
    <2>3. i \in Unpatched(e) /\ \A k \in Unpatched(e) : i <= k
      BY <2>2
    <2> HIDE DEF i
    <2> QED BY <2>1, <2>3
  <1> HIDE DEF i
  <1>3. /\ slice[w][s] # "pending" /\ Untouched(exec[e].basis, w, s)
        /\ \A y \in tree : \/ y \in exec[e].basis \/ y.file = UserFile
                           \/ y \in PatchOf(w, s, e)
    BY <1>1 DEF IInv, KnowsItsAttempt, AttemptIsKnown, OneAuthor,
                HoldsTheTree, TreeIsHeld, Engaged
  <1>4. \A y \in tree : y.file \in FilesOf(w, s) => y \in PatchOf(w, s, e)
    BY <1>1, <1>3, UserFileIsNoPatch DEF Untouched
  <1>5. \A y \in tree : y.file \in FilesOf(w, s) => y.by = e
    BY <1>4 DEF PatchOf
  <1>6. At(i) \notin tree /\ (i = 2 => At(1) \in tree)
    BY <1>2 DEF Unpatched
  <1>7. \A y \in tree : y.file # <<w, s, i>>
    <2> SUFFICES ASSUME NEW y \in tree, y.file = <<w, s, i>> PROVE FALSE
      OBVIOUS
    <2>1. y.file \in FilesOf(w, s) BY <1>2 DEF FilesOf
    <2>2. y \in PatchOf(w, s, e) BY <1>4, <2>1
    <2>3. y = At(i) BY <1>2, <2>2 DEF PatchOf
    <2> QED BY <1>6, <2>3
  <1>8. tree' = tree \cup {At(i)} BY <1>1, <1>7 DEF Write
  <1> QED BY <1>1, <1>2, <1>3, <1>5, <1>6, <1>8

LEMMA PatchStep ==
  ASSUME IInv, NEW e \in Executors, Patch(e)
  PROVE  IInv'
  <1> DEFINE w == RunsFor[e]
             s == exec[e].slice
  <1>0. PICK i \in {1, 2} :
          tree' = tree \cup {[file |-> <<w, s, i>>, by |-> e]}
    BY PatchAdds
  <1> DEFINE x == [file |-> <<w, s, i>>, by |-> e]
  <1>1. /\ w \in Workflows /\ s \in Slices /\ slice[w][s] # "pending"
        /\ \A y \in tree : y.file \in FilesOf(w, s) => y.by = e
    BY PatchAdds
  <1>2. /\ exec[e].pc = "patching" /\ UNCHANGED <<tables, guards, exec>>
    BY DEF Patch
  <1>3. lock = e
    BY <1>2 DEF IInv, HoldsTheTree, TreeIsHeld, Critical
  <1>4. /\ x \in Written /\ x.file \in FilesOf(w, s) /\ x.by = e
        /\ x \in PatchOf(w, s, e)
    BY <1>1 DEF Written, Files, FilesOf, PatchOf
  <1>5. tree' = tree \cup {x} BY <1>0
  <1> HIDE DEF x
  <1>6. \A v \in Workflows : \A r \in Slices : x.file \in FilesOf(v, r) =>
          /\ slice[v][r] # "pending"
          /\ \A y \in tree : y.file \in FilesOf(v, r) => y.by = x.by
    BY <1>1, <1>4, FilesDiffer
  <1>7. \A f \in Executors :
          exec[f].pc \in {"matched", "patching", "recorded"} => f = e
    BY <1>3 DEF IInv, HoldsTheTree, TreeIsHeld, Critical
  <1> QED BY <1>2, <1>4, <1>5, <1>6, <1>7, TreeGrows

LEMMA EditStep ==
  ASSUME IInv, Edit
  PROVE  IInv'
  <1> DEFINE x == [file |-> UserFile, by |-> Nobody]
  <1>1. x \in Written /\ x.file = UserFile BY DEF Written
  <1>2. tree' = tree \cup {x} BY DEF Edit, Write
  <1> HIDE DEF x
  <1>3. UNCHANGED <<tables, guards, exec>> BY DEF Edit
  <1> QED BY <1>1, <1>2, <1>3, UserFileIsNoPatch, TreeGrows

-----------------------------------------------------------------------------
(* The invariant.                                                          *)

LEMMA InitIInv == Init => IInv
  <1> SUFFICES ASSUME Init PROVE IInv
    OBVIOUS
  <1>0. /\ \A w \in Workflows : \A s \in Slices :
             /\ slice[w][s] = "pending" /\ attempt[w][s] = NoAttempt
             /\ op[w][s] = NoOperation
        /\ \A w \in Workflows : state[w] = "ready"
        /\ \A e \in Executors : exec[e] = Off
        /\ tree = {}
    BY DEF Init
  <1>1. NoAttempt \in AttemptType /\ ~NoAttempt.live /\ NoAttempt.basis = {}
    BY DEF NoAttempt, AttemptType, Tree
  <1>2. /\ NoOperation.status = "none" /\ NoOperation.pre = NoTree
        /\ NoOperation.post = NoTree
    BY DEF NoOperation
  <1>3. TablesTyped
    BY <1>0, <1>1, NoOperationType, OffType DEF Init, TablesTyped
  <1>4. TypeOK
    <2>1. "ready" \in States BY DEF States
    <2>2. \A e \in Executors : "basis" \notin DOMAIN exec[e]
      BY <1>0 DEF Off
    <2>3. NoAttempt.token = NoToken BY DEF NoAttempt
    <2>4. /\ state \in [Workflows -> States]
          /\ slice \in [Workflows -> StatusType]
          /\ fence \in [Workflows -> Executors \cup {Nobody}]
          /\ lease = NoToken /\ lock = Nobody
      BY <2>1 DEF Init
    <2> HIDE DEF NoAttempt, NoOperation
    <2>5. ASSUME NEW w \in Workflows, NEW s \in Slices
          PROVE
       /\ attempt[w][s].live \in BOOLEAN
       /\ attempt[w][s].token \in Tokens \cup {NoToken}
       /\ attempt[w][s].basis \subseteq Written
       /\ op[w][s].status \in {"none", "intended", "mutated", "completed"}
       /\ op[w][s].pre \subseteq Written \/ op[w][s].pre = NoTree
       /\ IF op[w][s].status \in {"mutated", "completed"}
          THEN op[w][s].post \subseteq Written ELSE op[w][s].post = NoTree
      BY <1>0, <1>1, <1>2, <2>3 DEF AttemptType
    <2> QED BY <1>0, <2>2, <2>4, <2>5 DEF TypeOK
  <1>5. SlicesInOrder
    BY <1>0, <1>1 DEF SlicesInOrder, SliceInOrder, Untouched
  <1>6. OneAuthor BY <1>0, <1>1 DEF OneAuthor, Untouched
  <1>7. KnowsItsAttempt /\ HoldsTheTree
    BY <1>0, OffType DEF KnowsItsAttempt, AttemptIsKnown, HoldsTheTree,
                         TreeIsHeld, Engaged, Critical
  <1>8. CompletedIsWhole BY <1>0, <1>2 DEF CompletedIsWhole
  <1> QED BY <1>3, <1>4, <1>5, <1>6, <1>7, <1>8 DEF IInv

LEMMA LockSteps ==
  ASSUME IInv,
         \/ LeaseLapse
         \/ \E e \in Executors : FenceReclaim(e)
         \/ \E w \in Workflows : FenceLapse(w)
  PROVE  IInv'
  <1>1. /\ fence' \in [Workflows -> Executors \cup {Nobody}]
        /\ lease' \in Tokens \cup {NoToken}
    <2>0. /\ fence \in [Workflows -> Executors \cup {Nobody}]
          /\ lease \in Tokens \cup {NoToken}
      BY Tables
    <2>1. CASE LeaseLapse BY <2>0, <2>1 DEF LeaseLapse
    <2>2. ASSUME NEW e \in Executors, FenceReclaim(e)
          PROVE  /\ fence' \in [Workflows -> Executors \cup {Nobody}]
                 /\ lease' = lease
      BY <2>0, <2>2 DEF FenceReclaim
    <2>3. ASSUME NEW w \in Workflows, FenceLapse(w)
          PROVE  /\ fence' \in [Workflows -> Executors \cup {Nobody}]
                 /\ lease' = lease
      BY <2>0, <2>3 DEF FenceLapse
    <2> QED BY <2>0, <2>1, <2>2, <2>3
  <1>2. UNCHANGED <<tables, lock, tree, exec>>
    BY DEF LeaseLapse, FenceReclaim, FenceLapse
  <1> QED BY <1>1, <1>2, LocksMove

LEMMA StutterKeepsIInv ==
  ASSUME IInv, UNCHANGED vars
  PROVE  IInv'
  BY Tables, LocksMove DEF vars, tables

LEMMA NextIInv == IInv /\ [Next]_vars => IInv'
  <1> SUFFICES ASSUME IInv, [Next]_vars PROVE IInv'
    OBVIOUS
  <1>1. ASSUME NEW e \in Executors, Step(e) PROVE IInv'
    BY <1>1, TakeUpStep, ReconcileStep, EndStep, ActivateStep, ClaimStep,
       CheckStep, ReadOperationStep, AdoptStep, RecoverStep,
       RecoverUnknownStep, LockStep, IntendStep, PatchStep, RecordStep,
       CommitStep, CompleteStep
       DEF Step
  <1>2. ASSUME NEW e \in Executors, Fail(e) \/ Crash(e) PROVE IInv'
    BY <1>2, EndStep
  <1>3. ASSUME NEW w \in Workflows, Abort(w) \/ CleanUp(w) PROVE IInv'
    BY <1>3, AbortStep, CleanUpStep
  <1>4. CASE Edit BY <1>4, EditStep
  <1>5. CASE UNCHANGED vars BY <1>5, StutterKeepsIInv
  <1> QED BY <1>1, <1>2, <1>3, <1>4, <1>5, LockSteps DEF Next

\* What the slices' tables, the executors and the worktree keep, in every
\* reachable state, for any number of workflows, executors and slices.
THEOREM InvariantHolds == Spec => []IInv
  BY InitIInv, NextIInv, PTL DEF Spec

\* A workflow has at most one live attempt, and it is of its active slice.
LEMMA OneLive == IInv => OneLiveAttempt
  <1> SUFFICES ASSUME IInv, NEW w \in Workflows
               PROVE  /\ Cardinality(LiveAttempts(w)) <= 1
                      /\ \A s \in LiveAttempts(w) : slice[w][s] = "active"
    BY DEF OneLiveAttempt
  <1>1. \A s \in LiveAttempts(w) : slice[w][s] = "active"
    BY DEF LiveAttempts, IInv, SlicesInOrder, SliceInOrder
  <1>2. \A r, s \in LiveAttempts(w) : r = s
    BY <1>1 DEF LiveAttempts, IInv, SlicesInOrder, SliceInOrder
  <1>3. CASE LiveAttempts(w) = {}
    BY <1>1, <1>3, FS_EmptySet
  <1>4. CASE LiveAttempts(w) # {}
    <2>1. PICK s \in LiveAttempts(w) : TRUE BY <1>4
    <2>2. LiveAttempts(w) = {s} BY <1>2, <2>1
    <2>3. Cardinality({s}) = 1 BY FS_Singleton
    <2> QED BY <1>1, <2>2, <2>3
  <1> QED BY <1>3, <1>4

\* No crash, displacement, adoption or abort tears a patch whose slice counts as
\* completed, and the inherited attempt is always the active slice's.
THEOREM SlicesSafety == Spec => []SlicesKept
  <1>1. IInv => SlicesKept BY OneLive DEF IInv, SlicesKept
  <1> QED BY InvariantHolds, <1>1, PTL

\* An executor in Broker.applyPatch writes on the tree its agent answered for,
\* whoever held fence and lease between the dispatch and the lock.
THEOREM SlicesOnBasis == Spec => []PatchedOnBasis
  <1>1. IInv => PatchedOnBasis
    <2> SUFFICES ASSUME IInv, NEW e \in Executors, exec[e].pc = "patching",
                        NEW x \in tree
                 PROVE  \/ x \in exec[e].basis
                        \/ x.file \in {UserFile} \cup
                             {<<RunsFor[e], exec[e].slice, i>> : i \in {1, 2}}
      BY DEF PatchedOnBasis
    <2>1. \/ x \in exec[e].basis \/ x.file = UserFile
          \/ x \in PatchOf(RunsFor[e], exec[e].slice, e)
      BY DEF IInv, HoldsTheTree, TreeIsHeld
    <2> QED BY <2>1 DEF PatchOf
  <1> QED BY InvariantHolds, <1>1, PTL

-----------------------------------------------------------------------------
(* SliceExecution implements SlicePatches.                                 *)

Landed == {x \in Workflows \X Slices : WholeIn(tree, x[1], x[2])}
Done == {x \in Workflows \X Slices : slice[x[1]][x[2]] = "completed"}

\* A landed slice that does not count as completed is the active one.
LEMMA LandedIsActive ==
  ASSUME IInv, NEW w \in Workflows, NEW s \in Slices,
         <<w, s>> \in Landed, <<w, s>> \notin Done
  PROVE  slice[w][s] = "active"
  <1>1. WholeIn(tree, w, s) /\ slice[w][s] # "completed"
    BY DEF Landed, Done
  <1>2. ~Untouched(tree, w, s)
    <2>1. PICK f \in Executors : PatchOf(w, s, f) \subseteq tree
      BY <1>1 DEF WholeIn
    <2>2. [file |-> <<w, s, 1>>, by |-> f] \in tree BY <2>1 DEF PatchOf
    <2> QED BY <2>2 DEF Untouched, FilesOf
  <1> QED BY <1>1, <1>2, Tables DEF IInv, SlicesInOrder, SliceInOrder

\* A file of a patch makes at most its own slice land, when the slices it
\* depends on are complete and no other landed one waits for its completion.
LEMMA PatchLands ==
  ASSUME IInv, NEW e \in Executors, Patch(e)
  PROVE  \/ UNCHANGED <<Landed, Done>>
         \/ Promise!Land(RunsFor[e], exec[e].slice)
  <1> DEFINE w == RunsFor[e]
             s == exec[e].slice
             At(j) == [file |-> <<w, s, j>>, by |-> e]
  <1>1. /\ w \in Workflows /\ s \in Slices
        /\ \A y \in tree : y.file \in FilesOf(w, s) => y.by = e
    BY PatchAdds
  <1>2. PICK i \in {1, 2} : tree' = tree \cup {At(i)} /\ At(i) \notin tree
    BY PatchAdds
  <1>3. /\ exec[e].pc = "patching" /\ UNCHANGED <<tables, guards, exec>>
    BY DEF Patch
  <1>4. Done' = Done BY <1>3 DEF Done, tables
  <1>5. ~WholeIn(tree, w, s)
    <2> SUFFICES ASSUME NEW f \in Executors, PatchOf(w, s, f) \subseteq tree
                 PROVE  FALSE
      BY DEF WholeIn
    <2>1. [file |-> <<w, s, i>>, by |-> f] \in tree BY DEF PatchOf
    <2>2. f = e BY <1>1, <2>1 DEF FilesOf
    <2> QED BY <1>2, <2>1, <2>2
  <1>6. ASSUME NEW v \in Workflows, NEW r \in Slices, v # w \/ r # s
        PROVE  WholeIn(tree', v, r) <=> WholeIn(tree, v, r)
    <2>1. \A f \in Executors : At(i) \notin PatchOf(v, r, f)
      BY <1>6 DEF PatchOf
    <2>2. \A f \in Executors :
            PatchOf(v, r, f) \subseteq tree' <=> PatchOf(v, r, f) \subseteq tree
      BY <1>2, <2>1
    <2> QED BY <2>2 DEF WholeIn
  <1>7. CASE WholeIn(tree', w, s)
    <2>1. Landed' = Landed \cup {<<w, s>>}
      <3>1. Landed' = {x \in Workflows \X Slices : WholeIn(tree', x[1], x[2])}
        BY DEF Landed, WholeIn, PatchOf
      <3>2. \A x \in Workflows \X Slices :
              WholeIn(tree', x[1], x[2]) <=>
                WholeIn(tree, x[1], x[2]) \/ x = <<w, s>>
        BY <1>1, <1>6, <1>7
      <3> QED BY <1>1, <3>1, <3>2 DEF Landed
    <2>2. <<w, s>> \notin Landed BY <1>5 DEF Landed
    <2>3. op[w][s].status = "intended" /\ slice[w][s] # "pending"
      BY <1>3 DEF IInv, HoldsTheTree, TreeIsHeld, KnowsItsAttempt,
                  AttemptIsKnown, Engaged
    <2>4. slice[w][s] = "active"
      <3>1. slice[w][s] # "completed"
        BY <1>1, <2>3 DEF IInv, CompletedIsWhole
      <3> QED BY <1>1, <2>3, <3>1, Tables
    <2>5. \A d \in Depends[s] : <<w, d>> \in Done
      <3>1. \A d \in Depends[s] : slice[w][d] = "completed"
        BY <1>1, <2>3 DEF IInv, SlicesInOrder, SliceInOrder
      <3>2. Depends[s] \subseteq Slices BY <1>1, SliceAssumption
      <3> QED BY <1>1, <3>1, <3>2 DEF Done
    <2>6. ASSUME NEW r \in Slices, <<w, r>> \in Landed
          PROVE  <<w, r>> \in Done
      <3> SUFFICES ASSUME <<w, r>> \notin Done PROVE FALSE
        OBVIOUS
      <3>1. slice[w][r] = "active" BY <1>1, <2>6, LandedIsActive
      <3>2. r = s
        BY <1>1, <2>4, <3>1 DEF IInv, SlicesInOrder, SliceInOrder
      <3> QED BY <2>2, <2>6, <3>2
    <2> QED BY <1>4, <2>1, <2>2, <2>5, <2>6 DEF Promise!Land, Landed, Done
  <1>8. CASE ~WholeIn(tree', w, s)
    <2>1. Landed' = {x \in Workflows \X Slices : WholeIn(tree', x[1], x[2])}
      BY DEF Landed, WholeIn, PatchOf
    <2>2. \A x \in Workflows \X Slices :
            WholeIn(tree', x[1], x[2]) <=> WholeIn(tree, x[1], x[2])
      BY <1>1, <1>5, <1>6, <1>8
    <2>3. Landed' = Landed BY <2>1, <2>2 DEF Landed
    <2> QED BY <1>4, <2>3
  <1> QED BY <1>7, <1>8

\* The user's file belongs to no patch.
LEMMA EditLandsNothing ==
  ASSUME Edit
  PROVE  UNCHANGED <<Landed, Done>>
  <1> DEFINE x == [file |-> UserFile, by |-> Nobody]
  <1>1. tree' = tree \cup {x} /\ UNCHANGED slice
    BY DEF Edit, Write, tables
  <1>2. ASSUME NEW v \in Workflows, NEW r \in Slices
        PROVE  WholeIn(tree', v, r) <=> WholeIn(tree, v, r)
    <2>1. \A f \in Executors : x \notin PatchOf(v, r, f)
      BY DEF PatchOf, UserFile
    <2>2. \A f \in Executors :
            PatchOf(v, r, f) \subseteq tree' <=> PatchOf(v, r, f) \subseteq tree
      BY <1>1, <2>1
    <2> QED BY <2>2 DEF WholeIn
  <1>3. Landed' = {y \in Workflows \X Slices : WholeIn(tree', y[1], y[2])}
    BY DEF Landed, WholeIn, PatchOf
  <1>4. Landed' = Landed BY <1>2, <1>3 DEF Landed
  <1> QED BY <1>1, <1>4 DEF Done

\* The worktree stays, and one active slice whose mutation is recorded becomes
\* completed.
LEMMA SliceIsDone ==
  ASSUME IInv, NEW w \in Workflows, NEW s \in Slices, UNCHANGED tree,
         slice[w][s] = "active", op[w][s].status \in {"mutated", "completed"},
         slice'[w][s] = "completed",
         \A v \in Workflows : \A r \in Slices : v # w \/ r # s =>
           slice'[v][r] = slice[v][r]
  PROVE  Promise!Complete(w, s)
  <1>1. Landed' = Landed BY DEF Landed, WholeIn, PatchOf
  <1>2. <<w, s>> \in Landed \ Done
    BY DEF IInv, CompletedIsWhole, Landed, Done
  <1>3. Done' = Done \cup {<<w, s>>}
    <2>1. \A x \in Workflows \X Slices :
            slice'[x[1]][x[2]] = "completed" <=>
              slice[x[1]][x[2]] = "completed" \/ x = <<w, s>>
      OBVIOUS
    <2> QED BY <2>1 DEF Done
  <1> QED BY <1>1, <1>2, <1>3 DEF Promise!Complete, Landed, Done

\* The steps that complete slices: Complete, Adopt and Reconcile.
LEMMA CompletionIsDone ==
  ASSUME IInv, NEW e \in Executors, Complete(e) \/ Adopt(e) \/ Reconcile(e)
  PROVE  \/ UNCHANGED <<Landed, Done>>
         \/ \E s \in Slices : Promise!Complete(RunsFor[e], s)
  <1> DEFINE w == RunsFor[e]
             s == exec[e].slice
             status == [slice[w] EXCEPT ![s] = "completed"]
  <1>0. w \in Workflows /\ UNCHANGED tree
    BY Homes DEF Complete, Adopt, Reconcile
  <1>1. UNCHANGED slice => UNCHANGED <<Landed, Done>>
    BY <1>0 DEF Landed, Done, WholeIn, PatchOf
  <1>2. ASSUME Complete(e) \/ Adopt(e), ~UNCHANGED slice
        PROVE  \E r \in Slices : Promise!Complete(w, r)
    <2>1. exec[e].pc \in {"applied", "adopting"} /\ s \in Slices
      BY <1>2, EngagedType DEF Complete, Adopt, IInv, Engaged
    <2>2. /\ slice[w][s] = "active" /\ CompletedIn(w, status)
          /\ exec[e].pc = "adopting" =>
               op[w][s].status \in {"mutated", "completed"}
      BY <1>2 DEF Complete, Adopt, tables
    <2>3. op[w][s].status \in {"mutated", "completed"}
      BY <2>1, <2>2 DEF IInv, HoldsTheTree, TreeIsHeld
    <2>4. status \in StatusType
      BY <1>0, Tables
    <2>5. /\ slice'[w] = status
          /\ \A v \in Workflows : v # w => slice'[v] = slice[v]
      BY <1>0, <2>2, <2>4, CompletionState
    <2>6. /\ slice'[w][s] = "completed"
          /\ \A v \in Workflows : \A r \in Slices : v # w \/ r # s =>
               slice'[v][r] = slice[v][r]
      BY <1>0, <2>1, <2>5, Tables
    <2>7. PICK r \in Slices : r = s BY <2>1
    <2> HIDE DEF w, s, status
    <2>8. Promise!Complete(w, r)
      BY <1>0, <2>2, <2>3, <2>6, <2>7, SliceIsDone
    <2> QED BY <2>8
  <1>3. ASSUME Reconcile(e), ~UNCHANGED slice
        PROVE  \E r \in Slices : Promise!Complete(w, r)
    <2> DEFINE after == [r \in Slices |->
                  IF r \in Adoptable(w) THEN "completed" ELSE slice[w][r]]
    <2>1. CompletedIn(w, after) BY <1>3 DEF Reconcile
    <2>2. after \in StatusType
      BY <1>0, Tables
    <2>3. /\ slice' \in [Workflows -> StatusType]
          /\ slice'[w] = after
          /\ \A v \in Workflows : v # w => slice'[v] = slice[v]
      BY <1>0, <2>1, <2>2, CompletionState
    <2>4. Adoptable(w) # {}
      <3> SUFFICES ASSUME Adoptable(w) = {} PROVE slice' = slice
        BY <1>3
      <3>1. after = slice[w] BY <1>0, Tables
      <3> QED BY <1>0, <2>3, <3>1, Tables
    <2>5. PICK r \in Adoptable(w) : TRUE BY <2>4
    <2>6. /\ r \in Slices /\ slice[w][r] = "active"
          /\ op[w][r].status = "completed"
      BY DEF Adoptable
    <2>7. \A q \in Adoptable(w) : q = r
      BY <1>0, <2>6 DEF Adoptable, IInv, SlicesInOrder, SliceInOrder
    <2>8. /\ slice'[w][r] = "completed"
          /\ \A v \in Workflows : \A q \in Slices : v # w \/ q # r =>
               slice'[v][q] = slice[v][q]
      BY <1>0, <2>3, <2>6, <2>7
    <2> HIDE DEF w, after
    <2>9. Promise!Complete(w, r) BY <1>0, <2>6, <2>8, SliceIsDone
    <2> QED BY <2>6, <2>9
  <1> QED BY <1>1, <1>2, <1>3

\* No slice counts as completed that was pending.
LEMMA ActivationIsSilent ==
  ASSUME IInv, NEW e \in Executors, Activate(e)
  PROVE  UNCHANGED <<Landed, Done>>
  <1> DEFINE w == RunsFor[e]
             s == exec[e].slice
  <1>1. /\ slice' = [slice EXCEPT ![w][s] = "active"] /\ UNCHANGED tree
        /\ IsNext(w, s)
    BY DEF Activate
  <1>2. slice[w][s] = "pending" BY <1>1 DEF IsNext, ReadySlices
  <1>3. \A x \in Workflows \X Slices :
          slice'[x[1]][x[2]] = "completed" <=> slice[x[1]][x[2]] = "completed"
    BY <1>1, <1>2, Tables
  <1> QED BY <1>1, <1>3 DEF Landed, Done, WholeIn, PatchOf

LEMMA StepKeepsPromise ==
  IInv /\ [Next]_vars => [Promise!Next]_<<Landed, Done>>
  <1> SUFFICES ASSUME IInv, [Next]_vars, ~UNCHANGED <<Landed, Done>>
               PROVE  Promise!Next
    OBVIOUS
  <1>0. ~UNCHANGED <<slice, tree>>
    BY DEF Landed, Done, WholeIn, PatchOf
  <1>1. ASSUME NEW e \in Executors, Step(e) PROVE Promise!Next
    <2>1. CASE Patch(e)
      BY <2>1, PatchLands, PatchAdds DEF Promise!Next
    <2>2. CASE Complete(e) \/ Adopt(e) \/ Reconcile(e)
      BY <2>2, CompletionIsDone, Homes DEF Promise!Next
    <2>3. CASE Activate(e)
      BY <2>3, ActivationIsSilent
    <2>4. CASE ~(\/ Patch(e) \/ Complete(e) \/ Adopt(e) \/ Reconcile(e)
                 \/ Activate(e))
      <3>1. UNCHANGED <<slice, tree>>
        BY <1>1, <2>4
           DEF Step, Enter, Inherit, Choose, Finish, TakeLease, FreezeBasis,
               Claim, ValidateToResume, ReadOperation, RecoverPost, RecoverPre,
               RecoverUnknown, Dispatch, Answer, ValidateToApply, CheckResult,
               CheckLease, Lock, FreezeLocked, Intend, Record, Commit, Release,
               tables
      <3> QED BY <1>0, <3>1
    <2> QED BY <2>1, <2>2, <2>3, <2>4
  <1>2. CASE Edit BY <1>2, EditLandsNothing
  <1>3. ASSUME NEW e \in Executors, Fail(e) \/ Crash(e) \/ FenceReclaim(e)
        PROVE  UNCHANGED <<slice, tree>>
    BY <1>3 DEF Fail, Crash, FenceReclaim, tables
  <1>4. ASSUME NEW w \in Workflows, FenceLapse(w) \/ Abort(w) \/ CleanUp(w)
        PROVE  UNCHANGED <<slice, tree>>
    BY <1>4 DEF FenceLapse, Abort, CleanUp, tables
  <1>5. CASE LeaseLapse \/ UNCHANGED vars
    BY <1>0, <1>5 DEF LeaseLapse, tables, vars
  <1> QED BY <1>0, <1>1, <1>2, <1>3, <1>4, <1>5 DEF Next

\* Whatever crashes, expires or is aborted, and however many executors take each
\* other's place, the worktree and the slices table do what SlicePatches says: a
\* patch lands as a whole, once, in the order of the dependencies and beside no
\* other of its workflow, and only a landed slice becomes completed.
THEOREM KeepsThePromise == Spec => KeepsPromise
  <1>1. Init => Promise!Init
    <2> SUFFICES ASSUME Init PROVE Landed = {} /\ Done = {}
      BY DEF Promise!Init, Landed, Done
    <2>1. \A x \in Workflows \X Slices : slice[x[1]][x[2]] = "pending"
      BY DEF Init
    <2>2. \A x \in Workflows \X Slices : ~WholeIn(tree, x[1], x[2])
      BY DEF Init, WholeIn, PatchOf
    <2> QED BY <2>1, <2>2 DEF Landed, Done
  <1> QED BY <1>1, InvariantHolds, StepKeepsPromise, PTL
          DEF Spec, KeepsPromise, Promise!Spec, Landed, Done

HIDE DEF StatusType

-----------------------------------------------------------------------------
(* The servers                                                             *)

\* Where Start has not yet come to create the process.
Unlaunched == {"idle", "called"} \cup Launching

\* What Stop could not end.
Survivors == {"reap", "group"}

\* Which process a server has at each point of its Start and its state.
LaunchIsKnown(s) ==
  /\ start[s] \in Unlaunched => leader[s] = "none"
  /\ start[s] \in Unlaunched =>
       ("auth" \in held[s] <=> start[s] = "launch")
  /\ phase[s] = "new" => leader[s] = "none"
  /\ phase[s] = "starting" /\ start[s] \notin Launching => leader[s] # "none"
  /\ phase[s] \in {"running", "stopping"} => leader[s] # "none"
  /\ leader[s] = "none" => ~group[s] /\ credential[s] # "changed"

\* How far Stop has come, and that a process is ended before its lease is.
StopIsKnown(s) ==
  /\ stop[s] \in Stopping <=> phase[s] = "stopping"
  /\ stop[s] = "done" => phase[s] = "stopped"
  /\ phase[s] = "stopped" /\ stop[s] = "none" => leader[s] = "none"
  /\ stop[s] \in {"gone", "release", "clean", "done"} =>
       leader[s] \in {"none", "reaped"} \/ "reap" \in errors[s]
  /\ stop[s] \in {"release", "clean", "done"} =>
       ~LiveProcess(s) \/ errors[s] \cap Survivors # {}

\* What a server holds while it has a process, and what Stop has given back.
LeaseIsKnown(s) ==
  /\ leader[s] # "none" /\ stop[s] \notin {"clean", "done"} =>
       "auth" \in held[s]
  /\ stop[s] \in {"release", "clean", "done"} => "log" \notin held[s]
  /\ stop[s] \in {"clean", "done"} => "auth" \notin held[s]
  /\ stop[s] = "done" => held[s] = {} /\ credential[s] = "none"
  /\ stop[s] = "clean" /\ credential[s] = "changed" =>
       \/ session.tainted /\ "credential" \in errors[s]
       \/ errors[s] \cap Survivors # {}

ServerOK(s) ==
  Named(s) /\ LaunchIsKnown(s) /\ StopIsKnown(s) /\ LeaseIsKnown(s)

ServersOK == \A s \in Servers : ServerOK(s)

ServersInv == Typed /\ ServersOK

-----------------------------------------------------------------------------
\* What a step of server s leaves the others: all they have, and the taint.
Others(s) ==
  /\ \A t \in Servers \ {s} :
       /\ phase'[t] = phase[t] /\ start'[t] = start[t] /\ stop'[t] = stop[t]
       /\ leader'[t] = leader[t] /\ group'[t] = group[t]
       /\ held'[t] = held[t] /\ credential'[t] = credential[t]
       /\ errors'[t] = errors[t]
       /\ session'.holder = t <=> session.holder = t
  /\ session.tainted => session'.tainted

\* A step of one server keeps the invariant when it keeps that server's part.
LEMMA OneServerMoves ==
  ASSUME ServersInv, NEW s \in Servers, Others(s), Typed', ServerOK(s)'
  PROVE  ServersInv'
<1> SUFFICES ASSUME NEW t \in Servers PROVE ServerOK(t)'
  BY DEF ServersInv, ServersOK
<1>1. CASE t = s
  BY <1>1
<1>2. CASE t # s
  <2>1. /\ phase'[t] = phase[t] /\ start'[t] = start[t] /\ stop'[t] = stop[t]
        /\ leader'[t] = leader[t] /\ group'[t] = group[t]
        /\ held'[t] = held[t] /\ credential'[t] = credential[t]
        /\ errors'[t] = errors[t]
        /\ session'.holder = t <=> session.holder = t
        /\ session.tainted => session'.tainted
    BY <1>2 DEF Others
  <2>2. ServerOK(t)
    BY DEF ServersInv, ServersOK
  <2> QED
    BY <2>1, <2>2
    DEF ServerOK, Named, LaunchIsKnown, StopIsKnown, LeaseIsKnown, LiveProcess
<1> QED
  BY <1>1, <1>2

\* Start, step by step.
LEMMA CallStartKeepsServersInv ==
  ASSUME ServersInv, NEW s \in Servers, CallStart(s)
  PROVE  ServersInv'
<1>1. Typed'
  BY DEF ServersInv, Typed, Phases, StartSteps, StopSteps, Launching, CallStart,
         Processes
<1>2. Others(s)
  BY DEF ServersInv, Typed, Others, CallStart, Processes
<1>3. ServerOK(s)'
  BY DEF ServersInv, Typed, ServersOK, ServerOK, Named, LaunchIsKnown,
         StopIsKnown, LeaseIsKnown, Launching, Stopping, StopSteps, Unlaunched,
         Survivors, LiveProcess, CallStart, Processes
<1> QED
  BY <1>1, <1>2, <1>3, OneServerMoves

LEMMA BeginLaunchKeepsServersInv ==
  ASSUME ServersInv, NEW s \in Servers, BeginLaunch(s)
  PROVE  ServersInv'
<1>1. Typed'
  BY DEF ServersInv, Typed, Phases, StartSteps, StopSteps, Launching,
         BeginLaunch, launchMuFree, Processes
<1>2. Others(s)
  BY DEF ServersInv, Typed, Others, BeginLaunch, launchMuFree, Processes
<1>3. ServerOK(s)'
  BY DEF ServersInv, Typed, ServersOK, ServerOK, Named, LaunchIsKnown,
         StopIsKnown, LeaseIsKnown, Launching, Stopping, StopSteps, Unlaunched,
         Survivors, LiveProcess, BeginLaunch, launchMuFree, Processes
<1> QED
  BY <1>1, <1>2, <1>3, OneServerMoves

\* A launch that fails has no process yet.
LEMMA LaunchFailsKeepsServersInv ==
  ASSUME ServersInv, NEW s \in Servers, LaunchFails(s),
         start[s] \in {"prepare", "build", "stage"}
  PROVE  ServersInv'
<1>1. Typed'
  BY DEF ServersInv, Typed, Phases, StartSteps, StopSteps, Launching,
         LaunchFails, Processes
<1>2. Others(s)
  BY DEF ServersInv, Typed, Others, LaunchFails, Processes
<1>3. ServerOK(s)'
  BY DEF ServersInv, Typed, ServersOK, ServerOK, Named, LaunchIsKnown,
         StopIsKnown, LeaseIsKnown, Launching, Stopping, StopSteps, Unlaunched,
         Survivors, LiveProcess, LaunchFails, Processes
<1> QED
  BY <1>1, <1>2, <1>3, OneServerMoves

LEMMA PrepareKeepsServersInv ==
  ASSUME ServersInv, NEW s \in Servers, Prepare(s)
  PROVE  ServersInv'
<1>1. CASE LaunchFails(s)
  BY <1>1, LaunchFailsKeepsServersInv DEF Prepare
<1>2. CASE ~LaunchFails(s)
  <2>1. Typed'
    BY <1>2
    DEF ServersInv, Typed, Phases, StartSteps, StopSteps, Launching, Prepare,
        verifyControlledPluginBoundary, Processes
  <2>2. Others(s)
    BY <1>2
    DEF ServersInv, Typed, Others, Prepare, verifyControlledPluginBoundary,
        Processes
  <2>3. ServerOK(s)'
    BY <1>2
    DEF ServersInv, Typed, ServersOK, ServerOK, Named, LaunchIsKnown,
        StopIsKnown, LeaseIsKnown, Launching, Stopping, StopSteps, Unlaunched,
        Survivors, LiveProcess, Prepare, verifyControlledPluginBoundary,
        Processes
  <2> QED
    BY <2>1, <2>2, <2>3, OneServerMoves
<1> QED
  BY <1>1, <1>2

LEMMA BuildEnvironmentKeepsServersInv ==
  ASSUME ServersInv, NEW s \in Servers, BuildEnvironment(s)
  PROVE  ServersInv'
<1>1. CASE LaunchFails(s)
  BY <1>1, LaunchFailsKeepsServersInv DEF BuildEnvironment
<1>2. CASE ~LaunchFails(s)
  <2>1. Typed'
    BY <1>2
    DEF ServersInv, Typed, Phases, StartSteps, StopSteps, Launching,
        BuildEnvironment, Processes
  <2>2. Others(s)
    BY <1>2 DEF ServersInv, Typed, Others, BuildEnvironment, Processes
  <2>3. ServerOK(s)'
    BY <1>2
    DEF ServersInv, Typed, ServersOK, ServerOK, Named, LaunchIsKnown,
        StopIsKnown, LeaseIsKnown, Launching, Stopping, StopSteps, Unlaunched,
        Survivors, LiveProcess, BuildEnvironment, Processes
  <2> QED
    BY <2>1, <2>2, <2>3, OneServerMoves
<1> QED
  BY <1>1, <1>2

LEMMA StageKeepsServersInv ==
  ASSUME ServersInv, NEW s \in Servers, Stage(s)
  PROVE  ServersInv'
<1>1. CASE LaunchFails(s)
  BY <1>1, LaunchFailsKeepsServersInv DEF Stage
<1>2. CASE ~LaunchFails(s)
  <2>1. Typed'
    BY <1>2
    DEF ServersInv, Typed, Phases, StartSteps, StopSteps, Launching, Stage,
        sessionFree, Processes
  <2>2. Others(s)
    BY ServersAssumption, <1>2
    DEF ServersInv, Typed, ServersOK, ServerOK, Named, Others, Stage,
        sessionFree, Processes
  <2>3. ServerOK(s)'
    BY ServersAssumption, <1>2
    DEF ServersInv, Typed, ServersOK, ServerOK, Named, LaunchIsKnown,
        StopIsKnown, LeaseIsKnown, Launching, Stopping, StopSteps, Unlaunched,
        Survivors, LiveProcess, Stage, sessionFree, Processes
  <2> QED
    BY <2>1, <2>2, <2>3, OneServerMoves
<1> QED
  BY <1>1, <1>2

LEMMA LaunchKeepsServersInv ==
  ASSUME ServersInv, NEW s \in Servers, Launch(s)
  PROVE  ServersInv'
<1>1. Typed'
  BY ZenonT(60) DEF ServersInv, Typed, Phases, StartSteps, StopSteps, Launching,
         Launch, verifyControlledPluginBoundary
<1>2. Others(s)
  BY DEF ServersInv, Typed, Others, Launch, verifyControlledPluginBoundary
<1>3. ServerOK(s)'
  BY DEF ServersInv, Typed, ServersOK, ServerOK, Named, LaunchIsKnown,
         StopIsKnown, LeaseIsKnown, Launching, Stopping, StopSteps, Unlaunched,
         Survivors, LiveProcess, Launch, verifyControlledPluginBoundary
<1> QED
  BY <1>1, <1>2, <1>3, OneServerMoves

LEMMA HealthAnswersKeepsServersInv ==
  ASSUME ServersInv, NEW s \in Servers, HealthAnswers(s)
  PROVE  ServersInv'
<1>1. Typed'
  BY DEF ServersInv, Typed, Phases, StartSteps, StopSteps, Launching,
         HealthAnswers, Processes
<1>2. Others(s)
  BY DEF ServersInv, Typed, Others, HealthAnswers, Processes
<1>3. ServerOK(s)'
  BY DEF ServersInv, Typed, ServersOK, ServerOK, Named, LaunchIsKnown,
         StopIsKnown, LeaseIsKnown, Launching, Stopping, StopSteps, Unlaunched,
         Survivors, LiveProcess, HealthAnswers, Processes
<1> QED
  BY <1>1, <1>2, <1>3, OneServerMoves

\* Start gives up after the launch.
LEMMA StartStopsKeepsServersInv ==
  ASSUME ServersInv, NEW s \in Servers, StartStops(s),
         start[s] \in {"health", "healthy"}
  PROVE  ServersInv'
<1>1. Typed'
  BY DEF ServersInv, Typed, Phases, StartSteps, StopSteps, Launching,
         StartStops, Processes
<1>2. Others(s)
  BY DEF ServersInv, Typed, Others, StartStops, Processes
<1>3. ServerOK(s)'
  BY DEF ServersInv, Typed, ServersOK, ServerOK, Named, LaunchIsKnown,
         StopIsKnown, LeaseIsKnown, Launching, Stopping, StopSteps, Unlaunched,
         Survivors, LiveProcess, StartStops, Processes
<1> QED
  BY <1>1, <1>2, <1>3, OneServerMoves

LEMMA HealthEndsKeepsServersInv ==
  ASSUME ServersInv, NEW s \in Servers, HealthEnds(s)
  PROVE  ServersInv'
  BY StartStopsKeepsServersInv DEF HealthEnds

LEMMA PublishKeepsServersInv ==
  ASSUME ServersInv, NEW s \in Servers, Publish(s)
  PROVE  ServersInv'
<1>1. CASE drifted
  BY <1>1, StartStopsKeepsServersInv
  DEF Publish, verifyControlledPluginBoundary
<1>2. CASE ~drifted
  <2>1. Typed'
    BY <1>2
    DEF ServersInv, Typed, Phases, StartSteps, StopSteps, Launching, Publish,
        verifyControlledPluginBoundary, Processes
  <2>2. Others(s)
    BY <1>2
    DEF ServersInv, Typed, Others, Publish, verifyControlledPluginBoundary,
        Processes
  <2>3. ServerOK(s)'
    BY <1>2
    DEF ServersInv, Typed, ServersOK, ServerOK, Named, LaunchIsKnown,
        StopIsKnown, LeaseIsKnown, Launching, Stopping, StopSteps, Unlaunched,
        Survivors, LiveProcess, Publish, verifyControlledPluginBoundary,
        Processes
  <2> QED
    BY <2>1, <2>2, <2>3, OneServerMoves
<1> QED
  BY <1>1, <1>2

LEMMA StartReturnsKeepsServersInv ==
  ASSUME ServersInv, NEW s \in Servers, StartReturns(s)
  PROVE  ServersInv'
<1>1. Typed'
  BY DEF ServersInv, Typed, Phases, StartSteps, StopSteps, Launching,
         StartReturns, Processes
<1>2. Others(s)
  BY DEF ServersInv, Typed, Others, StartReturns, Processes
<1>3. ServerOK(s)'
  BY DEF ServersInv, Typed, ServersOK, ServerOK, Named, LaunchIsKnown,
         StopIsKnown, LeaseIsKnown, Launching, Stopping, StopSteps, Unlaunched,
         Survivors, LiveProcess, StartReturns, Processes
<1> QED
  BY <1>1, <1>2, <1>3, OneServerMoves

\* The goroutines and the owner.
LEMMA WaitForProcessKeepsServersInv ==
  ASSUME ServersInv, NEW s \in Servers, WaitForProcess(s)
  PROVE  ServersInv'
<1>1. Typed'
  BY DEF ServersInv, Typed, Phases, StartSteps, StopSteps, Launching,
         WaitForProcess
<1>2. Others(s)
  BY DEF ServersInv, Typed, Others, WaitForProcess
<1>3. ServerOK(s)'
  BY DEF ServersInv, Typed, ServersOK, ServerOK, Named, LaunchIsKnown,
         StopIsKnown, LeaseIsKnown, Launching, Stopping, StopSteps, Unlaunched,
         Survivors, LiveProcess, WaitForProcess
<1> QED
  BY <1>1, <1>2, <1>3, OneServerMoves

LEMMA StopWhenContextEndsKeepsServersInv ==
  ASSUME ServersInv, NEW s \in Servers, StopWhenContextEnds(s)
  PROVE  ServersInv'
<1>1. Typed'
  BY DEF ServersInv, Typed, Phases, StartSteps, StopSteps, Launching,
         StopWhenContextEnds, Processes
<1>2. Others(s)
  BY DEF ServersInv, Typed, Others, StopWhenContextEnds, Processes
<1>3. ServerOK(s)'
  BY DEF ServersInv, Typed, ServersOK, ServerOK, Named, LaunchIsKnown,
         StopIsKnown, LeaseIsKnown, Launching, Stopping, StopSteps, Unlaunched,
         Survivors, LiveProcess, StopWhenContextEnds, Processes
<1> QED
  BY <1>1, <1>2, <1>3, OneServerMoves

LEMMA OwnerStopsKeepsServersInv ==
  ASSUME ServersInv, NEW s \in Servers, OwnerStops(s)
  PROVE  ServersInv'
<1>1. Typed'
  BY DEF ServersInv, Typed, Phases, StartSteps, StopSteps, Launching,
         OwnerStops, Processes
<1>2. Others(s)
  BY DEF ServersInv, Typed, Others, OwnerStops, Processes
<1>3. ServerOK(s)'
  BY DEF ServersInv, Typed, ServersOK, ServerOK, Named, LaunchIsKnown,
         StopIsKnown, LeaseIsKnown, Launching, Stopping, StopSteps, Unlaunched,
         Survivors, LiveProcess, OwnerStops, Processes
<1> QED
  BY <1>1, <1>2, <1>3, OneServerMoves

\* Stop, step by step.
LEMMA StopUnlaunchedKeepsServersInv ==
  ASSUME ServersInv, NEW s \in Servers, StopUnlaunched(s)
  PROVE  ServersInv'
<1>1. Typed'
  BY DEF ServersInv, Typed, Phases, StartSteps, StopSteps, Launching,
         StopUnlaunched, launchMuFree, Released, Processes
<1>2. Others(s)
  BY ServersAssumption
  DEF ServersInv, Typed, ServersOK, ServerOK, Named, Others, StopUnlaunched,
      launchMuFree, Released, Processes
<1>3. ServerOK(s)'
  BY ServersAssumption
  DEF ServersInv, Typed, ServersOK, ServerOK, Named, LaunchIsKnown, StopIsKnown,
      LeaseIsKnown, Launching, Stopping, StopSteps, Unlaunched, Survivors,
      LiveProcess, StopUnlaunched, launchMuFree, Released, Processes
<1> QED
  BY <1>1, <1>2, <1>3, OneServerMoves

LEMMA BeginStopKeepsServersInv ==
  ASSUME ServersInv, NEW s \in Servers, BeginStop(s)
  PROVE  ServersInv'
<1>1. Typed'
  BY DEF ServersInv, Typed, Phases, StartSteps, StopSteps, Launching, BeginStop,
         launchMuFree, Processes
<1>2. Others(s)
  BY DEF ServersInv, Typed, Others, BeginStop, launchMuFree, Processes
<1>3. ServerOK(s)'
  BY DEF ServersInv, Typed, ServersOK, ServerOK, Named, LaunchIsKnown,
         StopIsKnown, LeaseIsKnown, Launching, Stopping, StopSteps, Unlaunched,
         Survivors, LiveProcess, BeginStop, launchMuFree, Processes
<1> QED
  BY <1>1, <1>2, <1>3, OneServerMoves

LEMMA KillKeepsServersInv ==
  ASSUME ServersInv, NEW s \in Servers, Kill(s)
  PROVE  ServersInv'
<1>1. Typed'
  BY DEF ServersInv, Typed, Phases, StartSteps, StopSteps, Launching, Kill,
         processGroupAlive
<1>2. Others(s)
  BY DEF ServersInv, Typed, Others, Kill, processGroupAlive
<1>3. ServerOK(s)'
  BY DEF ServersInv, Typed, ServersOK, ServerOK, Named, LaunchIsKnown,
         StopIsKnown, LeaseIsKnown, Launching, Stopping, StopSteps, Unlaunched,
         Survivors, LiveProcess, Kill, processGroupAlive
<1> QED
  BY <1>1, <1>2, <1>3, OneServerMoves

LEMMA AwaitReapAgainKeepsServersInv ==
  ASSUME ServersInv, NEW s \in Servers, AwaitReapAgain(s)
  PROVE  ServersInv'
<1>1. Typed'
  BY DEF ServersInv, Typed, Phases, StartSteps, StopSteps, Launching,
         AwaitReapAgain, Processes
<1>2. Others(s)
  BY DEF ServersInv, Typed, Others, AwaitReapAgain, Processes
<1>3. ServerOK(s)'
  BY DEF ServersInv, Typed, ServersOK, ServerOK, Named, LaunchIsKnown,
         StopIsKnown, LeaseIsKnown, Launching, Stopping, StopSteps, Unlaunched,
         Survivors, LiveProcess, AwaitReapAgain, Processes
<1> QED
  BY <1>1, <1>2, <1>3, OneServerMoves

LEMMA AwaitGroupKeepsServersInv ==
  ASSUME ServersInv, NEW s \in Servers, AwaitGroup(s)
  PROVE  ServersInv'
<1>1. Typed'
  BY DEF ServersInv, Typed, Phases, StartSteps, StopSteps, Launching,
         AwaitGroup, processGroupAlive, Processes
<1>2. Others(s)
  BY DEF ServersInv, Typed, Others, AwaitGroup, processGroupAlive, Processes
<1>3. ServerOK(s)'
  BY DEF ServersInv, Typed, ServersOK, ServerOK, Named, LaunchIsKnown,
         StopIsKnown, LeaseIsKnown, Launching, Stopping, StopSteps, Unlaunched,
         Survivors, LiveProcess, AwaitGroup, processGroupAlive, Processes
<1> QED
  BY <1>1, <1>2, <1>3, OneServerMoves

LEMMA ReleaseKeepsServersInv ==
  ASSUME ServersInv, NEW s \in Servers, ReleaseLease(s)
  PROVE  ServersInv'
<1>1. Typed'
  BY DEF ServersInv, Typed, Phases, StartSteps, StopSteps, Launching,
         ReleaseLease, Released, LoadsExactly, Processes
<1>2. Others(s)
  BY ServersAssumption
  DEF ServersInv, Typed, ServersOK, ServerOK, Named, Others, ReleaseLease,
      Released, LoadsExactly, Processes
<1>3. Named(s)'
  BY ServersAssumption
  DEF ServersInv, Typed, ServersOK, ServerOK, Named, LaunchIsKnown, StopIsKnown,
      Launching, Stopping, StopSteps, ReleaseLease, Released, LoadsExactly,
      Processes
<1>4. LaunchIsKnown(s)'
  BY DEF ServersInv, Typed, ServersOK, ServerOK, Named, LaunchIsKnown,
         StopIsKnown, Launching, Stopping, StopSteps, LiveProcess,
         ReleaseLease, Released, LoadsExactly, Processes, Unlaunched
<1>5. StopIsKnown(s)'
  BY DEF ServersInv, Typed, ServersOK, ServerOK, Named, LaunchIsKnown,
         StopIsKnown, Launching, Stopping, StopSteps, Survivors, LiveProcess,
         ReleaseLease, Released, LoadsExactly, Processes
<1>6. LeaseIsKnown(s)'
  <2>1. "auth" \in held[s] /\ "log" \notin held[s]
    BY DEF ServersInv, ServersOK, ServerOK, LaunchIsKnown, StopIsKnown,
           LeaseIsKnown, ReleaseLease, Stopping, StopSteps
  <2>2. /\ stop'[s] = "clean" /\ held'[s] = held[s] \ {"auth"}
        /\ credential'[s] = credential[s]
    BY DEF ServersInv, Typed, ReleaseLease
  <2>3. credential[s] = "changed" =>
          session'.tainted /\ "credential" \in errors'[s]
    BY <2>1 DEF ServersInv, Typed, ReleaseLease, Released, LoadsExactly
  <2> QED
    BY <2>1, <2>2, <2>3 DEF LeaseIsKnown
<1> QED
  BY <1>1, <1>2, <1>3, <1>4, <1>5, <1>6, OneServerMoves DEF ServerOK

LEMMA CleanKeepsServersInv ==
  ASSUME ServersInv, NEW s \in Servers, Clean(s)
  PROVE  ServersInv'
<1>1. Typed'
  BY DEF ServersInv, Typed, Phases, StartSteps, StopSteps, Launching, Clean,
         verifyControlledPluginBoundary, Processes
<1>2. Others(s)
  BY DEF ServersInv, Typed, Others, Clean, verifyControlledPluginBoundary,
         Processes
<1>3. ServerOK(s)'
  BY DEF ServersInv, Typed, ServersOK, ServerOK, Named, LaunchIsKnown,
         StopIsKnown, LeaseIsKnown, Launching, Stopping, StopSteps, Unlaunched,
         Survivors, LiveProcess, Clean, verifyControlledPluginBoundary,
         Processes
<1> QED
  BY <1>1, <1>2, <1>3, OneServerMoves

\* The environment.
LEMMA LeaderExitsKeepsServersInv ==
  ASSUME ServersInv, NEW s \in Servers, LeaderExits(s)
  PROVE  ServersInv'
<1>1. Typed'
  BY DEF ServersInv, Typed, Phases, StartSteps, StopSteps, Launching,
         LeaderExits
<1>2. Others(s)
  BY DEF ServersInv, Typed, Others, LeaderExits
<1>3. ServerOK(s)'
  BY DEF ServersInv, Typed, ServersOK, ServerOK, Named, LaunchIsKnown,
         StopIsKnown, LeaseIsKnown, Launching, Stopping, StopSteps, Unlaunched,
         Survivors, LiveProcess, LeaderExits
<1> QED
  BY <1>1, <1>2, <1>3, OneServerMoves

LEMMA GroupChangesKeepsServersInv ==
  ASSUME ServersInv, NEW s \in Servers, GroupChanges(s)
  PROVE  ServersInv'
<1>1. Typed'
  BY DEF ServersInv, Typed, Phases, StartSteps, StopSteps, Launching,
         GroupChanges
<1>2. Others(s)
  BY DEF ServersInv, Typed, Others, GroupChanges
<1>3. ServerOK(s)'
  BY DEF ServersInv, Typed, ServersOK, ServerOK, Named, LaunchIsKnown,
         StopIsKnown, LeaseIsKnown, Launching, Stopping, StopSteps, Unlaunched,
         Survivors, LiveProcess, GroupChanges
<1> QED
  BY <1>1, <1>2, <1>3, OneServerMoves

LEMMA CredentialChangesKeepsServersInv ==
  ASSUME ServersInv, NEW s \in Servers, CredentialChanges(s)
  PROVE  ServersInv'
<1>1. Typed'
  BY DEF ServersInv, Typed, Phases, StartSteps, StopSteps, Launching,
         CredentialChanges, Processes
<1>2. Others(s)
  BY DEF ServersInv, Typed, Others, CredentialChanges, Processes
<1>3. ServerOK(s)'
  BY DEF ServersInv, Typed, ServersOK, ServerOK, Named, LaunchIsKnown,
         StopIsKnown, LeaseIsKnown, Launching, Stopping, StopSteps, Unlaunched,
         Survivors, LiveProcess, CredentialChanges, Processes
<1> QED
  BY <1>1, <1>2, <1>3, OneServerMoves

LEMMA CancelKeepsServersInv ==
  ASSUME ServersInv, NEW s \in Servers, Cancel(s)
  PROVE  ServersInv'
<1>1. Typed'
  BY DEF ServersInv, Typed, Phases, StartSteps, StopSteps, Launching, Cancel
<1>2. Others(s)
  BY DEF ServersInv, Typed, Others, Cancel
<1>3. ServerOK(s)'
  BY DEF ServersInv, Typed, ServersOK, ServerOK, Named, LaunchIsKnown,
         StopIsKnown, LeaseIsKnown, Launching, Stopping, StopSteps, Unlaunched,
         Survivors, LiveProcess, Cancel
<1> QED
  BY <1>1, <1>2, <1>3, OneServerMoves

LEMMA PluginDriftsKeepsServersInv ==
  ASSUME ServersInv, PluginDrifts
  PROVE  ServersInv'
  BY DEF ServersInv, Typed, ServersOK, ServerOK, Named, LaunchIsKnown,
         StopIsKnown, LeaseIsKnown, LiveProcess, PluginDrifts

-----------------------------------------------------------------------------
LEMMA InitServersInv == ServerInit => ServersInv
<1> SUFFICES ASSUME ServerInit PROVE ServersInv
  OBVIOUS
<1>1. Typed
  BY DEF ServerInit, Typed, Phases, StartSteps, StopSteps
<1>2. ASSUME NEW s \in Servers PROVE ServerOK(s)
  <2>1. Named(s)
    BY ServersAssumption DEF ServerInit, Named, Launching, Stopping, StopSteps
  <2> QED
    BY <2>1
    DEF ServerInit, ServerOK, LaunchIsKnown, StopIsKnown, LeaseIsKnown,
        LiveProcess, Launching, Stopping, StopSteps, Unlaunched, Survivors
<1> QED
  BY <1>1, <1>2 DEF ServersInv, ServersOK

LEMMA NextServersInv == ServersInv /\ [ServerNext]_serverVars => ServersInv'
<1> SUFFICES ASSUME ServersInv, [ServerNext]_serverVars PROVE ServersInv'
  OBVIOUS
<1>1. CASE UNCHANGED serverVars
  BY <1>1
  DEF ServersInv, Typed, ServersOK, ServerOK, Named, LaunchIsKnown, StopIsKnown,
      LeaseIsKnown, LiveProcess, serverVars
<1>2. CASE PluginDrifts
  BY <1>2, PluginDriftsKeepsServersInv
<1>3. ASSUME NEW s \in Servers, CallStart(s) \/ StartStep(s) \/ HealthAnswers(s)
      PROVE  ServersInv'
  BY <1>3, CallStartKeepsServersInv, BeginLaunchKeepsServersInv,
     PrepareKeepsServersInv, BuildEnvironmentKeepsServersInv,
     StageKeepsServersInv, LaunchKeepsServersInv, HealthEndsKeepsServersInv,
     PublishKeepsServersInv, StartReturnsKeepsServersInv,
     HealthAnswersKeepsServersInv
  DEF StartStep
<1>4. ASSUME NEW s \in Servers,
             WaitForProcess(s) \/ StopWhenContextEnds(s) \/ OwnerStops(s)
      PROVE  ServersInv'
  BY <1>4, WaitForProcessKeepsServersInv, StopWhenContextEndsKeepsServersInv,
     OwnerStopsKeepsServersInv
<1>5. ASSUME NEW s \in Servers, StopStep(s)
      PROVE  ServersInv'
  BY <1>5, StopUnlaunchedKeepsServersInv, BeginStopKeepsServersInv,
     KillKeepsServersInv, AwaitReapAgainKeepsServersInv,
     AwaitGroupKeepsServersInv, ReleaseKeepsServersInv, CleanKeepsServersInv
  DEF StopStep
<1>6. ASSUME NEW s \in Servers, Environment(s)
      PROVE  ServersInv'
  BY <1>6, LeaderExitsKeepsServersInv, GroupChangesKeepsServersInv,
     CredentialChangesKeepsServersInv, CancelKeepsServersInv
  DEF Environment
<1> QED
  BY <1>1, <1>2, <1>3, <1>4, <1>5, <1>6 DEF ServerNext

\* Start, Stop, the goroutines and the processes keep the invariant.
THEOREM ServersInvHolds == ServerSpec => []ServersInv
  BY InitServersInv, NextServersInv, PTL DEF ServerSpec

-----------------------------------------------------------------------------
\* A live process whose Stop reports no survivor holds the session's lease.
LEMMA LiveHoldsTheLease ==
  ASSUME ServersInv, NEW s \in Servers, LiveProcess(s),
  errors[s] \cap Survivors = {}
  PROVE  session.holder = s
<1>1. ServerOK(s)
  BY DEF ServersInv, ServersOK
<1>2. leader[s] # "none"
  BY <1>1 DEF ServerOK, LaunchIsKnown, LiveProcess
<1>3. stop[s] \notin {"clean", "done"}
  BY <1>1 DEF ServerOK, StopIsKnown
<1> QED
  BY <1>1, <1>2, <1>3 DEF ServerOK, LeaseIsKnown, Named

\* Servers that share an OAuth session take turns, however their launches,
\* stops, contexts and processes interleave.
THEOREM ServersTakeTurns == ServerSpec => []ServersKept
<1>1. ServersInv => ServerTypeOK
  BY DEF ServersInv, ServerTypeOK, ServersOK, ServerOK
<1>2. ServersInv => OneRuntimeAtATime
  <2> SUFFICES ASSUME ServersInv, NEW s \in Servers, NEW t \in Servers,
                      s # t, LiveProcess(s), LiveProcess(t)
               PROVE  \E r \in {s, t} : errors[r] \cap {"reap", "group"} # {}
    BY DEF OneRuntimeAtATime
  <2> QED
    BY LiveHoldsTheLease DEF Survivors
<1> QED
  BY <1>1, <1>2, ServersInvHolds, PTL DEF ServersKept

\* A Stop that reports no error has ended every process and given back all.
THEOREM StopLeavesNothing == ServerSpec => []CleanStopLeavesNothing
<1>1. ServersInv => CleanStopLeavesNothing
  <2> SUFFICES ASSUME ServersInv, NEW s \in Servers, stop[s] = "done",
  errors[s] = {}
               PROVE  /\ leader[s] \in {"none", "reaped"} /\ ~group[s]
                      /\ held[s] = {} /\ session.holder # s
                      /\ credential[s] = "none"
    BY DEF CleanStopLeavesNothing
  <2>1. ServerOK(s)
    BY DEF ServersInv, ServersOK
  <2>2. leader[s] \in {"none", "reaped"} /\ ~group[s]
    BY <2>1 DEF ServerOK, StopIsKnown, LiveProcess
  <2> QED
    BY <2>1, <2>2 DEF ServerOK, LeaseIsKnown, Named
<1> QED
  BY <1>1, ServersInvHolds, PTL

\* Nothing but Clean removes a rewritten credential, and it does after Release
\* has looked at it.
LEMMA CleanReports ==
  ASSUME ServersInv, NEW s \in Servers, [ServerNext]_serverVars,
         credential[s] = "changed", credential'[s] = "none"
  PROVE  \/ session.tainted /\ "credential" \in errors[s]
         \/ errors[s] \cap Survivors # {}
<1>1. ServerOK(s)
  BY DEF ServersInv, ServersOK
<1>2. CASE Clean(s)
  <2>1. stop[s] = "clean"
    BY <1>2 DEF Clean
  <2> QED
    BY <1>1, <2>1 DEF ServerOK, LeaseIsKnown
<1>3. CASE StopUnlaunched(s)
  <2>1. leader[s] = "none"
    BY <1>1, <1>3 DEF StopUnlaunched, ServerOK, LaunchIsKnown, StopIsKnown
  <2> QED
    BY <1>1, <2>1 DEF ServerOK, LaunchIsKnown
<1>4. CASE ~Clean(s) /\ ~StopUnlaunched(s)
  <2>1. credential \in [Servers -> {"none", "staged", "changed"}]
    BY DEF ServersInv, Typed
  <2>2. ASSUME NEW t \in Servers,
               CallStart(t) \/ StartStep(t) \/ HealthAnswers(t)
        PROVE  credential'[s] = "changed" \/ credential'[s] = "staged"
    BY <2>1, <2>2
    DEF CallStart, StartStep, HealthAnswers, BeginLaunch, Prepare,
        BuildEnvironment, Stage, Launch, HealthEnds, Publish, StartReturns,
        LaunchFails, StartStops
  <2>3. ASSUME NEW t \in Servers,
               WaitForProcess(t) \/ StopWhenContextEnds(t) \/ OwnerStops(t)
        PROVE  credential' = credential
    BY <2>3 DEF WaitForProcess, StopWhenContextEnds, OwnerStops
  <2>4. ASSUME NEW t \in Servers, StopStep(t)
        PROVE  credential'[s] = "changed"
    BY <1>4, <2>1, <2>4
    DEF StopStep, StopUnlaunched, BeginStop, Kill, AwaitReapAgain, AwaitGroup,
        ReleaseLease, Clean
  <2>5. ASSUME NEW t \in Servers, Environment(t)
        PROVE  credential'[s] = "changed"
    BY <2>1, <2>5
    DEF Environment, LeaderExits, GroupChanges, CredentialChanges, Cancel
  <2>6. credential' # credential
    OBVIOUS
  <2>7. ~PluginDrifts /\ ~UNCHANGED serverVars
    BY <2>6 DEF PluginDrifts, serverVars
  <2> QED
    BY <2>2, <2>3, <2>4, <2>5, <2>6, <2>7 DEF ServerNext
<1> QED
  BY <1>2, <1>3, <1>4

\* A private credential somebody rewrote never disappears in silence.
THEOREM RewrittenIsReported == ServerSpec => ChangesAreReported
<1>1. ServersInv /\ [ServerNext]_serverVars =>
        [\A s \in Servers :
           credential[s] = "changed" /\ credential'[s] = "none" =>
             \/ session.tainted /\ "credential" \in errors[s]
             \/ errors[s] \cap {"reap", "group"} # {}]_serverVars
  BY CleanReports DEF Survivors
<1> QED
  BY <1>1, ServersInvHolds, PTL DEF ServerSpec, ChangesAreReported

-----------------------------------------------------------------------------
(* A run: what its invariant says *)

Preflight == {"prepare", "start", "record", "ready", "create", "admit"}

\* How many times the run itself may have set the root session to work.
Sent ==
  CASE run.pc \in Preflight -> 0
    [] run.pc = "converse" -> run.turn
    [] run.pc = "await" -> run.turn + 1
    [] OTHER -> 1 + Answers[run.mode]

WaitingIn(f) == {j \in Jobs : f.notice[j] = "unacked"}
Waiting == WaitingIn(flow)

\* The root's turns, with those that have begun or that a job still owes.
Load ==
  server.messages[Root] + (IF Root \in server.busy THEN 1 ELSE 0)
    + (IF flow.live = {} THEN 0 ELSE 1) + Cardinality(Waiting)

Allowed == Sent + flow.launched + mishaps

OthersAnswerOnce ==
  \A s \in Sessions \ {Root} :
    server.messages[s] <= 1 /\ (s \in server.busy => server.messages[s] = 0)

TurnsAreCounted == Load <= Allowed /\ OthersAnswerOnce

PassesAreCounted ==
  /\ run.stable <= run.pass
  /\ run.pc \in {"statuses", "walk", "messages"} => run.stable < run.pass
  /\ run.pc = "pass" => run.pass < MaxPasses
  /\ run.pc \in Preflight \cup Conversing => run.pass = 0 /\ run.stable = 0

CountInv == RunTypeOK /\ TurnsAreCounted /\ PassesAreCounted

\* A run that got past its preflight, of which a trace may be asked.
Underway ==
  \/ run.pc \in Conversing \cup Passing
  \/ run.pc \in Ending /\ run.early = "none"
  \/ run.pc = "done" /\ run.status = "pass"

\* From the preflight on the log has every event.
LogIsComplete ==
  /\ Underway \/ run.pc \in {"create", "admit"} =>
       recorder.stream \notin {"none", "connected"}
  /\ run.early # "none" =>
       run.pc \in {"close", "reconcile", "stop", "done"}
  /\ run.status \in {"pass", "fail"} => run.pc = "done"

\* The runtime is stopped where the run says so.
CleanupIsKnown ==
  /\ run.pc \in {"prepare", "start"} => ~server.up /\ flow.live = {}
  /\ run.mode # "managed" => flow.live = {}
  /\ run.attested => ~server.up /\ flow.live = {}
  /\ run.attested => run.pc \in {"prepare", "start", "stop", "judge", "done"}
  /\ run.pc = "reconcile" => ~server.up /\ run.closing = "ok"
  /\ run.pc \in {"stop", "judge"} /\ run.closing = "ok" => run.attested
  /\ run.pc \in {"stop", "judge"} => run.closing # "none"
  /\ run.pc = "done" /\ run.status \in {"pass", "fail"} => run.attested

\* A job has a notification once it has finished.
JobsAreFresh ==
  \A j \in Jobs :
    /\ j \in flow.live \/ j > flow.launched => flow.notice[j] = "absent"
    /\ j \in flow.live => j <= flow.launched

\* While the driver waits, the root is at work only for a notification; once
\* it has accepted, there is none left to work for.
DriverIsSettled ==
  /\ run.pc \in {"initial", "drive", "terminal"} /\ Root \in server.busy =>
       \E j \in Jobs : flow.notice[j] = "prompting"
  /\ run.accepted =>
       /\ run.pc \in {"anchor", "done"} \cup Passing \cup Ending
       /\ Root \notin server.busy /\ flow.live = {}
       /\ \A j \in Jobs : flow.notice[j] \in {"absent", "acked"}

\* What a pass has read or means to read.
Covered == TreeOf(trace) \cup trace.reading \cup trace.frontier

\* Nothing was logged since the pass began, and it failed nowhere.
Undisturbed == trace.mark = Len(server.log) /\ ~trace.failed

\* Where a pass has read or reads the tree.
Reading ==
  \/ run.pc \in {"statuses", "walk", "messages", "observe"}
  \/ run.pc \in Ending /\ run.early = "none"
  \/ run.pc = "done" /\ run.status = "pass"

TraceIsOfTheTree ==
  /\ run.pc # "messages" => trace.reading = {}
  /\ \A s, t \in trace.reading : s = t
  /\ Reading /\ run.pc \notin {"statuses", "walk", "messages"} =>
       trace.frontier = {}
  /\ Covered \subseteq {Root} \cup Children
  /\ Reading /\ Undisturbed =>
       /\ Root \in Covered
       /\ TreeOf(trace) \cup trace.reading \subseteq server.there
       /\ \A m \in trace.seen : m[2] = server.messages[m[1]]
       /\ \/ Root \in trace.frontier
          \/ server.there \cap Children \subseteq Covered

\* What the end of the recording has found stays true of it.
FenceHeld ==
  /\ run.pc \in {"prepare", "start"} => recorder.stream = "none"
  /\ run.isolated => run.pc \in {"judge", "done"}
  /\ run.pc \in {"judge", "done"} =>
       recorder.stream \notin {"connected", "live"}
  /\ run.isolated => ~FinalizeRunEvents(trace, recorder.delivered)
  /\ run.status = "pass" => run.isolated /\ StructurallyComplete(trace)

RunInv ==
  /\ CountInv /\ LogIsComplete /\ CleanupIsKnown /\ JobsAreFresh
  /\ DriverIsSettled /\ TraceIsOfTheTree /\ FenceHeld

-----------------------------------------------------------------------------
(* Types and counts.                                                       *)

\* The counts of the workflow are numbers.
LEMMA FlowIsFinite ==
  ASSUME NEW f \in FlowType
  PROVE  /\ IsFiniteSet(WaitingIn(f))
         /\ Cardinality(WaitingIn(f)) \in Nat
         /\ f.launched \in Nat
<1>1. IsFiniteSet(Jobs) /\ MaxJobs \in Nat
  BY BoundsAreNatural, FS_Interval DEF Jobs
<1>2. IsFiniteSet(WaitingIn(f))
  BY <1>1, FS_Subset DEF WaitingIn
<1> QED
  BY <1>1, <1>2, FS_CardinalityType DEF FlowType

\* So are those of a state.
LEMMA WaitingIsFinite ==
  ASSUME RunTypeOK
  PROVE  /\ IsFiniteSet(Waiting) /\ Cardinality(Waiting) \in Nat
         /\ flow.notice \in
              [Jobs -> {"absent", "unacked", "prompting", "acked"}]
         /\ flow.launched \in Nat /\ mishaps \in Nat /\ Sent \in Nat
         /\ Answers[run.mode] \in Nat /\ MaxJobs \in Nat /\ MaxMishaps \in Nat
<1>1. MaxJobs \in Nat /\ MaxMishaps \in Nat /\ Answers[run.mode] \in Nat
  BY BoundsAreNatural, CasesAreDescribed DEF RunTypeOK
<1>2. IsFiniteSet(Waiting) /\ Cardinality(Waiting) \in Nat
  BY FlowIsFinite DEF RunTypeOK, Waiting
<1>3. /\ flow.notice \in [Jobs -> {"absent", "unacked", "prompting", "acked"}]
      /\ flow.launched \in Nat /\ mishaps \in Nat /\ run.turn \in Nat
  BY <1>1 DEF RunTypeOK, FlowType, RunType
<1> QED
  BY <1>1, <1>2, <1>3 DEF Sent, Preflight

\* A notification that is taken owes its turn no longer.
LEMMA WaitingLosesOne ==
  ASSUME RunTypeOK, NEW j \in Waiting, NEW x \in {"prompting", "acked"},
         flow'.notice = [flow.notice EXCEPT ![j] = x]
  PROVE  Cardinality(Waiting') = Cardinality(Waiting) - 1
<1>1. Waiting' = Waiting \ {j}
  BY WaitingIsFinite DEF Waiting, WaitingIn
<1> QED
  BY <1>1, WaitingIsFinite, FS_RemoveElement

\* One that is released, or new, owes one more.
LEMMA WaitingGainsOne ==
  ASSUME RunTypeOK, NEW j \in Jobs,
         flow'.notice = [flow.notice EXCEPT ![j] = "unacked"]
  PROVE  /\ Cardinality(Waiting') \in Nat
         /\ Cardinality(Waiting') <= Cardinality(Waiting) + 1
<1>1. Waiting' = Waiting \cup {j}
  BY WaitingIsFinite DEF Waiting, WaitingIn
<1>2. Cardinality(Waiting \cup {j}) =
        IF j \in Waiting THEN Cardinality(Waiting) ELSE Cardinality(Waiting) + 1
  BY WaitingIsFinite, FS_AddElement
<1> QED
  BY <1>1, <1>2, WaitingIsFinite

\* A turn more is within the bound, for a session that is at work.
LEMMA TurnsAreBounded ==
  ASSUME CountInv, NEW s \in Sessions
  PROVE  /\ server.messages[s] \in Turns(run.mode)
         /\ s \in server.busy => server.messages[s] + 1 \in Turns(run.mode)
<1>1. server.messages[s] \in Turns(run.mode)
  BY DEF CountInv, RunTypeOK, ServerType
<1>2. /\ flow.launched <= MaxJobs /\ mishaps <= MaxMishaps
      /\ Sent <= 1 + Answers[run.mode]
  <2>1. /\ flow.launched <= MaxJobs /\ mishaps <= MaxMishaps
        /\ run.turn <= Answers[run.mode] /\ run.turn \in Nat
    BY WaitingIsFinite DEF CountInv, RunTypeOK, FlowType, RunType
  <2> QED
    BY <2>1, WaitingIsFinite DEF CountInv, Sent, Preflight
<1>3. CASE s \in server.busy /\ s = Root
  <2>1. Load <= Allowed /\ Load = server.messages[s] + 1
          + (IF flow.live = {} THEN 0 ELSE 1) + Cardinality(Waiting)
    BY <1>3 DEF CountInv, TurnsAreCounted, Load
  <2>2. 1 + server.messages[s] <= Sent + flow.launched + mishaps
    BY <1>1, <2>1, WaitingIsFinite DEF CountInv, Allowed, Turns
  <2> QED
    BY <1>1, <1>2, <2>2, WaitingIsFinite DEF CountInv, Turns
<1>4. CASE s \in server.busy /\ s # Root
  BY <1>1, <1>4, WaitingIsFinite
  DEF CountInv, TurnsAreCounted, OthersAnswerOnce, Turns
<1> QED
  BY <1>1, <1>3, <1>4

\* The log with one event more, or as it was.
LEMMA LogGrows ==
  ASSUME RunTypeOK, NEW k \in {"created", "message", "deleted"},
         NEW s \in Sessions, NEW n \in Turns(run.mode)
  PROVE  /\ Logged(<<k, s, n>>) \in
              Seq({"created", "message", "deleted"} \X Sessions
                    \X Turns(run.mode))
         /\ Len(Logged(<<k, s, n>>)) \in Nat
         /\ Len(Logged(<<k, s, n>>)) >= Len(server.log)
<1>1. server.log \in
        Seq({"created", "message", "deleted"} \X Sessions \X Turns(run.mode))
  BY DEF RunTypeOK, ServerType
<1>2. <<k, s, n>> \in
        {"created", "message", "deleted"} \X Sessions \X Turns(run.mode)
  OBVIOUS
<1> QED
  BY <1>1, <1>2, AppendProperties DEF Logged

\* Who takes a mishap, and who takes none.
LEMMA MishapsAreBounded ==
  ASSUME RunTypeOK, Happens \/ Fine
  PROVE  mishaps' \in 0..MaxMishaps /\ mishaps' \in Nat /\ mishaps <= mishaps'
BY BoundsAreNatural DEF RunTypeOK, Happens, Fine

\* The load is a number.
LEMMA LoadIsNatural ==
  ASSUME NEW m \in Nat, NEW b, NEW l, NEW c \in Nat
  PROVE  m + (IF Root \in b THEN 1 ELSE 0) + (IF l = {} THEN 0 ELSE 1) + c
           \in Nat
OBVIOUS

\* So is what is allowed.
LEMMA AllowedIsNatural == ASSUME RunTypeOK PROVE Allowed \in Nat
BY WaitingIsFinite DEF Allowed

\* A step that does not go on in the run.
LEMMA EnvironmentMoves ==
  ASSUME CountInv, Happens \/ Fine, UNCHANGED <<run, recorder, trace>>,
         server' \in ServerType(run.mode), Len(server'.log) >= Len(server.log),
         flow' \in FlowType, OthersAnswerOnce', Load' \in Int,
         Load' - Load <= Allowed' - Allowed
  PROVE  CountInv'
<1>1. RunTypeOK
  BY DEF CountInv
<1>2. mishaps' \in 0..MaxMishaps /\ mishaps' \in Nat
  BY <1>1, MishapsAreBounded
<1>3. Len(server.log) \in Nat /\ Len(server'.log) \in Nat
      /\ recorder.delivered \in Nat
  BY <1>1, LenProperties DEF RunTypeOK, ServerType, RecorderType
<1>4. recorder.delivered <= Len(server'.log)
  BY <1>1, <1>3 DEF RunTypeOK
<1>5. RunTypeOK'
  BY <1>1, <1>2, <1>4 DEF RunTypeOK
<1>6. PassesAreCounted'
  BY DEF CountInv, PassesAreCounted, Preflight
<1>7. Load \in Nat
  <2>1. server.messages[Root] \in Nat
    BY <1>1 DEF RunTypeOK, ServerType, Sessions, Turns
  <2> QED
    BY <1>1, <2>1, WaitingIsFinite, LoadIsNatural DEF Load
<1>8. Allowed' \in Nat
  <2>1. flow'.launched \in Nat
    BY FlowIsFinite
  <2>2. Sent' = Sent /\ Sent \in Nat
    BY <1>1, WaitingIsFinite DEF Sent, Preflight
  <2> QED
    BY <1>2, <2>1, <2>2 DEF Allowed
<1>9. Load' <= Allowed'
  BY <1>1, <1>7, <1>8, AllowedIsNatural DEF CountInv, TurnsAreCounted
<1> QED
  BY <1>5, <1>6, <1>9 DEF CountInv, TurnsAreCounted

\* The server's part of the load: no more turns than were begun.
LEMMA ServerMoves ==
  ASSUME CountInv, Happens \/ Fine, UNCHANGED <<run, recorder, trace, flow>>,
         server' \in ServerType(run.mode), Len(server'.log) >= Len(server.log),
         OthersAnswerOnce',
         \/ UNCHANGED <<server.messages[Root], Root \in server.busy>>
         \/ /\ Root \in server.busy /\ Root \notin server'.busy
            /\ server'.messages[Root] \in {server.messages[Root],
                                           server.messages[Root] + 1}
  PROVE  CountInv'
<1>1. RunTypeOK
  BY DEF CountInv
<1>2. server.messages[Root] \in Nat /\ server'.messages[Root] \in Nat
  BY <1>1 DEF RunTypeOK, ServerType, Sessions, Turns
<1>3. Waiting' = Waiting /\ Cardinality(Waiting) \in Nat
  BY <1>1, WaitingIsFinite DEF Waiting
<1>4. Load \in Nat /\ Load' \in Nat
  BY <1>2, <1>3, LoadIsNatural DEF Load
<1>5. Load' <= Load
  <2>1. CASE UNCHANGED <<server.messages[Root], Root \in server.busy>>
    BY <1>3, <1>4, <2>1 DEF Load
  <2>2. CASE Root \in server.busy /\ Root \notin server'.busy
    BY SMTT(60), <1>2, <1>3, <2>2 DEF Load
  <2> QED  BY <2>1, <2>2
<1>6. Allowed' \in Nat /\ Allowed <= Allowed'
  <2>1. mishaps \in Nat /\ mishaps' \in Nat /\ mishaps <= mishaps'
        /\ flow.launched \in Nat /\ Sent \in Nat
    BY <1>1, MishapsAreBounded, WaitingIsFinite
  <2>2. Sent' = Sent
    BY DEF Sent, Preflight
  <2> QED  BY <2>1, <2>2 DEF Allowed
<1>7. flow' \in FlowType
  BY <1>1 DEF RunTypeOK
<1> QED
  BY <1>1, <1>4, <1>6, <1>5, <1>7, AllowedIsNatural, EnvironmentMoves

\* A delegated session works once; the root's load is what it was.
LEMMA DelegateCounts ==
  ASSUME CountInv, NEW c \in Children, Delegate(c)
  PROVE  CountInv'
<1>1. server \in ServerType(run.mode) /\ OthersAnswerOnce /\ RunTypeOK
  BY DEF CountInv, RunTypeOK, TurnsAreCounted
<1>2. c \in Sessions \ {Root} /\ 0 \in Turns(run.mode)
  BY <1>1, WaitingIsFinite, SessionsAreDistinct DEF Sessions, Turns
<1>3. server' \in ServerType(run.mode) /\ Len(server'.log) >= Len(server.log)
  BY <1>1, <1>2, LogGrows DEF Delegate, ServerType
<1>4. server'.messages = server.messages /\ server'.busy = server.busy \cup {c}
  BY <1>1 DEF Delegate, ServerType
<1>5. OthersAnswerOnce'
  BY <1>1, <1>4 DEF OthersAnswerOnce, Delegate
<1> QED
  BY <1>2, <1>3, <1>4, <1>5, ServerMoves DEF Delegate

\* A turn that ends was begun.
LEMMA RespondCounts ==
  ASSUME CountInv, NEW s \in Sessions, Respond(s)
  PROVE  CountInv'
<1>1. server \in ServerType(run.mode) /\ OthersAnswerOnce /\ RunTypeOK
  BY DEF CountInv, RunTypeOK, TurnsAreCounted
<1>2. /\ s \in server.busy /\ server.messages[s] + 1 \in Turns(run.mode)
      /\ server.messages[s] \in Nat
  BY TurnsAreBounded DEF Respond, Turns
<1>3. server' \in ServerType(run.mode) /\ Len(server'.log) >= Len(server.log)
  BY <1>1, <1>2, LogGrows DEF Respond, ServerType
<1>4. /\ server'.messages = [server.messages EXCEPT ![s] = @ + 1]
      /\ server'.busy = server.busy \ {s}
  BY <1>1 DEF Respond, ServerType
<1>5. server.messages \in [Sessions -> Turns(run.mode)] /\ Root \in Sessions
  BY <1>1 DEF ServerType, Sessions
<1>6. OthersAnswerOnce'
  BY <1>1, <1>2, <1>4, <1>5 DEF OthersAnswerOnce
<1>7. CASE s = Root
  BY <1>2, <1>3, <1>4, <1>5, <1>6, <1>7, ServerMoves DEF Respond
<1>8. CASE s # Root
  BY <1>3, <1>4, <1>5, <1>6, <1>8, ServerMoves DEF Respond
<1> QED  BY <1>7, <1>8

\* A deleted session works no more; it is not the root.
LEMMA DeleteSessionCounts ==
  ASSUME CountInv, NEW s \in Sessions, DeleteSession(s)
  PROVE  CountInv'
<1>1. server \in ServerType(run.mode) /\ OthersAnswerOnce /\ RunTypeOK
  BY DEF CountInv, RunTypeOK, TurnsAreCounted
<1>2. s # Root /\ 0 \in Turns(run.mode)
  BY <1>1, WaitingIsFinite DEF DeleteSession, Turns
<1>3. server' \in ServerType(run.mode) /\ Len(server'.log) >= Len(server.log)
  BY <1>1, <1>2, LogGrows DEF DeleteSession, ServerType
<1>4. server'.messages = server.messages /\ server'.busy = server.busy \ {s}
  BY <1>1 DEF DeleteSession, ServerType
<1>5. OthersAnswerOnce'
  BY <1>1, <1>4 DEF OthersAnswerOnce
<1> QED
  BY <1>2, <1>3, <1>4, <1>5, ServerMoves DEF DeleteSession

\* A foreign session does not work for the run.
LEMMA OpenForeignCounts ==
  ASSUME CountInv, NEW f \in Foreigners, OpenForeign(f)
  PROVE  CountInv'
<1>1. server \in ServerType(run.mode) /\ OthersAnswerOnce /\ RunTypeOK
  BY DEF CountInv, RunTypeOK, TurnsAreCounted
<1>2. f \in Sessions /\ 0 \in Turns(run.mode)
  BY <1>1, WaitingIsFinite DEF Sessions, Turns
<1>3. server' \in ServerType(run.mode) /\ Len(server'.log) >= Len(server.log)
  BY <1>1, <1>2, LogGrows DEF OpenForeign, ServerType
<1>4. server'.messages = server.messages /\ server'.busy = server.busy
  BY <1>1 DEF OpenForeign, ServerType
<1> QED
  BY <1>1, <1>3, <1>4, ServerMoves DEF OpenForeign, OthersAnswerOnce

\* A server that is down starts no turn.
LEMMA ServerStopsCounts ==
  ASSUME CountInv, ServerDies \/ ServerStopsWithContext
  PROVE  CountInv'
<1>1. server \in ServerType(run.mode) /\ OthersAnswerOnce
  BY DEF CountInv, RunTypeOK, TurnsAreCounted
<1>2. /\ server' \in ServerType(run.mode) /\ server'.log = server.log
      /\ server'.messages = server.messages /\ server'.busy = server.busy
  BY <1>1 DEF ServerDies, ServerStopsWithContext, ServerType
<1>3. Len(server'.log) >= Len(server.log)
  BY <1>1, <1>2, LenProperties DEF ServerType
<1> QED
  BY <1>1, <1>2, <1>3, ServerMoves
  DEF ServerDies, ServerStopsWithContext, OthersAnswerOnce

\* What the reader has read was logged.
LEMMA DeliveredIsLogged ==
  ASSUME RunTypeOK, NEW n \in Delivered
  PROVE  n \in Nat /\ recorder.delivered <= n /\ n <= Len(server.log)
<1>1. /\ recorder.delivered \in Nat /\ recorder.delivered <= Len(server.log)
      /\ Len(server.log) \in Nat
  BY LenProperties DEF RunTypeOK, RecorderType, ServerType
<1> QED
  BY <1>1 DEF Delivered

\* The stream and the context count nothing.
LEMMA StreamCounts ==
  ASSUME CountInv, \/ StreamGoesLive \/ StreamEnds
                   \/ \E how \in {"canceled", "expired"} : ContextEnds(how)
  PROVE  CountInv'
<1>1. RunTypeOK /\ (Happens \/ Fine) /\ UNCHANGED <<server, trace, flow>>
  BY DEF CountInv, StreamGoesLive, StreamEnds, ContextEnds
<1>2. /\ mishaps' \in 0..MaxMishaps /\ mishaps <= mishaps'
      /\ mishaps \in Nat /\ mishaps' \in Nat
  BY <1>1, MishapsAreBounded, WaitingIsFinite
<1>3. /\ run' \in RunType(run.mode) /\ run'.mode = run.mode
      /\ run'.pc = run.pc /\ run'.turn = run.turn
      /\ run'.pass = run.pass /\ run'.stable = run.stable
  BY ZenonT(60), <1>1 DEF StreamGoesLive, StreamEnds, ContextEnds, RunTypeOK,
     RunType
<1>4. /\ recorder' \in RecorderType /\ recorder'.delivered <= Len(server.log)
      /\ recorder.delivered <= recorder'.delivered
  <2>1. recorder \in RecorderType /\ recorder.delivered <= Len(server.log)
        /\ Len(server.log) \in Nat
    BY <1>1, LenProperties DEF RunTypeOK, ServerType
  <2>2. CASE StreamEnds
    <3>1. PICK n \in Delivered :
            recorder' = [recorder EXCEPT
                            !.stream = "broken", !.delivered = n,
                            !.err = ~recorder.stopping /\ run.ctx = "live"]
      BY <2>2 DEF StreamEnds
    <3>2. n \in Nat /\ n <= Len(server.log) /\ recorder.delivered <= n
      BY <1>1, DeliveredIsLogged
    <3> QED
      BY <2>1, <3>1, <3>2 DEF RecorderType
  <2>3. CASE StreamGoesLive
    BY <2>1, <2>3 DEF StreamGoesLive, RecorderType
  <2>4. CASE UNCHANGED recorder
    BY <2>1, <2>4 DEF RecorderType
  <2> QED  BY <2>2, <2>3, <2>4 DEF ContextEnds
<1>5. RunTypeOK'
  <2>1. trace.mark <= recorder.delivered /\ trace.mark \in Nat
        /\ recorder.delivered \in Nat /\ recorder'.delivered \in Nat
    BY <1>1, <1>4 DEF RunTypeOK, TraceType, RecorderType
  <2> QED
    BY <1>1, <1>2, <1>3, <1>4, <2>1 DEF RunTypeOK
<1>6. Load' = Load /\ Sent' = Sent
  BY <1>1, <1>3 DEF Load, Waiting, Sent, Preflight
<1>7. Load \in Nat
  <2>1. server.messages[Root] \in Nat
    BY <1>1 DEF RunTypeOK, ServerType, Sessions, Turns
  <2> QED
    BY <1>1, <2>1, WaitingIsFinite, LoadIsNatural DEF Load
<1>8. Load' <= Allowed'
  BY <1>1, <1>2, <1>6, <1>7, WaitingIsFinite
  DEF Allowed, CountInv, TurnsAreCounted
<1>9. OthersAnswerOnce' /\ PassesAreCounted'
  BY <1>1, <1>3
  DEF CountInv, TurnsAreCounted, OthersAnswerOnce, PassesAreCounted, Preflight
<1> QED
  BY <1>5, <1>8, <1>9 DEF CountInv, TurnsAreCounted

\* A job that is launched owes one turn, and is one of MaxJobs.
LEMMA LaunchJobCounts ==
  ASSUME CountInv, LaunchJob
  PROVE  CountInv'
<1>1. RunTypeOK /\ flow \in FlowType /\ server \in ServerType(run.mode)
      /\ OthersAnswerOnce
  BY DEF CountInv, RunTypeOK, TurnsAreCounted
<1>2. /\ flow'.notice = flow.notice /\ flow'.live # {} /\ flow.live = {}
      /\ flow'.launched = flow.launched + 1 /\ flow' \in FlowType
  <2>1. flow.launched + 1 \in 0..MaxJobs /\ flow.launched + 1 \in Jobs
    BY <1>1, WaitingIsFinite DEF LaunchJob, FlowType, Jobs
  <2> QED
    BY <1>1, <2>1 DEF LaunchJob, FlowType
<1>3. Waiting' = Waiting
  BY <1>2 DEF Waiting, WaitingIn
<1>4. server.messages[Root] \in Nat /\ Cardinality(Waiting) \in Nat
      /\ flow.launched \in Nat /\ Sent \in Nat /\ mishaps \in Nat
  BY <1>1, WaitingIsFinite DEF ServerType, Sessions, Turns
<1>5. Load' \in Nat /\ Load \in Nat /\ Load' = Load + 1
  <2>1. server' = server
    BY DEF LaunchJob
  <2> QED
    BY <1>2, <1>3, <1>4, <2>1, LoadIsNatural DEF Load
<1>6. Allowed' = Allowed + 1 /\ Allowed \in Nat
  <2>1. Sent' = Sent /\ mishaps' = mishaps
    BY DEF Sent, LaunchJob, Fine, Preflight
  <2> QED
    BY <1>2, <1>4, <2>1 DEF Allowed
<1>7. Len(server'.log) >= Len(server.log) /\ OthersAnswerOnce'
  BY <1>1, LenProperties DEF LaunchJob, ServerType, OthersAnswerOnce
<1> QED
  BY <1>1, <1>2, <1>5, <1>6, <1>7, EnvironmentMoves DEF LaunchJob

\* Its notification owes that turn from then on.
LEMMA FinishJobCounts ==
  ASSUME CountInv, NEW z \in {"expected", "other"}, FinishJob(z)
  PROVE  CountInv'
<1>1. RunTypeOK /\ flow \in FlowType /\ server \in ServerType(run.mode)
      /\ OthersAnswerOnce
  BY DEF CountInv, RunTypeOK, TurnsAreCounted
<1>2. PICK j \in flow.live :
        flow' = [flow EXCEPT !.live = {}, !.state = z, !.notice[j] = "unacked"]
  BY DEF FinishJob
<1>3. /\ flow'.notice = [flow.notice EXCEPT ![j] = "unacked"]
      /\ flow'.live = {} /\ flow.live # {} /\ flow'.launched = flow.launched
      /\ flow' \in FlowType /\ j \in Jobs
  BY <1>1, <1>2 DEF FlowType
<1>4. server.messages[Root] \in Nat /\ Cardinality(Waiting) \in Nat
      /\ flow.launched \in Nat /\ Sent \in Nat /\ mishaps \in Nat
  BY <1>1, WaitingIsFinite DEF ServerType, Sessions, Turns
<1>5. /\ Cardinality(Waiting') \in Nat
      /\ Cardinality(Waiting') <= Cardinality(Waiting) + 1
  BY <1>1, <1>3, WaitingGainsOne
<1>6. Load' \in Nat /\ Load \in Nat /\ Load' <= Load
  <2>1. server' = server
    BY DEF FinishJob
  <2> QED
    BY <1>3, <1>4, <1>5, <2>1, LoadIsNatural DEF Load
<1>7. Allowed' = Allowed /\ Allowed \in Nat
  <2>1. Sent' = Sent /\ mishaps' = mishaps
    BY DEF Sent, FinishJob, Fine, Preflight
  <2> QED
    BY <1>3, <1>4, <2>1 DEF Allowed
<1>8. Len(server'.log) >= Len(server.log) /\ OthersAnswerOnce'
  BY <1>1, LenProperties DEF FinishJob, ServerType, OthersAnswerOnce
<1> QED
  BY <1>1, <1>3, <1>6, <1>7, <1>8, EnvironmentMoves DEF FinishJob

\* And the root, once it is prompted.
LEMMA WakeCounts ==
  ASSUME CountInv, NEW j \in Jobs, Wake(j)
  PROVE  CountInv'
<1>1. RunTypeOK /\ flow \in FlowType /\ server \in ServerType(run.mode)
      /\ OthersAnswerOnce
  BY DEF CountInv, RunTypeOK, TurnsAreCounted
<1>2. /\ flow'.notice = [flow.notice EXCEPT ![j] = "prompting"]
      /\ flow'.live = flow.live /\ flow'.launched = flow.launched
      /\ flow' \in FlowType /\ j \in Waiting
  BY <1>1 DEF Wake, FlowType, Waiting, WaitingIn
<1>3. /\ server'.messages = server.messages /\ server'.log = server.log
      /\ server'.busy = server.busy \cup {Root} /\ Root \notin server.busy
      /\ server' \in ServerType(run.mode)
  BY <1>1 DEF Wake, ServerType, Sessions
<1>4. server.messages[Root] \in Nat /\ Cardinality(Waiting) \in Nat
      /\ flow.launched \in Nat /\ Sent \in Nat /\ mishaps \in Nat
  BY <1>1, WaitingIsFinite DEF ServerType, Sessions, Turns
<1>5. Cardinality(Waiting') = Cardinality(Waiting) - 1
  BY <1>1, <1>2, WaitingLosesOne
<1>6. Load' = Load /\ Load \in Nat
  BY <1>2, <1>3, <1>4, <1>5, LoadIsNatural DEF Load
<1>7. Allowed' = Allowed /\ Allowed \in Nat
  <2>1. Sent' = Sent /\ mishaps' = mishaps
    BY DEF Sent, Wake, Fine, Preflight
  <2> QED
    BY <1>2, <1>4, <2>1 DEF Allowed
<1>8. Len(server'.log) >= Len(server.log) /\ OthersAnswerOnce'
  BY <1>1, <1>3, LenProperties DEF ServerType, OthersAnswerOnce
<1> QED
  BY <1>1, <1>2, <1>3, <1>6, <1>7, <1>8, EnvironmentMoves DEF Wake

\* A prompt that failed owes another turn: that was a mishap.
LEMMA AcknowledgeCounts ==
  ASSUME CountInv, NEW j \in Jobs, Acknowledge(j)
  PROVE  CountInv'
<1>1. RunTypeOK /\ flow \in FlowType /\ server \in ServerType(run.mode)
      /\ OthersAnswerOnce /\ UNCHANGED <<run, server, recorder, trace>>
  BY DEF CountInv, RunTypeOK, TurnsAreCounted, Acknowledge
<1>2. server.messages[Root] \in Nat /\ Cardinality(Waiting) \in Nat
      /\ flow.launched \in Nat /\ Sent \in Nat /\ mishaps \in Nat
  BY <1>1, WaitingIsFinite DEF ServerType, Sessions, Turns
<1>3. Len(server'.log) >= Len(server.log) /\ OthersAnswerOnce' /\ Sent' = Sent
  BY <1>1, LenProperties DEF ServerType, OthersAnswerOnce, Sent, Preflight
<1>4. CASE flow' = [flow EXCEPT !.notice[j] = "acked"] /\ Fine
  <2>1. /\ flow'.live = flow.live /\ flow'.launched = flow.launched
        /\ flow' \in FlowType /\ mishaps' = mishaps
    BY <1>1, <1>4 DEF FlowType, Fine
  <2>2. Waiting' = Waiting
    BY <1>1, <1>4 DEF Acknowledge, FlowType, Waiting, WaitingIn
  <2>3. Load' = Load /\ Allowed' = Allowed /\ Load \in Nat /\ Allowed \in Nat
    BY <1>1, <1>2, <1>3, <2>1, <2>2, LoadIsNatural DEF Load, Allowed
  <2> QED
    BY <1>1, <1>3, <1>4, <2>1, <2>3, EnvironmentMoves
<1>5. CASE flow' = [flow EXCEPT !.notice[j] = "unacked"] /\ Happens
  <2>1. /\ flow'.live = flow.live /\ flow'.launched = flow.launched
        /\ flow' \in FlowType /\ mishaps' = mishaps + 1
        /\ flow'.notice = [flow.notice EXCEPT ![j] = "unacked"]
    BY <1>1, <1>5 DEF FlowType, Happens
  <2>2. /\ Cardinality(Waiting') \in Nat
        /\ Cardinality(Waiting') <= Cardinality(Waiting) + 1
    BY <1>1, <2>1, WaitingGainsOne
  <2>3. Load' \in Nat /\ Load \in Nat /\ Load' <= Load + 1
    BY <1>1, <1>2, <2>1, <2>2, LoadIsNatural DEF Load
  <2>4. Allowed' = Allowed + 1 /\ Allowed \in Nat
    <3>1. /\ Sent' = Sent /\ Sent \in Nat
          /\ flow'.launched = flow.launched /\ flow.launched \in Nat
          /\ mishaps' = mishaps + 1 /\ mishaps \in Nat
      BY <1>2, <1>3, <2>1
    <3> QED
      BY <3>1 DEF Allowed
  <2> QED
    BY <1>1, <1>3, <1>5, <2>1, <2>3, <2>4, EnvironmentMoves
<1> QED  BY <1>4, <1>5 DEF Acknowledge

\* The server, its plugin and the stream keep the counts.
LEMMA EnvironmentCounts == CountInv /\ RunEnvironment => CountInv'
BY DelegateCounts, RespondCounts, DeleteSessionCounts, OpenForeignCounts,
   ServerStopsCounts, StreamCounts, LaunchJobCounts, FinishJobCounts,
   WakeCounts, AcknowledgeCounts
DEF RunEnvironment, Plugin

\* After the conversation the run has sent all it can have sent.
LEMMA SentGrows ==
  ASSUME RunTypeOK, run' \in RunType(run.mode),
         run'.pc \in Preflight \cup {"converse", "await"} =>
           \/ run.pc \in Preflight /\ run'.pc # "await"
           \/ run.pc = "converse" /\ run'.pc = "await" /\ run'.turn = run.turn
           \/ /\ run.pc = "await" /\ run'.pc = "converse"
              /\ run'.turn = run.turn + 1
  PROVE  Sent \in Nat /\ Sent' \in Nat /\ Sent <= Sent'
<1>1. /\ run.turn \in Nat /\ run.turn <= Answers[run.mode]
      /\ run'.turn \in Nat /\ run'.mode = run.mode /\ Answers[run.mode] \in Nat
  BY WaitingIsFinite DEF RunTypeOK, RunType
<1>2. CASE run'.pc \notin Preflight \cup {"converse", "await"}
  <2>1. Sent' = 1 + Answers[run.mode]
    BY <1>1, <1>2 DEF Sent, Preflight
  <2> QED
    BY <1>1, <2>1 DEF Sent, Preflight
<1>3. CASE run.pc \in Preflight /\ run'.pc # "await"
  <2>1. Sent = 0
    BY <1>3 DEF Sent, Preflight
  <2>2. Sent' \in Nat
    BY <1>1 DEF Sent, Preflight
  <2> QED
    BY <2>1, <2>2
<1>4. CASE run.pc = "converse" /\ run'.pc = "await" /\ run'.turn = run.turn
  BY <1>1, <1>4 DEF Sent, Preflight
<1>5. CASE run.pc = "await" /\ run'.pc = "converse" /\ run'.turn = run.turn + 1
  BY <1>1, <1>5 DEF Sent, Preflight
<1> QED
  BY <1>2, <1>3, <1>4, <1>5

\* A step of the engine that leaves the server and the workflow alone.
LEMMA EngineLooks ==
  ASSUME CountInv, Happens \/ Fine, UNCHANGED <<server, flow>>,
         run' \in RunType(run.mode), Sent \in Nat, Sent' \in Nat, Sent <= Sent',
         recorder' \in RecorderType, recorder'.delivered <= Len(server.log),
         trace' \in TraceType(run.mode), trace'.mark <= recorder'.delivered,
         PassesAreCounted'
  PROVE  CountInv'
<1>1. RunTypeOK /\ run'.mode = run.mode
  BY DEF CountInv, RunType
<1>2. /\ mishaps' \in 0..MaxMishaps /\ mishaps <= mishaps'
      /\ mishaps \in Nat /\ mishaps' \in Nat
  BY <1>1, MishapsAreBounded, WaitingIsFinite
<1>3. RunTypeOK'
  BY <1>1, <1>2 DEF RunTypeOK
<1>4. Load' = Load
  BY DEF Load, Waiting
<1>5. Load \in Nat
  <2>1. server.messages[Root] \in Nat
    BY <1>1 DEF RunTypeOK, ServerType, Sessions, Turns
  <2> QED
    BY <1>1, <2>1, WaitingIsFinite, LoadIsNatural DEF Load
<1>6. Load' <= Allowed'
  BY <1>1, <1>2, <1>4, <1>5, WaitingIsFinite
  DEF Allowed, CountInv, TurnsAreCounted
<1>7. OthersAnswerOnce'
  BY DEF CountInv, TurnsAreCounted, OthersAnswerOnce
<1> QED
  BY <1>3, <1>6, <1>7 DEF CountInv, TurnsAreCounted

\* One that only goes on in the run.
LEMMA RunMoves ==
  ASSUME CountInv, Happens \/ Fine, EvalKeeps,
         run' \in RunType(run.mode), Sent \in Nat, Sent' \in Nat, Sent <= Sent',
         PassesAreCounted'
  PROVE  CountInv'
<1>1. /\ recorder \in RecorderType /\ recorder.delivered <= Len(server.log)
      /\ trace \in TraceType(run.mode) /\ trace.mark <= recorder.delivered
  BY DEF CountInv, RunTypeOK
<1> QED
  BY <1>1, EngineLooks DEF EvalKeeps

\* One that only stops the runtime before the conversation.
LEMMA CloseEarlyCounts ==
  ASSUME CountInv, Happens \/ Fine, NEW s \in {"invalid", "infra_error"},
         CloseEarly(s)
  PROVE  CountInv'
<1>1. RunTypeOK /\ run \in RunType(run.mode)
  BY DEF CountInv, RunTypeOK
<1>2. /\ run' \in RunType(run.mode) /\ run'.pc = "close"
      /\ run'.pass = run.pass /\ run'.stable = run.stable
  BY <1>1 DEF CloseEarly, RunType, Ending
<1>3. Sent \in Nat /\ Sent' \in Nat /\ Sent <= Sent'
  BY <1>1, <1>2, SentGrows DEF Preflight
<1>4. PassesAreCounted'
  BY <1>2 DEF CountInv, PassesAreCounted, Conversing, Preflight
<1>5. recorder' \in RecorderType /\ recorder'.delivered = recorder.delivered
  BY <1>1 DEF CloseEarly, RunTypeOK, RecorderType
<1> QED
  BY <1>1, <1>2, <1>3, <1>4, <1>5, EngineLooks DEF CloseEarly, RunTypeOK

\* Or one that only returns.
LEMMA ReturnCounts ==
  ASSUME CountInv, Happens \/ Fine, EvalKeeps,
         NEW s \in {"pass", "fail", "invalid", "infra_error", "aborted",
                    "budget_exhausted"}, Return(s)
  PROVE  CountInv'
<1>1. RunTypeOK /\ run \in RunType(run.mode)
  BY DEF CountInv, RunTypeOK
<1>2. /\ run' \in RunType(run.mode) /\ run'.pc = "done"
      /\ run'.pass = run.pass /\ run'.stable = run.stable
  BY <1>1 DEF Return, RunType
<1>3. Sent \in Nat /\ Sent' \in Nat /\ Sent <= Sent'
  BY <1>1, <1>2, SentGrows DEF Preflight
<1>4. PassesAreCounted'
  BY <1>2 DEF CountInv, PassesAreCounted, Conversing, Preflight
<1> QED
  BY <1>2, <1>3, <1>4, RunMoves

\* An early result is no verdict.
LEMMA EarlyIsNoVerdict ==
  ASSUME NEW s \in {"invalid", "infra_error"}
  PROVE  earlyResultForContext(s) \in
           {"invalid", "infra_error", "aborted", "budget_exhausted"}
BY DEF earlyResultForContext

\* The preflight sends nothing.
LEMMA PrepareRunCounts ==
  ASSUME CountInv, PrepareRun
  PROVE  CountInv'
<1>1. RunTypeOK /\ run \in RunType(run.mode)
  BY DEF CountInv, RunTypeOK
<1>2. CASE run' = [run EXCEPT !.pc = "start"] /\ Fine
  <2>1. /\ run' \in RunType(run.mode) /\ run'.pc = "start"
        /\ run'.pass = run.pass /\ run'.stable = run.stable
    BY <1>1, <1>2 DEF RunType
  <2>2. Sent \in Nat /\ Sent' \in Nat /\ Sent <= Sent'
    BY <1>1, <2>1, SentGrows DEF Preflight, PrepareRun
  <2>3. PassesAreCounted'
    BY <2>1 DEF CountInv, PassesAreCounted, PrepareRun, Preflight
  <2> QED
    BY <1>2, <2>1, <2>2, <2>3, RunMoves DEF PrepareRun
<1>3. CASE Return("invalid") /\ Happens
  BY <1>3, ReturnCounts DEF PrepareRun
<1>4. CASE Return(earlyResultForContext("infra_error")) /\ FailsAnyway
  BY <1>4, ReturnCounts, EarlyIsNoVerdict DEF PrepareRun, FailsAnyway
<1> QED  BY <1>2, <1>3, <1>4 DEF PrepareRun

\* The server has answered nothing yet.
LEMMA StartRuntimeCounts ==
  ASSUME CountInv, StartRuntime
  PROVE  CountInv'
<1>1. RunTypeOK /\ run \in RunType(run.mode) /\ server \in ServerType(run.mode)
  BY DEF CountInv, RunTypeOK
<1>2. CASE /\ run' = [run EXCEPT !.pc = "record", !.attested = FALSE]
           /\ server' = [server EXCEPT !.up = TRUE] /\ Fine
  <2>1. /\ run' \in RunType(run.mode) /\ run'.pc = "record"
        /\ run'.pass = run.pass /\ run'.stable = run.stable
    BY <1>1, <1>2 DEF RunType
  <2>2. Sent = 0 /\ Sent' = 0
    BY <2>1 DEF Sent, StartRuntime, Preflight
  <2>3. PassesAreCounted'
    BY <2>1 DEF CountInv, PassesAreCounted, StartRuntime, Preflight
  <2>4. /\ server' \in ServerType(run.mode) /\ server'.log = server.log
        /\ server'.messages = server.messages /\ server'.busy = server.busy
    BY <1>1, <1>2 DEF ServerType
  <2>5. RunTypeOK'
    BY <1>1, <1>2, <2>1, <2>4 DEF RunTypeOK, RunType, StartRuntime, Fine
  <2>6. TurnsAreCounted'
    BY <1>2, <2>2, <2>4 DEF CountInv, TurnsAreCounted, Load, Allowed, Waiting,
       OthersAnswerOnce, StartRuntime, Fine
  <2> QED
    BY <2>3, <2>5, <2>6 DEF CountInv
<1>3. ASSUME NEW s \in {"invalid", "infra_error"},
             Return(earlyResultForContext(s)), UNCHANGED server
      PROVE  CountInv'
  <2>1. EvalKeeps /\ (Happens \/ Fine)
    BY <1>3 DEF EvalKeeps, StartRuntime, Return, Fine, Happens
  <2> QED
    BY <1>3, <2>1, ReturnCounts, EarlyIsNoVerdict
<1> QED  BY <1>2, <1>3 DEF StartRuntime

\* The stream delivers nothing yet.
LEMMA StartRecorderCounts ==
  ASSUME CountInv, StartRecorder
  PROVE  CountInv'
<1>1. RunTypeOK /\ run \in RunType(run.mode) /\ recorder \in RecorderType
  BY DEF CountInv, RunTypeOK
<1>2. CASE /\ run' = [run EXCEPT !.pc = "ready"]
           /\ recorder' = [recorder EXCEPT !.stream = "connected"]
           /\ UNCHANGED <<server, trace, flow>> /\ Fine
  <2>1. /\ run' \in RunType(run.mode) /\ run'.pc = "ready"
        /\ run'.pass = run.pass /\ run'.stable = run.stable
    BY <1>1, <1>2 DEF RunType
  <2>2. Sent \in Nat /\ Sent' \in Nat /\ Sent <= Sent'
    BY <1>1, <2>1, SentGrows DEF Preflight, StartRecorder
  <2>3. PassesAreCounted'
    BY <2>1 DEF CountInv, PassesAreCounted, StartRecorder, Preflight
  <2>4. recorder' \in RecorderType /\ recorder'.delivered = recorder.delivered
    BY <1>1, <1>2 DEF RecorderType
  <2> QED
    BY <1>1, <1>2, <2>1, <2>2, <2>3, <2>4, EngineLooks DEF RunTypeOK
<1>3. CASE CloseEarly("invalid") /\ FailsAnyway
  BY <1>3, CloseEarlyCounts DEF FailsAnyway
<1> QED  BY <1>2, <1>3 DEF StartRecorder

\* The stream has only become live.
LEMMA WaitForServerReadyCounts ==
  ASSUME CountInv, WaitForServerReady
  PROVE  CountInv'
<1>1. RunTypeOK /\ run \in RunType(run.mode)
  BY DEF CountInv, RunTypeOK
<1>2. CASE run' = [run EXCEPT !.pc = "create"] /\ EvalKeeps /\ Fine
  <2>1. /\ run' \in RunType(run.mode) /\ run'.pc = "create"
        /\ run'.pass = run.pass /\ run'.stable = run.stable
    BY <1>1, <1>2 DEF RunType
  <2>2. Sent \in Nat /\ Sent' \in Nat /\ Sent <= Sent'
    BY <1>1, <2>1, SentGrows DEF Preflight, WaitForServerReady
  <2>3. PassesAreCounted'
    BY <2>1 DEF CountInv, PassesAreCounted, WaitForServerReady, Preflight
  <2> QED
    BY <1>2, <2>1, <2>2, <2>3, RunMoves
<1>3. CASE /\ CloseEarly("invalid")
           /\ IF recorder.stream = "broken" THEN Fine ELSE FailsAnyway
  BY <1>3, CloseEarlyCounts DEF FailsAnyway
<1> QED  BY <1>2, <1>3 DEF WaitForServerReady

\* The root is there, and idle.
LEMMA CreateSessionCounts ==
  ASSUME CountInv, CreateSession
  PROVE  CountInv'
<1>1. RunTypeOK /\ run \in RunType(run.mode) /\ server \in ServerType(run.mode)
  BY DEF CountInv, RunTypeOK
<1>2. CASE /\ run' = [run EXCEPT !.pc = "admit"]
           /\ server' = [server EXCEPT !.there = @ \cup {Root},
                                       !.log = Logged(<<"created", Root, 0>>)]
           /\ UNCHANGED <<recorder, trace, flow>> /\ Fine
  <2>1. /\ run' \in RunType(run.mode) /\ run'.pc = "admit"
        /\ run'.pass = run.pass /\ run'.stable = run.stable
    BY <1>1, <1>2 DEF RunType
  <2>2. Sent = 0 /\ Sent' = 0
    BY <2>1 DEF Sent, CreateSession, Preflight
  <2>3. PassesAreCounted'
    BY <2>1 DEF CountInv, PassesAreCounted, CreateSession, Preflight
  <2>4. Root \in Sessions /\ 0 \in Turns(run.mode)
    BY <1>1, WaitingIsFinite DEF Sessions, Turns
  <2>5. /\ server' \in ServerType(run.mode)
        /\ server'.messages = server.messages /\ server'.busy = server.busy
        /\ server'.log = Logged(<<"created", Root, 0>>)
    BY <1>1, <1>2, <2>4, LogGrows DEF ServerType
  <2>6. recorder.delivered <= Len(server'.log)
    <3>1. Len(server'.log) \in Nat /\ Len(server.log) \in Nat
          /\ Len(server'.log) >= Len(server.log) /\ recorder.delivered \in Nat
      BY <1>1, <2>4, <2>5, LogGrows, LenProperties
      DEF ServerType, RunTypeOK, RecorderType
    <3> QED
      BY <1>1, <3>1 DEF RunTypeOK
  <2>7. RunTypeOK'
    BY <1>1, <1>2, <2>1, <2>5, <2>6 DEF RunTypeOK, RunType, Fine
  <2>8. TurnsAreCounted'
    BY <1>2, <2>2, <2>5 DEF CountInv, TurnsAreCounted, Load, Allowed, Waiting,
       OthersAnswerOnce, Fine
  <2> QED
    BY <2>3, <2>7, <2>8 DEF CountInv
<1>3. ASSUME NEW s \in {"invalid", "infra_error"}, CloseEarly(s), FailsAnyway
      PROVE  CountInv'
  BY <1>3, CloseEarlyCounts DEF FailsAnyway
<1> QED  BY <1>2, <1>3 DEF CreateSession

\* The admission reads the events there are.
LEMMA AdmitRootCounts ==
  ASSUME CountInv, AdmitRoot
  PROVE  CountInv'
<1>1. RunTypeOK /\ run \in RunType(run.mode) /\ recorder \in RecorderType
  BY DEF CountInv, RunTypeOK
<1>2. ASSUME NEW n \in Delivered, run' = [run EXCEPT !.pc = "converse"],
             recorder' = [recorder EXCEPT !.delivered = n],
             UNCHANGED <<server, trace, flow>>, Fine
      PROVE  CountInv'
  <2>1. /\ run' \in RunType(run.mode) /\ run'.pc = "converse"
        /\ run'.pass = run.pass /\ run'.stable = run.stable
    BY <1>1, <1>2 DEF RunType, Conversing
  <2>2. Sent \in Nat /\ Sent' \in Nat /\ Sent <= Sent'
    BY <1>1, <2>1, SentGrows DEF Preflight, AdmitRoot
  <2>3. PassesAreCounted'
    BY <2>1 DEF CountInv, PassesAreCounted, AdmitRoot, Preflight
  <2>4. /\ recorder' \in RecorderType /\ recorder'.delivered = n
        /\ n <= Len(server.log) /\ recorder.delivered <= n
    BY <1>1, <1>2, DeliveredIsLogged DEF RecorderType
  <2>5. trace' \in TraceType(run.mode) /\ trace'.mark <= n
    BY <1>1, <1>2, <2>4, DeliveredIsLogged
    DEF RunTypeOK, TraceType, RecorderType
  <2> QED
    BY <1>2, <2>1, <2>2, <2>3, <2>4, <2>5, EngineLooks
<1>3. CASE CloseEarly("invalid") /\ (Fine \/ FailsAnyway)
  BY <1>3, CloseEarlyCounts DEF FailsAnyway
<1> QED  BY <1>2, <1>3 DEF AdmitRoot

\* From the conversation on: a step to a later place of the run.
LEMMA RunGoesOn ==
  ASSUME CountInv, Happens \/ Fine, EvalKeeps, run' \in RunType(run.mode),
         run.pc \in Conversing, run'.pc \in (Conversing \cup {"pass"})
                                              \ {"converse", "await"},
         run'.pass = run.pass, run'.stable = run.stable
  PROVE  CountInv'
<1>1. RunTypeOK
  BY DEF CountInv
<1>2. Sent \in Nat /\ Sent' \in Nat /\ Sent <= Sent'
  BY <1>1, SentGrows DEF Preflight, Conversing
<1>3. PassesAreCounted'
  BY BoundsAreNatural DEF CountInv, PassesAreCounted, Conversing, Preflight
<1> QED
  BY <1>2, <1>3, RunMoves

\* The message that is sent is one the run may send.
LEMMA SendMessageCounts ==
  ASSUME CountInv, SendMessage
  PROVE  CountInv'
<1>1. RunTypeOK /\ run \in RunType(run.mode) /\ server \in ServerType(run.mode)
  BY DEF CountInv, RunTypeOK
<1>2. CASE /\ Root \notin server.busy /\ run' = [run EXCEPT !.pc = "await"]
           /\ server' = [server EXCEPT !.busy = @ \cup {Root}]
           /\ UNCHANGED <<recorder, trace, flow>> /\ Fine
  <2>1. /\ run' \in RunType(run.mode) /\ run'.pc = "await"
        /\ run'.pass = run.pass /\ run'.stable = run.stable
        /\ run'.turn = run.turn /\ run'.mode = run.mode
    BY <1>1, <1>2 DEF RunType, Conversing
  <2>2. Sent' = Sent + 1 /\ Sent \in Nat
    <3>1. Sent = run.turn /\ Sent' = run.turn + 1
      BY <2>1 DEF Sent, SendMessage, Preflight
    <3> QED
      BY <1>1, <3>1, WaitingIsFinite
  <2>3. PassesAreCounted'
    BY <2>1 DEF CountInv, PassesAreCounted, SendMessage, Conversing, Preflight
  <2>4. /\ server' \in ServerType(run.mode) /\ server'.log = server.log
        /\ server'.messages = server.messages
        /\ server'.busy = server.busy \cup {Root}
    BY <1>1, <1>2 DEF ServerType, Sessions
  <2>5. RunTypeOK'
    BY <1>1, <1>2, <2>1, <2>4 DEF RunTypeOK, Fine
  <2>6. OthersAnswerOnce'
    BY <2>4 DEF CountInv, TurnsAreCounted, OthersAnswerOnce
  <2>7. server.messages[Root] \in Nat /\ Cardinality(Waiting) \in Nat
        /\ flow.launched \in Nat /\ mishaps \in Nat
    BY <1>1, WaitingIsFinite DEF ServerType, Sessions, Turns
  <2>8. Load' = Load + 1 /\ Load \in Nat
    <3>1. Waiting' = Waiting /\ flow' = flow
      BY <1>2 DEF Waiting
    <3> QED
      BY <1>2, <2>4, <2>7, <3>1, LoadIsNatural DEF Load
  <2>9. Allowed' = Allowed + 1 /\ Allowed \in Nat
    BY <1>2, <2>2, <2>7 DEF Allowed, Fine
  <2> QED
    BY <2>3, <2>5, <2>6, <2>8, <2>9 DEF CountInv, TurnsAreCounted
<1>3. CASE /\ run' = [run EXCEPT !.pc = "pass", !.error = "contract"]
           /\ EvalKeeps /\ FailsAnyway
  <2>1. /\ run' \in RunType(run.mode) /\ run'.pc = "pass"
        /\ run'.pass = run.pass /\ run'.stable = run.stable
    BY <1>1, <1>3 DEF RunType, Passing
  <2> QED
    BY <1>3, <2>1, RunGoesOn DEF SendMessage, Conversing, FailsAnyway
<1> QED  BY <1>2, <1>3 DEF SendMessage

\* An answer for every question the case foresees.
LEMMA ReceiveResponseCounts ==
  ASSUME CountInv, ReceiveResponse
  PROVE  CountInv'
<1>1. RunTypeOK /\ run \in RunType(run.mode) /\ EvalKeeps
      /\ (Happens \/ Fine) /\ run.pc = "await"
  BY DEF CountInv, RunTypeOK, ReceiveResponse, FailsAnyway
<1>2. ASSUME NEW e \in {"none", "other"},
             run' = [run EXCEPT !.pc = AfterAnswer(e), !.error = e, !.turn = 0,
                                !.response = server.messages[Root],
                                !.latest = server.messages[Root]]
      PROVE  CountInv'
  <2>1. AfterAnswer(e) \in {"initial", "anchor"}
    BY DEF AfterAnswer
  <2>2. server.messages[Root] \in Turns(run.mode) /\ 0 \in 0..Answers[run.mode]
    BY <1>1, TurnsAreBounded, WaitingIsFinite DEF Sessions
  <2>3. /\ run' \in RunType(run.mode) /\ run'.pc \in {"initial", "anchor"}
        /\ run'.pass = run.pass /\ run'.stable = run.stable
    BY <1>1, <1>2, <2>1, <2>2 DEF RunType, Conversing
  <2> QED
    BY <1>1, <2>3, RunGoesOn DEF Conversing
<1>3. CASE /\ run.turn < Answers[run.mode]
           /\ run' = [run EXCEPT !.pc = "converse", !.turn = @ + 1]
  <2>1. run.turn + 1 \in 0..Answers[run.mode]
    BY <1>1, <1>3, WaitingIsFinite DEF RunType
  <2>2. /\ run' \in RunType(run.mode) /\ run'.pc = "converse"
        /\ run'.pass = run.pass /\ run'.stable = run.stable
        /\ run'.turn = run.turn + 1
    BY <1>1, <1>3, <2>1 DEF RunType, Conversing
  <2>3. Sent \in Nat /\ Sent' \in Nat /\ Sent <= Sent'
    BY <1>1, <2>2, SentGrows
  <2>4. PassesAreCounted'
    BY <1>1, <2>2 DEF CountInv, PassesAreCounted, Conversing, Preflight
  <2> QED
    BY <1>1, <2>2, <2>3, <2>4, RunMoves
<1>4. CASE run' = [run EXCEPT !.pc = "pass", !.error = "contract"]
  <2>1. /\ run' \in RunType(run.mode) /\ run'.pc = "pass"
        /\ run'.pass = run.pass /\ run'.stable = run.stable
    BY <1>1, <1>4 DEF RunType, Passing
  <2> QED
    BY <1>1, <2>1, RunGoesOn DEF Conversing
<1> QED  BY <1>2, <1>3, <1>4 DEF ReceiveResponse

\* The driver and the anchor send nothing.
LEMMA DriverCounts ==
  ASSUME CountInv, InitialAnchor \/ PollTurns \/ PollWorkflow \/ AnchorResponse
  PROVE  CountInv'
<1>1. RunTypeOK /\ run \in RunType(run.mode) /\ EvalKeeps
      /\ (Happens \/ Fine) /\ run.pc \in Conversing
  BY DEF CountInv, RunTypeOK, InitialAnchor, PollTurns, PollWorkflow,
     AnchorResponse, FailsAnyway, Conversing
<1>2. /\ server.messages[Root] \in Turns(run.mode)
      /\ run.latest \in Turns(run.mode)
  BY <1>1, TurnsAreBounded DEF Sessions, RunType
<1>3. /\ run' \in RunType(run.mode)
      /\ run'.pc \in {"drive", "terminal", "anchor", "pass"}
      /\ run'.pass = run.pass /\ run'.stable = run.stable
  <2>1. CASE InitialAnchor
    BY ZenonT(60), <1>1, <2>1 DEF InitialAnchor, RunType, Conversing, Passing
  <2>2. CASE DriverFails
    <3>1. CASE run.ctx = "live"
      <4>1. run' = [run EXCEPT !.error = "contract", !.pc = "pass"]
        BY <2>2, <3>1 DEF DriverFails, DriverError
      <4> QED
        BY <1>1, <4>1 DEF RunType, Passing
    <3>2. CASE run.ctx # "live"
      <4>1. run' = [run EXCEPT !.error = "other", !.pc = "anchor"]
        BY <2>2, <3>2 DEF DriverFails, DriverError
      <4>2. "anchor" \in Conversing /\ "other" \in {"none", "contract", "other"}
        BY DEF Conversing
      <4>3. run' \in RunType(run.mode)
        BY <1>1, <4>1, <4>2 DEF RunType
      <4>4. /\ run'.pc = "anchor"
            /\ run'.pass = run.pass /\ run'.stable = run.stable
        BY <1>1, <4>1 DEF RunType
      <4> QED  BY <4>3, <4>4
    <3> QED  BY <3>1, <3>2
  <2>3. CASE PollTurns /\ ~DriverFails
    BY <1>1, <1>2, <2>3 DEF PollTurns, RunType, Conversing
  <2>4. CASE PollWorkflow /\ ~DriverFails
    BY ZenonT(60), <1>1, <1>2, <2>4 DEF PollWorkflow, RunType, Conversing
  <2>5. CASE AnchorResponse
    BY ZenonT(60), <1>1, <2>5 DEF AnchorResponse, RunType, Passing
  <2> QED  BY <2>1, <2>2, <2>3, <2>4, <2>5
<1> QED
  BY <1>1, <1>3, RunGoesOn DEF Conversing

\* A pass begins only where one is left.
LEMMA BeginPassCounts ==
  ASSUME CountInv, BeginPass
  PROVE  CountInv'
<1>1. RunTypeOK /\ run \in RunType(run.mode) /\ recorder \in RecorderType
  BY DEF CountInv, RunTypeOK
<1>2. PICK n \in Delivered :
        /\ trace' = [EmptyTrace EXCEPT !.mark = n, !.frontier = {Root}]
        /\ recorder' = [recorder EXCEPT !.delivered = n]
  BY DEF BeginPass
<1>3. n \in Nat /\ n <= Len(server.log)
  BY <1>1, <1>2, DeliveredIsLogged
<1>4. run.pass + 1 \in 0..MaxPasses /\ run.stable < run.pass + 1
      /\ run.stable <= run.pass + 1
  BY <1>1, BoundsAreNatural DEF BeginPass, CountInv, PassesAreCounted, RunType,
       Preflight
<1>5. /\ run' \in RunType(run.mode) /\ run'.pc = "statuses"
      /\ run'.pass = run.pass + 1 /\ run'.stable = run.stable
  BY <1>1, <1>4 DEF BeginPass, RunType, Passing
<1>6. Sent \in Nat /\ Sent' \in Nat /\ Sent <= Sent'
  BY <1>1, <1>5, SentGrows DEF Preflight
<1>7. PassesAreCounted'
  BY <1>4, <1>5 DEF PassesAreCounted, Conversing, Preflight
<1>8. recorder' \in RecorderType /\ recorder'.delivered = n
  BY <1>1, <1>2, <1>3 DEF RecorderType
<1>9. trace' \in TraceType(run.mode) /\ trace'.mark = n
  BY <1>2, <1>3 DEF EmptyTrace, TraceType, Sessions
<1> QED
  BY <1>3, <1>5, <1>6, <1>7, <1>8, <1>9, EngineLooks DEF BeginPass

\* A step within the walk of one pass.
LEMMA WalkGoesOn ==
  ASSUME CountInv, Happens \/ Fine, UNCHANGED <<server, recorder, flow>>,
         run.pc \in {"statuses", "walk", "messages"},
         NEW p \in {"walk", "messages"}, run' = [run EXCEPT !.pc = p],
         trace' \in TraceType(run.mode), trace'.mark = trace.mark
  PROVE  CountInv'
<1>1. RunTypeOK /\ run \in RunType(run.mode)
  BY DEF CountInv, RunTypeOK
<1>2. /\ run' \in RunType(run.mode) /\ run'.pc = p
      /\ run'.pass = run.pass /\ run'.stable = run.stable
  BY <1>1 DEF RunType, Passing
<1>3. Sent \in Nat /\ Sent' \in Nat /\ Sent <= Sent'
  BY <1>1, <1>2, SentGrows DEF Preflight
<1>4. PassesAreCounted'
  BY <1>2 DEF CountInv, PassesAreCounted, Conversing, Preflight
<1> QED
  BY <1>1, <1>2, <1>3, <1>4, EngineLooks DEF RunTypeOK

\* The statuses name sessions.
LEMMA ReadStatusesCounts ==
  ASSUME CountInv, ReadStatuses
  PROVE  CountInv'
<1>1. trace \in TraceType(run.mode) /\ server.busy \subseteq Sessions
  BY DEF CountInv, RunTypeOK, ServerType
<1>2. trace' \in TraceType(run.mode) /\ trace'.mark = trace.mark
  BY <1>1 DEF ReadStatuses, TraceType
<1> QED
  BY <1>2, WalkGoesOn DEF ReadStatuses, FailsAnyway

\* The children that are listed or announced are sessions.
LEMMA ReadSessionCounts ==
  ASSUME CountInv, NEW s \in Sessions, ReadSession(s)
  PROVE  CountInv'
<1>1. trace \in TraceType(run.mode) /\ run \in RunType(run.mode)
  BY DEF CountInv, RunTypeOK
<1>2. childrenFromEvents(trace.mark) \subseteq Sessions
  BY DEF childrenFromEvents, Sessions
<1>3. trace' \in TraceType(run.mode) /\ trace'.mark = trace.mark
  <2> DEFINE listed == IF s = Root THEN server.there \cap Children ELSE {}
             announced == IF s = Root THEN childrenFromEvents(trace.mark)
                          ELSE {}
  <2>1. listed \cup announced \subseteq Sessions
    BY <1>2 DEF Sessions
  <2>2. CASE trace' = [trace EXCEPT
                          !.reading = {s},
                          !.frontier = (@ \ {s}) \cup listed \cup announced,
                          !.orphan = @ \/ ~(announced \subseteq listed)]
    <3> HIDE DEF listed, announced
    <3>1. (trace.orphan \/ ~(announced \subseteq listed)) \in BOOLEAN
      BY <1>1 DEF TraceType
    <3>2. (trace.frontier \ {s}) \cup listed \cup announced \subseteq Sessions
      BY <1>1, <2>1 DEF TraceType
    <3> QED
      BY <1>1, <2>2, <3>1, <3>2 DEF TraceType
  <2>3. CASE trace' = [trace EXCEPT !.frontier = @ \ {s}, !.failed = TRUE]
    BY <1>1, <2>3 DEF TraceType
  <2> QED  BY <2>2, <2>3 DEF ReadSession
<1>4. PICK p \in {"walk", "messages"} : run' = [run EXCEPT !.pc = p]
  <2>1. CASE UNCHANGED run
    BY <1>1, <2>1 DEF ReadSession, RunType
  <2>2. CASE run' = [run EXCEPT !.pc = "messages"]
    BY <2>2
  <2> QED  BY <2>1, <2>2 DEF ReadSession
<1> QED
  BY <1>3, <1>4, WalkGoesOn DEF ReadSession, FailsAnyway

\* What a listing holds is what a session can have answered.
LEMMA ReadMessagesCounts ==
  ASSUME CountInv, ReadMessages
  PROVE  CountInv'
<1>1. trace \in TraceType(run.mode) /\ RunTypeOK
  BY DEF CountInv, RunTypeOK
<1>2. PICK s \in trace.reading :
        \/ trace' = [trace EXCEPT !.reading = {},
                                  !.seen = @ \cup {<<s, server.messages[s],
                                                     s \in server.busy>>}]
        \/ trace' = [trace EXCEPT !.reading = {}, !.failed = TRUE,
                                  !.seen = @ \cup {<<s, 0, FALSE>>}]
  BY DEF ReadMessages
<1>3. s \in Sessions /\ 0 \in Turns(run.mode)
  BY <1>1, WaitingIsFinite DEF TraceType, Turns
<1>4. server.messages[s] \in Turns(run.mode)
  BY <1>3, TurnsAreBounded
<1>5. trace' \in TraceType(run.mode) /\ trace'.mark = trace.mark
  <2>1. CASE trace' = [trace EXCEPT !.reading = {},
                          !.seen = @ \cup {<<s, server.messages[s],
                                             s \in server.busy>>}]
    <3>1. trace.seen \cup {<<s, server.messages[s], s \in server.busy>>}
            \in SUBSET (Sessions \X Turns(run.mode) \X BOOLEAN)
      <4>1. <<s, server.messages[s], s \in server.busy>>
              \in Sessions \X Turns(run.mode) \X BOOLEAN
        <5>1. \A b \in BOOLEAN : <<s, server.messages[s], b>>
                \in Sessions \X Turns(run.mode) \X BOOLEAN
          BY <1>3, <1>4
        <5>2. (s \in server.busy) \in BOOLEAN
          OBVIOUS
        <5> QED
          BY <5>1, <5>2, Zenon
      <4> QED
        BY <1>1, <4>1 DEF TraceType
    <3> QED
      BY <1>1, <2>1, <3>1 DEF TraceType
  <2>2. CASE trace' = [trace EXCEPT !.reading = {}, !.failed = TRUE,
                                    !.seen = @ \cup {<<s, 0, FALSE>>}]
    <3>1. trace.seen \cup {<<s, 0, FALSE>>}
            \in SUBSET (Sessions \X Turns(run.mode) \X BOOLEAN)
      <4>1. <<s, 0, FALSE>> \in Sessions \X Turns(run.mode) \X BOOLEAN
        BY <1>3
      <4> QED
        BY <1>1, <4>1 DEF TraceType
    <3> QED
      BY <1>1, <2>2, <3>1 DEF TraceType
  <2> QED  BY <1>2, <2>1, <2>2
<1> QED
  BY <1>5, WalkGoesOn DEF ReadMessages, FailsAnyway

\* No pass follows the last one.
LEMMA EndPassCounts ==
  ASSUME CountInv, EndPass
  PROVE  CountInv'
<1>1. RunTypeOK /\ run \in RunType(run.mode) /\ trace \in TraceType(run.mode)
      /\ (Happens \/ Fine)
  BY DEF CountInv, RunTypeOK, EndPass, FailsAnyway
<1>2. run.stable < run.pass /\ run.pass \in Nat /\ run.stable \in Nat
      /\ run.pass <= MaxPasses /\ MaxPasses \in Nat
  BY <1>1, BoundsAreNatural DEF EndPass, CountInv, PassesAreCounted, RunType,
       Preflight
<1>3. CASE run' = [run EXCEPT !.pc = "observe"]
  <2>1. /\ run' \in RunType(run.mode) /\ run'.pc = "observe"
        /\ run'.pass = run.pass /\ run'.stable = run.stable
    BY <1>1, <1>3 DEF RunType, Passing
  <2>2. trace' \in TraceType(run.mode) /\ trace'.mark = trace.mark
    BY <1>1 DEF EndPass, TraceType
  <2>3. Sent \in Nat /\ Sent' \in Nat /\ Sent <= Sent'
    BY <1>1, <2>1, SentGrows DEF Preflight
  <2>4. PassesAreCounted'
    BY <2>1 DEF CountInv, PassesAreCounted, Conversing, Preflight
  <2> QED
    BY <1>1, <2>1, <2>2, <2>3, <2>4, EngineLooks DEF EndPass, RunTypeOK
<1>4. CASE /\ PassesLeft /\ UNCHANGED trace
           /\ run' = [run EXCEPT !.pc = "pass", !.stable = StableAfter,
                                 !.previous = traceFingerprint(trace)]
  <2>1. StableAfter \in 0..MaxPasses /\ StableAfter <= run.pass
    BY <1>2 DEF StableAfter
  <2>2. traceFingerprint(trace) \in
          Nat \X (SUBSET Sessions)
            \X (SUBSET (Sessions \X Turns(run.mode) \X BOOLEAN))
            \X BOOLEAN \X BOOLEAN
    BY <1>1 DEF traceFingerprint, TraceType
  <2>3. run' \in RunType(run.mode)
    BY <1>1, <1>4, <2>1, <2>2 DEF RunType, Passing
  <2>4. /\ run'.pc = "pass" /\ run'.pass = run.pass
        /\ run'.stable = StableAfter
    BY <1>1, <1>4 DEF RunType
  <2>5. Sent \in Nat /\ Sent' \in Nat /\ Sent <= Sent'
    BY <1>1, <2>3, <2>4, SentGrows DEF Preflight
  <2>6. PassesAreCounted'
    BY <1>4, <2>1, <2>4 DEF PassesAreCounted, PassesLeft, Conversing, Preflight
  <2> QED
    BY <1>1, <1>4, <2>3, <2>5, <2>6, EngineLooks DEF EndPass, RunTypeOK
<1> QED  BY <1>3, <1>4 DEF EndPass

\* The observation counts nothing.
LEMMA ObserveCounts ==
  ASSUME CountInv, Observe
  PROVE  CountInv'
<1>1. RunTypeOK /\ run \in RunType(run.mode)
  BY DEF CountInv, RunTypeOK
<1>2. validateObservedRootModel \in BOOLEAN
  BY DEF validateObservedRootModel
<1>3. (IF validateDurableResponse THEN run.error ELSE "contract")
        \in {"none", "contract", "other"}
  BY <1>1 DEF RunType
<1>4. 0 \in 0..MaxPasses
  BY BoundsAreNatural
<1>5. run' \in RunType(run.mode)
  <2> DEFINE Closed(m, e) == [run EXCEPT !.pc = "close", !.model = m,
                                         !.error = e, !.previous = <<>>,
                                         !.stable = 0]
  <2>1. \A m \in BOOLEAN, e \in {"none", "contract", "other"} :
          Closed(m, e) \in RunType(run.mode)
    BY ZenonT(60), <1>1, <1>4 DEF RunType, Ending
  <2>2. run' = Closed(validateObservedRootModel,
                      IF validateDurableResponse THEN run.error ELSE "contract")
    BY Zenon DEF Observe
  <2> HIDE DEF Closed
  <2> QED
    BY <1>2, <1>3, <2>1, <2>2, Zenon
<1>6. run'.pc = "close" /\ run'.pass = run.pass /\ run'.stable = 0
  BY <1>1 DEF Observe, RunType
<1>7. Sent \in Nat /\ Sent' \in Nat /\ Sent <= Sent'
  BY <1>1, <1>5, <1>6, SentGrows DEF Preflight
<1>8. PassesAreCounted'
  BY <1>1, <1>6 DEF PassesAreCounted, Conversing, RunType, Preflight
<1>9. recorder' \in RecorderType /\ recorder'.delivered = recorder.delivered
  BY <1>1 DEF Observe, RunTypeOK, RecorderType
<1> QED
  BY <1>1, <1>5, <1>7, <1>8, <1>9, EngineLooks DEF Observe, RunTypeOK

\* At the end of a run nothing more is counted.
LEMMA EndingCounts ==
  ASSUME CountInv, Happens \/ Fine, UNCHANGED <<recorder, trace>>,
         run.pc \in Ending, run' \in RunType(run.mode), run'.pc \in Ending,
         run'.pass = run.pass, run'.stable = run.stable,
         server' \in ServerType(run.mode), server'.log = server.log,
         server'.messages = server.messages, server'.busy = server.busy,
         flow' \in FlowType, flow'.launched = flow.launched,
         flow'.notice = flow.notice, flow'.live \in {flow.live, {}}
  PROVE  CountInv'
<1>1. RunTypeOK /\ run'.mode = run.mode
  BY DEF CountInv, RunType
<1>2. /\ mishaps' \in 0..MaxMishaps /\ mishaps <= mishaps'
      /\ mishaps \in Nat /\ mishaps' \in Nat
  BY <1>1, MishapsAreBounded, WaitingIsFinite
<1>3. RunTypeOK'
  BY <1>1, <1>2 DEF RunTypeOK
<1>4. PassesAreCounted'
  BY DEF CountInv, PassesAreCounted, Ending, Conversing, Preflight
<1>5. Sent' = Sent
  BY <1>1 DEF Sent, Ending, Preflight
<1>6. server.messages[Root] \in Nat /\ Cardinality(Waiting) \in Nat
      /\ Sent \in Nat /\ flow.launched \in Nat
  BY <1>1, WaitingIsFinite DEF RunTypeOK, ServerType, Sessions, Turns
<1>7. Load' \in Nat /\ Load \in Nat /\ Load' <= Load
  <2>1. Waiting' = Waiting
    BY DEF Waiting, WaitingIn
  <2> QED
    BY <1>6, <2>1, LoadIsNatural DEF Load
<1>8. Load' <= Allowed'
  BY <1>2, <1>5, <1>6, <1>7 DEF Allowed, CountInv, TurnsAreCounted
<1>9. OthersAnswerOnce'
  BY DEF CountInv, TurnsAreCounted, OthersAnswerOnce
<1> QED
  BY <1>3, <1>4, <1>8, <1>9 DEF CountInv, TurnsAreCounted

\* A runtime that stops starts no turn.
LEMMA CloseRuntimeCounts ==
  ASSUME CountInv, CloseRuntime
  PROVE  CountInv'
<1>1. /\ run \in RunType(run.mode) /\ server \in ServerType(run.mode)
      /\ flow \in FlowType
  BY DEF CountInv, RunTypeOK
<1>2. PICK how \in {"ok", "credential", "failed"} :
        /\ run' = [run EXCEPT
                      !.closing = how, !.attested = AttestedByStop(how),
                      !.pc = IF run.mode = "managed" /\ how = "ok"
                             THEN "reconcile" ELSE "stop"]
        /\ server' = [server EXCEPT !.up = @ /\ how = "failed"]
        /\ Happens \/ Fine
  BY DEF CloseRuntime
<1>3. AttestedByStop(how) \in BOOLEAN
  BY DEF AttestedByStop
<1>4. (IF run.mode = "managed" /\ how = "ok" THEN "reconcile" ELSE "stop")
        \in {"reconcile", "stop"}
  OBVIOUS
<1>5. run' \in RunType(run.mode)
  <2> DEFINE Closed(a, p) == [run EXCEPT !.closing = how, !.attested = a,
                                         !.pc = p]
  <2>1. \A a \in BOOLEAN, p \in {"reconcile", "stop"} :
          Closed(a, p) \in RunType(run.mode)
    BY <1>1 DEF RunType, Ending
  <2>2. run' = Closed(AttestedByStop(how),
                      IF run.mode = "managed" /\ how = "ok"
                      THEN "reconcile" ELSE "stop")
    BY <1>2, Zenon
  <2> HIDE DEF Closed
  <2> QED
    BY <1>3, <1>4, <2>1, <2>2, Zenon
<1>6. /\ run'.pc \in Ending
      /\ run'.pass = run.pass /\ run'.stable = run.stable
  BY <1>1, <1>2, <1>4 DEF RunType, Ending
<1>7. (server.up /\ how = "failed") \in BOOLEAN
  OBVIOUS
<1>8. /\ server' \in ServerType(run.mode) /\ server'.log = server.log
      /\ server'.messages = server.messages /\ server'.busy = server.busy
  BY <1>1, <1>2, <1>7 DEF ServerType
<1> QED
  BY <1>1, <1>2, <1>5, <1>6, <1>8, EndingCounts DEF CloseRuntime, Ending

\* A retired job owes no turn.
LEMMA ReconcileManagedCounts ==
  ASSUME CountInv, ReconcileManaged
  PROVE  CountInv'
<1>1. /\ run \in RunType(run.mode) /\ server \in ServerType(run.mode)
      /\ flow \in FlowType
  BY DEF CountInv, RunTypeOK
<1>2. /\ run' \in RunType(run.mode) /\ run'.pc = "stop"
      /\ run'.pass = run.pass /\ run'.stable = run.stable
  BY ZenonT(60), <1>1 DEF ReconcileManaged, RunType, Ending
<1>3. /\ flow' \in FlowType /\ flow'.launched = flow.launched
      /\ flow'.notice = flow.notice /\ flow'.live \in {flow.live, {}}
  BY <1>1 DEF ReconcileManaged, FlowType
<1> QED
  BY <1>1, <1>2, <1>3, EndingCounts DEF ReconcileManaged, Ending

\* The recording ends within the log.
LEMMA StopRecorderCounts ==
  ASSUME CountInv, StopRecorder
  PROVE  CountInv'
<1>1. RunTypeOK /\ run \in RunType(run.mode) /\ recorder \in RecorderType
  BY DEF CountInv, RunTypeOK
<1>2. PICK n \in Delivered :
        /\ recorder' = [recorder EXCEPT !.stream = "ended", !.delivered = n]
        /\ IF run.early # "none"
           THEN Return(earlyResultForContext(run.early))
           ELSE run' = [run EXCEPT
                           !.pc = "judge",
                           !.isolated = /\ ~recorder.err
                                        /\ ~FinalizeRunEvents(trace, n)]
  BY DEF StopRecorder
<1>3. n \in Nat /\ n <= Len(server.log) /\ recorder.delivered <= n
  BY <1>1, <1>2, DeliveredIsLogged
<1>4. recorder' \in RecorderType /\ recorder'.delivered = n
  BY <1>1, <1>2, <1>3 DEF RecorderType
<1>5. /\ run' \in RunType(run.mode) /\ run'.pc \in {"done", "judge"}
      /\ run'.pass = run.pass /\ run'.stable = run.stable
  <2>1. CASE run.early # "none"
    <3>1. run.early \in {"invalid", "infra_error"}
      BY <1>1, <2>1 DEF RunType
    <3>2. earlyResultForContext(run.early) \in
            {"invalid", "infra_error", "aborted", "budget_exhausted"}
      BY <3>1, EarlyIsNoVerdict
    <3>3. PICK z \in {"invalid", "infra_error", "aborted", "budget_exhausted"} :
            run' = [run EXCEPT !.pc = "done", !.status = z]
      BY <1>2, <2>1, <3>2 DEF Return
    <3> QED
      BY <1>1, <3>3 DEF RunType
  <2>2. CASE run.early = "none"
    <3> DEFINE Judged(b) == [run EXCEPT !.pc = "judge", !.isolated = b]
    <3>1. \A b \in BOOLEAN :
            /\ Judged(b) \in RunType(run.mode) /\ Judged(b).pc = "judge"
            /\ Judged(b).pass = run.pass /\ Judged(b).stable = run.stable
      BY ZenonT(60), <1>1 DEF RunType, Ending
    <3>2. run' = Judged(~recorder.err /\ ~FinalizeRunEvents(trace, n))
      BY <1>2, <2>2, Zenon
    <3>3. (~recorder.err /\ ~FinalizeRunEvents(trace, n)) \in BOOLEAN
      OBVIOUS
    <3>4. PICK b \in BOOLEAN : run' = Judged(b)
      BY <3>2, <3>3, Zenon
    <3> HIDE DEF Judged
    <3> QED
      BY <3>1, <3>4
  <2> QED  BY <2>1, <2>2
<1>6. Sent \in Nat /\ Sent' \in Nat /\ Sent <= Sent'
  BY <1>1, <1>5, SentGrows DEF Preflight
<1>7. PassesAreCounted'
  BY <1>5 DEF CountInv, PassesAreCounted, Conversing, Preflight
<1>8. trace' \in TraceType(run.mode) /\ trace'.mark <= n
  BY <1>1, <1>3 DEF StopRecorder, RunTypeOK, TraceType, RecorderType
<1> QED
  BY <1>3, <1>4, <1>5, <1>6, <1>7, <1>8, EngineLooks DEF StopRecorder

\* The overrides lead to a status.
LEMMA FinalStatusIsAStatus ==
  ASSUME NEW v \in {"pass", "fail", "invalid"},
         NEW p \in BOOLEAN, NEW d \in BOOLEAN
  PROVE  FinalStatus(v, p, d) \in {"pass", "fail", "invalid", "infra_error",
                                   "aborted", "budget_exhausted"}
BY DEF FinalStatus, earlyResultForContext

\* The verdict is one of them.
LEMMA JudgeCounts ==
  ASSUME CountInv, Judge
  PROVE  CountInv'
<1>1. \A v \in Verdicts : v \in {"pass", "fail", "invalid"}
  BY DEF Verdicts
<1> QED
  BY <1>1, FinalStatusIsAStatus, ReturnCounts DEF Judge

\* Engine.Run keeps the counts.
LEMMA EngineCounts == CountInv /\ Engine => CountInv'
BY PrepareRunCounts, StartRuntimeCounts, StartRecorderCounts,
   WaitForServerReadyCounts, CreateSessionCounts, AdmitRootCounts,
   SendMessageCounts, ReceiveResponseCounts, DriverCounts, BeginPassCounts,
   ReadStatusesCounts, ReadSessionCounts, ReadMessagesCounts, EndPassCounts,
   ObserveCounts, CloseRuntimeCounts, ReconcileManagedCounts,
   StopRecorderCounts, JudgeCounts
DEF Engine

\* And a step that does nothing keeps them.
LEMMA StutterCounts == CountInv /\ UNCHANGED runVars => CountInv'
BY DEF runVars, CountInv, RunTypeOK, TurnsAreCounted, PassesAreCounted, Load,
   Allowed, Sent, Waiting, OthersAnswerOnce, Preflight

\* At first nothing is counted.
LEMMA InitCounts == RunInit => CountInv
<1> SUFFICES ASSUME RunInit PROVE CountInv
  OBVIOUS
<1>1. /\ MaxJobs \in Nat /\ MaxMishaps \in Nat /\ MaxPasses \in Nat
      /\ MaxPasses # 0 /\ run.mode \in Modes
  BY BoundsAreNatural DEF RunInit
<1>2. Answers[run.mode] \in Nat
  BY <1>1, CasesAreDescribed
<1>3. 0 \in Turns(run.mode) /\ 0 \in 0..MaxPasses /\ 0 \in 0..Answers[run.mode]
  BY <1>1, <1>2 DEF Turns
<1>4. run \in RunType(run.mode)
  BY <1>3 DEF RunInit, RunType
<1>5. server \in ServerType(run.mode) /\ Len(server.log) = 0
  BY <1>3, EmptySeq DEF RunInit, ServerType
<1>6. recorder \in RecorderType /\ trace \in TraceType(run.mode)
      /\ recorder.delivered = 0 /\ trace.mark = 0
  BY DEF RunInit, RecorderType, TraceType, EmptyTrace
<1>7. flow \in FlowType /\ flow.launched = 0 /\ flow.live = {}
  BY <1>1 DEF RunInit, FlowType
<1>8. RunTypeOK
  BY <1>1, <1>4, <1>5, <1>6, <1>7 DEF RunTypeOK, RunInit
<1>9. Load = 0 /\ Allowed = 0
  <2>1. Waiting = {}
    BY DEF RunInit, Waiting, WaitingIn
  <2>2. Cardinality(Waiting) = 0
    BY <2>1, FS_EmptySet
  <2>3. server.messages[Root] = 0 /\ server.busy = {} /\ mishaps = 0
    BY DEF RunInit, Sessions
  <2>4. Sent = 0
    BY DEF RunInit, Sent, Preflight
  <2> QED
    BY <1>7, <2>2, <2>3, <2>4 DEF Load, Allowed
<1>10. OthersAnswerOnce
  BY DEF RunInit, OthersAnswerOnce
<1>11. PassesAreCounted
  BY DEF RunInit, PassesAreCounted, Conversing, Preflight
<1> QED
  BY <1>8, <1>9, <1>10, <1>11 DEF CountInv, TurnsAreCounted

-----------------------------------------------------------------------------
(* The log, and the end of the runtime.                                    *)

ControlInv == LogIsComplete /\ CleanupIsKnown

\* The locals of Engine.Run that it sets once.
KeepsItsEnd ==
  /\ run'.mode = run.mode /\ run'.early = run.early
  /\ run'.status = run.status /\ run'.attested = run.attested
  /\ run'.closing = run.closing /\ run'.isolated = run.isolated

Middle == Conversing \cup Passing

\* A step from the conversation or a pass to another place of theirs.
LEMMA EngineInTheMiddle ==
  ASSUME RunTypeOK,
         \/ SendMessage \/ ReceiveResponse \/ InitialAnchor \/ PollTurns
         \/ PollWorkflow \/ AnchorResponse \/ BeginPass \/ ReadStatuses
         \/ \E s \in Sessions : ReadSession(s)
         \/ ReadMessages \/ EndPass
  PROVE  /\ run.pc \in Middle /\ run'.pc \in Middle /\ KeepsItsEnd
         /\ server'.up = server.up /\ server'.there = server.there
         /\ server'.messages = server.messages /\ server'.log = server.log
         /\ flow' = flow /\ recorder'.stream = recorder.stream
<1>0. /\ run \in RunType(run.mode) /\ server \in ServerType(run.mode)
      /\ recorder \in RecorderType
  BY DEF RunTypeOK
<1> USE DEF Middle, Conversing, Passing
<1>1. CASE SendMessage
  <2>1. run.pc \in Middle /\ run'.pc \in Middle
    BY <1>0, <1>1 DEF SendMessage, EvalKeeps, RunType
  <2>2. KeepsItsEnd
    BY <1>0, <1>1 DEF SendMessage, EvalKeeps, RunType, KeepsItsEnd
  <2> QED
    BY <1>0, <1>1, <2>1, <2>2
    DEF SendMessage, EvalKeeps, ServerType, RecorderType
<1>2. CASE ReceiveResponse
  <2>1. run.pc \in Middle /\ run'.pc \in Middle
    BY <1>0, <1>2 DEF ReceiveResponse, EvalKeeps, AfterAnswer, RunType
  <2>2. KeepsItsEnd
    BY ZenonT(60), <1>0, <1>2
    DEF ReceiveResponse, EvalKeeps, AfterAnswer, RunType, KeepsItsEnd
  <2> QED
    BY <1>0, <1>2, <2>1, <2>2
    DEF ReceiveResponse, EvalKeeps, AfterAnswer, ServerType, RecorderType
<1>3. CASE InitialAnchor
  <2>1. run.pc \in Middle /\ run'.pc \in Middle
    BY <1>0, <1>3 DEF InitialAnchor, EvalKeeps, RunType
  <2>2. KeepsItsEnd
    BY <1>0, <1>3 DEF InitialAnchor, EvalKeeps, RunType, KeepsItsEnd
  <2> QED
    BY <1>0, <1>3, <2>1, <2>2
    DEF InitialAnchor, EvalKeeps, ServerType, RecorderType
<1>4. CASE PollTurns
  <2>1. run.pc \in Middle /\ run'.pc \in Middle
    BY <1>0, <1>4 DEF PollTurns, EvalKeeps, DriverFails, RunType
  <2>2. KeepsItsEnd
    BY <1>0, <1>4 DEF PollTurns, EvalKeeps, DriverFails, RunType, KeepsItsEnd
  <2> QED
    BY <1>0, <1>4, <2>1, <2>2
    DEF PollTurns, EvalKeeps, DriverFails, ServerType, RecorderType
<1>5. CASE PollWorkflow
  <2>1. run.pc \in Middle /\ run'.pc \in Middle
    BY <1>0, <1>5 DEF PollWorkflow, EvalKeeps, DriverFails, RunType
  <2>2. KeepsItsEnd
    BY <1>0, <1>5 DEF PollWorkflow, EvalKeeps, DriverFails, RunType, KeepsItsEnd
  <2> QED
    BY <1>0, <1>5, <2>1, <2>2
    DEF PollWorkflow, EvalKeeps, DriverFails, ServerType, RecorderType
<1>6. CASE AnchorResponse
  <2>1. run.pc \in Middle /\ run'.pc \in Middle
    BY <1>0, <1>6 DEF AnchorResponse, EvalKeeps, RunType
  <2>2. KeepsItsEnd
    BY <1>0, <1>6 DEF AnchorResponse, EvalKeeps, RunType, KeepsItsEnd
  <2> QED
    BY <1>0, <1>6, <2>1, <2>2
    DEF AnchorResponse, EvalKeeps, ServerType, RecorderType
<1>7. CASE BeginPass
  <2>1. run.pc \in Middle /\ run'.pc \in Middle
    BY <1>0, <1>7 DEF BeginPass, RunType
  <2>2. KeepsItsEnd
    BY <1>0, <1>7 DEF BeginPass, RunType, KeepsItsEnd
  <2> QED
    BY <1>0, <1>7, <2>1, <2>2 DEF BeginPass, ServerType, RecorderType
<1>8. CASE ReadStatuses
  <2>1. run.pc \in Middle /\ run'.pc \in Middle
    BY <1>0, <1>8 DEF ReadStatuses, RunType
  <2>2. KeepsItsEnd
    BY <1>0, <1>8 DEF ReadStatuses, RunType, KeepsItsEnd
  <2> QED
    BY <1>0, <1>8, <2>1, <2>2 DEF ReadStatuses, ServerType, RecorderType
<1>9. CASE \E s \in Sessions : ReadSession(s)
  <2>1. run.pc \in Middle /\ run'.pc \in Middle
    BY <1>0, <1>9 DEF ReadSession, RunType
  <2>2. KeepsItsEnd
    BY <1>0, <1>9 DEF ReadSession, RunType, KeepsItsEnd
  <2> QED
    BY <1>0, <1>9, <2>1, <2>2 DEF ReadSession, ServerType, RecorderType
<1>10. CASE ReadMessages
  <2>1. run.pc \in Middle /\ run'.pc \in Middle
    BY <1>0, <1>10 DEF ReadMessages, RunType
  <2>2. KeepsItsEnd
    BY <1>0, <1>10 DEF ReadMessages, RunType, KeepsItsEnd
  <2> QED
    BY <1>0, <1>10, <2>1, <2>2 DEF ReadMessages, ServerType, RecorderType
<1>11. CASE EndPass
  <2>1. run.pc \in Middle /\ run'.pc \in Middle
    BY <1>0, <1>11 DEF EndPass, RunType
  <2>2. KeepsItsEnd
    BY <1>0, <1>11 DEF EndPass, RunType, KeepsItsEnd
  <2> QED
    BY <1>0, <1>11, <2>1, <2>2 DEF EndPass, ServerType, RecorderType
<1> QED
  BY <1>1, <1>2, <1>3, <1>4, <1>5, <1>6, <1>7, <1>8, <1>9, <1>10, <1>11

\* What the server, its plugin, the stream and the deadline leave of it.
LEMMA EnvironmentOfTheRun ==
  ASSUME RunTypeOK, RunEnvironment
  PROVE  /\ run'.pc = run.pc /\ KeepsItsEnd /\ run'.accepted = run.accepted
         /\ run'.anchored = run.anchored /\ run'.response = run.response
         /\ trace' = trace
         /\ server'.up => server.up
         /\ flow'.live # {} =>
            flow.live # {} \/ (server.up /\ run.mode = "managed")
         /\ recorder.stream \notin {"none", "connected"} =>
              recorder'.stream \notin {"none", "connected"}
         /\ recorder.stream \notin {"connected", "live"} => recorder' = recorder
<1>0. /\ run \in RunType(run.mode) /\ server \in ServerType(run.mode)
      /\ recorder \in RecorderType /\ flow \in FlowType
  BY DEF RunTypeOK
<1> USE DEF KeepsItsEnd
<1>1. CASE \E c \in Children : Delegate(c)
  BY <1>0, <1>1 DEF Delegate, ServerType
<1>2. CASE \E s \in Sessions : Respond(s)
  BY <1>0, <1>2 DEF Respond, ServerType
<1>3. CASE \E s \in Sessions : DeleteSession(s)
  BY <1>0, <1>3 DEF DeleteSession, ServerType
<1>4. CASE \E f \in Foreigners : OpenForeign(f)
  BY <1>0, <1>4 DEF OpenForeign, ServerType
<1>5. CASE ServerDies
  BY <1>0, <1>5 DEF ServerDies, ServerType
<1>6. CASE StreamGoesLive
  BY <1>0, <1>6 DEF StreamGoesLive, RecorderType
<1>7. CASE StreamEnds
  BY <1>0, <1>7 DEF StreamEnds, RecorderType
<1>8. CASE \E h \in {"canceled", "expired"} : ContextEnds(h)
  BY <1>0, <1>8 DEF ContextEnds, RunType
<1>9. CASE ServerStopsWithContext
  BY <1>0, <1>9 DEF ServerStopsWithContext, ServerType
<1>10. CASE LaunchJob
  BY <1>0, <1>10 DEF LaunchJob, Serving, InProgress, FlowType
<1>11. CASE \E z \in {"expected", "other"} : FinishJob(z)
  BY <1>0, <1>11 DEF FinishJob, FlowType
<1>12. CASE \E j \in Jobs : Wake(j)
  BY <1>0, <1>12 DEF Wake, ServerType, FlowType
<1>13. CASE \E j \in Jobs : Acknowledge(j)
  BY <1>0, <1>13 DEF Acknowledge, FlowType
<1> QED
  BY <1>1, <1>2, <1>3, <1>4, <1>5, <1>6, <1>7, <1>8, <1>9, <1>10, <1>11,
     <1>12, <1>13
  DEF RunEnvironment, Plugin

\* The environment leaves the end of the run to the run.
LEMMA EnvironmentKeepsControl ==
  ASSUME RunTypeOK, ControlInv, RunEnvironment
  PROVE  ControlInv'
<1>1. LogIsComplete'
  BY EnvironmentOfTheRun DEF ControlInv, LogIsComplete, Underway, KeepsItsEnd
<1>2. CleanupIsKnown'
  BY EnvironmentOfTheRun DEF ControlInv, CleanupIsKnown, KeepsItsEnd
<1> QED  BY <1>1, <1>2 DEF ControlInv

\* Between the preflight and the end nothing is decided.
LEMMA MiddleKeepsControl ==
  ASSUME ControlInv, run.pc \in Middle, run'.pc \in Middle, KeepsItsEnd,
         server'.up = server.up, flow' = flow,
         recorder'.stream = recorder.stream
  PROVE  ControlInv'
<1>1. LogIsComplete'
  BY DEF ControlInv, LogIsComplete, Underway, KeepsItsEnd, Middle, Conversing,
     Passing, Ending
<1>2. CleanupIsKnown'
  BY DEF ControlInv, CleanupIsKnown, KeepsItsEnd, Middle, Conversing, Passing
<1> QED  BY <1>1, <1>2 DEF ControlInv

\* The preflight gives up: the runtime is still to be stopped.
LEMMA CloseEarlyKeepsControl ==
  ASSUME RunTypeOK, ControlInv,
         run.pc \in {"record", "ready", "create", "admit"},
         NEW s \in {"invalid", "infra_error"}, CloseEarly(s)
  PROVE  ControlInv'
<1>1. /\ run'.pc = "close" /\ run'.early = s /\ run'.mode = run.mode
      /\ run'.status = run.status /\ run'.attested = run.attested
      /\ server' = server /\ flow' = flow
  BY DEF CloseEarly, RunTypeOK, RunType
<1>2. LogIsComplete'
  BY <1>1 DEF ControlInv, LogIsComplete, Underway, Conversing, Passing, Ending
<1>3. CleanupIsKnown'
  BY <1>1 DEF ControlInv, CleanupIsKnown
<1> QED  BY <1>2, <1>3 DEF ControlInv

\* A run that returns with a status that is no verdict.
LEMMA ReturnKeepsControl ==
  ASSUME RunTypeOK, ControlInv,
         NEW s \in {"invalid", "infra_error", "aborted", "budget_exhausted"},
         run' = [run EXCEPT !.pc = "done", !.status = s],
         server'.up = server.up, flow' = flow
  PROVE  ControlInv'
<1>1. /\ run'.pc = "done" /\ run'.early = run.early /\ run'.mode = run.mode
      /\ run'.status = s /\ run'.attested = run.attested
  BY DEF RunTypeOK, RunType
<1>2. LogIsComplete'
  BY <1>1 DEF ControlInv, LogIsComplete, Underway, Conversing, Passing, Ending
<1>3. CleanupIsKnown'
  BY <1>1 DEF ControlInv, CleanupIsKnown
<1> QED  BY <1>2, <1>3 DEF ControlInv

\* The preflight ends early, or with the stream live.
LEMMA PreflightKeepsControl ==
  ASSUME RunTypeOK, ControlInv,
         \/ PrepareRun \/ StartRuntime \/ StartRecorder \/ WaitForServerReady
         \/ CreateSession \/ AdmitRoot
  PROVE  ControlInv'
<1>0. /\ run \in RunType(run.mode) /\ server \in ServerType(run.mode)
      /\ recorder \in RecorderType
  BY DEF RunTypeOK
<1> DEFINE Heads(p) == /\ run'.pc = p /\ run'.early = run.early
                       /\ run'.mode = run.mode /\ run'.status = run.status
                       /\ run'.closing = run.closing /\ flow' = flow
<1> USE DEF ControlInv, LogIsComplete, CleanupIsKnown, Underway, Conversing,
            Passing, Ending
<1>1. CASE PrepareRun
  <2>1. CASE run' = [run EXCEPT !.pc = "start"]
    <3>1. Heads("start") /\ run'.attested = run.attested /\ server' = server
      BY <1>0, <1>1, <2>1 DEF PrepareRun, EvalKeeps, RunType
    <3> QED
      BY <1>1, <3>1 DEF PrepareRun
  <2>2. CASE Return("invalid") \/ Return(earlyResultForContext("infra_error"))
    BY <1>1, <2>2, EarlyIsNoVerdict, ReturnKeepsControl
    DEF PrepareRun, EvalKeeps, Return
  <2> QED  BY <1>1, <2>1, <2>2 DEF PrepareRun
<1>2. CASE StartRuntime
  <2>1. CASE /\ run' = [run EXCEPT !.pc = "record", !.attested = FALSE]
             /\ server' = [server EXCEPT !.up = TRUE]
    <3>1. Heads("record") /\ ~run'.attested
      BY <1>0, <1>2, <2>1 DEF StartRuntime, RunType
    <3> QED
      BY <1>2, <3>1 DEF StartRuntime
  <2>2. ASSUME NEW s \in {"invalid", "infra_error"}, UNCHANGED server,
               Return(earlyResultForContext(s))
        PROVE  ControlInv'
    BY <1>2, <2>2, EarlyIsNoVerdict, ReturnKeepsControl
    DEF StartRuntime, Return
  <2> QED  BY <1>2, <2>1, <2>2 DEF StartRuntime
<1>3. CASE StartRecorder
  <2>1. CASE /\ run' = [run EXCEPT !.pc = "ready"]
             /\ recorder' = [recorder EXCEPT !.stream = "connected"]
             /\ UNCHANGED <<server, trace, flow>>
    <3>1. Heads("ready") /\ run'.attested = run.attested /\ server' = server
      BY <1>0, <2>1 DEF RunType
    <3> QED
      BY <1>3, <3>1 DEF StartRecorder
  <2>2. CASE CloseEarly("invalid")
    BY <1>3, <2>2, CloseEarlyKeepsControl DEF StartRecorder
  <2> QED  BY <1>3, <2>1, <2>2 DEF StartRecorder
<1>4. CASE WaitForServerReady
  <2>1. CASE run' = [run EXCEPT !.pc = "create"] /\ EvalKeeps
             /\ recorder.stream = "live"
    <3>1. Heads("create") /\ run'.attested = run.attested /\ server' = server
          /\ recorder' = recorder
      BY <1>0, <2>1 DEF RunType, EvalKeeps
    <3> QED
      BY <1>4, <2>1, <3>1 DEF WaitForServerReady
  <2>2. CASE CloseEarly("invalid")
    BY <1>4, <2>2, CloseEarlyKeepsControl DEF WaitForServerReady
  <2> QED  BY <1>4, <2>1, <2>2 DEF WaitForServerReady
<1>5. CASE CreateSession
  <2>1. CASE /\ run' = [run EXCEPT !.pc = "admit"]
             /\ UNCHANGED <<recorder, trace, flow>>
             /\ server' = [server EXCEPT !.there = @ \cup {Root},
                                         !.log = Logged(<<"created", Root, 0>>)]
    <3>1. Heads("admit") /\ run'.attested = run.attested
          /\ server'.up = server.up /\ recorder' = recorder
      BY <1>0, <2>1 DEF RunType, ServerType
    <3> QED
      BY <1>5, <3>1 DEF CreateSession
  <2>2. CASE \E s \in {"invalid", "infra_error"} : CloseEarly(s)
    BY <1>5, <2>2, CloseEarlyKeepsControl DEF CreateSession
  <2> QED  BY <1>5, <2>1, <2>2 DEF CreateSession
<1>6. CASE AdmitRoot
  <2>1. ASSUME NEW n \in Delivered, run' = [run EXCEPT !.pc = "converse"],
               recorder' = [recorder EXCEPT !.delivered = n],
               UNCHANGED <<server, trace, flow>>
        PROVE  ControlInv'
    <3>1. Heads("converse") /\ run'.attested = run.attested /\ server' = server
          /\ recorder'.stream = recorder.stream
      BY <1>0, <2>1 DEF RunType, RecorderType, Conversing
    <3> QED
      BY <1>6, <3>1 DEF AdmitRoot
  <2>2. CASE CloseEarly("invalid")
    BY <1>6, <2>2, CloseEarlyKeepsControl DEF AdmitRoot
  <2> QED  BY <1>6, <2>1, <2>2 DEF AdmitRoot
<1> QED
  BY <1>1, <1>2, <1>3, <1>4, <1>5, <1>6

\* A verdict is given only where the runtime was stopped and attested, the
\* recording kept the fence and the trace is whole.
LEMMA PassIsEarned ==
  ASSUME RunTypeOK, NEW v \in Verdicts, NEW p \in BOOLEAN, NEW d \in BOOLEAN
  PROVE  /\ FinalStatus(v, p, d) \in {"pass", "fail"} =>
              run.closing \notin {"credential", "failed"}
         /\ FinalStatus(v, p, d) = "pass" =>
              run.isolated /\ StructurallyComplete(trace)
<1>1. CASE run.closing \in {"credential", "failed"}
  <2>1. FinalStatus(v, p, d) \notin {"pass", "fail"}
    BY <1>1 DEF FinalStatus, earlyResultForContext
  <2> QED  BY <2>1
<1>2. CASE run.closing \notin {"credential", "failed"} /\ ~run.isolated
  <2>1. FinalStatus(v, p, d) # "pass"
    BY <1>2 DEF FinalStatus, earlyResultForContext
  <2> QED  BY <1>2, <2>1
<1>3. CASE run.closing \notin {"credential", "failed"} /\ run.isolated
  <2>1. FinalStatus(v, p, d) = "pass" => v = "pass"
    BY <1>3 DEF FinalStatus, earlyResultForContext
  <2>2. v = "pass" => StructurallyComplete(trace)
    BY DEF Verdicts
  <2> QED  BY <1>3, <2>1, <2>2
<1> QED  BY <1>1, <1>2, <1>3

\* The end of the run stops the runtime before it attests that.
LEMMA EndingKeepsControl ==
  ASSUME RunTypeOK, ControlInv,
         Observe \/ CloseRuntime \/ ReconcileManaged \/ StopRecorder \/ Judge
  PROVE  ControlInv'
<1>0. /\ run \in RunType(run.mode) /\ server \in ServerType(run.mode)
      /\ recorder \in RecorderType /\ flow \in FlowType
  BY DEF RunTypeOK
<1>1. CASE Observe
  <2>1. /\ run'.pc = "close" /\ KeepsItsEnd /\ server' = server /\ flow' = flow
        /\ recorder'.stream = recorder.stream
    BY <1>0, <1>1 DEF Observe, RunType, RecorderType, KeepsItsEnd
  <2>2. LogIsComplete'
    BY <1>1, <2>1 DEF Observe, ControlInv, LogIsComplete, Underway, KeepsItsEnd,
       Passing, Conversing, Ending
  <2>3. CleanupIsKnown'
    BY <1>1, <2>1 DEF Observe, ControlInv, CleanupIsKnown, KeepsItsEnd
  <2> QED  BY <2>2, <2>3 DEF ControlInv
<1>2. CASE CloseRuntime
  <2>1. PICK how \in {"ok", "credential", "failed"} :
          /\ run' = [run EXCEPT
                        !.closing = how, !.attested = AttestedByStop(how),
                        !.pc = IF run.mode = "managed" /\ how = "ok"
                               THEN "reconcile" ELSE "stop"]
          /\ server' = [server EXCEPT !.up = @ /\ how = "failed"]
    BY <1>2 DEF CloseRuntime
  <2>2. /\ run'.mode = run.mode /\ run'.early = run.early
        /\ run'.status = run.status /\ run'.closing = how
    BY <1>0, <2>1 DEF RunType
  <2>3. run'.pc = IF run.mode = "managed" /\ how = "ok"
                  THEN "reconcile" ELSE "stop"
    BY <1>0, <2>1 DEF RunType
  <2>4. run'.attested <=> run.mode # "managed" /\ how = "ok"
    BY <1>0, <2>1 DEF RunType, AttestedByStop
  <2>5. how # "failed" => ~server'.up
    BY <1>0, <2>1 DEF ServerType
  <2>6. recorder' = recorder /\ flow' = flow /\ run.pc = "close"
    BY <1>2 DEF CloseRuntime
  <2>7. LogIsComplete'
    BY <2>2, <2>3, <2>6 DEF ControlInv, LogIsComplete, Underway, Conversing,
       Passing, Ending
  <2>8. CleanupIsKnown'
    BY <2>2, <2>3, <2>4, <2>5, <2>6 DEF ControlInv, CleanupIsKnown
  <2> QED  BY <2>7, <2>8 DEF ControlInv
<1>3. CASE ReconcileManaged
  <2>1. /\ run'.pc = "stop" /\ run'.mode = run.mode /\ run'.early = run.early
        /\ run'.status = run.status /\ run.pc = "reconcile"
        /\ server' = server /\ recorder' = recorder
    BY <1>0, <1>3 DEF ReconcileManaged, RunType
  <2>2. \/ run'.attested /\ run'.closing = run.closing /\ flow'.live = {}
        \/ /\ run'.attested = run.attested /\ run'.closing = "failed"
           /\ flow' = flow
    BY <1>0, <1>3 DEF ReconcileManaged, RunType, FlowType
  <2>3. LogIsComplete'
    BY <2>1 DEF ControlInv, LogIsComplete, Underway, Conversing, Passing, Ending
  <2>4. CleanupIsKnown'
    BY <2>1, <2>2 DEF ControlInv, CleanupIsKnown
  <2> QED  BY <2>3, <2>4 DEF ControlInv
<1>4. CASE StopRecorder
  <2>1. /\ server' = server /\ flow' = flow /\ run.pc = "stop"
        /\ recorder'.stream = "ended"
    BY <1>0, <1>4 DEF StopRecorder, RecorderType
  <2>2. CASE run.early # "none"
    <3>1. run.early \in {"invalid", "infra_error"}
      BY <1>0, <2>2 DEF RunType
    <3>2. PICK s \in {"invalid", "infra_error", "aborted", "budget_exhausted"} :
            run' = [run EXCEPT !.pc = "done", !.status = s]
      BY <1>4, <2>2, <3>1, EarlyIsNoVerdict DEF StopRecorder, Return
    <3> QED
      BY <2>1, <3>2, ReturnKeepsControl
  <2>3. CASE run.early = "none"
    <3>1. /\ run'.pc = "judge" /\ run'.mode = run.mode /\ run'.early = "none"
          /\ run'.status = run.status /\ run'.attested = run.attested
          /\ run'.closing = run.closing
      BY <1>0, <1>4, <2>3 DEF StopRecorder, RunType
    <3>2. LogIsComplete'
      BY <2>1, <3>1
      DEF ControlInv, LogIsComplete, Underway, Conversing, Passing,
         Ending
    <3>3. CleanupIsKnown'
      BY <2>1, <3>1 DEF ControlInv, CleanupIsKnown
    <3> QED  BY <3>2, <3>3 DEF ControlInv
  <2> QED  BY <2>2, <2>3
<1>5. CASE Judge
  <2>1. PICK v \in Verdicts, p \in BOOLEAN, d \in BOOLEAN :
          run' = [run EXCEPT !.pc = "done", !.status = FinalStatus(v, p, d)]
    BY <1>5 DEF Judge, Return
  <2>2. /\ run'.pc = "done" /\ run'.mode = run.mode /\ run'.early = run.early
        /\ run'.status = FinalStatus(v, p, d) /\ run'.attested = run.attested
        /\ server' = server /\ flow' = flow /\ recorder' = recorder
    BY <1>0, <1>5, <2>1 DEF Judge, EvalKeeps, RunType
  <2>3. run.closing \in {"none", "ok", "credential", "failed"}
    BY <1>0 DEF RunType
  <2>4. LogIsComplete'
    BY <1>5, <2>2 DEF Judge, ControlInv, LogIsComplete, Underway, Conversing,
       Passing, Ending
  <2>5. CleanupIsKnown'
    BY <1>5, <2>1, <2>2, <2>3, PassIsEarned
    DEF Judge, ControlInv, CleanupIsKnown
  <2> QED  BY <2>4, <2>5 DEF ControlInv
<1> QED  BY <1>1, <1>2, <1>3, <1>4, <1>5

\* Every step keeps the log complete and the cleanup known.
LEMMA ControlStep ==
  ASSUME RunTypeOK, ControlInv, [RunNext]_runVars
  PROVE  ControlInv'
<1>1. CASE RunEnvironment
  BY <1>1, EnvironmentKeepsControl
<1>2. CASE Engine
  <2>1. CASE \/ PrepareRun \/ StartRuntime \/ StartRecorder
             \/ WaitForServerReady \/ CreateSession \/ AdmitRoot
    BY <2>1, PreflightKeepsControl
  <2>2. CASE \/ SendMessage \/ ReceiveResponse \/ InitialAnchor \/ PollTurns
             \/ PollWorkflow \/ AnchorResponse \/ BeginPass \/ ReadStatuses
             \/ \E s \in Sessions : ReadSession(s)
             \/ ReadMessages \/ EndPass
    BY <2>2, EngineInTheMiddle, MiddleKeepsControl
  <2>3. CASE \/ Observe \/ CloseRuntime \/ ReconcileManaged \/ StopRecorder
             \/ Judge
    BY <2>3, EndingKeepsControl
  <2> QED  BY <1>2, <2>1, <2>2, <2>3 DEF Engine
<1>3. CASE UNCHANGED runVars
  BY <1>3 DEF runVars, ControlInv, LogIsComplete, CleanupIsKnown, Underway
<1> QED  BY <1>1, <1>2, <1>3 DEF RunNext

\* At first there is nothing to clean up.
LEMMA InitControl == RunInit => ControlInv
BY DEF RunInit, ControlInv, LogIsComplete, CleanupIsKnown, Underway, Conversing,
   Passing, Ending

-----------------------------------------------------------------------------
(* The accepted workflow.                                                  *)

Settled ==
  /\ Root \notin server.busy /\ flow.live = {}
  /\ \A j \in Jobs : flow.notice[j] \in {"absent", "acked"}

\* The plugin has nothing to do where no job lives, no notification is owed
\* and the root is at rest.
LEMMA PluginIsIdle ==
  ASSUME RunTypeOK, Settled, RunEnvironment
  PROVE  /\ Settled' /\ flow'.notice = flow.notice
         /\ flow'.launched = flow.launched
<1>0. server \in ServerType(run.mode)
  BY DEF RunTypeOK
<1>1. ASSUME NEW c \in Children, Delegate(c)
      PROVE  flow' = flow /\ server'.busy = server.busy \cup {c} /\ c # Root
  BY <1>0, <1>1, SessionsAreDistinct DEF Delegate, ServerType
<1>2. ASSUME NEW s \in Sessions, Respond(s) \/ DeleteSession(s)
      PROVE  flow' = flow /\ server'.busy = server.busy \ {s}
  BY <1>0, <1>2 DEF Respond, DeleteSession, ServerType
<1>3. ASSUME \/ \E f \in Foreigners : OpenForeign(f)
             \/ ServerDies \/ StreamGoesLive \/ StreamEnds
             \/ \E how \in {"canceled", "expired"} : ContextEnds(how)
             \/ ServerStopsWithContext
      PROVE  flow' = flow /\ server'.busy = server.busy
  BY <1>0, <1>3 DEF OpenForeign, ServerDies, StreamGoesLive, StreamEnds,
     ContextEnds, ServerStopsWithContext, ServerType
<1>4. ~Plugin
  BY DEF Settled, Plugin, LaunchJob, FinishJob, Wake, Acknowledge
<1> QED
  BY <1>1, <1>2, <1>3, <1>4 DEF RunEnvironment, Settled

\* While the driver waits, the root works only for a notification.
LEMMA RootWorksForANotice ==
  ASSUME RunTypeOK, JobsAreFresh, DriverIsSettled, RunEnvironment,
         run.pc \in {"initial", "drive", "terminal"}, Root \in server'.busy
  PROVE  \E j \in Jobs : flow'.notice[j] = "prompting"
<1>0. server \in ServerType(run.mode) /\ flow \in FlowType
  BY DEF RunTypeOK
<1>1. CASE \E c \in Children : Delegate(c)
  BY <1>0, <1>1, SessionsAreDistinct DEF Delegate, ServerType, DriverIsSettled
<1>2. CASE \E s \in Sessions : Respond(s) \/ DeleteSession(s)
  BY ZenonT(60), <1>0, <1>2 DEF Respond, DeleteSession, ServerType,
     DriverIsSettled
<1>3. CASE \/ \E f \in Foreigners : OpenForeign(f)
           \/ ServerDies \/ StreamGoesLive \/ StreamEnds
           \/ \E how \in {"canceled", "expired"} : ContextEnds(how)
           \/ ServerStopsWithContext
  BY <1>0, <1>3 DEF OpenForeign, ServerDies, StreamGoesLive, StreamEnds,
     ContextEnds, ServerStopsWithContext, ServerType, DriverIsSettled
<1>4. CASE LaunchJob
  BY <1>0, <1>4 DEF LaunchJob, FlowType, DriverIsSettled
<1>5. CASE \E z \in {"expected", "other"} : FinishJob(z)
  <2>1. PICK z \in {"expected", "other"} : FinishJob(z)
    BY <1>5
  <2>2. PICK k \in flow.live :
          flow' = [flow EXCEPT !.live = {}, !.state = z,
                               !.notice[k] = "unacked"]
    BY <2>1 DEF FinishJob
  <2>3. flow'.notice = [flow.notice EXCEPT ![k] = "unacked"]
    BY <1>0, <2>2 DEF FlowType
  <2>4. server' = server
    BY <2>1 DEF FinishJob
  <2>5. PICK j \in Jobs : flow.notice[j] = "prompting"
    BY <2>4 DEF DriverIsSettled
  <2>6. j # k
    BY <1>0, <2>5 DEF JobsAreFresh, FlowType
  <2> QED
    BY <1>0, <2>3, <2>5, <2>6 DEF FlowType
<1>6. CASE \E j \in Jobs : Wake(j)
  <2>1. PICK j \in Jobs : Wake(j)
    BY <1>6
  <2>2. flow'.notice = [flow.notice EXCEPT ![j] = "prompting"]
    BY <1>0, <2>1 DEF Wake, FlowType
  <2>3. flow'.notice[j] = "prompting"
    BY <1>0, <2>2 DEF FlowType
  <2> QED  BY <2>3
<1>7. CASE \E j \in Jobs : Acknowledge(j)
  BY <1>7 DEF Acknowledge
<1> QED
  BY <1>1, <1>2, <1>3, <1>4, <1>5, <1>6, <1>7 DEF RunEnvironment, Plugin

\* A job finishes once, after it was launched.
LEMMA JobsStayFresh ==
  ASSUME RunTypeOK, JobsAreFresh, [RunNext]_runVars
  PROVE  JobsAreFresh'
<1>0. /\ flow \in FlowType /\ flow.launched \in Nat /\ Jobs \subseteq Nat
      /\ flow.live \subseteq Jobs
  BY WaitingIsFinite DEF RunTypeOK, FlowType, Jobs
<1>1. CASE LaunchJob
  <2>1. /\ flow'.live = {flow.launched + 1} /\ flow'.notice = flow.notice
        /\ flow'.launched = flow.launched + 1
    BY <1>0, <1>1 DEF LaunchJob, FlowType
  <2> QED
    BY <1>0, <2>1 DEF JobsAreFresh
<1>2. ASSUME NEW z \in {"expected", "other"}, FinishJob(z)
      PROVE  JobsAreFresh'
  <2>1. PICK k \in flow.live :
          flow' = [flow EXCEPT !.live = {}, !.state = z,
                               !.notice[k] = "unacked"]
    BY <1>2 DEF FinishJob
  <2>2. /\ flow'.notice = [flow.notice EXCEPT ![k] = "unacked"]
        /\ flow'.live = {} /\ flow'.launched = flow.launched
        /\ flow.notice \in [Jobs -> {"absent", "unacked", "prompting", "acked"}]
    BY <1>0, <2>1 DEF FlowType
  <2> QED
    BY <1>0, <2>2 DEF JobsAreFresh
<1>3. ASSUME NEW k \in Jobs, Wake(k) \/ Acknowledge(k)
      PROVE  JobsAreFresh'
  <2>1. /\ flow.notice[k] # "absent" /\ flow'.live = flow.live
        /\ flow'.launched = flow.launched
    BY <1>0, <1>3 DEF Wake, Acknowledge, FlowType
  <2>2. \A j \in Jobs \ {k} : flow'.notice[j] = flow.notice[j]
    BY <1>0, <1>3 DEF Wake, Acknowledge, FlowType
  <2> QED
    BY <1>0, <2>1, <2>2 DEF JobsAreFresh
<1>4. CASE ReconcileManaged
  <2>1. /\ flow'.notice = flow.notice /\ flow'.launched = flow.launched
        /\ flow'.live \subseteq flow.live
    BY <1>0, <1>4 DEF ReconcileManaged, FlowType
  <2> QED
    BY <2>1 DEF JobsAreFresh
<1>5. CASE UNCHANGED flow
  BY <1>5 DEF JobsAreFresh
<1>6. CASE Engine /\ ~ReconcileManaged
  <2>1. UNCHANGED flow
    BY <1>6 DEF Engine, PrepareRun, StartRuntime, StartRecorder,
       WaitForServerReady, CreateSession, AdmitRoot, SendMessage,
       ReceiveResponse, InitialAnchor, PollTurns, PollWorkflow, AnchorResponse,
       BeginPass, ReadStatuses, ReadSession, ReadMessages, EndPass, Observe,
       CloseRuntime, StopRecorder, Judge, EvalKeeps, CloseEarly
  <2> QED  BY <1>5, <2>1
<1>7. CASE RunEnvironment /\ ~Plugin
  <2>1. UNCHANGED flow
    BY <1>7 DEF RunEnvironment, Delegate, Respond, DeleteSession, OpenForeign,
       ServerDies, StreamGoesLive, StreamEnds, ContextEnds,
       ServerStopsWithContext
  <2> QED  BY <1>5, <2>1
<1> QED
  BY <1>1, <1>2, <1>3, <1>4, <1>5, <1>6, <1>7
  DEF RunNext, RunEnvironment, Plugin, runVars

DriverInv == JobsAreFresh /\ DriverIsSettled

\* Engine.Run before the driver, and after it: whether it has accepted stays,
\* and nobody is set to work.
LEMMA EngineBesideTheDriver ==
  ASSUME RunTypeOK, Engine, ~PollWorkflow, ~SendMessage
  PROVE  /\ run'.accepted = run.accepted /\ server'.busy = server.busy
         /\ flow'.notice = flow.notice /\ flow'.launched = flow.launched
         /\ flow'.live \in {flow.live, {}}
         /\ run'.pc \in {"initial", "drive", "terminal"} =>
              \/ run.pc \in {"initial", "drive", "terminal"}
              \/ Root \notin server.busy
         /\ run.pc \in {"anchor", "done"} \cup Passing \cup Ending =>
              run'.pc \in {"anchor", "done"} \cup Passing \cup Ending
<1>0. /\ run \in RunType(run.mode) /\ server \in ServerType(run.mode)
      /\ flow \in FlowType
  BY DEF RunTypeOK
<1>1. CASE PrepareRun
  BY <1>0, <1>1 DEF PrepareRun, Return, EvalKeeps, RunType, Passing, Ending
<1>2. CASE StartRuntime
  BY ZenonT(60), <1>0, <1>2 DEF StartRuntime, Return, RunType, ServerType,
     Passing, Ending
<1>3. CASE StartRecorder
  BY <1>0, <1>3 DEF StartRecorder, CloseEarly, RunType, Passing, Ending
<1>4. CASE WaitForServerReady
  BY <1>0, <1>4 DEF WaitForServerReady, CloseEarly, EvalKeeps, RunType, Passing,
     Ending
<1>5. CASE CreateSession
  BY ZenonT(60), <1>0, <1>5 DEF CreateSession, CloseEarly, RunType, ServerType,
     Passing, Ending
<1>6. CASE AdmitRoot
  BY <1>0, <1>6 DEF AdmitRoot, CloseEarly, RunType, Passing, Ending
<1>7. CASE ReceiveResponse
  BY <1>0, <1>7 DEF ReceiveResponse, AfterAnswer, EvalKeeps, RunType, Passing,
     Ending
<1>8. CASE InitialAnchor \/ PollTurns \/ AnchorResponse
  BY <1>0, <1>8 DEF InitialAnchor, PollTurns, AnchorResponse, DriverFails,
     EvalKeeps, RunType, Passing, Ending
<1>9. CASE \/ BeginPass \/ ReadStatuses \/ (\E s \in Sessions : ReadSession(s))
           \/ ReadMessages \/ EndPass \/ Observe
  BY ZenonT(60), <1>0, <1>9 DEF BeginPass, ReadStatuses, ReadSession,
     ReadMessages, EndPass, Observe, RunType, Passing, Ending
<1>10. CASE CloseRuntime
  BY <1>0, <1>10 DEF CloseRuntime, RunType, ServerType, Passing, Ending
<1>11. CASE ReconcileManaged
  BY ZenonT(60), <1>0, <1>11 DEF ReconcileManaged, RunType, FlowType, Passing,
     Ending
<1>12. CASE StopRecorder
  BY ZenonT(60), <1>0, <1>12 DEF StopRecorder, Return, RunType, Passing, Ending
<1>13. CASE Judge
  BY <1>0, <1>13 DEF Judge, Return, EvalKeeps, RunType, Passing, Ending
<1> QED
  BY <1>1, <1>2, <1>3, <1>4, <1>5, <1>6, <1>7, <1>8, <1>9, <1>10, <1>11, <1>12,
     <1>13 DEF Engine

\* Every step keeps the driver settled.
LEMMA DriverStep ==
  ASSUME RunTypeOK, DriverInv, [RunNext]_runVars
  PROVE  DriverInv'
<1>0. /\ run \in RunType(run.mode) /\ server \in ServerType(run.mode)
  BY DEF RunTypeOK
<1>1. JobsAreFresh'
  BY JobsStayFresh DEF DriverInv
<1>2. CASE RunEnvironment
  <2>1. run'.pc = run.pc /\ run'.accepted = run.accepted
    BY <1>2, EnvironmentOfTheRun
  <2>2. run.accepted => Settled'
    BY <1>2, PluginIsIdle DEF DriverInv, DriverIsSettled, Settled
  <2>3. run.pc \in {"initial", "drive", "terminal"} /\ Root \in server'.busy =>
          \E j \in Jobs : flow'.notice[j] = "prompting"
    BY <1>2, RootWorksForANotice DEF DriverInv
  <2>4. DriverIsSettled'
    BY <2>1, <2>2, <2>3 DEF DriverInv, DriverIsSettled, Settled
  <2> QED  BY <1>1, <2>4 DEF DriverInv
<1>3. CASE SendMessage
  <2>1. /\ run'.accepted = run.accepted /\ run.pc = "converse"
        /\ run'.pc \in {"await", "pass"}
    BY <1>0, <1>3 DEF SendMessage, RunType
  <2>2. ~run.accepted
    BY <2>1 DEF DriverInv, DriverIsSettled, Passing, Ending
  <2> QED
    BY <1>1, <2>1, <2>2 DEF DriverInv, DriverIsSettled
<1>4. CASE PollWorkflow
  <2>1. /\ run.pc = "terminal" /\ server' = server /\ flow' = flow
        /\ run'.pc \in {"anchor", "drive", "pass"}
        /\ run'.accepted =>
             run.accepted \/ (TerminalQuiescent /\ run'.pc = "anchor")
    BY <1>0, <1>4 DEF PollWorkflow, DriverFails, EvalKeeps, RunType
  <2>2. ~run.accepted
    BY <2>1 DEF DriverInv, DriverIsSettled, Passing, Ending
  <2>3. TerminalQuiescent => Settled
    BY <2>1 DEF TerminalQuiescent, Settled, DriverInv, DriverIsSettled
  <2>4. DriverIsSettled'
    BY <2>1, <2>2, <2>3 DEF DriverInv, DriverIsSettled, Settled
  <2> QED  BY <1>1, <2>4 DEF DriverInv
<1>5. CASE Engine /\ ~PollWorkflow /\ ~SendMessage
  <2>1. DriverIsSettled'
    BY <1>5, EngineBesideTheDriver DEF DriverInv, DriverIsSettled
  <2> QED  BY <1>1, <2>1 DEF DriverInv
<1>6. CASE UNCHANGED runVars
  BY <1>1, <1>6 DEF runVars, DriverInv, DriverIsSettled
<1> QED  BY <1>2, <1>3, <1>4, <1>5, <1>6 DEF RunNext

\* The step of the property: what was accepted is not set to work again.
LEMMA AcceptedStep ==
  ASSUME RunTypeOK, DriverInv, [RunNext]_runVars, run.accepted
  PROVE  /\ flow'.launched = flow.launched /\ flow'.notice = flow.notice
         /\ Root \notin server'.busy
<1>0. Settled /\ run.pc # "converse" /\ run.pc # "terminal"
  BY DEF DriverInv, DriverIsSettled, Settled, Passing, Ending
<1>1. CASE RunEnvironment
  BY <1>0, <1>1, PluginIsIdle DEF Settled
<1>2. CASE Engine
  <2>1. ~PollWorkflow /\ ~SendMessage
    BY <1>0 DEF PollWorkflow, SendMessage
  <2> QED
    BY <1>0, <1>2, <2>1, EngineBesideTheDriver DEF Settled
<1>3. CASE UNCHANGED runVars
  BY <1>0, <1>3 DEF runVars, Settled
<1> QED  BY <1>1, <1>2, <1>3 DEF RunNext

\* At first no job is known.
LEMMA InitDriver == RunInit => DriverInv
<1> SUFFICES ASSUME RunInit PROVE DriverInv
  OBVIOUS
<1>1. run.pc = "prepare" /\ ~run.accepted
  BY DEF RunInit
<1>2. flow.live = {} /\ \A j \in Jobs : flow.notice[j] = "absent"
  BY DEF RunInit
<1> QED
  BY <1>1, <1>2 DEF DriverInv, JobsAreFresh, DriverIsSettled

-----------------------------------------------------------------------------
(* The trace of the last pass.                                             *)

TraceInv == TraceIsOfTheTree /\ FenceHeld

\* The log only grows: what it held stays where it was.
LogExtends ==
  /\ Len(server.log) \in Nat /\ Len(server'.log) \in Nat
  /\ Len(server'.log) >= Len(server.log)
  /\ \A i \in 1..Len(server.log) : server'.log[i] = server.log[i]

\* Logging an event appends it, once the stream is live.
LEMMA LoggedExtends ==
  ASSUME RunTypeOK, NEW k \in {"created", "message", "deleted"},
         NEW s \in Sessions, NEW n \in Turns(run.mode),
         server'.log = Logged(<<k, s, n>>)
  PROVE  /\ LogExtends
         /\ recorder.stream \notin {"none", "connected"} =>
              Len(server'.log) = Len(server.log) + 1
<1>1. server.log \in
        Seq({"created", "message", "deleted"} \X Sessions \X Turns(run.mode))
      /\ Len(server.log) \in Nat
  BY LenProperties DEF RunTypeOK, ServerType
<1>2. <<k, s, n>> \in
        {"created", "message", "deleted"} \X Sessions \X Turns(run.mode)
  OBVIOUS
<1>3. CASE recorder.stream \in {"none", "connected"}
  BY <1>1, <1>3 DEF Logged, LogExtends
<1>4. CASE recorder.stream \notin {"none", "connected"}
  <2> DEFINE T == {"created", "message", "deleted"} \X Sessions
                   \X Turns(run.mode)
             e == <<k, s, n>>
  <2>1. server'.log = Append(server.log, e)
    BY <1>4 DEF Logged
  <2>2. server.log \in Seq(T) /\ e \in T
    BY <1>1, <1>2
  <2> HIDE DEF T, e
  <2>3. /\ Len(Append(server.log, e)) = Len(server.log) + 1
        /\ \A i \in 1..Len(server.log) :
              Append(server.log, e)[i] = server.log[i]
    BY <2>2, AppendProperties
  <2>4. /\ Len(server'.log) = Len(server.log) + 1
        /\ \A i \in 1..Len(server.log) : server'.log[i] = server.log[i]
    BY <2>1, <2>3
  <2>5. LogExtends
    <3>1. /\ Len(server'.log) \in Nat
          /\ Len(server'.log) >= Len(server.log)
      BY <1>1, <2>4
    <3> QED
      BY <1>1, <2>4, <3>1 DEF LogExtends
  <2> QED
    BY <2>4, <2>5
<1> QED  BY <1>3, <1>4

\* Whatever the server does to its sessions, once the stream is live, it logs.
LEMMA EnvironmentIsLogged ==
  ASSUME CountInv, RunEnvironment
  PROVE  /\ LogExtends
         /\ recorder.stream \notin {"none", "connected"} =>
              \/ /\ server'.log = server.log /\ server'.there = server.there
                 /\ server'.messages = server.messages
              \/ Len(server'.log) = Len(server.log) + 1
<1>0. /\ RunTypeOK /\ server \in ServerType(run.mode) /\ 0 \in Turns(run.mode)
      /\ Len(server.log) \in Nat
  BY WaitingIsFinite, LenProperties DEF CountInv, RunTypeOK, ServerType, Turns
<1>1. ASSUME NEW c \in Children, Delegate(c)
      PROVE  server'.log = Logged(<<"created", c, 0>>) /\ c \in Sessions
  BY <1>0, <1>1 DEF Delegate, ServerType, Sessions
<1>2. ASSUME NEW s \in Sessions, Respond(s)
      PROVE  /\ server'.log = Logged(<<"message", s, server.messages[s] + 1>>)
             /\ server.messages[s] + 1 \in Turns(run.mode)
  BY <1>0, <1>2, TurnsAreBounded DEF Respond, ServerType
<1>3. ASSUME NEW s \in Sessions, DeleteSession(s)
      PROVE  server'.log = Logged(<<"deleted", s, 0>>)
  BY <1>0, <1>3 DEF DeleteSession, ServerType
<1>4. ASSUME NEW f \in Foreigners, OpenForeign(f)
      PROVE  server'.log = Logged(<<"created", f, 0>>) /\ f \in Sessions
  BY <1>0, <1>4 DEF OpenForeign, ServerType, Sessions
<1>5. ASSUME \/ ServerDies \/ StreamGoesLive \/ StreamEnds
             \/ \E how \in {"canceled", "expired"} : ContextEnds(how)
             \/ ServerStopsWithContext \/ Plugin
      PROVE  /\ server'.log = server.log /\ server'.there = server.there
             /\ server'.messages = server.messages
  BY <1>0, <1>5 DEF ServerDies, StreamGoesLive, StreamEnds, ContextEnds,
     ServerStopsWithContext, Plugin, LaunchJob, FinishJob, Wake, Acknowledge,
     ServerType
<1>6. CASE \/ ServerDies \/ StreamGoesLive \/ StreamEnds
           \/ \E how \in {"canceled", "expired"} : ContextEnds(how)
           \/ ServerStopsWithContext \/ Plugin
  BY <1>0, <1>5, <1>6 DEF LogExtends
<1>7. CASE \/ \E c \in Children : Delegate(c)
           \/ \E s \in Sessions : Respond(s) \/ DeleteSession(s)
           \/ \E f \in Foreigners : OpenForeign(f)
  BY <1>0, <1>1, <1>2, <1>3, <1>4, <1>7, LoggedExtends
<1> QED
  BY <1>6, <1>7 DEF RunEnvironment

\* What was found of the events so far is found again when more have come.
LEMMA EventsStay ==
  ASSUME LogExtends, NEW n \in Nat, n <= Len(server.log)
  PROVE  Events(n)' = Events(n)
<1>1. \A i \in 1..n : server'.log[i] = server.log[i]
  BY DEF LogExtends
<1> QED
  BY <1>1 DEF Events

\* So is the fence over what was delivered.
LEMMA FenceStays ==
  ASSUME RunTypeOK, LogExtends, trace' = trace,
         recorder'.delivered = recorder.delivered
  PROVE  FinalizeRunEvents(trace, recorder.delivered)' <=>
           FinalizeRunEvents(trace, recorder.delivered)
<1>1. /\ trace.mark \in Nat /\ recorder.delivered \in Nat
      /\ trace.mark <= recorder.delivered
      /\ recorder.delivered <= Len(server.log)
  BY DEF RunTypeOK, TraceType, RecorderType
<1>2. Events(recorder.delivered)' = Events(recorder.delivered)
  BY <1>1, EventsStay
<1>3. \A i \in (trace.mark + 1)..recorder.delivered :
        server'.log[i] = server.log[i]
  BY <1>1 DEF LogExtends
<1>4. validateGlobalSessionFence(recorder.delivered, TreeOf(trace))' <=>
        validateGlobalSessionFence(recorder.delivered, TreeOf(trace))
  BY <1>2 DEF validateGlobalSessionFence, TreeOf
<1>5. observedRootCreation(recorder.delivered)' <=>
        observedRootCreation(recorder.delivered)
  BY <1>2 DEF observedRootCreation
<1> QED
  BY <1>3, <1>4, <1>5 DEF FinalizeRunEvents, TreeOf, globalEventSessionIDs

\* So is whether the trace is complete.
LEMMA CompletenessStays ==
  ASSUME RunTypeOK, LogExtends, trace' = trace,
         run'.anchored = run.anchored, run'.response = run.response
  PROVE  StructurallyComplete(trace)' <=> StructurallyComplete(trace)
<1>1. trace.mark \in Nat /\ trace.mark <= Len(server.log)
  BY DEF RunTypeOK, TraceType, RecorderType, LogExtends
<1>2. Events(trace.mark)' = Events(trace.mark)
  BY <1>1, EventsStay
<1>3. validateGlobalSessionFence(trace.mark, TreeOf(trace))' <=>
        validateGlobalSessionFence(trace.mark, TreeOf(trace))
  BY <1>2 DEF validateGlobalSessionFence, TreeOf
<1>4. validateObservedEvents(trace)' <=> validateObservedEvents(trace)
  BY <1>2 DEF validateObservedEvents
<1> QED
  BY <1>3, <1>4 DEF StructurallyComplete, containsMessageID, TreeOf

\* A step outside the reading of the tree leaves the trace as it was.
LEMMA TraceUnread ==
  ASSUME TraceIsOfTheTree, trace' = trace, run.pc # "messages", ~Reading'
  PROVE  TraceIsOfTheTree'
<1>1. Covered' = Covered
  BY DEF Covered, TreeOf
<1> QED
  BY <1>1 DEF TraceIsOfTheTree

\* So does one that the tree does not see.
LEMMA TraceUnmoved ==
  ASSUME TraceIsOfTheTree, trace' = trace,
         run'.pc # "messages" => trace.reading = {},
         Reading' => Reading,
         Reading' /\ run'.pc \notin {"statuses", "walk", "messages"} =>
           trace.frontier = {},
         server'.log = server.log, server'.there = server.there,
         server'.messages = server.messages
  PROVE  TraceIsOfTheTree'
<1>1. Covered' = Covered /\ TreeOf(trace)' = TreeOf(trace)
  BY DEF Covered, TreeOf
<1>2. Undisturbed' <=> Undisturbed
  BY DEF Undisturbed
<1> QED
  BY <1>1, <1>2 DEF TraceIsOfTheTree

\* And one that is logged leaves no pass undisturbed.
LEMMA TraceDisturbed ==
  ASSUME RunTypeOK, TraceIsOfTheTree, trace' = trace,
         run'.pc = run.pc, run'.early = run.early, run'.status = run.status,
         Len(server'.log) = Len(server.log) + 1
  PROVE  TraceIsOfTheTree'
<1>1. Covered' = Covered /\ TreeOf(trace)' = TreeOf(trace)
  BY DEF Covered, TreeOf
<1>2. /\ trace.mark \in Nat /\ trace.mark <= recorder.delivered
      /\ recorder.delivered \in Nat /\ recorder.delivered <= Len(server.log)
  BY DEF RunTypeOK, TraceType, RecorderType
<1>3. Len(server.log) \in Nat
  BY LenProperties DEF RunTypeOK, ServerType
<1>4. trace.mark # Len(server'.log)
  BY <1>2, <1>3
<1>5. ~Undisturbed'
  BY <1>4 DEF Undisturbed
<1>6. Reading' <=> Reading
  BY DEF Reading
<1> QED
  BY <1>1, <1>5, <1>6 DEF TraceIsOfTheTree

\* The end of the recording is a matter of the last steps.
LEMMA FenceAhead ==
  ASSUME FenceHeld, run.pc \notin {"judge", "done"},
         run'.pc \notin {"prepare", "start", "judge", "done"},
         run'.isolated = run.isolated, run'.status = run.status
  PROVE  FenceHeld'
BY DEF FenceHeld

\* What the environment does not touch.
LEMMA EnvironmentFields ==
  ASSUME CountInv, RunEnvironment
  PROVE  /\ run'.pc = run.pc /\ run'.early = run.early
         /\ run'.status = run.status /\ run'.isolated = run.isolated
         /\ run'.anchored = run.anchored /\ run'.response = run.response
         /\ trace' = trace
         /\ run.pc = "done" => recorder' = recorder /\ server' = server
         /\ recorder.stream = "none" => recorder' = recorder
         /\ recorder.stream \notin {"connected", "live"} =>
              recorder' = recorder
<1>0. run \in RunType(run.mode)
  BY DEF CountInv, RunTypeOK
<1>1. ASSUME \E how \in {"canceled", "expired"} : ContextEnds(how)
      PROVE  /\ run'.pc = run.pc /\ run'.early = run.early
             /\ run'.status = run.status /\ run'.isolated = run.isolated
             /\ run'.anchored = run.anchored /\ run'.response = run.response
             /\ trace' = trace /\ recorder' = recorder /\ server' = server
  BY <1>0, <1>1 DEF ContextEnds, RunType
<1>2. ASSUME \/ StreamGoesLive \/ StreamEnds
      PROVE  /\ run' = run /\ trace' = trace /\ server' = server
             /\ recorder.stream \in {"connected", "live"}
             /\ run.pc # "done"
  BY <1>2 DEF StreamGoesLive, StreamEnds, Serving, InProgress
<1>3. ASSUME \/ \E c \in Children : Delegate(c)
             \/ \E s \in Sessions : Respond(s) \/ DeleteSession(s)
             \/ \E f \in Foreigners : OpenForeign(f)
             \/ ServerDies \/ ServerStopsWithContext \/ Plugin
      PROVE  run' = run /\ trace' = trace /\ recorder' = recorder
             /\ run.pc # "done"
  BY <1>3 DEF Delegate, Respond, DeleteSession, OpenForeign, ServerDies,
     ServerStopsWithContext, Plugin, LaunchJob, FinishJob, Wake, Acknowledge,
     Serving, InProgress
<1>4. CASE \E how \in {"canceled", "expired"} : ContextEnds(how)
  BY <1>1, <1>4
<1>5. CASE StreamGoesLive \/ StreamEnds
  BY <1>2, <1>5
<1>6. CASE \/ \E c \in Children : Delegate(c)
           \/ \E s \in Sessions : Respond(s) \/ DeleteSession(s)
           \/ \E f \in Foreigners : OpenForeign(f)
           \/ ServerDies \/ ServerStopsWithContext \/ Plugin
  BY <1>3, <1>6
<1> QED
  BY <1>4, <1>5, <1>6 DEF RunEnvironment

\* The environment moves the tree under a pass, or logs that it did.
LEMMA EnvironmentTrace ==
  ASSUME CountInv, LogIsComplete, TraceInv, RunEnvironment
  PROVE  TraceInv'
<1>0. RunTypeOK /\ TraceIsOfTheTree /\ FenceHeld
  BY DEF CountInv, TraceInv
<1>1. /\ run'.pc = run.pc /\ run'.early = run.early
      /\ run'.status = run.status /\ run'.isolated = run.isolated
      /\ run'.anchored = run.anchored /\ run'.response = run.response
      /\ trace' = trace
  BY EnvironmentFields
<1>2. LogExtends
  BY EnvironmentIsLogged
<1>3. Reading' <=> Reading
  BY <1>1 DEF Reading
<1>4. TraceIsOfTheTree'
  <2>1. CASE ~Reading /\ run.pc # "messages"
    BY <1>0, <1>1, <1>3, <2>1, TraceUnread
  <2>2. CASE Reading
    <3>1. Underway
      BY <2>2 DEF Reading, Underway, Passing
    <3>2. recorder.stream \notin {"none", "connected"}
      BY <3>1 DEF LogIsComplete
    <3>3. CASE /\ server'.log = server.log /\ server'.there = server.there
               /\ server'.messages = server.messages
      <4>1. run'.pc # "messages" => trace.reading = {}
        BY <1>0, <1>1 DEF TraceIsOfTheTree
      <4>2. Reading' /\ run'.pc \notin {"statuses", "walk", "messages"} =>
              trace.frontier = {}
        BY <1>0, <1>1, <1>3 DEF TraceIsOfTheTree
      <4> QED
        BY <1>0, <1>1, <1>3, <3>3, <4>1, <4>2, TraceUnmoved
    <3>4. CASE Len(server'.log) = Len(server.log) + 1
      BY <1>0, <1>1, <3>4, TraceDisturbed
    <3> QED
      BY <3>2, <3>3, <3>4, EnvironmentIsLogged
  <2> QED
    BY <2>1, <2>2 DEF Reading
<1>5. FenceHeld'
  <2>1. CASE run.pc \in {"judge", "done"}
    <3>1. recorder' = recorder
      BY <1>0, <2>1, EnvironmentFields DEF FenceHeld
    <3>2. FinalizeRunEvents(trace, recorder.delivered)' <=>
            FinalizeRunEvents(trace, recorder.delivered)
      BY <1>0, <1>1, <1>2, <3>1, FenceStays
    <3>3. StructurallyComplete(trace)' <=> StructurallyComplete(trace)
      BY <1>0, <1>1, <1>2, CompletenessStays
    <3> QED
      BY <1>0, <1>1, <2>1, <3>1, <3>2, <3>3 DEF FenceHeld
  <2>2. CASE run.pc \in {"prepare", "start"}
    <3>1. recorder' = recorder /\ recorder.stream = "none"
      BY <1>0, <2>2, EnvironmentFields DEF FenceHeld
    <3> QED
      BY <1>0, <1>1, <2>2, <3>1 DEF FenceHeld
  <2>3. CASE run.pc \notin {"prepare", "start", "judge", "done"}
    BY <1>0, <1>1, <2>3, FenceAhead
  <2> QED
    BY <2>1, <2>2, <2>3
<1> QED
  BY <1>4, <1>5 DEF TraceInv

\* Until the first pass there is no trace to be wrong.
Early ==
  \/ PrepareRun \/ StartRuntime \/ StartRecorder \/ WaitForServerReady
  \/ CreateSession \/ AdmitRoot \/ SendMessage \/ ReceiveResponse
  \/ InitialAnchor \/ PollTurns \/ PollWorkflow \/ AnchorResponse

\* Where these steps start.
LEMMA EarlyPoint ==
  ASSUME Early
  PROVE  /\ trace' = trace
         /\ run.pc \in {"prepare", "start", "record", "ready", "create",
                        "admit"} \cup Conversing
BY DEF Early, PrepareRun, StartRuntime, StartRecorder, WaitForServerReady,
   CreateSession, AdmitRoot, SendMessage, ReceiveResponse, InitialAnchor,
   PollTurns, PollWorkflow, AnchorResponse, CloseEarly, EvalKeeps, Conversing

\* What they leave to the later ones.
EarlyOutcome ==
  /\ run'.isolated = run.isolated
  /\ \/ /\ run'.status = run.status
        /\ run'.pc \in {"record", "ready", "create", "admit", "pass"}
                       \cup Conversing
     \/ run'.status = run.status /\ run'.pc = "close" /\ run'.early # "none"
     \/ /\ run.pc = "prepare" /\ run'.pc = "start"
        /\ run'.status = run.status /\ recorder' = recorder
     \/ /\ run.pc \in {"prepare", "start"} /\ run'.pc = "done"
        /\ run'.status # "pass" /\ recorder' = recorder

\* They lead to one another, to the first pass, or to an early end.
LEMMA EarlyEnds ==
  ASSUME CountInv, Early
  PROVE  EarlyOutcome
<1>0. run \in RunType(run.mode)
  BY DEF CountInv, RunTypeOK
<1>1. CASE PrepareRun \/ StartRuntime
  BY <1>0, <1>1 DEF PrepareRun, StartRuntime, Return, EvalKeeps, RunType,
     earlyResultForContext, EarlyOutcome
<1>2. CASE StartRecorder \/ WaitForServerReady \/ CreateSession \/ AdmitRoot
  BY ZenonT(60), <1>0, <1>2 DEF StartRecorder, WaitForServerReady,
     CreateSession, AdmitRoot, CloseEarly, RunType, EarlyOutcome, Conversing
<1>3. CASE SendMessage \/ ReceiveResponse \/ InitialAnchor \/ AnchorResponse
  BY ZenonT(60), <1>0, <1>3 DEF SendMessage, ReceiveResponse, InitialAnchor,
     AnchorResponse, AfterAnswer, RunType, EarlyOutcome, Conversing
<1>4. CASE PollTurns \/ PollWorkflow
  BY <1>0, <1>4 DEF PollTurns, PollWorkflow, DriverFails, RunType,
     EarlyOutcome, Conversing
<1> QED
  BY <1>1, <1>2, <1>3, <1>4 DEF Early

\* None of them reads the tree.
LEMMA EarlyTrace ==
  ASSUME CountInv, LogIsComplete, TraceInv, Early
  PROVE  TraceInv'
<1>0. RunTypeOK /\ TraceIsOfTheTree /\ FenceHeld
  BY DEF CountInv, TraceInv
<1>1. /\ trace' = trace
      /\ run.pc \in {"prepare", "start", "record", "ready", "create",
                     "admit"} \cup Conversing
  BY EarlyPoint
<1>2. run.pc \notin Ending \cup Passing \cup {"done"}
  BY <1>1 DEF Ending, Passing, Conversing
<1>3. ~run.isolated /\ run.status # "pass"
  BY <1>0, <1>2 DEF FenceHeld, Ending
<1>4. EarlyOutcome
  BY EarlyEnds
<1>5. ~Reading'
  BY <1>3, <1>4 DEF EarlyOutcome, Reading, Ending, Conversing
<1>6. TraceIsOfTheTree'
  BY <1>0, <1>1, <1>2, <1>5, TraceUnread DEF Passing
<1>7. FenceHeld'
  <2>1. CASE run'.pc \notin {"prepare", "start", "judge", "done"}
    <3>1. run'.status = run.status /\ run'.isolated = run.isolated
      BY <1>4, <2>1 DEF EarlyOutcome
    <3> QED
      BY <1>0, <1>2, <2>1, <3>1, FenceAhead DEF Ending
  <2>2. CASE run'.pc \in {"prepare", "start", "judge", "done"}
    <3>1. /\ run.pc \in {"prepare", "start"}
          /\ run'.status # "pass" /\ ~run'.isolated
          /\ recorder' = recorder
          /\ run'.pc \in {"start", "done"}
      BY <1>3, <1>4, <2>2 DEF EarlyOutcome, Conversing
    <3> QED
      BY <1>0, <3>1 DEF FenceHeld
  <2> QED
    BY <2>1, <2>2
<1> QED
  BY <1>6, <1>7 DEF TraceInv

\* A pass begins with the root, and with nothing read.
LEMMA BeginPassTrace ==
  ASSUME CountInv, TraceInv, BeginPass
  PROVE  TraceInv'
<1>0. RunTypeOK /\ TraceIsOfTheTree /\ FenceHeld /\ run \in RunType(run.mode)
  BY DEF CountInv, TraceInv, RunTypeOK
<1>1. /\ run.pc = "pass" /\ run'.pc = "statuses"
      /\ run'.isolated = run.isolated /\ run'.status = run.status
  BY <1>0 DEF BeginPass, RunType
<1>2. /\ trace'.seen = {} /\ trace'.reading = {} /\ trace'.frontier = {Root}
  BY DEF BeginPass, EmptyTrace
<1>3. TreeOf(trace)' = {} /\ Covered' = {Root}
  BY <1>2 DEF TreeOf, Covered
<1>4. TraceIsOfTheTree'
  BY <1>1, <1>2, <1>3 DEF TraceIsOfTheTree
<1>5. FenceHeld'
  BY <1>0, <1>1, FenceAhead
<1> QED
  BY <1>4, <1>5 DEF TraceInv

\* The statuses are no part of the tree.
LEMMA ReadStatusesTrace ==
  ASSUME CountInv, TraceInv, ReadStatuses
  PROVE  TraceInv'
<1>0. /\ RunTypeOK /\ TraceIsOfTheTree /\ FenceHeld
      /\ run \in RunType(run.mode) /\ trace \in TraceType(run.mode)
  BY DEF CountInv, TraceInv, RunTypeOK
<1>1. /\ run.pc = "statuses" /\ run'.pc = "walk" /\ server' = server
      /\ run'.isolated = run.isolated /\ run'.status = run.status
  BY <1>0 DEF ReadStatuses, RunType
<1>2. /\ trace'.seen = trace.seen /\ trace'.reading = trace.reading
      /\ trace'.frontier = trace.frontier /\ trace'.mark = trace.mark
      /\ ~trace'.failed => ~trace.failed
  BY <1>0 DEF ReadStatuses, TraceType
<1>3. TreeOf(trace)' = TreeOf(trace) /\ Covered' = Covered
  BY <1>2 DEF TreeOf, Covered
<1>4. Undisturbed' => Undisturbed
  BY <1>1, <1>2 DEF Undisturbed
<1>5. Reading
  BY <1>1 DEF Reading
<1>6. TraceIsOfTheTree'
  BY <1>0, <1>1, <1>2, <1>3, <1>4, <1>5 DEF TraceIsOfTheTree
<1>7. FenceHeld'
  BY <1>0, <1>1, FenceAhead
<1> QED
  BY <1>6, <1>7 DEF TraceInv

\* A session is read only while it is there; its listing names its children.
LEMMA ReadSessionTrace ==
  ASSUME CountInv, TraceInv, NEW s \in Sessions, ReadSession(s)
  PROVE  TraceInv'
<1>0. /\ RunTypeOK /\ TraceIsOfTheTree /\ FenceHeld
      /\ run \in RunType(run.mode) /\ trace \in TraceType(run.mode)
  BY DEF CountInv, TraceInv, RunTypeOK
<1>1. /\ run.pc = "walk" /\ s \in trace.frontier /\ trace.reading = {}
      /\ server' = server
  BY <1>0 DEF ReadSession, TraceIsOfTheTree
<1>2. Reading
  BY <1>1 DEF Reading
<1>3. Covered = TreeOf(trace) \cup trace.frontier
  BY <1>1 DEF Covered
<1> DEFINE listed == IF s = Root THEN server.there \cap Children ELSE {}
           announced == IF s = Root THEN childrenFromEvents(trace.mark)
                        ELSE {}
<1>4. listed \subseteq Children /\ announced \subseteq Children
  BY DEF childrenFromEvents
<1>5. s = Root => server.there \cap Children \subseteq listed
  OBVIOUS
<1>6. CASE /\ s \in server.there /\ run' = [run EXCEPT !.pc = "messages"]
           /\ trace' = [trace EXCEPT
                          !.reading = {s},
                          !.frontier = (@ \ {s}) \cup listed \cup announced,
                          !.orphan = @ \/ ~(announced \subseteq listed)]
  <2> HIDE DEF listed, announced
  <2>1. /\ run'.pc = "messages"
        /\ run'.isolated = run.isolated /\ run'.status = run.status
    BY <1>0, <1>6 DEF RunType
  <2>2. /\ trace'.reading = {s} /\ trace'.seen = trace.seen
        /\ trace'.frontier = (trace.frontier \ {s}) \cup listed \cup announced
        /\ trace'.mark = trace.mark /\ trace'.failed = trace.failed
    BY <1>0, <1>6 DEF TraceType
  <2>3. TreeOf(trace)' = TreeOf(trace)
    BY <2>2 DEF TreeOf
  <2>4. Covered' = Covered \cup listed \cup announced
    BY <1>1, <1>3, <2>2, <2>3 DEF Covered
  <2>5. Undisturbed' <=> Undisturbed
    BY <1>1, <2>2 DEF Undisturbed
  <2>6. \/ Root \in trace'.frontier
        \/ Root \notin trace.frontier
        \/ server.there \cap Children \subseteq Covered'
    BY <1>5, <2>2, <2>4
  <2>7. TraceIsOfTheTree'
    BY <1>0, <1>1, <1>2, <1>4, <1>6, <2>1, <2>2, <2>3, <2>4, <2>5, <2>6
       DEF TraceIsOfTheTree
  <2>8. FenceHeld'
    BY <1>0, <1>1, <2>1, FenceAhead
  <2> QED
    BY <2>7, <2>8 DEF TraceInv
<1>7. CASE /\ run' = run
           /\ trace' = [trace EXCEPT !.frontier = @ \ {s}, !.failed = TRUE]
  <2>1. /\ trace'.reading = {} /\ trace'.seen = trace.seen /\ trace'.failed
        /\ trace'.frontier = trace.frontier \ {s}
    BY <1>0, <1>1, <1>7 DEF TraceType
  <2>2. TreeOf(trace)' = TreeOf(trace)
    BY <2>1 DEF TreeOf
  <2>3. Covered' \subseteq Covered
    BY <1>3, <2>1, <2>2 DEF Covered
  <2>4. ~Undisturbed'
    BY <2>1 DEF Undisturbed
  <2>5. TraceIsOfTheTree'
    BY <1>0, <1>1, <1>7, <2>1, <2>3, <2>4 DEF TraceIsOfTheTree
  <2>6. FenceHeld'
    BY <1>0, <1>1, <1>7, FenceAhead
  <2> QED
    BY <2>5, <2>6 DEF TraceInv
<1> QED
  BY <1>6, <1>7 DEF ReadSession

\* The messages are those the session has at that moment.
LEMMA ReadMessagesTrace ==
  ASSUME CountInv, TraceInv, ReadMessages
  PROVE  TraceInv'
<1>0. /\ RunTypeOK /\ TraceIsOfTheTree /\ FenceHeld
      /\ run \in RunType(run.mode) /\ trace \in TraceType(run.mode)
  BY DEF CountInv, TraceInv, RunTypeOK
<1>1. /\ run.pc = "messages" /\ run'.pc = "walk" /\ server' = server
      /\ run'.isolated = run.isolated /\ run'.status = run.status
  BY <1>0 DEF ReadMessages, RunType
<1>2. Reading
  BY <1>1 DEF Reading
<1>3. PICK s \in trace.reading :
        \/ /\ s \in server.there
           /\ trace' = [trace EXCEPT
                          !.reading = {},
                          !.seen = @ \cup {<<s, server.messages[s],
                                             s \in server.busy>>}]
        \/ trace' = [trace EXCEPT
                       !.reading = {}, !.failed = TRUE,
                       !.seen = @ \cup {<<s, 0, FALSE>>}]
  BY DEF ReadMessages
<1>4. trace.reading = {s}
  BY <1>0, <1>3 DEF TraceIsOfTheTree
<1>5. \E m : /\ m[1] = s /\ trace'.seen = trace.seen \cup {m}
             /\ ~trace'.failed => /\ ~trace.failed
                                 /\ m[2] = server.messages[s]
  <2>1. CASE trace' = [trace EXCEPT
                         !.reading = {},
                         !.seen = @ \cup {<<s, server.messages[s],
                                            s \in server.busy>>}]
    <3> DEFINE m == <<s, server.messages[s], s \in server.busy>>
    <3>1. m[1] = s /\ m[2] = server.messages[s]
      OBVIOUS
    <3>2. trace' = [trace EXCEPT !.reading = {}, !.seen = @ \cup {m}]
      BY <2>1
    <3> HIDE DEF m
    <3>3. trace'.seen = trace.seen \cup {m} /\ trace'.failed = trace.failed
      BY <1>0, <3>2 DEF TraceType
    <3> QED
      BY <3>1, <3>3
  <2>2. CASE trace' = [trace EXCEPT
                         !.reading = {}, !.failed = TRUE,
                         !.seen = @ \cup {<<s, 0, FALSE>>}]
    <3> DEFINE m == <<s, 0, FALSE>>
    <3>1. m[1] = s
      OBVIOUS
    <3> HIDE DEF m
    <3>2. trace'.seen = trace.seen \cup {m} /\ trace'.failed
      BY <1>0, <2>2 DEF TraceType, m
    <3> QED
      BY <3>1, <3>2
  <2> QED
    BY <1>3, <2>1, <2>2
<1>6. PICK m : /\ m[1] = s /\ trace'.seen = trace.seen \cup {m}
               /\ ~trace'.failed => /\ ~trace.failed
                                   /\ m[2] = server.messages[s]
  BY <1>5
<1>7. TreeOf(trace)' = TreeOf(trace) \cup {s}
  BY <1>6 DEF TreeOf
<1>8. /\ trace'.reading = {} /\ trace'.frontier = trace.frontier
      /\ trace'.mark = trace.mark
  BY <1>0, <1>3 DEF TraceType
<1>9. Covered' = Covered
  BY <1>4, <1>7, <1>8 DEF Covered
<1>10. Undisturbed' => Undisturbed
  BY <1>1, <1>6, <1>8 DEF Undisturbed
<1>11. TraceIsOfTheTree'
  <2>1. Undisturbed' =>
          \A e \in trace'.seen : e[2] = server.messages[e[1]]
    BY <1>0, <1>2, <1>6, <1>10 DEF TraceIsOfTheTree, Undisturbed
  <2> QED
    BY <1>0, <1>1, <1>2, <1>4, <1>7, <1>8, <1>9, <1>10, <2>1
       DEF TraceIsOfTheTree
<1>12. FenceHeld'
  BY <1>0, <1>1, FenceAhead
<1> QED
  BY <1>11, <1>12 DEF TraceInv

\* The pass ends when there is no session left to read.
LEMMA EndPassTrace ==
  ASSUME CountInv, TraceInv, EndPass
  PROVE  TraceInv'
<1>0. /\ RunTypeOK /\ TraceIsOfTheTree /\ FenceHeld
      /\ run \in RunType(run.mode) /\ trace \in TraceType(run.mode)
  BY DEF CountInv, TraceInv, RunTypeOK
<1>1. /\ run.pc = "walk" /\ run'.pc \in {"pass", "observe"}
      /\ server' = server /\ trace.frontier = {}
      /\ run'.isolated = run.isolated /\ run'.status = run.status
  BY <1>0 DEF EndPass, RunType
<1>2. /\ trace'.seen = trace.seen /\ trace'.reading = trace.reading
      /\ trace'.frontier = trace.frontier /\ trace'.mark = trace.mark
      /\ trace'.failed = trace.failed
  BY <1>0 DEF EndPass, TraceType
<1>3. TreeOf(trace)' = TreeOf(trace) /\ Covered' = Covered
  BY <1>2 DEF TreeOf, Covered
<1>4. Undisturbed' <=> Undisturbed
  BY <1>1, <1>2 DEF Undisturbed
<1>5. Reading
  BY <1>1 DEF Reading
<1>6. TraceIsOfTheTree'
  BY <1>0, <1>1, <1>2, <1>3, <1>4, <1>5 DEF TraceIsOfTheTree
<1>7. FenceHeld'
  BY <1>0, <1>1, FenceAhead
<1> QED
  BY <1>6, <1>7 DEF TraceInv

\* After the last pass the trace is only looked at.
LEMMA EndingTrace ==
  ASSUME CountInv, LogIsComplete, TraceInv,
         Observe \/ CloseRuntime \/ ReconcileManaged
  PROVE  TraceInv'
<1>0. /\ RunTypeOK /\ TraceIsOfTheTree /\ FenceHeld
      /\ run \in RunType(run.mode) /\ server \in ServerType(run.mode)
  BY DEF CountInv, TraceInv, RunTypeOK
<1>1. /\ run.pc \in {"observe", "close", "reconcile"}
      /\ run'.pc \in {"close", "reconcile", "stop"}
      /\ run'.isolated = run.isolated /\ run'.status = run.status
      /\ run'.early = run.early
  BY ZenonT(60), <1>0 DEF Observe, CloseRuntime, ReconcileManaged, RunType
<1>2. /\ trace' = trace /\ server'.log = server.log
      /\ server'.there = server.there /\ server'.messages = server.messages
  BY <1>0 DEF Observe, CloseRuntime, ReconcileManaged, ServerType
<1>3. Reading' => Reading
  BY <1>1 DEF Reading, Ending
<1>4. TraceIsOfTheTree'
  <2>1. trace.reading = {}
    BY <1>0, <1>1 DEF TraceIsOfTheTree
  <2>2. Reading => trace.frontier = {}
    BY <1>0, <1>1 DEF TraceIsOfTheTree
  <2> QED
    BY <1>0, <1>2, <1>3, <2>1, <2>2, TraceUnmoved
<1>5. FenceHeld'
  BY <1>0, <1>1, FenceAhead
<1> QED
  BY <1>4, <1>5 DEF TraceInv

\* The recording is closed, and the fence is drawn over the whole of it.
LEMMA StopRecorderTrace ==
  ASSUME CountInv, TraceInv, StopRecorder
  PROVE  TraceInv'
<1>0. /\ RunTypeOK /\ TraceIsOfTheTree /\ FenceHeld
      /\ run \in RunType(run.mode) /\ recorder \in RecorderType
  BY DEF CountInv, TraceInv, RunTypeOK
<1>1. PICK n \in Delivered :
        /\ recorder' = [recorder EXCEPT !.stream = "ended", !.delivered = n]
        /\ IF run.early # "none"
           THEN Return(earlyResultForContext(run.early))
           ELSE run' = [run EXCEPT
                           !.pc = "judge",
                           !.isolated = /\ ~recorder.err
                                        /\ ~FinalizeRunEvents(trace, n)]
  BY DEF StopRecorder
<1>2. /\ run.pc = "stop" /\ server' = server /\ trace' = trace
  BY DEF StopRecorder
<1>3. ~run.isolated /\ run.status # "pass"
  BY <1>0, <1>2 DEF FenceHeld
<1>4. recorder'.stream = "ended" /\ recorder'.delivered = n
  BY <1>0, <1>1 DEF RecorderType
<1>5. FinalizeRunEvents(trace, recorder.delivered)' <=>
        FinalizeRunEvents(trace, n)
  BY <1>2, <1>4 DEF FinalizeRunEvents, validateGlobalSessionFence, Events,
     observedRootCreation, TreeOf, globalEventSessionIDs
<1>6. CASE run.early # "none"
  <2>1. /\ run'.pc = "done" /\ run'.status # "pass"
        /\ run'.isolated = run.isolated
    BY <1>0, <1>1, <1>6 DEF Return, earlyResultForContext, RunType
  <2>2. ~Reading'
    BY <2>1 DEF Reading, Ending
  <2>3. TraceIsOfTheTree'
    BY <1>0, <1>2, <2>2, TraceUnread
  <2>4. FenceHeld'
    BY <1>3, <1>4, <2>1 DEF FenceHeld
  <2> QED
    BY <2>3, <2>4 DEF TraceInv
<1>7. CASE run.early = "none"
  <2>1. /\ run'.pc = "judge" /\ run'.status = run.status
        /\ run'.isolated => ~FinalizeRunEvents(trace, n)
    BY <1>0, <1>1, <1>7 DEF RunType
  <2>2. Reading /\ trace.reading = {} /\ trace.frontier = {}
    BY <1>0, <1>2, <1>7 DEF Reading, Ending, TraceIsOfTheTree
  <2>3. TraceIsOfTheTree'
    BY <1>0, <1>2, <2>1, <2>2, TraceUnmoved
  <2>4. FenceHeld'
    BY <1>3, <1>4, <1>5, <2>1 DEF FenceHeld
  <2> QED
    BY <2>3, <2>4 DEF TraceInv
<1> QED
  BY <1>6, <1>7

\* A run that passes was isolated, and its trace was complete.
LEMMA JudgeTrace ==
  ASSUME CountInv, LogIsComplete, TraceInv, Judge
  PROVE  TraceInv'
<1>0. /\ RunTypeOK /\ TraceIsOfTheTree /\ FenceHeld
      /\ run \in RunType(run.mode) /\ Len(server.log) \in Nat
  BY LenProperties DEF CountInv, TraceInv, RunTypeOK, ServerType
<1>1. PICK v \in Verdicts, p \in BOOLEAN, d \in BOOLEAN :
        run' = [run EXCEPT !.pc = "done", !.status = FinalStatus(v, p, d)]
  BY DEF Judge, Return
<1>2. /\ run.pc = "judge" /\ run'.pc = "done"
      /\ run'.status = FinalStatus(v, p, d)
      /\ run'.isolated = run.isolated /\ run'.early = run.early
      /\ run'.anchored = run.anchored /\ run'.response = run.response
  BY <1>0, <1>1 DEF Judge, RunType
<1>3. server' = server /\ trace' = trace /\ recorder' = recorder
  BY DEF Judge, EvalKeeps
<1>4. LogExtends
  BY <1>0, <1>3 DEF LogExtends
<1>5. run.early = "none"
  BY <1>2 DEF LogIsComplete
<1>6. Reading /\ trace.reading = {} /\ trace.frontier = {}
  BY <1>0, <1>2, <1>5 DEF Reading, Ending, TraceIsOfTheTree
<1>7. TraceIsOfTheTree'
  BY <1>0, <1>3, <1>6, TraceUnmoved
<1>8. FenceHeld'
  <2>1. FinalizeRunEvents(trace, recorder.delivered)' <=>
          FinalizeRunEvents(trace, recorder.delivered)
    BY <1>0, <1>3, <1>4, FenceStays
  <2>2. StructurallyComplete(trace)' <=> StructurallyComplete(trace)
    BY <1>0, <1>2, <1>3, <1>4, CompletenessStays
  <2>3. run'.status = "pass" => run.isolated /\ StructurallyComplete(trace)
    BY <1>0, <1>2, PassIsEarned
  <2> QED
    BY <1>0, <1>2, <1>3, <2>1, <2>2, <2>3 DEF FenceHeld
<1> QED
  BY <1>7, <1>8 DEF TraceInv

\* A step that does nothing keeps the trace and the fence.
LEMMA TraceStutters ==
  ASSUME CountInv, TraceInv, UNCHANGED runVars
  PROVE  TraceInv'
<1>0. RunTypeOK /\ TraceIsOfTheTree /\ FenceHeld /\ Len(server.log) \in Nat
  BY LenProperties DEF CountInv, TraceInv, RunTypeOK, ServerType
<1>1. /\ run' = run /\ server' = server /\ recorder' = recorder
      /\ trace' = trace
  BY DEF runVars
<1>2. LogExtends
  BY <1>0, <1>1 DEF LogExtends
<1>3. Reading' <=> Reading
  BY <1>1 DEF Reading
<1>4. TraceIsOfTheTree'
  BY <1>1, <1>3 DEF TraceInv, TraceIsOfTheTree, Covered, TreeOf, Undisturbed
<1>5. FinalizeRunEvents(trace, recorder.delivered)' <=>
        FinalizeRunEvents(trace, recorder.delivered)
  BY <1>0, <1>1, <1>2, FenceStays
<1>6. StructurallyComplete(trace)' <=> StructurallyComplete(trace)
  BY <1>0, <1>1, <1>2, CompletenessStays
<1>7. FenceHeld'
  BY <1>0, <1>1, <1>5, <1>6 DEF FenceHeld
<1> QED
  BY <1>4, <1>7 DEF TraceInv

\* At first there is no trace and no recording.
LEMMA InitTrace ==
  ASSUME RunInit
  PROVE  TraceInv
<1>1. /\ trace = EmptyTrace /\ recorder.stream = "none"
      /\ run.pc = "prepare" /\ ~run.isolated /\ run.status = "none"
  BY DEF RunInit
<1>2. ~Reading /\ Covered = {}
  BY <1>1 DEF Reading, Ending, Covered, TreeOf, EmptyTrace
<1>3. TraceIsOfTheTree
  BY <1>1, <1>2 DEF TraceIsOfTheTree, EmptyTrace
<1> QED
  BY <1>1, <1>3 DEF TraceInv, FenceHeld

\* Every step keeps the trace and the fence.
LEMMA TraceStep ==
  ASSUME CountInv, LogIsComplete, TraceInv, [RunNext]_runVars
  PROVE  TraceInv'
<1>1. CASE RunEnvironment
  BY <1>1, EnvironmentTrace
<1>2. CASE Early
  BY <1>2, EarlyTrace
<1>3. CASE \E s \in Sessions : ReadSession(s)
  BY <1>3, ReadSessionTrace
<1>4. CASE BeginPass \/ ReadStatuses \/ ReadMessages \/ EndPass
  BY <1>4, BeginPassTrace, ReadStatusesTrace, ReadMessagesTrace, EndPassTrace
<1>5. CASE Observe \/ CloseRuntime \/ ReconcileManaged
  BY <1>5, EndingTrace
<1>6. CASE StopRecorder \/ Judge
  BY <1>6, StopRecorderTrace, JudgeTrace
<1>7. CASE UNCHANGED runVars
  BY <1>7, TraceStutters
<1> QED
  BY <1>1, <1>2, <1>3, <1>4, <1>5, <1>6, <1>7 DEF RunNext, Engine, Early

-----------------------------------------------------------------------------
(* The theorems.                                                           *)

\* Every step keeps the invariant.
LEMMA RunStep ==
  ASSUME RunInv, [RunNext]_runVars
  PROVE  RunInv'
<1>1. /\ CountInv /\ RunTypeOK /\ ControlInv /\ LogIsComplete
      /\ DriverInv /\ TraceInv
  BY DEF RunInv, CountInv, ControlInv, DriverInv, TraceInv
<1>2. CountInv'
  BY <1>1, EnvironmentCounts, EngineCounts, StutterCounts DEF RunNext
<1>3. ControlInv'
  BY <1>1, ControlStep
<1>4. DriverInv'
  BY <1>1, DriverStep
<1>5. TraceInv'
  BY <1>1, TraceStep
<1> QED
  BY <1>2, <1>3, <1>4, <1>5 DEF RunInv, ControlInv, DriverInv, TraceInv

\* RunInv is inductive: it holds of every state of every run.
THEOREM RunInvariant == RunSpec => []RunInv
<1>1. RunInit => RunInv
  BY InitCounts, InitControl, InitDriver, InitTrace
     DEF RunInv, ControlInv, DriverInv, TraceInv
<1>2. RunInv /\ [RunNext]_runVars => RunInv'
  BY RunStep
<1> QED
  BY <1>1, <1>2, PTL DEF RunSpec

\* A verdict is given only of a run whose runtime was stopped cleanly, and
\* what a run holds keeps its type: the end of Engine.Run, for any case.
THEOREM RunsAreKept == RunSpec => []RunKept
<1>1. RunInv => RunKept
  BY DEF RunInv, CountInv, RunKept, VerdictsAreOfCleanRuns, CleanupIsKnown
<1> QED
  BY <1>1, RunInvariant, PTL

\* No event followed the last pass of a run that passes.
LEMMA AcceptedIsUndisturbed ==
  ASSUME RunInv, run.status = "pass", recorder.delivered = Len(server.log)
  PROVE  /\ Reading /\ Undisturbed /\ StructurallyComplete(trace)
         /\ trace.frontier = {} /\ trace.reading = {}
         /\ \A e \in Events(Len(server.log)) :
              e[1] # "deleted" /\ e[2] \in TreeOf(trace)
<1>1. /\ run.isolated /\ StructurallyComplete(trace)
      /\ ~FinalizeRunEvents(trace, recorder.delivered)
  BY DEF RunInv, FenceHeld
<1>2. run.pc = "done"
  BY DEF RunInv, LogIsComplete
<1>3. \A e \in Events(Len(server.log)) :
        e[1] # "deleted" /\ e[2] \in TreeOf(trace)
  BY <1>1 DEF FinalizeRunEvents, validateGlobalSessionFence,
     globalEventSessionIDs
<1>4. /\ trace.mark \in Nat /\ Len(server.log) \in Nat
      /\ trace.mark <= Len(server.log)
  BY LenProperties DEF RunInv, CountInv, RunTypeOK, ServerType, TraceType
<1>5. trace.mark = Len(server.log)
  <2> SUFFICES ASSUME trace.mark < Len(server.log) PROVE FALSE
    BY <1>4
  <2>1. /\ Len(server.log) \in (trace.mark + 1)..Len(server.log)
        /\ Len(server.log) \in 1..Len(server.log)
    BY <1>4
  <2>2. server.log[Len(server.log)][2] \in TreeOf(trace)
    BY <1>3, <2>1 DEF Events
  <2>3. globalEventSessionIDs(server.log[Len(server.log)])
          \cap TreeOf(trace) = {}
    BY <1>1, <2>1 DEF FinalizeRunEvents
  <2> QED
    BY <2>2, <2>3 DEF globalEventSessionIDs
<1>6. Undisturbed
  BY <1>1, <1>5 DEF Undisturbed, StructurallyComplete
<1>7. Reading
  BY <1>2 DEF Reading
<1> QED
  BY <1>1, <1>2, <1>3, <1>6, <1>7 DEF RunInv, TraceIsOfTheTree

\* So its trace is the tree as it is now.
LEMMA AcceptedHasTheTree ==
  ASSUME RunInv, run.status = "pass", recorder.delivered = Len(server.log)
  PROVE  AcceptedTraceIsFinal
<1>1. /\ Reading /\ Undisturbed /\ StructurallyComplete(trace)
      /\ trace.frontier = {} /\ trace.reading = {}
      /\ \A e \in Events(Len(server.log)) :
           e[1] # "deleted" /\ e[2] \in TreeOf(trace)
  BY AcceptedIsUndisturbed
<1>2. Covered = TreeOf(trace)
  BY <1>1 DEF Covered
<1>3. /\ Root \in TreeOf(trace) /\ TreeOf(trace) \subseteq server.there
      /\ server.there \cap Children \subseteq TreeOf(trace)
      /\ TreeOf(trace) \subseteq {Root} \cup Children
      /\ \A m \in trace.seen : m[2] = server.messages[m[1]]
  BY <1>1, <1>2 DEF RunInv, TraceIsOfTheTree
<1>4. server.there \subseteq {Root} \cup Children \cup Foreigners
  BY DEF RunInv, CountInv, RunTypeOK, ServerType, Sessions
<1>5. TreeOf(trace) = Descendants
  BY <1>3, <1>4, SessionsAreDistinct DEF Descendants
<1>6. trace.seen \subseteq Sessions \X Turns(run.mode) \X BOOLEAN
  BY DEF RunInv, CountInv, RunTypeOK, TraceType
<1>7. ASSUME NEW m \in trace.seen
      PROVE  m = <<m[1], server.messages[m[1]], FALSE>>
  <2>1. m = <<m[1], m[2], m[3]>> /\ m[3] \in BOOLEAN
    BY <1>6
  <2>2. m[2] = server.messages[m[1]] /\ ~m[3]
    BY <1>1, <1>3 DEF StructurallyComplete
  <2>3. m[3] = FALSE
    BY <2>1, <2>2
  <2> QED
    BY <2>1, <2>2, <2>3
<1>8. trace.seen = {<<s, server.messages[s], FALSE>> : s \in TreeOf(trace)}
  <2>1. ASSUME NEW m \in trace.seen
        PROVE  m \in {<<s, server.messages[s], FALSE>> : s \in TreeOf(trace)}
    <3>1. m[1] \in TreeOf(trace)
      BY DEF TreeOf
    <3> QED
      BY <1>7, <3>1
  <2>2. ASSUME NEW s \in TreeOf(trace)
        PROVE  <<s, server.messages[s], FALSE>> \in trace.seen
    <3>1. PICK m \in trace.seen : m[1] = s
      BY DEF TreeOf
    <3> QED
      BY <1>7, <3>1
  <2> QED
    BY <2>1, <2>2
<1> QED
  BY <1>1, <1>5, <1>8 DEF AcceptedTraceIsFinal

\* A run that passes on a whole recording has the final tree in its trace,
\* however the sessions moved between the reads of its passes: what
\* StructurallyComplete and FinalizeRunEvents are for.
THEOREM AcceptedIsFinal == RunSpec => []AcceptedTraceIsFinal
<1>1. RunInv => AcceptedTraceIsFinal
  BY AcceptedHasTheTree DEF AcceptedTraceIsFinal
<1> QED
  BY <1>1, RunInvariant, PTL

\* The two polls of the managed driver miss no turn and no job between them.
THEOREM AcceptedIsSettled == RunSpec => AcceptedWorkflowIsSettled
<1>1. RunInv /\ [RunNext]_runVars =>
        [run.accepted => /\ flow'.launched = flow.launched
                         /\ flow'.notice = flow.notice
                         /\ Root \notin server'.busy]_runVars
  BY AcceptedStep DEF RunInv, CountInv, DriverInv
<1> QED
  BY <1>1, RunInvariant, PTL DEF RunSpec, AcceptedWorkflowIsSettled

-----------------------------------------------------------------------------
(* The canary *)

(* What holds of the samples while and after they are gathered.            *)
CanaryGathered ==
    /\ Len(gathered) <= Len(ThePlan)
    /\ \A i \in DOMAIN gathered :
          LET s == gathered[i] IN
          /\ s.at = ThePlan[i]
          /\ s.under \cap FrozenForCalls(TheAsk) = {}
          /\ (i < Len(gathered) \/ screening \in {"next", "calling"}) =>
                s.status = "pass" /\ s.timely
          /\ s.status = "pass" => s.attested
          /\ ~s.timely => \/ fault = "deadline"
                          \/ interrupted /\ fault = "canceled"

(* What each stage of the command has already settled, and left alone.      *)
CanaryStages ==
    /\ screening \in {"asked", "ready"} => gathered = <<>>
    /\ (screening \notin {"asked", "done"} \/ sealed # <<>>) =>
          ScreeningAdmitted
    /\ screening \in {"next", "calling"} => fault = "none"
    /\ screening = "calling" =>
          /\ Len(gathered) < Len(ThePlan)
          /\ TheTimeout \in 1..workflowV2CanarySampleLimit
          /\ began.under \cap FrozenForCalls(TheAsk) = {}

(* What is sealed is the artifact of what was gathered, and only the end of *)
(* the command exits.                                                       *)
CanarySealing ==
    /\ screening \notin {"sealed", "done"} => sealed = <<>>
    /\ screening = "sealed" => sealed # <<>>
    /\ sealed # <<>> =>
          \E under \in SUBSET Movable :
              sealed = <<sealCanaryArtifact(gathered, cleaned, fault, under)>>
    /\ screening # "done" => screenExit = "none"

(* The inductive invariant: the gathering, the stages, the seal, the exit.  *)
CanaryInv == /\ CanaryTypeOK /\ CanaryGathered /\ CanaryStages
             /\ CanarySealing /\ SuccessIsPromotion

(* A case and the arm that is called on it.                                 *)
PlaceOfCall ==
    [case : workflowV2CanaryCaseIDs \cup skynexOrchestratorCanaryCaseIDs,
     arm : CanaryArms]

(* The coordinates of a plan are its blocks, two by two, in their order.    *)
LEMMA PlanIsFlat ==
    ASSUME asked \in DOMAIN Asks
    PROVE  LET plan == Asks[asked].manifest.plan[1] IN
           /\ Len(plan) \in Nat /\ DOMAIN plan = 1..Len(plan)
           /\ ThePlan \in Seq(PlaceOfCall)
           /\ Len(ThePlan) = 2 * Len(plan)
           /\ DOMAIN ThePlan = 1..(2 * Len(plan))
           /\ \A b \in DOMAIN plan :
                 /\ plan[b].order \in {<<"control", "candidate">>,
                                       <<"candidate", "control">>}
                 /\ ThePlan[2 * b - 1] =
                       [case |-> plan[b].case, arm |-> plan[b].order[1]]
                 /\ ThePlan[2 * b] =
                       [case |-> plan[b].case, arm |-> plan[b].order[2]]
<1> DEFINE plan == Asks[asked].manifest.plan[1]
           n == Len(plan)
           Orders == {<<"control", "candidate">>, <<"candidate", "control">>}
           Cases == workflowV2CanaryCaseIDs
                        \cup skynexOrchestratorCanaryCaseIDs
           Planned == [case : Cases, order : Orders]
<1>1. plan \in Seq(Planned)
  BY PlansAreBalanced
<1>2. n \in Nat /\ DOMAIN plan = 1..n /\ \A b \in 1..n : plan[b] \in Planned
  <2> HIDE DEF plan, Planned
  <2> QED BY <1>1, ElementOfSeq, LenProperties
<1>3. ThePlan = flattenCanaryPlan(plan)
  BY DEF ThePlan, CanaryPlans, CanaryCoordinates, buildWorkflowCanaryPlan
<1> HIDE DEF plan, n
<1>4. \A b \in 1..n :
         /\ plan[b].order \in Orders /\ plan[b].case \in Cases
         /\ plan[b].order[1] \in CanaryArms
         /\ plan[b].order[2] \in CanaryArms
  BY <1>2 DEF CanaryArms
<1>5. \A i \in 1..(2 * n) : /\ (i + 1) \div 2 \in 1..n
                            /\ 2 - (i % 2) \in {1, 2}
  BY <1>2
<1>6. \A i \in 1..(2 * n) :
         [case |-> plan[(i + 1) \div 2].case,
          arm |-> plan[(i + 1) \div 2].order[2 - (i % 2)]] \in PlaceOfCall
  <2> TAKE i \in 1..(2 * n)
  <2>1. PICK b \in 1..n : b = (i + 1) \div 2
    BY <1>5
  <2>2. PICK j \in {1, 2} : j = 2 - (i % 2)
    BY <1>5
  <2>3. plan[b].order[j] \in CanaryArms
    BY <1>4, <2>2
  <2>4. [case |-> plan[b].case, arm |-> plan[b].order[j]] \in PlaceOfCall
    BY <1>4, <2>3 DEF PlaceOfCall
  <2> QED BY <2>1, <2>2, <2>4
<1>7. ThePlan = [i \in 1..(2 * n) |->
                    [case |-> plan[(i + 1) \div 2].case,
                     arm |-> plan[(i + 1) \div 2].order[2 - (i % 2)]]]
  BY <1>3 DEF flattenCanaryPlan, n
<1>8. ThePlan \in [1..(2 * n) -> PlaceOfCall]
  BY <1>6, <1>7
<1>9. /\ 2 * n \in Nat /\ ThePlan \in Seq(PlaceOfCall)
      /\ Len(ThePlan) = 2 * n /\ DOMAIN ThePlan = 1..(2 * n)
  <2>1. 2 * n \in Nat
    BY <1>2
  <2>2. ThePlan \in Seq(PlaceOfCall)
    BY <1>8, <2>1, SeqDef
  <2>3. DOMAIN ThePlan = 1..(2 * n)
    BY <1>8
  <2>4. Len(ThePlan) = 2 * n
    BY <2>1, <2>2, <2>3, LenProperties
  <2> QED BY <2>1, <2>2, <2>3, <2>4
<1>10. \A b \in 1..n :
          /\ ThePlan[2 * b - 1] =
                [case |-> plan[b].case, arm |-> plan[b].order[1]]
          /\ ThePlan[2 * b] =
                [case |-> plan[b].case, arm |-> plan[b].order[2]]
  <2> TAKE b \in 1..n
  <2>1. /\ 2 * b \in 1..(2 * n) /\ 2 * b - 1 \in 1..(2 * n)
        /\ (2 * b + 1) \div 2 = b /\ (2 * b - 1 + 1) \div 2 = b
        /\ 2 - ((2 * b) % 2) = 2 /\ 2 - ((2 * b - 1) % 2) = 1
    BY <1>2
  <2> QED BY <2>1, <1>7
<1> QED BY <1>2, <1>4, <1>9, <1>10 DEF n, plan

(* What the gates let through, and what they turn away.                     *)
LEMMA GatesDecide ==
    ASSUME NEW samples \in Seq(CanarySamples), NEW complete, NEW plan,
           NEW error
    PROVE  LET verdict ==
                  evaluateWorkflowCanary(samples, complete, plan, error)
           IN
           /\ verdict.exit \in {"success", "fail", "invalid", "infra_error",
                                "aborted", "inconclusive"}
           /\ verdict.exit = "success" => verdict.decision = "promote"
           /\ verdict.decision = "promote" =>
                 /\ \A i \in DOMAIN samples : samples[i].status = "pass"
                 /\ workflowCanaryRuntimeCompatible(samples)
                 /\ complete /\ TelemetryComplete(samples)
                 /\ Len(samples) = Len(plan) /\ ~RatioExceeded(samples)
           /\ (\/ error = "deadline"
               \/ Some(samples, {"fail", "budget_exhausted"})) =>
                 verdict.decision = "reject"
           /\ verdict.decision = "reject" =>
                 \/ error = "deadline"
                 \/ Some(samples, {"fail", "budget_exhausted"})
                 \/ /\ \A i \in DOMAIN samples : samples[i].status = "pass"
                    /\ Len(samples) = Len(plan) /\ RatioExceeded(samples)
<1>1. \A i \in DOMAIN samples : samples[i].status \in SampleStatuses
  <2>1. \A i \in DOMAIN samples : samples[i] \in CanarySamples
    <3> HIDE DEF CanarySamples
    <3> QED BY ElementOfSeq, LenProperties
  <2> QED BY <2>1 DEF CanarySamples
<1>2. /\ Some(samples, {"fail", "budget_exhausted"})
            <=> Some(samples, {"fail"}) \/ Some(samples, {"budget_exhausted"})
      /\ (/\ ~Some(samples, {"fail"}) /\ ~Some(samples, {"budget_exhausted"})
          /\ ~Some(samples, {"invalid"}) /\ ~Some(samples, {"infra_error"})
          /\ ~Some(samples, {"aborted"}) /\ ~Some(samples, {"inconclusive"}))
         => \A i \in DOMAIN samples : samples[i].status = "pass"
  BY <1>1 DEF Some, SampleStatuses
<1> QED
  BY <1>2 DEF evaluateWorkflowCanary, Verdict

(* What a sealed artifact says, field by field.                             *)
LEMMA ArtifactIs ==
    ASSUME asked \in DOMAIN Asks, gathered \in Seq(CanarySamples),
           NEW complete, NEW error, NEW under
    PROVE  LET artifact ==
                  sealCanaryArtifact(gathered, complete, error, under)
               valid ==
                  validateWorkflowCanaryExecution(gathered, complete, ThePlan)
               sound == /\ valid
                        /\ under \cap verifyPreparedCanaryUnchanged(TheAsk)
                              = {}
           IN
           /\ artifact.cleaned = complete /\ artifact.under = under
           /\ artifact.samples = IF valid THEN gathered ELSE <<>>
           /\ sound => artifact.verdict =
                 evaluateWorkflowCanary(gathered, complete, ThePlan, error)
           /\ ~sound => artifact.verdict =
                 Verdict("inconclusive", "invalid_execution_result",
                         "invalid")
BY DEF sealCanaryArtifact

(* A promotion rests on every coordinate of the plan, passed and attested.  *)
LEMMA PromotionFollows ==
    ASSUME CanaryInv
    PROVE  PromotionIsProven
<1> SUFFICES ASSUME NEW k \in DOMAIN sealed,
                    sealed[k].verdict.decision = "promote"
             PROVE  LET artifact == sealed[k].samples IN
            /\ \A b \in DOMAIN buildWorkflowCanaryPlan(TheAsk.manifest),
                  arm \in CanaryArms :
                  \E i \in DOMAIN artifact :
                      artifact[i].at =
                          [case |-> buildWorkflowCanaryPlan(
                                        TheAsk.manifest)[b].case,
                           arm |-> arm]
            /\ \A i \in DOMAIN artifact :
                  LET s == artifact[i] IN
                  /\ s.status = "pass" /\ s.timely /\ s.attested /\ s.bound
                  /\ s.proves = Proofs /\ s.measured /\ s.tokens > 0
                  /\ s.under \cap FrozenForCalls(TheAsk) = {}
            /\ \A i, j \in DOMAIN artifact :
                  (/\ artifact[i].at.case = artifact[j].at.case
                   /\ artifact[i].at.arm # artifact[j].at.arm)
                  => artifact[i].runtime = artifact[j].runtime
            /\ ~RatioExceeded(artifact)
            /\ sealed[k].cleaned
            /\ sealed[k].under
                  \cap (FrozenForCalls(TheAsk) \cup {"evaluator"}) = {}
  BY DEF PromotionIsProven
<1>1. PICK under \in SUBSET Movable :
         sealed = <<sealCanaryArtifact(gathered, cleaned, fault, under)>>
  BY DEF CanaryInv, CanarySealing
<1> DEFINE seal == sealCanaryArtifact(gathered, cleaned, fault, under)
           plan == Asks[asked].manifest.plan[1]
           valid == validateWorkflowCanaryExecution(gathered, cleaned,
                                                    ThePlan)
<1>2. k = 1 /\ sealed[k] = seal
  BY <1>1
<1>3. asked \in DOMAIN Asks /\ gathered \in Seq(CanarySamples)
  BY DEF CanaryInv, CanaryTypeOK
<1>4. /\ valid /\ under \cap verifyPreparedCanaryUnchanged(TheAsk) = {}
      /\ seal.verdict = evaluateWorkflowCanary(gathered, cleaned, ThePlan,
                                               fault)
      /\ seal.samples = gathered /\ seal.cleaned = cleaned
      /\ seal.under = under
  <2> HIDE DEF seal
  <2> DEFINE sound ==
          /\ valid
          /\ under \cap verifyPreparedCanaryUnchanged(TheAsk) = {}
  <2>1. sound
    <3>1. ASSUME ~sound
          PROVE  seal.verdict = Verdict("inconclusive",
                                  "invalid_execution_result", "invalid")
      BY <3>1, <1>3, ArtifactIs DEF seal
    <3> QED BY <3>1, <1>2 DEF Verdict
  <2> QED BY <2>1, <1>3, ArtifactIs DEF seal
<1> HIDE DEF seal
<1>5. /\ \A i \in DOMAIN gathered : gathered[i].status = "pass"
      /\ workflowCanaryRuntimeCompatible(gathered)
      /\ cleaned /\ TelemetryComplete(gathered)
      /\ Len(gathered) = Len(ThePlan) /\ ~RatioExceeded(gathered)
  BY <1>2, <1>3, <1>4, GatesDecide
<1>6. DOMAIN gathered = 1..Len(ThePlan) /\ Len(ThePlan) \in Nat
  BY <1>3, <1>5, LenProperties
<1>7. \A i \in DOMAIN gathered : gathered[i] \in CanarySamples
  <2> HIDE DEF CanarySamples
  <2> QED BY <1>3, ElementOfSeq, LenProperties
<1>8. \A i \in DOMAIN gathered : gathered[i].at = ThePlan[i]
  BY DEF CanaryInv, CanaryGathered
<1>9. \A b \in DOMAIN plan, arm \in CanaryArms :
         \E i \in DOMAIN gathered :
             gathered[i].at = [case |-> plan[b].case, arm |-> arm]
  <2> SUFFICES ASSUME NEW b \in DOMAIN plan, NEW arm \in CanaryArms
               PROVE  \E i \in DOMAIN gathered :
                         gathered[i].at = [case |-> plan[b].case, arm |-> arm]
    OBVIOUS
  <2>1. /\ Len(plan) \in Nat /\ DOMAIN plan = 1..Len(plan)
        /\ DOMAIN ThePlan = 1..(2 * Len(plan))
        /\ Len(ThePlan) = 2 * Len(plan)
        /\ plan[b].order \in {<<"control", "candidate">>,
                              <<"candidate", "control">>}
        /\ ThePlan[2 * b - 1] =
              [case |-> plan[b].case, arm |-> plan[b].order[1]]
        /\ ThePlan[2 * b] = [case |-> plan[b].case, arm |-> plan[b].order[2]]
    BY <1>3, PlanIsFlat
  <2> HIDE DEF plan
  <2>2. 2 * b - 1 \in DOMAIN gathered /\ 2 * b \in DOMAIN gathered
    BY <2>1, <1>6
  <2>3. arm = plan[b].order[1] \/ arm = plan[b].order[2]
    BY <2>1 DEF CanaryArms
  <2> QED BY <2>1, <2>2, <2>3, <1>8
<1>10. \A i \in DOMAIN gathered :
          LET s == gathered[i] IN
          /\ s.status = "pass" /\ s.timely /\ s.attested /\ s.bound
          /\ s.proves = Proofs /\ s.measured /\ s.tokens > 0
          /\ s.under \cap FrozenForCalls(TheAsk) = {}
  <2> SUFFICES ASSUME NEW i \in DOMAIN gathered
               PROVE  LET s == gathered[i] IN
                      /\ s.status = "pass" /\ s.timely /\ s.attested
                      /\ s.bound /\ s.proves = Proofs /\ s.measured
                      /\ s.tokens > 0
                      /\ s.under \cap FrozenForCalls(TheAsk) = {}
    OBVIOUS
  <2>1. gathered[i].status = "pass" /\ gathered[i].attested
        /\ gathered[i].under \cap FrozenForCalls(TheAsk) = {}
    BY <1>5 DEF CanaryInv, CanaryGathered
  <2>2. gathered[i].bound /\ gathered[i].proves = Proofs
    BY <1>4, <1>5 DEF validateWorkflowCanaryExecution,
                      validateWorkflowCanarySampleChecks
  <2>3. gathered[i].measured /\ gathered[i].tokens > 0
    BY <1>5 DEF TelemetryComplete
  <2>4. fault \notin {"deadline", "canceled"}
    <3>1. evaluateWorkflowCanary(gathered, cleaned, ThePlan,
                                 fault).decision = "promote"
      BY <1>2, <1>4
    <3> QED BY <3>1 DEF evaluateWorkflowCanary, Verdict
  <2>5. gathered[i].timely
    BY <2>4 DEF CanaryInv, CanaryGathered
  <2> QED BY <2>1, <2>2, <2>3, <2>5
<1>11. \A i, j \in DOMAIN gathered :
          (/\ gathered[i].at.case = gathered[j].at.case
           /\ gathered[i].at.arm # gathered[j].at.arm)
          => gathered[i].runtime = gathered[j].runtime
  <2>1. \A i \in DOMAIN gathered :
           /\ gathered[i].at.arm \in {"control", "candidate"}
           /\ gathered[i].runtime =
                 [core |-> gathered[i].runtime.core,
                  authorization |-> gathered[i].runtime.authorization]
    BY <1>7 DEF CanarySamples, CanaryArms, Runtimes
  <2>2. \A i, j \in DOMAIN gathered :
           (/\ gathered[i].at.case = gathered[j].at.case
            /\ gathered[i].at.arm = "control"
            /\ gathered[j].at.arm = "candidate")
           => /\ gathered[i].runtime.core = gathered[j].runtime.core
              /\ gathered[i].runtime.authorization
                    = gathered[j].runtime.authorization
    BY <1>5 DEF workflowCanaryRuntimeCompatible, RuntimesAgree
  <2> QED BY <2>1, <2>2
<1>12. under \cap (FrozenForCalls(TheAsk) \cup {"evaluator"}) = {}
  BY <1>4 DEF verifyPreparedCanaryUnchanged, verifyCanaryExecutionAuthority,
              FrozenForCalls
<1>13. TheAsk = Asks[asked] /\ buildWorkflowCanaryPlan(TheAsk.manifest) = plan
  BY DEF TheAsk, buildWorkflowCanaryPlan
<1> HIDE DEF plan
<1> QED BY <1>2, <1>4, <1>5, <1>9, <1>10, <1>11, <1>12, <1>13

(* A rejection or an invalid screening is justified by what was gathered.   *)
LEMMA RejectionFollows ==
    ASSUME CanaryInv
    PROVE  RejectionIsJust
<1> DEFINE failed == \/ fault = "deadline"
                     \/ Some(gathered, {"fail", "budget_exhausted"})
                     \/ /\ ~interrupted
                        /\ \E i \in DOMAIN gathered : ~gathered[i].timely
<1> SUFFICES ASSUME NEW k \in DOMAIN sealed
             PROVE
        /\ failed => \/ sealed[k].verdict.decision = "reject"
                     \/ sealed[k].verdict.reason = "invalid_execution_result"
        /\ sealed[k].verdict.decision = "reject" =>
              \/ failed
              \/ /\ Len(gathered) = Len(ThePlan)
                 /\ \A i \in DOMAIN gathered : gathered[i].status = "pass"
                 /\ RatioExceeded(gathered)
  BY DEF RejectionIsJust
<1>1. PICK under \in SUBSET Movable :
         sealed = <<sealCanaryArtifact(gathered, cleaned, fault, under)>>
  BY DEF CanaryInv, CanarySealing
<1> DEFINE seal == sealCanaryArtifact(gathered, cleaned, fault, under)
           sound == /\ validateWorkflowCanaryExecution(gathered, cleaned,
                                                       ThePlan)
                    /\ under \cap verifyPreparedCanaryUnchanged(TheAsk) = {}
<1>2. k = 1 /\ sealed[k] = seal
  BY <1>1
<1>3. asked \in DOMAIN Asks /\ gathered \in Seq(CanarySamples)
  BY DEF CanaryInv, CanaryTypeOK
<1>4. failed => \/ fault = "deadline"
                \/ Some(gathered, {"fail", "budget_exhausted"})
  BY DEF CanaryInv, CanaryGathered
<1>5. CASE sound
  <2>1. seal.verdict = evaluateWorkflowCanary(gathered, cleaned, ThePlan,
                                              fault)
    BY <1>3, <1>5, ArtifactIs
  <2> HIDE DEF seal, sound
  <2> QED BY <1>2, <1>3, <1>4, <2>1, GatesDecide
<1>6. CASE ~sound
  <2>1. seal.verdict = Verdict("inconclusive", "invalid_execution_result",
                               "invalid")
    BY <1>3, <1>6, ArtifactIs
  <2> HIDE DEF seal, sound
  <2> QED BY <1>2, <2>1 DEF Verdict
<1> QED BY <1>5, <1>6

(* The invariant implies the contract.                                      *)
LEMMA KeptFollows ==
    ASSUME CanaryInv
    PROVE  CanaryKept
<1>1. ScreeningFailsFast
  BY DEF CanaryInv, CanaryGathered, CanaryStages, ScreeningFailsFast
<1> QED
  BY <1>1, PromotionFollows, RejectionFollows DEF CanaryKept, CanaryInv

(* The command starts with nothing gathered, sealed or spent.               *)
LEMMA CanaryBegins ==
    ASSUME CanaryInit
    PROVE  CanaryInv
<1> USE DEF CanaryInit
<1>1. CanaryTypeOK
  <2>1. gathered \in Seq(CanarySamples)
    BY EmptySeq
  <2>2. began \in [at : Nat, under : SUBSET Movable]
    OBVIOUS
  <2>3. oddities \in 0..MaxOddities /\ minutes \in Nat /\ opened \in Nat
    BY CanaryBounds
  <2>4. strayed \subseteq Movable
    OBVIOUS
  <2> QED BY <2>1, <2>2, <2>3, <2>4 DEF CanaryTypeOK
<1>2. CanaryGathered
  BY <1>1, PlanIsFlat DEF CanaryTypeOK, CanaryGathered
<1> QED
  BY <1>1, <1>2 DEF CanaryInv, CanaryStages, CanarySealing,
                    SuccessIsPromotion

(* What an oddity of the world costs stays within its bound.                *)
LEMMA CostsAreTyped ==
    ASSUME CanaryTypeOK, NEW n \in Nat, Costs(n)
    PROVE  oddities' \in 0..MaxOddities
BY CanaryBounds DEF CanaryTypeOK, Costs

LEMMA OddlyIsTyped ==
    ASSUME CanaryTypeOK, NEW delay, Oddly(delay > 0)
    PROVE  oddities' \in 0..MaxOddities
<1>1. Costs(0) \/ Costs(1)
  BY DEF Oddly
<1> QED BY <1>1, CostsAreTyped

(* What the definitions of the command read of an unchanged request.       *)
LEMMA RequestStays ==
    ASSUME asked' = asked
    PROVE  /\ TheAsk' = TheAsk /\ ThePlan' = ThePlan
           /\ ScreeningAdmitted' = ScreeningAdmitted
BY DEF TheAsk, ThePlan, ScreeningAdmitted

(* The screening stops before anything is called.                           *)
LEMMA StopsEarly ==
    ASSUME CanaryInv, screening \in {"asked", "ready"},
           \/ RefuseScreening \/ probeWorkflowV2Canary \/ OutputExists
           \/ canaryTimeoutFailure
    PROVE  CanaryInv'
<1> USE DEF RefuseScreening, probeWorkflowV2Canary, OutputExists,
            canaryTimeoutFailure, Stops
<1>1. /\ screening' = "done"
      /\ screenExit' \in {"fail", "invalid", "infra_error", "aborted"}
      /\ Costs(0) \/ Costs(1)
      /\ UNCHANGED <<asked, minutes, opened, began, gathered, cleaned, fault,
                     strayed, interrupted, output, sealed>>
  OBVIOUS
<1> USE DEF CanaryInv
<1>2. oddities' \in 0..MaxOddities
  BY <1>1, CostsAreTyped
<1>3. CanaryTypeOK'
  BY <1>1, <1>2 DEF CanaryTypeOK
<1>4. gathered = <<>> /\ sealed = <<>>
  BY DEF CanaryStages, CanarySealing
<1>5. CanaryGathered'
  BY <1>1, <1>4, RequestStays DEF CanaryGathered
<1>6. CanaryStages' /\ CanarySealing' /\ SuccessIsPromotion'
  BY <1>1, <1>4 DEF CanaryStages, CanarySealing, SuccessIsPromotion
<1> QED BY <1>3, <1>5, <1>6

(* The preflight and the opening of the executor gather nothing yet.        *)
LEMMA PreflightKeeps ==
    ASSUME CanaryInv, NEW delay \in {0} \cup Delays, PassPreflight(delay)
    PROVE  CanaryInv'
<1> USE DEF PassPreflight, CanaryInv
<1>1. delay \in Nat
  BY CanaryBounds
<1>2. CanaryTypeOK'
  <2>1. oddities' \in 0..MaxOddities
    BY OddlyIsTyped
  <2> QED BY <1>1, <2>1 DEF CanaryTypeOK
<1>3. gathered = <<>> /\ sealed = <<>> /\ screenExit = "none"
  BY DEF CanaryStages, CanarySealing
<1>4. CanaryGathered'
  BY <1>3, RequestStays DEF CanaryGathered
<1>5. CanaryStages' /\ CanarySealing' /\ SuccessIsPromotion'
  BY <1>3, RequestStays DEF CanaryStages, CanarySealing, SuccessIsPromotion
<1> QED BY <1>2, <1>4, <1>5

LEMMA OpenKeeps ==
    ASSUME CanaryInv, OpenExecutor
    PROVE  CanaryInv'
<1> USE DEF OpenExecutor, CanaryInv
<1> DEFINE valid == validateCanaryExecutionRequest(TheAsk)
<1>1. /\ screening = "ready" /\ screening' \in {"next", "returned"}
      /\ output' = "reserved" /\ opened' = minutes /\ Costs(0)
      /\ cleaned' \in BOOLEAN /\ fault' \in {"none", "error"}
      /\ screening' = "next" => fault' = "none"
      /\ UNCHANGED <<asked, minutes, began, gathered, strayed, interrupted,
                   sealed, screenExit>>
  <2>1. valid \in BOOLEAN
    BY DEF validateCanaryExecutionRequest
  <2> QED BY <2>1
<1>2. CanaryTypeOK'
  BY <1>1, CostsAreTyped DEF CanaryTypeOK
<1>3. gathered = <<>> /\ sealed = <<>> /\ screenExit = "none"
  BY <1>1 DEF CanaryStages, CanarySealing
<1>4. CanaryGathered'
  BY <1>1, <1>3, RequestStays DEF CanaryGathered
<1>5. CanaryStages' /\ CanarySealing' /\ SuccessIsPromotion'
  BY <1>1, <1>3, RequestStays DEF CanaryStages, CanarySealing,
                                  SuccessIsPromotion
<1> QED BY <1>2, <1>4, <1>5

(* The executor returns, whatever its error, with the samples it has.       *)
LEMMA ReturnKeeps ==
    ASSUME CanaryInv, screening \in {"next", "calling"},
           screening' = "returned", minutes' \in Nat, cleaned' \in BOOLEAN,
           fault' \in {"none", "deadline", "canceled", "error"},
           oddities' \in 0..MaxOddities,
           UNCHANGED <<asked, opened, began, gathered, strayed, interrupted,
                       output, sealed, screenExit>>
    PROVE  CanaryInv'
<1> USE DEF CanaryInv
<1>1. CanaryTypeOK'
  BY DEF CanaryTypeOK
<1>2. sealed = <<>> /\ screenExit = "none" /\ ScreeningAdmitted
      /\ fault = "none"
  BY DEF CanaryStages, CanarySealing
<1>3. CanaryGathered'
  BY <1>2, RequestStays DEF CanaryGathered
<1>4. CanaryStages' /\ CanarySealing' /\ SuccessIsPromotion'
  BY <1>2, RequestStays DEF CanaryStages, CanarySealing, SuccessIsPromotion
<1> QED BY <1>1, <1>3, <1>4

(* The errors of an executor are errors the command knows.                  *)
LEMMA ErrorsAreTyped ==
    ASSUME NEW minute, NEW end, CanaryTypeOK
    PROVE  /\ ContextErrors(minute, end) \subseteq {"canceled", "deadline"}
           /\ SampleErrors \subseteq {"canceled", "deadline", "error"}
BY DEF ContextErrors, SampleErrors

(* A call that fails ends the gathering; so does one of another coordinate. *)
LEMMA ReturnsKeep ==
    ASSUME CanaryInv, NEW length \in Lengths, NEW delay \in {0} \cup Delays,
           CallReturnsOther(length) \/ CallFails(length, delay)
    PROVE  CanaryInv'
<1>1. length \in Nat /\ delay \in Nat
  BY CanaryBounds
<1>2. CanaryTypeOK
  BY DEF CanaryInv
<1>5. CASE CallReturnsOther(length)
  <2>1. 1 + Slowness(length, 0) \in Nat
    BY DEF Slowness
  <2>2. oddities' \in 0..MaxOddities
    BY <1>2, <1>5, <2>1, CostsAreTyped DEF CallReturnsOther
  <2>3. minutes' \in Nat
    BY <1>1, <1>2, <1>5 DEF CallReturnsOther, Passes, CanaryTypeOK
  <2> QED
    BY <1>2, <1>5, <2>2, <2>3, ReturnKeeps DEF CallReturnsOther, CanaryTypeOK
<1>6. CASE CallFails(length, delay)
  <2>1. Slowness(length, delay)
             + (IF LateErrors(length) # {} \/ strayed # {} THEN 0 ELSE 1)
           \in Nat
    BY DEF Slowness
  <2>2. oddities' \in 0..MaxOddities
    BY <1>2, <1>6, <2>1, CostsAreTyped DEF CallFails
  <2>3. minutes' \in Nat
    BY <1>1, <1>2, <1>6 DEF CallFails, Passes, CanaryTypeOK
  <2>4. fault' \in {"canceled", "deadline", "error"}
    BY <1>2, <1>6, ErrorsAreTyped DEF CallFails, LateErrors
  <2> QED BY <1>6, <2>2, <2>3, <2>4, ReturnKeeps DEF CallFails
<1> QED BY <1>5, <1>6

(* A call begins only while nothing has failed.                             *)
LEMMA BeginCallKeeps ==
    ASSUME CanaryInv, NEW delay \in {0} \cup Delays, BeginCall(delay)
    PROVE  CanaryInv'
<1> USE DEF BeginCall, CanaryInv
<1>1. delay \in Nat
  BY CanaryBounds
<1>2. oddities' \in 0..MaxOddities
  BY OddlyIsTyped
<1>3. CanaryTypeOK'
  BY <1>1, <1>2 DEF CanaryTypeOK
<1>4. sealed = <<>> /\ screenExit = "none" /\ ScreeningAdmitted
      /\ fault = "none"
  BY DEF CanaryStages, CanarySealing
<1>5. CanaryGathered'
  BY RequestStays DEF CanaryGathered
<1>6. TheTimeout \in 1..workflowV2CanarySampleLimit
      /\ strayed \cap FrozenForCalls(TheAsk) = {}
  <2>1. SampleErrors = {}
    OBVIOUS
  <2> HIDE DEF BeginCall
  <2>2. TheTimeout \in 1..workflowV2CanarySampleLimit
        /\ Intact(verifyCanaryExecutionAuthority(TheAsk))
    BY <2>1 DEF SampleErrors
  <2> QED BY <2>2 DEF Intact, verifyCanaryExecutionAuthority, FrozenForCalls
<1>7. TheTimeout' = TheTimeout
  BY DEF TheTimeout
<1>8. CanaryStages'
  BY <1>4, <1>6, <1>7, RequestStays DEF CanaryStages
<1>9. CanarySealing' /\ SuccessIsPromotion'
  BY <1>4 DEF CanarySealing, SuccessIsPromotion
<1> QED BY <1>3, <1>5, <1>8, <1>9

(* An accepted sample is put behind the others.                             *)
LEMMA AcceptKeeps ==
    ASSUME CanaryInv, screening = "calling",
           screening' \in {"next", "returned"}, minutes' \in Nat,
           NEW sample \in CanarySamples,
           gathered' = Append(gathered, sample),
           sample.at = TheCoordinate,
           sample.under \cap FrozenForCalls(TheAsk) = {},
           sample.status = "pass" => sample.attested,
           screening' = "next" =>
               sample.status = "pass" /\ sample.timely /\ fault' = "none",
           ~sample.timely => \/ fault' = "deadline"
                             \/ interrupted /\ fault' = "canceled",
           cleaned' \in BOOLEAN,
           fault' \in {"none", "deadline", "canceled", "error"},
           oddities' \in 0..MaxOddities,
           UNCHANGED <<asked, opened, began, strayed, interrupted,
                       output, sealed, screenExit>>
    PROVE  CanaryInv'
<1> USE DEF CanaryInv
<1>1. sealed = <<>> /\ screenExit = "none" /\ ScreeningAdmitted
      /\ fault = "none" /\ Len(gathered) < Len(ThePlan)
  BY DEF CanaryStages, CanarySealing
<1>2. gathered \in Seq(CanarySamples) /\ asked \in DOMAIN Asks
  BY DEF CanaryTypeOK
<1>3. /\ Len(gathered) \in Nat /\ Len(gathered') = Len(gathered) + 1
      /\ gathered' \in Seq(CanarySamples)
      /\ DOMAIN gathered = 1..Len(gathered)
      /\ DOMAIN gathered' = 1..(Len(gathered) + 1)
      /\ \A i \in 1..Len(gathered) : gathered'[i] = gathered[i]
      /\ gathered'[Len(gathered) + 1] = sample
  <2> HIDE DEF CanarySamples
  <2> QED BY <1>2, AppendProperties, LenProperties
<1>4. CanaryTypeOK'
  <2> HIDE DEF CanarySamples
  <2> QED BY <1>3 DEF CanaryTypeOK
<1>5. CanaryGathered'
  <2>1. Len(gathered') <= Len(ThePlan') /\ TheAsk' = TheAsk
        /\ ThePlan' = ThePlan
    <3>1. Len(ThePlan) \in Nat
      BY <1>2, PlanIsFlat
    <3> QED BY <3>1, <1>1, <1>3, RequestStays
  <2>2. ASSUME NEW i \in 1..Len(gathered)
        PROVE  /\ gathered'[i].at = ThePlan[i]
               /\ gathered'[i].under \cap FrozenForCalls(TheAsk) = {}
               /\ gathered'[i].status = "pass" /\ gathered'[i].timely
               /\ gathered'[i].attested
    BY <1>3 DEF CanaryGathered
  <2>3. sample.at = ThePlan[Len(gathered) + 1]
    BY DEF TheCoordinate
  <2>4. DOMAIN gathered' = 1..Len(gathered) \cup {Len(gathered) + 1}
    BY <1>3
  <2> QED
    BY <1>3, <2>1, <2>2, <2>3, <2>4 DEF CanaryGathered
<1>6. CanaryStages' /\ CanarySealing' /\ SuccessIsPromotion'
  BY <1>1, RequestStays DEF CanaryStages, CanarySealing, SuccessIsPromotion
<1> QED BY <1>4, <1>5, <1>6

(* Whatever sample a call makes, it is of the coordinate that was called.   *)
LEMMA SamplesOfACall ==
    ASSUME CanaryInv, screening = "calling", NEW length \in Lengths,
           NEW tokens \in TokenCounts[TheCoordinate.arm],
           NEW sample \in UsualSamples(length, UsualSample(length, tokens))
                          \cup OddSamples(UsualSample(length, tokens))
    PROVE  /\ sample \in CanarySamples /\ sample.at = TheCoordinate
           /\ sample.timely = (minutes + length < CallEnds)
           /\ sample.under = began.under \cup strayed
<1> DEFINE usual == UsualSample(length, tokens)
<1>1. TheCoordinate \in PlaceOfCall
  <2>1. /\ asked \in DOMAIN Asks /\ gathered \in Seq(CanarySamples)
        /\ Len(gathered) < Len(ThePlan)
    BY DEF CanaryInv, CanaryTypeOK, CanaryStages
  <2>2. ThePlan \in Seq(PlaceOfCall)
    BY <2>1, PlanIsFlat
  <2>3. Len(gathered) \in Nat /\ Len(ThePlan) \in Nat
    BY <2>1, <2>2, LenProperties
  <2> HIDE DEF PlaceOfCall
  <2> QED BY <2>1, <2>2, <2>3, ElementOfSeq DEF TheCoordinate
<1>2. tokens \in Nat
  BY <1>1, CanaryBounds DEF PlaceOfCall
<1>3. began.under \cup strayed \in SUBSET Movable
  BY DEF CanaryInv, CanaryTypeOK
<1>4. /\ usual \in CanarySamples /\ usual.at = TheCoordinate
      /\ usual.timely = (minutes + length < CallEnds)
      /\ usual.under = began.under \cup strayed
  BY <1>1, <1>2, <1>3
  DEF UsualSample, CanarySamples, PlaceOfCall, SampleStatuses, Runtimes
<1> HIDE DEF usual
<1>5. CASE sample = usual
  BY <1>4, <1>5
<1>6. ASSUME NEW status \in SampleStatuses, NEW attested \in BOOLEAN,
             sample = [usual EXCEPT !.status = status, !.attested = attested]
      PROVE  /\ sample \in CanarySamples /\ sample.at = usual.at
             /\ sample.timely = usual.timely /\ sample.under = usual.under
  BY <1>4, <1>6 DEF CanarySamples
<1>7. ASSUME NEW status \in SampleStatuses,
             sample = [usual EXCEPT !.status = status]
      PROVE  /\ sample \in CanarySamples /\ sample.at = usual.at
             /\ sample.timely = usual.timely /\ sample.under = usual.under
  BY <1>4, <1>7 DEF CanarySamples
<1>8. ASSUME \/ sample = [usual EXCEPT !.bound = FALSE]
             \/ sample = [usual EXCEPT !.measured = FALSE]
      PROVE  /\ sample \in CanarySamples /\ sample.at = usual.at
             /\ sample.timely = usual.timely /\ sample.under = usual.under
  BY <1>4, <1>8 DEF CanarySamples
<1>9. ASSUME NEW proves \in SUBSET Proofs,
             sample = [usual EXCEPT !.proves = proves]
      PROVE  /\ sample \in CanarySamples /\ sample.at = usual.at
             /\ sample.timely = usual.timely /\ sample.under = usual.under
  BY <1>4, <1>9 DEF CanarySamples
<1>10. ASSUME NEW runtime \in Runtimes,
              sample = [usual EXCEPT !.runtime = runtime]
       PROVE  /\ sample \in CanarySamples /\ sample.at = usual.at
              /\ sample.timely = usual.timely /\ sample.under = usual.under
  BY <1>4, <1>10 DEF CanarySamples
<1>11. CASE sample \in LateSamples(usual)
  <2>1. {"budget_exhausted", "aborted"} \subseteq SampleStatuses
    BY DEF SampleStatuses
  <2> QED BY <1>4, <1>7, <1>11, <2>1 DEF LateSamples
<1>12. CASE sample \in OddSamples(usual)
  <2>1. {{"declared"}, {"categories"}} \subseteq SUBSET Proofs
    BY DEF Proofs
  <2>2. {[core |-> "other", authorization |-> "frozen"],
         [core |-> "", authorization |-> "frozen"],
         [core |-> "frozen", authorization |-> ""]} \subseteq Runtimes
    BY DEF Runtimes
  <2> DEFINE A == {[usual EXCEPT !.status = end.status,
                                 !.attested = end.attested] :
                      end \in [status : SampleStatuses, attested : BOOLEAN]}
             B == {[usual EXCEPT !.bound = FALSE],
                   [usual EXCEPT !.measured = FALSE]}
             P == {[usual EXCEPT !.proves = p] :
                      p \in {{"declared"}, {"categories"}}}
             R == {[usual EXCEPT !.runtime = r] :
                      r \in {[core |-> "other", authorization |-> "frozen"],
                             [core |-> "", authorization |-> "frozen"],
                             [core |-> "frozen", authorization |-> ""]}}
  <2>3. sample \in A \/ sample \in B \/ sample \in P \/ sample \in R
    <3>1. OddSamples(usual) = ((A \cup B) \cup P) \cup R
      BY DEF OddSamples
    <3> HIDE DEF A, B, P, R
    <3> QED BY <3>1, <1>12
  <2>4. CASE sample \in A
    <3>1. PICK end \in [status : SampleStatuses, attested : BOOLEAN] :
             sample = [usual EXCEPT !.status = end.status,
                                    !.attested = end.attested]
      BY <2>4, Zenon
    <3>2. end.status \in SampleStatuses /\ end.attested \in BOOLEAN
      BY <3>1
    <3> QED BY <1>4, <1>6, <3>1, <3>2
  <2>5. CASE sample \in B
    BY <1>4, <1>8, <2>5
  <2>6. CASE sample \in P
    <3>1. PICK p \in SUBSET Proofs : sample = [usual EXCEPT !.proves = p]
      BY <2>1, <2>6
    <3> QED BY <1>4, <1>9, <3>1
  <2>7. CASE sample \in R
    <3>1. PICK r \in Runtimes : sample = [usual EXCEPT !.runtime = r]
      BY <2>2, <2>7
    <3> QED BY <1>4, <1>10, <3>1
  <2> HIDE DEF A, B, P, R
  <2> QED BY <2>3, <2>4, <2>5, <2>6, <2>7
<1>13. \/ sample = usual \/ sample \in LateSamples(usual)
       \/ sample \in OddSamples(usual)
  BY DEF UsualSamples, usual
<1> QED BY <1>5, <1>11, <1>12, <1>13

(* A call ends with its sample accepted or with the error it made.          *)
LEMMA EndCallKeeps ==
    ASSUME CanaryInv, NEW length \in Lengths, NEW delay \in {0} \cup Delays,
           EndCall(length, delay)
    PROVE  CanaryInv'
<1> DEFINE Made(tokens) ==
               UsualSamples(length, UsualSample(length, tokens))
                   \cup OddSamples(UsualSample(length, tokens))
<1>0. PICK tokens \in TokenCounts[TheCoordinate.arm] :
         \E sample \in Made(tokens) :
             /\ \/ Costs(Slowness(length, delay))
                \/ Costs(1 + Slowness(length, delay))
             /\ CallReturns(length, delay, sample)
  BY DEF EndCall
<1>1. PICK sample \in Made(tokens) :
         /\ \/ Costs(Slowness(length, delay))
            \/ Costs(1 + Slowness(length, delay))
         /\ CallReturns(length, delay, sample)
  BY <1>0
<1>2. /\ screening = "calling" /\ CanaryTypeOK /\ fault = "none"
      /\ TheTimeout \in 1..workflowV2CanarySampleLimit
      /\ began.under \cap FrozenForCalls(TheAsk) = {}
  BY DEF EndCall, CanaryInv, CanaryStages
<1>3. /\ sample \in CanarySamples /\ sample.at = TheCoordinate
      /\ sample.timely = (minutes + length < CallEnds)
      /\ sample.under = began.under \cup strayed
  BY <1>2, SamplesOfACall
<1>4. sample.attested \in BOOLEAN
  BY <1>3 DEF CanarySamples
<1>5. length \in Nat /\ delay \in Nat
  BY CanaryBounds
<1>6. oddities' \in 0..MaxOddities
  <2>1. Slowness(length, delay) \in Nat /\ 1 + Slowness(length, delay) \in Nat
    BY DEF Slowness
  <2> QED BY <1>1, <1>2, <2>1, CostsAreTyped
<1> DEFINE intact == Intact(verifyCanaryExecutionAuthority(TheAsk))
           accepted == intact /\ (sample.status = "pass" => sample.attested)
<1>7. /\ minutes' = minutes + length + delay
      /\ cleaned' = (cleaned /\ (intact => sample.attested))
      /\ gathered' = IF accepted THEN Append(gathered, sample) ELSE gathered
      /\ fault' \in IF ~accepted THEN {"error"}
                    ELSE IF LateErrors(length) # {} THEN LateErrors(length)
                    ELSE {"none"}
      /\ screening' = IF /\ accepted /\ sample.status = "pass"
                         /\ LateErrors(length) = {}
                      THEN "next" ELSE "returned"
      /\ UNCHANGED <<asked, opened, began, strayed, interrupted, output,
                     sealed, screenExit>>
  BY <1>1 DEF CallReturns, Passes, workflowCanarySampleCleanupAttested
<1> HIDE DEF accepted
<1>8. minutes' \in Nat /\ cleaned' \in BOOLEAN
  BY <1>2, <1>4, <1>5, <1>7 DEF CanaryTypeOK
<1>9. fault' \in {"none", "deadline", "canceled", "error"}
  BY <1>2, <1>7, ErrorsAreTyped DEF LateErrors
<1>10. CASE ~accepted
  BY <1>2, <1>6, <1>7, <1>8, <1>9, <1>10, ReturnKeeps
<1>11. CASE accepted
  <2>1. strayed \cap FrozenForCalls(TheAsk) = {}
    BY <1>11
    DEF accepted, Intact, verifyCanaryExecutionAuthority, FrozenForCalls
  <2>2. sample.under \cap FrozenForCalls(TheAsk) = {}
    BY <2>1, <1>2, <1>3
  <2>3. /\ LateErrors(length) = {} => sample.timely
        /\ ~sample.timely =>
              fault' = "deadline" \/ (interrupted /\ fault' = "canceled")
    <3>1. minutes + length \in Int
      BY <1>2, <1>5 DEF CanaryTypeOK
    <3>2. BudgetEnds \in Int
      <4>1. opened \in Nat
        BY <1>2 DEF CanaryTypeOK
      <4> QED
        BY <4>1 DEF BudgetEnds, Earlier, ExecutionDeadline,
                    workflowV2CanarySampleBudget,
                    workflowV2CanaryGlobalLimit, workflowV2CanarySealReserve
    <3>3. CallEnds \in Int
      <4>1. began.at + TheTimeout \in Int
        BY <1>2 DEF CanaryTypeOK, workflowV2CanarySampleLimit
      <4> QED BY <4>1, <3>2 DEF CallEnds, Earlier
    <3>4. ~(minutes + length < CallEnds) => minutes + length >= CallEnds
      BY <3>1, <3>3
    <3>5. /\ ~sample.timely => "deadline" \in LateErrors(length)
          /\ LateErrors(length) \subseteq {"canceled", "deadline"}
          /\ "canceled" \in LateErrors(length) => interrupted
      BY <3>4, <1>3 DEF LateErrors, ContextErrors
    <3>6. fault' \in IF LateErrors(length) # {} THEN LateErrors(length)
                     ELSE {"none"}
      BY <1>7, <1>11
    <3>7. LateErrors(length) = {} => sample.timely
      BY <3>5
    <3>8. ASSUME ~sample.timely
          PROVE  fault' = "deadline" \/ (interrupted /\ fault' = "canceled")
      <4>1. LateErrors(length) # {}
        BY <3>8, <3>7
      <4>2. fault' \in LateErrors(length)
        BY <4>1, <3>6
      <4> QED BY <4>2, <3>5
    <3> QED BY <3>7, <3>8
  <2>4. /\ sample.status = "pass" => sample.attested
        /\ gathered' = Append(gathered, sample)
        /\ screening' \in {"next", "returned"}
        /\ screening' = "next" =>
              /\ sample.status = "pass" /\ LateErrors(length) = {}
              /\ fault' = "none"
    BY <1>7, <1>11 DEF accepted
  <2> QED
    BY <1>2, <1>3, <1>6, <1>7, <1>8, <1>9, <2>2, <2>3, <2>4, AcceptKeeps
<1> QED BY <1>10, <1>11

(* Sealing keeps what was gathered, and publishing what was sealed.         *)
LEMMA SealKeeps ==
    ASSUME CanaryInv, NEW delay \in {0} \cup Delays, SealArtifact(delay)
    PROVE  CanaryInv'
<1> USE DEF SealArtifact, CanaryInv
<1>0. delay \in Nat
  BY CanaryBounds
<1>1. oddities' \in 0..MaxOddities
  BY OddlyIsTyped
<1>2. CanaryTypeOK'
  BY <1>0, <1>1 DEF CanaryTypeOK
<1>3. screenExit = "none" /\ ScreeningAdmitted
  BY DEF CanaryStages, CanarySealing
<1>4. CanaryGathered'
  BY RequestStays DEF CanaryGathered
<1>5. CanaryStages'
  BY <1>3, RequestStays DEF CanaryStages
<1>6. CanarySealing' /\ SuccessIsPromotion'
  <2>1. sealCanaryArtifact(gathered, cleaned, fault, strayed)'
           = sealCanaryArtifact(gathered, cleaned, fault, strayed)
    BY RequestStays DEF sealCanaryArtifact
  <2>2. /\ sealed' = <<sealCanaryArtifact(gathered, cleaned, fault, strayed)>>
        /\ gathered' = gathered /\ cleaned' = cleaned /\ fault' = fault
        /\ strayed' = strayed /\ strayed \in SUBSET Movable
        /\ screening' = "sealed" /\ screenExit' = "none"
    BY <1>3 DEF CanaryTypeOK
  <2> QED BY <2>1, <2>2 DEF CanarySealing, SuccessIsPromotion
<1> QED BY <1>2, <1>4, <1>5, <1>6

LEMMA PublishKeeps ==
    ASSUME CanaryInv, PublishArtifact
    PROVE  CanaryInv'
<1> USE DEF PublishArtifact, CanaryInv, Stops
<1>1. screenExit = "none" /\ ScreeningAdmitted /\ sealed # <<>>
  BY DEF CanaryStages, CanarySealing
<1>2. PICK under \in SUBSET Movable :
         sealed = <<sealCanaryArtifact(gathered, cleaned, fault, under)>>
  BY <1>1 DEF CanarySealing
<1>3. /\ Len(sealed) = 1
      /\ sealed[1].verdict.exit \in
            {"success", "fail", "invalid", "infra_error", "aborted",
             "inconclusive"}
      /\ sealed[1].verdict.exit = "success" =>
            sealed[1].verdict.decision = "promote"
  <2> DEFINE seal == sealCanaryArtifact(gathered, cleaned, fault, under)
             sound == /\ validateWorkflowCanaryExecution(gathered, cleaned,
                                                         ThePlan)
                      /\ under \cap verifyPreparedCanaryUnchanged(TheAsk)
                            = {}
  <2>1. asked \in DOMAIN Asks /\ gathered \in Seq(CanarySamples)
    BY DEF CanaryTypeOK
  <2>2. CASE sound
    <3>1. seal.verdict = evaluateWorkflowCanary(gathered, cleaned, ThePlan,
                                                fault)
      BY <2>1, <2>2, ArtifactIs
    <3> HIDE DEF seal, sound
    <3> QED BY <1>2, <2>1, <3>1, GatesDecide DEF seal
  <2>3. CASE ~sound
    <3>1. seal.verdict = Verdict("inconclusive", "invalid_execution_result",
                                 "invalid")
      BY <2>1, <2>3, ArtifactIs
    <3> HIDE DEF seal, sound
    <3> QED BY <1>2, <3>1 DEF Verdict, seal
  <2> QED BY <2>2, <2>3
<1>4. /\ screening = "sealed" /\ screening' = "done"
      /\ Costs(0) \/ Costs(1)
      /\ \/ /\ output' = "artifact"
            /\ screenExit' \in {"aborted", sealed[1].verdict.exit}
         \/ screenExit' = "infra_error" /\ output' \in {"absent", "foreign"}
      /\ UNCHANGED <<asked, minutes, opened, began, gathered, cleaned, fault,
                     strayed, interrupted, sealed>>
  BY DEF CanaryTypeOK
<1> HIDE DEF PublishArtifact
<1>5. oddities' \in 0..MaxOddities
  BY <1>4, CostsAreTyped
<1>6. CanaryTypeOK'
  BY <1>3, <1>4, <1>5 DEF CanaryTypeOK
<1>7. CanaryGathered' /\ CanaryStages'
  BY <1>1, <1>4, RequestStays DEF CanaryGathered, CanaryStages
<1>8. CanarySealing'
  <2>1. sealCanaryArtifact(gathered, cleaned, fault, under)'
           = sealCanaryArtifact(gathered, cleaned, fault, under)
    BY <1>4, RequestStays DEF sealCanaryArtifact
  <2> QED BY <1>1, <1>2, <1>4, <2>1 DEF CanarySealing
<1>9. SuccessIsPromotion'
  BY <1>3, <1>4 DEF SuccessIsPromotion
<1> QED BY <1>6, <1>7, <1>8, <1>9

(* The world moves the inputs, the context and the path of the artifact.    *)
LEMMA WorldKeeps ==
    ASSUME CanaryInv,
           screening # "done", strayed' \subseteq Movable,
           interrupted' \in BOOLEAN, interrupted => interrupted',
           output' \in {"absent", "reserved", "artifact", "foreign"},
           Costs(0) \/ Costs(1),
           UNCHANGED <<screening, asked, minutes, opened, began, gathered,
                       cleaned, fault, sealed, screenExit>>
    PROVE  CanaryInv'
<1> USE DEF CanaryInv
<1>1. oddities' \in 0..MaxOddities
  BY CostsAreTyped
<1>2. CanaryTypeOK'
  BY <1>1 DEF CanaryTypeOK
<1>3. screenExit = "none"
  BY DEF CanarySealing
<1>4. CanaryGathered'
  BY RequestStays DEF CanaryGathered
<1>5. TheTimeout' = TheTimeout
  BY DEF TheTimeout
<1>6. CanaryStages'
  BY <1>5, RequestStays DEF CanaryStages
<1>7. CanarySealing' /\ SuccessIsPromotion'
  <2>1. ASSUME NEW under
        PROVE  sealCanaryArtifact(gathered, cleaned, fault, under)'
                  = sealCanaryArtifact(gathered, cleaned, fault, under)
    BY RequestStays DEF sealCanaryArtifact
  <2> QED BY <1>3, <2>1 DEF CanarySealing, SuccessIsPromotion
<1> QED BY <1>2, <1>4, <1>6, <1>7

(* Every step of the command and of its world keeps the invariant.          *)
LEMMA CanaryStepKeeps ==
    ASSUME CanaryInv, CanaryNext
    PROVE  CanaryInv'
<1>1. CASE commandCanary
  <2> SUFFICES ASSUME
          \/ RefuseScreening \/ probeWorkflowV2Canary
          \/ OutputExists \/ canaryTimeoutFailure
          \/ \E delay \in {0} \cup Delays :
                PassPreflight(delay) \/ BeginCall(delay) \/ SealArtifact(delay)
          \/ OpenExecutor \/ GatheredAll \/ StopBeforeSample
          \/ \E length \in Lengths :
                \/ CallReturnsOther(length)
                \/ \E delay \in {0} \cup Delays :
                      CallFails(length, delay) \/ EndCall(length, delay)
          \/ PublishArtifact
               PROVE CanaryInv'
    BY <1>1 DEF commandCanary
  <2>1. CASE \/ RefuseScreening \/ probeWorkflowV2Canary
             \/ OutputExists \/ canaryTimeoutFailure
    <3>1. screening \in {"asked", "ready"}
      BY <2>1 DEF RefuseScreening, probeWorkflowV2Canary, OutputExists,
                  canaryTimeoutFailure
    <3> QED BY <2>1, <3>1, StopsEarly
  <2>2. CASE \E delay \in {0} \cup Delays :
                PassPreflight(delay) \/ BeginCall(delay) \/ SealArtifact(delay)
    BY <2>2, PreflightKeeps, BeginCallKeeps, SealKeeps
  <2>3. CASE OpenExecutor
    BY <2>3, OpenKeeps
  <2>4. CASE GatheredAll \/ StopBeforeSample
    <3>1. screening \in {"next", "calling"} /\ screening' = "returned"
          /\ UNCHANGED <<asked, minutes, opened, began, gathered, cleaned,
                         strayed, interrupted, output, sealed, screenExit>>
      BY <2>4 DEF GatheredAll, StopBeforeSample
    <3>2. CanaryTypeOK
      BY DEF CanaryInv
    <3>3. fault' \in {"none", "deadline", "canceled", "error"}
      BY <2>4, <3>2, ErrorsAreTyped
      DEF GatheredAll, StopBeforeSample, CanaryTypeOK
    <3>4. oddities' \in 0..MaxOddities
      BY <2>4, <3>2, CostsAreTyped DEF GatheredAll, StopBeforeSample
    <3> QED BY <3>1, <3>2, <3>3, <3>4, ReturnKeeps DEF CanaryTypeOK
  <2>5. CASE \E length \in Lengths : CallReturnsOther(length)
    <3>1. 0 \in {0} \cup Delays
      OBVIOUS
    <3> QED BY <2>5, <3>1, ReturnsKeep
  <2>6. CASE \E length \in Lengths, delay \in {0} \cup Delays :
                CallFails(length, delay) \/ EndCall(length, delay)
    BY <2>6, ReturnsKeep, EndCallKeeps
  <2>7. CASE PublishArtifact
    BY <2>7, PublishKeeps
  <2> QED BY <2>1, <2>2, <2>3, <2>4, <2>5, <2>6, <2>7
<1>2. CASE \E input \in Movable : Stray(input) \/ PutBack(input)
  BY <1>2, WorldKeeps DEF Stray, PutBack, CanaryInv, CanaryTypeOK
<1>3. CASE Interrupt
  BY <1>3, WorldKeeps DEF Interrupt, CanaryInv, CanaryTypeOK
<1>4. CASE WriteForeign
  BY <1>4, WorldKeeps DEF WriteForeign, CanaryInv, CanaryTypeOK
<1> QED BY <1>1, <1>2, <1>3, <1>4 DEF CanaryNext

(* Whatever its samples report, however slowly they do, and whatever drifts *)
(* or is interrupted meanwhile, a screening keeps its contract.             *)
THEOREM ScreeningKeepsItsContract == CanarySpec => []CanaryKept
<1>1. ASSUME CanaryInv, UNCHANGED canaryVars
      PROVE  CanaryInv'
  <2>1. sealCanaryArtifact(gathered, cleaned, fault, strayed)'
           = sealCanaryArtifact(gathered, cleaned, fault, strayed)
    BY <1>1, RequestStays DEF canaryVars, sealCanaryArtifact
  <2>2. TheTimeout' = TheTimeout
    BY <1>1 DEF canaryVars, TheTimeout
  <2>3. ASSUME NEW under
        PROVE  sealCanaryArtifact(gathered, cleaned, fault, under)'
                  = sealCanaryArtifact(gathered, cleaned, fault, under)
    BY <1>1, RequestStays DEF canaryVars, sealCanaryArtifact
  <2> QED
    BY <1>1, <2>2, <2>3, RequestStays
    DEF canaryVars, CanaryInv, CanaryTypeOK, CanaryGathered, CanaryStages,
        CanarySealing, SuccessIsPromotion
<1>2. CanaryInv /\ [CanaryNext]_canaryVars => CanaryInv'
  BY <1>1, CanaryStepKeeps
<1>3. CanaryInit => CanaryInv
  BY CanaryBegins
<1>4. CanaryInv => CanaryKept
  BY KeptFollows
<1> QED BY <1>2, <1>3, <1>4, PTL DEF CanarySpec

=============================================================================
