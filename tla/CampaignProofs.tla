---------------------------- MODULE CampaignProofs ----------------------------
(***************************************************************************)
(* What a campaign owes whoever keeps files beside it and the reader of    *)
(* its finals: that it never loses a file of somebody else and publishes   *)
(* only whole finals, whoever dies, overlaps, drifts or writes beside it.  *)
(***************************************************************************)
EXTENDS Campaign, SequenceTheorems, FiniteSetTheorems, TLAPS

(* Names for the parts of a campaign: its finals, the placeholder of a run, *)
(* the phases in which a run acts, and what it holds of the population.     *)
FinalPaths == Outputs \ {"partial"}
Placeholder(r) == File(r, "placeholder", {})
Act == {"first", "block", "next", "call", "verify", "finish", "publish",
        "rollback", "fail", "retire"}
Ended == {"idle", "done", "dead"}
Distinct(S) == \A s, t \in S : s[1] = t[1] => s = t
Clean(S) == \A s \in S : s[3]
Complete(S) == CoordinatesOf(S) = Coordinates
Part(S, p) == IF p = "comparison" THEN S ELSE {s \in S : s[1][2] = p}
FinalOf(r, S, p) == File(r, "final", Part(S, p))

(* What each phase of a run says of its own state.  First its samples:      *)
(* distinct coordinates, each sampled under an intact closure.              *)
SamplesOK(x) == /\ Distinct(x.samples) /\ Distinct(x.kept)
                /\ Clean(x.samples) /\ Clean(x.kept)

(* A run that has claimed nothing yet, or nothing any more.                 *)
IsBlank(x) == /\ x.samples = {} /\ x.own = None /\ x.op = NoOp
              /\ x.todo = 0 /\ x.targets = [o \in Outputs |-> Unreserved]

(* What the phase says of the mode, the samples, the owned partial and the  *)
(* block.                                                                   *)
PhaseOK(x) ==
    /\ x.pc \in Ended \cup {"lock", "load"} => IsBlank(x)
    /\ x.pc \in {"lock", "load"} => x.mode = "resume"
    /\ x.pc \notin Ended => x.mode \in {"fresh", "resume"}
    /\ x.pc \in {"reserve", "first"} =>
          /\ x.mode = "fresh" => x.own = None /\ x.samples = {}
          /\ x.mode = "resume" =>
                x.own.what = "partial" /\ x.samples = x.own.data
    /\ x.pc \in Act \ {"first"} => x.own.what = "partial"
    /\ x.own = None \/ x.own.what = "partial"
    /\ x.pc \in {"close", "unlock"} => x.samples = {}
    /\ x.pc \in {"finish", "publish", "rollback", "retire"} =>
          Complete(x.samples)
    /\ x.pc \in {"next", "call"} => x.block \in DOMAIN Blocks
    /\ x.pc = "call" /\ x.op = NoOp => ~abBlockComplete(x.samples, x.block)
    /\ x.pc = "reserve" => x.todo < (IF x.mode = "fresh" THEN 4 ELSE 3)
    /\ x.pc = "publish" => x.todo \in 1..4 /\ (x.op = NoOp => x.todo <= 3)

(* A reservation that was not used yet; the path a run claims as its i-th.  *)
FreshTarget(t) == t.published = None /\ (~t.preexisting => ~t.consumed)
HeldTarget(r, t) == t.info = Placeholder(r) /\ ~t.consumed
PathAt(x, i) == (IF x.mode = "fresh" THEN <<"partial">> \o Finals
    ELSE Finals)[i]

(* Every reservation: a file that was found is never consumed or published  *)
(* by the run; any other is the placeholder of the run.                     *)
TargetOK(r, x, p) ==
    LET t == x.targets[p] IN
    /\ t.preexisting =>
          /\ t.consumed /\ t.published = None /\ t.info # None
          /\ p # "partial" /\ x.mode = "resume"
          /\ x.pc \in Act \cup {"reserve"} => Complete(x.samples)
    /\ ~t.preexisting =>
          \/ t.info = Placeholder(r)
          \/ t.info = None /\ ~t.consumed /\ t.published = None
    /\ t.info = None => ~t.consumed /\ t.published = None

(* The reservation of a final: untouched before the publication, and what   *)
(* was published of it are the samples of the run.                          *)
FinalTargetOK(r, x, p) ==
    LET t == x.targets[p] IN
    /\ x.pc \in {"reserve", "first", "block", "next", "call", "verify",
                 "finish"} => FreshTarget(t)
    /\ x.pc \in Act => t.info # None
    /\ x.pc \in {"next", "call", "verify"} => ~t.preexisting
    /\ x.pc = "rollback" /\ p = "comparison" => t.published = None
    /\ x.pc = "fail" => /\ t.published = None
                        /\ HeldTarget(r, t) \/ Complete(x.samples)
    /\ x.pc \in Act /\ t.published # None =>
          t.consumed /\ t.published = FinalOf(r, x.samples, p)

(* The reservation of the partial: a fresh run uses it up with its first    *)
(* checkpoint, a resume has none.                                           *)
PartialTargetOK(r, x) ==
    LET t == x.targets["partial"] IN
    /\ x.mode = "resume" => t.info = None
    /\ x.pc = "reserve" => ~t.consumed
    /\ x.mode = "fresh" /\ x.pc \in Act =>
          /\ t.info = Placeholder(r)
          /\ t.consumed <=> x.pc # "first" \/ x.op.step = "link"
TargetsOK(r, x) ==
    /\ \A p \in Outputs : TargetOK(r, x, p)
    /\ \A p \in FinalPaths : FinalTargetOK(r, x, p)
    /\ PartialTargetOK(r, x)
    /\ x.pc = "reserve"
         => \A i \in 1..x.todo : x.targets[PathAt(x, i)].info # None
    /\ x.pc = "publish"
         => \A i \in x.todo..3 : FreshTarget(x.targets[Finals[i]])

(* The operation that a phase may be in the middle of, and where it leads.  *)
Sequel(op, kind, path, expected, then, otherwise) ==
    /\ op.kind = kind /\ op.path = path /\ op.expected = expected
    /\ op.then = then /\ op.otherwise = otherwise
OpOK(r, x) ==
  LET op == x.op t == x.targets[op.path] IN
  \/ op = NoOp
  \/ /\ x.pc = "first" /\ x.mode = "fresh"
     /\ Sequel(op, "link", "partial", Placeholder(r), "block", "close")
     /\ op.step \in {"check", "rename", "settle", "link"}
  \/ /\ x.pc = "first" /\ x.mode = "resume"
     /\ Sequel(op, "replace", "partial", x.own, "block", "close")
     /\ op.step \in {"check", "exchange", "confirm", "back"}
  \/ /\ x.pc = "call"
     /\ Sequel(op, "replace", "partial", x.own, op.then, "fail")
     /\ op.then \in {"next", "verify"}
     /\ op.step \in {"check", "exchange", "confirm", "back"}
  \/ /\ x.pc = "fail"
     /\ Sequel(op, "replace", "partial", x.own, "close", "close")
     /\ op.step \in {"check", "exchange", "confirm", "back"}
  \/ /\ x.pc = "publish" /\ x.todo \in 2..4
     /\ Sequel(op, "link", Finals[x.todo - 1], Placeholder(r),
               IF x.todo = 4 THEN "retire" ELSE "publish", "rollback")
     /\ op.step \in {"check", "rename", "settle", "link"}
     /\ t.consumed <=> op.step = "link"
     /\ ~t.preexisting /\ t.published = None
  \/ /\ x.pc = "rollback"
     /\ Sequel(op, "remove", op.path, FinalOf(r, x.samples, op.path),
          "rollback", "rollback")
     /\ op.path \in {"control", "candidate"}
     /\ op.step \in {"check", "rename", "settle"}
     /\ t.consumed /\ ~t.preexisting
  \/ /\ x.pc = "retire"
     /\ Sequel(op, "remove", "partial", x.own, "close", "close")
     /\ op.step \in {"check", "rename", "settle"}
  \/ /\ x.pc = "close" /\ op.path \in Outputs
     /\ Sequel(op, "remove", op.path, Placeholder(r), "close", "close")
     /\ op.step \in {"check", "rename", "settle"}
     /\ t.consumed /\ ~t.preexisting
  \/ /\ x.pc = "unlock" /\ x.mode = "resume"
     /\ Sequel(op, "remove", "lock", File(r, "lock", {}), "done", "done")
     /\ op.step \in {"check", "rename", "settle"}

(* The state of a run is consistent by itself.                              *)
LocalOK(r, x) == SamplesOK(x) /\ PhaseOK(x) /\ TargetsOK(r, x) /\ OpOK(r, x)

(* A final holds one sample for each coordinate of its path.                *)
Kept(S, path) == (CoordinatesOf(S) = IF path = "comparison" THEN Coordinates
    ELSE (DOMAIN Blocks) \X {path}) /\ Distinct(S)
Whole(p, f) == f.what = "final" => Kept(f.data, p)

(* A call was paid for before it runs, and it is tainted only by a drift.   *)
CallsOK == \A r \in Runs :
    run[r].pc = "call" /\ run[r].op = NoOp =>
        /\ paid[NextCoordinate(run[r].samples, run[r].block)] >= 1
        /\ ~run[r].clean => "closure" \in drifted

(* The runs that may still call the model for a coordinate; each call uses  *)
(* one of them up, which bounds the calls.                                  *)
MayCall(x, c) ==
    /\ x.pc \in {"idle", "lock", "load", "reserve", "first", "block", "next",
         "call", "verify"}
    /\ c \notin CoordinatesOf(x.samples)
    /\ ~(x.pc = "call" /\ x.op = NoOp /\ c = NextCoordinate(x.samples, x.block))
Callers(c) == {r \in Runs : MayCall(run[r], c)}
Counted == \A c \in Coordinates : paid[c] + Cardinality(Callers(c)) <= MaxStarts

(* How a run leaves an operation, as a function of the run.                 *)
LeftOf(x, pc) ==
    CASE pc = "done" -> [NewRun EXCEPT !.pc = pc]
      [] pc = "close" -> [NewRun EXCEPT !.pc = pc, !.mode = x.mode,
                                        !.targets = x.targets]
      [] OTHER -> [x EXCEPT !.op = NoOp, !.pc = pc]

(* A run that has not begun is a run.                                       *)
LEMMA NewIsTyped == NewRun \in RunStates
BY BoundsAreNatural, PlanIsBalanced
DEF NewRun, RunStates, Steps, NoOp, Operations, Unreserved, Reservations, None,
    File, Files, Paths, Outputs

(* What remains of a run that leaves.                                       *)
LEMMA LeftFields ==
  ASSUME NEW x \in RunStates, NEW pc \in Steps
  PROVE /\ LeftOf(x, pc) \in RunStates
        /\ LeftOf(x, pc).pc = pc /\ LeftOf(x, pc).op = NoOp
        /\ pc \notin {"done", "close"} =>
             LET y == LeftOf(x, pc) IN
             /\ y.mode = x.mode /\ y.samples = x.samples /\ y.kept = x.kept
             /\ y.block = x.block /\ y.clean = x.clean
             /\ y.forced = x.forced /\ y.own = x.own /\ y.todo = x.todo
             /\ y.targets = x.targets
        /\ pc \in {"done", "close"} =>
             LET y == LeftOf(x, pc) IN
             /\ y.samples = {} /\ y.kept = {} /\ y.own = None /\ y.todo = 0
             /\ y.mode = (IF pc = "close" THEN x.mode ELSE "none")
             /\ y.targets = (IF pc = "close" THEN x.targets
                  ELSE [o \in Outputs |-> Unreserved])
<1>1. NoOp \in Operations
  BY NewIsTyped DEF NewRun, RunStates
<1>2. CASE pc = "done"
  BY <1>2, NewIsTyped DEF LeftOf, RunStates, NewRun
<1>3. CASE pc = "close"
  BY <1>3, NewIsTyped DEF LeftOf, RunStates, NewRun
<1>4. CASE pc \notin {"done", "close"}
  <2>1. LeftOf(x, pc) = [x EXCEPT !.op = NoOp, !.pc = pc]
    BY <1>4 DEF LeftOf
  <2> QED BY <1>1, <1>4, <2>1 DEF RunStates
<1> QED BY <1>2, <1>3, <1>4
Placing == {"first", "block", "next", "call", "verify", "finish", "publish",
        "rollback", "fail", "retire", "reserve"}

(* A run that leaves for a phase that does nothing more is consistent.      *)
LEMMA EndsWell ==
  ASSUME NEW r \in Runs, NEW x \in RunStates, LocalOK(r, x)
  PROVE /\ LocalOK(r, LeftOf(x, "done"))
        /\ x.pc \in Placing \cup {"close"} => LocalOK(r, LeftOf(x, "close"))
        /\ x.pc \in {"load", "close"} => LocalOK(r, LeftOf(x, "unlock"))
<1>1. LocalOK(r, LeftOf(x, "done"))
  <2> DEFINE y == LeftOf(x, "done")
  <2>1. /\ y.pc = "done" /\ y.op = NoOp /\ y.samples = {} /\ y.kept = {}
        /\ y.own = None /\ y.todo = 0
        /\ y.targets = [o \in Outputs |-> Unreserved]
    BY LeftFields DEF Steps
  <2> HIDE DEF y
  <2>2. SamplesOK(y) /\ PhaseOK(y) /\ OpOK(r, y)
    BY <2>1 DEF SamplesOK, PhaseOK, OpOK, Distinct, Clean, IsBlank, Ended, Act
  <2>3. TargetsOK(r, y)
    BY <2>1
    DEF TargetsOK, TargetOK, FinalTargetOK, PartialTargetOK, Unreserved,
        FinalPaths, Outputs, Act
  <2> QED BY <2>2, <2>3 DEF LocalOK, y
<1>2. ASSUME x.pc \in Placing \cup {"close"}
      PROVE  LocalOK(r, LeftOf(x, "close"))
  <2> DEFINE y == LeftOf(x, "close")
  <2>1. /\ y.pc = "close" /\ y.op = NoOp /\ y.samples = {} /\ y.kept = {}
        /\ y.own = None /\ y.todo = 0
        /\ y.targets = x.targets /\ y.mode = x.mode
    BY LeftFields DEF Steps
  <2> HIDE DEF y
  <2>2. SamplesOK(y) /\ PhaseOK(y) /\ OpOK(r, y)
    BY <1>2, <2>1
    DEF SamplesOK, PhaseOK, OpOK, Distinct, Clean, IsBlank, Ended, Act, LocalOK,
        Placing
  <2>3. TargetsOK(r, y)
    BY <1>2, <2>1
    DEF LocalOK, TargetsOK, TargetOK, FinalTargetOK, PartialTargetOK, Act
  <2> QED BY <2>2, <2>3 DEF LocalOK, y
<1>3. ASSUME x.pc \in {"load", "close"} PROVE LocalOK(r, LeftOf(x, "unlock"))
  <2> DEFINE y == LeftOf(x, "unlock")
  <2>1. /\ y.pc = "unlock" /\ y.op = NoOp /\ y.samples = x.samples
        /\ y.kept = x.kept /\ y.own = x.own
        /\ y.targets = x.targets /\ y.mode = x.mode
    BY LeftFields DEF Steps
  <2> HIDE DEF y
  <2>2. SamplesOK(y) /\ PhaseOK(y) /\ OpOK(r, y)
    BY <1>3, <2>1 DEF SamplesOK, PhaseOK, OpOK, IsBlank, Ended, Act, LocalOK
  <2>3. TargetsOK(r, y)
    BY <1>3, <2>1
    DEF LocalOK, TargetsOK, TargetOK, FinalTargetOK, PartialTargetOK, Act
  <2> QED BY <2>2, <2>3 DEF LocalOK, y
<1> QED BY <1>1, <1>2, <1>3

(* An operation that fails leaves a consistent run.                         *)
LEMMA OtherwiseOK ==
  ASSUME NEW r \in Runs, NEW x \in RunStates, LocalOK(r, x), x.op # NoOp
  PROVE /\ LocalOK(r, LeftOf(x, x.op.otherwise))
        /\ x.op.kind = "remove" => LocalOK(r, LeftOf(x, x.op.then))
        /\ x.op.kind = "remove" => x.op.then = x.op.otherwise
        /\ x.op.otherwise \in {"close", "fail", "rollback", "done"}
<1>1. CASE x.op.otherwise \in {"close", "done"}
  <2>1. x.op.kind = "remove" => x.op.then = x.op.otherwise
    BY <1>1 DEF LocalOK, OpOK, Sequel
  <2>2. x.op.otherwise = "close" => x.pc \in Placing \cup {"close"}
    BY <1>1 DEF LocalOK, OpOK, Sequel, Placing
  <2> QED BY <1>1, <2>1, <2>2, EndsWell
<1>2. CASE x.op.otherwise = "fail"
  <2> DEFINE y == LeftOf(x, "fail")
  <2>1. /\ y.pc = "fail" /\ y.op = NoOp /\ y.samples = x.samples
        /\ y.kept = x.kept /\ y.own = x.own
        /\ y.targets = x.targets /\ y.mode = x.mode
    BY LeftFields DEF Steps
  <2>0. x.pc = "call" /\ x.op.kind = "replace"
    BY <1>2 DEF LocalOK, OpOK, Sequel
  <2> HIDE DEF y
  <2>2. SamplesOK(y) /\ PhaseOK(y) /\ OpOK(r, y)
    BY <2>0, <2>1 DEF SamplesOK, PhaseOK, OpOK, Ended, Act, LocalOK
  <2>3. TargetsOK(r, y)
    BY <2>0, <2>1
    DEF LocalOK, TargetsOK, TargetOK, FinalTargetOK, PartialTargetOK, Act,
        HeldTarget, FreshTarget, FinalPaths
  <2> QED BY <1>2, <2>0, <2>2, <2>3 DEF LocalOK, y
<1>3. CASE x.op.otherwise = "rollback"
  <2> DEFINE y == LeftOf(x, "rollback")
  <2>1. /\ y.pc = "rollback" /\ y.op = NoOp /\ y.samples = x.samples
        /\ y.kept = x.kept /\ y.own = x.own
        /\ y.targets = x.targets /\ y.mode = x.mode
    BY LeftFields DEF Steps
  <2>0. /\ x.pc \in {"rollback", "publish"} /\ x.op.kind \in {"remove", "link"}
        /\ x.op.kind = "remove" => x.op.then = "rollback"
    BY <1>3 DEF LocalOK, OpOK, Sequel
  <2>4. x.targets["comparison"].published = None
    <3>1. CASE x.pc = "rollback"
      BY <3>1 DEF LocalOK, TargetsOK, FinalTargetOK, FinalPaths, Outputs
    <3>2. CASE x.pc = "publish"
      <4>1. /\ x.todo \in 2..4 /\ x.op.path = Finals[x.todo - 1]
            /\ x.targets[x.op.path].published = None
        BY <3>2, <1>3 DEF LocalOK, OpOK, Sequel
      <4>2. CASE x.todo = 4
        BY <4>1, <4>2 DEF Finals
      <4>3. CASE x.todo # 4
        <5>1. 3 \in x.todo..3
          BY <4>1, <4>3
        <5> QED BY <5>1, <3>2 DEF LocalOK, TargetsOK, FreshTarget, Finals
      <4> QED BY <4>2, <4>3
    <3> QED BY <2>0, <3>1, <3>2
  <2> HIDE DEF y
  <2>2. SamplesOK(y) /\ PhaseOK(y) /\ OpOK(r, y)
    BY <2>0, <2>1 DEF SamplesOK, PhaseOK, OpOK, Ended, Act, LocalOK
  <2>3. TargetsOK(r, y)
    BY <2>0, <2>1, <2>4
    DEF LocalOK, TargetsOK, TargetOK, FinalTargetOK, PartialTargetOK, Act,
        FinalPaths
  <2> QED BY <1>3, <2>0, <2>2, <2>3 DEF LocalOK, y
<1>4. x.op.otherwise \in {"close", "fail", "rollback", "done"}
  BY DEF LocalOK, OpOK, Sequel
<1> QED BY <1>1, <1>2, <1>3, <1>4
OpSteps == {"none", "check", "rename", "settle", "link", "exchange",
            "confirm", "back"}

(* A run goes on to another step of its operation.                          *)
StepTo(x, step) == [x EXCEPT !.op = [x.op EXCEPT !.step = step]]

(* Nothing else changes with the step.                                      *)
LEMMA StepFields ==
  ASSUME NEW x \in RunStates, NEW step \in OpSteps
  PROVE LET y == StepTo(x, step) IN
        /\ y \in RunStates
        /\ y.op = [x.op EXCEPT !.step = step]
        /\ y.op.step = step /\ y.op.kind = x.op.kind /\ y.op.path = x.op.path
        /\ y.op.expected = x.op.expected /\ y.op.then = x.op.then
        /\ y.op.otherwise = x.op.otherwise
        /\ y.pc = x.pc /\ y.mode = x.mode /\ y.samples = x.samples
        /\ y.kept = x.kept /\ y.block = x.block /\ y.clean = x.clean
        /\ y.forced = x.forced /\ y.own = x.own /\ y.todo = x.todo
        /\ y.targets = x.targets
<1> DEFINE op == [x.op EXCEPT !.step = step]
<1>1. x.op \in Operations
  BY DEF RunStates
<1>2. /\ op \in Operations /\ op.step = step /\ op.kind = x.op.kind
      /\ op.path = x.op.path
      /\ op.expected = x.op.expected /\ op.then = x.op.then
      /\ op.otherwise = x.op.otherwise
  BY <1>1 DEF Operations, OpSteps
<1>3. StepTo(x, step) = [x EXCEPT !.op = op]
  BY DEF StepTo
<1> HIDE DEF op
<1>4. LET y == [x EXCEPT !.op = op] IN
        /\ y \in RunStates /\ y.op = op
        /\ y.pc = x.pc /\ y.mode = x.mode /\ y.samples = x.samples
        /\ y.kept = x.kept /\ y.block = x.block /\ y.clean = x.clean
        /\ y.forced = x.forced /\ y.own = x.own /\ y.todo = x.todo
        /\ y.targets = x.targets
  BY <1>2 DEF RunStates
<1> QED BY <1>2, <1>3, <1>4 DEF op

(* A run in the middle of an operation remains consistent.                  *)
LEMMA ContinuesOK ==
  ASSUME NEW r \in Runs, NEW x \in RunStates, LocalOK(r, x),
         NEW step \in OpSteps,
         \/ x.op.step = "check" /\ step = (IF x.op.kind = "replace"
              THEN "exchange" ELSE "rename")
         \/ x.op.step = "rename" /\ step = "settle"
         \/ x.op.step = "exchange" /\ step = "confirm"
         \/ x.op.step = "confirm" /\ step = "back"
  PROVE LocalOK(r, StepTo(x, step))
<1> DEFINE y == StepTo(x, step)
<1>1. /\ y.op.step = step /\ y.op.kind = x.op.kind /\ y.op.path = x.op.path
      /\ y.op.expected = x.op.expected /\ y.op.then = x.op.then
      /\ y.op.otherwise = x.op.otherwise
      /\ y.pc = x.pc /\ y.mode = x.mode /\ y.samples = x.samples
      /\ y.kept = x.kept /\ y.block = x.block
      /\ y.own = x.own /\ y.todo = x.todo /\ y.targets = x.targets
  BY StepFields
<1> HIDE DEF y
<1>2. x.op # NoOp /\ y.op # NoOp
  BY <1>1 DEF NoOp
<1>3. OpOK(r, y)
  BY <1>1, <1>2 DEF OpOK, LocalOK, Sequel
<1>4. SamplesOK(y) /\ PhaseOK(y)
  BY <1>1, <1>2 DEF SamplesOK, PhaseOK, IsBlank, LocalOK
<1>5. y.op.step = "link" <=> x.op.step = "link"
  BY <1>1
<1>6. \A i : PathAt(y, i) = PathAt(x, i)
  BY <1>1 DEF PathAt
<1>7. PartialTargetOK(r, y)
  BY <1>1, <1>5 DEF LocalOK, TargetsOK, PartialTargetOK
<1>8. \A p \in Outputs : TargetOK(r, y, p)
  BY <1>1 DEF LocalOK, TargetsOK, TargetOK
<1>9. \A p \in FinalPaths : FinalTargetOK(r, y, p)
  BY <1>1 DEF LocalOK, TargetsOK, FinalTargetOK
<1>10. TargetsOK(r, y)
  BY <1>1, <1>6, <1>7, <1>8, <1>9 DEF LocalOK, TargetsOK
<1> QED BY <1>3, <1>4, <1>10 DEF LocalOK, y

(* The files that the command makes are files.                              *)
LEMMA FileTyped ==
  ASSUME NEW r \in Runs, NEW S \in SUBSET Samples,
         NEW what \in {"none", "placeholder", "partial", "final", "lock",
           "foreign"}
  PROVE  /\ File(r, what, S) \in Files
         /\ File(r, what, S).what = what /\ File(r, what, S).data = S
         /\ File(r, what, S).by = r
         /\ File(r, what, S) # None /\ None \in Files /\ None.what = "none"
         /\ None.data = {}
<1>1. /\ r \in 0..(MaxStarts + MaxMishaps) /\ 0 \in 0..(MaxStarts + MaxMishaps)
      /\ r # 0
  BY BoundsAreNatural DEF Runs
<1> QED BY <1>1 DEF File, Files, None

(* One field of one reservation of a run.                                   *)
WithTarget(x, p, t) == [x EXCEPT !.targets = [x.targets EXCEPT ![p] = t]]

(* What changes with a reservation, and what does not.                      *)
LEMMA TargetFields ==
  ASSUME NEW x \in RunStates, NEW p \in Outputs, NEW t \in Reservations
  PROVE LET y == WithTarget(x, p, t) IN
        /\ y \in RunStates
        /\ y.pc = x.pc /\ y.mode = x.mode /\ y.samples = x.samples
        /\ y.kept = x.kept /\ y.block = x.block /\ y.clean = x.clean
        /\ y.forced = x.forced /\ y.own = x.own /\ y.todo = x.todo
        /\ y.op = x.op
        /\ y.targets[p] = t
        /\ \A q \in Outputs : q # p => y.targets[q] = x.targets[q]
<1> DEFINE T == [x.targets EXCEPT ![p] = t]
<1>1. /\ T \in [Outputs -> Reservations] /\ T[p] = t
      /\ \A q \in Outputs : q # p => T[q] = x.targets[q]
  BY DEF RunStates
<1> HIDE DEF T
<1>2. LET y == [x EXCEPT !.targets = T] IN
        /\ y \in RunStates /\ y.targets = T
        /\ y.pc = x.pc /\ y.mode = x.mode /\ y.samples = x.samples
        /\ y.kept = x.kept /\ y.block = x.block /\ y.clean = x.clean
        /\ y.forced = x.forced /\ y.own = x.own /\ y.todo = x.todo
        /\ y.op = x.op
  BY <1>1 DEF RunStates
<1> QED BY <1>1, <1>2 DEF WithTarget, T

(* A reservation has its fields.                                            *)
LEMMA TargetTyped ==
  ASSUME NEW x \in RunStates, NEW p \in Outputs
  PROVE LET t == x.targets[p] IN
        /\ t \in Reservations /\ t.info \in Files /\ t.published \in Files
        /\ t.preexisting \in BOOLEAN /\ t.consumed \in BOOLEAN
        /\ LET u == [t EXCEPT !.consumed = TRUE] IN
           u \in Reservations /\ u.consumed /\ u.info = t.info
             /\ u.published = t.published /\ u.preexisting = t.preexisting
        /\ \A f \in Files : LET u == [t EXCEPT !.published = f] IN
           u \in Reservations /\ u.published = f /\ u.info = t.info
             /\ u.consumed = t.consumed /\ u.preexisting = t.preexisting
BY DEF RunStates, Reservations

(* The placeholder of the run has been unlinked, the staged file is not     *)
(* linked yet.                                                              *)
Retiring(x) == WithTarget(StepTo(x, "link"), x.op.path,
    [x.targets[x.op.path] EXCEPT !.consumed = TRUE])

(* A run that has given up its placeholder is consistent.                   *)
LEMMA RetiringOK ==
  ASSUME NEW r \in Runs, NEW x \in RunStates, LocalOK(r, x),
         x.op.step = "settle", x.op.kind = "link"
  PROVE /\ Retiring(x) \in RunStates /\ LocalOK(r, Retiring(x))
        /\ x.op.path \in Outputs
        /\ Retiring(x).op = [x.op EXCEPT !.step = "link"]
     /\ Retiring(x).pc = x.pc /\ Retiring(x).samples = x.samples
     /\ Retiring(x).own = x.own /\ Retiring(x).mode = x.mode
     /\ Retiring(x).op.step = "link" /\ Retiring(x).op.path = x.op.path
<1> DEFINE y == Retiring(x)
           p == x.op.path
           w == StepTo(x, "link")
<1>0. x.op # NoOp
  BY DEF NoOp
<1>1. /\ x.pc \in {"first", "publish"} /\ p \in Outputs
      /\ x.targets[p].info = Placeholder(r) /\ ~x.targets[p].preexisting
      /\ x.pc = "first" => p = "partial" /\ x.mode = "fresh"
      /\ x.pc = "publish"
           => p \in FinalPaths /\ x.todo \in 2..4 /\ p = Finals[x.todo - 1]
  <2>0. x.pc \in {"first", "publish"}
    BY <1>0 DEF LocalOK, OpOK, Sequel
  <2>1. CASE x.pc = "first"
    <3>1. p = "partial" /\ x.mode = "fresh"
      BY <1>0, <2>1 DEF LocalOK, OpOK, Sequel
    <3>2. "partial" \in Outputs
      BY DEF Outputs
    <3>3. x.targets["partial"].info = Placeholder(r)
      BY <2>1, <3>1 DEF LocalOK, TargetsOK, PartialTargetOK, Act
    <3>4. ~x.targets["partial"].preexisting
      BY <3>2 DEF LocalOK, TargetsOK, TargetOK
    <3> QED BY <2>1, <3>1, <3>2, <3>3, <3>4
  <2>2. CASE x.pc = "publish"
    <3>1. x.todo \in 2..4 /\ p = Finals[x.todo - 1] /\ ~x.targets[p].preexisting
      BY <1>0, <2>2 DEF LocalOK, OpOK, Sequel
    <3>2. p \in FinalPaths
      BY <3>1 DEF Finals, FinalPaths, Outputs
    <3>4. p \in Outputs
      BY <3>2 DEF FinalPaths
    <3>5. x.targets[p].info # None
      BY <3>2, <2>2 DEF LocalOK, TargetsOK, FinalTargetOK, Act
    <3>3. x.targets[p].info = Placeholder(r)
      BY <3>1, <3>4, <3>5 DEF LocalOK, TargetsOK, TargetOK
    <3> QED BY <2>2, <3>1, <3>2, <3>3, <3>4
  <2> QED BY <2>0, <2>1, <2>2
<1>2. /\ w \in RunStates /\ w.op = [x.op EXCEPT !.step = "link"]
      /\ w.op.step = "link" /\ w.op.kind = x.op.kind /\ w.op.path = p
      /\ w.op.expected = x.op.expected /\ w.op.then = x.op.then
      /\ w.op.otherwise = x.op.otherwise
      /\ w.pc = x.pc /\ w.mode = x.mode /\ w.samples = x.samples
      /\ w.kept = x.kept /\ w.block = x.block
      /\ w.own = x.own /\ w.todo = x.todo /\ w.targets = x.targets
  BY ZenonT(60), StepFields DEF OpSteps
<1> DEFINE u == [x.targets[p] EXCEPT !.consumed = TRUE]
<1>3. /\ u \in Reservations /\ u.consumed = TRUE /\ u.info = x.targets[p].info
      /\ u.published = x.targets[p].published
      /\ u.preexisting = x.targets[p].preexisting
  BY <1>1, TargetTyped
<1>13. y = WithTarget(w, p, [w.targets[p] EXCEPT !.consumed = TRUE])
  BY <1>2 DEF Retiring, w
<1>14. y = WithTarget(w, p, u)
  BY <1>2, <1>13
<1> HIDE DEF w, u, y
<1>15. /\ y \in RunStates /\ y.op = w.op
       /\ y.pc = w.pc /\ y.mode = w.mode /\ y.samples = w.samples
       /\ y.kept = w.kept /\ y.block = w.block
       /\ y.own = w.own /\ y.todo = w.todo
       /\ y.targets[p] = u
       /\ \A q \in Outputs : q # p => y.targets[q] = w.targets[q]
  BY <1>1, <1>2, <1>3, <1>14, TargetFields
<1>4. /\ y \in RunStates /\ y.op = w.op /\ y.op.step = "link"
      /\ y.op.kind = x.op.kind /\ y.op.path = p
      /\ y.op.expected = x.op.expected /\ y.op.then = x.op.then
      /\ y.op.otherwise = x.op.otherwise
      /\ y.pc = x.pc /\ y.mode = x.mode /\ y.samples = x.samples
      /\ y.kept = x.kept /\ y.block = x.block
      /\ y.own = x.own /\ y.todo = x.todo
      /\ y.targets[p] = u
      /\ \A q \in Outputs : q # p => y.targets[q] = x.targets[q]
  BY <1>2, <1>15
<1>5. /\ y.targets[p].consumed = TRUE /\ y.targets[p].info = x.targets[p].info
      /\ y.targets[p].published = x.targets[p].published
      /\ y.targets[p].preexisting = x.targets[p].preexisting
  BY <1>3, <1>4
<1> HIDE DEF p
<1>6. x.pc = "publish" => y.targets[p].published = None
  BY <1>0, <1>5 DEF LocalOK, OpOK, p
<1>7. OpOK(r, y)
  BY <1>0, <1>1, <1>2, <1>4, <1>5, <1>6 DEF OpOK, LocalOK, Sequel, p
<1>8. SamplesOK(y) /\ PhaseOK(y)
  <2>1. y.op # NoOp
    BY <1>2, <1>4 DEF NoOp
  <2> QED BY <1>0, <1>1, <1>4, <2>1 DEF SamplesOK, PhaseOK, LocalOK, Ended
<1>9. \A q \in Outputs : TargetOK(r, y, q)
  <2>1. Placeholder(r) # None
    BY FileTyped DEF Placeholder
  <2>2. TargetOK(r, y, p)
    BY <1>1, <1>4, <1>5, <2>1 DEF TargetOK
  <2>3. ASSUME NEW q \in Outputs, q # p PROVE TargetOK(r, y, q)
    BY <1>4, <2>3 DEF LocalOK, TargetsOK, TargetOK
  <2> QED BY <2>2, <2>3
<1>10. \A q \in FinalPaths : FinalTargetOK(r, y, q)
  BY <1>1, <1>4, <1>5
  DEF LocalOK, TargetsOK, FinalTargetOK, FinalPaths, FreshTarget
<1>11. PartialTargetOK(r, y)
  <2>1. CASE x.pc = "first"
    BY <2>1, <1>1, <1>2, <1>4, <1>5 DEF PartialTargetOK, LocalOK, TargetsOK, Act
  <2>2. CASE x.pc = "publish"
    <3>1. "partial" # p /\ "partial" \in Outputs
      BY <1>1, <2>2 DEF FinalPaths, Outputs
    <3>2. y.targets["partial"] = x.targets["partial"]
      BY <3>1, <1>4
    <3> QED BY <2>2, <3>2, <1>4 DEF PartialTargetOK, LocalOK, TargetsOK, Act
  <2> QED BY <1>1, <2>1, <2>2
<1>12. TargetsOK(r, y)
  <2>1. ASSUME x.pc = "publish", NEW i \in x.todo..3
        PROVE  FreshTarget(y.targets[Finals[i]])
    <3>1. Finals[i] # p /\ Finals[i] \in Outputs
      BY <1>1, <2>1 DEF Finals, Outputs
    <3> QED BY <3>1, <2>1, <1>4 DEF LocalOK, TargetsOK
  <2> QED BY <1>1, <1>4, <1>9, <1>10, <1>11, <2>1 DEF TargetsOK
<1> QED BY <1>1, <1>2, <1>4, <1>7, <1>8, <1>12 DEF LocalOK, y, p

(* The file that a run stages for a path; the run that owns a partial.      *)
StagedOf(r, x, path) == IF path = "partial" THEN File(r, "partial", x.samples)
    ELSE FinalOf(r, x.samples, path)
WithOwn(x, f) == [x EXCEPT !.own = f]

(* What changes with the owned partial, and what does not.                  *)
LEMMA OwnFields ==
  ASSUME NEW x \in RunStates, NEW f \in Files
  PROVE LET y == WithOwn(x, f) IN
        /\ y \in RunStates /\ y.own = f
        /\ y.pc = x.pc /\ y.mode = x.mode /\ y.samples = x.samples
        /\ y.kept = x.kept /\ y.block = x.block /\ y.clean = x.clean
        /\ y.forced = x.forced /\ y.targets = x.targets /\ y.todo = x.todo
        /\ y.op = x.op
BY DEF RunStates, WithOwn

(* A staged file is a file, and it is not nothing.                          *)
LEMMA StagedTyped ==
  ASSUME NEW r \in Runs, NEW x \in RunStates, NEW path \in Outputs
  PROVE /\ StagedOf(r, x, path) \in Files /\ StagedOf(r, x, path) # None
        /\ path = "partial"
             => StagedOf(r, x, path) = File(r, "partial", x.samples)
             /\ StagedOf(r, x, path).what = "partial"
        /\ path # "partial"
             => StagedOf(r, x, path) = FinalOf(r, x.samples, path)
             /\ StagedOf(r, x, path).what = "final"
<1>1. x.samples \in SUBSET Samples /\ Part(x.samples, path) \in SUBSET Samples
  BY DEF RunStates, Part
<1> QED BY <1>1, FileTyped DEF StagedOf, FinalOf

(* A staged file has been linked at its path.                               *)
Linked(r, x) == LET p == x.op.path new == StagedOf(r, x, p)
                    w == LeftOf(x, x.op.then)
                IN WithOwn(WithTarget(w, p,
                  [w.targets[p] EXCEPT !.published = new]), IF p = "partial"
                  THEN new ELSE x.own)

(* A run that has linked its file is consistent.                            *)
LEMMA LinkedOK ==
  ASSUME NEW r \in Runs, NEW x \in RunStates, LocalOK(r, x), x.op.step = "link"
  PROVE LET y == Linked(r, x) p == x.op.path new == StagedOf(r, x, p) IN
     /\ y \in RunStates /\ LocalOK(r, y) /\ p \in Outputs
     /\ x.op.kind = "link" /\ x.op.expected = Placeholder(r)
     /\ \/ /\ x.pc = "first" /\ y.pc = "block" /\ p = "partial"
           /\ x.mode = "fresh" /\ y.own = new
        \/ /\ x.pc = "publish" /\ y.pc \in {"publish", "retire"}
           /\ p \in FinalPaths /\ y.own = x.own
           /\ x.todo \in 2..4 /\ p = Finals[x.todo - 1]
           /\ y.pc = (IF x.todo = 4 THEN "retire" ELSE "publish")
     /\ y.pc = x.op.then
     /\ y.op = NoOp /\ y.mode = x.mode /\ y.samples = x.samples
     /\ y.kept = x.kept /\ y.block = x.block /\ y.todo = x.todo
     /\ y.targets[p].consumed = TRUE /\ y.targets[p].published = new
     /\ y.targets[p].info = x.targets[p].info
     /\ y.targets[p].preexisting = x.targets[p].preexisting
     /\ x.targets[p].consumed /\ x.targets[p].info = Placeholder(r)
     /\ \A q \in Outputs : q # p => y.targets[q] = x.targets[q]
<1> DEFINE y == Linked(r, x)
           p == x.op.path
           w == LeftOf(x, x.op.then)
           new == StagedOf(r, x, p)
           u == [w.targets[p] EXCEPT !.published = new]
           v == WithTarget(w, p, u)
<1>0. x.op # NoOp
  BY DEF NoOp
<1>1. /\ x.pc \in {"first", "publish"} /\ p \in Outputs
      /\ x.targets[p].info = Placeholder(r) /\ ~x.targets[p].preexisting
      /\ x.pc = "first"
           => p = "partial" /\ x.mode = "fresh" /\ x.op.then = "block"
      /\ x.pc = "publish"
           => p \in FinalPaths /\ x.todo \in 2..4 /\ p = Finals[x.todo - 1]
                             /\ x.op.then = (IF x.todo = 4 THEN "retire"
                                  ELSE "publish")
      /\ x.targets[p].consumed = TRUE
      /\ x.op.kind = "link" /\ x.op.expected = Placeholder(r)
  <2>0. /\ x.pc \in {"first", "publish"} /\ x.op.kind = "link"
        /\ x.op.expected = Placeholder(r)
    BY <1>0 DEF LocalOK, OpOK, Sequel
  <2>1. CASE x.pc = "first"
    <3>1. p = "partial" /\ x.mode = "fresh" /\ x.op.then = "block"
      BY <1>0, <2>1 DEF LocalOK, OpOK, Sequel
    <3>2. "partial" \in Outputs
      BY DEF Outputs
    <3>3. /\ x.targets["partial"].info = Placeholder(r)
          /\ x.targets["partial"].consumed
      BY <2>1, <3>1 DEF LocalOK, TargetsOK, PartialTargetOK, Act
    <3>4. ~x.targets["partial"].preexisting
      BY <3>2 DEF LocalOK, TargetsOK, TargetOK
    <3>5. x.targets["partial"].consumed \in BOOLEAN
      BY <3>2, TargetTyped
    <3> QED BY <2>0, <2>1, <3>1, <3>2, <3>3, <3>4, <3>5
  <2>2. CASE x.pc = "publish"
    <3>1. /\ x.todo \in 2..4 /\ p = Finals[x.todo - 1]
          /\ ~x.targets[p].preexisting /\ x.targets[p].consumed
          /\ x.op.then = (IF x.todo = 4 THEN "retire" ELSE "publish")
      BY <1>0, <2>2 DEF LocalOK, OpOK, Sequel
    <3>2. p \in FinalPaths
      BY <3>1 DEF Finals, FinalPaths, Outputs
    <3>4. p \in Outputs
      BY <3>2 DEF FinalPaths
    <3>5. x.targets[p].info # None
      BY <3>2, <2>2 DEF LocalOK, TargetsOK, FinalTargetOK, Act
    <3>3. x.targets[p].info = Placeholder(r)
      BY <3>1, <3>4, <3>5 DEF LocalOK, TargetsOK, TargetOK
    <3>6. x.targets[p].consumed \in BOOLEAN
      BY <3>4, TargetTyped
    <3> QED BY <2>0, <2>2, <3>1, <3>2, <3>3, <3>4, <3>6
  <2> QED BY <2>0, <2>1, <2>2
<1>2. /\ w \in RunStates /\ w.op = NoOp
      /\ w.pc = x.op.then /\ w.mode = x.mode /\ w.samples = x.samples
      /\ w.kept = x.kept /\ w.block = x.block
      /\ w.own = x.own /\ w.todo = x.todo /\ w.targets = x.targets
  <2>1. x.op.then \in Steps /\ x.op.then \notin {"done", "close"}
    BY <1>1 DEF Steps
  <2> QED BY <2>1, LeftFields
<1>3. new \in Files /\ new # None
  BY <1>1, StagedTyped
<1> HIDE DEF w, new
<1>4. /\ u \in Reservations /\ u.published = new /\ u.info = x.targets[p].info
      /\ u.consumed = x.targets[p].consumed
      /\ u.preexisting = x.targets[p].preexisting
  <2>1. u = [x.targets[p] EXCEPT !.published = new]
    BY <1>2
  <2>2. \A f \in Files :
          LET t == x.targets[p] z == [t EXCEPT !.published = f] IN
           z \in Reservations /\ z.published = f /\ z.info = t.info
             /\ z.consumed = t.consumed /\ z.preexisting = t.preexisting
    BY <1>1, TargetTyped
  <2> QED BY <1>3, <2>1, <2>2
<1> HIDE DEF u
<1>5. /\ v \in RunStates /\ v.op = w.op
      /\ v.pc = w.pc /\ v.mode = w.mode /\ v.samples = w.samples
      /\ v.kept = w.kept /\ v.block = w.block
      /\ v.own = w.own /\ v.todo = w.todo
      /\ v.targets[p] = u
      /\ \A q \in Outputs : q # p => v.targets[q] = w.targets[q]
  BY <1>1, <1>2, <1>4, TargetFields
<1>6. y = WithOwn(v, IF p = "partial" THEN new ELSE x.own)
  BY DEF Linked, w, u, new
<1>7. x.own \in Files
  BY DEF RunStates
<1> HIDE DEF v, y
<1>8. /\ y \in RunStates /\ y.op = NoOp
      /\ y.pc = x.op.then /\ y.mode = x.mode /\ y.samples = x.samples
      /\ y.kept = x.kept /\ y.block = x.block
      /\ y.own = (IF p = "partial" THEN new ELSE x.own) /\ y.todo = x.todo
      /\ y.targets = v.targets
  BY <1>2, <1>3, <1>5, <1>6, <1>7, OwnFields
<1>9. /\ y.targets[p].consumed = TRUE /\ y.targets[p].published = new
      /\ y.targets[p].info = x.targets[p].info
      /\ y.targets[p].preexisting = x.targets[p].preexisting
      /\ \A q \in Outputs : q # p => y.targets[q] = x.targets[q]
  BY <1>1, <1>2, <1>4, <1>5, <1>8
<1> HIDE DEF p
<1>10. SamplesOK(y) /\ OpOK(r, y)
  BY <1>8 DEF SamplesOK, LocalOK, OpOK
<1>11. /\ x.pc = "first"
            => /\ y.pc = "block" /\ p = "partial" /\ y.own.what = "partial"
            /\ y.mode = "fresh"
       /\ x.pc = "publish" => /\ p # "partial" /\ y.own = x.own
                              /\ y.pc = (IF x.todo = 4 THEN "retire"
                                                       ELSE "publish")
                              /\ new = FinalOf(r, x.samples, p)
  BY <1>1, <1>8, StagedTyped DEF FinalPaths, new
<1>12. PhaseOK(y)
  <2>1. CASE x.pc = "first"
    BY <2>1, <1>8, <1>11 DEF PhaseOK, LocalOK, Ended, Act
  <2>2. CASE x.pc = "publish"
    BY <2>2, <1>1, <1>8, <1>11 DEF PhaseOK, LocalOK, Ended, Act
  <2> QED BY <1>1, <2>1, <2>2
<1>13. \A q \in Outputs : TargetOK(r, y, q)
  <2>1. Placeholder(r) # None
    BY FileTyped DEF Placeholder
  <2>2. TargetOK(r, y, p)
    BY <1>1, <1>9, <2>1 DEF TargetOK
  <2>4. y.pc \in Act \cup {"reserve"} /\ x.pc \in Act \cup {"reserve"}
    BY <1>1, <1>11 DEF Act
  <2>3. ASSUME NEW q \in Outputs, q # p PROVE TargetOK(r, y, q)
    BY <1>8, <1>9, <2>3, <2>4 DEF LocalOK, TargetsOK, TargetOK
  <2> QED BY <2>2, <2>3
<1>14. \A q \in FinalPaths : FinalTargetOK(r, y, q)
  <2> SUFFICES ASSUME NEW q \in FinalPaths PROVE FinalTargetOK(r, y, q)
    OBVIOUS
  <2>0. q \in Outputs /\ q # "partial"
    BY DEF FinalPaths
  <2>1. CASE x.pc = "first"
    BY <2>0, <2>1, <1>8, <1>9, <1>11 DEF FinalTargetOK, LocalOK, TargetsOK, Act
  <2>2. CASE x.pc = "publish" /\ q # p
    BY <2>0, <2>2, <1>8, <1>9, <1>11 DEF FinalTargetOK, LocalOK, TargetsOK, Act
  <2>3. CASE x.pc = "publish" /\ q = p
    <3>1. Placeholder(r) # None
      BY FileTyped DEF Placeholder
    <3> QED BY <2>0, <2>3, <3>1, <1>1, <1>8, <1>9, <1>11 DEF FinalTargetOK
  <2> QED BY <1>1, <2>1, <2>2, <2>3
<1>15. PartialTargetOK(r, y)
  <2>1. CASE x.pc = "first"
    BY <2>1, <1>1, <1>8, <1>9, <1>11 DEF PartialTargetOK, Act
  <2>2. CASE x.pc = "publish"
    <3>1. y.targets["partial"] = x.targets["partial"]
      BY <2>2, <1>9, <1>11 DEF Outputs
    <3> QED BY <2>2, <3>1, <1>8, <1>11
        DEF PartialTargetOK, LocalOK, TargetsOK, Act
  <2> QED BY <1>1, <2>1, <2>2
<1>16. TargetsOK(r, y)
  <2>1. ASSUME y.pc = "publish", NEW i \in x.todo..3
        PROVE  FreshTarget(y.targets[Finals[i]])
    <3>0. x.pc = "publish"
      BY <1>1, <1>11, <2>1
    <3>1. Finals[i] # p /\ Finals[i] \in Outputs
      BY <1>1, <3>0, <2>1 DEF Finals, Outputs
    <3> QED BY <3>0, <3>1, <2>1, <1>9 DEF LocalOK, TargetsOK
  <2>2. y.pc # "reserve"
    BY <1>1, <1>11
  <2> QED BY <1>8, <1>13, <1>14, <1>15, <2>1, <2>2 DEF TargetsOK
<1>17. LocalOK(r, y)
  BY <1>10, <1>12, <1>16 DEF LocalOK
<1> QED BY <1>1, <1>8, <1>9, <1>11, <1>17 DEF y, p, new

(* An exchange of the partial has been confirmed.                           *)
Confirmed(r, x) == WithOwn(LeftOf(x, x.op.then), StagedOf(r, x, "partial"))

(* A run that has confirmed its exchange is consistent.                     *)
LEMMA ConfirmedOK ==
  ASSUME NEW r \in Runs, NEW x \in RunStates, LocalOK(r, x),
         x.op.kind = "replace"
  PROVE LET y == Confirmed(r, x) IN
     /\ y \in RunStates /\ LocalOK(r, y)
     /\ x.op.path = "partial" /\ x.op.expected = x.own /\ x.own.what = "partial"
     /\ x.op.step \in {"check", "exchange", "confirm", "back"}
     /\ \/ /\ x.pc = "first" /\ x.mode = "resume" /\ y.pc = "block"
           /\ x.op.otherwise = "close"
        \/ x.pc = "call" /\ y.pc \in {"next", "verify"}
             /\ x.op.otherwise = "fail"
        \/ x.pc = "fail" /\ y.pc = "close" /\ x.op.otherwise = "close"
     /\ y.pc = x.op.then
     /\ y.op = NoOp /\ y.mode = x.mode /\ y.own = StagedOf(r, x, "partial")
     /\ y.targets = x.targets
     /\ y.pc # "close"
          => y.samples = x.samples /\ y.kept = x.kept /\ y.block = x.block
          /\ y.todo = x.todo
     /\ y.pc = "close" => y.samples = {}
<1> DEFINE y == Confirmed(r, x)
           w == LeftOf(x, x.op.then)
           new == StagedOf(r, x, "partial")
<1>0. x.op # NoOp
  BY DEF NoOp
<1>1. /\ x.op.path = "partial" /\ x.op.expected = x.own
      /\ x.op.step \in {"check", "exchange", "confirm", "back"}
      /\ \/ /\ x.pc = "first" /\ x.mode = "resume" /\ x.op.then = "block"
            /\ x.op.otherwise = "close"
         \/ x.pc = "call" /\ x.op.then \in {"next", "verify"}
              /\ x.op.otherwise = "fail"
         \/ x.pc = "fail" /\ x.op.then = "close" /\ x.op.otherwise = "close"
  BY <1>0 DEF LocalOK, OpOK, Sequel
<1>2. x.own.what = "partial"
  BY <1>1 DEF LocalOK, PhaseOK, Act
<1>3. /\ w \in RunStates /\ w.op = NoOp /\ w.pc = x.op.then /\ w.mode = x.mode
      /\ w.targets = x.targets
      /\ w.pc # "close"
           => w.samples = x.samples /\ w.kept = x.kept /\ w.block = x.block
           /\ w.todo = x.todo
      /\ w.pc = "close" => w.samples = {} /\ w.kept = {}
  <2>1. x.op.then \in Steps /\ x.op.then # "done"
    BY <1>1 DEF Steps
  <2> QED BY <2>1, LeftFields
<1>4. /\ new \in Files /\ new # None /\ new.what = "partial"
      /\ new.data = x.samples
  <2>1. "partial" \in Outputs /\ x.samples \in SUBSET Samples
    BY DEF Outputs, RunStates
  <2> QED BY <2>1, StagedTyped, FileTyped
<1> HIDE DEF w, new
<1>5. /\ y \in RunStates /\ y.op = NoOp /\ y.pc = x.op.then /\ y.mode = x.mode
      /\ y.own = new /\ y.targets = x.targets
      /\ y.pc # "close"
           => y.samples = x.samples /\ y.kept = x.kept /\ y.block = x.block
           /\ y.todo = x.todo
      /\ y.pc = "close" => y.samples = {} /\ y.kept = {}
  BY <1>3, <1>4, OwnFields DEF Confirmed, w, new
<1> HIDE DEF y
<1>6. SamplesOK(y) /\ OpOK(r, y)
  BY <1>5 DEF SamplesOK, LocalOK, OpOK, Distinct, Clean
<1>7. PhaseOK(y)
  BY <1>0, <1>1, <1>4, <1>5 DEF PhaseOK, LocalOK, Ended, Act
<1>8. \A q \in Outputs : TargetOK(r, y, q)
  BY <1>1, <1>5 DEF TargetOK, LocalOK, TargetsOK, Act
<1>9. \A q \in FinalPaths : FinalTargetOK(r, y, q)
  BY <1>1, <1>5 DEF FinalTargetOK, LocalOK, TargetsOK, Act
<1>10. PartialTargetOK(r, y)
  BY <1>1, <1>5 DEF PartialTargetOK, LocalOK, TargetsOK, Act
<1>11. TargetsOK(r, y)
  BY <1>1, <1>5, <1>8, <1>9, <1>10 DEF TargetsOK
<1>12. LocalOK(r, y)
  BY <1>6, <1>7, <1>11 DEF LocalOK
<1> QED BY <1>1, <1>2, <1>5, <1>12 DEF y, new

(* One run moves to a consistent state, the others stay.                    *)
Moves(r, y) == run' = [run EXCEPT ![r] = y] /\ y \in RunStates /\ LocalOK(r, y)

(* Every run is consistent.                                                 *)
RunsOK == run \in [Runs -> RunStates] /\ \A r \in Runs : LocalOK(r, run[r])

(* When one run moves, every run is consistent.                             *)
LEMMA MovesKeep ==
  ASSUME RunsOK, NEW r \in Runs, NEW y, Moves(r, y)
  PROVE RunsOK' /\ run'[r] = y /\ \A q \in Runs : q # r => run'[q] = run[q]
BY DEF RunsOK, Moves

(* A run, and how it continues or ends an operation.                        *)
LEMMA RunIs ==
  ASSUME RunsOK, NEW r \in Runs
  PROVE /\ run[r] \in RunStates /\ LocalOK(r, run[r])
        /\ \A step : Continues(r, step)
             => run' = [run EXCEPT ![r] = StepTo(run[r], step)]
        /\ \A pc : Ends(r, pc) => run' = [run EXCEPT ![r] = LeftOf(run[r], pc)]
<1>1. ASSUME NEW pc PROVE Left(r, pc) = LeftOf(run[r], pc)
  BY DEF Left, LeftOf
<1>2. ASSUME NEW step, Continues(r, step)
      PROVE  run' = [run EXCEPT ![r] = StepTo(run[r], step)]
  BY <1>2 DEF Continues, StepTo, RunsOK
<1> QED BY <1>1, <1>2 DEF Ends, RunsOK

(* The steps of an operation on files, one by one: to which state they bring*)
(* the run.  An operation begins with the check of the expected file.       *)
LEMMA CheckMoves ==
  ASSUME RunsOK, NEW r \in Runs, Check(r)
  PROVE LET x == run[r] op == x.op
            y == IF sameOwnedABFile(op.expected, At(op.path))
                 THEN StepTo(x, IF op.kind = "replace" THEN "exchange"
                   ELSE "rename")
                 ELSE LeftOf(x, op.otherwise)
        IN  Moves(r, y) /\ op # NoOp /\ Quiet
<1> DEFINE x == run[r]
           op == x.op
<1>1. /\ x \in RunStates /\ LocalOK(r, x) /\ op.step = "check" /\ op # NoOp
      /\ Quiet
  BY RunIs DEF Check, NoOp
<1>2. ASSUME sameOwnedABFile(op.expected, At(op.path))
      PROVE Moves(r, StepTo(x, IF op.kind = "replace" THEN "exchange"
              ELSE "rename"))
  <2> DEFINE s == IF op.kind = "replace" THEN "exchange" ELSE "rename"
  <2>1. s \in OpSteps
    BY DEF OpSteps
  <2>2. run' = [run EXCEPT ![r] = StepTo(x, s)]
    BY <1>2, RunIs DEF Check
  <2>3. StepTo(x, s) \in RunStates /\ LocalOK(r, StepTo(x, s))
    BY <1>1, <2>1, StepFields, ContinuesOK
  <2> QED BY <2>2, <2>3 DEF Moves
<1>3. ASSUME ~sameOwnedABFile(op.expected, At(op.path))
      PROVE Moves(r, LeftOf(x, op.otherwise))
  <2>1. LocalOK(r, LeftOf(x, op.otherwise)) /\ op.otherwise \in Steps
    BY <1>1, OtherwiseOK DEF Steps
  <2>2. run' = [run EXCEPT ![r] = LeftOf(x, op.otherwise)]
    BY <1>3, RunIs DEF Check
  <2> QED BY <1>1, <2>1, <2>2, LeftFields DEF Moves
<1> QED BY <1>1, <1>2, <1>3

(* The path is renamed into the quarantine.                                 *)
LEMMA RenameMoves ==
  ASSUME RunsOK, NEW r \in Runs, Rename(r)
  PROVE LET x == run[r] op == x.op
            y == IF At(op.path) = None THEN LeftOf(x, op.otherwise)
                ELSE StepTo(x, "settle")
        IN  Moves(r, y) /\ op # NoOp
<1> DEFINE x == run[r]
           op == x.op
<1>1. x \in RunStates /\ LocalOK(r, x) /\ op.step = "rename" /\ op # NoOp
  BY RunIs DEF Rename, NoOp
<1>2. ASSUME At(op.path) # None
      PROVE Moves(r, StepTo(x, "settle"))
  <2>1. "settle" \in OpSteps
    BY DEF OpSteps
  <2>2. run' = [run EXCEPT ![r] = StepTo(x, "settle")]
    BY <1>2, RunIs DEF Rename
  <2>3. StepTo(x, "settle") \in RunStates /\ LocalOK(r, StepTo(x, "settle"))
    BY <1>1, <2>1, StepFields, ContinuesOK
  <2> QED BY <2>2, <2>3 DEF Moves
<1>3. ASSUME At(op.path) = None
      PROVE Moves(r, LeftOf(x, op.otherwise))
  <2>1. LocalOK(r, LeftOf(x, op.otherwise)) /\ op.otherwise \in Steps
    BY <1>1, OtherwiseOK DEF Steps
  <2>2. run' = [run EXCEPT ![r] = LeftOf(x, op.otherwise)]
    BY <1>3, RunIs DEF Rename
  <2> QED BY <1>1, <2>1, <2>2, LeftFields DEF Moves
<1> QED BY <1>1, <1>2, <1>3

(* The quarantined file is unlinked or put back.                            *)
LEMMA SettleMoves ==
  ASSUME RunsOK, NEW r \in Runs, Settle(r)
  PROVE LET x == run[r] op == x.op
            own == sameOwnedABFile(op.expected, files[Quarantine(r)])
            y == IF own /\ op.kind = "link" THEN Retiring(x)
                 ELSE LeftOf(x, op.otherwise)
        IN  Moves(r, y) /\ op # NoOp /\ op.kind \in {"link", "remove"}
            /\ (op.kind = "remove" => op.then = op.otherwise)
<1> DEFINE x == run[r]
           op == x.op
           own == sameOwnedABFile(op.expected, files[Quarantine(r)])
<1>1. x \in RunStates /\ LocalOK(r, x) /\ op.step = "settle" /\ op # NoOp
  BY RunIs DEF Settle, NoOp
<1>0. /\ op.kind \in {"link", "remove"}
      /\ (op.kind = "remove" => op.then = op.otherwise)
  BY <1>1 DEF LocalOK, OpOK, Sequel
<1>2. ASSUME own, op.kind = "link"
      PROVE Moves(r, Retiring(x))
  <2>1. Retiring(x) \in RunStates /\ LocalOK(r, Retiring(x))
    BY <1>1, <1>2, RetiringOK
  <2>2. run' = [run EXCEPT ![r].op.step = "link",
          ![r].targets[op.path].consumed = TRUE]
    BY <1>2 DEF Settle
  <2>3. run' = [run EXCEPT ![r] = Retiring(x)]
    BY <2>2 DEF Retiring, WithTarget, StepTo, RunsOK
  <2> QED BY <2>1, <2>3 DEF Moves
<1>3. ASSUME ~(own /\ op.kind = "link")
      PROVE Moves(r, LeftOf(x, op.otherwise))
  <2>1. LocalOK(r, LeftOf(x, op.otherwise)) /\ op.otherwise \in Steps
    BY <1>1, OtherwiseOK DEF Steps
  <2>2. Ends(r, op.otherwise)
    BY <1>0, <1>3 DEF Settle
  <2>3. run' = [run EXCEPT ![r] = LeftOf(x, op.otherwise)]
    BY <2>2, RunIs
  <2> QED BY <1>1, <2>1, <2>3, LeftFields DEF Moves
<1> QED BY <1>0, <1>1, <1>2, <1>3

(* The staged file is linked.                                               *)
LEMMA LinkMoves ==
  ASSUME RunsOK, NEW r \in Runs, Link(r)
  PROVE LET x == run[r] op == x.op
            y == IF At(op.path) = None THEN Linked(r, x)
                ELSE LeftOf(x, op.otherwise)
        IN  Moves(r, y) /\ op # NoOp
          /\ Staged(r, op.path) = StagedOf(r, x, op.path)
<1> DEFINE x == run[r]
           op == x.op
<1>1. x \in RunStates /\ LocalOK(r, x) /\ op.step = "link" /\ op # NoOp
  BY RunIs DEF Link, NoOp
<1>0. Staged(r, op.path) = StagedOf(r, x, op.path)
  BY DEF Staged, StagedOf, saveABBaseline, FinalOf, Part
<1>2. ASSUME At(op.path) = None
      PROVE Moves(r, Linked(r, x))
  <2> DEFINE new == Staged(r, op.path)
             L == Left(r, op.then)
  <2>1. Linked(r, x) \in RunStates /\ LocalOK(r, Linked(r, x))
    BY <1>1, LinkedOK
  <2>2. run' = [run EXCEPT ![r] =
                   [L EXCEPT !.targets[op.path].published = new,
                       !.own = IF op.path = "partial" THEN new ELSE @]]
    BY <1>2 DEF Link
  <2>3. L = LeftOf(x, op.then)
    BY DEF Left, LeftOf
  <2>4. L.own = x.own
    <3>1. op.then \in Steps /\ op.then \notin {"done", "close"}
      BY <1>1 DEF Steps, LocalOK, OpOK, Sequel
    <3> QED BY <1>1, <2>3, <3>1, LeftFields
  <2>5. [L EXCEPT !.targets[op.path].published = new,
                       !.own = IF op.path = "partial" THEN new
                         ELSE @] = Linked(r, x)
    BY <1>0, <2>3, <2>4 DEF Linked, WithOwn, WithTarget
  <2> QED BY <2>1, <2>2, <2>5 DEF Moves
<1>3. ASSUME At(op.path) # None
      PROVE Moves(r, LeftOf(x, op.otherwise))
  <2>1. LocalOK(r, LeftOf(x, op.otherwise)) /\ op.otherwise \in Steps
    BY <1>1, OtherwiseOK DEF Steps
  <2>2. run' = [run EXCEPT ![r] = LeftOf(x, op.otherwise)]
    BY <1>3, RunIs DEF Link
  <2> QED BY <1>1, <2>1, <2>2, LeftFields DEF Moves
<1> QED BY <1>0, <1>1, <1>2, <1>3

(* The staged partial is exchanged with the one at the path.                *)
LEMMA ExchangeMoves ==
  ASSUME RunsOK, NEW r \in Runs, Exchange(r)
  PROVE LET x == run[r] op == x.op
            y == IF op.expected = None
                \/ At("partial") = None THEN LeftOf(x, op.otherwise)
                ELSE StepTo(x, "confirm")
        IN  Moves(r, y) /\ op # NoOp /\ op.kind = "replace"
          /\ Staged(r, "partial") = StagedOf(r, x, "partial")
<1> DEFINE x == run[r]
           op == x.op
<1>1. x \in RunStates /\ LocalOK(r, x) /\ op.step = "exchange" /\ op # NoOp
  BY RunIs DEF Exchange, NoOp
<1>0. op.kind = "replace" /\ Staged(r, "partial") = StagedOf(r, x, "partial")
  BY <1>1 DEF LocalOK, OpOK, Sequel, Staged, StagedOf
<1>2. ASSUME ~(op.expected = None \/ At("partial") = None)
      PROVE Moves(r, StepTo(x, "confirm"))
  <2>1. "confirm" \in OpSteps
    BY DEF OpSteps
  <2>2. run' = [run EXCEPT ![r] = StepTo(x, "confirm")]
    BY <1>2, RunIs DEF Exchange
  <2>3. StepTo(x, "confirm") \in RunStates /\ LocalOK(r, StepTo(x, "confirm"))
    BY <1>1, <2>1, StepFields, ContinuesOK
  <2> QED BY <2>2, <2>3 DEF Moves
<1>3. ASSUME op.expected = None \/ At("partial") = None
      PROVE Moves(r, LeftOf(x, op.otherwise))
  <2>1. LocalOK(r, LeftOf(x, op.otherwise)) /\ op.otherwise \in Steps
    BY <1>1, OtherwiseOK DEF Steps
  <2>2. run' = [run EXCEPT ![r] = LeftOf(x, op.otherwise)]
    BY <1>3, RunIs DEF Exchange
  <2> QED BY <1>1, <2>1, <2>2, LeftFields DEF Moves
<1> QED BY <1>0, <1>1, <1>2, <1>3

(* The exchange is confirmed, or to be undone.                              *)
LEMMA ConfirmMoves ==
  ASSUME RunsOK, NEW r \in Runs, Confirm(r)
  PROVE LET x == run[r] op == x.op
            y == IF files[Stage(r)] = op.expected
                /\ At("partial") = StagedOf(r, x, "partial")
                 THEN Confirmed(r, x) ELSE StepTo(x, "back")
        IN  Moves(r, y) /\ op # NoOp /\ op.kind = "replace"
          /\ Staged(r, "partial") = StagedOf(r, x, "partial")
<1> DEFINE x == run[r]
           op == x.op
           owned == files[Stage(r)] = op.expected
               /\ At("partial") = StagedOf(r, x, "partial")
<1>1. x \in RunStates /\ LocalOK(r, x) /\ op.step = "confirm" /\ op # NoOp
  BY RunIs DEF Confirm, NoOp
<1>0. op.kind = "replace" /\ Staged(r, "partial") = StagedOf(r, x, "partial")
  BY <1>1 DEF LocalOK, OpOK, Sequel, Staged, StagedOf
<1>2. ASSUME owned
      PROVE Moves(r, Confirmed(r, x))
  <2>1. Confirmed(r, x) \in RunStates /\ LocalOK(r, Confirmed(r, x))
    BY <1>0, <1>1, ConfirmedOK
  <2>2. run' = [run EXCEPT ![r]
          = [Left(r, op.then) EXCEPT !.own = Staged(r, "partial")]]
    BY <1>0, <1>2 DEF Confirm
  <2>3. Left(r, op.then) = LeftOf(x, op.then)
    BY DEF Left, LeftOf
  <2> QED BY <1>0, <2>1, <2>2, <2>3 DEF Moves, Confirmed, WithOwn
<1>3. ASSUME ~owned
      PROVE Moves(r, StepTo(x, "back"))
  <2>1. "back" \in OpSteps
    BY DEF OpSteps
  <2>2. run' = [run EXCEPT ![r] = StepTo(x, "back")]
    BY <1>0, <1>3, RunIs DEF Confirm
  <2>3. StepTo(x, "back") \in RunStates /\ LocalOK(r, StepTo(x, "back"))
    BY <1>1, <2>1, StepFields, ContinuesOK
  <2> QED BY <2>2, <2>3 DEF Moves
<1> QED BY <1>0, <1>1, <1>2, <1>3

(* The exchange is undone.                                                  *)
LEMMA BackMoves ==
  ASSUME RunsOK, NEW r \in Runs, ExchangeBack(r)
  PROVE LET x == run[r] op == x.op
        IN  Moves(r, LeftOf(x, op.otherwise)) /\ op # NoOp
          /\ op.kind = "replace"
          /\ Staged(r, "partial") = StagedOf(r, x, "partial")
<1> DEFINE x == run[r]
           op == x.op
<1>1. x \in RunStates /\ LocalOK(r, x) /\ op.step = "back" /\ op # NoOp
  BY RunIs DEF ExchangeBack, NoOp
<1>0. op.kind = "replace" /\ Staged(r, "partial") = StagedOf(r, x, "partial")
  BY <1>1 DEF LocalOK, OpOK, Sequel, Staged, StagedOf
<1>2. LocalOK(r, LeftOf(x, op.otherwise)) /\ op.otherwise \in Steps
  BY <1>1, OtherwiseOK DEF Steps
<1>3. run' = [run EXCEPT ![r] = LeftOf(x, op.otherwise)]
  BY RunIs DEF ExchangeBack
<1> QED BY <1>0, <1>1, <1>2, <1>3, LeftFields DEF Moves

(* A block of the plan has both arms.                                       *)
LEMMA BlocksAre ==
  /\ Len(Blocks) \in Nat /\ DOMAIN Blocks = 1..Len(Blocks)
  /\ \A b \in DOMAIN Blocks : /\ Blocks[b][1] \in Arms /\ Blocks[b][2] \in Arms
                              /\ \A arm \in Arms : arm = Blocks[b][1]
                                   \/ arm = Blocks[b][2]
<1>1. Blocks \in Seq(Seq({"control", "candidate"}))
  BY PlanIsBalanced
<1>2. Len(Blocks) \in Nat /\ DOMAIN Blocks = 1..Len(Blocks)
  BY <1>1, LenProperties
<1>3. ASSUME NEW b \in DOMAIN Blocks
      PROVE /\ Blocks[b][1] \in Arms /\ Blocks[b][2] \in Arms
            /\ \A arm \in Arms : arm = Blocks[b][1] \/ arm = Blocks[b][2]
  <2>1. /\ Blocks[b] \in Seq({"control", "candidate"}) /\ Len(Blocks[b]) = 2
        /\ Blocks[b][1] # Blocks[b][2]
    BY <1>1, <1>2, ElementOfSeq, PlanIsBalanced
  <2>2. /\ Blocks[b][1] \in {"control", "candidate"}
        /\ Blocks[b][2] \in {"control", "candidate"}
    BY <2>1, ElementOfSeq
  <2> QED BY <2>1, <2>2 DEF Arms
<1> QED BY <1>2, <1>3

(* The coordinates that samples cover, the blocks that are open, and the    *)
(* coordinate that comes next.                                              *)
LEMMA PopulationIs ==
  ASSUME NEW S \in SUBSET Samples
  PROVE /\ CoordinatesOf(S) \subseteq Coordinates
        /\ OpenBlocks(S) \subseteq DOMAIN Blocks
        /\ OpenBlocks(S) = {} <=> Complete(S)
        /\ \A b \in DOMAIN Blocks : LET c == NextCoordinate(S, b) IN
              /\ c \in Coordinates
              /\ ~abBlockComplete(S, b) => c \notin CoordinatesOf(S)
              /\ Complete(S) => abBlockComplete(S, b)
<1>1. CoordinatesOf(S) \subseteq Coordinates
  BY DEF CoordinatesOf, Samples
<1>2. OpenBlocks(S) = {} <=> Complete(S)
  BY <1>1 DEF OpenBlocks, abBlockComplete, Complete, Coordinates
<1>3. ASSUME NEW b \in DOMAIN Blocks
      PROVE  LET c == NextCoordinate(S, b) IN
              /\ c \in Coordinates
              /\ ~abBlockComplete(S, b) => c \notin CoordinatesOf(S)
              /\ Complete(S) => abBlockComplete(S, b)
  BY BlocksAre DEF NextCoordinate, abBlockComplete, Coordinates, Complete
<1> QED BY <1>1, <1>2, <1>3 DEF OpenBlocks

(* The steps of the command, one by one.  A run begins.                     *)
LEMMA BeginMoves ==
  ASSUME RunsOK, NEW r \in Runs, NEW mode \in {"fresh", "resume"},
         Begin(r, mode)
  PROVE LET x == run[r] y == run'[r] IN
        /\ Moves(r, y) /\ x.pc = "idle" /\ y.mode = mode
        /\ y.pc = (IF mode = "resume" THEN "lock" ELSE "reserve")
        /\ y.samples = {} /\ y.own = None /\ y.op = NoOp /\ x.samples = {}
        /\ x.own = None /\ x.op = NoOp
        /\ y.targets = x.targets /\ x.targets = [o \in Outputs |-> Unreserved]
<1> DEFINE x == run[r]
           pc == IF mode = "resume" THEN "lock" ELSE "reserve"
           y == [x EXCEPT !.mode = mode, !.pc = pc]
<1>1. x \in RunStates /\ LocalOK(r, x) /\ x.pc = "idle"
  BY RunIs DEF Begin
<1>2. run' = [run EXCEPT ![r] = y]
  BY DEF Begin, RunsOK
<1>3. /\ y \in RunStates /\ y.mode = mode /\ y.pc = pc /\ y.samples = x.samples
      /\ y.kept = x.kept /\ y.own = x.own
      /\ y.op = x.op /\ y.todo = x.todo /\ y.targets = x.targets
  <2>1. pc \in Steps
    BY DEF Steps
  <2> QED BY <1>1, <2>1 DEF RunStates
<1>4. /\ x.samples = {} /\ x.own = None /\ x.op = NoOp /\ x.todo = 0
      /\ x.targets = [o \in Outputs |-> Unreserved]
  BY <1>1 DEF LocalOK, PhaseOK, IsBlank, Ended
<1>5. SamplesOK(y) /\ OpOK(r, y) /\ PhaseOK(y)
  BY <1>1, <1>3, <1>4 DEF LocalOK, SamplesOK, OpOK, PhaseOK, IsBlank, Ended, Act
<1>6. TargetsOK(r, y)
  <2>1. \A o \in Outputs : LET t == y.targets[o] IN
           ~t.preexisting /\ ~t.consumed /\ t.info = None /\ t.published = None
    BY <1>3, <1>4 DEF Unreserved
  <2>2. y.pc \in {"lock", "reserve"} /\ y.todo = 0
    BY <1>3, <1>4
  <2>3. "partial" \in Outputs /\ \A i \in 1..0 : FALSE
    BY DEF Outputs
  <2> HIDE DEF y, pc
  <2>4. \A p \in Outputs : TargetOK(r, y, p)
    BY <2>1, <2>2 DEF TargetOK
  <2>5. \A p \in FinalPaths : FinalTargetOK(r, y, p)
    BY <2>1, <2>2 DEF FinalTargetOK, FreshTarget, Act, FinalPaths
  <2>6. PartialTargetOK(r, y)
    BY <2>1, <2>2, <2>3 DEF PartialTargetOK, Act
  <2> QED BY <2>2, <2>3, <2>4, <2>5, <2>6 DEF TargetsOK
<1>7. run'[r] = y
  BY <1>2 DEF RunsOK
<1> QED BY <1>1, <1>2, <1>3, <1>4, <1>5, <1>6, <1>7 DEF Moves, LocalOK

(* A resume takes the lock, or gives up.                                    *)
LEMMA LockMoves ==
  ASSUME RunsOK, NEW r \in Runs, acquireABResumeLock(r)
  PROVE LET x == run[r] y == LeftOf(x, IF At("lock") = None THEN "load"
          ELSE "done") IN
        /\ Moves(r, y) /\ x.pc = "lock" /\ x.op = NoOp /\ x.mode = "resume"
        /\ x.samples = {} /\ x.own = None
<1> DEFINE x == run[r]
           y == LeftOf(x, "load")
<1>1. x \in RunStates /\ LocalOK(r, x) /\ x.pc = "lock" /\ x.op = NoOp
  BY RunIs DEF acquireABResumeLock, Is
<1>2. x.mode = "resume" /\ x.samples = {} /\ x.own = None /\ IsBlank(x)
  BY <1>1 DEF LocalOK, PhaseOK, IsBlank
<1>3. ASSUME At("lock") # None PROVE Moves(r, LeftOf(x, "done"))
  <2>1. run' = [run EXCEPT ![r] = LeftOf(x, "done")]
    BY <1>3, RunIs DEF acquireABResumeLock
  <2> QED BY <1>1, <2>1, EndsWell, LeftFields DEF Moves, Steps
<1>4. ASSUME At("lock") = None PROVE Moves(r, y)
  <2>1. run' = [run EXCEPT ![r] = y]
    BY <1>4, RunIs DEF acquireABResumeLock
  <2>2. /\ y \in RunStates /\ y.mode = x.mode /\ y.pc = "load"
        /\ y.samples = x.samples /\ y.kept = x.kept /\ y.own = x.own
      /\ y.op = NoOp /\ y.todo = x.todo /\ y.targets = x.targets
    BY <1>1, LeftFields DEF Steps
  <2> HIDE DEF y
  <2>3. SamplesOK(y) /\ OpOK(r, y) /\ PhaseOK(y)
    BY <1>1, <1>2, <2>2
    DEF LocalOK, SamplesOK, OpOK, PhaseOK, IsBlank, Ended, Act
  <2>4. TargetsOK(r, y)
    BY <1>1, <2>2
    DEF LocalOK, TargetsOK, TargetOK, FinalTargetOK, PartialTargetOK, Act
  <2> QED BY <2>1, <2>2, <2>3, <2>4 DEF Moves, LocalOK
<1> QED BY <1>1, <1>2, <1>3, <1>4

(* There are finitely many samples.                                         *)
LEMMA SamplesAreFinite == IsFiniteSet(Samples) /\ IsFiniteSet(Coordinates)
<1>1. IsFiniteSet(Coordinates)
  <2>1. IsFiniteSet(DOMAIN Blocks)
    <3>1. Len(Blocks) \in Nat /\ 1 \in Int
      BY BlocksAre
    <3>2. IsFiniteSet(1..Len(Blocks))
      BY <3>1, FS_Interval
    <3> QED BY <3>2, BlocksAre
  <2>2. IsFiniteSet(Arms)
    <3>1. IsFiniteSet({"control"})
      BY FS_Singleton
    <3>2. IsFiniteSet({"control"} \cup {"candidate"})
      BY <3>1, FS_AddElement
    <3>3. Arms = {"control"} \cup {"candidate"}
      BY DEF Arms
    <3> QED BY <3>2, <3>3
  <2> QED BY <2>1, <2>2, FS_Product DEF Coordinates
<1>2. IsFiniteSet(1..MaxStarts)
  BY FS_Interval, BoundsAreNatural
<1>3. IsFiniteSet(BOOLEAN)
  <2>1. IsFiniteSet({TRUE})
    BY FS_Singleton
  <2>2. IsFiniteSet({TRUE} \cup {FALSE})
    BY <2>1, FS_AddElement
  <2>3. BOOLEAN = {TRUE} \cup {FALSE}
    OBVIOUS
  <2> QED BY <2>2, <2>3
<1> DEFINE P == Coordinates \X (1..MaxStarts)
           Q == P \X BOOLEAN
           f == [q \in Q |-> <<q[1][1], q[1][2], q[2]>>]
<1>4. IsFiniteSet(P)
  BY <1>1, <1>2, FS_Product
<1>5. IsFiniteSet(Q)
  BY <1>3, <1>4, FS_Product
<1>6. f \in Surjection(Q, Samples)
  <2>1. f \in [Q -> Samples]
    BY DEF Samples
  <2>2. ASSUME NEW s \in Samples PROVE \E q \in Q : f[q] = s
    <3>1. /\ s[1] \in Coordinates /\ s[2] \in 1..MaxStarts /\ s[3] \in BOOLEAN
          /\ s = <<s[1], s[2], s[3]>>
      BY DEF Samples
    <3>2. << <<s[1], s[2]>>, s[3]>> \in Q
      BY <3>1
    <3> QED BY <3>1, <3>2
  <2> QED BY <2>1, <2>2 DEF Surjection
<1> HIDE DEF f, P, Q
<1>7. IsFiniteSet(Samples)
  BY <1>5, <1>6, FS_Surjection
<1> QED BY <1>1, <1>7

(* The number of samples is the number of their coordinates exactly when no *)
(* coordinate has two.                                                      *)
LEMMA DistinctIs ==
  ASSUME NEW S \in SUBSET Samples
  PROVE  /\ IsFiniteSet(S)
         /\ Cardinality(CoordinatesOf(S)) = Cardinality(S) <=> Distinct(S)
<1>1. IsFiniteSet(S)
  BY SamplesAreFinite, FS_Subset
<1> DEFINE f == [s \in S |-> s[1]]
           C == CoordinatesOf(S)
<1>2. f \in Surjection(S, C)
  BY DEF Surjection, CoordinatesOf
<1>3. f \in Injection(S, C) <=> Distinct(S)
  BY <1>2 DEF Injection, Surjection, IsInjective, Distinct
<1> HIDE DEF f, C
<1>4. Cardinality(C) = Cardinality(S) <=> f \in Injection(S, C)
  BY <1>1, <1>2, FS_Surjection
<1> QED BY <1>1, <1>3, <1>4 DEF C

(* Samples of distinct coordinates are as many as the coordinates.          *)
LEMMA WholeIs ==
  ASSUME NEW S \in SUBSET Samples, NEW W, CoordinatesOf(S) = W, Distinct(S)
  PROVE  Cardinality(S) = Cardinality(W)
BY DistinctIs

(* Every place names a file, and no sample of a drifted closure is on disk. *)
FilesOK == files \in [Places -> Files]
    /\ \A pl \in Places : Clean(files[pl].data)

(* What a path names is a file of intact samples.                           *)
LEMMA AtIs ==
  ASSUME FilesOK, NEW path \in Paths
  PROVE  /\ At(path) \in Files /\ Clean(At(path).data)
         /\ At(path).data \in SUBSET Samples
<1>1. <<path, 0>> \in Places
  BY DEF Places
<1> QED BY <1>1 DEF FilesOK, At, Files

(* A resume loads the partial, or unlocks.                                  *)
LEMMA LoadMoves ==
  ASSUME RunsOK, FilesOK, NEW r \in Runs, openABResume(r)
  PROVE LET x == run[r] y == run'[r] v == At("partial") IN
        /\ Moves(r, y) /\ x.pc = "load" /\ x.op = NoOp /\ x.mode = "resume"
        /\ x.samples = {} /\ x.own = None
        /\ y.op = NoOp /\ y.mode = "resume"
        /\ \/ /\ v.what = "partial" /\ Distinct(v.data) /\ Clean(v.data)
              /\ y.pc = "reserve" /\ y.samples = v.data /\ y.own = v
              /\ y.targets = x.targets
           \/ /\ ~validatePartialABArtifact(v) /\ y = LeftOf(x, "unlock")
              /\ y.pc = "unlock" /\ y.samples = {} /\ y.own = None
        /\ x.targets = [o \in Outputs |-> Unreserved]
<1> DEFINE x == run[r]
           v == At("partial")
           y == [x EXCEPT !.pc = "reserve", !.samples = v.data, !.own = v]
<1>1. x \in RunStates /\ LocalOK(r, x) /\ x.pc = "load" /\ x.op = NoOp
  BY RunIs DEF openABResume, Is
<1>2. /\ x.mode = "resume" /\ x.samples = {} /\ x.own = None /\ IsBlank(x)
      /\ x.todo = 0
      /\ x.targets = [o \in Outputs |-> Unreserved]
  BY <1>1 DEF LocalOK, PhaseOK, IsBlank
<1>3. ASSUME ~validatePartialABArtifact(v)
      PROVE /\ run' = [run EXCEPT ![r] = LeftOf(x, "unlock")]
            /\ Moves(r, LeftOf(x, "unlock")) /\ LeftOf(x, "unlock").op = NoOp
            /\ LeftOf(x, "unlock").mode = "resume"
            /\ LeftOf(x, "unlock").pc = "unlock"
            /\ LeftOf(x, "unlock").samples = {}
            /\ LeftOf(x, "unlock").own = None
  <2>1. run' = [run EXCEPT ![r] = LeftOf(x, "unlock")]
    BY <1>3, RunIs DEF openABResume
  <2>2. LocalOK(r, LeftOf(x, "unlock"))
    BY <1>1, EndsWell
  <2>3. /\ LeftOf(x, "unlock") \in RunStates /\ LeftOf(x, "unlock").op = NoOp
        /\ LeftOf(x, "unlock").mode = x.mode
        /\ LeftOf(x, "unlock").pc = "unlock"
        /\ LeftOf(x, "unlock").samples = x.samples
        /\ LeftOf(x, "unlock").own = x.own
    BY <1>1, LeftFields DEF Steps
  <2> QED BY <1>2, <2>1, <2>2, <2>3 DEF Moves
<1>4. v \in Files /\ Clean(v.data) /\ v.data \in SUBSET Samples
  BY AtIs DEF Paths, Outputs
<1>5. ASSUME validatePartialABArtifact(v)
      PROVE  /\ run' = [run EXCEPT ![r] = y] /\ Moves(r, y) /\ y.op = NoOp
             /\ y.mode = "resume" /\ v.what = "partial" /\ Distinct(v.data)
             /\ y.pc = "reserve" /\ y.samples = v.data /\ y.own = v
             /\ y.targets = x.targets
  <2>1. v.what = "partial" /\ Distinct(v.data)
    BY <1>4, <1>5, DistinctIs DEF validatePartialABArtifact
  <2>2. run' = [run EXCEPT ![r] = y]
    BY <1>5 DEF openABResume, RunsOK
  <2>3. /\ y \in RunStates /\ y.mode = x.mode /\ y.pc = "reserve"
        /\ y.samples = v.data /\ y.kept = x.kept /\ y.own = v
        /\ y.op = NoOp /\ y.todo = x.todo /\ y.targets = x.targets
    <3>1. "reserve" \in Steps
      BY DEF Steps
    <3> QED BY <1>1, <1>4, <3>1 DEF RunStates
  <2> HIDE DEF y
  <2>4. SamplesOK(y) /\ OpOK(r, y) /\ PhaseOK(y)
    BY <1>1, <1>2, <1>4, <2>1, <2>3
    DEF LocalOK, SamplesOK, OpOK, PhaseOK, IsBlank, Ended, Act
  <2>5. \A o \in Outputs : LET t == y.targets[o] IN
           ~t.preexisting /\ ~t.consumed /\ t.info = None /\ t.published = None
    BY <1>2, <2>3 DEF Unreserved
  <2>6. "partial" \in Outputs /\ \A i \in 1..0 : FALSE
    BY DEF Outputs
  <2>7. \A p \in Outputs : TargetOK(r, y, p)
    BY <2>3, <2>5 DEF TargetOK
  <2>8. \A p \in FinalPaths : FinalTargetOK(r, y, p)
    BY <2>3, <2>5 DEF FinalTargetOK, FreshTarget, Act, FinalPaths
  <2>9. PartialTargetOK(r, y)
    BY <2>3, <2>5, <2>6 DEF PartialTargetOK, Act
  <2>10. TargetsOK(r, y)
    BY <1>2, <2>3, <2>6, <2>7, <2>8, <2>9 DEF TargetsOK
  <2> QED BY <1>2, <2>1, <2>2, <2>3, <2>4, <2>10 DEF Moves, LocalOK
<1>6. \A z : run' = [run EXCEPT ![r] = z] => run'[r] = z
  BY DEF RunsOK
<1> QED BY <1>1, <1>2, <1>3, <1>4, <1>5, <1>6

(* The paths a run claims, in their order.                                  *)
LEMMA PathsAre ==
  LET all == <<"partial">> \o Finals IN
  /\ Len(all) = 4 /\ Len(Finals) = 3
  /\ Finals[1] = "control" /\ Finals[2] = "candidate"
  /\ Finals[3] = "comparison"
  /\ all[1] = "partial" /\ all[2] = "control" /\ all[3] = "candidate"
  /\ all[4] = "comparison"
<1> DEFINE one == <<"partial">>
           all == one \o Finals
<1>1. /\ one \in Seq(Outputs) /\ Finals \in Seq(Outputs) /\ Len(one) = 1
      /\ Len(Finals) = 3 /\ one[1] = "partial"
      /\ Finals[1] = "control" /\ Finals[2] = "candidate"
      /\ Finals[3] = "comparison"
  BY DEF Finals, Outputs
<1> HIDE DEF one
<1>2. /\ Len(all) = Len(one) + Len(Finals)
      /\ \A i \in 1..Len(one) + Len(Finals) :
            all[i] = IF i <= Len(one) THEN one[i] ELSE Finals[i - Len(one)]
  BY <1>1, ConcatProperties
<1>3. /\ Len(all) = 4
      /\ \A i \in 1..4 : all[i] = IF i <= 1 THEN one[i] ELSE Finals[i - 1]
  <2> HIDE DEF all
  <2> QED BY <1>1, <1>2
<1>4. /\ all[1] = one[1] /\ all[2] = Finals[1] /\ all[3] = Finals[2]
      /\ all[4] = Finals[3]
  <2> HIDE DEF all
  <2>1. /\ 1 \in 1..4 /\ 2 \in 1..4 /\ 3 \in 1..4 /\ 4 \in 1..4 /\ 2 - 1 = 1
        /\ 3 - 1 = 2 /\ 4 - 1 = 3
    OBVIOUS
  <2> QED BY <1>3, <2>1
<1> QED BY <1>1, <1>3, <1>4 DEF one

(* A path is claimed, or the run closes what it has claimed.                *)
LEMMA ReserveMoves ==
  ASSUME RunsOK, FilesOK, NEW r \in Runs, reserveABOutputs(r)
  PROVE LET x == run[r] y == run'[r] i == x.todo + 1 path == PathAt(x, i) IN
        /\ Moves(r, y) /\ x.pc = "reserve" /\ x.op = NoOp /\ path \in Outputs
        /\ Reserved(r)[i] = path
        /\ path = "partial" => x.mode = "fresh"
        /\ \/ /\ At(path) # None /\ ~AllowsExisting(r) /\ y = LeftOf(x, "close")
           \/ /\ At(path) = None \/ (x.mode = "resume" /\ Complete(x.samples))
              /\ y.pc \in {"reserve", "first"} /\ y.mode = x.mode
              /\ y.samples = x.samples /\ y.own = x.own /\ y.op = NoOp
              /\ y.kept = x.kept
              /\ y.targets[path].info = (IF At(path) = None
                   THEN Placeholder(r) ELSE At(path))
              /\ y.targets[path].published = None
              /\ y.targets[path].preexisting = (At(path) # None)
              /\ y.targets[path].consumed = (At(path) # None)
              /\ \A q \in Outputs : q # path => y.targets[q] = x.targets[q]
              /\ IF i = (IF x.mode = "fresh" THEN 4 ELSE 3)
                   THEN y.pc = "first" /\ y.todo = 1
                   ELSE y.pc = "reserve" /\ y.todo = i
<1> DEFINE x == run[r]
           i == x.todo + 1
           n == IF x.mode = "fresh" THEN 4 ELSE 3
           path == PathAt(x, i)
           free == At(path) = None
           target == [Unreserved EXCEPT
                      !.info = IF At(path) = None
                        THEN File(r, "placeholder", {}) ELSE At(path),
                      !.preexisting = At(path) # None,
                        !.consumed = At(path) # None]
           w == WithTarget(x, path, target)
           y == [w EXCEPT !.todo = IF i = n THEN 1 ELSE i, !.pc = IF i = n
               THEN "first" ELSE "reserve"]
<1>1. x \in RunStates /\ LocalOK(r, x) /\ x.pc = "reserve" /\ x.op = NoOp
  BY RunIs DEF reserveABOutputs, Is
<1>2. /\ x.mode \in {"fresh", "resume"} /\ x.todo < n /\ x.todo \in 0..4
      /\ x.mode = "fresh" => x.own = None /\ x.samples = {}
      /\ x.mode = "resume" => x.own.what = "partial" /\ x.samples = x.own.data
  BY <1>1 DEF LocalOK, PhaseOK, Ended, RunStates
<1>3. i \in 1..n /\ n \in 3..4
  BY <1>2
<1>4. Reserved(r)[i] = path /\ Len(Reserved(r)) = n
  <2>1. Reserved(r) = (IF x.mode = "fresh" THEN <<"partial">> \o Finals
          ELSE Finals)
    BY DEF Reserved
  <2> QED BY <2>1, <1>2, PathsAre DEF PathAt
<1>5. /\ path \in Outputs /\ (path = "partial" => x.mode = "fresh")
      /\ \A j \in 1..n : j # i => PathAt(x, j) # path
  <2>1. CASE x.mode = "fresh"
    <3>1. n = 4 /\ \A j : PathAt(x, j) = (<<"partial">> \o Finals)[j]
      BY <2>1 DEF PathAt
    <3> DEFINE all == <<"partial">> \o Finals
    <3> HIDE DEF all, n, path
    <3>2. /\ all[1] = "partial" /\ all[2] = "control" /\ all[3] = "candidate"
          /\ all[4] = "comparison"
      BY PathsAre DEF all
    <3>6. path = all[i]
      BY <3>1 DEF path, all
    <3>7. i \in {1, 2, 3, 4} /\ \A j \in 1..n : j \in {1, 2, 3, 4}
      BY <1>3, <3>1
    <3>3. /\ path = all[i] /\ i \in {1, 2, 3, 4}
          /\ \A j \in 1..n : j \in {1, 2, 3, 4}
      BY <3>6, <3>7
    <3>4. path \in Outputs
      BY <3>2, <3>3 DEF Outputs
    <3>5. \A j \in 1..n : j # i => PathAt(x, j) # path
      BY <3>1, <3>2, <3>3 DEF all
    <3> QED BY <2>1, <3>4, <3>5
  <2>2. CASE x.mode # "fresh"
    <3>1. n = 3 /\ \A j : PathAt(x, j) = Finals[j]
      BY <2>2 DEF PathAt
    <3> HIDE DEF n, path
    <3>2. /\ Finals[1] = "control" /\ Finals[2] = "candidate"
          /\ Finals[3] = "comparison"
      BY PathsAre
    <3>3. path = Finals[i] /\ i \in {1, 2, 3} /\ \A j \in 1..n : j \in {1, 2, 3}
      BY <1>3, <3>1 DEF path
    <3>4. path \in Outputs /\ path # "partial"
      BY <3>2, <3>3 DEF Outputs
    <3>5. \A j \in 1..n : j # i => PathAt(x, j) # path
      BY <3>1, <3>2, <3>3
    <3> QED BY <2>2, <3>4, <3>5
  <2> QED BY <2>1, <2>2
<1>6. path \in Paths /\ At(path) \in Files
  BY <1>5, AtIs DEF Paths
<1> HIDE DEF n, path
<1>7. Samples # {} \/ TRUE
  OBVIOUS
<1>8. /\ target \in Reservations
      /\ target.info = (IF At(path) = None THEN Placeholder(r) ELSE At(path))
      /\ target.published = None
      /\ target.preexisting = (At(path) # None)
      /\ target.consumed = (At(path) # None)
  <2>1. {} \in SUBSET Samples
    OBVIOUS
  <2>2. Placeholder(r) \in Files /\ None \in Files
    BY <2>1, FileTyped DEF Placeholder
  <2> QED BY <2>2, <1>6 DEF Unreserved, Reservations, Placeholder
<1> HIDE DEF target
<1>9. /\ w \in RunStates /\ w.targets[path] = target
      /\ \A q \in Outputs : q # path => w.targets[q] = x.targets[q]
      /\ w.pc = x.pc /\ w.mode = x.mode /\ w.samples = x.samples
      /\ w.kept = x.kept /\ w.own = x.own /\ w.op = x.op
  BY <1>1, <1>5, <1>8, TargetFields
<1> HIDE DEF w
<1>10. /\ y \in RunStates /\ y.targets = w.targets
       /\ y.todo = (IF i = n THEN 1 ELSE i)
       /\ y.pc = (IF i = n THEN "first" ELSE "reserve")
       /\ y.mode = x.mode /\ y.samples = x.samples /\ y.kept = x.kept
       /\ y.own = x.own /\ y.op = NoOp
  <2>1. /\ (IF i = n THEN "first" ELSE "reserve") \in Steps
        /\ (IF i = n THEN 1 ELSE i) \in 0..4
    BY <1>3 DEF Steps
  <2> DEFINE pc == IF i = n THEN "first" ELSE "reserve"
             todo == IF i = n THEN 1 ELSE i
  <2>2. pc \in Steps /\ todo \in 0..4 /\ y = [w EXCEPT !.todo = todo, !.pc = pc]
    BY <2>1
  <2> HIDE DEF pc, todo, y
  <2>3. /\ y \in RunStates /\ y.targets = w.targets /\ y.todo = todo
        /\ y.pc = pc
        /\ y.mode = w.mode /\ y.samples = w.samples /\ y.kept = w.kept
        /\ y.own = w.own /\ y.op = w.op
    BY <1>9, <2>2 DEF RunStates
  <2> QED BY <1>1, <1>9, <2>3 DEF pc, todo
<1>11. ASSUME ~(free \/ AllowsExisting(r))
       PROVE  /\ run' = [run EXCEPT ![r] = LeftOf(x, "close")]
              /\ Moves(r, LeftOf(x, "close"))
  <2>1. run' = [run EXCEPT ![r] = LeftOf(x, "close")]
    BY <1>4, <1>11, RunIs DEF reserveABOutputs
  <2>2. x.pc \in Placing \cup {"close"}
    BY <1>1 DEF Placing
  <2>3. LocalOK(r, LeftOf(x, "close")) /\ LeftOf(x, "close") \in RunStates
    BY <1>1, <2>2, EndsWell, LeftFields DEF Steps
  <2> QED BY <2>1, <2>3 DEF Moves
<1>12. AllowsExisting(r) => x.mode = "resume" /\ Complete(x.samples)
  BY DEF AllowsExisting, validateCompleteABPopulation, Complete
<1>13. ASSUME free \/ AllowsExisting(r)
       PROVE  run' = [run EXCEPT ![r] = y]
  <2>1. run' = [run EXCEPT ![r].targets[path] = target,
                          ![r].todo = IF i = n THEN 1 ELSE i,
                          ![r].pc = IF i = n THEN "first" ELSE "reserve"]
    BY <1>4, <1>13 DEF reserveABOutputs, target
  <2> QED BY <2>1 DEF RunsOK, w, WithTarget
<1>14. ASSUME free \/ AllowsExisting(r)
       PROVE  LocalOK(r, y)
  <2> HIDE DEF y
  <2>0. free \/ (x.mode = "resume" /\ Complete(x.samples))
    BY <1>12, <1>14
  <2>1. SamplesOK(y) /\ OpOK(r, y)
    BY <1>1, <1>10 DEF LocalOK, SamplesOK, OpOK
  <2>2. PhaseOK(y)
    BY <1>1, <1>2, <1>3, <1>10 DEF LocalOK, PhaseOK, Ended, Act, n
  <2>3. Placeholder(r) # None
    BY FileTyped DEF Placeholder
  <2>4. \A p \in Outputs : TargetOK(r, y, p)
    <3>1. TargetOK(r, y, path)
      BY <1>5, <1>8, <1>9, <1>10, <2>0, <2>3 DEF TargetOK
    <3>2. ASSUME NEW p \in Outputs, p # path PROVE TargetOK(r, y, p)
      BY <1>1, <3>2, <1>9, <1>10 DEF TargetOK, LocalOK, TargetsOK
    <3> QED BY <3>1, <3>2
  <2>5. \A p \in FinalPaths : FreshTarget(y.targets[p])
    <3>1. FreshTarget(y.targets[path])
      BY <1>8, <1>9, <1>10 DEF FreshTarget
    <3>2. ASSUME NEW p \in FinalPaths, p # path PROVE FreshTarget(y.targets[p])
      BY <1>1, <3>2, <1>9, <1>10
      DEF LocalOK, TargetsOK, FinalTargetOK, FinalPaths
    <3> QED BY <3>1, <3>2
  <2>6. \A j \in 1..i : y.targets[PathAt(x, j)].info # None
    <3>1. y.targets[path].info # None
      BY <1>8, <1>9, <1>10, <2>3
    <3>2. ASSUME NEW j \in 1..i, j # i PROVE y.targets[PathAt(x, j)].info # None
      <4>1. j \in 1..x.todo /\ j \in 1..n
        BY <1>2, <1>3, <3>2
      <4>2. x.targets[PathAt(x, j)].info # None
        BY <1>1, <4>1 DEF LocalOK, TargetsOK
      <4>3. PathAt(x, j) \in Outputs /\ PathAt(x, j) # path
        BY <1>2, <1>3, <1>5, <3>2, <4>1, PathsAre DEF PathAt, Outputs, n
      <4> QED BY <4>2, <4>3, <1>9, <1>10
    <3> QED BY <3>1, <3>2 DEF path
  <2>7. \A j : PathAt(y, j) = PathAt(x, j)
    BY <1>10 DEF PathAt
  <2>8. y.pc = "first"
          => \A p \in FinalPaths \cup (IF x.mode = "fresh" THEN {"partial"}
          ELSE {}) : y.targets[p].info # None
    <3> SUFFICES ASSUME i = n,
                        NEW p \in FinalPaths
                                \cup (IF x.mode = "fresh" THEN {"partial"}
                                                          ELSE {})
                 PROVE  y.targets[p].info # None
      BY <1>10
    <3>1. \E j \in 1..i : PathAt(x, j) = p
      <4>1. CASE x.mode = "fresh"
        <5>1. 1 \in 1..i /\ 2 \in 1..i /\ 3 \in 1..i /\ 4 \in 1..i
          BY <4>1 DEF n
        <5>2. p \in {"partial", "control", "candidate", "comparison"}
          BY DEF FinalPaths, Outputs
        <5> QED BY <4>1, <5>1, <5>2, PathsAre DEF PathAt
      <4>2. CASE x.mode # "fresh"
        <5>1. 1 \in 1..i /\ 2 \in 1..i /\ 3 \in 1..i
          BY <4>2 DEF n
        <5>2. p \in {"control", "candidate", "comparison"}
          BY <4>2 DEF FinalPaths, Outputs
        <5> QED BY <4>2, <5>1, <5>2, PathsAre DEF PathAt
      <4> QED BY <4>1, <4>2
    <3> QED BY <3>1, <2>6
  <2>9. \A p \in FinalPaths : FinalTargetOK(r, y, p)
    <3>1. y.pc \in {"reserve", "first"}
      BY <1>10
    <3> SUFFICES ASSUME NEW p \in FinalPaths PROVE FinalTargetOK(r, y, p)
      OBVIOUS
    <3>2. y.targets[p].published = None /\ FreshTarget(y.targets[p])
      BY <2>5 DEF FreshTarget
    <3>3. y.pc = "first" => y.targets[p].info # None
      BY <2>8
    <3> QED BY <3>1, <3>2, <3>3 DEF FinalTargetOK, Act
  <2>10. PartialTargetOK(r, y)
    <3>1. /\ y.targets["partial"].consumed = FALSE
          /\ (x.mode = "resume" => y.targets["partial"].info = None)
      <4>1. CASE path = "partial"
        <5>1. x.mode = "fresh" /\ ~(x.mode = "resume")
          BY <1>5, <4>1
        <5>2. free
          BY <2>0, <5>1
        <5> QED BY <4>1, <5>1, <5>2, <1>8, <1>9, <1>10
      <4>2. CASE path # "partial"
        <5>1. "partial" \in Outputs
          BY DEF Outputs
        <5>2. y.targets["partial"] = x.targets["partial"]
          BY <4>2, <5>1, <1>9, <1>10
        <5>3. x.targets["partial"].consumed \in BOOLEAN
          BY <1>1, <5>1, TargetTyped
        <5> QED BY <5>2, <5>3, <1>1 DEF LocalOK, TargetsOK, PartialTargetOK
      <4> QED BY <4>1, <4>2
    <3>2. y.pc = "first" /\ x.mode = "fresh"
            => y.targets["partial"].info = Placeholder(r)
      <4> SUFFICES ASSUME y.pc = "first", x.mode = "fresh"
          PROVE  y.targets["partial"].info = Placeholder(r)
        OBVIOUS
      <4>1. y.targets["partial"].info # None
        BY <2>8
      <4>2. "partial" \in Outputs
        BY DEF Outputs
      <4> QED BY <2>4, <4>1, <4>2, <3>1 DEF TargetOK
    <3>3. y.pc \in {"reserve", "first"} /\ y.mode = x.mode /\ y.op.step # "link"
      BY <1>10 DEF NoOp
    <3> QED BY <3>1, <3>2, <3>3 DEF PartialTargetOK, Act
  <2>11. TargetsOK(r, y)
    <3>1. y.pc \in {"reserve", "first"} /\ (y.pc = "reserve" => y.todo = i)
      BY <1>10
    <3> QED BY <3>1, <2>4, <2>6, <2>7, <2>9, <2>10 DEF TargetsOK
  <2> QED BY <2>1, <2>2, <2>11 DEF LocalOK
<1>15. \A z : run' = [run EXCEPT ![r] = z] => run'[r] = z
  BY DEF RunsOK
<1>16. ASSUME free \/ AllowsExisting(r)
       PROVE  /\ run'[r] = y /\ Moves(r, y)
              /\ (At(path) = None \/ (x.mode = "resume" /\ Complete(x.samples)))
              /\ y.pc \in {"reserve", "first"} /\ y.mode = x.mode
              /\ y.samples = x.samples /\ y.own = x.own /\ y.op = NoOp
              /\ y.kept = x.kept
              /\ y.targets[path].info = (IF At(path) = None
                   THEN Placeholder(r) ELSE At(path))
              /\ y.targets[path].published = None
              /\ y.targets[path].preexisting = (At(path) # None)
              /\ y.targets[path].consumed = (At(path) # None)
              /\ \A q \in Outputs : q # path => y.targets[q] = x.targets[q]
              /\ IF i = n THEN y.pc = "first" /\ y.todo = 1
                   ELSE y.pc = "reserve" /\ y.todo = i
  <2>1. run' = [run EXCEPT ![r] = y] /\ LocalOK(r, y)
    BY <1>13, <1>14, <1>16
  <2>2. run'[r] = y
    BY <1>15, <2>1
  <2>3. At(path) = None \/ (x.mode = "resume" /\ Complete(x.samples))
    BY <1>12, <1>16
  <2> HIDE DEF y
  <2> QED BY <1>8, <1>9, <1>10, <2>1, <2>2, <2>3 DEF Moves
<1>17. ASSUME ~(free \/ AllowsExisting(r))
       PROVE  run'[r] = LeftOf(x, "close") /\ Moves(r, LeftOf(x, "close"))
  BY <1>11, <1>15, <1>17
<1> HIDE DEF y
<1>18. CASE free \/ AllowsExisting(r)
  <2> DEFINE z == run'[r]
  <2>0. z = y
    BY <1>16, <1>18
  <2> HIDE DEF z
  <2>4. /\ Moves(r, y)
        /\ (At(path) = None \/ (x.mode = "resume" /\ Complete(x.samples)))
        /\ y.pc \in {"reserve", "first"} /\ y.mode = x.mode
        /\ y.samples = x.samples /\ y.own = x.own /\ y.op = NoOp
        /\ y.kept = x.kept
        /\ y.targets[path].info = (IF At(path) = None THEN Placeholder(r)
             ELSE At(path))
        /\ y.targets[path].published = None
        /\ y.targets[path].preexisting = (At(path) # None)
        /\ y.targets[path].consumed = (At(path) # None)
        /\ \A q \in Outputs : q # path => y.targets[q] = x.targets[q]
        /\ IF i = n THEN y.pc = "first" /\ y.todo = 1
             ELSE y.pc = "reserve" /\ y.todo = i
    BY <1>16, <1>18
  <2>1. /\ Moves(r, z)
        /\ (At(path) = None \/ (x.mode = "resume" /\ Complete(x.samples)))
        /\ z.pc \in {"reserve", "first"} /\ z.mode = x.mode
        /\ z.samples = x.samples /\ z.own = x.own /\ z.op = NoOp
        /\ z.kept = x.kept
        /\ z.targets[path].info = (IF At(path) = None THEN Placeholder(r)
             ELSE At(path))
        /\ z.targets[path].published = None
        /\ z.targets[path].preexisting = (At(path) # None)
        /\ z.targets[path].consumed = (At(path) # None)
        /\ \A q \in Outputs : q # path => z.targets[q] = x.targets[q]
        /\ IF i = n THEN z.pc = "first" /\ z.todo = 1
             ELSE z.pc = "reserve" /\ z.todo = i
    BY <2>0, <2>4
  <2>2. z = run'[r]
    BY DEF z
  <2> QED BY <1>1, <1>4, <1>5, <2>1, <2>2 DEF n, path
<1>19. CASE ~(free \/ AllowsExisting(r))
  BY <1>1, <1>4, <1>5, <1>17, <1>19 DEF n, path
<1> QED BY <1>18, <1>19

(* The operation that a checkpoint is.                                      *)
LEMMA SaveIs ==
  ASSUME RunsOK, NEW r \in Runs, run[r].op = NoOp,
         run[r].pc \in {"first", "call", "fail"},
         NEW then \in Steps, NEW otherwise \in Steps
  PROVE LET x == run[r] o == savePartial(r, then, otherwise) IN
        /\ o \in Operations /\ o # NoOp
        /\ \/ /\ x.pc = "first" /\ x.mode = "fresh" /\ o.step = "check"
              /\ Sequel(o, "link", "partial", Placeholder(r), then, otherwise)
           \/ /\ (x.pc = "first" => x.mode = "resume")
              /\ o.step = (IF x.mode = "resume" THEN "check" ELSE "exchange")
              /\ Sequel(o, "replace", "partial", x.own, then, otherwise)
<1> DEFINE x == run[r]
           o == savePartial(r, then, otherwise)
<1>1. /\ x \in RunStates /\ LocalOK(r, x) /\ x.mode \in {"fresh", "resume"}
      /\ x.pc \in Act
  BY RunIs DEF LocalOK, PhaseOK, Ended, Act
<1>2. x.own \in Files /\ "partial" \in Paths /\ "partial" \in Outputs
  BY <1>1 DEF RunStates, Paths, Outputs
<1>3. ASSUME x.pc = "first", x.mode = "fresh"
      PROVE /\ o \in Operations /\ o # NoOp /\ o.step = "check"
            /\ Sequel(o, "link", "partial", Placeholder(r), then, otherwise)
  <2>1. /\ x.targets["partial"].info = Placeholder(r)
        /\ ~x.targets["partial"].consumed
    BY <1>1, <1>3 DEF LocalOK, TargetsOK, PartialTargetOK, NoOp
  <2>2. o = [kind |-> "link", step |-> "check", path |-> "partial",
          expected |-> x.targets["partial"].info,
             then |-> then, otherwise |-> otherwise]
    BY <1>3, <2>1 DEF savePartial, PublishStaged
  <2>3. x.targets["partial"].info \in Files
    BY <1>1, <1>2, TargetTyped
  <2> HIDE DEF o
  <2> QED BY <1>2, <2>1, <2>2, <2>3 DEF Operations, Sequel, NoOp
<1>4. ASSUME ~(x.pc = "first" /\ x.mode = "fresh")
      PROVE /\ o \in Operations /\ o # NoOp
            /\ (x.pc = "first" => x.mode = "resume")
            /\ o.step = (IF x.mode = "resume" THEN "check" ELSE "exchange")
            /\ Sequel(o, "replace", "partial", x.own, then, otherwise)
  <2>1. x.mode = "fresh" => x.targets["partial"].consumed
    BY <1>1, <1>4 DEF LocalOK, TargetsOK, PartialTargetOK
  <2>2. o = [kind |-> "replace", path |-> "partial", expected |-> x.own,
             step |-> IF x.mode = "resume" THEN "check" ELSE "exchange",
             then |-> then, otherwise |-> otherwise]
    BY <2>1 DEF savePartial, replaceOwnedABFile
  <2> HIDE DEF o
  <2> QED BY <1>1, <1>2, <1>4, <2>2 DEF Operations, Sequel, NoOp
<1> QED BY <1>3, <1>4

(* The save of a partial starts with a check or with the exchange.          *)
LEMMA SaveStarts ==
  ASSUME RunsOK, NEW r \in Runs, run[r].op = NoOp,
         run[r].pc \in {"first", "call", "fail"},
         NEW then \in Steps, NEW otherwise \in Steps
  PROVE  savePartial(r, then, otherwise).step \in {"check", "exchange"}
  BY SaveIs

(* What changes with the operation, and what does not.                      *)
LEMMA OpFields ==
  ASSUME NEW x \in RunStates, NEW o \in Operations
  PROVE LET y == [x EXCEPT !.op = o] IN
        /\ y \in RunStates /\ y.op = o
        /\ y.pc = x.pc /\ y.mode = x.mode /\ y.samples = x.samples
        /\ y.kept = x.kept /\ y.block = x.block /\ y.clean = x.clean
        /\ y.forced = x.forced /\ y.own = x.own /\ y.todo = x.todo
        /\ y.targets = x.targets
BY DEF RunStates

(* A checkpoint begins.                                                     *)
LEMMA SavingOK ==
  ASSUME RunsOK, NEW r \in Runs, run[r].op = NoOp,
         run[r].pc \in {"first", "fail"},
         NEW then \in {"block", "close"}, run[r].pc = "first" <=> then = "block"
  PROVE LET y == [run[r] EXCEPT !.op = savePartial(r, then, "close")] IN
        y \in RunStates /\ LocalOK(r, y)
<1> DEFINE x == run[r]
           o == savePartial(r, then, "close")
           y == [x EXCEPT !.op = o]
<1>1. x \in RunStates /\ LocalOK(r, x)
  BY RunIs
<1>2. then \in Steps /\ "close" \in Steps
  BY DEF Steps
<1>3. /\ o \in Operations /\ o # NoOp
      /\ \/ /\ x.pc = "first" /\ x.mode = "fresh" /\ o.step = "check"
            /\ Sequel(o, "link", "partial", Placeholder(r), then, "close")
         \/ /\ (x.pc = "first" => x.mode = "resume")
            /\ o.step = (IF x.mode = "resume" THEN "check" ELSE "exchange")
            /\ Sequel(o, "replace", "partial", x.own, then, "close")
  BY <1>2, SaveIs
<1> HIDE DEF o
<1>4. /\ y \in RunStates /\ y.op = o
      /\ y.pc = x.pc /\ y.mode = x.mode /\ y.samples = x.samples
      /\ y.kept = x.kept /\ y.block = x.block /\ y.clean = x.clean
      /\ y.forced = x.forced /\ y.own = x.own /\ y.todo = x.todo
      /\ y.targets = x.targets
  BY <1>1, <1>3, OpFields
<1> HIDE DEF y
<1>5. x.op.step = "none" /\ y.op.step \in {"check", "exchange"}
  BY <1>3, <1>4 DEF NoOp
<1>6. OpOK(r, y)
  BY <1>3, <1>4 DEF OpOK, Sequel
<1>7. SamplesOK(y) /\ PhaseOK(y)
  BY <1>1, <1>4 DEF LocalOK, SamplesOK, PhaseOK, Ended
<1>8. TargetsOK(r, y)
  BY <1>1, <1>4, <1>5
  DEF LocalOK, TargetsOK, TargetOK, FinalTargetOK, PartialTargetOK, Act
<1> QED BY <1>4, <1>6, <1>7, <1>8 DEF LocalOK, y, o

(* The first checkpoint begins, or the runtime fails.                       *)
LEMMA FirstMoves ==
  ASSUME RunsOK, NEW r \in Runs, FirstCheckpoint(r)
  PROVE LET x == run[r] y == run'[r] IN
        /\ Moves(r, y) /\ x.pc = "first" /\ x.op = NoOp
        /\ \/ y = LeftOf(x, "close")
           \/ y = [x EXCEPT !.op = savePartial(r, "block", "close")]
<1> DEFINE x == run[r]
<1>1. x \in RunStates /\ LocalOK(r, x) /\ x.pc = "first" /\ x.op = NoOp
  BY RunIs DEF FirstCheckpoint, Is
<1>2. \/ run' = [run EXCEPT ![r] = LeftOf(x, "close")]
      \/ run' = [run EXCEPT ![r]
           = [x EXCEPT !.op = savePartial(r, "block", "close")]]
  BY RunIs DEF FirstCheckpoint, RunsOK
<1>3. \A z : run' = [run EXCEPT ![r] = z] => run'[r] = z
  BY DEF RunsOK
<1>4. CASE run' = [run EXCEPT ![r] = LeftOf(x, "close")]
  <2>1. x.pc \in Placing \cup {"close"}
    BY <1>1 DEF Placing
  <2>2. LocalOK(r, LeftOf(x, "close")) /\ LeftOf(x, "close") \in RunStates
    BY <1>1, <2>1, EndsWell, LeftFields DEF Steps
  <2> QED BY <1>1, <1>3, <1>4, <2>2 DEF Moves
<1>5. CASE run'
        = [run EXCEPT ![r] = [x EXCEPT !.op = savePartial(r, "block", "close")]]
  <2> DEFINE y == [x EXCEPT !.op = savePartial(r, "block", "close")]
  <2>1. y \in RunStates /\ LocalOK(r, y)
    BY <1>1, SavingOK
  <2> HIDE DEF y
  <2>2. run' = [run EXCEPT ![r] = y] /\ run'[r] = y
    BY <1>3, <1>5 DEF y
  <2> QED BY <1>1, <2>1, <2>2 DEF Moves, y
<1> QED BY <1>2, <1>4, <1>5

(* A failed run begins its last checkpoint.                                 *)
LEMMA FailureMoves ==
  ASSUME RunsOK, NEW r \in Runs, finalizeFailure(r)
  PROVE LET x == run[r] y == run'[r] IN
        /\ Moves(r, y) /\ x.pc = "fail" /\ x.op = NoOp
        /\ y = [x EXCEPT !.op = savePartial(r, "close", "close")]
<1> DEFINE x == run[r]
           y == [x EXCEPT !.op = savePartial(r, "close", "close")]
<1>1. x \in RunStates /\ LocalOK(r, x) /\ x.pc = "fail" /\ x.op = NoOp
  BY RunIs DEF finalizeFailure, Is
<1>2. run' = [run EXCEPT ![r] = y]
  BY DEF finalizeFailure, RunsOK
<1>3. y \in RunStates /\ LocalOK(r, y)
  BY <1>1, SavingOK
<1> HIDE DEF y
<1>4. run'[r] = y
  BY <1>2 DEF RunsOK
<1> QED BY <1>1, <1>2, <1>3, <1>4 DEF Moves, y

(* The first open block is a block of the plan.                             *)
LEMMA FirstBlockIs ==
  ASSUME NEW S, S \subseteq Nat, S # {}
  PROVE  (CHOOSE b \in S : \A c \in S : b <= c) \in S
<1> DEFINE R == {pair \in Nat \X Nat : pair[1] < pair[2]}
<1>1. IsWellFoundedOn(R, Nat)
  BY NatLessThanWellFounded DEF OpToRel
<1>2. \E b \in S : \A c \in S : ~(<<c, b>> \in R)
  <2> HIDE DEF R
  <2> QED BY <1>1, WFMin
<1>3. PICK b \in S : \A c \in S : ~(<<c, b>> \in R)
  BY <1>2
<1>4. \A c \in S : b <= c
  <2> TAKE c \in S
  <2>1. b \in Nat /\ c \in Nat /\ ~(c < b)
    BY <1>3
  <2> QED BY <2>1
<1> HIDE DEF R
<1> QED BY <1>3, <1>4

(* The phases between the first checkpoint and the publication leave the    *)
(* reservations alone.                                                      *)
LEMMA PhaseKeepsTargets ==
  ASSUME NEW r \in Runs, NEW x \in RunStates, LocalOK(r, x),
         NEW y \in RunStates,
         y.targets = x.targets, y.mode = x.mode, y.op.step # "link",
         x.pc \in {"block", "next", "call", "verify", "finish"}, x.op = NoOp,
         \/ y.pc \in {"block", "next", "call", "verify", "finish"}
         \/ y.pc = "publish" /\ y.todo = 1
         \/ y.pc = "fail" /\ (x.pc \in {"next", "call", "verify"}
              \/ Complete(y.samples)),
         x.pc \in {"block", "finish"} =>
            (Complete(x.samples) => Complete(y.samples)),
         x.pc \in {"block", "finish"} /\ y.pc \in {"next", "call", "verify"}
           => ~Complete(x.samples)
  PROVE  TargetsOK(r, y)
<1>1. \A p \in Outputs : TargetOK(r, x, p)
  BY DEF LocalOK, TargetsOK
<1>2. \A p \in FinalPaths : /\ FreshTarget(x.targets[p])
                            /\ x.targets[p].info # None
                            /\ x.pc \in {"next", "call", "verify"}
                                 => ~x.targets[p].preexisting
  BY DEF LocalOK, TargetsOK, FinalTargetOK, Act
<1>3. \A p \in FinalPaths : y.pc \in {"next", "call", "verify"}
        => ~x.targets[p].preexisting
  BY <1>1, <1>2 DEF TargetOK, FinalPaths, Act
<1>4. x.pc = "finish" => Complete(x.samples)
  BY DEF LocalOK, PhaseOK
<1>5. \A p \in Outputs : x.targets[p].preexisting
        => Complete(y.samples) \/ x.pc \in {"next", "call", "verify"}
  BY <1>1 DEF TargetOK, Act
<1>6. \A p \in Outputs : x.targets[p].preexisting => p \in FinalPaths
  BY <1>1 DEF TargetOK, FinalPaths
<1>7. \A p \in Outputs : x.targets[p].preexisting => Complete(y.samples)
  BY <1>2, <1>5, <1>6
<1>8. \A p \in Outputs : TargetOK(r, y, p)
  BY <1>1, <1>7 DEF TargetOK
<1>9. PartialTargetOK(r, y)
  <2>1. /\ PartialTargetOK(r, x) /\ x.op.step # "link"
        /\ x.pc \in Act \ {"first"} /\ y.pc \in Act \ {"first"}
    BY DEF LocalOK, TargetsOK, NoOp, Act
  <2> QED BY <2>1 DEF PartialTargetOK
<1>10. \A p \in FinalPaths : FinalTargetOK(r, y, p)
  <2> SUFFICES ASSUME NEW p \in FinalPaths PROVE FinalTargetOK(r, y, p)
    OBVIOUS
  <2>1. p \in Outputs
    BY DEF FinalPaths
  <2>2. ~x.targets[p].preexisting => HeldTarget(r, x.targets[p])
    BY <1>1, <1>2, <2>1 DEF TargetOK, HeldTarget, FreshTarget
  <2>3. /\ FreshTarget(y.targets[p]) /\ y.targets[p].info # None
        /\ y.targets[p].published = None
    BY <1>2 DEF FreshTarget
  <2>4. y.pc \in {"next", "call", "verify"} => ~y.targets[p].preexisting
    BY <1>1, <1>2, <1>3, <1>4, <2>1 DEF TargetOK
  <2>5. y.pc = "fail" => HeldTarget(r, y.targets[p]) \/ Complete(y.samples)
    BY <1>2, <2>2
  <2>6. y.pc # "rollback"
    OBVIOUS
  <2> QED BY <2>3, <2>4, <2>5, <2>6 DEF FinalTargetOK, Act
<1>11. y.pc = "publish"
         => \A i \in y.todo..3 : FreshTarget(y.targets[Finals[i]])
  <2> SUFFICES ASSUME y.pc = "publish", NEW i \in 1..3
      PROVE  FreshTarget(y.targets[Finals[i]])
    OBVIOUS
  <2>1. Finals[i] \in FinalPaths
    BY PathsAre DEF FinalPaths, Outputs
  <2> QED BY <1>2, <2>1
<1> QED BY <1>8, <1>9, <1>10, <1>11 DEF TargetsOK

(* A block begins, or the population is whole.                              *)
LEMMA BlockMoves ==
  ASSUME RunsOK, NEW r \in Runs, BeginBlock(r)
  PROVE LET x == run[r] y == run'[r] IN
        /\ Moves(r, y) /\ x.pc = "block" /\ x.op = NoOp /\ y.op = NoOp
        /\ y.samples = x.samples /\ y.own = x.own /\ y.targets = x.targets
        /\ y.mode = x.mode
        /\ \/ /\ Complete(x.samples) /\ y.pc = "finish"
              /\ y.kept = x.kept /\ y.block = x.block
           \/ /\ ~Complete(x.samples) /\ y.pc = "next" /\ y.kept = x.samples
              /\ y.block \in OpenBlocks(x.samples)
<1> DEFINE x == run[r]
           open == OpenBlocks(x.samples)
           b == CHOOSE k \in open : \A c \in open : k <= c
           z == [x EXCEPT !.pc = "next", !.kept = x.samples, !.block = b]
<1>1. /\ x \in RunStates /\ LocalOK(r, x) /\ x.pc = "block" /\ x.op = NoOp
      /\ x.samples \in SUBSET Samples
  BY RunIs DEF BeginBlock, Is, RunStates
<1>2. open \subseteq DOMAIN Blocks /\ (open = {} <=> Complete(x.samples))
  BY <1>1, PopulationIs
<1>3. ASSUME NEW y, run' = [run EXCEPT ![r] = y] PROVE run'[r] = y
  BY <1>3 DEF RunsOK
<1>4. ASSUME open = {}
      PROVE  LET y == LeftOf(x, "finish") IN
             /\ run' = [run EXCEPT ![r] = y] /\ run'[r] = y /\ Moves(r, y)
             /\ y.op = NoOp /\ y.pc = "finish" /\ y.kept = x.kept
             /\ y.block = x.block
             /\ y.samples = x.samples /\ y.own = x.own /\ y.targets = x.targets
             /\ y.mode = x.mode
  <2> DEFINE y == LeftOf(x, "finish")
  <2>1. /\ y \in RunStates /\ y.pc = "finish" /\ y.op = NoOp /\ y.mode = x.mode
        /\ y.samples = x.samples /\ y.kept = x.kept
        /\ y.block = x.block /\ y.own = x.own /\ y.todo = x.todo
        /\ y.targets = x.targets
    BY <1>1, LeftFields DEF Steps
  <2>2. run' = [run EXCEPT ![r] = y]
    BY <1>4, RunIs DEF BeginBlock
  <2> HIDE DEF y
  <2>3. SamplesOK(y) /\ PhaseOK(y) /\ OpOK(r, y)
    BY <1>1, <1>2, <1>4, <2>1 DEF LocalOK, SamplesOK, PhaseOK, OpOK, Ended, Act
  <2>4. y.op.step # "link"
    BY <2>1 DEF NoOp
  <2>5. TargetsOK(r, y)
    BY <1>1, <2>1, <2>4, PhaseKeepsTargets
  <2>6. run'[r] = y
    BY <1>3, <2>2
  <2> QED BY <2>1, <2>2, <2>3, <2>5, <2>6 DEF Moves, LocalOK, y
<1>5. ASSUME open # {}
      PROVE  /\ run' = [run EXCEPT ![r] = z] /\ run'[r] = z /\ Moves(r, z)
             /\ z.op = NoOp /\ z.pc = "next" /\ z.kept = x.samples
             /\ z.block \in open
             /\ z.samples = x.samples /\ z.own = x.own /\ z.targets = x.targets
             /\ z.mode = x.mode
  <2>0. run' = [run EXCEPT ![r] = z]
    BY <1>5 DEF BeginBlock, RunsOK
  <2>1. open \subseteq Nat
    BY <1>2, BlocksAre
  <2>2. b \in open
    <3> HIDE DEF open
    <3> QED BY <1>5, <2>1, FirstBlockIs
  <2>3. b \in 0..Len(Blocks) /\ b \in DOMAIN Blocks
    BY <1>2, <2>2, BlocksAre
  <2> HIDE DEF b
  <2>4. /\ z \in RunStates /\ z.pc = "next" /\ z.op = NoOp /\ z.mode = x.mode
        /\ z.samples = x.samples /\ z.kept = x.samples
        /\ z.block = b /\ z.own = x.own /\ z.todo = x.todo
        /\ z.targets = x.targets
    <3>1. "next" \in Steps
      BY DEF Steps
    <3> QED BY <1>1, <2>3, <3>1 DEF RunStates
  <2> HIDE DEF z
  <2>5. SamplesOK(z) /\ PhaseOK(z) /\ OpOK(r, z)
    BY <1>1, <2>3, <2>4 DEF LocalOK, SamplesOK, PhaseOK, OpOK, Ended, Act
  <2>6. z.op.step # "link"
    BY <2>4 DEF NoOp
  <2>7. TargetsOK(r, z)
    BY <1>1, <1>2, <1>5, <2>4, <2>6, PhaseKeepsTargets
  <2>8. run'[r] = z
    BY <1>3, <2>0
  <2> QED BY <2>0, <2>2, <2>4, <2>5, <2>7, <2>8 DEF Moves, LocalOK
<1> HIDE DEF z, open
<1>6. CASE open = {}
  <2>1. Complete(x.samples)
    BY <1>2, <1>6
  <2> QED BY <1>1, <1>4, <1>6, <2>1
<1>7. CASE open # {}
  <2>1. ~Complete(x.samples)
    BY <1>2, <1>7
  <2> QED BY <1>1, <1>5, <1>7, <2>1 DEF open
<1> QED BY <1>6, <1>7

(* A run between the first checkpoint and the publication turns to another  *)
(* phase, its samples being what they were or what its block began with.    *)
LEMMA TurnOK ==
  ASSUME NEW r \in Runs, NEW x \in RunStates, LocalOK(r, x), x.op = NoOp,
         NEW y \in RunStates, y.op = NoOp, y.targets = x.targets,
         y.mode = x.mode, y.own = x.own,
         y.kept \in {x.kept, {}}, y.block = x.block,
         \/ y.samples = x.samples
         \/ y.samples = x.kept /\ x.pc \in {"call", "verify"} /\ y.pc = "fail",
         \/ x.pc = "next" /\ y.pc \in {"verify", "fail"}
         \/ x.pc = "next" /\ y.pc = "call"
              /\ ~abBlockComplete(x.samples, x.block)
         \/ x.pc = "verify" /\ y.pc \in {"block", "fail"}
         \/ x.pc = "finish" /\ y.pc = "fail"
         \/ x.pc = "finish" /\ y.pc = "publish" /\ y.todo = 1
  PROVE  LocalOK(r, y)
<1>1. SamplesOK(y)
  BY DEF LocalOK, SamplesOK, Distinct, Clean
<1>2. PhaseOK(y)
  BY DEF LocalOK, PhaseOK, Ended, Act
<1>3. OpOK(r, y)
  BY DEF OpOK
<1>4. y.op.step # "link"
  BY DEF NoOp
<1>5. x.pc = "finish" => Complete(x.samples)
  BY DEF LocalOK, PhaseOK
<1>6. TargetsOK(r, y)
  BY <1>4, <1>5, PhaseKeepsTargets
<1> QED BY <1>1, <1>2, <1>3, <1>6 DEF LocalOK

(* A call begins, or the block ends, or the run fails.                      *)
LEMMA BeginSampleMoves ==
  ASSUME RunsOK, NEW r \in Runs, BeginSample(r)
  PROVE LET x == run[r] y == run'[r] c == NextCoordinate(x.samples, x.block) IN
        /\ Moves(r, y) /\ x.pc = "next" /\ x.op = NoOp /\ y.op = NoOp
        /\ x.block \in DOMAIN Blocks /\ c \in Coordinates
        /\ y.samples = x.samples /\ y.own = x.own /\ y.targets = x.targets
        /\ y.mode = x.mode /\ y.kept = x.kept /\ y.block = x.block
        /\ \/ y.pc \in {"verify", "fail"} /\ UNCHANGED paid
           \/ /\ y.pc = "call" /\ y.clean = TRUE
              /\ ~abBlockComplete(x.samples, x.block)
              /\ "closure" \notin drifted
              /\ paid' = [paid EXCEPT ![c] = @ + 1]
<1> DEFINE x == run[r]
           c == NextCoordinate(x.samples, x.block)
           a == [x EXCEPT !.pc = "call", !.clean = TRUE]
           v == [x EXCEPT !.pc = "verify", !.forced = TRUE]
<1>1. /\ x \in RunStates /\ LocalOK(r, x) /\ x.pc = "next" /\ x.op = NoOp
      /\ x.samples \in SUBSET Samples
      /\ x.block \in DOMAIN Blocks
  BY RunIs DEF BeginSample, Is, RunStates, LocalOK, PhaseOK
<1>2. c \in Coordinates
  BY <1>1, PopulationIs
<1>3. ASSUME NEW y, run' = [run EXCEPT ![r] = y] PROVE run'[r] = y
  BY <1>3 DEF RunsOK
<1>4. \/ \E pc \in {"verify", "fail"} :
           run' = [run EXCEPT ![r] = LeftOf(x, pc)] /\ UNCHANGED paid
      \/ /\ run' = [run EXCEPT ![r] = a]
         /\ ~abBlockComplete(x.samples, x.block) /\ "closure" \notin drifted
         /\ paid' = [paid EXCEPT ![c] = @ + 1]
      \/ run' = [run EXCEPT ![r] = v] /\ UNCHANGED paid
  BY RunIs DEF BeginSample, RunsOK, Failure
<1>5. ASSUME NEW pc \in {"verify", "fail"},
             run' = [run EXCEPT ![r] = LeftOf(x, pc)], UNCHANGED paid
      PROVE  /\ Moves(r, run'[r]) /\ run'[r].op = NoOp /\ run'[r].pc = pc
             /\ run'[r].samples = x.samples /\ run'[r].own = x.own
             /\ run'[r].targets = x.targets
             /\ run'[r].mode = x.mode /\ run'[r].kept = x.kept
             /\ run'[r].block = x.block
  <2> DEFINE y == LeftOf(x, pc)
  <2>1. /\ y \in RunStates /\ y.pc = pc /\ y.op = NoOp /\ y.mode = x.mode
        /\ y.samples = x.samples /\ y.kept = x.kept
        /\ y.block = x.block /\ y.own = x.own /\ y.todo = x.todo
        /\ y.targets = x.targets
    BY <1>1, LeftFields DEF Steps
  <2>2. run' = [run EXCEPT ![r] = y]
    BY <1>5
  <2> HIDE DEF y
  <2>3. LocalOK(r, y)
    BY <1>1, <2>1, TurnOK
  <2>4. run'[r] = y
    BY <1>3, <2>2
  <2> QED BY <2>1, <2>2, <2>3, <2>4 DEF Moves
<1>6. ASSUME run' = [run EXCEPT ![r] = a], ~abBlockComplete(x.samples, x.block)
      PROVE  /\ Moves(r, run'[r]) /\ run'[r].op = NoOp /\ run'[r].pc = "call"
             /\ run'[r].clean = TRUE
             /\ run'[r].samples = x.samples /\ run'[r].own = x.own
             /\ run'[r].targets = x.targets
             /\ run'[r].mode = x.mode /\ run'[r].kept = x.kept
             /\ run'[r].block = x.block
  <2>0. "call" \in Steps
    BY DEF Steps
  <2>1. /\ a \in RunStates /\ a.pc = "call" /\ a.clean = TRUE /\ a.op = NoOp
        /\ a.mode = x.mode /\ a.samples = x.samples /\ a.kept = x.kept
        /\ a.block = x.block /\ a.own = x.own /\ a.todo = x.todo
        /\ a.targets = x.targets
    BY <1>1, <2>0 DEF RunStates
  <2>2. run' = [run EXCEPT ![r] = a]
    BY <1>6
  <2> HIDE DEF a
  <2>3. LocalOK(r, a)
    BY <1>1, <1>6, <2>1, TurnOK
  <2>4. run'[r] = a
    BY <1>3, <2>2
  <2> QED BY <2>1, <2>2, <2>3, <2>4 DEF Moves
<1>7. ASSUME run' = [run EXCEPT ![r] = v]
      PROVE  /\ Moves(r, run'[r]) /\ run'[r].op = NoOp /\ run'[r].pc = "verify"
             /\ run'[r].samples = x.samples /\ run'[r].own = x.own
             /\ run'[r].targets = x.targets
             /\ run'[r].mode = x.mode /\ run'[r].kept = x.kept
             /\ run'[r].block = x.block
  <2>0. "verify" \in Steps
    BY DEF Steps
  <2>1. /\ v \in RunStates /\ v.pc = "verify" /\ v.op = NoOp /\ v.mode = x.mode
        /\ v.samples = x.samples /\ v.kept = x.kept
        /\ v.block = x.block /\ v.own = x.own /\ v.todo = x.todo
        /\ v.targets = x.targets
    BY <1>1, <2>0 DEF RunStates
  <2>2. run' = [run EXCEPT ![r] = v]
    BY <1>7
  <2> HIDE DEF v
  <2>3. LocalOK(r, v)
    BY <1>1, <2>1, TurnOK
  <2>4. run'[r] = v
    BY <1>3, <2>2
  <2> QED BY <2>1, <2>2, <2>3, <2>4 DEF Moves
<1> HIDE DEF a, v
<1>8. CASE \E pc \in {"verify", "fail"} :
        run' = [run EXCEPT ![r] = LeftOf(x, pc)] /\ UNCHANGED paid
  BY <1>1, <1>2, <1>5, <1>8
<1>9. CASE /\ run' = [run EXCEPT ![r] = a]
           /\ ~abBlockComplete(x.samples, x.block) /\ "closure" \notin drifted
           /\ paid' = [paid EXCEPT ![c] = @ + 1]
  BY <1>1, <1>2, <1>6, <1>9
<1>10. CASE run' = [run EXCEPT ![r] = v] /\ UNCHANGED paid
  BY <1>1, <1>2, <1>7, <1>10
<1> QED BY <1>4, <1>8, <1>9, <1>10

(* The bundles are verified behind a block.                                 *)
LEMMA VerifyMoves ==
  ASSUME RunsOK, NEW r \in Runs, VerifyBlock(r)
  PROVE LET x == run[r] y == run'[r] IN
        /\ Moves(r, y) /\ x.pc = "verify" /\ x.op = NoOp /\ y.op = NoOp
        /\ y.own = x.own /\ y.targets = x.targets /\ y.mode = x.mode
        /\ y.kept = {} /\ y.block = x.block
        /\ \/ /\ y.pc = "block" /\ "bundle" \notin drifted
              /\ y.samples = x.samples /\ x.forced = FALSE
           \/ y.pc = "fail" /\ y.samples = Restore(r, x.samples)
<1> DEFINE x == run[r]
           S == Restore(r, x.samples)
           pc == IF "bundle" \in drifted
               \/ run[r].forced THEN Failure ELSE "block"
           y == [x EXCEPT !.samples = S, !.kept = {}, !.pc = pc]
<1>1. /\ x \in RunStates /\ LocalOK(r, x) /\ x.pc = "verify" /\ x.op = NoOp
      /\ x.forced \in BOOLEAN
      /\ x.samples \in SUBSET Samples /\ x.kept \in SUBSET Samples
  BY RunIs DEF VerifyBlock, Is, RunStates
<1>2. run' = [run EXCEPT ![r] = y]
  BY DEF VerifyBlock, RunsOK
<1>3. /\ S \in SUBSET Samples /\ S \in {x.samples, x.kept}
      /\ pc \in {"fail", "block"}
      /\ pc = "block"
           => "bundle" \notin drifted /\ x.forced = FALSE /\ S = x.samples
  BY <1>1 DEF Restore, Failure
<1> HIDE DEF S, pc
<1>4. /\ y \in RunStates /\ y.pc = pc /\ y.op = NoOp /\ y.mode = x.mode
      /\ y.samples = S /\ y.kept = {}
      /\ y.block = x.block /\ y.own = x.own /\ y.todo = x.todo
      /\ y.targets = x.targets
  <2>1. pc \in Steps /\ {} \in SUBSET Samples
    BY <1>3 DEF Steps
  <2> QED BY <1>1, <1>3, <2>1 DEF RunStates
<1> HIDE DEF y
<1>5. LocalOK(r, y)
  BY <1>1, <1>3, <1>4, TurnOK
<1>6. run'[r] = y
  BY <1>2 DEF RunsOK
<1>7. Moves(r, y)
  BY <1>2, <1>4, <1>5 DEF Moves
<1> QED BY <1>1, <1>3, <1>4, <1>6, <1>7 DEF S

(* The finals are staged, or the run fails.                                 *)
LEMMA FinishMoves ==
  ASSUME RunsOK, NEW r \in Runs, Finish(r)
  PROVE LET x == run[r] y == run'[r] IN
        /\ Moves(r, y) /\ x.pc = "finish" /\ x.op = NoOp /\ y.op = NoOp
        /\ Complete(x.samples)
        /\ y.own = x.own /\ y.targets = x.targets /\ y.mode = x.mode
        /\ y.samples = x.samples
        /\ y.kept = x.kept /\ y.block = x.block
        /\ y.pc = "fail" \/ (y.pc = "publish" /\ y.todo = 1)
<1> DEFINE x == run[r]
           y == [x EXCEPT !.pc = "publish", !.todo = 1]
           z == LeftOf(x, "fail")
<1>1. /\ x \in RunStates /\ LocalOK(r, x) /\ x.pc = "finish" /\ x.op = NoOp
      /\ Complete(x.samples)
  BY RunIs DEF Finish, Is, LocalOK, PhaseOK
<1>2. run' = [run EXCEPT ![r] = y] \/ run' = [run EXCEPT ![r] = z]
  BY RunIs DEF Finish, RunsOK, Failure
<1>3. /\ y \in RunStates /\ y.pc = "publish" /\ y.todo = 1 /\ y.op = NoOp
      /\ y.mode = x.mode /\ y.samples = x.samples /\ y.kept = x.kept
      /\ y.block = x.block /\ y.own = x.own /\ y.targets = x.targets
  <2>1. "publish" \in Steps /\ 1 \in 0..4
    BY DEF Steps
  <2> QED BY <1>1, <2>1 DEF RunStates
<1>4. /\ z \in RunStates /\ z.pc = "fail" /\ z.op = NoOp /\ z.mode = x.mode
      /\ z.samples = x.samples /\ z.kept = x.kept
      /\ z.block = x.block /\ z.own = x.own /\ z.targets = x.targets
  BY <1>1, LeftFields DEF Steps
<1> HIDE DEF y, z
<1>5. LocalOK(r, y) /\ LocalOK(r, z)
  BY <1>1, <1>3, <1>4, TurnOK
<1>6. CASE run' = [run EXCEPT ![r] = y]
  <2>1. run'[r] = y
    BY <1>6 DEF RunsOK
  <2> QED BY <1>1, <1>3, <1>5, <1>6, <2>1 DEF Moves
<1>7. CASE run' = [run EXCEPT ![r] = z]
  <2>1. run'[r] = z
    BY <1>7 DEF RunsOK
  <2> QED BY <1>1, <1>4, <1>5, <1>7, <2>1 DEF Moves
<1> QED BY <1>2, <1>6, <1>7

(* The calls that were paid, by coordinate.                                 *)
PaidOK == paid \in [Coordinates -> 0..MaxStarts] /\ CallsOK

(* What a call that returned under an intact closure adds to the samples.   *)
LEMMA RecordedOK ==
  ASSUME RunsOK, PaidOK, NEW r \in Runs, Is(r, "call")
  PROVE LET x == run[r] S == x.samples \cup Recorded(r) IN
        /\ Recorded(r) \in SUBSET Samples /\ S \in SUBSET Samples
        /\ Distinct(S) /\ ("closure" \notin drifted => Clean(S))
        /\ CoordinatesOf(S)
             = CoordinatesOf(x.samples) \cup {NextCoordinate(x.samples,
             x.block)}
        /\ NextCoordinate(x.samples, x.block) \in Coordinates
        /\ NextCoordinate(x.samples, x.block) \notin CoordinatesOf(x.samples)
<1> DEFINE x == run[r]
           c == NextCoordinate(x.samples, x.block)
           s == <<c, paid[c], x.clean>>
<1>1. /\ x \in RunStates /\ LocalOK(r, x) /\ x.pc = "call" /\ x.op = NoOp
      /\ x.samples \in SUBSET Samples
      /\ x.block \in DOMAIN Blocks /\ x.clean \in BOOLEAN
      /\ ~abBlockComplete(x.samples, x.block)
      /\ Distinct(x.samples) /\ Clean(x.samples)
  BY RunIs DEF Is, RunStates, LocalOK, PhaseOK, SamplesOK
<1>2. c \in Coordinates /\ c \notin CoordinatesOf(x.samples)
  BY <1>1, PopulationIs
<1>3. paid[c] >= 1 /\ (~x.clean => "closure" \in drifted)
  BY <1>1 DEF PaidOK, CallsOK
<1> HIDE DEF c
<1>4. paid[c] \in 1..MaxStarts
  BY <1>2, <1>3, BoundsAreNatural DEF PaidOK
<1>5. s \in Samples /\ s[1] = c /\ s[3] = x.clean
  BY <1>1, <1>2, <1>4 DEF Samples
<1>6. Recorded(r) = {s}
  BY DEF Recorded, c
<1> HIDE DEF s
<1>7. \A t \in x.samples : t[1] # c
  BY <1>2 DEF CoordinatesOf
<1>8. Distinct(x.samples \cup {s})
  BY <1>1, <1>5, <1>7 DEF Distinct
<1>9. "closure" \notin drifted => Clean(x.samples \cup {s})
  BY <1>1, <1>3, <1>5 DEF Clean
<1>10. CoordinatesOf(x.samples \cup {s}) = CoordinatesOf(x.samples) \cup {c}
  BY <1>5 DEF CoordinatesOf
<1> QED BY <1>1, <1>2, <1>5, <1>6, <1>8, <1>9, <1>10 DEF c

(* A call returns.                                                          *)
LEMMA EndSampleMoves ==
  ASSUME RunsOK, PaidOK, NEW r \in Runs, EndSample(r)
  PROVE LET x == run[r] y == run'[r] S == x.samples \cup Recorded(r) IN
        /\ Moves(r, y) /\ x.pc = "call" /\ x.op = NoOp
        /\ y.own = x.own /\ y.targets = x.targets /\ y.mode = x.mode
        /\ y.kept = x.kept /\ y.block = x.block
        /\ \/ /\ "closure" \notin drifted /\ y.pc = "call" /\ y.samples = S
              /\ \E then \in {"next", "verify"} :
                   y.op = savePartial(r, then, "fail") /\ y.op # NoOp
              /\ y.op.kind = "replace"
              /\ y.op.step = (IF x.mode = "resume" THEN "check" ELSE "exchange")
           \/ /\ y.pc = "fail" /\ y.op = NoOp
              /\ \/ y.samples = Restore(r, x.samples)
                 \/ "closure" \notin drifted /\ y.samples = Restore(r, S)
<1> DEFINE x == run[r]
           S == x.samples \cup Recorded(r)
<1>1. /\ x \in RunStates /\ LocalOK(r, x) /\ x.pc = "call" /\ x.op = NoOp
      /\ x.samples \in SUBSET Samples
      /\ x.kept \in SUBSET Samples /\ x.block \in DOMAIN Blocks
  BY RunIs DEF EndSample, Is, RunStates, LocalOK, PhaseOK
<1>2. /\ S \in SUBSET Samples /\ Distinct(S)
      /\ ("closure" \notin drifted => Clean(S))
  BY RecordedOK DEF EndSample
<1> HIDE DEF S
<1>3. ASSUME NEW y, run' = [run EXCEPT ![r] = y] PROVE run'[r] = y
  BY <1>3 DEF RunsOK
<1>t. \A p \in FinalPaths : ~x.targets[p].preexisting
  BY <1>1 DEF LocalOK, TargetsOK, FinalTargetOK
<1>4. ASSUME NEW then \in {"next", "verify"}, NEW y \in RunStates,
             run' = [run EXCEPT ![r] = y], "closure" \notin drifted,
             y.samples = S, y.op = savePartial(r, then, "fail"), y.pc = "call",
             y.own = x.own, y.targets = x.targets,
             y.mode = x.mode, y.kept = x.kept, y.block = x.block
      PROVE  /\ Moves(r, y) /\ y.op # NoOp /\ y.op.kind = "replace"
             /\ y.op.step = (IF x.mode = "resume" THEN "check" ELSE "exchange")
  <2>1. then \in Steps /\ "fail" \in Steps
    BY DEF Steps
  <2>2. /\ y.op # NoOp
        /\ Sequel(y.op, "replace", "partial", x.own, then, "fail")
        /\ y.op.step = (IF x.mode = "resume" THEN "check" ELSE "exchange")
    BY <1>1, <1>4, <2>1, SaveIs
  <2>3. SamplesOK(y)
    BY <1>1, <1>2, <1>4 DEF LocalOK, SamplesOK
  <2>4. PhaseOK(y)
    BY <1>1, <1>4, <2>2 DEF LocalOK, PhaseOK, Ended, Act
  <2>5. OpOK(r, y)
    BY <1>4, <2>2 DEF OpOK, Sequel
  <2>6. TargetsOK(r, y)
    <3>1. \A p \in Outputs : TargetOK(r, y, p)
      <4>1. \A p \in Outputs : ~x.targets[p].preexisting
        BY <1>1, <1>t DEF FinalPaths, LocalOK, TargetsOK, TargetOK
      <4> QED BY <1>1, <1>4, <4>1 DEF TargetOK, LocalOK, TargetsOK
    <3>2. \A p \in FinalPaths : FinalTargetOK(r, y, p)
      BY <1>1, <1>4 DEF FinalTargetOK, LocalOK, TargetsOK, Act, FreshTarget
    <3>3. PartialTargetOK(r, y)
      <4>1. y.op.step # "link" /\ x.op.step # "link"
        BY <1>1, <2>2 DEF NoOp
      <4> QED BY <1>1, <1>4, <4>1 DEF PartialTargetOK, LocalOK, TargetsOK, Act
    <3> QED BY <1>4, <3>1, <3>2, <3>3 DEF TargetsOK
  <2>7. y.op.kind = "replace"
    BY <2>2 DEF Sequel
  <2> QED BY <1>4, <2>2, <2>3, <2>4, <2>5, <2>6, <2>7 DEF Moves, LocalOK
<1>5. ASSUME NEW y \in RunStates, run' = [run EXCEPT ![r] = y],
             NEW T \in {x.samples, S},
             T = S => "closure" \notin drifted \/ S = x.samples,
             y.samples = Restore(r, T), y.op = NoOp, y.pc = "fail",
             y.own = x.own, y.targets = x.targets,
             y.mode = x.mode, y.kept = x.kept, y.block = x.block
      PROVE  Moves(r, y)
  <2>1. SamplesOK(y)
    BY <1>1, <1>2, <1>5 DEF LocalOK, SamplesOK, Restore
  <2>2. PhaseOK(y)
    BY <1>1, <1>5 DEF LocalOK, PhaseOK, Ended, Act
  <2>3. OpOK(r, y) /\ y.op.step # "link"
    BY <1>5 DEF OpOK, NoOp
  <2>4. TargetsOK(r, y)
    BY <1>1, <1>5, <2>3, PhaseKeepsTargets
  <2> QED BY <1>5, <2>1, <2>2, <2>3, <2>4 DEF Moves, LocalOK
<1>6. CASE /\ "closure" \notin drifted
           /\ \/ run' = [run EXCEPT
                              ![r].samples = S, ![r].clean = TRUE,
                              ![r].op = savePartial(r, "next", Failure)]
              \/ run' = [run EXCEPT ![r].samples = S, ![r].forced = TRUE,
                   ![r].op = savePartial(r, "verify", Failure)]
  <2> DEFINE a == [x EXCEPT !.samples = S, !.clean = TRUE,
          !.op = savePartial(r, "next", "fail")]
             b == [x EXCEPT !.samples = S, !.forced = TRUE,
                 !.op = savePartial(r, "verify", "fail")]
  <2>1. run' = [run EXCEPT ![r] = a] \/ run' = [run EXCEPT ![r] = b]
    BY <1>6 DEF RunsOK, Failure
  <2>2. /\ savePartial(r, "next", "fail") \in Operations
        /\ savePartial(r, "verify", "fail") \in Operations
    BY SMTT(60), <1>1, SaveIs DEF Steps
  <2>3. /\ a \in RunStates /\ a.samples = S
        /\ a.op = savePartial(r, "next", "fail") /\ a.pc = "call"
        /\ a.own = x.own
        /\ a.targets = x.targets /\ a.mode = x.mode /\ a.kept = x.kept
        /\ a.block = x.block
    BY <1>1, <1>2, <2>2 DEF RunStates
  <2>4. /\ b \in RunStates /\ b.samples = S
        /\ b.op = savePartial(r, "verify", "fail") /\ b.pc = "call"
        /\ b.own = x.own
        /\ b.targets = x.targets /\ b.mode = x.mode /\ b.kept = x.kept
        /\ b.block = x.block
    BY <1>1, <1>2, <2>2 DEF RunStates
  <2> HIDE DEF a, b
  <2>5. CASE run' = [run EXCEPT ![r] = a]
    <3>1. run'[r] = a
      BY <1>3, <2>5
    <3>2. /\ Moves(r, a) /\ a.op # NoOp /\ a.op.kind = "replace"
          /\ a.op.step = (IF x.mode = "resume" THEN "check" ELSE "exchange")
      BY <1>4, <1>6, <2>3, <2>5
    <3> QED BY <1>1, <1>6, <2>3, <3>1, <3>2 DEF S
  <2>6. CASE run' = [run EXCEPT ![r] = b]
    <3>1. run'[r] = b
      BY <1>3, <2>6
    <3>2. /\ Moves(r, b) /\ b.op # NoOp /\ b.op.kind = "replace"
          /\ b.op.step = (IF x.mode = "resume" THEN "check" ELSE "exchange")
      BY <1>4, <1>6, <2>4, <2>6
    <3> QED BY <1>1, <1>6, <2>4, <3>1, <3>2 DEF S
  <2> QED BY <2>1, <2>5, <2>6
<1>7. CASE \E kept \in IF "closure" \in drifted THEN {x.samples}
        ELSE {x.samples, S} :
              run' = [run EXCEPT ![r].pc = Failure, ![r].clean = TRUE,
                ![r].samples = Restore(r, kept)]
  <2>1. PICK T \in (IF "closure" \in drifted THEN {x.samples}
          ELSE {x.samples, S}) :
              run' = [run EXCEPT ![r].pc = Failure, ![r].clean = TRUE,
                ![r].samples = Restore(r, T)]
    BY <1>7
  <2> DEFINE a == [x EXCEPT !.pc = "fail", !.clean = TRUE,
          !.samples = Restore(r, T)]
  <2>2. run' = [run EXCEPT ![r] = a]
    BY <2>1 DEF RunsOK, Failure
  <2>3. /\ T \in {x.samples, S}
        /\ (T = S => "closure" \notin drifted \/ S = x.samples)
    BY <2>1
  <2>4. Restore(r, T) \in SUBSET Samples /\ "fail" \in Steps
    BY <1>1, <1>2, <2>3 DEF Restore, Steps
  <2>5. /\ a \in RunStates /\ a.samples = Restore(r, T) /\ a.op = NoOp
        /\ a.pc = "fail" /\ a.own = x.own
        /\ a.targets = x.targets /\ a.mode = x.mode /\ a.kept = x.kept
        /\ a.block = x.block
    BY <1>1, <2>4 DEF RunStates
  <2> HIDE DEF a
  <2>6. run'[r] = a
    BY <1>3, <2>2
  <2>7. Moves(r, a)
    BY <1>5, <2>2, <2>3, <2>5
  <2>8. a.samples = Restore(r, x.samples)
          \/ ("closure" \notin drifted /\ a.samples = Restore(r, S))
    BY <2>1, <2>5
  <2> QED BY <1>1, <2>5, <2>6, <2>7, <2>8 DEF S
<1>8. \/ /\ "closure" \notin drifted
         /\ \/ run' = [run EXCEPT
                              ![r].samples = S, ![r].clean = TRUE,
                              ![r].op = savePartial(r, "next", Failure)]
            \/ run' = [run EXCEPT ![r].samples = S, ![r].forced = TRUE,
                 ![r].op = savePartial(r, "verify", Failure)]
      \/ \E kept \in IF "closure" \in drifted THEN {x.samples}
           ELSE {x.samples, S} :
              run' = [run EXCEPT ![r].pc = Failure, ![r].clean = TRUE,
                ![r].samples = Restore(r, kept)]
  BY DEF EndSample, rejectABSamplesAfterClosureDrift, S
<1> QED BY <1>6, <1>7, <1>8

(* The first of some paths is one of them.                                  *)
LEMMA FirstOfIs ==
  ASSUME NEW S \in SUBSET Outputs, S # {}
  PROVE  FirstOf(S) \in S
<1> DEFINE order == <<"partial">> \o Finals
           Here(i) == order[i] \in S /\ \A j \in 1..(i - 1) : order[j] \notin S
<1>1. /\ DOMAIN order = 1..4 /\ order[1] = "partial" /\ order[2] = "control"
      /\ order[3] = "candidate"
      /\ order[4] = "comparison"
  <2>1. order \in Seq(Outputs)
    <3>1. <<"partial">> \in Seq(Outputs) /\ Finals \in Seq(Outputs)
      BY DEF Finals, Outputs
    <3> QED BY <3>1, ConcatProperties
  <2>2. Len(order) = 4
    BY PathsAre
  <2> QED BY <2>1, <2>2, PathsAre, LenProperties
<1> HIDE DEF order
<1>2. \E i \in 1..4 : Here(i)
  <2>1. \E i \in {1, 2, 3, 4} : order[i] \in S
    BY <1>1 DEF Outputs
  <2>2. /\ 1..0 = {} /\ 1..1 = {1} /\ 1..2 = {1, 2} /\ 1..3 = {1, 2, 3}
        /\ 1 - 1 = 0 /\ 2 - 1 = 1 /\ 3 - 1 = 2 /\ 4 - 1 = 3
        /\ 1..4 = {1, 2, 3, 4}
    OBVIOUS
  <2>3. CASE order[1] \in S
    BY <2>2, <2>3
  <2>4. CASE order[1] \notin S /\ order[2] \in S
    BY <2>2, <2>4
  <2>5. CASE order[1] \notin S /\ order[2] \notin S /\ order[3] \in S
    BY <2>2, <2>5
  <2>6. CASE order[1] \notin S /\ order[2] \notin S /\ order[3] \notin S
    BY <2>1, <2>2, <2>6
  <2> QED BY <2>3, <2>4, <2>5, <2>6
<1>3. Here(CHOOSE i \in 1..4 : Here(i))
  <2> HIDE DEF Here
  <2> QED BY <1>2
<1>4. FirstOf(S) = order[CHOOSE i \in 1..4 : Here(i)]
  BY <1>1 DEF FirstOf, order
<1> QED BY <1>3, <1>4

(* A final is published or reused.                                          *)
LEMMA PublishMoves ==
  ASSUME RunsOK, NEW r \in Runs, PublishOrReuse(r)
  PROVE LET x == run[r] y == run'[r] i == x.todo
            path == Finals[i] t == x.targets[path] IN
        /\ Moves(r, y) /\ x.pc = "publish" /\ x.op = NoOp /\ i \in 1..3
        /\ path \in FinalPaths
        /\ y.own = x.own /\ y.targets = x.targets /\ y.mode = x.mode
        /\ y.samples = x.samples
        /\ y.todo = i + 1
        /\ FreshTarget(t) /\ t.info # None
        /\ \/ /\ ~t.preexisting /\ y.pc = "publish" /\ y.op # NoOp
              /\ y.op.step = "check" /\ y.op.kind = "link"
           \/ /\ t.preexisting /\ y.op = NoOp
              /\ \/ /\ Reuses(r, path)
                    /\ y.pc = (IF i = 3 THEN "retire" ELSE "publish")
                 \/ ~Reuses(r, path) /\ y.pc = "rollback"
<1> DEFINE x == run[r]
           i == x.todo
           path == Finals[i]
           t == x.targets[path]
           next == IF i = 3 THEN "retire" ELSE "publish"
           pc == IF ~t.preexisting THEN x.pc ELSE IF Reuses(r, path) THEN next
               ELSE "rollback"
           op == IF t.preexisting THEN x.op
               ELSE PublishStaged(r, path, next, "rollback")
           y == [x EXCEPT !.todo = i + 1, !.pc = pc, !.op = op]
<1>1. /\ x \in RunStates /\ LocalOK(r, x) /\ x.pc = "publish" /\ x.op = NoOp
      /\ Complete(x.samples)
      /\ x.own.what = "partial" /\ x.mode \in {"fresh", "resume"}
  BY RunIs DEF PublishOrReuse, Is, LocalOK, PhaseOK, Act, Ended
<1>2. i \in 1..3
  BY <1>1 DEF LocalOK, PhaseOK
<1>3. /\ Len(Finals) = 3 /\ path \in FinalPaths /\ path \in Outputs
      /\ path \in Paths /\ Finals[3] = "comparison"
  <2>1. i \in {1, 2, 3}
    BY <1>2
  <2> QED BY <2>1, PathsAre DEF FinalPaths, Outputs, Paths
<1>4. run' = [run EXCEPT ![r] = y]
  BY <1>3 DEF PublishOrReuse, RunsOK
<1>5. FreshTarget(t)
  BY <1>1, <1>2 DEF LocalOK, TargetsOK
<1>6. /\ t.info # None /\ TargetOK(r, x, path) /\ t \in Reservations
      /\ t.info \in Files /\ t.preexisting \in BOOLEAN
  BY <1>1, <1>3, TargetTyped DEF LocalOK, TargetsOK, FinalTargetOK, Act
<1>7. ~t.preexisting => t.info = Placeholder(r)
  BY <1>6 DEF TargetOK
<1> HIDE DEF path
<1> DEFINE link == [kind |-> "link", step |-> "check", path |-> path,
        expected |-> t.info,
                    then |-> next, otherwise |-> "rollback"]
<1>8. /\ link \in Operations /\ link # NoOp
      /\ Sequel(link, "link", path, t.info, next, "rollback")
      /\ link.step = "check"
  BY <1>3, <1>6 DEF Operations, Sequel, NoOp, Steps
<1>9. op = IF t.preexisting THEN NoOp ELSE link
  BY <1>1 DEF PublishStaged
<1>10. pc = (IF ~t.preexisting THEN "publish" ELSE IF Reuses(r, path)
         THEN next ELSE "rollback")
  BY <1>1
<1> HIDE DEF link, op, pc
<1>11. /\ y \in RunStates /\ y.todo = i + 1 /\ y.pc = pc /\ y.op = op
       /\ y.own = x.own /\ y.targets = x.targets
       /\ y.mode = x.mode /\ y.samples = x.samples /\ y.kept = x.kept
       /\ y.block = x.block
  <2>1. pc \in Steps /\ op \in Operations /\ i + 1 \in 0..4
    BY <1>1, <1>2, <1>8, <1>9, <1>10 DEF Steps, RunStates
  <2> QED BY <1>1, <2>1 DEF RunStates
<1> HIDE DEF y
<1>12. SamplesOK(y)
  BY <1>1, <1>11 DEF LocalOK, SamplesOK
<1>13. PhaseOK(y)
  BY <1>1, <1>2, <1>8, <1>9, <1>10, <1>11 DEF LocalOK, PhaseOK, Ended, Act
<1>14. OpOK(r, y)
  <2>1. CASE t.preexisting
    BY <2>1, <1>9, <1>11 DEF OpOK
  <2>2. CASE ~t.preexisting
    <3>1. /\ y.op = link /\ y.pc = "publish" /\ y.todo = i + 1
          /\ y.targets = x.targets
      BY <2>2, <1>9, <1>10, <1>11
    <3>2. /\ y.todo \in 2..4 /\ y.todo - 1 = i
          /\ next = (IF y.todo = 4 THEN "retire" ELSE "publish")
      BY <3>1, <1>2
    <3>3. y.op.path = path /\ y.targets[y.op.path] = t
      BY <3>1, <1>8 DEF Sequel
    <3>4. ~t.consumed /\ t.published = None
      BY <2>2, <1>5 DEF FreshTarget
    <3>5. Sequel(y.op, "link", Finals[y.todo - 1], Placeholder(r),
            IF y.todo = 4 THEN "retire" ELSE "publish", "rollback")
      BY <3>1, <3>2, <1>7, <1>8, <2>2 DEF path
    <3> QED BY <2>2, <3>1, <3>2, <3>3, <3>4, <3>5, <1>8 DEF OpOK
  <2> QED BY <2>1, <2>2
<1>15. TargetsOK(r, y)
  <2>1. \A p \in Outputs : TargetOK(r, y, p)
    BY <1>1, <1>11 DEF LocalOK, TargetsOK, TargetOK
  <2>2. \A p \in FinalPaths : FinalTargetOK(r, y, p)
    <3>1. x.targets["comparison"].published = None
      <4>1. 3 \in i..3
        BY <1>2
      <4> QED BY <1>1, <1>3, <4>1 DEF LocalOK, TargetsOK, FreshTarget
    <3>2. y.pc \in {"publish", "retire", "rollback"}
      BY <1>10, <1>11
    <3> QED BY <1>1, <1>11, <3>1, <3>2
        DEF LocalOK, TargetsOK, FinalTargetOK, Act
  <2>3. PartialTargetOK(r, y)
    <3>1. y.pc \in {"publish", "retire", "rollback"}
      BY <1>10, <1>11
    <3> QED BY <1>1, <1>11, <3>1 DEF LocalOK, TargetsOK, PartialTargetOK, Act
  <2>4. /\ y.pc # "reserve"
        /\ \A j \in y.todo..3 : FreshTarget(y.targets[Finals[j]])
    <3>1. \A j \in y.todo..3 : j \in i..3
      BY <1>2, <1>11
    <3>2. y.pc \in {"publish", "retire", "rollback"}
      BY <1>10, <1>11
    <3> QED BY <1>1, <1>11, <3>1, <3>2 DEF LocalOK, TargetsOK
  <2> QED BY <2>1, <2>2, <2>3, <2>4 DEF TargetsOK
<1>16. run'[r] = y
  BY <1>4 DEF RunsOK
<1>17. Moves(r, y)
  BY <1>4, <1>11, <1>12, <1>13, <1>14, <1>15 DEF Moves, LocalOK
<1>18. \/ ~t.preexisting /\ y.pc = "publish" /\ y.op # NoOp
            /\ y.op.step = "check" /\ y.op.kind = "link"
       \/ /\ t.preexisting /\ y.op = NoOp
          /\ \/ /\ Reuses(r, path)
                    /\ y.pc = (IF i = 3 THEN "retire" ELSE "publish")
             \/ ~Reuses(r, path) /\ y.pc = "rollback"
  BY <1>8, <1>9, <1>10, <1>11 DEF Sequel
<1> QED BY <1>1, <1>2, <1>3, <1>5, <1>6, <1>11, <1>16, <1>17, <1>18 DEF path

(* A published final is taken back.                                         *)
LEMMA RollbackMoves ==
  ASSUME RunsOK, NEW r \in Runs, RollbackPublished(r)
  PROVE LET x == run[r] y == run'[r] IN
        /\ Moves(r, y) /\ x.pc = "rollback" /\ x.op = NoOp
        /\ Complete(x.samples)
        /\ y.own = x.own /\ y.mode = x.mode /\ y.samples = x.samples
        /\ \/ /\ y.pc = "fail" /\ y.op = NoOp /\ y.targets = x.targets
              /\ \A p \in FinalPaths : x.targets[p].published = None
           \/ /\ y.pc = "rollback" /\ y.op.path \in {"control", "candidate"}
              /\ y.op.kind = "remove" /\ y.op.step = "check"
              /\ y.op.expected = FinalOf(r, x.samples, y.op.path) /\ y.op # NoOp
              /\ x.targets[y.op.path].published = y.op.expected
              /\ y.targets[y.op.path].published = None
              /\ y.targets[y.op.path].consumed
              /\ ~y.targets[y.op.path].preexisting
              /\ \A q \in Outputs :
                    /\ q # y.op.path => y.targets[q] = x.targets[q]
                                    /\ y.targets[q].info = x.targets[q].info
                                    /\ y.targets[q].consumed
                                         = x.targets[q].consumed
                                    /\ y.targets[q].preexisting
                                         = x.targets[q].preexisting
<1> DEFINE x == run[r]
           S == OwnedFinals(r)
           path == FirstOf(S)
           o == removeOwnedABFile(path, x.targets[path].published, "rollback",
               "rollback")
           u == [x.targets[path] EXCEPT !.published = None]
           w == [x EXCEPT !.op = o]
           y == WithTarget(w, path, u)
           z == LeftOf(x, "fail")
<1>1. /\ x \in RunStates /\ LocalOK(r, x) /\ x.pc = "rollback" /\ x.op = NoOp
      /\ Complete(x.samples)
      /\ x.own.what = "partial" /\ x.mode \in {"fresh", "resume"}
  BY RunIs DEF RollbackPublished, Is, LocalOK, PhaseOK, Act, Ended
<1>2. ASSUME NEW v, run' = [run EXCEPT ![r] = v] PROVE run'[r] = v
  BY <1>2 DEF RunsOK
<1>3. CASE S = {}
  <2>1. run' = [run EXCEPT ![r] = z]
    BY <1>3, RunIs DEF RollbackPublished, Failure
  <2>2. /\ z \in RunStates /\ z.pc = "fail" /\ z.op = NoOp /\ z.mode = x.mode
        /\ z.samples = x.samples /\ z.kept = x.kept
        /\ z.block = x.block /\ z.own = x.own /\ z.targets = x.targets
    BY <1>1, LeftFields DEF Steps
  <2> HIDE DEF z
  <2>3. run'[r] = z
    BY <1>2, <2>1
  <2>4. \A p \in FinalPaths : x.targets[p].published = None
    BY <1>3 DEF OwnedFinals, FinalPaths
  <2>5. SamplesOK(z) /\ PhaseOK(z) /\ OpOK(r, z)
    BY <1>1, <2>2 DEF LocalOK, SamplesOK, PhaseOK, OpOK, Ended, Act
  <2>6. \A p \in Outputs : TargetOK(r, z, p)
    BY <1>1, <2>2 DEF LocalOK, TargetsOK, TargetOK
  <2>7. \A p \in FinalPaths : FinalTargetOK(r, z, p)
    BY <1>1, <2>2, <2>4 DEF LocalOK, TargetsOK, FinalTargetOK, Act
  <2>8. PartialTargetOK(r, z)
    <3>1. z.op.step # "link" /\ x.op.step # "link"
      BY <1>1, <2>2 DEF NoOp
    <3> QED BY <1>1, <2>2, <3>1 DEF LocalOK, TargetsOK, PartialTargetOK, Act
  <2>9. TargetsOK(r, z)
    BY <2>2, <2>6, <2>7, <2>8 DEF TargetsOK
  <2> QED BY <1>1, <2>1, <2>2, <2>3, <2>4, <2>5, <2>9 DEF Moves, LocalOK
<1>4. CASE S # {}
  <2>1. run' = [run EXCEPT ![r] = y]
    <3>1. run' = [run EXCEPT ![r].op = o, ![r].targets[path].published = None]
      BY <1>4 DEF RollbackPublished
    <3>2. r \in DOMAIN run
      BY DEF RunsOK
    <3>3. w.targets = x.targets
      OBVIOUS
    <3>4. y = [w EXCEPT !.targets = [x.targets EXCEPT ![path] = u]]
      BY <3>3 DEF WithTarget
    <3> HIDE DEF path, o
    <3> QED BY <3>1, <3>2, <3>4
  <2>2. path \in S
    <3>1. S \in SUBSET Outputs
      BY DEF OwnedFinals
    <3> HIDE DEF S
    <3> QED BY <1>4, <3>1, FirstOfIs
  <2>3. /\ path \in FinalPaths /\ path \in Outputs /\ path \in Paths
        /\ x.targets[path].published # None
    BY <2>2 DEF OwnedFinals, FinalPaths, Paths
  <2> HIDE DEF path
  <2>4. x.targets["comparison"].published = None
    BY <1>1 DEF LocalOK, TargetsOK, FinalTargetOK, FinalPaths, Outputs
  <2>5. path \in {"control", "candidate"}
    BY <2>3, <2>4 DEF FinalPaths, Outputs
  <2>6. /\ x.targets[path].consumed
        /\ x.targets[path].published = FinalOf(r, x.samples, path)
        /\ TargetOK(r, x, path)
    BY <1>1, <2>3 DEF LocalOK, TargetsOK, FinalTargetOK, Act
  <2>7. ~x.targets[path].preexisting
    BY <2>3, <2>6 DEF TargetOK
  <2>8. x.targets[path] \in Reservations /\ x.targets[path].published \in Files
    BY <1>1, <2>3, TargetTyped
  <2>9. None \in Files
    BY NewIsTyped DEF NewRun, RunStates
  <2>10. /\ u \in Reservations /\ u.published = None
         /\ u.info = x.targets[path].info
         /\ u.consumed = x.targets[path].consumed
         /\ u.preexisting = x.targets[path].preexisting
    <3>1. x.targets[path] \in Reservations
      BY <2>8
    <3> QED BY <2>9, <3>1 DEF Reservations
  <2>11. /\ o \in Operations /\ o # NoOp
         /\ Sequel(o, "remove", path, FinalOf(r, x.samples, path), "rollback",
              "rollback")
         /\ o.step = "check"
    BY <2>3, <2>6, <2>8 DEF removeOwnedABFile, Operations, Sequel, NoOp, Steps
  <2> HIDE DEF o, u
  <2>12. /\ w \in RunStates /\ w.op = o
         /\ w.pc = x.pc /\ w.mode = x.mode /\ w.samples = x.samples
         /\ w.kept = x.kept /\ w.block = x.block
         /\ w.own = x.own /\ w.todo = x.todo /\ w.targets = x.targets
    BY <1>1, <2>11, OpFields
  <2> HIDE DEF w
  <2>13. /\ y \in RunStates /\ y.op = o
         /\ y.pc = x.pc /\ y.mode = x.mode /\ y.samples = x.samples
         /\ y.kept = x.kept /\ y.block = x.block
         /\ y.own = x.own /\ y.todo = x.todo
         /\ y.targets[path] = u
         /\ \A q \in Outputs : q # path => y.targets[q] = x.targets[q]
    BY <2>3, <2>10, <2>12, TargetFields
  <2> HIDE DEF y
  <2>14. /\ \A q \in Outputs : /\ q # path => y.targets[q] = x.targets[q]
                               /\ y.targets[q].info = x.targets[q].info
                               /\ y.targets[q].consumed = x.targets[q].consumed
                               /\ y.targets[q].preexisting
                                    = x.targets[q].preexisting
         /\ y.targets[path].published = None
    BY <2>10, <2>13
  <2>15. \A q \in Outputs : y.targets[q].published = None
           \/ y.targets[q].published = x.targets[q].published
    BY <2>14
  <2>16. SamplesOK(y) /\ PhaseOK(y)
    BY <1>1, <2>13 DEF LocalOK, SamplesOK, PhaseOK, Ended, Act
  <2>17. OpOK(r, y)
    <3>1. /\ y.op.path = path /\ y.targets[y.op.path].consumed
          /\ ~y.targets[y.op.path].preexisting
      BY <2>3, <2>6, <2>7, <2>11, <2>13, <2>14 DEF Sequel
    <3> QED BY <1>1, <3>1, <2>5, <2>11, <2>13 DEF OpOK
  <2>18. \A q \in Outputs : TargetOK(r, y, q)
    BY <1>1, <2>13, <2>14, <2>15 DEF LocalOK, TargetsOK, TargetOK
  <2>19. \A q \in FinalPaths : FinalTargetOK(r, y, q)
    <3> SUFFICES ASSUME NEW q \in FinalPaths PROVE FinalTargetOK(r, y, q)
      OBVIOUS
    <3>1. q \in Outputs /\ FinalTargetOK(r, x, q)
      BY <1>1 DEF FinalPaths, LocalOK, TargetsOK
    <3> QED BY <1>1, <2>13, <2>14, <2>15, <3>1 DEF FinalTargetOK
  <2>20. PartialTargetOK(r, y)
    <3>1. "partial" \in Outputs /\ "partial" # path
      BY <2>5 DEF Outputs
    <3>2. /\ x.op.step # "link" /\ y.op.step # "link"
          /\ y.targets["partial"] = x.targets["partial"]
      BY <1>1, <3>1, <2>11, <2>13 DEF NoOp
    <3> QED BY <1>1, <2>13, <3>2 DEF LocalOK, TargetsOK, PartialTargetOK, Act
  <2>21. TargetsOK(r, y)
    BY <1>1, <2>13, <2>18, <2>19, <2>20 DEF TargetsOK
  <2>22. run'[r] = y
    BY <1>2, <2>1
  <2>23. Moves(r, y)
    BY <2>1, <2>13, <2>16, <2>17, <2>21 DEF Moves, LocalOK
  <2>24. /\ y.op.path = path /\ y.op.kind = "remove"
         /\ y.op.expected = FinalOf(r, x.samples, path) /\ y.op.step = "check"
         /\ y.op # NoOp
    BY <2>11, <2>13 DEF Sequel
  <2> QED BY <1>1, <2>3, <2>5, <2>6, <2>7, <2>13, <2>14, <2>22, <2>23, <2>24
<1> QED BY <1>3, <1>4

(* The partial is retired.                                                  *)
LEMMA RetireMoves ==
  ASSUME RunsOK, NEW r \in Runs, RemoveAfterSuccess(r)
  PROVE LET x == run[r] y == run'[r] IN
        /\ Moves(r, y) /\ x.pc = "retire" /\ x.op = NoOp /\ y.op # NoOp
        /\ y.op.kind = "remove" /\ y.op.step = "check" /\ y.op.path = "partial"
        /\ y.op.expected = x.own
        /\ y.pc = x.pc /\ y.own = x.own /\ y.mode = x.mode
        /\ y.samples = x.samples /\ y.targets = x.targets
<1> DEFINE x == run[r]
           o == removeOwnedABFile("partial", x.own, "close", "close")
           y == [x EXCEPT !.op = o]
<1>1. /\ x \in RunStates /\ LocalOK(r, x) /\ x.pc = "retire" /\ x.op = NoOp
      /\ x.own \in Files /\ "partial" \in Paths
  BY RunIs DEF RemoveAfterSuccess, Is, RunStates, Paths, Outputs
<1>2. run' = [run EXCEPT ![r] = y]
  BY DEF RemoveAfterSuccess, RunsOK
<1>3. /\ o \in Operations /\ o # NoOp
      /\ Sequel(o, "remove", "partial", x.own, "close", "close")
      /\ o.step = "check"
  BY <1>1 DEF removeOwnedABFile, Operations, Sequel, NoOp, Steps
<1> HIDE DEF o
<1>4. /\ y \in RunStates /\ y.op = o
      /\ y.pc = x.pc /\ y.mode = x.mode /\ y.samples = x.samples
      /\ y.kept = x.kept /\ y.block = x.block
      /\ y.own = x.own /\ y.todo = x.todo /\ y.targets = x.targets
  BY <1>1, <1>3, OpFields
<1> HIDE DEF y
<1>5. SamplesOK(y) /\ PhaseOK(y) /\ OpOK(r, y)
  BY <1>1, <1>3, <1>4 DEF LocalOK, SamplesOK, PhaseOK, OpOK, Sequel, Ended
<1>6. TargetsOK(r, y)
  <2>1. y.op.step # "link" /\ x.op.step # "link"
    BY <1>1, <1>3, <1>4 DEF NoOp
  <2> QED BY <1>1, <1>4, <2>1
      DEF LocalOK, TargetsOK, TargetOK, FinalTargetOK, PartialTargetOK
<1>7. run'[r] = y
  BY <1>2 DEF RunsOK
<1> QED BY <1>1, <1>2, <1>3, <1>4, <1>5, <1>6, <1>7 DEF Moves, LocalOK, Sequel

(* An unused placeholder is given up.                                       *)
LEMMA CloseMoves ==
  ASSUME RunsOK, NEW r \in Runs, CloseReservations(r)
  PROVE LET x == run[r] y == run'[r] IN
        /\ Moves(r, y) /\ x.pc = "close" /\ x.op = NoOp /\ x.samples = {}
        /\ y.samples = {} /\ y.mode = x.mode
        /\ y.own = x.own
        /\ \/ /\ y.pc = "unlock" /\ y.op = NoOp /\ y.targets = x.targets
           \/ /\ y.pc = "close" /\ y.op.path \in Outputs
              /\ y.op.kind = "remove" /\ y.op.step = "check"
              /\ y.op.expected = Placeholder(r) /\ y.op # NoOp
              /\ x.targets[y.op.path].info = Placeholder(r)
              /\ ~x.targets[y.op.path].consumed
              /\ y.targets[y.op.path].consumed
              /\ ~y.targets[y.op.path].preexisting
              /\ \A q \in Outputs :
                    /\ q # y.op.path => y.targets[q] = x.targets[q]
                                    /\ y.targets[q].info = x.targets[q].info
                                    /\ y.targets[q].published
                                         = x.targets[q].published
                                    /\ y.targets[q].preexisting
                                         = x.targets[q].preexisting
<1> DEFINE x == run[r]
           S == Unused(r)
           path == FirstOf(S)
           o == removeOwnedABFile(path, x.targets[path].info, "close", "close")
           u == [x.targets[path] EXCEPT !.consumed = TRUE]
           w == [x EXCEPT !.op = o]
           y == WithTarget(w, path, u)
           z == LeftOf(x, "unlock")
<1>1. /\ x \in RunStates /\ LocalOK(r, x) /\ x.pc = "close" /\ x.op = NoOp
      /\ x.samples = {}
  BY RunIs DEF CloseReservations, Is, LocalOK, PhaseOK
<1>2. ASSUME NEW v, run' = [run EXCEPT ![r] = v] PROVE run'[r] = v
  BY <1>2 DEF RunsOK
<1>3. CASE S = {}
  <2>1. run' = [run EXCEPT ![r] = z]
    BY <1>3, RunIs DEF CloseReservations
  <2>2. /\ z \in RunStates /\ z.pc = "unlock" /\ z.op = NoOp /\ z.mode = x.mode
        /\ z.samples = x.samples /\ z.kept = x.kept
        /\ z.block = x.block /\ z.own = x.own /\ z.targets = x.targets
    BY <1>1, LeftFields DEF Steps
  <2>3. LocalOK(r, z)
    BY <1>1, EndsWell
  <2> HIDE DEF z
  <2>4. run'[r] = z
    BY <1>2, <2>1
  <2> QED BY <1>1, <2>1, <2>2, <2>3, <2>4 DEF Moves
<1>4. CASE S # {}
  <2>1. run' = [run EXCEPT ![r] = y]
    <3>1. run' = [run EXCEPT ![r].op = o, ![r].targets[path].consumed = TRUE]
      BY <1>4 DEF CloseReservations
    <3>2. r \in DOMAIN run
      BY DEF RunsOK
    <3>3. w.targets = x.targets
      OBVIOUS
    <3>4. y = [w EXCEPT !.targets = [x.targets EXCEPT ![path] = u]]
      BY <3>3 DEF WithTarget
    <3> HIDE DEF path, o
    <3> QED BY <3>1, <3>2, <3>4
  <2>2. path \in S
    <3>1. S \in SUBSET Outputs
      BY DEF Unused
    <3> HIDE DEF S
    <3> QED BY <1>4, <3>1, FirstOfIs
  <2>3. /\ path \in Outputs /\ path \in Paths /\ x.targets[path].info # None
        /\ ~x.targets[path].consumed
    BY <2>2 DEF Unused, Paths
  <2> HIDE DEF path
  <2>4. TargetOK(r, x, path)
    BY <1>1, <2>3 DEF LocalOK, TargetsOK
  <2>5. ~x.targets[path].preexisting /\ x.targets[path].info = Placeholder(r)
    BY <2>3, <2>4 DEF TargetOK
  <2>8. x.targets[path] \in Reservations /\ x.targets[path].info \in Files
    BY <1>1, <2>3, TargetTyped
  <2>10. /\ u \in Reservations /\ u.published = x.targets[path].published
         /\ u.info = x.targets[path].info /\ u.consumed = TRUE
         /\ u.preexisting = x.targets[path].preexisting
    BY <1>1, <2>3, TargetTyped
  <2>11. /\ o \in Operations /\ o # NoOp
         /\ Sequel(o, "remove", path, Placeholder(r), "close", "close")
         /\ o.step = "check"
    BY <2>3, <2>5, <2>8 DEF removeOwnedABFile, Operations, Sequel, NoOp, Steps
  <2> HIDE DEF o, u
  <2>12. /\ w \in RunStates /\ w.op = o
         /\ w.pc = x.pc /\ w.mode = x.mode /\ w.samples = x.samples
         /\ w.kept = x.kept /\ w.block = x.block
         /\ w.own = x.own /\ w.todo = x.todo /\ w.targets = x.targets
    BY <1>1, <2>11, OpFields
  <2> HIDE DEF w
  <2>13. /\ y \in RunStates /\ y.op = o
         /\ y.pc = x.pc /\ y.mode = x.mode /\ y.samples = x.samples
         /\ y.kept = x.kept /\ y.block = x.block
         /\ y.own = x.own /\ y.todo = x.todo
         /\ y.targets[path] = u
         /\ \A q \in Outputs : q # path => y.targets[q] = x.targets[q]
    BY <2>3, <2>10, <2>12, TargetFields
  <2> HIDE DEF y
  <2>14. /\ \A q \in Outputs : /\ q # path => y.targets[q] = x.targets[q]
                               /\ y.targets[q].info = x.targets[q].info
                               /\ y.targets[q].published
                                    = x.targets[q].published
                               /\ y.targets[q].preexisting
                                    = x.targets[q].preexisting
         /\ y.targets[path].consumed = TRUE
    BY <2>10, <2>13
  <2>16. SamplesOK(y) /\ PhaseOK(y)
    BY <1>1, <2>13 DEF LocalOK, SamplesOK, PhaseOK, Ended, Act
  <2>17. OpOK(r, y)
    <3>1. /\ y.op.path = path /\ y.targets[y.op.path].consumed
          /\ ~y.targets[y.op.path].preexisting
      BY <2>3, <2>5, <2>11, <2>13, <2>14 DEF Sequel
    <3> QED BY <1>1, <3>1, <2>3, <2>11, <2>13 DEF OpOK
  <2>18. \A q \in Outputs : TargetOK(r, y, q)
    <3>1. TargetOK(r, y, path)
      BY <2>3, <2>5, <2>14 DEF TargetOK
    <3>2. ASSUME NEW q \in Outputs, q # path PROVE TargetOK(r, y, q)
      BY <1>1, <3>2, <2>13 DEF LocalOK, TargetsOK, TargetOK
    <3> QED BY <3>1, <3>2
  <2>19. \A q \in FinalPaths : FinalTargetOK(r, y, q)
    BY <1>1, <2>13 DEF FinalTargetOK, Act
  <2>20. PartialTargetOK(r, y)
    <3>1. "partial" \in Outputs
      BY DEF Outputs
    <3>2. y.targets["partial"].info = x.targets["partial"].info
      BY <3>1, <2>14
    <3> QED BY <1>1, <2>13, <3>2 DEF LocalOK, TargetsOK, PartialTargetOK, Act
  <2>21. TargetsOK(r, y)
    BY <1>1, <2>13, <2>18, <2>19, <2>20 DEF TargetsOK
  <2>22. run'[r] = y
    BY <1>2, <2>1
  <2>23. Moves(r, y)
    BY <2>1, <2>13, <2>16, <2>17, <2>21 DEF Moves, LocalOK
  <2>24. /\ y.op.path = path /\ y.op.kind = "remove"
         /\ y.op.expected = Placeholder(r) /\ y.op.step = "check" /\ y.op # NoOp
    BY <2>11, <2>13 DEF Sequel
  <2> QED BY <1>1, <2>3, <2>5, <2>13, <2>14, <2>22, <2>23, <2>24
<1> QED BY <1>3, <1>4

(* The lock is given back.                                                  *)
LEMMA UnlockMoves ==
  ASSUME RunsOK, NEW r \in Runs, CloseResume(r)
  PROVE LET x == run[r] y == run'[r] IN
        /\ Moves(r, y) /\ x.pc = "unlock" /\ x.op = NoOp /\ x.samples = {}
        /\ \/ y = LeftOf(x, "done")
           \/ /\ y.pc = "unlock" /\ y.op # NoOp /\ y.op.kind = "remove"
              /\ y.op.step = "check" /\ y.op.path = "lock"
              /\ y.op.expected = File(r, "lock", {}) /\ y.mode = "resume"
              /\ y.own = x.own /\ y.mode = x.mode /\ y.samples = x.samples
              /\ y.targets = x.targets
<1> DEFINE x == run[r]
           o == removeOwnedABFile("lock", File(r, "lock", {}), "done", "done")
           y == [x EXCEPT !.op = o]
<1>1. /\ x \in RunStates /\ LocalOK(r, x) /\ x.pc = "unlock" /\ x.op = NoOp
      /\ "lock" \in Paths /\ x.samples = {}
  BY RunIs DEF CloseResume, Is, Paths, LocalOK, PhaseOK
<1>2. ASSUME NEW v, run' = [run EXCEPT ![r] = v] PROVE run'[r] = v
  BY <1>2 DEF RunsOK
<1>3. CASE x.mode # "resume"
  <2>1. run' = [run EXCEPT ![r] = LeftOf(x, "done")]
    BY <1>3, RunIs DEF CloseResume
  <2>2. LocalOK(r, LeftOf(x, "done")) /\ LeftOf(x, "done") \in RunStates
    BY <1>1, EndsWell, LeftFields DEF Steps
  <2>3. run'[r] = LeftOf(x, "done")
    BY <1>2, <2>1
  <2> QED BY <1>1, <2>1, <2>2, <2>3 DEF Moves
<1>4. CASE x.mode = "resume"
  <2>1. run' = [run EXCEPT ![r] = y]
    BY <1>4 DEF CloseResume, RunsOK
  <2>2. File(r, "lock", {}) \in Files
    <3>1. {} \in SUBSET Samples
      OBVIOUS
    <3> QED BY <3>1, FileTyped
  <2>3. /\ o \in Operations /\ o # NoOp
        /\ Sequel(o, "remove", "lock", File(r, "lock", {}), "done", "done")
        /\ o.step = "check"
    BY <1>1, <2>2 DEF removeOwnedABFile, Operations, Sequel, NoOp, Steps
  <2> HIDE DEF o
  <2>4. /\ y \in RunStates /\ y.op = o
        /\ y.pc = x.pc /\ y.mode = x.mode /\ y.samples = x.samples
        /\ y.kept = x.kept /\ y.block = x.block
        /\ y.own = x.own /\ y.todo = x.todo /\ y.targets = x.targets
    BY <1>1, <2>3, OpFields
  <2> HIDE DEF y
  <2>5. SamplesOK(y) /\ PhaseOK(y) /\ OpOK(r, y)
    BY <1>1, <1>4, <2>3, <2>4
    DEF LocalOK, SamplesOK, PhaseOK, OpOK, Sequel, Ended
  <2>6. TargetsOK(r, y)
    <3>1. y.op.step # "link" /\ x.op.step # "link"
      BY <1>1, <2>3, <2>4 DEF NoOp
    <3> QED BY <1>1, <2>4, <3>1
        DEF LocalOK, TargetsOK, TargetOK, FinalTargetOK, PartialTargetOK
  <2>7. run'[r] = y
    BY <1>2, <2>1
  <2> QED BY <1>1, <1>4, <2>1, <2>3, <2>4, <2>5, <2>6, <2>7
      DEF Moves, LocalOK, Sequel
<1> QED BY <1>3, <1>4

(* A run dies.                                                              *)
LEMMA CrashMoves ==
  ASSUME RunsOK, NEW r \in Runs, Crash(r)
  PROVE LET y == run'[r] IN
        /\ Moves(r, y) /\ y.pc = "dead" /\ y.op = NoOp /\ y.samples = {}
        /\ y.own = None
        /\ y.targets = [o \in Outputs |-> Unreserved]
<1> DEFINE y == [NewRun EXCEPT !.pc = "dead"]
<1>1. /\ y \in RunStates /\ y.pc = "dead" /\ y.op = NoOp /\ y.samples = {}
      /\ y.kept = {} /\ y.own = None /\ y.todo = 0
      /\ y.targets = [o \in Outputs |-> Unreserved]
  <2>1. NewRun \in RunStates /\ "dead" \in Steps
    BY NewIsTyped DEF Steps
  <2>2. y \in RunStates
    BY <2>1 DEF RunStates
  <2> QED BY <2>2 DEF NewRun
<1>2. run' = [run EXCEPT ![r] = y]
  BY DEF Crash
<1> HIDE DEF y
<1>3. SamplesOK(y) /\ PhaseOK(y) /\ OpOK(r, y)
  BY <1>1 DEF SamplesOK, PhaseOK, OpOK, Distinct, Clean, IsBlank, Ended, Act
<1>4. TargetsOK(r, y)
  BY <1>1
  DEF TargetsOK, TargetOK, FinalTargetOK, PartialTargetOK, Unreserved,
      FinalPaths, Outputs, Act
<1>5. run'[r] = y
  BY <1>2 DEF RunsOK
<1> QED BY <1>1, <1>2, <1>3, <1>4, <1>5 DEF Moves, LocalOK

(* A drifted input only taints the calls that are running.                  *)
SameButClean(x, y) ==
  /\ y.pc = x.pc /\ y.mode = x.mode /\ y.samples = x.samples /\ y.kept = x.kept
  /\ y.block = x.block
  /\ y.forced = x.forced /\ y.own = x.own /\ y.todo = x.todo
  /\ y.targets = x.targets /\ y.op = x.op

(* Every run is consistent after a drift.                                   *)
LEMMA DriftMoves ==
  ASSUME RunsOK, NEW input \in {"bundle", "closure"}, Drift(input)
  PROVE /\ RunsOK'
        /\ \A r \in Runs : /\ SameButClean(run[r], run'[r])
                           /\ run'[r].clean = run[r].clean
                                \/ (input = "closure" /\ run'[r].clean = FALSE)
<1>1. ASSUME NEW r \in Runs
      PROVE  /\ run'[r] \in RunStates /\ SameButClean(run[r], run'[r])
             /\ LocalOK(r, run'[r])
             /\ run'[r].clean = run[r].clean
                  \/ (input = "closure" /\ run'[r].clean = FALSE)
  <2> DEFINE x == run[r]
             y == run'[r]
  <2>1. x \in RunStates /\ LocalOK(r, x)
    BY RunIs
  <2>2. y = x \/ (input = "closure" /\ y = [x EXCEPT !.clean = FALSE])
    BY DEF Drift
  <2>3. /\ y \in RunStates /\ SameButClean(x, y)
        /\ (y.clean = x.clean \/ (input = "closure" /\ y.clean = FALSE))
    BY <2>1, <2>2 DEF RunStates, SameButClean
  <2> HIDE DEF x, y
  <2>4. /\ y.pc = x.pc /\ y.mode = x.mode /\ y.samples = x.samples
        /\ y.kept = x.kept /\ y.block = x.block
        /\ y.own = x.own /\ y.todo = x.todo /\ y.targets = x.targets
        /\ y.op = x.op
    BY <2>3 DEF SameButClean
  <2>5. SamplesOK(y) /\ PhaseOK(y) /\ OpOK(r, y)
    BY <2>1, <2>4 DEF LocalOK, SamplesOK, PhaseOK, OpOK, IsBlank
  <2>6. TargetsOK(r, y)
    BY <2>1, <2>4
    DEF LocalOK, TargetsOK, TargetOK, FinalTargetOK, PartialTargetOK, PathAt
  <2> QED BY <2>3, <2>5, <2>6 DEF LocalOK, x, y
<1>2. run' \in [Runs -> RunStates]
  <2>1. run' = [r \in Runs |-> run'[r]]
    BY DEF Drift
  <2> QED BY <1>1, <2>1
<1> QED BY <1>1, <1>2 DEF RunsOK

(* A step of a run that calls nothing: no coordinate becomes one that the   *)
(* run may still call, and no call is running after it.                     *)
Tame(x, y) ==
  /\ \A c \in Coordinates : MayCall(y, c) => MayCall(x, c)
  /\ ~(y.pc = "call" /\ y.op = NoOp)

(* A run that leaves for good calls nothing.                                *)
LEMMA LeavingIsTame ==
  ASSUME NEW x \in RunStates,
         NEW pc \in {"close", "done", "fail", "rollback", "unlock"}
  PROVE  Tame(x, LeftOf(x, pc))
<1>1. LeftOf(x, pc).pc = pc
  BY LeftFields DEF Steps
<1> QED BY <1>1 DEF Tame, MayCall

(* A run in the middle of an operation calls nothing.                       *)
LEMMA SteppingIsTame ==
  ASSUME NEW x \in RunStates, NEW step \in OpSteps \ {"none"}, x.op # NoOp
  PROVE  Tame(x, StepTo(x, step))
<1>1. /\ StepTo(x, step).op.step = step /\ StepTo(x, step).pc = x.pc
      /\ StepTo(x, step).samples = x.samples
  BY StepFields
<1>2. StepTo(x, step).op # NoOp
  BY <1>1 DEF NoOp
<1> QED BY <1>1, <1>2 DEF Tame, MayCall

(* No step of an operation calls the model.                                 *)
LEMMA FileStepsAreTame ==
  ASSUME RunsOK, NEW r \in Runs, FileStep(r)
  PROVE  \E y : Moves(r, y) /\ Tame(run[r], y)
<1> DEFINE x == run[r]
           op == x.op
<1>1. x \in RunStates /\ LocalOK(r, x)
  BY RunIs
<1>2. op # NoOp => op.otherwise \in {"close", "fail", "rollback", "done"}
  BY <1>1, OtherwiseOK
<1>3. op # NoOp => Tame(x, LeftOf(x, op.otherwise))
  BY <1>1, <1>2, LeavingIsTame
<1>4. op # NoOp => \A step \in OpSteps \ {"none"} : Tame(x, StepTo(x, step))
  BY <1>1, SteppingIsTame
<1>s. {"exchange", "rename", "settle", "confirm", "back",
        "link"} \subseteq OpSteps \ {"none"}
  BY DEF OpSteps
<1>5. CASE Check(r)
  BY <1>3, <1>4, <1>5, <1>s, CheckMoves
<1>6. CASE Rename(r)
  BY <1>3, <1>4, <1>6, <1>s, RenameMoves
<1>7. CASE Settle(r)
  <2> DEFINE own == sameOwnedABFile(op.expected, files[Quarantine(r)])
  <2>1. /\ op # NoOp
        /\ Moves(r, IF own /\ op.kind = "link" THEN Retiring(x)
             ELSE LeftOf(x, op.otherwise))
    <3> DEFINE y == IF own /\ op.kind = "link" THEN Retiring(x)
            ELSE LeftOf(x, op.otherwise)
    <3>1. Moves(r, y) /\ op # NoOp
      BY <1>7, SettleMoves
    <3> QED BY <3>1
  <2>2. CASE own /\ op.kind = "link"
    <3>1. op.step = "settle"
      BY <1>7 DEF Settle
    <3>2. /\ Retiring(x).pc = x.pc /\ Retiring(x).samples = x.samples
          /\ Retiring(x).op.step = "link"
      BY <1>1, <2>2, <3>1, RetiringOK
    <3>3. Retiring(x).op # NoOp
      BY <3>2 DEF NoOp
    <3>4. Tame(x, Retiring(x))
      BY <2>1, <3>2, <3>3 DEF Tame, MayCall
    <3> QED BY <2>1, <2>2, <3>4
  <2> QED BY <1>3, <2>1, <2>2
<1>8. CASE Link(r)
  <2>1. /\ op # NoOp
        /\ Moves(r, IF At(op.path) = None THEN Linked(r, x)
             ELSE LeftOf(x, op.otherwise))
    BY <1>8, LinkMoves
  <2>2. op.step = "link"
    BY <1>8 DEF Link
  <2>3. /\ Linked(r, x).pc \in {"block", "publish", "retire"}
        /\ Linked(r, x).samples = x.samples
        /\ Linked(r, x).pc = "block" => x.pc = "first"
    BY <1>1, <2>2, LinkedOK
  <2>4. Tame(x, Linked(r, x))
    BY <2>3 DEF Tame, MayCall
  <2> QED BY <1>3, <2>1, <2>4
<1>9. CASE Exchange(r)
  BY <1>3, <1>4, <1>9, <1>s, ExchangeMoves
<1>10. CASE Confirm(r)
  <2> DEFINE owned == files[Stage(r)] = op.expected
          /\ At("partial") = StagedOf(r, x, "partial")
  <2>1. /\ op # NoOp /\ op.kind = "replace"
        /\ Moves(r, IF owned THEN Confirmed(r, x) ELSE StepTo(x, "back"))
    BY <1>10, ConfirmMoves
  <2>2. LET y == Confirmed(r, x) IN
        /\ y.pc \in {"block", "next", "verify", "close"}
        /\ x.pc \in {"first", "call", "fail"}
        /\ x.pc = "fail" => y.pc = "close"
        /\ y.pc # "close" => y.samples = x.samples
    BY <1>1, <2>1, ConfirmedOK
  <2>3. Tame(x, Confirmed(r, x))
    BY <2>1, <2>2 DEF Tame, MayCall
  <2> QED BY <1>4, <1>s, <2>1, <2>3
<1>11. CASE ExchangeBack(r)
  BY <1>3, <1>11, BackMoves
<1> QED BY <1>5, <1>6, <1>7, <1>8, <1>9, <1>10, <1>11 DEF FileStep

(* No step of the command but one calls the model.                          *)
LEMMA CommandsAreTame ==
  ASSUME RunsOK, FilesOK, PaidOK, NEW r \in Runs,
         \/ \E mode \in {"fresh", "resume"} : Begin(r, mode)
         \/ commandAB(r) /\ ~BeginSample(r)
         \/ Crash(r)
  PROVE  \E y : Moves(r, y) /\ Tame(run[r], y)
<1> DEFINE x == run[r]
<1>1. x \in RunStates /\ LocalOK(r, x)
  BY RunIs
<1>2. ASSUME NEW pc \in {"close", "done", "fail", "rollback", "unlock"}
      PROVE  Tame(x, LeftOf(x, pc))
  BY <1>1, LeavingIsTame
<1>3. CASE \E mode \in {"fresh", "resume"} : Begin(r, mode)
  <2>1. PICK mode \in {"fresh", "resume"} : Begin(r, mode)
    BY <1>3
  <2>2. /\ Moves(r, run'[r]) /\ x.pc = "idle" /\ run'[r].samples = x.samples
        /\ run'[r].pc \in {"lock", "reserve"}
    BY <2>1, BeginMoves
  <2>3. Tame(x, run'[r])
    BY <2>2 DEF Tame, MayCall
  <2> QED BY <2>2, <2>3
<1>4. CASE acquireABResumeLock(r)
  <2>1. /\ Moves(r, LeftOf(x, IF At("lock") = None THEN "load" ELSE "done"))
        /\ x.pc = "lock"
    BY <1>4, LockMoves
  <2>2. Tame(x, LeftOf(x, "load"))
    <3>1. LeftOf(x, "load").pc = "load" /\ LeftOf(x, "load").samples = x.samples
      BY <1>1, LeftFields DEF Steps
    <3> QED BY <2>1, <3>1 DEF Tame, MayCall
  <2> QED BY <1>2, <2>1, <2>2
<1>5. CASE openABResume(r)
  <2>1. /\ Moves(r, run'[r]) /\ x.pc = "load" /\ x.samples = {}
        /\ run'[r].pc \in {"reserve", "unlock"}
    BY <1>5, LoadMoves
  <2>2. Tame(x, run'[r])
    BY <2>1 DEF Tame, MayCall, CoordinatesOf
  <2> QED BY <2>1, <2>2
<1>6. CASE reserveABOutputs(r)
  <2>1. /\ Moves(r, run'[r]) /\ x.pc = "reserve"
        /\ \/ run'[r] = LeftOf(x, "close")
           \/ run'[r].pc \in {"reserve", "first"} /\ run'[r].samples = x.samples
    BY <1>6, ReserveMoves
  <2>2. Tame(x, run'[r])
    BY <1>2, <2>1 DEF Tame, MayCall
  <2> QED BY <2>1, <2>2
<1>7. CASE FirstCheckpoint(r)
  <2>1. /\ Moves(r, run'[r]) /\ x.pc = "first"
        /\ \/ run'[r] = LeftOf(x, "close")
           \/ run'[r] = [x EXCEPT !.op = savePartial(r, "block", "close")]
    BY <1>7, FirstMoves
  <2>2. LET y == [x EXCEPT !.op = savePartial(r, "block", "close")]
          IN y.pc = x.pc /\ y.samples = x.samples
    BY <1>1 DEF RunStates
  <2>3. Tame(x, run'[r])
    BY <1>2, <2>1, <2>2 DEF Tame, MayCall
  <2> QED BY <2>1, <2>3
<1>8. CASE BeginBlock(r)
  <2>1. /\ Moves(r, run'[r]) /\ x.pc = "block"
        /\ run'[r].pc \in {"finish", "next"} /\ run'[r].samples = x.samples
    BY <1>8, BlockMoves
  <2>2. Tame(x, run'[r])
    BY <2>1 DEF Tame, MayCall
  <2> QED BY <2>1, <2>2
<1>9. CASE EndSample(r)
  <2>0. CoordinatesOf(x.samples \cup Recorded(r))
          = CoordinatesOf(x.samples) \cup {NextCoordinate(x.samples, x.block)}
    BY <1>9, RecordedOK DEF EndSample
  <2>1. /\ Moves(r, run'[r]) /\ x.pc = "call"
        /\ \/ /\ run'[r].pc = "call" /\ run'[r].op # NoOp
              /\ run'[r].samples = x.samples \cup Recorded(r)
           \/ run'[r].pc = "fail"
    BY <1>9, EndSampleMoves
  <2>2. Tame(x, run'[r])
    BY <2>0, <2>1 DEF Tame, MayCall
  <2> QED BY <2>1, <2>2
<1>10. CASE VerifyBlock(r)
  <2>1. /\ Moves(r, run'[r]) /\ x.pc = "verify"
        /\ run'[r].pc = "fail"
             \/ (run'[r].pc = "block" /\ run'[r].samples = x.samples)
    BY <1>10, VerifyMoves
  <2>2. Tame(x, run'[r])
    BY <2>1 DEF Tame, MayCall
  <2> QED BY <2>1, <2>2
<1>11. CASE finalizeFailure(r)
  <2>1. /\ Moves(r, run'[r]) /\ x.pc = "fail"
        /\ run'[r] = [x EXCEPT !.op = savePartial(r, "close", "close")]
    BY <1>11, FailureMoves
  <2>2. run'[r].pc = "fail"
    BY <1>1, <2>1 DEF RunStates
  <2>3. Tame(x, run'[r])
    BY <2>2 DEF Tame, MayCall
  <2> QED BY <2>1, <2>3
<1>12. CASE Finish(r)
  BY <1>12, FinishMoves DEF Tame, MayCall
<1>13. CASE PublishOrReuse(r)
  BY <1>13, PublishMoves DEF Tame, MayCall
<1>14. CASE RollbackPublished(r)
  BY <1>14, RollbackMoves DEF Tame, MayCall
<1>15. CASE RemoveAfterSuccess(r)
  BY <1>15, RetireMoves DEF Tame, MayCall
<1>16. CASE CloseReservations(r)
  BY <1>16, CloseMoves DEF Tame, MayCall
<1>17. CASE CloseResume(r)
  <2>1. /\ Moves(r, run'[r])
        /\ (run'[r] = LeftOf(x, "done") \/ run'[r].pc = "unlock")
    BY <1>17, UnlockMoves
  <2>2. Tame(x, run'[r])
    BY <1>2, <2>1 DEF Tame, MayCall
  <2> QED BY <2>1, <2>2
<1>18. CASE Crash(r)
  BY <1>18, CrashMoves DEF Tame, MayCall
<1> QED BY <1>3, <1>4, <1>5, <1>6, <1>7, <1>8, <1>9, <1>10, <1>11, <1>12, <1>13,
           <1>14, <1>15, <1>16, <1>17, <1>18
    DEF commandAB

(* What a place may name; what the private places of a run name, by the step*)
(* of its operation; the files of others.                                   *)
Sound(pl, f) ==
  /\ Clean(f.data)
  /\ pl[2] = 0 /\ pl[1] \in FinalPaths => Whole(pl[1], f)
Private(x, q, s) ==
  /\ x.op.step = "settle" /\ x.op.path \in FinalPaths => Whole(x.op.path, q)
  /\ x.op.step # "settle" /\ x.pc # "dead" => q = None
  /\ x.op.step \notin {"confirm", "back"} /\ x.pc # "dead" => s = None
  /\ x.op.step \in {"confirm", "back"} => s # None
DiskOK ==
  /\ files \in [Places -> Files]
  /\ \A pl \in Places : Sound(pl, files[pl])
  /\ \A r \in Runs : Private(run[r], files[Quarantine(r)], files[Stage(r)])
UsersOK ==
  /\ users \subseteq Files /\ hidden \subseteq Files
  /\ \A f \in users : f.what = "foreign"
  /\ ForeignFilesSurvive

(* The places are different places.                                         *)
LEMMA PlacesAre ==
  /\ \A r \in Runs : Stage(r) \in Places /\ Quarantine(r) \in Places
       /\ Stage(r)[2] # 0 /\ Quarantine(r)[2] # 0
  /\ \A r, q \in Runs : Stage(r) # Quarantine(q) /\ (r # q
       => Stage(r) # Stage(q) /\ Quarantine(r) # Quarantine(q))
  /\ \A p \in Paths : /\ <<p, 0>> \in Places
                      /\ <<p, 0>>[2] = 0 /\ <<p, 0>>[1] = p
                      /\ \A r \in Runs : <<p, 0>> # Stage(r)
                           /\ <<p, 0>> # Quarantine(r)
<1>1. \A r \in Runs : r # 0 /\ r \in Nat
  BY BoundsAreNatural DEF Runs
<1>2. /\ "stage" # "quarantine" /\ "stage" \notin Paths
      /\ "quarantine" \notin Paths
  BY DEF Paths, Outputs
<1>3. \A p : <<p, 0>>[1] = p /\ <<p, 0>>[2] = 0
  OBVIOUS
<1>4. \A r \in Runs : Stage(r) = <<"stage", r>>
        /\ Quarantine(r) = <<"quarantine", r>> /\ Stage(r)[2] = r
        /\ Quarantine(r)[2] = r
          /\ Stage(r)[1] = "stage" /\ Quarantine(r)[1] = "quarantine"
  BY DEF Stage, Quarantine
<1>5. \A r \in Runs : Stage(r) \in Places /\ Quarantine(r) \in Places
  BY <1>4 DEF Places
<1>6. \A p \in Paths : <<p, 0>> \in Places
  BY DEF Places
<1>7. \A r, q \in Runs : Stage(r) # Quarantine(q) /\ (r # q
        => Stage(r) # Stage(q) /\ Quarantine(r) # Quarantine(q))
  BY <1>2, <1>4
<1>8. \A p \in Paths : \A r \in Runs : <<p, 0>> # Stage(r)
        /\ <<p, 0>> # Quarantine(r)
  BY <1>1, <1>3, <1>4
<1> QED BY <1>1, <1>3, <1>4, <1>5, <1>6, <1>7, <1>8

(* A step of a run that changes one path and its private places.            *)
LEMMA DiskKeeps ==
  ASSUME RunsOK, DiskOK, NEW r \in Runs, NEW y, Moves(r, y), NEW path \in Paths,
         files' \in [Places -> Files],
         \A pl \in Places : pl \notin {<<path, 0>>, Stage(r), Quarantine(r)}
           => files'[pl] = files[pl],
         Sound(<<path, 0>>, files'[<<path, 0>>]), Clean(files'[Stage(r)].data),
         Clean(files'[Quarantine(r)].data),
         Private(y, files'[Quarantine(r)], files'[Stage(r)])
  PROVE  DiskOK'
<1>1. run'[r] = y /\ \A q \in Runs : q # r => run'[q] = run[q]
  BY MovesKeep
<1>2. ASSUME NEW pl \in Places PROVE Sound(pl, files'[pl])
  <2>1. CASE pl = <<path, 0>>
    BY <2>1
  <2>2. CASE pl = Stage(r)
    <3>1. pl[2] # 0
      BY <2>2, PlacesAre
    <3> QED BY <2>2, <3>1 DEF Sound
  <2>3. CASE pl = Quarantine(r)
    <3>1. pl[2] # 0
      BY <2>3, PlacesAre
    <3> QED BY <2>3, <3>1 DEF Sound
  <2>4. CASE pl \notin {<<path, 0>>, Stage(r), Quarantine(r)}
    BY <2>4 DEF DiskOK
  <2> QED BY <2>1, <2>2, <2>3, <2>4
<1>3. ASSUME NEW q \in Runs
      PROVE  Private(run'[q], files'[Quarantine(q)], files'[Stage(q)])
  <2>1. CASE q = r
    BY <1>1, <2>1
  <2>2. CASE q # r
    <3>1. /\ Stage(q) \in Places
          /\ Stage(q) \notin {<<path, 0>>, Stage(r), Quarantine(r)}
          /\ Quarantine(q) \in Places
          /\ Quarantine(q) \notin {<<path, 0>>, Stage(r), Quarantine(r)}
      BY <2>2, PlacesAre
    <3>2. /\ files'[Quarantine(q)] = files[Quarantine(q)]
          /\ files'[Stage(q)] = files[Stage(q)]
      BY <3>1
    <3> QED BY <1>1, <2>2, <3>2 DEF DiskOK
  <2> QED BY <2>1, <2>2
<1>4. \A r_1 \in Runs :
        Private(run'[r_1], files'[Quarantine(r_1)], files'[Stage(r_1)])
  BY <1>3
<1>5. \A q \in Runs : Quarantine(q)' = Quarantine(q) /\ Stage(q)' = Stage(q)
  BY DEF Quarantine, Stage
<1> QED BY <1>2, <1>4, <1>5 DEF DiskOK

(* No file of somebody else is lost when each of them that a place named is *)
(* still at some place, or hidden.                                          *)
LEMMA UsersKeep ==
  ASSUME UsersOK, users' = users, hidden \subseteq hidden',
         hidden' \subseteq Files,
         \A pl \in Places : files[pl].what = "foreign" =>
            files[pl] \in hidden' \/ \E p \in Places : files'[p] = files[pl]
  PROVE  UsersOK'
<1>1. ASSUME NEW f \in users
      PROVE  f \in hidden' \/ \E p \in Places : files'[p] = f
  <2>1. f.what = "foreign" /\ (f \in hidden \/ \E p \in Places : files[p] = f)
    BY DEF UsersOK, ForeignFilesSurvive
  <2> QED BY <2>1
<1> QED BY <1>1 DEF UsersOK, ForeignFilesSurvive

(* A step that touches no file.                                             *)
LEMMA QuietKeeps ==
  ASSUME RunsOK, DiskOK, UsersOK, NEW r \in Runs, NEW y, Moves(r, y), Quiet,
         run[r].op.step \notin {"settle", "confirm", "back"},
         run[r].pc # "dead",
         y.op.step \notin {"settle", "confirm", "back"}
  PROVE  DiskOK' /\ UsersOK'
<1>1. files' = files /\ hidden' = hidden /\ users' = users
  BY DEF Quiet, Elsewhere
<1>2. /\ "lock" \in Paths /\ <<"lock", 0>> \in Places /\ Stage(r) \in Places
      /\ Quarantine(r) \in Places
  BY PlacesAre DEF Paths
<1>3. files[Quarantine(r)] = None /\ files[Stage(r)] = None
  BY DEF DiskOK, Private
<1>4. Private(y, files[Quarantine(r)], files[Stage(r)])
  BY <1>3 DEF Private
<1>5. \A pl \in Places : Sound(pl, files[pl]) /\ Clean(files[pl].data)
  BY DEF DiskOK, Sound
<1>6. files' \in [Places -> Files]
  BY <1>1 DEF DiskOK
<1>7. DiskOK'
  BY <1>1, <1>2, <1>4, <1>5, <1>6, DiskKeeps
<1>8. UsersOK'
  BY <1>1, UsersKeep DEF UsersOK
<1> QED BY <1>7, <1>8

(* A final made of a complete population is whole.                          *)
LEMMA FinalIsWhole ==
  ASSUME NEW r, NEW S \in SUBSET Samples, Complete(S), Distinct(S), Clean(S),
         NEW p \in FinalPaths
  PROVE  Clean(FinalOf(r, S, p).data) /\ Whole(p, FinalOf(r, S, p))
<1>1. FinalOf(r, S, p).data = Part(S, p)
  BY DEF FinalOf, File
<1>2. Part(S, p) \subseteq S
  BY DEF Part
<1>3. Clean(Part(S, p)) /\ Distinct(Part(S, p))
  BY <1>2 DEF Clean, Distinct
<1>4. CoordinatesOf(Part(S, p)) = IF p = "comparison" THEN Coordinates
        ELSE (DOMAIN Blocks) \X {p}
  <2>1. CASE p = "comparison"
    BY <2>1 DEF Part, Complete
  <2>2. CASE p # "comparison"
    <3>1. p \in Arms
      BY <2>2 DEF FinalPaths, Outputs, Arms
    <3>2. \A s \in S : s[1] \in (DOMAIN Blocks) \X Arms
      BY DEF Samples, Coordinates
    <3>3. ASSUME NEW c \in CoordinatesOf(Part(S, p))
          PROVE  c \in (DOMAIN Blocks) \X {p}
      <4>1. PICK s \in S : s[1] = c /\ s[1][2] = p
        BY <2>2 DEF CoordinatesOf, Part
      <4> QED BY <3>2, <4>1
    <3>4. ASSUME NEW c \in (DOMAIN Blocks) \X {p}
          PROVE  c \in CoordinatesOf(Part(S, p))
      <4>1. c \in Coordinates /\ c[2] = p
        BY <3>1 DEF Coordinates
      <4>2. PICK s \in S : s[1] = c
        BY <4>1 DEF Complete, CoordinatesOf
      <4>3. s \in Part(S, p)
        BY <2>2, <4>1, <4>2 DEF Part
      <4> QED BY <4>2, <4>3 DEF CoordinatesOf
    <3> QED BY <2>2, <3>3, <3>4
  <2> QED BY <2>1, <2>2
<1> QED BY <1>1, <1>3, <1>4 DEF Whole, Kept

(* What a checkpoint or a final puts at its path is sound.                  *)
LEMMA StagedIsSound ==
  ASSUME NEW r \in Runs, NEW x \in RunStates, LocalOK(r, x), NEW p \in Outputs,
         p \in FinalPaths => Complete(x.samples)
  PROVE  LET f == StagedOf(r, x, p) IN
         f \in Files /\ Sound(<<p, 0>>, f) /\ f # None
           /\ f.what \in {"partial", "final"}
<1>1. x.samples \in SUBSET Samples /\ Distinct(x.samples) /\ Clean(x.samples)
  BY DEF RunStates, LocalOK, SamplesOK
<1>2. <<p, 0>>[1] = p
  OBVIOUS
<1>3. CASE p = "partial"
  <2>1. /\ StagedOf(r, x, p) = File(r, "partial", x.samples)
        /\ StagedOf(r, x, p) \in Files /\ StagedOf(r, x, p) # None
        /\ StagedOf(r, x, p).what = "partial"
    BY <1>3, StagedTyped
  <2>2. File(r, "partial", x.samples).data = x.samples
    BY DEF File
  <2>3. p \notin FinalPaths
    BY <1>3 DEF FinalPaths
  <2> QED BY <1>1, <1>2, <2>1, <2>2, <2>3 DEF Sound
<1>4. CASE p # "partial"
  <2>1. /\ StagedOf(r, x, p) = FinalOf(r, x.samples, p)
        /\ StagedOf(r, x, p) \in Files /\ StagedOf(r, x, p) # None
        /\ StagedOf(r, x, p).what = "final"
    BY <1>4, StagedTyped
  <2>2. p \in FinalPaths
    BY <1>4 DEF FinalPaths
  <2>3. /\ Clean(FinalOf(r, x.samples, p).data)
        /\ Whole(p, FinalOf(r, x.samples, p))
    BY <1>1, <2>2, FinalIsWhole
  <2> QED BY <1>2, <2>1, <2>3 DEF Sound
<1> QED BY <1>3, <1>4

(* A file that an operation expects is not a file of somebody else.         *)
LEMMA ExpectedIsOwn ==
  ASSUME NEW r \in Runs, NEW x \in RunStates, LocalOK(r, x), x.op # NoOp
  PROVE  /\ x.op.expected.what # "foreign" /\ x.op.expected # None
         /\ x.op.expected \in Files
         /\ x.op.path \in Paths /\ x.pc \notin {"dead", "idle", "done"}
         /\ x.op.step \in {"confirm", "back", "exchange"}
              => x.op.path = "partial"
<1>0. {} \in SUBSET Samples
  OBVIOUS
<1>1. /\ Placeholder(r).what = "placeholder" /\ Placeholder(r) # None
      /\ Placeholder(r) \in Files
  BY <1>0, FileTyped DEF Placeholder
<1>2. /\ File(r, "lock", {}).what = "lock" /\ File(r, "lock", {}) # None
      /\ File(r, "lock", {}) \in Files
  BY <1>0, FileTyped
<1>3. x.own = None \/ x.own.what = "partial"
  BY DEF LocalOK, PhaseOK
<1>4. None.what = "none"
  BY DEF None, File
<1>5. x.op.expected \in Files /\ x.op.path \in Paths
  BY DEF RunStates, Operations
<1>6. \A p : FinalOf(r, x.samples, p).what = "final"
  BY DEF FinalOf, File
<1>7. x.op.expected \in {Placeholder(r), File(r, "lock", {}), x.own,
        FinalOf(r, x.samples, x.op.path)}
  BY DEF LocalOK, OpOK, Sequel
<1>9. x.op.expected.what # "foreign" /\ x.op.expected # None
  <2>1. x.op.expected = x.own => x.own.what = "partial"
    <3> SUFFICES ASSUME x.op.expected = x.own, x.own = None PROVE FALSE
      BY <1>3
    <3>1. x.op.kind = "replace" \/ x.pc = "retire"
      BY <1>1, <1>2, <1>4, <1>6 DEF LocalOK, OpOK, Sequel
    <3>2. /\ x.pc \in {"first", "call", "fail", "retire"}
          /\ (x.pc = "first" => x.mode = "resume")
      BY <3>1 DEF LocalOK, OpOK, Sequel
    <3>3. x.own.what = "partial"
      BY <3>2 DEF LocalOK, PhaseOK, Act
    <3> QED BY <1>4, <3>3
  <2> QED BY <1>1, <1>2, <1>4, <1>6, <1>7, <2>1
<1>10. /\ x.pc \notin {"dead", "idle", "done"}
       /\ x.op.step \in {"confirm", "back", "exchange"} => x.op.path = "partial"
  BY DEF LocalOK, OpOK, Sequel
<1> QED BY <1>5, <1>9, <1>10

(* Two places change.                                                       *)
LEMMA TwoFiles ==
  ASSUME NEW F \in [Places -> Files], NEW a \in Places, NEW b \in Places, a # b,
         NEW v \in Files, NEW w \in Files
  PROVE  LET G == [F EXCEPT ![a] = v, ![b] = w] IN
         G \in [Places -> Files] /\ G[a] = v /\ G[b] = w
           /\ \A pl \in Places : pl \notin {a, b} => G[pl] = F[pl]
OBVIOUS

(* One place changes.                                                       *)
LEMMA OneFile ==
  ASSUME NEW F \in [Places -> Files], NEW a \in Places, NEW v \in Files
  PROVE  LET G == [F EXCEPT ![a] = v] IN
         G \in [Places -> Files] /\ G[a] = v /\ \A pl \in Places : pl # a
           => G[pl] = F[pl]
OBVIOUS

(* A run that leaves has no operation.                                      *)
LEMMA LeavingSteps ==
  ASSUME NEW x \in RunStates, NEW pc \in Steps
  PROVE  LeftOf(x, pc).op.step = "none" /\ LeftOf(x, pc).pc = pc
BY LeftFields DEF NoOp

(* The directory is sound after the step, and no file of others is lost.    *)
DiskSafe == DiskOK' /\ UsersOK'

(* Nothing is sound at every place.                                         *)
LEMMA NoneIs == None \in Files /\ None.what = "none" /\ Clean(None.data)
  /\ \A pl : Sound(pl, None)
<1>1. None \in Files
  BY NewIsTyped DEF NewRun, RunStates
<1>2. None.what = "none" /\ None.data = {}
  BY DEF None, File
<1> QED BY <1>1, <1>2 DEF Clean, Sound, Whole

(* What each step does to the directory.  A check does nothing.             *)
LEMMA CheckDisk ==
  ASSUME RunsOK, DiskOK, UsersOK, NEW r \in Runs, Check(r)
  PROVE  DiskSafe
<1> DEFINE x == run[r]
           op == x.op
           y == IF sameOwnedABFile(op.expected, At(op.path))
                THEN StepTo(x, IF op.kind = "replace" THEN "exchange"
                  ELSE "rename")
                ELSE LeftOf(x, op.otherwise)
<1>1. Moves(r, y) /\ op # NoOp /\ Quiet
  BY CheckMoves
<1>2. x \in RunStates /\ LocalOK(r, x) /\ op.step = "check"
  BY RunIs DEF Check
<1>3. op.otherwise \in Steps
  BY <1>2 DEF RunStates, Operations
<1>4. y.op.step \in {"exchange", "rename", "none"}
  BY ZenonT(60), <1>2, <1>3, StepFields, LeavingSteps DEF OpSteps
<1>5. x.pc # "dead"
  BY <1>1, <1>2, ExpectedIsOwn
<1> HIDE DEF y
<1> QED BY <1>1, <1>2, <1>4, <1>5, QuietKeeps DEF DiskSafe

(* Whatever the path names is in the quarantine.                            *)
LEMMA RenameDisk ==
  ASSUME RunsOK, DiskOK, UsersOK, NEW r \in Runs, Rename(r)
  PROVE  DiskSafe
<1> DEFINE x == run[r]
           op == x.op
           here == <<op.path, 0>>
<1>1. /\ Moves(r, IF At(op.path) = None THEN LeftOf(x, op.otherwise)
           ELSE StepTo(x, "settle"))
      /\ op # NoOp
  BY RenameMoves
<1>2. /\ x \in RunStates /\ LocalOK(r, x) /\ op.step = "rename"
      /\ op.otherwise \in Steps
  BY RunIs DEF Rename, RunStates, Operations
<1>3. x.pc # "dead" /\ op.path \in Paths
  BY <1>1, <1>2, ExpectedIsOwn
<1>4. /\ here \in Places /\ Quarantine(r) \in Places /\ Stage(r) \in Places
      /\ here # Quarantine(r)
      /\ here # Stage(r) /\ Quarantine(r) # Stage(r)
  BY <1>3, PlacesAre
<1>5. /\ files[Quarantine(r)] = None /\ files[Stage(r)] = None
      /\ files \in [Places -> Files]
  BY <1>2, <1>3 DEF DiskOK, Private
<1>6. CASE At(op.path) = None
  <2>1. Quiet
    BY <1>6 DEF Rename, Quiet, Elsewhere
  <2>2. LeftOf(x, op.otherwise).op.step = "none"
    BY <1>2, LeavingSteps
  <2> QED BY <1>1, <1>2, <1>3, <1>6, <2>1, <2>2, QuietKeeps DEF DiskSafe
<1>7. CASE At(op.path) # None
  <2> DEFINE f == At(op.path)
             y == StepTo(x, "settle")
  <2>1. files' = [files EXCEPT ![here] = None, ![Quarantine(r)] = f]
    BY <1>7 DEF Rename
  <2>2. f = files[here] /\ f \in Files
    BY <1>4, <1>5 DEF At
  <2> HIDE DEF f, here
  <2>3. /\ files' \in [Places -> Files] /\ files'[here] = None
        /\ files'[Quarantine(r)] = f
        /\ \A pl \in Places : pl \notin {here, Quarantine(r)}
             => files'[pl] = files[pl]
    BY <1>4, <1>5, <2>1, <2>2, NoneIs, TwoFiles
  <2>4. y.op.step = "settle" /\ y.op.path = op.path /\ y.pc = x.pc
    BY <1>2, StepFields DEF OpSteps
  <2>5. Sound(here, f)
    BY <1>4, <2>2 DEF DiskOK
  <2>6. here[1] = op.path /\ here[2] = 0
    BY DEF here
  <2>7. op.path \in FinalPaths => Whole(op.path, f)
    BY <2>5, <2>6 DEF Sound
  <2>8. Private(y, files'[Quarantine(r)], files'[Stage(r)])
    BY <1>4, <1>5, <2>3, <2>4, <2>7 DEF Private
  <2>9. Moves(r, y)
    BY <1>1, <1>7
  <2> HIDE DEF y
  <2>10. Clean(files'[Stage(r)].data) /\ Clean(files'[Quarantine(r)].data)
    BY <1>4, <1>5, <2>3, <2>5, NoneIs DEF Sound
  <2>11. DiskOK'
    BY <1>3, <2>3, <2>8, <2>9, <2>10, NoneIs, DiskKeeps DEF here
  <2>12. users' = users /\ hidden' = hidden
    BY DEF Rename, Elsewhere
  <2>13. \A pl \in Places : files[pl].what = "foreign"
           => \E p \in Places : files'[p] = files[pl]
    <3> SUFFICES ASSUME NEW pl \in Places, files[pl].what = "foreign"
        PROVE  \E p \in Places : files'[p] = files[pl]
      OBVIOUS
    <3>1. pl # Quarantine(r)
      BY <1>5, NoneIs
    <3> QED BY <1>4, <2>2, <2>3, <3>1
  <2>14. UsersOK'
    BY <2>12, <2>13, UsersKeep DEF UsersOK
  <2> QED BY <2>11, <2>14 DEF DiskSafe
<1> QED BY <1>6, <1>7

(* The file of the run is gone, any other is back or hidden.                *)
LEMMA SettleDisk ==
  ASSUME RunsOK, DiskOK, UsersOK, NEW r \in Runs, Settle(r)
  PROVE  DiskSafe
<1> DEFINE x == run[r]
           op == x.op
           here == <<op.path, 0>>
           moved == files[Quarantine(r)]
           own == sameOwnedABFile(op.expected, moved)
           free == At(op.path) = None
           y == IF own /\ op.kind = "link" THEN Retiring(x)
               ELSE LeftOf(x, op.otherwise)
           back == IF free THEN moved ELSE files[here]
<1>1. Moves(r, y) /\ op # NoOp
  <2>1. /\ Moves(r, y) /\ op # NoOp /\ op.kind \in {"link", "remove"}
        /\ (op.kind = "remove" => op.then = op.otherwise)
    BY SettleMoves
  <2> QED BY <2>1
<1>2. /\ x \in RunStates /\ LocalOK(r, x) /\ op.step = "settle"
      /\ op.otherwise \in Steps
  BY RunIs DEF Settle, RunStates, Operations
<1>3. x.pc # "dead" /\ op.path \in Paths /\ op.expected.what # "foreign"
  BY <1>1, <1>2, ExpectedIsOwn
<1>4. /\ here \in Places /\ Quarantine(r) \in Places /\ Stage(r) \in Places
      /\ here # Quarantine(r)
      /\ here # Stage(r) /\ Quarantine(r) # Stage(r)
  BY <1>3, PlacesAre
<1>5. files[Stage(r)] = None /\ files \in [Places -> Files] /\ moved \in Files
  BY <1>2, <1>3, <1>4 DEF DiskOK, Private
<1>6. y.op.step \in {"none", "link"}
  <2>1. CASE own /\ op.kind = "link"
    BY <1>2, <2>1, RetiringOK
  <2>2. CASE ~(own /\ op.kind = "link")
    BY <1>2, <2>2, LeavingSteps
  <2> QED BY <2>1, <2>2
<1>7. /\ \A pl \in Places : Sound(pl, files[pl]) /\ Clean(files[pl].data)
      /\ op.path \in FinalPaths => Whole(op.path, moved)
  BY <1>2 DEF DiskOK, Private, Sound
<1>8. here[1] = op.path /\ here[2] = 0 /\ At(op.path) = files[here]
  BY DEF At
<1> HIDE DEF y
<1>9. CASE own
  <2>1. /\ files' = [files EXCEPT ![Quarantine(r)] = None] /\ hidden' = hidden
        /\ users' = users
    BY <1>9 DEF Settle, Elsewhere
  <2>2. /\ files' \in [Places -> Files] /\ files'[Quarantine(r)] = None
        /\ \A pl \in Places : pl # Quarantine(r) => files'[pl] = files[pl]
    BY <1>4, <1>5, <2>1, NoneIs, OneFile
  <2>3. Private(y, files'[Quarantine(r)], files'[Stage(r)])
    BY <1>4, <1>5, <1>6, <2>2 DEF Private
  <2>4. /\ Sound(here, files'[here]) /\ Clean(files'[Stage(r)].data)
        /\ Clean(files'[Quarantine(r)].data)
    BY <1>4, <1>7, <2>2, NoneIs
  <2>5. DiskOK'
    BY <1>1, <1>3, <2>2, <2>3, <2>4, DiskKeeps
  <2>6. moved = op.expected
    BY <1>9 DEF sameOwnedABFile
  <2>7. \A pl \in Places : files[pl].what = "foreign"
          => \E p \in Places : files'[p] = files[pl]
    BY <1>3, <2>2, <2>6
  <2>8. UsersOK'
    BY <2>1, <2>7, UsersKeep DEF UsersOK
  <2> QED BY <2>5, <2>8 DEF DiskSafe
<1>10. CASE ~own
  <2>1. /\ files' = [files EXCEPT ![Quarantine(r)] = None, ![here] = back]
        /\ users' = users
        /\ hidden' = IF free THEN hidden ELSE hidden \cup {moved}
    <3>1. /\ files' = [files EXCEPT ![Quarantine(r)] = None, ![here] = IF free
               THEN moved ELSE @]
          /\ users' = users
          /\ hidden' = IF free THEN hidden ELSE hidden \cup {moved}
      BY <1>10 DEF Settle, Elsewhere
    <3>2. [files EXCEPT ![Quarantine(r)] = None, ![here] = IF free THEN moved
            ELSE @] = [files EXCEPT ![Quarantine(r)] = None, ![here] = back]
      BY <1>4, <1>5
    <3> QED BY <3>1, <3>2
  <2>2. back \in Files
    BY <1>4, <1>5
  <2>3. Sound(here, back)
    BY <1>4, <1>7, <1>8 DEF Sound
  <2>9. free => back = moved
    OBVIOUS
  <2>10. ~free => back = files[here]
    OBVIOUS
  <2>11. free => files[here] = None
    BY <1>8
  <2> HIDE DEF back, free, here
  <2>4. /\ files' \in [Places -> Files] /\ files'[Quarantine(r)] = None
        /\ files'[here] = back
        /\ \A pl \in Places : pl \notin {Quarantine(r), here}
             => files'[pl] = files[pl]
    BY <1>4, <1>5, <2>1, <2>2, NoneIs, TwoFiles
  <2>5. Private(y, files'[Quarantine(r)], files'[Stage(r)])
    BY <1>4, <1>5, <1>6, <2>4 DEF Private
  <2>6. Clean(files'[Stage(r)].data) /\ Clean(files'[Quarantine(r)].data)
    BY <1>4, <1>7, <2>4, NoneIs
  <2>7. DiskOK'
    BY <1>1, <1>3, <2>3, <2>4, <2>5, <2>6, DiskKeeps DEF here
  <2>8. \A pl \in Places : files[pl].what = "foreign"
          => files[pl] \in hidden' \/ \E p \in Places : files'[p] = files[pl]
    <3> SUFFICES ASSUME NEW pl \in Places, files[pl].what = "foreign"
                 PROVE files[pl] \in hidden'
                         \/ \E p \in Places : files'[p] = files[pl]
      OBVIOUS
    <3>1. CASE pl = Quarantine(r)
      BY <1>4, <2>1, <2>4, <2>9, <3>1
    <3>2. CASE pl = here
      <4>1. ~free
        BY <2>11, <3>2, NoneIs
      <4> QED BY <1>4, <2>4, <2>10, <3>2, <4>1
    <3>3. CASE pl \notin {Quarantine(r), here}
      BY <2>4, <3>3
    <3> QED BY <3>1, <3>2, <3>3
  <2>12. hidden \subseteq hidden' /\ hidden' \subseteq Files
    BY <1>5, <2>1 DEF UsersOK
  <2>13. UsersOK'
    BY <2>1, <2>8, <2>12, UsersKeep
  <2> QED BY <2>7, <2>13 DEF DiskSafe
<1> QED BY <1>9, <1>10

(* A step that puts one file where there was none.                          *)
LEMMA PutKeeps ==
  ASSUME RunsOK, DiskOK, UsersOK, NEW r \in Runs, NEW y, Moves(r, y),
         NEW path \in Paths, At(path) = None,
         NEW f \in Files, Sound(<<path, 0>>, f),
         files' = [files EXCEPT ![<<path, 0>>] = f],
         users' = users, hidden' = hidden,
         run[r].op.step \notin {"settle", "confirm", "back"},
         run[r].pc # "dead",
         y.op.step \notin {"settle", "confirm", "back"}
  PROVE  DiskSafe
<1> DEFINE here == <<path, 0>>
<1>1. /\ here \in Places /\ Quarantine(r) \in Places /\ Stage(r) \in Places
      /\ here # Quarantine(r)
      /\ here # Stage(r) /\ Quarantine(r) # Stage(r)
  BY PlacesAre
<1>2. /\ files[Quarantine(r)] = None /\ files[Stage(r)] = None
      /\ files \in [Places -> Files] /\ files[here] = None
  BY DEF DiskOK, Private, At
<1> HIDE DEF here
<1>3. /\ files' \in [Places -> Files] /\ files'[here] = f
      /\ \A pl \in Places : pl # here => files'[pl] = files[pl]
  BY <1>1, <1>2, OneFile DEF here
<1>4. Private(y, files'[Quarantine(r)], files'[Stage(r)])
  BY <1>1, <1>2, <1>3 DEF Private
<1>5. Clean(files'[Stage(r)].data) /\ Clean(files'[Quarantine(r)].data)
  BY <1>1, <1>2, <1>3, NoneIs
<1>6. DiskOK'
  BY <1>3, <1>4, <1>5, DiskKeeps DEF here
<1>7. \A pl \in Places : files[pl].what = "foreign"
        => \E p \in Places : files'[p] = files[pl]
  BY <1>2, <1>3, NoneIs
<1>8. UsersOK'
  BY <1>7, UsersKeep DEF UsersOK
<1> QED BY <1>6, <1>8 DEF DiskSafe

(* The staged file is at its path, which was free.                          *)
LEMMA LinkDisk ==
  ASSUME RunsOK, DiskOK, UsersOK, NEW r \in Runs, Link(r)
  PROVE  DiskSafe
<1> DEFINE x == run[r]
           op == x.op
           new == StagedOf(r, x, op.path)
<1>1. /\ Moves(r, IF At(op.path) = None THEN Linked(r, x)
           ELSE LeftOf(x, op.otherwise))
      /\ op # NoOp
      /\ Staged(r, op.path) = new
  BY LinkMoves
<1>2. /\ x \in RunStates /\ LocalOK(r, x) /\ op.step = "link"
      /\ op.otherwise \in Steps
  BY RunIs DEF Link, RunStates, Operations
<1>3. x.pc # "dead" /\ op.path \in Paths
  BY <1>1, <1>2, ExpectedIsOwn
<1>4. CASE At(op.path) # None
  <2>1. Quiet
    BY <1>4 DEF Link, Quiet, Elsewhere
  <2>2. LeftOf(x, op.otherwise).op.step = "none"
    BY <1>2, LeavingSteps
  <2> QED BY <1>1, <1>2, <1>3, <1>4, <2>1, <2>2, QuietKeeps DEF DiskSafe
<1>5. CASE At(op.path) = None
  <2>1. /\ op.path \in Outputs /\ Linked(r, x).op = NoOp
        /\ (x.pc = "first" /\ op.path = "partial") \/ x.pc = "publish"
    BY <1>2, LinkedOK
  <2>2. op.path \in FinalPaths => Complete(x.samples)
    BY <1>2, <2>1 DEF FinalPaths, LocalOK, PhaseOK
  <2>3. new \in Files /\ Sound(<<op.path, 0>>, new)
    BY <1>2, <2>1, <2>2, StagedIsSound
  <2>4. /\ files' = [files EXCEPT ![<<op.path, 0>>] = new] /\ users' = users
        /\ hidden' = hidden
    BY <1>1, <1>5 DEF Link, Elsewhere
  <2>5. Linked(r, x).op.step = "none"
    BY <2>1 DEF NoOp
  <2>6. Moves(r, Linked(r, x))
    BY <1>1, <1>5
  <2> HIDE DEF new
  <2> QED BY <1>2, <1>3, <1>5, <2>3, <2>4, <2>5, <2>6, PutKeeps
<1> QED BY <1>4, <1>5

(* The file that was at the path is at the private stage.                   *)
LEMMA ExchangeDisk ==
  ASSUME RunsOK, DiskOK, UsersOK, NEW r \in Runs, Exchange(r)
  PROVE  DiskSafe
<1> DEFINE x == run[r]
           op == x.op
           here == <<"partial", 0>>
           new == StagedOf(r, x, "partial")
           old == At("partial")
           y == StepTo(x, "confirm")
<1>1. /\ Moves(r, IF op.expected = None
           \/ old = None THEN LeftOf(x, op.otherwise) ELSE y)
      /\ op # NoOp
      /\ Staged(r, "partial") = new
  BY ExchangeMoves
<1>2. /\ x \in RunStates /\ LocalOK(r, x) /\ op.step = "exchange"
      /\ op.otherwise \in Steps
  BY RunIs DEF Exchange, RunStates, Operations
<1>3. /\ x.pc # "dead" /\ "partial" \in Paths /\ "partial" \in Outputs
      /\ "partial" \notin FinalPaths
  BY <1>1, <1>2, ExpectedIsOwn DEF Paths, Outputs, FinalPaths
<1>4. /\ here \in Places /\ Quarantine(r) \in Places /\ Stage(r) \in Places
      /\ here # Quarantine(r)
      /\ here # Stage(r) /\ Quarantine(r) # Stage(r)
  BY <1>3, PlacesAre
<1>5. /\ files[Quarantine(r)] = None /\ files[Stage(r)] = None
      /\ files \in [Places -> Files]
  BY <1>2, <1>3 DEF DiskOK, Private
<1>6. CASE op.expected = None \/ old = None
  <2>1. Quiet
    BY <1>6 DEF Exchange, Quiet, Elsewhere
  <2>2. LeftOf(x, op.otherwise).op.step = "none"
    BY <1>2, LeavingSteps
  <2>3. Moves(r, LeftOf(x, op.otherwise))
    BY <1>1, <1>6
  <2> QED BY <1>2, <1>3, <2>1, <2>2, <2>3, QuietKeeps DEF DiskSafe
<1>7. CASE ~(op.expected = None \/ old = None)
  <2>1. /\ files' = [files EXCEPT ![Stage(r)] = old, ![here] = new]
        /\ users' = users /\ hidden' = hidden
    BY <1>1, <1>7 DEF Exchange, Elsewhere
  <2>2. old = files[here] /\ old \in Files /\ old # None
    BY <1>4, <1>5, <1>7 DEF At
  <2>3. new \in Files /\ Sound(here, new)
    BY <1>2, <1>3, StagedIsSound
  <2>4. y.op.step = "confirm" /\ y.pc = x.pc /\ Moves(r, y)
    BY <1>1, <1>2, <1>7, StepFields DEF OpSteps
  <2> HIDE DEF old, here, new, y
  <2>5. /\ files' \in [Places -> Files] /\ files'[here] = new
        /\ files'[Stage(r)] = old
        /\ \A pl \in Places : pl \notin {here, Stage(r)}
             => files'[pl] = files[pl]
    BY <1>4, <1>5, <2>1, <2>2, <2>3, TwoFiles
  <2>6. Private(y, files'[Quarantine(r)], files'[Stage(r)])
    BY <1>4, <1>5, <2>2, <2>4, <2>5 DEF Private
  <2>7. Clean(old.data)
    BY <1>4, <2>2 DEF DiskOK, Sound
  <2>8. Clean(files'[Stage(r)].data) /\ Clean(files'[Quarantine(r)].data)
    BY <1>4, <1>5, <2>5, <2>7, NoneIs
  <2>9. DiskOK'
    BY <1>3, <2>3, <2>4, <2>5, <2>6, <2>8, DiskKeeps DEF here
  <2>10. \A pl \in Places : files[pl].what = "foreign"
           => \E p \in Places : files'[p] = files[pl]
    <3> SUFFICES ASSUME NEW pl \in Places, files[pl].what = "foreign"
        PROVE  \E p \in Places : files'[p] = files[pl]
      OBVIOUS
    <3>1. pl # Stage(r)
      BY <1>5, NoneIs
    <3> QED BY <1>4, <2>2, <2>5, <3>1
  <2>11. UsersOK'
    BY <2>1, <2>10, UsersKeep DEF UsersOK
  <2> QED BY <2>9, <2>11 DEF DiskSafe
<1> QED BY <1>6, <1>7

(* The replaced partial is the one that the run had put there.              *)
LEMMA ConfirmDisk ==
  ASSUME RunsOK, DiskOK, UsersOK, NEW r \in Runs, Confirm(r)
  PROVE  DiskSafe
<1> DEFINE x == run[r]
           op == x.op
           owned == files[Stage(r)] = op.expected
               /\ At("partial") = StagedOf(r, x, "partial")
           y == IF owned THEN Confirmed(r, x) ELSE StepTo(x, "back")
<1>1. /\ Moves(r, y) /\ op # NoOp /\ op.kind = "replace"
      /\ Staged(r, "partial") = StagedOf(r, x, "partial")
  BY ConfirmMoves
<1>2. /\ x \in RunStates /\ LocalOK(r, x) /\ op.step = "confirm"
      /\ op.otherwise \in Steps
  BY RunIs DEF Confirm, RunStates, Operations
<1>3. x.pc # "dead" /\ "partial" \in Paths /\ op.expected.what # "foreign"
  BY <1>1, <1>2, ExpectedIsOwn DEF Paths, Outputs
<1>4. /\ <<"partial", 0>> \in Places /\ Quarantine(r) \in Places
      /\ Stage(r) \in Places /\ <<"partial", 0>> # Quarantine(r)
      /\ <<"partial", 0>> # Stage(r) /\ Quarantine(r) # Stage(r)
  BY <1>3, PlacesAre
<1>5. /\ files[Quarantine(r)] = None /\ files[Stage(r)] # None
      /\ files \in [Places -> Files]
  BY <1>2, <1>3 DEF DiskOK, Private
<1>6. \A pl \in Places : Sound(pl, files[pl]) /\ Clean(files[pl].data)
  BY DEF DiskOK, Sound
<1>7. CASE owned
  <2>1. /\ files' = [files EXCEPT ![Stage(r)] = None] /\ users' = users
        /\ hidden' = hidden
    BY <1>1, <1>7 DEF Confirm, Elsewhere
  <2>2. /\ files' \in [Places -> Files] /\ files'[Stage(r)] = None
        /\ \A pl \in Places : pl # Stage(r) => files'[pl] = files[pl]
    BY <1>4, <1>5, <2>1, NoneIs, OneFile
  <2>3. y.op.step = "none"
    BY <1>1, <1>2, <1>7, ConfirmedOK DEF NoOp
  <2>6. files[Stage(r)].what # "foreign"
    BY <1>3, <1>7
  <2> HIDE DEF y
  <2>4. Private(y, files'[Quarantine(r)], files'[Stage(r)])
    BY <1>4, <1>5, <2>2, <2>3 DEF Private
  <2>5. DiskOK'
    BY <1>1, <1>3, <1>4, <1>6, <2>2, <2>4, NoneIs, DiskKeeps
  <2>7. UsersOK'
    BY <2>1, <2>2, <2>6, UsersKeep DEF UsersOK
  <2> QED BY <2>5, <2>7 DEF DiskSafe
<1>8. CASE ~owned
  <2>1. files' = files /\ users' = users /\ hidden' = hidden
    BY <1>1, <1>8 DEF Confirm, Elsewhere
  <2>2. y.op.step = "back"
    BY <1>2, <1>8, StepFields DEF OpSteps
  <2> HIDE DEF y
  <2>3. Private(y, files'[Quarantine(r)], files'[Stage(r)])
    BY <1>5, <2>1, <2>2 DEF Private
  <2>4. DiskOK'
    BY <1>1, <1>3, <1>4, <1>5, <1>6, <2>1, <2>3, DiskKeeps
  <2>5. UsersOK'
    BY <2>1, UsersKeep DEF UsersOK
  <2> QED BY <2>4, <2>5 DEF DiskSafe
<1> QED BY <1>7, <1>8

(* The replaced file is back, and the other one hidden.                     *)
LEMMA BackDisk ==
  ASSUME RunsOK, DiskOK, UsersOK, NEW r \in Runs, ExchangeBack(r)
  PROVE  DiskSafe
<1> DEFINE x == run[r]
           op == x.op
           here == <<"partial", 0>>
           staged == StagedOf(r, x, "partial")
           back == IF At("partial") = None THEN None ELSE files[Stage(r)]
           left == IF back = None THEN files[Stage(r)] ELSE At("partial")
           y == LeftOf(x, op.otherwise)
<1>1. Moves(r, y) /\ op # NoOp /\ Staged(r, "partial") = staged
  BY BackMoves
<1>2. /\ x \in RunStates /\ LocalOK(r, x) /\ op.step = "back"
      /\ op.otherwise \in Steps
  BY RunIs DEF ExchangeBack, RunStates, Operations
<1>3. /\ x.pc # "dead" /\ "partial" \in Paths /\ "partial" \in Outputs
      /\ "partial" \notin FinalPaths
  BY <1>1, <1>2, ExpectedIsOwn DEF Paths, Outputs, FinalPaths
<1>4. /\ here \in Places /\ Quarantine(r) \in Places /\ Stage(r) \in Places
      /\ here # Quarantine(r)
      /\ here # Stage(r) /\ Quarantine(r) # Stage(r)
  BY <1>3, PlacesAre
<1>5. /\ files[Quarantine(r)] = None /\ files[Stage(r)] # None
      /\ files \in [Places -> Files] /\ files[Stage(r)] \in Files
  BY <1>2, <1>3, <1>4 DEF DiskOK, Private
<1>6. \A pl \in Places : Sound(pl, files[pl]) /\ Clean(files[pl].data)
  BY DEF DiskOK, Sound
<1>7. /\ files' = [files EXCEPT ![here] = back, ![Stage(r)] = None]
      /\ users' = users
      /\ hidden' = IF left = staged THEN hidden ELSE hidden \cup {left}
  BY <1>1 DEF ExchangeBack, Elsewhere
<1>8. y.op.step = "none"
  BY <1>2, LeavingSteps
<1>9. staged.what = "partial"
  BY <1>2, <1>3, StagedTyped
<1>10. At("partial") = files[here] /\ files[here] \in Files
  BY <1>4, <1>5 DEF At
<1>11. here[1] = "partial" /\ here[2] = 0
  OBVIOUS
<1>12. /\ back \in Files /\ left \in Files /\ Clean(back.data)
       /\ (files[here] = None => back = None /\ left = files[Stage(r)])
       /\ (files[here] # None => back = files[Stage(r)] /\ left = files[here])
  BY <1>4, <1>5, <1>6, <1>10, NoneIs
<1> HIDE DEF y, here, back, left, staged
<1>13. Sound(here, back)
  BY <1>3, <1>11, <1>12 DEF Sound
<1>14. /\ files' \in [Places -> Files] /\ files'[here] = back
       /\ files'[Stage(r)] = None
       /\ \A pl \in Places : pl \notin {here, Stage(r)}
            => files'[pl] = files[pl]
  BY <1>4, <1>5, <1>7, <1>12, NoneIs, TwoFiles
<1>15. Private(y, files'[Quarantine(r)], files'[Stage(r)])
  BY <1>4, <1>5, <1>8, <1>14 DEF Private
<1>16. Clean(files'[Stage(r)].data) /\ Clean(files'[Quarantine(r)].data)
  BY <1>4, <1>6, <1>14, NoneIs
<1>17. DiskOK'
  BY <1>1, <1>3, <1>13, <1>14, <1>15, <1>16, DiskKeeps DEF here
<1>18. \A pl \in Places : files[pl].what = "foreign"
         => files[pl] \in hidden' \/ \E p \in Places : files'[p] = files[pl]
  <2> SUFFICES ASSUME NEW pl \in Places, files[pl].what = "foreign"
               PROVE files[pl] \in hidden'
                       \/ \E p \in Places : files'[p] = files[pl]
    OBVIOUS
  <2>1. CASE pl \notin {here, Stage(r)}
    BY <1>14, <2>1
  <2>2. CASE pl = here
    <3>1. files[here] # None
      BY <2>2, NoneIs
    <3> QED BY <1>7, <1>9, <1>12, <2>2, <3>1
  <2>3. CASE pl = Stage(r)
    <3>1. CASE files[here] = None
      BY <1>7, <1>9, <1>12, <2>3, <3>1
    <3>2. CASE files[here] # None
      BY <1>4, <1>12, <1>14, <2>3, <3>2
    <3> QED BY <3>1, <3>2
  <2> QED BY <2>1, <2>2, <2>3
<1>19. hidden \subseteq hidden' /\ hidden' \subseteq Files
  BY <1>7, <1>12 DEF UsersOK
<1>20. UsersOK'
  BY <1>7, <1>18, <1>19, UsersKeep
<1> QED BY <1>17, <1>20 DEF DiskSafe

(* A lock is put where there was none.                                      *)
LEMMA LockDisk ==
  ASSUME RunsOK, DiskOK, UsersOK, NEW r \in Runs, acquireABResumeLock(r)
  PROVE  DiskSafe
<1> DEFINE x == run[r]
           y == LeftOf(x, IF At("lock") = None THEN "load" ELSE "done")
           f == File(r, "lock", {})
<1>1. Moves(r, y) /\ x.pc = "lock" /\ x.op = NoOp
  BY LockMoves
<1>2. x \in RunStates /\ x.op.step = "none"
  BY <1>1, RunIs DEF NoOp
<1>3. y.op.step = "none" /\ "lock" \in Paths /\ "lock" \notin FinalPaths
  BY <1>2, LeavingSteps DEF Steps, Paths, FinalPaths, Outputs
<1>4. f \in Files /\ f.data = {}
  <2>1. {} \in SUBSET Samples
    OBVIOUS
  <2> QED BY <2>1, FileTyped
<1>5. Sound(<<"lock", 0>>, f)
  <2>1. <<"lock", 0>>[1] = "lock"
    OBVIOUS
  <2> QED BY <1>3, <1>4, <2>1 DEF Sound, Clean
<1> HIDE DEF y, f
<1>6. CASE At("lock") = None
  <2>1. /\ files' = [files EXCEPT ![<<"lock", 0>>] = f] /\ users' = users
        /\ hidden' = hidden
    BY <1>6 DEF acquireABResumeLock, Elsewhere, f
  <2> QED BY <1>1, <1>2, <1>3, <1>4, <1>5, <1>6, <2>1, PutKeeps
<1>7. CASE At("lock") # None
  <2>1. Quiet
    BY <1>7 DEF acquireABResumeLock, Elsewhere, Quiet
  <2> QED BY <1>1, <1>2, <1>3, <2>1, QuietKeeps DEF DiskSafe
<1> QED BY <1>6, <1>7

(* A placeholder is put where there was nothing.                            *)
LEMMA ReserveDisk ==
  ASSUME RunsOK, DiskOK, UsersOK, NEW r \in Runs, reserveABOutputs(r)
  PROVE  DiskSafe
<1> DEFINE x == run[r]
           y == run'[r]
           i == x.todo + 1
           path == PathAt(x, i)
           f == Placeholder(r)
<1>0. FilesOK
  BY DEF DiskOK, FilesOK, Sound
<1>1. /\ Moves(r, y) /\ x.pc = "reserve" /\ x.op = NoOp /\ path \in Outputs
      /\ Reserved(r)[i] = path
      /\ \/ At(path) # None /\ ~AllowsExisting(r) /\ y = LeftOf(x, "close")
         \/ y.op = NoOp /\ (At(path) = None
              \/ (x.mode = "resume" /\ Complete(x.samples)))
  BY <1>0, ReserveMoves
<1>2. x \in RunStates /\ x.op.step = "none"
  BY <1>1, RunIs DEF NoOp
<1>3. y.op.step = "none"
  <2>1. LeftOf(x, "close").op.step = "none"
    BY <1>2, LeavingSteps DEF Steps
  <2> QED BY <1>1, <2>1 DEF NoOp
<1>4. f \in Files /\ f.data = {}
  <2>1. {} \in SUBSET Samples
    OBVIOUS
  <2> QED BY <2>1, FileTyped DEF Placeholder
<1>5. \A p : Sound(<<p, 0>>, f)
  <2>1. f.what = "placeholder"
    BY DEF Placeholder, File
  <2> QED BY <1>4, <2>1 DEF Sound, Clean, Whole
<1>6. path \in Paths /\ <<path, 0>> \in Places
  BY <1>1, PlacesAre DEF Paths
<1>7. /\ (At(path) = None
           => files' = [files EXCEPT ![<<path, 0>>] = IF @ = None THEN f
           ELSE @])
      /\ (At(path) # None
           => files' = files
           \/ files' = [files EXCEPT ![<<path, 0>>] = IF @ = None
           THEN At(path) ELSE @])
      /\ users' = users /\ hidden' = hidden /\ Elsewhere
  BY <1>1 DEF reserveABOutputs, Elsewhere, Unreserved, Placeholder
<1> HIDE DEF path, f, i, y
<1>8. At(path) = files[<<path, 0>>] /\ files \in [Places -> Files]
  BY DEF At, DiskOK
<1>9. CASE At(path) = None
  <2>1. files' = [files EXCEPT ![<<path, 0>>] = f]
    BY <1>6, <1>7, <1>8, <1>9
  <2> QED BY <1>1, <1>2, <1>3, <1>4, <1>5, <1>6, <1>7, <1>9, <2>1, PutKeeps
<1>10. CASE At(path) # None
  <2>1. files' = files
    BY <1>6, <1>7, <1>8, <1>10
  <2>2. Quiet
    BY <1>7, <2>1 DEF Quiet
  <2> QED BY <1>1, <1>2, <1>3, <2>2, QuietKeeps DEF DiskSafe
<1> QED BY <1>9, <1>10

(* No other step of the command touches a file.                             *)
LEMMA QuietDisk ==
  ASSUME RunsOK, DiskOK, UsersOK, PaidOK, NEW r \in Runs,
         \/ \E mode \in {"fresh", "resume"} : Begin(r, mode)
         \/ commandAB(r) /\ ~acquireABResumeLock(r) /\ ~reserveABOutputs(r)
  PROVE  DiskSafe
<1> DEFINE x == run[r]
<1>0. FilesOK
  BY DEF DiskOK, FilesOK, Sound
<1>1. x \in RunStates /\ LocalOK(r, x)
  BY RunIs
<1>2. \A pc \in Steps : LeftOf(x, pc).op.step = "none"
  BY <1>1, LeavingSteps
<1>3. NoOp.step = "none"
  BY DEF NoOp
<1>s. {"done", "close", "unlock"} \subseteq Steps
  BY DEF Steps
<1>4. ASSUME NEW y, Moves(r, y), x.op = NoOp, x.pc # "dead", Quiet,
             y.op.step \in {"none", "check", "exchange"}
      PROVE  DiskSafe
  BY <1>3, <1>4, QuietKeeps DEF DiskSafe
<1>5. CASE \E mode \in {"fresh", "resume"} : Begin(r, mode)
  <2>1. Moves(r, run'[r]) /\ x.pc = "idle" /\ x.op = NoOp /\ run'[r].op = NoOp
    BY <1>5, BeginMoves
  <2>2. Quiet
    BY <1>5 DEF Begin
  <2> QED BY <1>3, <1>4, <2>1, <2>2
<1>6. CASE openABResume(r)
  <2>1. Moves(r, run'[r]) /\ x.pc = "load" /\ x.op = NoOp /\ run'[r].op = NoOp
    BY <1>0, <1>6, LoadMoves
  <2>2. Quiet
    BY <1>6 DEF openABResume
  <2> QED BY <1>3, <1>4, <2>1, <2>2
<1>7. CASE FirstCheckpoint(r)
  <2>1. /\ Moves(r, run'[r]) /\ x.pc = "first" /\ x.op = NoOp
        /\ \/ run'[r] = LeftOf(x, "close")
           \/ run'[r] = [x EXCEPT !.op = savePartial(r, "block", "close")]
    BY <1>7, FirstMoves
  <2>2. savePartial(r, "block", "close").step \in {"check", "exchange"}
    <3>1. "block" \in Steps /\ "close" \in Steps
      BY DEF Steps
    <3>2. run[r].op = NoOp /\ run[r].pc \in {"first", "call", "fail"}
      BY <2>1
    <3> QED BY <3>1, <3>2, SaveStarts
  <2>3. [x EXCEPT !.op = savePartial(r, "block", "close")].op = savePartial(r,
          "block", "close")
    BY <1>1 DEF RunStates
  <2>4. run'[r].op.step \in {"none", "check", "exchange"}
    BY <1>2, <1>s, <2>1, <2>2, <2>3
  <2>5. Quiet
    BY <1>7 DEF FirstCheckpoint
  <2> QED BY <1>4, <2>1, <2>4, <2>5
<1>8. CASE BeginBlock(r)
  <2>1. Moves(r, run'[r]) /\ x.pc = "block" /\ x.op = NoOp /\ run'[r].op = NoOp
    BY <1>8, BlockMoves
  <2>2. Quiet
    BY <1>8 DEF BeginBlock
  <2> QED BY <1>3, <1>4, <2>1, <2>2
<1>9. CASE EndSample(r)
  <2>1. /\ Moves(r, run'[r]) /\ x.pc = "call" /\ x.op = NoOp
        /\ run'[r].op = NoOp \/ run'[r].op.step \in {"check", "exchange"}
    BY <1>9, EndSampleMoves
  <2>2. Quiet
    BY <1>9 DEF EndSample
  <2> QED BY <1>3, <1>4, <2>1, <2>2
<1>10. CASE VerifyBlock(r)
  <2>1. Moves(r, run'[r]) /\ x.pc = "verify" /\ x.op = NoOp /\ run'[r].op = NoOp
    BY <1>10, VerifyMoves
  <2>2. Quiet
    BY <1>10 DEF VerifyBlock
  <2> QED BY <1>3, <1>4, <2>1, <2>2
<1>11. CASE finalizeFailure(r)
  <2>1. /\ Moves(r, run'[r]) /\ x.pc = "fail" /\ x.op = NoOp
        /\ run'[r] = [x EXCEPT !.op = savePartial(r, "close", "close")]
    BY <1>11, FailureMoves
  <2>2. savePartial(r, "close", "close").step \in {"check", "exchange"}
    <3>1. "close" \in Steps /\ "close" \in Steps
      BY DEF Steps
    <3>2. run[r].op = NoOp /\ run[r].pc \in {"first", "call", "fail"}
      BY <2>1
    <3> QED BY <3>1, <3>2, SaveStarts
  <2>3. [x EXCEPT !.op = savePartial(r, "close", "close")].op = savePartial(r,
          "close", "close")
    BY <1>1 DEF RunStates
  <2>4. Quiet
    BY <1>11 DEF finalizeFailure
  <2> QED BY <1>4, <2>1, <2>2, <2>3, <2>4
<1>12. CASE Finish(r)
  <2>1. Moves(r, run'[r]) /\ x.pc = "finish" /\ x.op = NoOp /\ run'[r].op = NoOp
    BY <1>12, FinishMoves
  <2>2. Quiet
    BY <1>12 DEF Finish
  <2> QED BY <1>3, <1>4, <2>1, <2>2
<1>13. CASE PublishOrReuse(r)
  <2>1. /\ Moves(r, run'[r]) /\ x.pc = "publish" /\ x.op = NoOp
        /\ (run'[r].op = NoOp \/ run'[r].op.step = "check")
    BY <1>13, PublishMoves
  <2>2. Quiet
    BY <1>13 DEF PublishOrReuse
  <2> QED BY <1>3, <1>4, <2>1, <2>2
<1>14. CASE RollbackPublished(r)
  <2>1. /\ Moves(r, run'[r]) /\ x.pc = "rollback" /\ x.op = NoOp
        /\ (run'[r].op = NoOp \/ run'[r].op.step = "check")
    BY <1>14, RollbackMoves
  <2>2. Quiet
    BY <1>14 DEF RollbackPublished
  <2> QED BY <1>3, <1>4, <2>1, <2>2
<1>15. CASE RemoveAfterSuccess(r)
  <2>1. /\ Moves(r, run'[r]) /\ x.pc = "retire" /\ x.op = NoOp
        /\ run'[r].op.step = "check"
    BY <1>15, RetireMoves
  <2>2. Quiet
    BY <1>15 DEF RemoveAfterSuccess
  <2> QED BY <1>3, <1>4, <2>1, <2>2
<1>16. CASE CloseReservations(r)
  <2>1. /\ Moves(r, run'[r]) /\ x.pc = "close" /\ x.op = NoOp
        /\ (run'[r].op = NoOp \/ run'[r].op.step = "check")
    BY <1>16, CloseMoves
  <2>2. Quiet
    BY <1>16 DEF CloseReservations
  <2> QED BY <1>3, <1>4, <2>1, <2>2
<1>17. CASE CloseResume(r)
  <2>1. /\ Moves(r, run'[r]) /\ x.pc = "unlock" /\ x.op = NoOp
        /\ (run'[r] = LeftOf(x, "done") \/ run'[r].op.step = "check")
    BY <1>17, UnlockMoves
  <2>2. Quiet
    BY <1>17 DEF CloseResume
  <2> QED BY <1>2, <1>4, <1>s, <2>1, <2>2
<1>18. CASE BeginSample(r)
  <2>1. Moves(r, run'[r]) /\ x.pc = "next" /\ x.op = NoOp /\ run'[r].op = NoOp
    BY <1>18, BeginSampleMoves
  <2>2. files' = files /\ hidden' = hidden /\ users' = users
    BY <1>18 DEF BeginSample
  <2>3. DiskOK'
    <3>1. /\ "lock" \in Paths /\ <<"lock", 0>> \in Places /\ Stage(r) \in Places
          /\ Quarantine(r) \in Places
      BY PlacesAre DEF Paths
    <3>2. /\ files[Quarantine(r)] = None /\ files[Stage(r)] = None
          /\ files \in [Places -> Files]
      BY <1>3, <2>1 DEF DiskOK, Private
    <3>3. Private(run'[r], files[Quarantine(r)], files[Stage(r)])
      BY <1>3, <2>1, <3>2 DEF Private
    <3>4. \A pl \in Places : Sound(pl, files[pl]) /\ Clean(files[pl].data)
      BY DEF DiskOK, Sound
    <3> QED BY <2>1, <2>2, <3>1, <3>2, <3>3, <3>4, DiskKeeps
  <2>4. UsersOK'
    BY <2>2, UsersKeep DEF UsersOK
  <2> QED BY <2>3, <2>4 DEF DiskSafe
<1> QED BY <1>5, <1>6, <1>7, <1>8, <1>9, <1>10, <1>11, <1>12, <1>13, <1>14,
           <1>15, <1>16, <1>17, <1>18
    DEF commandAB

(* A death touches no file.                                                 *)
LEMMA CrashDisk ==
  ASSUME RunsOK, DiskOK, UsersOK, NEW r \in Runs, Crash(r)
  PROVE  DiskSafe
<1> DEFINE y == run'[r]
<1>1. Moves(r, y) /\ y.pc = "dead" /\ y.op.step = "none"
  BY CrashMoves DEF NoOp
<1>2. files' = files /\ hidden' = hidden /\ users' = users
  BY DEF Crash, Quiet, Elsewhere
<1> HIDE DEF y
<1>3. /\ "lock" \in Paths /\ <<"lock", 0>> \in Places /\ Stage(r) \in Places
      /\ Quarantine(r) \in Places
  BY PlacesAre DEF Paths
<1>4. Private(y, files[Quarantine(r)], files[Stage(r)])
  BY <1>1 DEF Private
<1>5. /\ (\A pl \in Places : Sound(pl, files[pl]) /\ Clean(files[pl].data))
      /\ files \in [Places -> Files]
  BY DEF DiskOK, Sound
<1>6. DiskOK'
  BY <1>1, <1>2, <1>3, <1>4, <1>5, DiskKeeps
<1>7. UsersOK'
  BY <1>2, UsersKeep DEF UsersOK
<1> QED BY <1>6, <1>7 DEF DiskSafe

(* A file of somebody else replaces what was there; theirs they may lose.   *)
LEMMA UserWritesDisk ==
  ASSUME RunsOK, DiskOK, UsersOK, mishaps \in 0..MaxMishaps, NEW path \in Paths,
         UserWrites(path)
  PROVE  DiskSafe
<1> DEFINE here == <<path, 0>>
           new == File(MaxStarts + mishaps', "foreign", {})
<1>1. /\ here \in Places
      /\ \A r \in Runs : here # Stage(r) /\ here # Quarantine(r)
           /\ Stage(r) \in Places /\ Quarantine(r) \in Places
  BY PlacesAre
<1>2. new \in Files /\ new.what = "foreign" /\ new.data = {}
  <2>1. mishaps' = mishaps + 1 /\ mishaps < MaxMishaps
    BY DEF UserWrites, Happens
  <2>2. MaxStarts + mishaps' \in 0..(MaxStarts + MaxMishaps)
    BY <2>1, BoundsAreNatural
  <2> QED BY <2>2 DEF File, Files
<1>3. /\ files' = [files EXCEPT ![here] = new]
      /\ users' = (users \ {At(path)}) \cup {new}
      /\ run' = run /\ hidden' = hidden
  BY DEF UserWrites
<1>4. At(path) = files[here] /\ files \in [Places -> Files]
  BY DEF At, DiskOK
<1>5. Sound(here, new)
  BY <1>2 DEF Sound, Clean, Whole
<1> HIDE DEF here, new
<1>6. /\ files' \in [Places -> Files] /\ files'[here] = new
      /\ \A pl \in Places : pl # here => files'[pl] = files[pl]
  BY <1>1, <1>2, <1>3, <1>4, OneFile
<1>7. \A r \in Runs : Quarantine(r)' = Quarantine(r) /\ Stage(r)' = Stage(r)
  BY DEF Quarantine, Stage
<1>8. \A r \in Runs : Private(run'[r], files'[Quarantine(r)], files'[Stage(r)])
  BY <1>1, <1>3, <1>6 DEF DiskOK
<1>9. \A pl \in Places : Sound(pl, files'[pl])
  BY <1>5, <1>6 DEF DiskOK
<1>10. DiskOK'
  BY <1>6, <1>7, <1>8, <1>9 DEF DiskOK
<1>11. /\ users' \subseteq Files /\ hidden' \subseteq Files
       /\ \A f \in users' : f.what = "foreign"
  BY <1>2, <1>3 DEF UsersOK
<1>12. ASSUME NEW f \in users'
       PROVE  f \in hidden' \/ \E p \in Places : files'[p] = f
  <2>1. CASE f = new
    BY <1>1, <1>6, <2>1
  <2>2. CASE f # new
    <3>1. f \in users /\ f # files[here]
      BY <1>3, <1>4, <2>2
    <3>2. f \in hidden \/ \E p \in Places : files[p] = f
      BY <3>1 DEF UsersOK, ForeignFilesSurvive
    <3> QED BY <1>3, <1>6, <3>1, <3>2
  <2> QED BY <2>1, <2>2
<1>13. UsersOK'
  BY <1>11, <1>12 DEF UsersOK, ForeignFilesSurvive
<1> QED BY <1>10, <1>13 DEF DiskSafe

(* A lock or a placeholder is removed by hand.                              *)
LEMMA TidyDisk ==
  ASSUME RunsOK, DiskOK, UsersOK, NEW path \in Paths, Tidy(path)
  PROVE  DiskSafe
<1> DEFINE here == <<path, 0>>
<1>1. /\ here \in Places
      /\ \A r \in Runs : here # Stage(r) /\ here # Quarantine(r)
           /\ Stage(r) \in Places /\ Quarantine(r) \in Places
  BY PlacesAre
<1>3. /\ files' = [files EXCEPT ![here] = None] /\ users' = users
      /\ At(path).what \in {"lock", "placeholder"}
      /\ run' = run /\ hidden' = hidden
  BY DEF Tidy
<1>4. At(path) = files[here] /\ files \in [Places -> Files]
  BY DEF At, DiskOK
<1> HIDE DEF here
<1>6. /\ files' \in [Places -> Files] /\ files'[here] = None
      /\ \A pl \in Places : pl # here => files'[pl] = files[pl]
  BY <1>1, <1>3, <1>4, NoneIs, OneFile
<1>7. \A r \in Runs : Quarantine(r)' = Quarantine(r) /\ Stage(r)' = Stage(r)
  BY DEF Quarantine, Stage
<1>8. \A r \in Runs : Private(run'[r], files'[Quarantine(r)], files'[Stage(r)])
  BY <1>1, <1>3, <1>6 DEF DiskOK
<1>9. \A pl \in Places : Sound(pl, files'[pl])
  BY <1>6, NoneIs DEF DiskOK
<1>10. DiskOK'
  BY <1>6, <1>7, <1>8, <1>9 DEF DiskOK
<1>11. \A pl \in Places : files[pl].what = "foreign"
         => \E p \in Places : files'[p] = files[pl]
  BY <1>3, <1>4, <1>6
<1>12. UsersOK'
  BY <1>3, <1>11, UsersKeep DEF UsersOK
<1> QED BY <1>10, <1>12 DEF DiskSafe

(* A drift touches no file.                                                 *)
LEMMA DriftDisk ==
  ASSUME RunsOK, DiskOK, UsersOK, NEW input \in {"bundle", "closure"},
         Drift(input)
  PROVE  DiskSafe
<1>1. files' = files /\ users' = users /\ hidden' = hidden
  BY DEF Drift
<1>2. \A r \in Runs : Quarantine(r)' = Quarantine(r) /\ Stage(r)' = Stage(r)
  BY DEF Quarantine, Stage
<1>3. \A r \in Runs : run'[r].op = run[r].op /\ run'[r].pc = run[r].pc
  BY DriftMoves DEF SameButClean
<1>4. \A r \in Runs : Private(run'[r], files'[Quarantine(r)], files'[Stage(r)])
  BY <1>1, <1>3 DEF DiskOK, Private
<1>5. DiskOK'
  BY <1>1, <1>2, <1>4 DEF DiskOK
<1>6. UsersOK'
  BY <1>1, UsersKeep DEF UsersOK
<1> QED BY <1>5, <1>6 DEF DiskSafe

(* The runs that may call are finitely many.                                *)
LEMMA RunsAreFinite == IsFiniteSet(Runs) /\ \A c : IsFiniteSet(Callers(c))
  /\ Cardinality(Callers(c)) \in Nat
<1>1. IsFiniteSet(Runs)
  BY FS_Interval, BoundsAreNatural DEF Runs
<1>2. \A c : Callers(c) \subseteq Runs
  BY DEF Callers
<1> QED BY <1>1, <1>2, FS_Subset, FS_CardinalityType

(* How often the model may still be called only ever falls.                 *)
LEMMA CountedKeeps ==
  ASSUME RunsOK, Counted, paid \in [Coordinates -> 0..MaxStarts], paid' = paid,
         \A r \in Runs : \A c \in Coordinates : MayCall(run'[r], c)
           => MayCall(run[r], c)
  PROVE  Counted'
<1>1. ASSUME NEW c \in Coordinates
      PROVE  paid[c] + Cardinality(Callers(c)') <= MaxStarts
  <2>1. Callers(c)' \subseteq Callers(c)
    BY <1>1 DEF Callers
  <2>2. IsFiniteSet(Callers(c)) /\ Cardinality(Callers(c)) \in Nat
    BY RunsAreFinite
  <2>3. /\ Cardinality(Callers(c)') <= Cardinality(Callers(c))
        /\ Cardinality(Callers(c)') \in Nat
    <3>1. IsFiniteSet(Callers(c)')
      BY <2>1, <2>2, FS_Subset
    <3> QED BY <2>1, <2>2, <3>1, FS_Subset, FS_CardinalityType
  <2>4. paid[c] + Cardinality(Callers(c)) <= MaxStarts /\ paid[c] \in Nat
    BY BoundsAreNatural DEF Counted
  <2> QED BY <2>2, <2>3, <2>4, BoundsAreNatural
<1> QED BY <1>1 DEF Counted

(* A step that calls nothing keeps the accounts.                            *)
LEMMA CallsKeep ==
  ASSUME RunsOK, PaidOK, Counted, NEW r \in Runs, NEW y, Moves(r, y),
         Tame(run[r], y), paid' = paid, drifted' = drifted
  PROVE  PaidOK' /\ Counted'
<1>1. run'[r] = y /\ \A q \in Runs : q # r => run'[q] = run[q]
  BY MovesKeep
<1>2. Counted'
  <2>1. \A q \in Runs : \A c \in Coordinates : MayCall(run'[q], c)
          => MayCall(run[q], c)
    BY <1>1 DEF Tame
  <2> QED BY <2>1, CountedKeeps DEF PaidOK
<1>3. ASSUME NEW q \in Runs, run'[q].pc = "call", run'[q].op = NoOp
      PROVE  /\ paid'[NextCoordinate(run'[q].samples, run'[q].block)] >= 1
             /\ ~run'[q].clean => "closure" \in drifted'
  <2>1. q # r
    BY <1>1, <1>3 DEF Tame
  <2> QED BY <1>1, <1>3, <2>1 DEF PaidOK, CallsOK
<1>4. CallsOK'
  BY <1>3 DEF CallsOK
<1> QED BY <1>2, <1>4 DEF PaidOK

(* The rest of the world.                                                   *)
WorldOK == /\ drifted \subseteq {"bundle", "closure"}
           /\ touched \in BOOLEAN /\ mishaps \in 0..MaxMishaps

(* The inductive invariant of a campaign: consistent runs, a sound          *)
(* directory, no lost file of others, calls that were paid and counted.     *)
CampaignInv == RunsOK /\ DiskOK /\ UsersOK /\ PaidOK /\ Counted /\ WorldOK

(* It holds when nothing has begun.                                         *)
LEMMA InitHolds == Init => CampaignInv
<1> SUFFICES ASSUME Init PROVE CampaignInv
  OBVIOUS
<1>1. ASSUME NEW r \in Runs
      PROVE /\ run[r] = NewRun /\ run[r] \in RunStates /\ LocalOK(r, run[r])
  <2> DEFINE y == NewRun
  <2>1. /\ y \in RunStates /\ y.pc = "idle" /\ y.op = NoOp /\ y.samples = {}
        /\ y.kept = {} /\ y.own = None /\ y.todo = 0
        /\ y.targets = [o \in Outputs |-> Unreserved]
    BY NewIsTyped DEF NewRun
  <2>2. run[r] = y
    BY DEF Init
  <2> HIDE DEF y
  <2>3. SamplesOK(y) /\ PhaseOK(y) /\ OpOK(r, y)
    BY <2>1 DEF SamplesOK, PhaseOK, OpOK, Distinct, Clean, IsBlank, Ended, Act
  <2>4. TargetsOK(r, y)
    BY <2>1
    DEF TargetsOK, TargetOK, FinalTargetOK, PartialTargetOK, Unreserved,
        FinalPaths, Outputs, Act
  <2>5. y = NewRun
    BY DEF y
  <2> QED BY <2>1, <2>2, <2>3, <2>4, <2>5 DEF LocalOK
<1>2. RunsOK
  <2>1. run = [r \in Runs |-> NewRun]
    BY DEF Init
  <2> QED BY <1>1, <2>1, NewIsTyped DEF RunsOK
<1>3. files = [p \in Places |-> None]
  BY DEF Init
<1>4. DiskOK
  <2>1. ASSUME NEW r \in Runs
        PROVE  Private(run[r], files[Quarantine(r)], files[Stage(r)])
    <3>1. run[r].op.step = "none"
      BY <1>1 DEF NewRun, NoOp
    <3>2. files[Quarantine(r)] = None /\ files[Stage(r)] = None
      BY <1>3, PlacesAre
    <3> QED BY <3>1, <3>2 DEF Private
  <2> QED BY <1>3, <2>1, NoneIs DEF DiskOK
<1>5. UsersOK
  BY DEF Init, UsersOK, ForeignFilesSurvive
<1>6. paid = [c \in Coordinates |-> 0]
  BY DEF Init
<1>7. PaidOK
  <2>1. \A r \in Runs : run[r].pc = "idle"
    BY <1>1 DEF NewRun
  <2>2. CallsOK
    BY <2>1 DEF CallsOK
  <2> QED BY <1>6, <2>2, BoundsAreNatural DEF PaidOK
<1>8. Counted
  <2>1. ASSUME NEW c \in Coordinates
        PROVE  paid[c] + Cardinality(Callers(c)) <= MaxStarts
    <3>1. Callers(c) \subseteq Runs
      BY DEF Callers
    <3>2. IsFiniteSet(Runs) /\ Cardinality(Runs) = MaxStarts
      <4>1. MaxStarts \in Nat
        BY BoundsAreNatural
      <4>2. Cardinality(1..MaxStarts) = IF 1 > MaxStarts THEN 0
              ELSE MaxStarts - 1 + 1
        BY <4>1, FS_Interval
      <4> QED BY <4>1, <4>2, RunsAreFinite DEF Runs
    <3>3. /\ Cardinality(Callers(c)) <= Cardinality(Runs)
          /\ Cardinality(Callers(c)) \in Nat
      BY <3>1, <3>2, FS_Subset, RunsAreFinite
    <3> QED BY <1>6, <3>2, <3>3, BoundsAreNatural
  <2> QED BY <2>1 DEF Counted
<1>9. WorldOK
  <2>1. drifted = {} /\ touched = FALSE /\ mishaps = 0
    BY DEF Init
  <2>2. MaxMishaps \in Nat
    BY BoundsAreNatural
  <2>3. drifted \subseteq {"bundle", "closure"} /\ mishaps \in 0..MaxMishaps
    BY <2>1, <2>2
  <2>4. touched \in BOOLEAN
    BY <2>1
  <2> QED BY <2>3, <2>4 DEF WorldOK
<1> QED BY <1>2, <1>4, <1>5, <1>7, <1>8, <1>9 DEF CampaignInv

(* A call is counted, and it is one of those its run could make.            *)
LEMMA BeginSampleCounts ==
  ASSUME RunsOK, PaidOK, Counted, NEW r \in Runs, BeginSample(r)
  PROVE  PaidOK' /\ Counted'
<1> DEFINE x == run[r]
           y == run'[r]
<1>0. NextCoordinate(x.samples, x.block) \in Coordinates
  BY BeginSampleMoves
<1>p. PICK c \in Coordinates : c = NextCoordinate(x.samples, x.block)
  BY <1>0
<1>1. /\ Moves(r, y) /\ x.pc = "next" /\ x.op = NoOp /\ y.op = NoOp
      /\ x.block \in DOMAIN Blocks /\ c \in Coordinates
      /\ y.samples = x.samples /\ y.block = x.block
      /\ \/ y.pc \in {"verify", "fail"} /\ UNCHANGED paid
         \/ /\ y.pc = "call" /\ y.clean = TRUE
            /\ ~abBlockComplete(x.samples, x.block)
            /\ paid' = [paid EXCEPT ![c] = @ + 1]
  BY <1>p, BeginSampleMoves
<1>2. drifted' = drifted
  BY DEF BeginSample
<1>3. CASE y.pc \in {"verify", "fail"} /\ UNCHANGED paid
  <2>1. Tame(x, y)
    BY <1>1, <1>3 DEF Tame, MayCall
  <2> QED BY <1>1, <1>2, <1>3, <2>1, CallsKeep
<1>4. ASSUME y.pc = "call", y.clean = TRUE,
             ~abBlockComplete(x.samples, x.block),
             paid' = [paid EXCEPT ![c] = @ + 1]
      PROVE  PaidOK' /\ Counted'
  <2>1. \A q \in Runs : q # r => run'[q] = run[q]
    BY <1>1, MovesKeep
  <2>2. x.samples \in SUBSET Samples
    BY RunIs DEF RunStates
  <2>3. c \notin CoordinatesOf(x.samples)
    BY <1>1, <1>4, <1>p, <2>2, PopulationIs
  <2>4. c = NextCoordinate(y.samples, y.block)
    BY <1>1, <1>p
  <2>5. paid \in [Coordinates -> 0..MaxStarts] /\ MaxStarts \in Nat
    BY BoundsAreNatural DEF PaidOK
  <2>6. /\ paid'[c] = paid[c] + 1
        /\ \A d \in Coordinates : d # c => paid'[d] = paid[d]
    BY <1>1, <1>4, <2>5
  <2>7. MayCall(x, c) /\ ~MayCall(y, c)
    BY <1>1, <1>4, <2>3, <2>4 DEF MayCall
  <2>8. \A d \in Coordinates : MayCall(y, d) => MayCall(x, d)
    BY <1>1, <1>4 DEF MayCall
  <2>9. \A d \in Coordinates : Callers(d)' \subseteq Callers(d)
    BY <2>1, <2>8 DEF Callers
  <2>10. r \in Callers(c) /\ Callers(c)' \subseteq Callers(c) \ {r}
    <3>1. r \in Callers(c)
      BY <1>1, <2>7 DEF Callers
    <3>2. r \notin Callers(c)'
      BY <1>1, <2>7 DEF Callers
    <3> QED BY <2>9, <3>1, <3>2
  <2>11. ASSUME NEW d \in Coordinates
         PROVE  /\ IsFiniteSet(Callers(d)) /\ IsFiniteSet(Callers(d)')
                /\ Cardinality(Callers(d)) \in Nat
                /\ Cardinality(Callers(d)') \in Nat
                /\ Cardinality(Callers(d)') <= Cardinality(Callers(d))
    <3>1. IsFiniteSet(Callers(d)) /\ Cardinality(Callers(d)) \in Nat
      BY RunsAreFinite
    <3>2. Callers(d)' \subseteq Callers(d)
      BY <2>9
    <3> QED BY <3>1, <3>2, FS_Subset, FS_CardinalityType
  <2>12. Cardinality(Callers(c)') <= Cardinality(Callers(c)) - 1
    <3>1. IsFiniteSet(Callers(c)) /\ Cardinality(Callers(c)) \in Nat
      BY RunsAreFinite
    <3>2. /\ IsFiniteSet(Callers(c) \ {r})
          /\ Cardinality(Callers(c) \ {r}) = Cardinality(Callers(c)) - 1
      BY <2>10, <3>1, FS_RemoveElement
    <3> QED BY <2>10, <3>2, FS_Subset
  <2>13. ASSUME NEW d \in Coordinates
         PROVE  paid'[d] + Cardinality(Callers(d)') <= MaxStarts
    <3> DEFINE n == Cardinality(Callers(d))
               m == Cardinality(Callers(d)')
    <3>1. paid[d] + n <= MaxStarts
      BY DEF Counted
    <3>2. n \in Nat /\ m \in Nat /\ m <= n /\ paid[d] \in Nat
      BY <2>5, <2>11
    <3>3. d = c => m <= n - 1
      BY <2>12
    <3>4. paid'[d] = IF d = c THEN paid[d] + 1 ELSE paid[d]
      BY <2>6
    <3> HIDE DEF n, m
    <3>5. paid'[d] + m <= MaxStarts
      BY <2>5, <3>1, <3>2, <3>3, <3>4
    <3> QED BY <3>5 DEF m
  <2>14. Counted'
    BY <2>13 DEF Counted
  <2>15. paid' \in [Coordinates -> 0..MaxStarts]
    <3>1. paid[c] + 1 \in 0..MaxStarts
      <4> DEFINE n == Cardinality(Callers(c))
                 m == Cardinality(Callers(c)')
      <4>1. /\ n \in Nat /\ m \in Nat /\ m <= n - 1 /\ paid[c] \in Nat
            /\ paid[c] + n <= MaxStarts
        BY <1>1, <2>5, <2>11, <2>12 DEF Counted
      <4> HIDE DEF n, m
      <4> QED BY <2>5, <4>1
    <3> QED BY <1>1, <1>4, <2>5, <3>1
  <2>16. \A d \in Coordinates : paid'[d] >= paid[d]
    BY <2>5, <2>6
  <2>17. ASSUME NEW q \in Runs, run'[q].pc = "call", run'[q].op = NoOp
         PROVE  /\ paid'[NextCoordinate(run'[q].samples, run'[q].block)] >= 1
                /\ ~run'[q].clean => "closure" \in drifted'
    <3>1. CASE q = r
      <4>1. paid'[c] >= 1
        BY <1>1, <2>5, <2>6
      <4> QED BY <1>4, <2>4, <3>1, <4>1
    <3>2. CASE q # r
      <4> DEFINE z == run[q]
                 d == NextCoordinate(z.samples, z.block)
      <4>1. run'[q] = z /\ z.pc = "call" /\ z.op = NoOp
        BY <2>1, <2>17, <3>2
      <4>2. paid[d] >= 1 /\ (~z.clean => "closure" \in drifted)
        BY <4>1 DEF PaidOK, CallsOK
      <4>3. d \in Coordinates
        <5>1. z \in RunStates /\ LocalOK(q, z)
          BY RunIs
        <5> QED BY <4>1, <5>1, PopulationIs DEF RunStates, LocalOK, PhaseOK
      <4>4. paid'[d] >= 1
        <5> HIDE DEF d
        <5> QED BY <2>5, <2>6, <4>2, <4>3
      <4> QED BY <1>2, <4>1, <4>2, <4>4
    <3> QED BY <3>1, <3>2
  <2>18. CallsOK'
    BY <2>17 DEF CallsOK
  <2> QED BY <2>14, <2>15, <2>18 DEF PaidOK
<1> QED BY <1>1, <1>3, <1>4

(* Every step of a run keeps the invariant.                                 *)
LEMMA RunsKeep ==
  ASSUME CampaignInv, NEW r \in Runs,
         \/ \E mode \in {"fresh", "resume"} : Begin(r, mode)
         \/ commandAB(r)
         \/ FileStep(r)
         \/ Crash(r)
  PROVE  CampaignInv'
<1>1. RunsOK /\ DiskOK /\ UsersOK /\ PaidOK /\ Counted /\ WorldOK
  BY DEF CampaignInv
<1>2. FilesOK
  BY <1>1 DEF DiskOK, FilesOK, Sound
<1>3. /\ drifted' = drifted /\ touched' = touched
      /\ (mishaps' = mishaps \/ Happens)
  BY DEF Begin, commandAB, FileStep, Crash, acquireABResumeLock, openABResume,
         reserveABOutputs, FirstCheckpoint, BeginBlock, BeginSample, EndSample,
         VerifyBlock, finalizeFailure, Finish, PublishOrReuse,
         RollbackPublished, RemoveAfterSuccess, CloseReservations, CloseResume,
         Check, Rename, Settle, Link, Exchange, Confirm, ExchangeBack, Quiet,
         Elsewhere, Fine
<1>4. WorldOK'
  <2>1. mishaps' \in 0..MaxMishaps
    BY <1>1, <1>3, BoundsAreNatural DEF WorldOK, Happens
  <2>2. touched' \in BOOLEAN
    BY <1>1, <1>3 DEF WorldOK
  <2> QED BY <1>1, <1>3, <2>1, <2>2 DEF WorldOK
<1>5. RunsOK' /\ PaidOK' /\ Counted'
  <2>1. CASE BeginSample(r)
    <3>1. Moves(r, run'[r])
      BY <1>1, <2>1, BeginSampleMoves
    <3> QED BY <1>1, <2>1, <3>1, MovesKeep, BeginSampleCounts
  <2>2. CASE ~BeginSample(r)
    <3>1. paid' = paid
      BY <2>2
      DEF Begin, commandAB, FileStep, Crash, acquireABResumeLock, openABResume,
          reserveABOutputs, FirstCheckpoint, BeginBlock, EndSample, VerifyBlock,
          finalizeFailure, Finish, PublishOrReuse, RollbackPublished,
          RemoveAfterSuccess, CloseReservations, CloseResume, Check, Rename,
          Settle, Link, Exchange, Confirm, ExchangeBack, Quiet, Elsewhere
    <3>2. PICK y : Moves(r, y) /\ Tame(run[r], y)
      BY <1>1, <1>2, <2>2, CommandsAreTame, FileStepsAreTame
    <3> QED BY <1>1, <1>3, <3>1, <3>2, MovesKeep, CallsKeep
  <2> QED BY <2>1, <2>2
<1>6. DiskSafe
  <2>1. FileStep(r) => DiskSafe
    BY <1>1, CheckDisk, RenameDisk, SettleDisk, LinkDisk, ExchangeDisk,
       ConfirmDisk, BackDisk
    DEF FileStep
  <2>2. Crash(r) => DiskSafe
    BY <1>1, CrashDisk
  <2>3. acquireABResumeLock(r) => DiskSafe
    BY <1>1, LockDisk
  <2>4. reserveABOutputs(r) => DiskSafe
    BY <1>1, ReserveDisk
  <2>5. (\E mode \in {"fresh", "resume"} : Begin(r, mode)) => DiskSafe
    BY <1>1, QuietDisk
  <2>6. commandAB(r) /\ ~acquireABResumeLock(r) /\ ~reserveABOutputs(r)
          => DiskSafe
    BY <1>1, QuietDisk
  <2> QED BY <2>1, <2>2, <2>3, <2>4, <2>5, <2>6
<1> QED BY <1>4, <1>5, <1>6 DEF CampaignInv, DiskSafe

(* Every step beside the runs that leaves a sound directory keeps it.       *)
LEMMA OthersKeep ==
  ASSUME CampaignInv, run' = run, paid' = paid, DiskSafe, WorldOK',
         \/ drifted' = drifted
         \/ \A r \in Runs : ~Alive(r)
  PROVE  CampaignInv'
<1>1. RunsOK /\ PaidOK /\ Counted
  BY DEF CampaignInv
<1>2. RunsOK'
  BY <1>1 DEF RunsOK
<1>3. Counted'
  BY <1>1, CountedKeeps DEF PaidOK
<1>4. ASSUME NEW q \in Runs, run[q].pc = "call", run[q].op = NoOp, ~run[q].clean
      PROVE  "closure" \in drifted'
  <2>1. drifted' = drifted
    BY <1>4 DEF Alive
  <2> QED BY <1>1, <1>4, <2>1 DEF PaidOK, CallsOK
<1>5. CallsOK'
  BY <1>1, <1>4 DEF PaidOK, CallsOK
<1>6. PaidOK'
  BY <1>1, <1>5 DEF PaidOK
<1> QED BY <1>2, <1>3, <1>6 DEF CampaignInv, DiskSafe

(* A drift keeps it: it taints the calls that run.                          *)
LEMMA DriftKeeps ==
  ASSUME CampaignInv, NEW input \in {"bundle", "closure"}, Drift(input)
  PROVE  CampaignInv'
<1>1. RunsOK /\ DiskOK /\ UsersOK /\ PaidOK /\ Counted /\ WorldOK
  BY DEF CampaignInv
<1>2. /\ RunsOK'
      /\ \A r \in Runs : /\ SameButClean(run[r], run'[r])
                         /\ run'[r].clean = run[r].clean
                              \/ (input = "closure" /\ run'[r].clean = FALSE)
  BY <1>1, DriftMoves
<1>3. /\ paid' = paid /\ drifted' = drifted \cup {input} /\ touched' = touched
      /\ mishaps' = mishaps + 1 /\ mishaps < MaxMishaps
  BY DEF Drift, Happens
<1>4. Counted'
  <2>1. \A r \in Runs : \A c \in Coordinates : MayCall(run'[r], c)
          => MayCall(run[r], c)
    BY <1>2 DEF SameButClean, MayCall
  <2> QED BY <1>1, <1>3, <2>1, CountedKeeps DEF PaidOK
<1>5. ASSUME NEW q \in Runs, run'[q].pc = "call", run'[q].op = NoOp
      PROVE  /\ paid'[NextCoordinate(run'[q].samples, run'[q].block)] >= 1
             /\ ~run'[q].clean => "closure" \in drifted'
  <2>1. /\ run[q].pc = "call" /\ run[q].op = NoOp
        /\ run'[q].samples = run[q].samples /\ run'[q].block = run[q].block
    BY <1>2, <1>5 DEF SameButClean
  <2>2. /\ paid[NextCoordinate(run[q].samples, run[q].block)] >= 1
        /\ (~run[q].clean => "closure" \in drifted)
    BY <1>1, <2>1 DEF PaidOK, CallsOK
  <2> QED BY <1>2, <1>3, <2>1, <2>2
<1>6. PaidOK'
  BY <1>1, <1>3, <1>5 DEF PaidOK, CallsOK
<1>7. WorldOK'
  <2>1. mishaps' \in 0..MaxMishaps
    BY <1>1, <1>3, BoundsAreNatural DEF WorldOK
  <2>2. touched' \in BOOLEAN
    BY <1>1, <1>3 DEF WorldOK
  <2> QED BY <1>1, <1>3, <2>1, <2>2 DEF WorldOK
<1>8. DiskSafe
  BY <1>1, DriftDisk
<1> QED BY <1>2, <1>4, <1>6, <1>7, <1>8 DEF CampaignInv, DiskSafe

(* A step that leaves runs and files alone leaves the directory sound.      *)
LEMMA FilesAlone ==
  ASSUME RunsOK, DiskOK, UsersOK, UNCHANGED <<run, files, users, hidden>>
  PROVE  DiskSafe
<1>1. \A r \in Runs : Quarantine(r)' = Quarantine(r) /\ Stage(r)' = Stage(r)
  BY DEF Quarantine, Stage
<1>2. DiskOK'
  BY <1>1 DEF DiskOK
<1>3. UsersOK'
  BY DEF UsersOK, ForeignFilesSurvive
<1> QED BY <1>2, <1>3 DEF DiskSafe

(* Every step keeps the invariant.                                          *)
LEMMA InvKeeps == CampaignInv /\ [Next]_vars => CampaignInv'
<1> SUFFICES ASSUME CampaignInv, [Next]_vars PROVE CampaignInv'
  OBVIOUS
<1>1. RunsOK /\ DiskOK /\ UsersOK /\ PaidOK /\ Counted /\ WorldOK
  BY DEF CampaignInv
<1>2. CASE \E r \in Runs : \/ \E mode \in {"fresh", "resume"} : Begin(r, mode)
                           \/ commandAB(r) \/ FileStep(r) \/ Crash(r)
  BY <1>2, RunsKeep
<1>3. ASSUME NEW path \in Paths, UserWrites(path) PROVE CampaignInv'
  <2>1. /\ run' = run /\ paid' = paid /\ drifted' = drifted /\ touched' = TRUE
        /\ mishaps' = mishaps + 1 /\ mishaps < MaxMishaps
    BY <1>3 DEF UserWrites, Happens
  <2>2. DiskSafe
    BY <1>1, <1>3, UserWritesDisk DEF WorldOK
  <2>3. WorldOK'
    <3>1. mishaps' \in 0..MaxMishaps
      BY <1>1, <2>1, BoundsAreNatural DEF WorldOK
    <3>2. touched' \in BOOLEAN
      BY <2>1
    <3> QED BY <1>1, <2>1, <3>1, <3>2 DEF WorldOK
  <2> QED BY <2>1, <2>2, <2>3, OthersKeep
<1>4. ASSUME NEW path \in Paths, Tidy(path) PROVE CampaignInv'
  <2>1. UNCHANGED <<run, paid, drifted, touched, mishaps>>
    BY <1>4 DEF Tidy, Fine
  <2>2. DiskSafe
    BY <1>1, <1>4, TidyDisk
  <2>3. WorldOK'
    BY <1>1, <2>1 DEF WorldOK
  <2> QED BY <2>1, <2>2, <2>3, OthersKeep
<1>5. ASSUME NEW input \in {"bundle", "closure"}, Drift(input)
      PROVE  CampaignInv'
  BY <1>5, DriftKeeps
<1>6. CASE Repair
  <2>1. /\ UNCHANGED <<run, files, paid, users, hidden, touched, mishaps>>
        /\ drifted' = {}
        /\ \A r \in Runs : ~Alive(r)
    BY <1>6 DEF Repair, Fine
  <2>2. DiskSafe
    BY <1>1, <2>1, FilesAlone
  <2>3. WorldOK'
    BY <1>1, <2>1 DEF WorldOK
  <2> QED BY <2>1, <2>2, <2>3, OthersKeep
<1>7. CASE UNCHANGED vars
  <2>1. UNCHANGED <<run, files, paid, drifted, users, hidden, touched, mishaps>>
    BY <1>7 DEF vars
  <2>2. DiskSafe
    BY <1>1, <2>1, FilesAlone
  <2>3. WorldOK'
    BY <1>1, <2>1 DEF WorldOK
  <2> QED BY <2>1, <2>2, <2>3, OthersKeep
<1> QED BY <1>2, <1>3, <1>4, <1>5, <1>6, <1>7 DEF Next, World

(* The invariant gives the types and the files of others.                   *)
LEMMA InvGives == CampaignInv => TypeOK /\ ForeignFilesSurvive
BY DEF CampaignInv, TypeOK, RunsOK, DiskOK, UsersOK, PaidOK, WorldOK

(* The invariant gives whole finals.                                        *)
LEMMA InvGivesWholeFinals ==
  ASSUME CampaignInv, NEW path \in Outputs \ {"partial"},
         At(path).what = "final"
  PROVE LET data == At(path).data
            whole == IF path = "comparison" THEN Coordinates
                     ELSE (DOMAIN Blocks) \X {path}
        IN  /\ CoordinatesOf(data) = whole
            /\ Cardinality(data) = Cardinality(whole)
            /\ \A s \in data : s[3]
<1> DEFINE data == At(path).data
           whole == IF path = "comparison" THEN Coordinates
               ELSE (DOMAIN Blocks) \X {path}
<1>1. path \in Paths /\ path \in FinalPaths
  BY DEF Paths, FinalPaths
<1>2. <<path, 0>> \in Places /\ <<path, 0>>[2] = 0 /\ <<path, 0>>[1] = path
  BY <1>1, PlacesAre
<1>3. Sound(<<path, 0>>, At(path)) /\ At(path) \in Files
  BY <1>2 DEF CampaignInv, DiskOK, At
<1>4. Clean(data) /\ Kept(data, path) /\ data \in SUBSET Samples
  BY <1>1, <1>2, <1>3 DEF Sound, Whole, Files
<1>5. CoordinatesOf(data) = whole /\ Distinct(data)
  BY <1>4 DEF Kept
<1>6. Cardinality(CoordinatesOf(data)) = Cardinality(data)
  BY <1>4, <1>5, DistinctIs
<1> QED BY <1>4, <1>5, <1>6 DEF Clean

(* For every plan and any number of runs, deaths, drifts and files of       *)
(* others: no file of somebody else in the result directory is lost, and    *)
(* every final there holds one sample of an intact closure for each         *)
(* coordinate of its arms.                                                  *)
THEOREM CampaignKeepsItsFiles ==
    Spec => [](TypeOK /\ ForeignFilesSurvive /\ FinalsAreWhole)
<1>1. CampaignInv => TypeOK /\ ForeignFilesSurvive /\ FinalsAreWhole
  BY InvGives, InvGivesWholeFinals DEF FinalsAreWhole
<1> QED BY <1>1, InitHolds, InvKeeps, PTL DEF Spec

===============================================================================
