------------------------ MODULE CampaignSharedProofs ------------------------
(***************************************************************************)
(* A campaign that nobody else has touched: what its runs know of each     *)
(* other through the directory they share.  As long as nobody else changes *)
(* its files, the three finals are of one population, no sample on disk is *)
(* paid for again and, while no bundle drifts, none is lost, however runs  *)
(* and resumes overlap.                                                    *)
(***************************************************************************)
EXTENDS CampaignProofs

(* Where a run may still call the model, where it knows the samples of the  *)
(* partial it owns, and where it is about to write the partial or has.      *)
Gathers == {"next", "call", "verify"}
Loaded(x) == x.pc \in Act \cup {"reserve"} /\ x.own # None

(* Between the exchange of the partial and its confirmation.                *)
Mid(x) == x.op.step \in {"confirm", "back"}
Writing(x) ==
    \/ x.pc \in Act \ {"first"}
    \/ /\ x.pc = "first" /\ x.mode = "resume"
       /\ x.op.step \in {"exchange", "confirm", "back"}

(* What a run has moved into its quarantine; what of its reservations it    *)
(* still holds: all of them, one it has spent.                              *)
Moved(x, p) == x.op.step = "settle" /\ x.op.path = p
Holds(r, x, p) == HeldTarget(r, x.targets[p])
Sole(r, x) == x.pc \in Act /\ \A p \in FinalPaths : Holds(r, x, p)
Spent(t) == ~t.preexisting /\ t.consumed
Consumed(x) == x.pc \in Act /\ \E p \in FinalPaths : Spent(x.targets[p])

(* A run with the complete population that still holds a final, past the    *)
(* gathering or with its last checkpoint exchanged.                         *)
Ready(r, x) ==
    /\ Complete(x.samples) /\ \E p \in FinalPaths : Holds(r, x, p)
    /\ \/ x.pc \in {"block", "next", "verify", "finish", "publish"}
       \/ x.pc = "call" /\ x.op.step = "confirm"

(* A failed run that gave up the block of a drifted bundle.                 *)
Restored(d, r, x) == x.pc = "fail" /\ Sole(r, x) /\ "bundle" \in d

(* What each phase says of the partial a run owns and of the samples before *)
(* its block.                                                               *)
StepsOK(x) ==
    /\ x.pc \in {"block", "next", "verify", "finish", "publish", "rollback",
                 "retire"} => x.own.data = x.samples
    /\ x.pc \in Gathers => ~Complete(x.kept)
    /\ x.pc = "call" => ~Complete(x.own.data)
    /\ x.pc = "rollback" /\ x.op # NoOp =>
          x.targets[x.op.path].published = None

(* The file at a path; what stands there of the campaign, and the paths that*)
(* only the run which claimed them may change.                              *)
In(F, p) == F[<<p, 0>>]
Started(F) == In(F, "partial").what = "partial"
Compared(F) == In(F, "comparison").what = "final"
Claims(F) == IF Compared(F) THEN FinalPaths ELSE Outputs
Lock(r) == File(r, "lock", {})

(* A run finds its placeholders, its lock, its published finals and the file*)
(* of its operation where it left them.                                     *)
HoldsPaths(F, r, x) ==
    /\ \A p \in Claims(F) :
          Holds(r, x, p) /\ ~Moved(x, p) => In(F, p) = Placeholder(r)
    /\ x.pc \in Act =>
          \A p \in FinalPaths :
             x.targets[p].published # None => In(F, p) = x.targets[p].published
HoldsLock(F, r, x) ==
    /\ x.mode = "resume" /\ x.pc \notin Ended \cup {"lock"}
         /\ ~Moved(x, "lock") => In(F, "lock") = Lock(r)
    /\ x.pc = "retire" => Compared(F)
Expects(F, r, x) ==
    x.op.path \in Claims(F) \cup {"lock"} /\ x.op.kind \in {"remove", "link"} =>
       /\ x.op.step \in {"check", "rename"} => In(F, x.op.path) = x.op.expected
       /\ x.op.step = "settle" => F[Quarantine(r)] = x.op.expected
Guarded(F, r, x) == /\ HoldsPaths(F, r, x)
                    /\ HoldsLock(F, r, x) /\ Expects(F, r, x)

(* Every path, and every private place, holds a file of the campaign of its *)
(* kind; the partial stays until the comparison stands.                     *)
KindsAt(p) == IF p = "lock" THEN {"none", "lock"}
              ELSE IF p = "partial" THEN {"none", "placeholder", "partial"}
              ELSE {"none", "placeholder", "final"}
KindOK(F, r, x) ==
    /\ x.op.step = "settle" => F[Quarantine(r)].what \in KindsAt(x.op.path)
    /\ Loaded(x) => Started(F) \/ Compared(F)
    /\ Mid(x) => F[Stage(r)].what \in KindsAt("partial")
    /\ Mid(x) /\ ~Compared(F) => F[Stage(r)].what = "partial"
KindsOK(F) == \A p \in Paths : In(F, p).what \in KindsAt(p)

(* The populations that are known: by the partial, by a run, or by the file *)
(* that a run has exchanged or moved away.                                  *)
StageIs(F, r, x, D) ==
    Mid(x) /\ F[Stage(r)].what = "partial" /\ F[Stage(r)].data = D
AsideIs(F, r, x, D) ==
    /\ Moved(x, "partial")
    /\ F[Quarantine(r)].what = "partial" /\ F[Quarantine(r)].data = D
Knows(F, r, x, D) ==
    \/ Loaded(x) /\ x.samples = D
    \/ StageIs(F, r, x, D) \/ AsideIs(F, r, x, D)
Val(F, X, D) == \/ Started(F) /\ In(F, "partial").data = D
                \/ \E r \in Runs : Knows(F, r, X[r], D)
Full(F, X, D) == Complete(D) /\ Val(F, X, D)
Agrees(d, r, x, D) == Writing(x) => x.samples = D \/ Restored(d, r, x)

(* Only one complete population is ever known, and whoever writes writes    *)
(* that one.                                                                *)
OneValue(F, X, d) ==
    \A D : Full(F, X, D) => /\ \A r \in Runs : Agrees(d, r, X[r], D)
                            /\ \A E : Full(F, X, E) => D = E

(* A run that has samples to gather owns the partial, and nobody else knows *)
(* a complete population.                                                   *)
Undone(x) == /\ x.pc \in Gathers \cup {"block"}
             /\ x.op.step \in {"none", "check", "exchange"}
             /\ ~Complete(x.own.data)
Alone(F, X) == \A w \in Runs : Undone(X[w]) =>
    /\ In(F, "partial") = X[w].own
    /\ \A q \in Runs : q # w /\ Loaded(X[q]) => ~Complete(X[q].samples)

(* A campaign is firm when a final stands, was published, or is about to be;*)
(* then everything that is known or written is complete, at most one run    *)
(* gathers, and the finals are parts of one population.                     *)
Firm(F, X) == \/ \E p \in FinalPaths : In(F, p).what = "final"
              \/ \E r \in Runs : Consumed(X[r]) \/ Ready(r, X[r])
SettledRun(F, X, r) ==
    LET x == X[r] IN
    /\ Mid(x) /\ F[Stage(r)].what = "partial" /\ ~Ready(r, x) =>
          Complete(F[Stage(r)].data)
    /\ Moved(x, "partial") /\ F[Quarantine(r)].what = "partial" =>
          Complete(F[Quarantine(r)].data)
    /\ Writing(x) => Complete(x.samples)
    /\ x.pc \in Gathers =>
          /\ Ready(r, x)
          /\ \A q \in Runs : q # r => ~Ready(q, X[q]) /\ ~Consumed(X[q])
SettledFinal(F, X, p) ==
    In(F, p).what = "final" =>
       /\ \A D : Full(F, X, D) => In(F, p).data = Part(D, p)
       /\ Compared(F) => In(F, p).data = Part(In(F, "comparison").data, p)
Settled(F, X) ==
    /\ ~Compared(F) => Started(F)
    /\ Started(F) => Complete(In(F, "partial").data)
    /\ \A r \in Runs : SettledRun(F, X, r)
    /\ \A p \in FinalPaths : SettledFinal(F, X, p)

(* The runs and the directory agree as long as nobody else has changed it.  *)
Consistent(F, X) ==
    /\ \A r \in Runs :
          StepsOK(X[r]) /\ Guarded(F, r, X[r]) /\ KindOK(F, r, X[r])
    /\ KindsOK(F)
Shared(F, X, d) == /\ Consistent(F, X) /\ OneValue(F, X, d) /\ Alone(F, X)
                   /\ (Firm(F, X) => Settled(F, X))

(* The inductive invariant of a campaign that only its runs have touched.   *)
SharedInv == CampaignInv /\ (~touched => Shared(files, run, drifted))

(* What a run's own state says of what it holds.                            *)
LEMMA PathsApart ==
  /\ FinalPaths = {"control", "candidate", "comparison"}
  /\ Outputs = FinalPaths \cup {"partial"} /\ "partial" \notin FinalPaths
  /\ "lock" \notin Outputs /\ Paths = Outputs \cup {"lock"}
  /\ \A F : Claims(F) \subseteq Outputs /\ FinalPaths \subseteq Claims(F)
BY DEF FinalPaths, Outputs, Paths, Claims

(* Whoever writes the partial has loaded it.                                *)
LEMMA WritersAreLoaded ==
  ASSUME NEW r \in Runs, NEW x \in RunStates, LocalOK(r, x)
  PROVE  /\ Writing(x) => Loaded(x)
         /\ Mid(x) => Writing(x) /\ x.op.kind = "replace"
         /\ x.op.kind = "replace" =>
               /\ x.op.path = "partial" /\ x.op.expected = x.own
               /\ x.pc \in {"first", "call", "fail"} /\ Loaded(x)
               /\ x.pc = "first" => x.mode = "resume" /\ x.op.then = "block"
               /\ x.pc = "call" => x.op.then \in {"next", "verify"}
               /\ x.pc = "fail" => x.op.then = "close"
               /\ x.op.otherwise = (IF x.pc = "call" THEN "fail" ELSE "close")
               /\ x.op.step \in {"check", "exchange", "confirm", "back"}
         /\ x.op.step \in {"exchange", "confirm", "back"} =>
               x.op.kind = "replace"
         /\ Loaded(x) => x.own.what = "partial"
<1>1. x.op = NoOp \/ x.op # NoOp
  OBVIOUS
<1>2. NoOp.kind = "none" /\ NoOp.step = "none"
  BY DEF NoOp
<1>3. PhaseOK(x) /\ OpOK(r, x)
  BY DEF LocalOK
<1>4. None.what = "none"
  BY DEF None, File
<1>5. Loaded(x) => x.own.what = "partial"
  BY <1>3 DEF Loaded, PhaseOK
<1>6. x.pc \in Act \ {"first"} => Loaded(x)
  BY <1>3, <1>4 DEF Loaded, PhaseOK, Act
<1>7. x.pc = "first" /\ x.mode = "resume" => Loaded(x)
  BY <1>3, <1>4 DEF Loaded, PhaseOK, Act
<1>8. Writing(x) => Loaded(x)
  BY <1>6, <1>7 DEF Writing
<1>9. x.op.step \in {"exchange", "confirm", "back"} =>
               x.op.kind = "replace"
  BY <1>2, <1>3 DEF OpOK, Sequel
<1>10. x.op.kind = "replace" =>
               /\ x.op.path = "partial" /\ x.op.expected = x.own
               /\ x.pc \in {"first", "call", "fail"}
               /\ x.pc = "first" => x.mode = "resume" /\ x.op.then = "block"
               /\ x.pc = "call" => x.op.then \in {"next", "verify"}
               /\ x.pc = "fail" => x.op.then = "close"
               /\ x.op.otherwise = (IF x.pc = "call" THEN "fail" ELSE "close")
               /\ x.op.step \in {"check", "exchange", "confirm", "back"}
  BY <1>2, <1>3 DEF OpOK, Sequel
<1>11. x.op.kind = "replace" => Loaded(x)
  BY <1>6, <1>7, <1>10 DEF Act
<1>12. Mid(x) => Writing(x) /\ x.op.kind = "replace"
  BY <1>9, <1>10 DEF Mid, Writing, Act
<1> QED BY <1>5, <1>8, <1>9, <1>10, <1>11, <1>12

(* Whoever writes and has samples to gather holds every final.              *)
LEMMA HoldersAre ==
  ASSUME NEW r \in Runs, NEW x \in RunStates, LocalOK(r, x)
  PROVE  /\ Writing(x) /\ ~Complete(x.samples) =>
               /\ Sole(r, x)
               /\ x.pc \in {"first", "block", "next", "call", "verify", "fail"}
         /\ x.pc \in Gathers => Sole(r, x) /\ Writing(x)
         /\ x.pc = "block" /\ ~Complete(x.samples) => Sole(r, x) /\ Writing(x)
         /\ x.pc = "first" /\ (x.mode = "fresh" \/ ~Complete(x.samples)) =>
               Sole(r, x)
         /\ Consumed(x) =>
               x.pc \in {"publish", "rollback", "retire", "fail"} /\ Writing(x)
         /\ Ready(r, x) => Writing(x)
<1>1. PhaseOK(x) /\ TargetsOK(r, x) /\ x.pc \in Steps
  BY DEF LocalOK, RunStates
<1>2. ASSUME NEW p \in FinalPaths, x.pc \in Act,
             ~x.targets[p].preexisting,
             x.pc \in {"first", "block", "next", "call", "verify", "finish"}
      PROVE  Holds(r, x, p)
  <2>1. FinalTargetOK(r, x, p) /\ TargetOK(r, x, p)
    BY <1>1 DEF TargetsOK, FinalPaths
  <2>2. x.targets[p].info # None /\ FreshTarget(x.targets[p])
    BY <1>2, <2>1 DEF FinalTargetOK
  <2> QED BY <1>2, <2>1, <2>2 DEF TargetOK, FreshTarget, Holds, HeldTarget
<1>3. ASSUME NEW p \in FinalPaths, x.pc \in Act, ~Complete(x.samples)
      PROVE  ~x.targets[p].preexisting
  BY <1>1, <1>3 DEF TargetsOK, TargetOK, FinalPaths
<1>4. ASSUME NEW p \in FinalPaths, x.pc \in Gathers
      PROVE  ~x.targets[p].preexisting
  BY <1>1, <1>4 DEF TargetsOK, FinalTargetOK, Gathers
<1>5. ASSUME NEW p \in FinalPaths, x.pc \in Act, x.mode = "fresh"
      PROVE  ~x.targets[p].preexisting
  BY <1>1, <1>5 DEF TargetsOK, TargetOK, FinalPaths
<1>6. x.pc \in Gathers => Sole(r, x) /\ Writing(x)
  BY <1>2, <1>4 DEF Gathers, Sole, Writing, Act
<1>7. x.pc \in {"first", "block"} /\ ~Complete(x.samples) => Sole(r, x)
  BY <1>2, <1>3 DEF Sole, Act
<1>8. x.pc = "first" /\ x.mode = "fresh" => Sole(r, x)
  BY <1>2, <1>5 DEF Sole, Act
<1>9. x.pc = "fail" /\ ~Complete(x.samples) => Sole(r, x)
  BY <1>1 DEF Sole, Act, TargetsOK, FinalTargetOK, Holds
<1>10. x.pc \in {"finish", "publish", "rollback", "retire"}
         => Complete(x.samples)
  BY <1>1 DEF PhaseOK
<1>11. Writing(x) => x.pc \in Act
  BY DEF Writing, Act
<1>12. Writing(x) /\ ~Complete(x.samples) =>
         /\ Sole(r, x)
         /\ x.pc \in {"first", "block", "next", "call", "verify", "fail"}
  BY <1>6, <1>7, <1>9, <1>10, <1>11 DEF Act, Gathers
<1>13. ASSUME Consumed(x)
       PROVE  x.pc \in {"publish", "rollback", "retire", "fail"} /\ Writing(x)
  <2>1. PICK p \in FinalPaths : Spent(x.targets[p]) /\ x.pc \in Act
    BY <1>13 DEF Consumed
  <2>2. FinalTargetOK(r, x, p)
    BY <1>1 DEF TargetsOK
  <2>3. x.pc \notin {"first", "block", "next", "call", "verify", "finish"}
    BY <2>1, <2>2 DEF FinalTargetOK, FreshTarget, Spent
  <2> QED BY <2>1, <2>3 DEF Act, Writing
<1>14. Ready(r, x) => Writing(x)
  BY DEF Ready, Writing, Act
<1>15. x.pc = "block" => Writing(x)
  BY DEF Writing, Act
<1> QED BY <1>6, <1>7, <1>8, <1>12, <1>13, <1>14, <1>15

(* One run moves; every other run, and what is private to it, stays.        *)
Turn(F, G, X, Y, r) ==
    /\ F \in [Places -> Files] /\ G \in [Places -> Files]
    /\ X \in [Runs -> RunStates] /\ Y \in [Runs -> RunStates]
    /\ \A q \in Runs : LocalOK(q, X[q]) /\ LocalOK(q, Y[q])
    /\ \A q \in Runs : q # r =>
          /\ Y[q] = X[q] /\ G[Stage(q)] = F[Stage(q)]
          /\ G[Quarantine(q)] = F[Quarantine(q)]

(* The partial is there until the comparison is, and the comparison stays.  *)
Onward(F, G) ==
    /\ Compared(F) => Compared(G)
    /\ Started(F) \/ Compared(F) => Started(G) \/ Compared(G)

(* A path that run r may change, whatever the others rely on.               *)
Free(F, r, p) == \/ In(F, p) = None \/ In(F, p).by = r
                 \/ In(F, p).what = "partial"
                 \/ (p = "partial" /\ Compared(F))

(* What a removal or a link expects at its path.                            *)
LEMMA ExpectedIs ==
  ASSUME NEW r \in Runs, NEW x \in RunStates, LocalOK(r, x),
         x.op.kind \in {"remove", "link"}
  PROVE  /\ x.op.expected # None /\ x.op.path \in Paths
         /\ \/ x.op.expected = x.own /\ x.pc = "retire" /\ x.op.path = "partial"
            \/ x.op.expected.by = r /\ x.op.expected.what # "partial"
         /\ x.op.path = "lock" => x.op.expected = Lock(r)
         /\ x.op.path = "partial" => x.op.expected = Placeholder(r)
                                       \/ x.pc = "retire"
         /\ x.op.path = "comparison" => x.op.expected = Placeholder(r)
         /\ x.op.kind = "link" => x.op.expected = Placeholder(r)
<1>1. OpOK(r, x) /\ NoOp.kind = "none"
  BY DEF LocalOK, NoOp
<1>2. x.op # NoOp
  BY <1>1
<1>3. x.op.expected # None /\ x.op.path \in Paths
  BY <1>2, ExpectedIsOwn
<1>4. /\ Placeholder(r).by = r /\ Placeholder(r).what = "placeholder"
      /\ Lock(r).by = r /\ Lock(r).what = "lock"
      /\ \A S, p : FinalOf(r, S, p).by = r /\ FinalOf(r, S, p).what = "final"
  BY DEF Placeholder, Lock, FinalOf, File
<1>5. x.pc = "publish" /\ x.op.kind = "link" /\ x.todo \in 2..4
        => Finals[x.todo - 1] \in FinalPaths
  BY PathsAre, PathsApart
<1> QED BY <1>1, <1>2, <1>3, <1>4, <1>5, PathsApart DEF OpOK, Sequel, Lock

(* A step of one run leaves the others consistent when it only changes paths*)
(* that are free to it.                                                     *)
LEMMA OthersConsistent ==
  ASSUME NEW F, NEW G, NEW X, NEW Y, NEW r, Turn(F, G, X, Y, r),
         Consistent(F, X), Compared(F) => Compared(G),
         Started(F) \/ Compared(F) => Started(G) \/ Compared(G),
         \A p \in Paths : In(G, p) = In(F, p) \/ Free(F, r, p),
         NEW q \in Runs, q # r
  PROVE  StepsOK(Y[q]) /\ Guarded(G, q, Y[q]) /\ KindOK(G, q, Y[q])
<1> DEFINE x == X[q]
<1>1. /\ Y[q] = x /\ G[Stage(q)] = F[Stage(q)]
      /\ G[Quarantine(q)] = F[Quarantine(q)] /\ LocalOK(q, x)
      /\ x \in RunStates
  BY DEF Turn
<1>2. StepsOK(x) /\ Guarded(F, q, x) /\ KindOK(F, q, x)
  BY DEF Consistent
<1> HIDE DEF x
<1>3. /\ Placeholder(q).by = q /\ Placeholder(q).what = "placeholder"
      /\ Lock(q).by = q /\ Lock(q).what = "lock"
      /\ \A S, p : FinalOf(q, S, p).by = q /\ FinalOf(q, S, p).what = "final"
      /\ Placeholder(q) # None /\ Lock(q) # None
      /\ \A S, p : FinalOf(q, S, p) # None
  BY DEF Placeholder, Lock, FinalOf, File, None
<1>4. /\ Claims(G) \subseteq Claims(F)
      /\ "partial" \in Claims(F) => ~Compared(F)
  BY PathsApart DEF Claims
<1>5. ASSUME NEW p \in Paths, NEW f, In(F, p) = f, f # None, f.by = q,
             f.what # "partial", p = "partial" => ~Compared(F)
      PROVE  In(G, p) = f
  BY <1>5 DEF Free
<1>6. HoldsPaths(G, q, x)
  <2>1. ASSUME NEW p \in Claims(G), Holds(q, x, p), ~Moved(x, p)
        PROVE  In(G, p) = Placeholder(q)
    <3>1. p \in Claims(F) /\ p \in Paths /\ In(F, p) = Placeholder(q)
      BY <1>2, <1>4, <2>1, PathsApart DEF Guarded, HoldsPaths
    <3>2. p = "partial" => ~Compared(F)
      BY <3>1, PathsApart DEF Claims
    <3> QED BY <1>3, <1>5, <3>1, <3>2
  <2>2. ASSUME x.pc \in Act, NEW p \in FinalPaths,
               x.targets[p].published # None
        PROVE  In(G, p) = x.targets[p].published
    <3>1. p \in Paths /\ p # "partial" /\ In(F, p) = x.targets[p].published
      BY <1>2, <2>2, PathsApart DEF Guarded, HoldsPaths
    <3>2. x.targets[p].published = FinalOf(q, x.samples, p)
      BY <1>1, <2>2 DEF LocalOK, TargetsOK, FinalTargetOK
    <3> QED BY <1>3, <1>5, <3>1, <3>2
  <2> QED BY <2>1, <2>2 DEF HoldsPaths
<1>7. HoldsLock(G, q, x)
  <2>1. x.mode = "resume" /\ x.pc \notin Ended \cup {"lock"}
         /\ ~Moved(x, "lock") => In(F, "lock") = Lock(q)
    BY <1>2 DEF Guarded, HoldsLock
  <2> QED BY <1>2, <1>3, <1>5, <2>1, PathsApart DEF HoldsLock, Guarded
<1>8. Expects(G, q, x)
  <2>1. ASSUME x.op.path \in Claims(G) \cup {"lock"},
               x.op.kind \in {"remove", "link"},
               x.op.step \in {"check", "rename"}
        PROVE  In(G, x.op.path) = x.op.expected
    <3>1. x.op.path \in Claims(F) \cup {"lock"} /\ x.op.path \in Paths
      BY <1>4, <2>1, PathsApart
    <3>2. In(F, x.op.path) = x.op.expected
      BY <1>2, <2>1, <3>1 DEF Guarded, Expects
    <3>3. x.op.path = "partial" => ~Compared(F)
      BY <3>1, PathsApart DEF Claims
    <3>4. x.op.expected # None /\ x.op.expected.by = q
            /\ x.op.expected.what # "partial"
      BY <1>1, <1>2, <2>1, <3>3, ExpectedIs DEF Guarded, HoldsLock
    <3> QED BY <1>5, <3>1, <3>2, <3>3, <3>4
  <2>2. ASSUME x.op.path \in Claims(G) \cup {"lock"},
               x.op.kind \in {"remove", "link"},
               x.op.step = "settle"
        PROVE  G[Quarantine(q)] = x.op.expected
    BY <1>1, <1>2, <1>4, <2>2 DEF Guarded, Expects
  <2> QED BY <2>1, <2>2 DEF Expects
<1>9. KindOK(G, q, x)
  BY <1>1, <1>2 DEF KindOK
<1> QED BY <1>1, <1>2, <1>6, <1>7, <1>8, <1>9 DEF Guarded

(* A step that leaves the files alone and claims no more.                   *)
LEMMA QuietConsistent ==
  ASSUME NEW F, NEW X, NEW Y, NEW r \in Runs, Turn(F, F, X, Y, r),
         Consistent(F, X), StepsOK(Y[r]), Expects(F, r, Y[r]),
         Y[r].op.step # "settle",
         \A p \in Outputs : Holds(r, Y[r], p) =>
            Holds(r, X[r], p) /\ ~Moved(X[r], p),
         Y[r].pc \in Act =>
            \A p \in FinalPaths : Y[r].targets[p].published # None =>
               /\ X[r].pc \in Act
               /\ Y[r].targets[p].published = X[r].targets[p].published,
         Y[r].mode = "resume" /\ Y[r].pc \notin Ended \cup {"lock"} =>
            /\ X[r].mode = "resume" /\ X[r].pc \notin Ended \cup {"lock"}
            /\ ~Moved(X[r], "lock"),
         Y[r].pc = "retire" => X[r].pc = "retire" \/ Compared(F),
         Loaded(Y[r]) => Loaded(X[r]) \/ Started(F),
         Mid(Y[r]) => Mid(X[r])
  PROVE  Consistent(F, Y)
<1> DEFINE x == X[r]
           y == Y[r]
<1>1. StepsOK(x) /\ Guarded(F, r, x) /\ KindOK(F, r, x)
  BY DEF Consistent
<1>2. HoldsPaths(F, r, y)
  <2>1. ASSUME NEW p \in Claims(F), Holds(r, y, p)
        PROVE  In(F, p) = Placeholder(r)
    <3>1. p \in Outputs
      BY PathsApart
    <3> QED BY <1>1, <2>1, <3>1 DEF Guarded, HoldsPaths
  <2>2. ASSUME y.pc \in Act, NEW p \in FinalPaths, y.targets[p].published # None
        PROVE  In(F, p) = y.targets[p].published
    BY <1>1, <2>2 DEF Guarded, HoldsPaths
  <2> QED BY <2>1, <2>2 DEF HoldsPaths
<1>3. HoldsLock(F, r, y)
  BY <1>1 DEF Guarded, HoldsLock
<1>4. KindOK(F, r, y)
  BY <1>1 DEF KindOK
<1>5. StepsOK(y) /\ Guarded(F, r, y) /\ KindOK(F, r, y)
  BY <1>2, <1>3, <1>4 DEF Guarded
<1>6. \A q \in Runs : q # r =>
        StepsOK(Y[q]) /\ Guarded(F, q, Y[q]) /\ KindOK(F, q, Y[q])
  BY OthersConsistent
<1> QED BY <1>5, <1>6 DEF Consistent

(* A run that is over, but for what it gives back.                          *)
Gone(x, y) ==
    /\ y.op = NoOp /\ y.pc \in {"close", "unlock", "done", "dead"}
    /\ y.targets \in {x.targets, [o \in Outputs |-> Unreserved]}
    /\ y.mode = "resume" /\ y.pc \notin Ended => 
         x.mode = "resume" /\ x.pc \notin Ended \cup {"lock"}

(* A run that is gone holds nothing.                                        *)
LEMMA GoneHolds ==
  ASSUME NEW r \in Runs, NEW x, NEW y, Gone(x, y), NEW p \in Outputs,
         Holds(r, y, p)
  PROVE  Holds(r, x, p) /\ y.targets = x.targets
<1>1. ~HeldTarget(r, Unreserved)
  BY DEF HeldTarget, Unreserved, Placeholder, None, File
<1> QED BY <1>1 DEF Gone, Holds

(* A run that is gone is consistent.                                        *)
LEMMA GoneConsistent ==
  ASSUME NEW F, NEW X, NEW Y, NEW r \in Runs, Turn(F, F, X, Y, r),
         Consistent(F, X), Gone(X[r], Y[r]),
         X[r].op.step # "settle" \/ Y[r].pc = "dead",
         Y[r].pc = "dead" => Y[r].targets = [o \in Outputs |-> Unreserved]
  PROVE  Consistent(F, Y)
<1> DEFINE x == X[r]
           y == Y[r]
<1>1. StepsOK(y) /\ Expects(F, r, y) /\ y.op.step # "settle" /\ ~Mid(y)
      /\ y.pc \notin Act /\ ~Loaded(y) /\ y.pc # "retire"
  BY DEF Gone, StepsOK, Expects, NoOp, Mid, Act, Loaded, Gathers
<1>2. ASSUME NEW p \in Outputs, Holds(r, y, p)
      PROVE  Holds(r, x, p) /\ ~Moved(x, p)
  <2>1. ~HeldTarget(r, Unreserved)
    BY DEF HeldTarget, Unreserved, Placeholder, None, File
  <2>2. y.pc # "dead"
    BY <1>2, <2>1 DEF Holds
  <2> QED BY <1>2, <2>2, GoneHolds DEF Moved
<1>3. y.mode = "resume" /\ y.pc \notin Ended \cup {"lock"} =>
            /\ x.mode = "resume" /\ x.pc \notin Ended \cup {"lock"}
            /\ ~Moved(x, "lock")
  BY DEF Gone, Moved, Ended
<1> QED BY <1>1, <1>2, <1>3, QuietConsistent

(* A run that goes on with what it has.                                     *)
SameSelf(x, y) ==
    /\ y.own = x.own /\ y.targets = x.targets /\ y.mode = x.mode
    /\ y.op = NoOp

(* A run whose claims stay as they are stays consistent.                    *)
LEMMA TurnConsistent ==
  ASSUME NEW F, NEW X, NEW Y, NEW r \in Runs, Turn(F, F, X, Y, r),
         Consistent(F, X), SameSelf(X[r], Y[r]), StepsOK(Y[r]),
         X[r].pc \in Act, Y[r].pc \in Act, X[r].op.step # "settle",
         Y[r].pc = "retire" => X[r].pc = "retire" \/ Compared(F)
  PROVE  Consistent(F, Y)
<1> DEFINE x == X[r]
           y == Y[r]
<1>1. Expects(F, r, y) /\ y.op.step # "settle" /\ ~Mid(y)
  BY DEF SameSelf, Expects, NoOp, Mid
<1>2. \A p \in Outputs : Holds(r, y, p) => Holds(r, x, p) /\ ~Moved(x, p)
  BY DEF SameSelf, Holds, Moved
<1>3. Loaded(y) => Loaded(x)
  BY DEF Loaded, SameSelf
<1>4. x.pc \notin Ended \cup {"lock"} /\ ~Moved(x, "lock")
  BY DEF Act, Ended, Moved
<1> QED BY <1>1, <1>2, <1>3, <1>4, QuietConsistent DEF SameSelf

(* Every step of a run is a turn.                                           *)
LEMMA TurnOf ==
  ASSUME CampaignInv, CampaignInv', NEW r \in Runs, NEW y, Moves(r, y),
         \A q \in Runs : q # r =>
            /\ files'[Stage(q)] = files[Stage(q)]
            /\ files'[Quarantine(q)] = files[Quarantine(q)]
  PROVE  Turn(files, files', run, run', r) /\ run'[r] = y
<1>1. RunsOK /\ RunsOK' /\ files \in [Places -> Files]
        /\ files' \in [Places -> Files]
  BY DEF CampaignInv, DiskOK
<1>2. run'[r] = y /\ \A q \in Runs : q # r => run'[q] = run[q]
  BY <1>1, MovesKeep
<1> QED BY <1>1, <1>2 DEF Turn, RunsOK

(* A turn that leaves the files alone.                                      *)
LEMMA QuietTurn ==
  ASSUME CampaignInv, CampaignInv', NEW r \in Runs, NEW y, Moves(r, y),
         files' = files
  PROVE  /\ Turn(files, files, run, run', r) /\ run'[r] = y
         /\ y \in RunStates /\ LocalOK(r, y)
         /\ run[r] \in RunStates /\ LocalOK(r, run[r])
<1>1. Turn(files, files', run, run', r) /\ run'[r] = y
  BY TurnOf
<1> QED BY <1>1 DEF Turn

(* A run that has claimed nothing holds nothing.                            *)
LEMMA BlankIs ==
  ASSUME NEW r \in Runs, NEW x \in RunStates, LocalOK(r, x)
  PROVE  /\ x.pc \in Ended \cup {"lock", "load"} =>
               /\ x.targets = [o \in Outputs |-> Unreserved] /\ x.own = None
               /\ x.op = NoOp /\ x.samples = {}
         /\ x.op # NoOp => x.pc \in Act \cup {"close", "unlock"}
         /\ \A p \in Outputs : x.targets = [o \in Outputs |-> Unreserved] =>
               ~Holds(r, x, p) /\ x.targets[p].published = None
<1>1. PhaseOK(x) /\ x.pc \in Steps /\ OpOK(r, x)
  BY DEF LocalOK, RunStates
<1>2. x.op # NoOp => x.pc \in Act \cup {"close", "unlock"}
  BY <1>1 DEF OpOK, Act
<1>3. ~HeldTarget(r, Unreserved) /\ Unreserved.published = None
  BY DEF HeldTarget, Unreserved, Placeholder, None, File
<1> QED BY <1>1, <1>2, <1>3 DEF PhaseOK, IsBlank, Holds

(* The steps of the command, one by one, keep runs and directory consistent.*)
(* A run begins.                                                            *)
LEMMA BeginConsistent ==
  ASSUME CampaignInv, CampaignInv', Consistent(files, run), NEW r \in Runs,
         NEW mode \in {"fresh", "resume"}, Begin(r, mode)
  PROVE  Consistent(files', run')
<1> DEFINE x == run[r]
           y == run'[r]
<1>1. /\ Moves(r, y) /\ x.pc = "idle" /\ y.mode = mode
      /\ y.pc = (IF mode = "resume" THEN "lock" ELSE "reserve")
      /\ y.own = None /\ y.op = NoOp
      /\ y.targets = [o \in Outputs |-> Unreserved]
  BY BeginMoves DEF CampaignInv
<1>2. files' = files
  BY DEF Begin, Quiet
<1>3. /\ Turn(files, files, run, run', r) /\ y \in RunStates /\ LocalOK(r, y)
  BY <1>1, <1>2, QuietTurn
<1> HIDE DEF y
<1>4. StepsOK(y) /\ Expects(files, r, y) /\ y.op.step # "settle" /\ ~Mid(y)
      /\ y.pc \notin Act /\ y.pc # "retire" /\ ~Loaded(y)
  BY <1>1 DEF StepsOK, Expects, NoOp, Mid, Act, Loaded, Gathers
<1>5. \A p \in Outputs : ~Holds(r, y, p)
  BY <1>1, <1>3, BlankIs
<1>6. y.mode = "resume" => y.pc = "lock"
  BY <1>1
<1>7. run'[r] = y
  BY DEF y
<1> QED BY <1>2, <1>3, <1>4, <1>5, <1>6, <1>7, QuietConsistent

(* A run dies.                                                              *)
LEMMA CrashConsistent ==
  ASSUME CampaignInv, CampaignInv', Consistent(files, run), NEW r \in Runs,
         Crash(r)
  PROVE  Consistent(files', run')
<1> DEFINE y == run'[r]
<1>1. /\ Moves(r, y) /\ y.pc = "dead" /\ y.op = NoOp
      /\ y.targets = [o \in Outputs |-> Unreserved]
  BY CrashMoves DEF CampaignInv
<1>2. files' = files
  BY DEF Crash, Quiet
<1>3. Turn(files, files, run, run', r)
  BY <1>1, <1>2, QuietTurn
<1>4. Gone(run[r], y)
  BY <1>1 DEF Gone, Ended
<1> QED BY <1>1, <1>2, <1>3, <1>4, GoneConsistent

(* What remains of a run that leaves.                                       *)
LEMMA LeftIsGone ==
  ASSUME NEW x \in RunStates, x.pc \notin Ended,
         NEW pc \in {"close", "unlock", "done"},
         x.pc = "lock" => pc = "done"
  PROVE  Gone(x, LeftOf(x, pc))
<1> DEFINE y == LeftOf(x, pc)
<1>1. /\ y.pc = pc /\ y.op = NoOp
      /\ y.mode = (IF pc = "done" THEN "none" ELSE x.mode)
      /\ y.targets = (IF pc = "done" THEN [o \in Outputs |-> Unreserved]
                      ELSE x.targets)
  BY LeftFields DEF Steps
<1> HIDE DEF y
<1>2. Gone(x, y)
  BY <1>1 DEF Gone, Ended
<1> QED BY <1>2 DEF y

(* A run leaves for its end.                                                *)
LEMMA LeavesConsistent ==
  ASSUME CampaignInv, CampaignInv', Consistent(files, run), NEW r \in Runs,
         NEW pc \in {"close", "unlock", "done"}, Moves(r, LeftOf(run[r], pc)),
         files' = files, run[r].pc \notin Ended, run[r].op.step # "settle",
         run[r].pc = "lock" => pc = "done"
  PROVE  Consistent(files', run') /\ Onward(files, files')
<1>1. /\ Turn(files, files, run, run', r) /\ run'[r] = LeftOf(run[r], pc)
      /\ run[r] \in RunStates
  BY QuietTurn
<1>2. Gone(run[r], run'[r])
  BY <1>1, LeftIsGone
<1>3. run'[r].pc # "dead"
  BY <1>1, LeftFields DEF Steps
<1> QED BY <1>1, <1>2, <1>3, GoneConsistent DEF Onward

(* A resume loads the partial.                                              *)
LEMMA LoadConsistent ==
  ASSUME CampaignInv, CampaignInv', Consistent(files, run), NEW r \in Runs,
         openABResume(r)
  PROVE  Consistent(files', run')
<1> DEFINE x == run[r]
           y == run'[r]
           v == At("partial")
<1>1. /\ Moves(r, y) /\ x.pc = "load" /\ x.op = NoOp /\ x.mode = "resume"
      /\ x.targets = [o \in Outputs |-> Unreserved]
      /\ \/ /\ v.what = "partial" /\ y.op = NoOp
            /\ y.pc = "reserve" /\ y.targets = x.targets
         \/ y = LeftOf(x, "unlock")
  <2>1. RunsOK /\ FilesOK
    BY DEF CampaignInv, DiskOK, FilesOK, Sound
  <2> QED BY <2>1, LoadMoves
<1>2. files' = files
  BY DEF openABResume, Quiet
<1>3. CASE y = LeftOf(x, "unlock")
  BY <1>1, <1>2, <1>3, LeavesConsistent DEF Ended, NoOp
<1>4. CASE y # LeftOf(x, "unlock")
  <2>1. /\ Turn(files, files, run, run', r) /\ y \in RunStates /\ LocalOK(r, y)
    BY <1>1, <1>2, QuietTurn
  <2>2. Started(files)
    BY <1>1, <1>4 DEF Started, In, At
  <2> HIDE DEF y
  <2>3. /\ StepsOK(y) /\ Expects(files, r, y) /\ y.op.step # "settle" /\ ~Mid(y)
        /\ y.pc \notin Act /\ y.pc # "retire"
    BY <1>1, <1>4 DEF StepsOK, Expects, NoOp, Mid, Act, Gathers
  <2>4. \A p \in Outputs : ~Holds(r, y, p)
    BY <1>1, <1>4, <2>1, BlankIs
  <2>5. x.pc \notin Ended \cup {"lock"} /\ ~Moved(x, "lock")
    BY <1>1 DEF Ended, Moved, NoOp
  <2>6. run'[r] = y
    BY DEF y
  <2> QED BY <1>1, <1>2, <2>1, <2>2, <2>3, <2>4, <2>5, <2>6, QuietConsistent
<1> QED BY <1>3, <1>4

(* A run begins an operation and changes nothing yet.                       *)
Opens(x, y) ==
    /\ x.op = NoOp /\ y.op.step \in {"check", "exchange"}
    /\ y.pc = x.pc /\ y.mode = x.mode /\ y.own = x.own
    /\ x.pc \notin Ended \cup {"lock"}

(* A run opens an operation.                                                *)
LEMMA OpensConsistent ==
  ASSUME NEW F, NEW X, NEW Y, NEW r \in Runs, Turn(F, F, X, Y, r),
         Consistent(F, X), Opens(X[r], Y[r]), StepsOK(Y[r]),
         Expects(F, r, Y[r]),
         \A p \in Outputs : Holds(r, Y[r], p) => Holds(r, X[r], p),
         Y[r].pc \in Act =>
            \A p \in FinalPaths : Y[r].targets[p].published # None =>
               Y[r].targets[p].published = X[r].targets[p].published
  PROVE  Consistent(F, Y)
<1> DEFINE x == X[r]
           y == Y[r]
<1>1. /\ y.op.step # "settle" /\ ~Mid(y) /\ \A p : ~Moved(x, p)
  BY DEF Opens, Mid, NoOp, Moved
<1>2. Loaded(y) => Loaded(x)
  BY DEF Loaded, Opens
<1>3. x.pc = y.pc /\ x.mode = y.mode /\ x.pc \notin Ended \cup {"lock"}
  BY DEF Opens
<1> QED BY <1>1, <1>2, <1>3, QuietConsistent

(* What a run holds is what its operation expects.                          *)
LEMMA HeldExpects ==
  ASSUME NEW F, NEW X, NEW r \in Runs, Consistent(F, X), NEW y,
         NEW p \in Outputs,
         y.op.step \in {"check", "exchange"}, y.op.path = p, X[r].op = NoOp,
         y.op.expected = Placeholder(r), Holds(r, X[r], p)
  PROVE  Expects(F, r, y)
<1>1. Guarded(F, r, X[r])
  BY DEF Consistent
<1>2. ~Moved(X[r], p) /\ p # "lock"
  BY PathsApart DEF Moved, NoOp
<1> QED BY <1>1, <1>2 DEF Expects, Guarded, HoldsPaths

(* A checkpoint opens with the owned partial as what is expected.           *)
LEMMA SavingOpens ==
  ASSUME CampaignInv, Consistent(files, run), NEW r \in Runs,
         run[r].op = NoOp, run[r].pc \in {"first", "call", "fail"},
         NEW then \in Steps, NEW otherwise \in Steps, NEW y,
         y.op = savePartial(r, then, otherwise)
  PROVE  Expects(files, r, y) /\ y.op.step \in {"check", "exchange"}
<1> DEFINE x == run[r]
           o == y.op
<1>1. /\ x \in RunStates /\ LocalOK(r, x) /\ RunsOK
  BY RunIs DEF CampaignInv
<1>2. \/ /\ x.pc = "first" /\ x.mode = "fresh" /\ o.step = "check"
         /\ Sequel(o, "link", "partial", Placeholder(r), then, otherwise)
      \/ /\ o.step = (IF x.mode = "resume" THEN "check" ELSE "exchange")
         /\ Sequel(o, "replace", "partial", x.own, then, otherwise)
  BY <1>1, SaveIs
<1>3. CASE /\ x.pc = "first" /\ x.mode = "fresh" /\ o.step = "check"
           /\ Sequel(o, "link", "partial", Placeholder(r), then, otherwise)
  <2>1. Holds(r, x, "partial")
    BY <1>1, <1>3
    DEF LocalOK, TargetsOK, PartialTargetOK, Act, Holds, HeldTarget, NoOp
  <2>2. /\ o.path = "partial" /\ "partial" \in Outputs
        /\ o.expected = Placeholder(r) /\ o.step = "check"
    BY <1>3, PathsApart DEF Sequel
  <2>3. Expects(files, r, y)
    BY <2>1, <2>2, HeldExpects
  <2> QED BY <2>2, <2>3
<1>4. CASE /\ o.step = (IF x.mode = "resume" THEN "check" ELSE "exchange")
           /\ Sequel(o, "replace", "partial", x.own, then, otherwise)
  BY <1>4 DEF Expects, Sequel
<1> QED BY <1>2, <1>3, <1>4

(* The first checkpoint opens.                                              *)
LEMMA FirstConsistent ==
  ASSUME CampaignInv, CampaignInv', Consistent(files, run), NEW r \in Runs,
         FirstCheckpoint(r)
  PROVE  Consistent(files', run')
<1> DEFINE x == run[r]
           y == run'[r]
<1>1. /\ Moves(r, y) /\ x.pc = "first" /\ x.op = NoOp
      /\ \/ y = LeftOf(x, "close")
         \/ y = [x EXCEPT !.op = savePartial(r, "block", "close")]
  BY FirstMoves DEF CampaignInv
<1>2. files' = files
  BY DEF FirstCheckpoint, Quiet
<1>3. CASE y = LeftOf(x, "close")
  BY <1>1, <1>2, <1>3, LeavesConsistent DEF Ended, NoOp
<1>4. CASE y = [x EXCEPT !.op = savePartial(r, "block", "close")]
  <2>1. /\ Turn(files, files, run, run', r) /\ x \in RunStates
        /\ savePartial(r, "block", "close") \in Operations
    BY ZenonT(60), <1>1, <1>2, QuietTurn, SaveIs DEF CampaignInv, Steps
  <2>2. /\ y.op = savePartial(r, "block", "close") /\ y.pc = x.pc
        /\ y.mode = x.mode /\ y.own = x.own /\ y.targets = x.targets
    BY <1>4, <2>1, OpFields
  <2> HIDE DEF y
  <2>3. Expects(files, r, y) /\ y.op.step \in {"check", "exchange"}
    BY <1>1, <2>2, SavingOpens DEF Steps
  <2>4. StepsOK(y)
    BY <1>1, <2>2 DEF StepsOK, Gathers
  <2>5. Opens(x, y) /\ \A p : Holds(r, y, p) => Holds(r, x, p)
    BY <1>1, <2>2, <2>3 DEF Opens, Holds, Ended
  <2>6. y = run'[r]
    BY DEF y
  <2> QED BY <1>2, <2>1, <2>2, <2>3, <2>4, <2>5, <2>6, OpensConsistent
<1> QED BY <1>1, <1>3, <1>4

(* A failed run saves what it has.                                          *)
LEMMA FailureConsistent ==
  ASSUME CampaignInv, CampaignInv', Consistent(files, run), NEW r \in Runs,
         finalizeFailure(r)
  PROVE  Consistent(files', run')
<1> DEFINE x == run[r]
           y == run'[r]
<1>1. /\ Moves(r, y) /\ x.pc = "fail" /\ x.op = NoOp
      /\ y = [x EXCEPT !.op = savePartial(r, "close", "close")]
  BY FailureMoves DEF CampaignInv
<1>2. files' = files
  BY DEF finalizeFailure, Quiet
<1>3. /\ Turn(files, files, run, run', r) /\ x \in RunStates
      /\ savePartial(r, "close", "close") \in Operations
  BY ZenonT(60), <1>1, <1>2, QuietTurn, SaveIs DEF CampaignInv, Steps
<1>4. /\ y.op = savePartial(r, "close", "close") /\ y.pc = x.pc
      /\ y.mode = x.mode /\ y.own = x.own /\ y.targets = x.targets
  BY <1>1, <1>3, OpFields
<1> HIDE DEF y
<1>5. Expects(files, r, y) /\ y.op.step \in {"check", "exchange"}
  <2>1. "close" \in Steps
    BY DEF Steps
  <2> QED BY <1>1, <1>4, <2>1, SavingOpens
<1>6. StepsOK(y)
  BY <1>1, <1>4 DEF StepsOK, Gathers
<1>7. Opens(x, y) /\ \A p : Holds(r, y, p) => Holds(r, x, p)
  BY <1>1, <1>4, <1>5 DEF Opens, Holds, Ended
<1>8. y = run'[r]
  BY DEF y
<1> QED BY <1>2, <1>3, <1>4, <1>5, <1>6, <1>7, <1>8, OpensConsistent

(* A call returns.                                                          *)
LEMMA EndSampleConsistent ==
  ASSUME CampaignInv, CampaignInv', Consistent(files, run), NEW r \in Runs,
         EndSample(r)
  PROVE  Consistent(files', run')
<1> DEFINE x == run[r]
           y == run'[r]
<1>1. /\ Moves(r, y) /\ x.pc = "call" /\ x.op = NoOp
      /\ y.own = x.own /\ y.targets = x.targets /\ y.mode = x.mode
      /\ y.kept = x.kept
      /\ \/ /\ y.pc = "call"
            /\ \E then \in {"next", "verify"} :
                 y.op = savePartial(r, then, "fail")
         \/ y.pc = "fail" /\ y.op = NoOp
  BY EndSampleMoves DEF CampaignInv
<1>2. files' = files
  BY DEF EndSample, Quiet
<1>3. Turn(files, files, run, run', r) /\ StepsOK(x)
  BY <1>1, <1>2, QuietTurn DEF Consistent
<1>4. StepsOK(y)
  BY <1>1, <1>3 DEF StepsOK, Gathers
<1>5. CASE y.pc = "fail" /\ y.op = NoOp
  BY <1>1, <1>2, <1>3, <1>4, <1>5, TurnConsistent DEF SameSelf, Act, NoOp
<1>6. CASE y.pc # "fail"
  <2>1. PICK then \in {"next", "verify"} : y.op = savePartial(r, then, "fail")
    BY <1>1, <1>6
  <2>2. then \in Steps /\ "fail" \in Steps
    BY DEF Steps
  <2>3. Expects(files, r, y) /\ y.op.step \in {"check", "exchange"}
    BY <1>1, <2>1, <2>2, SavingOpens
  <2>4. Opens(x, y) /\ \A p : Holds(r, y, p) => Holds(r, x, p)
    BY <1>1, <1>6, <2>3 DEF Opens, Holds, Ended
  <2> QED BY <1>1, <1>2, <1>3, <1>4, <2>3, <2>4, OpensConsistent
<1> QED BY <1>5, <1>6, <1>1

(* A block begins.                                                          *)
LEMMA BlockConsistent ==
  ASSUME CampaignInv, CampaignInv', Consistent(files, run), NEW r \in Runs,
         BeginBlock(r)
  PROVE  Consistent(files', run')
<1> DEFINE x == run[r]
           y == run'[r]
<1>1. /\ Moves(r, y) /\ x.pc = "block" /\ x.op = NoOp /\ y.op = NoOp
      /\ y.samples = x.samples /\ y.own = x.own /\ y.targets = x.targets
      /\ y.mode = x.mode
      /\ \/ y.pc = "finish"
         \/ ~Complete(x.samples) /\ y.pc = "next" /\ y.kept = x.samples
  BY BlockMoves DEF CampaignInv
<1>2. files' = files
  BY DEF BeginBlock, Quiet
<1>3. Turn(files, files, run, run', r) /\ StepsOK(x)
  BY <1>1, <1>2, QuietTurn DEF Consistent
<1>4. StepsOK(y)
  BY <1>1, <1>3 DEF StepsOK, Gathers
<1> QED BY <1>1, <1>2, <1>3, <1>4, TurnConsistent DEF SameSelf, Act, NoOp

(* A call begins.                                                           *)
LEMMA BeginSampleConsistent ==
  ASSUME CampaignInv, CampaignInv', Consistent(files, run), NEW r \in Runs,
         BeginSample(r)
  PROVE  Consistent(files', run')
<1> DEFINE x == run[r]
           y == run'[r]
<1>1. /\ Moves(r, y) /\ x.pc = "next" /\ x.op = NoOp /\ y.op = NoOp
      /\ x.block \in DOMAIN Blocks
      /\ y.samples = x.samples /\ y.own = x.own /\ y.targets = x.targets
      /\ y.mode = x.mode /\ y.kept = x.kept
      /\ \/ y.pc \in {"verify", "fail"}
         \/ y.pc = "call" /\ ~abBlockComplete(x.samples, x.block)
  BY BeginSampleMoves DEF CampaignInv
<1>2. files' = files
  BY DEF BeginSample
<1>3. Turn(files, files, run, run', r) /\ StepsOK(x) /\ x \in RunStates
  BY <1>1, <1>2, QuietTurn DEF Consistent
<1>4. y.pc = "call" => ~Complete(x.samples)
  <2>1. x.samples \in SUBSET Samples
    BY <1>3 DEF RunStates
  <2> QED BY <1>1, <2>1, PopulationIs
<1>5. StepsOK(y)
  BY <1>1, <1>3, <1>4 DEF StepsOK, Gathers
<1> QED BY <1>1, <1>2, <1>3, <1>5, TurnConsistent DEF SameSelf, Act, NoOp

(* A block is verified.                                                     *)
LEMMA VerifyConsistent ==
  ASSUME CampaignInv, CampaignInv', Consistent(files, run), NEW r \in Runs,
         VerifyBlock(r)
  PROVE  Consistent(files', run')
<1> DEFINE x == run[r]
           y == run'[r]
<1>1. /\ Moves(r, y) /\ x.pc = "verify" /\ x.op = NoOp /\ y.op = NoOp
      /\ y.own = x.own /\ y.targets = x.targets /\ y.mode = x.mode
      /\ \/ y.pc = "block" /\ y.samples = x.samples
         \/ y.pc = "fail"
  BY VerifyMoves DEF CampaignInv
<1>2. files' = files
  BY DEF VerifyBlock, Quiet
<1>3. Turn(files, files, run, run', r) /\ StepsOK(x)
  BY <1>1, <1>2, QuietTurn DEF Consistent
<1>4. StepsOK(y)
  BY <1>1, <1>3 DEF StepsOK, Gathers
<1> QED BY <1>1, <1>2, <1>3, <1>4, TurnConsistent DEF SameSelf, Act, NoOp

(* The population is validated.                                             *)
LEMMA FinishConsistent ==
  ASSUME CampaignInv, CampaignInv', Consistent(files, run), NEW r \in Runs,
         Finish(r)
  PROVE  Consistent(files', run')
<1> DEFINE x == run[r]
           y == run'[r]
<1>1. /\ Moves(r, y) /\ x.pc = "finish" /\ x.op = NoOp /\ y.op = NoOp
      /\ y.own = x.own /\ y.targets = x.targets /\ y.mode = x.mode
      /\ y.samples = x.samples
      /\ y.pc \in {"fail", "publish"}
  BY FinishMoves DEF CampaignInv
<1>2. files' = files
  BY DEF Finish, Quiet
<1>3. Turn(files, files, run, run', r) /\ StepsOK(x)
  BY <1>1, <1>2, QuietTurn DEF Consistent
<1>4. StepsOK(y)
  BY <1>1, <1>3 DEF StepsOK, Gathers
<1> QED BY <1>1, <1>2, <1>3, <1>4, TurnConsistent DEF SameSelf, Act, NoOp

(* A final is published or reused.                                          *)
LEMMA PublishConsistent ==
  ASSUME CampaignInv, CampaignInv', Consistent(files, run), NEW r \in Runs,
         PublishOrReuse(r)
  PROVE  Consistent(files', run')
<1> DEFINE x == run[r]
           y == run'[r]
           i == x.todo
           path == Finals[i]
           t == x.targets[path]
<1>1. /\ Moves(r, y) /\ x.pc = "publish" /\ x.op = NoOp /\ i \in 1..3
      /\ path \in FinalPaths
      /\ y.own = x.own /\ y.targets = x.targets /\ y.mode = x.mode
      /\ y.samples = x.samples
      /\ FreshTarget(t) /\ t.info # None
      /\ \/ /\ ~t.preexisting /\ y.pc = "publish" /\ y.op # NoOp
            /\ y.op.step = "check" /\ y.op.kind = "link"
         \/ /\ t.preexisting /\ y.op = NoOp
            /\ \/ /\ Reuses(r, path)
                  /\ y.pc = (IF i = 3 THEN "retire" ELSE "publish")
               \/ ~Reuses(r, path) /\ y.pc = "rollback"
  BY PublishMoves DEF CampaignInv
<1>2. files' = files
  BY DEF PublishOrReuse, Quiet
<1>3. /\ Turn(files, files, run, run', r) /\ StepsOK(x) /\ LocalOK(r, x)
      /\ x \in RunStates /\ y \in RunStates /\ LocalOK(r, y)
  BY <1>1, <1>2, QuietTurn DEF Consistent
<1>4. StepsOK(y)
  BY <1>1, <1>3 DEF StepsOK, Gathers
<1>5. CASE y.op = NoOp
  <2>1. y.pc = "retire" => Compared(files)
    <3>1. y.pc = "retire" => Reuses(r, "comparison")
      BY <1>1, PathsAre
    <3> QED BY <3>1 DEF Reuses, Compared, In, At
  <2>2. y.pc \in Act
    BY <1>1, <1>5 DEF Act
  <2> QED BY <1>1, <1>2, <1>3, <1>4, <1>5, <2>1, <2>2, TurnConsistent
          DEF SameSelf, Act, NoOp
<1>6. CASE y.op # NoOp
  <2>1. y.op = PublishStaged(r, path, IF i = 3 THEN "retire" ELSE "publish",
                             "rollback")
    <3> DEFINE pc == IF ~t.preexisting THEN x.pc
                     ELSE IF Reuses(r, path)
                     THEN IF i = 3 THEN "retire" ELSE "publish"
                     ELSE "rollback"
               op == IF t.preexisting THEN x.op
                     ELSE PublishStaged(r, path,
                            IF i = 3 THEN "retire" ELSE "publish", "rollback")
    <3>1. Len(Finals) = 3
      BY PathsAre
    <3>2. run' = [run EXCEPT ![r] =
                    [x EXCEPT !.todo = i + 1, !.pc = pc, !.op = op]]
      BY <1>3, <3>1 DEF PublishOrReuse, Turn
    <3> HIDE DEF pc, op
    <3>3. run'[r] = [x EXCEPT !.todo = i + 1, !.pc = pc, !.op = op]
      BY <1>3, <3>2 DEF Turn
    <3>4. run'[r].op = op
      BY <1>3, <3>3 DEF RunStates
    <3> QED BY <1>1, <1>6, <3>4 DEF op
  <2>2. /\ y.op.path = path /\ y.op.expected = t.info /\ y.op.step = "check"
    BY <2>1 DEF PublishStaged
  <2>3. path \in Outputs /\ Holds(r, x, path)
    <3>1. path \in Outputs
      BY <1>1, PathsApart
    <3>2. TargetOK(r, x, path)
      BY <1>3, <3>1 DEF LocalOK, TargetsOK
    <3> QED BY <1>1, <1>6, <3>1, <3>2
            DEF TargetOK, FreshTarget, Holds, HeldTarget
  <2>4. Expects(files, r, y)
    <3>1. t.info = Placeholder(r)
      BY <2>3 DEF Holds, HeldTarget
    <3> QED BY <1>1, <2>2, <2>3, <3>1, HeldExpects
  <2>5. Opens(x, y) /\ \A p : Holds(r, y, p) => Holds(r, x, p)
    BY <1>1, <1>6, <2>2 DEF Opens, Holds, Ended
  <2> QED BY <1>1, <1>2, <1>3, <1>4, <2>4, <2>5, OpensConsistent
<1> QED BY <1>5, <1>6

(* A published final is rolled back.                                        *)
LEMMA RollbackConsistent ==
  ASSUME CampaignInv, CampaignInv', Consistent(files, run), NEW r \in Runs,
         RollbackPublished(r)
  PROVE  Consistent(files', run')
<1> DEFINE x == run[r]
           y == run'[r]
           p == y.op.path
<1>1. /\ Moves(r, y) /\ x.pc = "rollback" /\ x.op = NoOp
      /\ y.own = x.own /\ y.mode = x.mode /\ y.samples = x.samples
      /\ \/ y.pc = "fail" /\ y.op = NoOp /\ y.targets = x.targets
         \/ /\ y.pc = "rollback" /\ p \in {"control", "candidate"}
            /\ y.op.step = "check"
            /\ y.op.expected = FinalOf(r, x.samples, p) /\ y.op # NoOp
            /\ x.targets[p].published = y.op.expected
            /\ y.targets[p].published = None
            /\ y.targets[p].consumed
            /\ \A q \in Outputs : q # p => y.targets[q] = x.targets[q]
  BY RollbackMoves DEF CampaignInv
<1>2. files' = files
  BY DEF RollbackPublished, Quiet
<1>3. Turn(files, files, run, run', r) /\ StepsOK(x) /\ Guarded(files, r, x)
  BY <1>1, <1>2, QuietTurn DEF Consistent
<1>4. StepsOK(y)
  BY <1>1, <1>3 DEF StepsOK, Gathers, NoOp
<1>5. CASE y.pc = "fail" /\ y.op = NoOp /\ y.targets = x.targets
  BY <1>1, <1>2, <1>3, <1>4, <1>5, TurnConsistent DEF SameSelf, Act, NoOp
<1>6. CASE /\ y.pc = "rollback" /\ p \in {"control", "candidate"}
           /\ y.op.step = "check"
           /\ y.op.expected = FinalOf(r, x.samples, p) /\ y.op # NoOp
           /\ x.targets[p].published = y.op.expected
           /\ y.targets[p].published = None
           /\ y.targets[p].consumed
           /\ \A q \in Outputs : q # p => y.targets[q] = x.targets[q]
  <2>1. p \in FinalPaths /\ p \in Outputs /\ \A q \in FinalPaths : q \in Outputs
    BY <1>6, PathsApart
  <2>2. x.targets[p].published # None
    BY <1>6 DEF FinalOf, File, None
  <2>3. Expects(files, r, y)
    BY <1>1, <1>3, <1>6, <2>1, <2>2 DEF Expects, Guarded, HoldsPaths, Act
  <2>4. Opens(x, y)
    BY <1>1, <1>6 DEF Opens, Ended
  <2>5. \A q \in Outputs : Holds(r, y, q) => Holds(r, x, q)
    BY <1>6 DEF Holds, HeldTarget
  <2>6. \A q \in FinalPaths : y.targets[q].published # None =>
            y.targets[q].published = x.targets[q].published
    BY <1>6, <2>1
  <2> QED BY <1>2, <1>3, <1>4, <2>3, <2>4, <2>5, <2>6, OpensConsistent
<1> QED BY <1>1, <1>5, <1>6

(* The partial is retired.                                                  *)
LEMMA RetireConsistent ==
  ASSUME CampaignInv, CampaignInv', Consistent(files, run), NEW r \in Runs,
         RemoveAfterSuccess(r)
  PROVE  Consistent(files', run')
<1> DEFINE x == run[r]
           y == run'[r]
<1>1. /\ Moves(r, y) /\ x.pc = "retire" /\ x.op = NoOp /\ y.op # NoOp
      /\ y.op.step = "check" /\ y.op.path = "partial"
      /\ y.pc = x.pc /\ y.own = x.own /\ y.mode = x.mode
      /\ y.samples = x.samples /\ y.targets = x.targets
  BY RetireMoves DEF CampaignInv
<1>2. files' = files
  BY DEF RemoveAfterSuccess, Quiet
<1>3. Turn(files, files, run, run', r) /\ StepsOK(x) /\ Guarded(files, r, x)
  BY <1>1, <1>2, QuietTurn DEF Consistent
<1>4. StepsOK(y)
  BY <1>1, <1>3 DEF StepsOK, Gathers
<1>5. Expects(files, r, y)
  <2>1. Compared(files)
    BY <1>1, <1>3 DEF Guarded, HoldsLock
  <2> QED BY <1>1, <2>1, PathsApart DEF Expects, Claims
<1>6. Opens(x, y) /\ \A p : Holds(r, y, p) => Holds(r, x, p)
  BY <1>1 DEF Opens, Holds, Ended
<1> QED BY <1>1, <1>2, <1>3, <1>4, <1>5, <1>6, OpensConsistent

(* An unused reservation is given back.                                     *)
LEMMA CloseConsistent ==
  ASSUME CampaignInv, CampaignInv', Consistent(files, run), NEW r \in Runs,
         CloseReservations(r)
  PROVE  Consistent(files', run')
<1> DEFINE x == run[r]
           y == run'[r]
           p == y.op.path
<1>1. /\ Moves(r, y) /\ x.pc = "close" /\ x.op = NoOp /\ y.mode = x.mode
      /\ y.own = x.own
      /\ \/ y.pc = "unlock" /\ y.op = NoOp /\ y.targets = x.targets
         \/ /\ y.pc = "close" /\ p \in Outputs
            /\ y.op.step = "check"
            /\ y.op.expected = Placeholder(r) /\ y.op # NoOp
            /\ x.targets[p].info = Placeholder(r)
            /\ ~x.targets[p].consumed
            /\ y.targets[p].consumed
            /\ \A q \in Outputs : q # p => y.targets[q] = x.targets[q]
  BY CloseMoves DEF CampaignInv
<1>2. files' = files
  BY DEF CloseReservations, Quiet
<1>3. Turn(files, files, run, run', r) /\ StepsOK(x)
  BY <1>1, <1>2, QuietTurn DEF Consistent
<1>4. StepsOK(y)
  BY <1>1 DEF StepsOK, Gathers
<1>5. CASE y.pc = "unlock" /\ y.op = NoOp /\ y.targets = x.targets
  <2>1. Gone(x, y) /\ x.op.step # "settle" /\ y.pc # "dead"
    BY <1>1, <1>5 DEF Gone, Ended, NoOp
  <2> QED BY <1>2, <1>3, <2>1, GoneConsistent
<1>6. CASE /\ y.pc = "close" /\ p \in Outputs
           /\ y.op.step = "check"
           /\ y.op.expected = Placeholder(r) /\ y.op # NoOp
           /\ x.targets[p].info = Placeholder(r)
           /\ ~x.targets[p].consumed
           /\ y.targets[p].consumed
           /\ \A q \in Outputs : q # p => y.targets[q] = x.targets[q]
  <2>1. Holds(r, x, p)
    BY <1>6 DEF Holds, HeldTarget
  <2>2. Expects(files, r, y)
    BY <1>1, <1>6, <2>1, HeldExpects
  <2>3. Opens(x, y)
    BY <1>1, <1>6 DEF Opens, Ended
  <2>4. \A q \in Outputs : Holds(r, y, q) => Holds(r, x, q)
    BY <1>6 DEF Holds, HeldTarget
  <2>5. y.pc \notin Act
    BY <1>6 DEF Act
  <2> QED BY <1>2, <1>3, <1>4, <2>2, <2>3, <2>4, <2>5, OpensConsistent
<1> QED BY <1>1, <1>5, <1>6

(* A resume gives its lock back.                                            *)
LEMMA UnlockConsistent ==
  ASSUME CampaignInv, CampaignInv', Consistent(files, run), NEW r \in Runs,
         CloseResume(r)
  PROVE  Consistent(files', run')
<1> DEFINE x == run[r]
           y == run'[r]
<1>1. /\ Moves(r, y) /\ x.pc = "unlock" /\ x.op = NoOp
      /\ \/ y = LeftOf(x, "done")
         \/ /\ y.pc = "unlock" /\ y.op # NoOp /\ y.op.step = "check"
            /\ y.op.path = "lock" /\ y.op.kind = "remove"
            /\ y.op.expected = File(r, "lock", {}) /\ y.mode = "resume"
            /\ y.own = x.own /\ y.mode = x.mode /\ y.targets = x.targets
  BY UnlockMoves DEF CampaignInv
<1>2. files' = files
  BY DEF CloseResume, Quiet
<1>3. Turn(files, files, run, run', r) /\ Guarded(files, r, x)
  BY <1>1, <1>2, QuietTurn DEF Consistent
<1>4. CASE y = LeftOf(x, "done")
  BY <1>1, <1>2, <1>4, LeavesConsistent DEF Ended, NoOp
<1>5. CASE /\ y.pc = "unlock" /\ y.op # NoOp /\ y.op.step = "check"
           /\ y.op.path = "lock" /\ y.op.kind = "remove"
           /\ y.op.expected = File(r, "lock", {}) /\ y.mode = "resume"
           /\ y.own = x.own /\ y.mode = x.mode /\ y.targets = x.targets
  <2>1. StepsOK(y)
    BY <1>5 DEF StepsOK, Gathers
  <2>2. In(files, "lock") = Lock(r)
    BY <1>1, <1>3, <1>5 DEF Guarded, HoldsLock, Ended, Moved, NoOp
  <2>3. Expects(files, r, y)
    BY <1>5, <2>2 DEF Expects, Lock
  <2>4. Opens(x, y) /\ \A p : Holds(r, y, p) => Holds(r, x, p)
    BY <1>1, <1>5 DEF Opens, Holds, Ended
  <2> QED BY <1>2, <1>3, <1>5, <2>1, <2>3, <2>4, OpensConsistent
<1> QED BY <1>1, <1>4, <1>5

(* A run whose operation fails where nothing was moved.                     *)
LEMMA OtherwiseIs ==
  ASSUME NEW r \in Runs, NEW x \in RunStates, LocalOK(r, x), x.op # NoOp
  PROVE  /\ x.op.otherwise \in {"close", "fail", "rollback", "done"}
         /\ x.op.otherwise \in {"fail", "rollback"} =>
               x.pc \in {"call", "publish", "rollback"}
         /\ x.op.otherwise = "rollback" => x.pc \in {"publish", "rollback"}
         /\ x.op.otherwise = "fail" => x.pc = "call"
         /\ x.pc \in Act \cup {"close", "unlock"} /\ x.pc \notin Ended
  BY DEF LocalOK, OpOK, Sequel, Act, Ended

(* An operation fails before it moved anything.                             *)
LEMMA FailsConsistent ==
  ASSUME CampaignInv, CampaignInv', Consistent(files, run), NEW r \in Runs,
         run[r].op # NoOp, Moves(r, LeftOf(run[r], run[r].op.otherwise)),
         files' = files, run[r].op.step # "settle"
  PROVE  Consistent(files', run') /\ Onward(files, files')
<1> DEFINE x == run[r]
           y == run'[r]
           o == x.op.otherwise
<1>1. /\ Turn(files, files, run, run', r) /\ StepsOK(x) /\ x \in RunStates
      /\ LocalOK(r, x) /\ y = LeftOf(x, o)
  BY QuietTurn DEF Consistent
<1>2. /\ o \in {"close", "fail", "rollback", "done"}
      /\ o \in {"fail", "rollback"} => x.pc \in {"call", "publish", "rollback"}
      /\ o = "rollback" => x.pc \in {"publish", "rollback"}
      /\ x.pc \in Act \cup {"close", "unlock"} /\ x.pc \notin Ended
  BY <1>1, OtherwiseIs
<1>3. CASE o \in {"close", "done"}
  <2>1. x.pc = "lock" => o = "done"
    BY <1>2 DEF Act
  <2> QED BY <1>2, <1>3, <2>1, LeavesConsistent
<1>4. CASE o \in {"fail", "rollback"}
  <2>1. SameSelf(x, y) /\ y.pc = o /\ y.samples = x.samples
    <3>1. o \in Steps /\ o \notin {"done", "close"}
      BY <1>4 DEF Steps
    <3> QED BY <1>1, <3>1, LeftFields DEF SameSelf
  <2>2. StepsOK(y)
    BY <1>1, <1>2, <1>4, <2>1 DEF StepsOK, SameSelf, Gathers
  <2>3. x.pc \in Act /\ y.pc \in Act /\ y.pc # "retire"
    BY <1>2, <1>4, <2>1 DEF Act
  <2> QED BY <1>1, <2>1, <2>2, <2>3, TurnConsistent DEF Onward
<1> QED BY <1>2, <1>3, <1>4

(* An operation checks its file.                                            *)
LEMMA CheckConsistent ==
  ASSUME CampaignInv, CampaignInv', Consistent(files, run), NEW r \in Runs,
         Check(r)
  PROVE  Consistent(files', run')
<1> DEFINE x == run[r]
           y == run'[r]
           s == IF x.op.kind = "replace" THEN "exchange" ELSE "rename"
<1>1. /\ x.op # NoOp /\ files' = files /\ x.op.step = "check"
      /\ \/ Moves(r, StepTo(x, s))
         \/ Moves(r, LeftOf(x, x.op.otherwise))
  BY CheckMoves DEF CampaignInv, Check, Quiet
<1>2. CASE Moves(r, LeftOf(x, x.op.otherwise))
  BY <1>1, <1>2, FailsConsistent
<1>3. CASE Moves(r, StepTo(x, s))
  <2>1. /\ Turn(files, files, run, run', r) /\ y = StepTo(x, s)
        /\ x \in RunStates /\ LocalOK(r, x) /\ StepsOK(x)
        /\ Guarded(files, r, x)
    BY <1>1, <1>3, QuietTurn DEF Consistent
  <2>2. s \in OpSteps
    BY DEF OpSteps
  <2>3. /\ y.op.step = s /\ y.op.kind = x.op.kind /\ y.op.path = x.op.path
        /\ y.op.expected = x.op.expected
        /\ y.pc = x.pc /\ y.mode = x.mode /\ y.samples = x.samples
        /\ y.own = x.own /\ y.targets = x.targets /\ y.kept = x.kept
    <3> DEFINE z == StepTo(x, s)
    <3> HIDE DEF s
    <3>1. /\ z.op.step = s /\ z.op.kind = x.op.kind /\ z.op.path = x.op.path
          /\ z.op.expected = x.op.expected
          /\ z.pc = x.pc /\ z.mode = x.mode /\ z.samples = x.samples
          /\ z.own = x.own /\ z.targets = x.targets /\ z.kept = x.kept
      BY <2>1, <2>2, StepFields
    <3> QED BY <2>1, <3>1
  <2>4. StepsOK(y)
    BY <1>1, <2>1, <2>3 DEF StepsOK
  <2>5. Expects(files, r, y)
    BY <1>1, <2>1, <2>3 DEF Expects, Guarded
  <2>6. y.op.step # "settle" /\ ~Mid(y) /\ \A p : ~Moved(x, p)
    BY <1>1, <2>3 DEF Mid, Moved
  <2>7. /\ Loaded(y) => Loaded(x)
        /\ \A p : Holds(r, y, p) => Holds(r, x, p)
    BY <2>3 DEF Loaded, Holds
  <2> HIDE DEF s, y
  <2>8. y = run'[r]
    BY DEF y
  <2> QED BY <1>1, <2>1, <2>3, <2>4, <2>5, <2>6, <2>7, <2>8, QuietConsistent
<1> QED BY <1>1, <1>2, <1>3

(* A step that changes paths nobody else relies on.                         *)
LEMMA ChangeConsistent ==
  ASSUME NEW F, NEW G, NEW X, NEW Y, NEW r \in Runs, Turn(F, G, X, Y, r),
         Consistent(F, X), Compared(F) => Compared(G),
         Started(F) \/ Compared(F) => Started(G) \/ Compared(G),
         \A p \in Paths : In(G, p) = In(F, p) \/ Free(F, r, p),
         StepsOK(Y[r]), Guarded(G, r, Y[r]), KindOK(G, r, Y[r]), KindsOK(G)
  PROVE  Consistent(G, Y) /\ Onward(F, G)
<1>1. \A q \in Runs : q # r =>
        StepsOK(Y[q]) /\ Guarded(G, q, Y[q]) /\ KindOK(G, q, Y[q])
  BY OthersConsistent
<1> QED BY <1>1 DEF Consistent, Onward

(* A resume takes its lock.                                                 *)
LEMMA LockConsistent ==
  ASSUME CampaignInv, CampaignInv', Consistent(files, run), NEW r \in Runs,
         acquireABResumeLock(r)
  PROVE  Consistent(files', run') /\ Onward(files, files')
<1> DEFINE x == run[r]
           y == run'[r]
<1>1. /\ Moves(r, LeftOf(x, IF At("lock") = None THEN "load" ELSE "done"))
      /\ x.pc = "lock" /\ x.op = NoOp /\ x.mode = "resume"
  BY LockMoves DEF CampaignInv
<1>2. CASE At("lock") # None
  <2>1. files' = files
    BY <1>1, <1>2 DEF acquireABResumeLock
  <2> QED BY <1>1, <1>2, <2>1, LeavesConsistent DEF Ended, NoOp
<1>3. CASE At("lock") = None
  <2>1. files' = [files EXCEPT ![<<"lock", 0>>] = Lock(r)]
    BY <1>1, <1>3 DEF acquireABResumeLock, Lock
  <2>2. /\ "lock" \in Paths /\ files \in [Places -> Files]
    BY PathsApart DEF CampaignInv, DiskOK
  <2>3. /\ In(files', "lock") = Lock(r)
        /\ \A p \in Paths : p # "lock" => In(files', p) = In(files, p)
        /\ \A q \in Runs : /\ files'[Stage(q)] = files[Stage(q)]
                           /\ files'[Quarantine(q)] = files[Quarantine(q)]
    <3>1. \A pl \in Places : pl # <<"lock", 0>> => files'[pl] = files[pl]
      BY <2>1, <2>2
    <3>2. files'[<<"lock", 0>>] = Lock(r)
      BY <2>1, <2>2, PlacesAre
    <3>3. \A p \in Paths : p # "lock" => <<p, 0>> # <<"lock", 0>>
      OBVIOUS
    <3> QED BY <2>2, <3>1, <3>2, <3>3, PlacesAre DEF In
  <2>4. /\ Turn(files, files', run, run', r) /\ y = LeftOf(x, "load")
        /\ x \in RunStates /\ LocalOK(r, x)
    <3>1. Moves(r, LeftOf(x, "load"))
      BY <1>1, <1>3
    <3>2. Turn(files, files', run, run', r) /\ y = LeftOf(x, "load")
      BY <2>3, <3>1, TurnOf
    <3> QED BY <3>2 DEF Turn
  <2>5. /\ y.pc = "load" /\ y.op = NoOp /\ y.mode = "resume"
        /\ y.targets = x.targets /\ y.own = x.own
    BY <1>1, <2>4, LeftFields DEF Steps
  <2>6. x.targets = [o \in Outputs |-> Unreserved]
    BY <1>1, <2>4, BlankIs
  <2>7. \A p \in Outputs : ~Holds(r, y, p)
    BY <2>4, <2>5, <2>6, BlankIs DEF Holds
  <2>8. StepsOK(y)
    BY <2>5 DEF StepsOK, Gathers
  <2>9. Guarded(files', r, y)
    <3>1. HoldsPaths(files', r, y)
      BY <2>5, <2>7, PathsApart DEF HoldsPaths, Act
    <3>2. HoldsLock(files', r, y)
      BY <2>3, <2>5 DEF HoldsLock
    <3>3. Expects(files', r, y)
      BY <2>5 DEF Expects, NoOp
    <3> QED BY <3>1, <3>2, <3>3 DEF Guarded
  <2>10. KindOK(files', r, y)
    BY <2>5 DEF KindOK, NoOp, Loaded, Mid, Act
  <2>11. /\ Compared(files') = Compared(files)
         /\ Started(files') = Started(files)
    BY <2>3, PathsApart DEF Compared, Started
  <2>12. KindsOK(files')
    <3>1. In(files', "lock").what \in KindsAt("lock")
      BY <2>3 DEF Lock, File, KindsAt
    <3> QED BY <2>3, <3>1 DEF Consistent, KindsOK
  <2>13. \A p \in Paths : In(files', p) = In(files, p) \/ Free(files, r, p)
    BY <1>3, <2>3 DEF Free, In, At
  <2> QED BY <2>4, <2>8, <2>9, <2>10, <2>11, <2>12, <2>13, ChangeConsistent
<1> QED BY <1>2, <1>3

(* What a step on one path and one private place leaves alone.              *)
Apart(F, G, r, p) ==
    /\ \A q \in Paths : q # p => In(G, q) = In(F, q)
    /\ \A q \in Runs : q # r => /\ G[Stage(q)] = F[Stage(q)]
                                /\ G[Quarantine(q)] = F[Quarantine(q)]

(* A file is put at a path, at a private place, or at both.                 *)
Puts(F, G, p, v) == G = [F EXCEPT ![<<p, 0>>] = v]
Sets(F, G, pl, w) == G = [F EXCEPT ![pl] = w]
PutsAside(F, G, p, v, pl, w) == G = [F EXCEPT ![<<p, 0>>] = v, ![pl] = w]

(* What such a step changes, and nothing else.                              *)
LEMMA PutIs ==
  ASSUME NEW F \in [Places -> Files], NEW p \in Paths, NEW v, NEW r \in Runs,
         NEW G, Puts(F, G, p, v)
  PROVE  /\ In(G, p) = v /\ Apart(F, G, r, p)
         /\ G[Stage(r)] = F[Stage(r)] /\ G[Quarantine(r)] = F[Quarantine(r)]
<1>1. \A pl \in Places : pl # <<p, 0>> => G[pl] = F[pl]
  BY DEF Puts
<1>2. G[<<p, 0>>] = v
  BY PlacesAre DEF Puts
<1>3. \A q \in Paths : q # p => <<q, 0>> # <<p, 0>>
  OBVIOUS
<1> QED BY <1>1, <1>2, <1>3, PlacesAre DEF In, Apart

(* The same of a step on a path and a private place.                        *)
LEMMA PutAsideIs ==
  ASSUME NEW F \in [Places -> Files], NEW p \in Paths, NEW v, NEW w,
         NEW r \in Runs, NEW pl \in {Stage(r), Quarantine(r)},
         NEW G, PutsAside(F, G, p, v, pl, w)
  PROVE  /\ In(G, p) = v /\ G[pl] = w /\ Apart(F, G, r, p)
         /\ \A q \in {Stage(r), Quarantine(r)} : q # pl => G[q] = F[q]
<1>1. /\ pl # <<p, 0>> /\ pl \in Places /\ <<p, 0>> \in Places
      /\ \A q \in Paths : <<q, 0>> # pl
      /\ \A q \in Runs : q # r => Stage(q) # pl /\ Quarantine(q) # pl
  BY PlacesAre
<1>2. \A q \in Places : q # <<p, 0>> /\ q # pl => G[q] = F[q]
  BY DEF PutsAside
<1>3. G[<<p, 0>>] = v /\ G[pl] = w
  BY <1>1 DEF PutsAside
<1>4. \A q \in Paths : q # p => <<q, 0>> # <<p, 0>>
  OBVIOUS
<1> QED BY <1>1, <1>2, <1>3, <1>4, PlacesAre DEF In, Apart

(* The same of a step on a private place.                                   *)
LEMMA AsideAloneIs ==
  ASSUME NEW F \in [Places -> Files], NEW w,
         NEW r \in Runs, NEW pl \in {Stage(r), Quarantine(r)},
         NEW G, Sets(F, G, pl, w)
  PROVE  /\ G[pl] = w /\ \A p \in Paths : In(G, p) = In(F, p)
         /\ \A p : Apart(F, G, r, p)
         /\ \A q \in {Stage(r), Quarantine(r)} : q # pl => G[q] = F[q]
<1>1. /\ pl \in Places /\ \A q \in Paths : <<q, 0>> # pl
      /\ \A q \in Runs : q # r => Stage(q) # pl /\ Quarantine(q) # pl
  BY PlacesAre
<1>2. \A q \in Places : q # pl => G[q] = F[q]
  BY DEF Sets
<1>3. G[pl] = w
  BY <1>1 DEF Sets
<1> QED BY <1>1, <1>2, <1>3, PlacesAre DEF In, Apart

(* A step on one path and one private place is a turn.                      *)
LEMMA ApartTurn ==
  ASSUME CampaignInv, CampaignInv', NEW r \in Runs, NEW y, Moves(r, y), NEW p,
         Apart(files, files', r, p)
  PROVE  /\ Turn(files, files', run, run', r) /\ run'[r] = y
         /\ y \in RunStates /\ LocalOK(r, y)
         /\ run[r] \in RunStates /\ LocalOK(r, run[r])
         /\ files \in [Places -> Files] /\ files' \in [Places -> Files]
<1>1. Turn(files, files', run, run', r) /\ run'[r] = y
  BY TurnOf DEF Apart
<1> QED BY <1>1 DEF Turn

(* A run reserves a path.                                                   *)
LEMMA ReserveConsistent ==
  ASSUME CampaignInv, CampaignInv', Consistent(files, run), NEW r \in Runs,
         reserveABOutputs(r)
  PROVE  Consistent(files', run') /\ Onward(files, files')
<1> DEFINE x == run[r]
           y == run'[r]
           i == x.todo + 1
           p == PathAt(x, i)
           t == y.targets[p]
<1>0. RunsOK /\ FilesOK /\ files \in [Places -> Files]
  BY DEF CampaignInv, DiskOK, FilesOK, Sound
<1>1. /\ Moves(r, y) /\ x.pc = "reserve" /\ x.op = NoOp /\ p \in Outputs
      /\ Reserved(r)[i] = p
      /\ \/ y = LeftOf(x, "close") /\ At(p) # None /\ ~AllowsExisting(r)
         \/ /\ At(p) = None \/ (x.mode = "resume" /\ Complete(x.samples))
            /\ y.pc \in {"reserve", "first"} /\ y.mode = x.mode
            /\ y.own = x.own /\ y.op = NoOp
            /\ t.info = (IF At(p) = None THEN Placeholder(r) ELSE At(p))
            /\ t.consumed = (At(p) # None)
            /\ \A q \in Outputs : q # p => y.targets[q] = x.targets[q]
  BY <1>0, ReserveMoves
<1>2. CASE At(p) # None
  <2>1. files' = files
    <3>1. At(p) = None \/ AllowsExisting(r) \/ files' = files
      BY <1>1 DEF reserveABOutputs
    <3>2. CASE files' # files
      <4>1. files' = [files EXCEPT ![<<p, 0>>] = At(p)]
        BY <1>1, <1>2, <3>2 DEF reserveABOutputs, At
      <4>2. files' = files
        BY <1>0, <4>1 DEF At
      <4> QED BY <4>2, <3>2
    <3> QED BY <3>2
  <2>2. CASE y = LeftOf(x, "close")
    BY <1>1, <2>1, <2>2, LeavesConsistent DEF Ended, NoOp
  <2>3. CASE y # LeftOf(x, "close")
    <3>1. /\ Turn(files, files, run, run', r) /\ y \in RunStates
          /\ LocalOK(r, y) /\ LocalOK(r, x)
      BY <1>1, <2>1, QuietTurn
    <3>2. StepsOK(y) /\ Expects(files, r, y) /\ y.op.step # "settle" /\ ~Mid(y)
          /\ y.pc # "retire"
      BY <1>1, <2>3 DEF StepsOK, Expects, Mid, NoOp, Gathers
    <3>3. \A q \in Outputs : Holds(r, y, q) => Holds(r, x, q) /\ ~Moved(x, q)
      <4>1. t.consumed = TRUE
        BY <1>1, <1>2, <2>3
      <4>2. ASSUME NEW q \in Outputs, Holds(r, y, q)
            PROVE  Holds(r, x, q)
        <5>1. q # p
          BY <4>1, <4>2 DEF Holds, HeldTarget
        <5>2. y.targets[q] = x.targets[q]
          BY <1>1, <2>3, <5>1
        <5> QED BY <4>2, <5>2 DEF Holds
      <4> QED BY <1>1, <4>2 DEF Moved, NoOp
    <3>4. y.pc \in Act => \A q \in FinalPaths : y.targets[q].published = None
      BY <1>1, <2>3, <3>1
      DEF LocalOK, TargetsOK, FinalTargetOK, FreshTarget, Act
    <3>5. Loaded(y) => Loaded(x)
      BY <1>1, <2>3 DEF Loaded
    <3>6. x.pc \notin Ended \cup {"lock"} /\ ~Moved(x, "lock")
      BY <1>1 DEF Ended, Moved, NoOp
    <3> QED BY <1>1, <2>1, <2>3, <3>1, <3>2, <3>3, <3>4, <3>5, <3>6,
               QuietConsistent DEF Onward
  <2> QED BY <2>2, <2>3
<1>3. CASE At(p) = None
  <2>1. files' = [files EXCEPT ![<<p, 0>>] = Placeholder(r)]
    BY <1>1, <1>3 DEF reserveABOutputs, At, Placeholder
  <2>2. p \in Paths
    BY <1>1, PathsApart
  <2>3. In(files', p) = Placeholder(r) /\ Apart(files, files', r, p)
        /\ \A q \in Paths : q # p => In(files', q) = In(files, q)
    <3>1. Puts(files, files', p, Placeholder(r))
      BY <2>1 DEF Puts
    <3> HIDE DEF p
    <3>2. In(files', p) = Placeholder(r) /\ Apart(files, files', r, p)
      BY <1>0, <2>2, <3>1, PutIs
    <3> QED BY <3>2 DEF Apart
  <2>4. /\ Turn(files, files', run, run', r) /\ y \in RunStates
        /\ LocalOK(r, y) /\ LocalOK(r, x)
    BY <1>1, <2>3, ApartTurn
  <2>5. Guarded(files, r, x) /\ KindOK(files, r, x) /\ KindsOK(files)
    BY DEF Consistent
  <2>6. In(files, p) = None
    BY <1>3 DEF In, At
  <2>7. /\ Placeholder(r).what = "placeholder" /\ None.what = "none"
    BY DEF Placeholder, None, File
  <2>8. /\ Compared(files') = Compared(files)
        /\ Started(files') = Started(files) /\ Claims(files') = Claims(files)
    <3>1. Compared(files') = Compared(files)
      BY <2>3, <2>6, <2>7, PathsApart DEF Compared
    <3> QED BY <2>3, <2>6, <2>7, <3>1, PathsApart DEF Started, Claims
  <2>9. StepsOK(y)
    BY <1>1, <1>3 DEF StepsOK, Gathers
  <2>10. HoldsPaths(files', r, y)
    <3>1. ASSUME NEW q \in Claims(files'), Holds(r, y, q)
          PROVE  In(files', q) = Placeholder(r)
      <4>1. CASE q = p
        BY <4>1, <2>3
      <4>2. CASE q # p
        <5>1. q \in Outputs /\ q \in Paths /\ q \in Claims(files)
          BY <2>8, <3>1, PathsApart
        <5>2. Holds(r, x, q) /\ ~Moved(x, q)
          BY <1>1, <1>3, <3>1, <4>2, <5>1 DEF Holds, Moved, NoOp
        <5> QED BY <2>3, <2>5, <4>2, <5>1, <5>2 DEF Guarded, HoldsPaths
      <4> QED BY <4>1, <4>2
    <3>2. y.pc \in Act => \A q \in FinalPaths : y.targets[q].published = None
      BY <1>1, <1>3, <2>4
      DEF LocalOK, TargetsOK, FinalTargetOK, FreshTarget, Act
    <3> QED BY <3>1, <3>2 DEF HoldsPaths
  <2>11. HoldsLock(files', r, y)
    <3>1. p # "lock" /\ "lock" \in Paths
      BY <1>1, PathsApart
    <3>2. x.pc \notin Ended \cup {"lock"} /\ ~Moved(x, "lock")
      BY <1>1 DEF Ended, Moved, NoOp
    <3> QED BY <1>1, <1>3, <2>3, <2>5, <3>1, <3>2 DEF Guarded, HoldsLock
  <2>12. Expects(files', r, y)
    BY <1>1, <1>3 DEF Expects, NoOp
  <2>13. KindOK(files', r, y)
    <3>1. Loaded(y) => Loaded(x)
      BY <1>1, <1>3 DEF Loaded
    <3> QED BY <1>1, <1>3, <2>5, <2>8, <3>1 DEF KindOK, Mid, NoOp
  <2>14. KindsOK(files')
    <3>1. "placeholder" \in KindsAt(p)
      BY <1>1, PathsApart DEF KindsAt
    <3> QED BY <2>3, <2>5, <2>7, <3>1 DEF KindsOK
  <2>15. \A q \in Paths : In(files', q) = In(files, q) \/ Free(files, r, q)
    BY <2>3, <2>6 DEF Free
  <2>16. Guarded(files', r, y)
    BY <2>10, <2>11, <2>12 DEF Guarded
  <2> HIDE DEF y, x, p
  <2>17. y = run'[r]
    BY DEF y
  <2> QED BY <2>4, <2>8, <2>9, <2>13, <2>14, <2>15, <2>16, <2>17,
             ChangeConsistent
<1> QED BY <1>2, <1>3

(* What the operation of a run says of the reservation it is about.         *)
LEMMA UsedPathIs ==
  ASSUME NEW r \in Runs, NEW x \in RunStates, LocalOK(r, x), StepsOK(x),
         x.op # NoOp
  PROVE  /\ x.op.kind \in {"remove", "link"} /\ x.pc \in Act
              /\ x.op.path \in FinalPaths /\ x.op.step # "link" =>
               x.targets[x.op.path].published = None
         /\ x.op.kind = "remove" /\ x.op.path \in Outputs =>
               ~Holds(r, x, x.op.path)
         /\ x.op.path = "lock" =>
               x.op.kind = "remove" /\ x.op.otherwise = "done"
         /\ x.op.kind = "replace" => ~Holds(r, x, "partial")
         /\ x.pc = "retire" => x.op.path = "partial" /\ x.op.otherwise = "close"
         /\ x.op.kind = "link" /\ x.op.path = "partial" =>
               x.op.otherwise = "close"
<1>1. OpOK(r, x) /\ PartialTargetOK(r, x)
  BY DEF LocalOK, TargetsOK
<1>2. x.pc = "publish" =>
         Finals[x.todo - 1] \in FinalPaths \/ x.todo \notin 2..4
  BY PathsAre, PathsApart
<1>3. /\ x.op.kind \in {"remove", "link"} /\ x.pc \in Act
           /\ x.op.path \in FinalPaths /\ x.op.step # "link" =>
            x.targets[x.op.path].published = None
  BY <1>1, PathsApart DEF OpOK, Sequel, Act, StepsOK
<1>4. None # Placeholder(r)
  BY DEF None, Placeholder, File
<1>5. x.op.kind = "remove" /\ x.op.path \in Outputs => ~Holds(r, x, x.op.path)
  <2>1. ASSUME x.pc = "retire" PROVE ~Holds(r, x, "partial")
    <3>1. x.mode \in {"fresh", "resume"}
      BY <2>1 DEF LocalOK, PhaseOK, Ended
    <3> QED BY <1>1, <1>4, <2>1, <3>1
            DEF PartialTargetOK, Act, Holds, HeldTarget
  <2> QED BY <1>1, <2>1, PathsApart DEF OpOK, Sequel, Holds, HeldTarget
<1>6. x.op.kind = "replace" => ~Holds(r, x, "partial")
  <2>1. ASSUME x.op.kind = "replace"
        PROVE  /\ x.pc \in {"first", "call", "fail"}
               /\ x.pc = "first" => x.mode = "resume"
    BY <1>1, <2>1 DEF OpOK, Sequel
  <2>2. x.op.kind = "replace" => x.mode \in {"fresh", "resume"}
    BY <2>1 DEF LocalOK, PhaseOK, Ended
  <2>3. x.op.kind = "replace" => x.op.step # "link"
    BY <1>1 DEF OpOK, Sequel
  <2> QED BY <1>1, <1>4, <2>1, <2>2, <2>3
          DEF PartialTargetOK, Act, Holds, HeldTarget
<1>7. /\ x.op.path = "lock" => x.op.kind = "remove" /\ x.op.otherwise = "done"
      /\ x.pc = "retire" => x.op.path = "partial" /\ x.op.otherwise = "close"
      /\ x.op.kind = "link" /\ x.op.path = "partial" =>
            x.op.otherwise = "close"
  BY <1>1, <1>2, PathsApart DEF OpOK, Sequel
<1> QED BY <1>3, <1>5, <1>6, <1>7

(* What a run is after one step of its operation.                           *)
LEMMA SteppedIs ==
  ASSUME NEW x \in RunStates, NEW step \in OpSteps, NEW y, y = StepTo(x, step)
  PROVE  /\ y.op.step = step /\ y.op.kind = x.op.kind
         /\ y.op.path = x.op.path /\ y.op.expected = x.op.expected
         /\ y.op.then = x.op.then /\ y.op.otherwise = x.op.otherwise
         /\ y.pc = x.pc /\ y.mode = x.mode /\ y.samples = x.samples
         /\ y.own = x.own /\ y.targets = x.targets /\ y.kept = x.kept
BY StepFields

(* A file is moved into the quarantine.                                     *)
LEMMA RenameConsistent ==
  ASSUME CampaignInv, CampaignInv', Consistent(files, run), NEW r \in Runs,
         Rename(r)
  PROVE  Consistent(files', run') /\ Onward(files, files')
<1> DEFINE x == run[r]
           y == run'[r]
           p == x.op.path
<1>1. /\ x.op # NoOp /\ x.op.step = "rename"
      /\ IF At(p) = None THEN Moves(r, LeftOf(x, x.op.otherwise))
         ELSE Moves(r, StepTo(x, "settle"))
  BY RenameMoves DEF CampaignInv, Rename
<1>2. CASE At(p) = None
  <2>1. files' = files
    BY <1>2 DEF Rename
  <2> QED BY <1>1, <1>2, <2>1, FailsConsistent
<1>3. CASE At(p) # None
  <2>0. /\ x \in RunStates /\ LocalOK(r, x) /\ RunsOK
        /\ files \in [Places -> Files]
    BY RunIs DEF CampaignInv, DiskOK
  <2>1. p \in Paths
    BY <1>1, <2>0, ExpectedIsOwn
  <2>2. PutsAside(files, files', p, None, Quarantine(r), At(p))
    BY <1>3 DEF Rename, PutsAside
  <2>3. In(files', p) = None /\ Apart(files, files', r, p)
        /\ files'[Quarantine(r)] = At(p) /\ files'[Stage(r)] = files[Stage(r)]
    <3> HIDE DEF p
    <3>1. Stage(r) # Quarantine(r)
      BY PlacesAre
    <3> QED BY <2>0, <2>1, <2>2, <3>1, PutAsideIs
  <2>4. \A q \in Paths : q # p => In(files', q) = In(files, q)
    BY <2>3 DEF Apart
  <2>5. /\ Turn(files, files', run, run', r) /\ y = StepTo(x, "settle")
    BY <1>1, <1>3, <2>3, ApartTurn
  <2>6. /\ y.op.step = "settle" /\ y.op.kind = x.op.kind /\ y.op.path = p
        /\ y.op.expected = x.op.expected
        /\ y.pc = x.pc /\ y.mode = x.mode /\ y.samples = x.samples
        /\ y.own = x.own /\ y.targets = x.targets /\ y.kept = x.kept
    <3>1. "settle" \in OpSteps
      BY DEF OpSteps
    <3> QED BY <2>0, <2>5, <3>1, SteppedIs
  <2>7. Guarded(files, r, x) /\ KindOK(files, r, x) /\ KindsOK(files)
        /\ StepsOK(x)
    BY DEF Consistent
  <2>8. x.op.kind \in {"remove", "link"}
    BY <1>1, <2>0 DEF LocalOK, OpOK, Sequel, NoOp
  <2>9. p \in Claims(files) \cup {"lock"} => At(p) = x.op.expected
    BY <1>1, <2>7, <2>8 DEF Guarded, Expects, In, At
  <2>10. p \in Claims(files) \cup {"lock"} \/ (p = "partial" /\ Compared(files))
    BY <2>1, PathsApart DEF Claims
  <2>11. \/ x.op.expected = x.own /\ x.pc = "retire" /\ p = "partial"
         \/ x.op.expected.by = r /\ x.op.expected.what # "partial"
    BY <2>0, <2>8, ExpectedIs
  <2>12. x.pc = "retire" => Compared(files)
    BY <2>7 DEF Guarded, HoldsLock
  <2>13. \A q \in Paths : In(files', q) = In(files, q) \/ Free(files, r, q)
    BY <2>4, <2>9, <2>10, <2>11, <2>12 DEF Free, In, At
  <2>14. Placeholder(r).what = "placeholder" /\ None.what = "none"
    BY DEF Placeholder, None, File
  <2>15. Compared(files') = Compared(files)
    <3>1. p = "comparison" => x.op.expected = Placeholder(r)
      BY <2>0, <2>8, ExpectedIs
    <3>2. p = "comparison" => p \in Claims(files)
      BY PathsApart
    <3>3. p = "comparison" => In(files, p).what = "placeholder"
      BY <2>9, <2>14, <3>1, <3>2 DEF In, At
    <3> QED BY <2>3, <2>4, <2>14, <3>3, PathsApart DEF Compared
  <2>16. Started(files) \/ Compared(files) =>
            Started(files') \/ Compared(files')
    <3>1. p = "partial" /\ ~Compared(files) => In(files, p).what # "partial"
      BY <2>9, <2>10, <2>11, <2>12 DEF In, At
    <3> QED BY <2>4, <2>15, <3>1, PathsApart DEF Started
  <2>17. Claims(files') = Claims(files)
    BY <2>15 DEF Claims
  <2> HIDE DEF x, y, p
  <2>18. StepsOK(y)
    BY <2>6, <2>7, <1>1 DEF StepsOK, p
  <2>19. HoldsPaths(files', r, y)
    <3>1. ASSUME NEW q \in Claims(files'), Holds(r, y, q), ~Moved(y, q)
          PROVE  In(files', q) = Placeholder(r)
      <4>1. q # p /\ ~Moved(x, q) /\ Holds(r, x, q)
        BY <1>1, <2>6, <3>1 DEF Moved, Holds
      <4>2. q \in Claims(files) /\ q \in Paths
        BY <2>17, <3>1, PathsApart
      <4> QED BY <2>4, <2>7, <4>1, <4>2 DEF Guarded, HoldsPaths
    <3>2. ASSUME y.pc \in Act, NEW q \in FinalPaths,
                 y.targets[q].published # None
          PROVE  In(files', q) = y.targets[q].published
      <4>1. q # p
        BY <1>1, <2>0, <2>6, <2>7, <2>8, <3>2, UsedPathIs DEF p
      <4>2. q \in Paths
        BY PathsApart
      <4> QED BY <2>4, <2>6, <2>7, <3>2, <4>1, <4>2 DEF Guarded, HoldsPaths
    <3> QED BY <3>1, <3>2 DEF HoldsPaths
  <2>20. HoldsLock(files', r, y)
    <3>1. p = "lock" => Moved(y, "lock")
      BY <2>6 DEF Moved
    <3>2. ~Moved(x, "lock") /\ "lock" \in Paths
      BY <1>1, PathsApart DEF Moved
    <3> QED BY <2>4, <2>6, <2>7, <2>15, <3>1, <3>2 DEF HoldsLock, Guarded
  <2>21. Expects(files', r, y)
    BY <2>3, <2>6, <2>9, <2>17 DEF Expects
  <2>22. KindOK(files', r, y)
    <3>1. Loaded(y) => Loaded(x)
      BY <2>6 DEF Loaded
    <3>2. At(p).what \in KindsAt(p)
      BY <2>1, <2>7 DEF KindsOK, At, In
    <3> QED BY <2>3, <2>6, <2>7, <2>16, <3>1, <3>2 DEF KindOK, Mid
  <2>23. KindsOK(files')
    <3>1. \A q : "none" \in KindsAt(q)
      BY DEF KindsAt
    <3> QED BY <2>3, <2>4, <2>7, <2>14, <3>1 DEF KindsOK
  <2>24. Guarded(files', r, y)
    BY <2>19, <2>20, <2>21 DEF Guarded
  <2>25. y = run'[r]
    BY DEF y
  <2> QED BY <2>5, <2>13, <2>15, <2>16, <2>18, <2>22, <2>23, <2>24, <2>25,
             ChangeConsistent
<1> QED BY <1>2, <1>3

(* Whoever removes the partial itself retires it.                           *)
LEMMA RetiringIs ==
  ASSUME NEW r \in Runs, NEW x \in RunStates, LocalOK(r, x),
         x.op.step = "settle", x.op.kind = "link", NEW y, y = Retiring(x)
  PROVE  /\ y.op.step = "link" /\ y.op.kind = "link" /\ y.op.path = x.op.path
         /\ y.op.expected = x.op.expected
         /\ y.pc = x.pc /\ y.mode = x.mode /\ y.samples = x.samples
         /\ y.own = x.own /\ y.kept = x.kept /\ x.op.path \in Outputs
         /\ y.targets[x.op.path].consumed
         /\ \A q \in Outputs :
               y.targets[q].published = x.targets[q].published
         /\ \A q \in Outputs : q # x.op.path => y.targets[q] = x.targets[q]
<1> DEFINE p == x.op.path
           t == [x.targets[p] EXCEPT !.consumed = TRUE]
           w == StepTo(x, "link")
<1>1. p \in Outputs
  BY RetiringOK
<1>2. t \in Reservations /\ t.consumed = TRUE
      /\ t.published = x.targets[p].published
  BY <1>1, TargetTyped
<1>3. "link" \in OpSteps
  BY DEF OpSteps
<1>4. /\ w.op.step = "link" /\ w.op.kind = x.op.kind
      /\ w.op.path = p /\ w.op.expected = x.op.expected
      /\ w.pc = x.pc /\ w.mode = x.mode /\ w.samples = x.samples
      /\ w.own = x.own /\ w.targets = x.targets /\ w.kept = x.kept
      /\ w \in RunStates
  BY <1>3, StepFields
<1>5. y = WithTarget(w, p, t)
  BY DEF Retiring
<1> HIDE DEF p, t, w
<1>6. /\ y.pc = w.pc /\ y.mode = w.mode /\ y.samples = w.samples
      /\ y.kept = w.kept /\ y.own = w.own /\ y.op = w.op
      /\ y.targets[p] = t
      /\ \A q \in Outputs : q # p => y.targets[q] = w.targets[q]
  BY <1>1, <1>2, <1>4, <1>5, TargetFields
<1>7. \A q \in Outputs : y.targets[q].published = x.targets[q].published
  BY <1>2, <1>4, <1>6
<1>8. p = x.op.path
  BY DEF p
<1> QED BY <1>1, <1>2, <1>4, <1>6, <1>7, <1>8

(* What a run is after it has left its operation.                           *)
LEMMA LeftIs ==
  ASSUME NEW x \in RunStates, NEW pc \in {"close", "fail", "rollback", "done"},
         NEW y, y = LeftOf(x, pc)
  PROVE  /\ y.pc = pc /\ y.op = NoOp
         /\ pc # "done" => y.targets = x.targets /\ y.mode = x.mode
         /\ pc = "done" => /\ y.targets = [o \in Outputs |-> Unreserved]
                           /\ y.mode = "none"
         /\ pc \in {"fail", "rollback"} =>
               /\ y.own = x.own /\ y.samples = x.samples /\ y.kept = x.kept
         /\ pc \in {"close", "done"} => y.own = None /\ y.samples = {}
<1>1. pc \in Steps
  BY DEF Steps
<1> QED BY <1>1, LeftFields

(* What was moved is removed, or put back.                                  *)
LEMMA SettleConsistent ==
  ASSUME CampaignInv, CampaignInv', Consistent(files, run), NEW r \in Runs,
         Settle(r)
  PROVE  Consistent(files', run') /\ Onward(files, files')
<1> DEFINE x == run[r]
           y == run'[r]
           p == x.op.path
           moved == files[Quarantine(r)]
           own == sameOwnedABFile(x.op.expected, moved)
<1>1. /\ x.op # NoOp /\ x.op.step = "settle" /\ x.op.kind \in {"link", "remove"}
      /\ IF own /\ x.op.kind = "link" THEN Moves(r, Retiring(x))
         ELSE Moves(r, LeftOf(x, x.op.otherwise))
  BY SettleMoves DEF CampaignInv, Settle
<1>2. /\ x \in RunStates /\ LocalOK(r, x) /\ RunsOK
      /\ files \in [Places -> Files]
  BY RunIs DEF CampaignInv, DiskOK
<1>3. p \in Paths /\ x.op.expected # None
  BY <1>1, <1>2, ExpectedIsOwn
<1>4. Guarded(files, r, x) /\ KindOK(files, r, x) /\ KindsOK(files)
      /\ StepsOK(x)
  BY DEF Consistent
<1>5. ~own => p = "partial" /\ Compared(files)
  <2>1. p \in Claims(files) \cup {"lock"} => moved = x.op.expected
    BY <1>1, <1>4 DEF Guarded, Expects
  <2> QED BY <1>3, <2>1, PathsApart DEF Claims, sameOwnedABFile
<1>6. /\ \A q \in Paths : q # p => In(files', q) = In(files, q)
      /\ In(files', p) \in {In(files, p), moved}
      /\ own => In(files', p) = In(files, p)
      /\ Apart(files, files', r, p)
      /\ In(files', p) = In(files, p) \/ In(files, p) = None
      /\ files'[Stage(r)] = files[Stage(r)]
  <2>0. Stage(r) # Quarantine(r)
    BY PlacesAre
  <2>1. CASE own
    <3>1. Sets(files, files', Quarantine(r), None)
      BY <2>1 DEF Settle, Sets
    <3> HIDE DEF p
    <3> QED BY <1>2, <1>3, <2>0, <2>1, <3>1, AsideAloneIs
  <2>2. CASE ~own
    <3> DEFINE v == IF At(p) = None THEN moved ELSE At(p)
    <3>1. PutsAside(files, files', p, v, Quarantine(r), None)
      <4>1. files' = [files EXCEPT ![Quarantine(r)] = None,
                        ![<<p, 0>>] = IF At(p) = None THEN moved ELSE @]
        BY <2>2 DEF Settle
      <4>2. Quarantine(r) # <<p, 0>> /\ Quarantine(r) \in Places
            /\ <<p, 0>> \in Places
        BY <1>3, PlacesAre
      <4> QED BY <1>2, <4>1, <4>2 DEF PutsAside, At
    <3> HIDE DEF p, v
    <3>2. In(files', p) = v /\ Apart(files, files', r, p)
          /\ files'[Stage(r)] = files[Stage(r)]
      BY <1>2, <1>3, <2>0, <3>1, PutAsideIs
    <3> QED BY <2>2, <3>2 DEF Apart, v, At, In
  <2> QED BY <2>1, <2>2
<1>7. Turn(files, files', run, run', r)
  BY <1>1, <1>6, ApartTurn
<1>8. \A q \in Paths : In(files', q) = In(files, q)
                        \/ (q = "partial" /\ p = "partial" /\ Compared(files))
  BY <1>5, <1>6
<1>9. \A q \in Paths : In(files', q) = In(files, q) \/ Free(files, r, q)
  BY <1>6 DEF Free
<1>10. Compared(files') = Compared(files) /\ Claims(files') = Claims(files)
  <2>1. Compared(files') = Compared(files)
    BY <1>8, PathsApart DEF Compared
  <2> QED BY <2>1 DEF Claims
<1>11. Started(files) \/ Compared(files) => Started(files') \/ Compared(files')
  BY <1>8, <1>10, PathsApart DEF Started
<1>12. KindsOK(files')
  <2>1. moved.what \in KindsAt(p)
    BY <1>1, <1>4 DEF KindOK
  <2> QED BY <1>3, <1>4, <1>6, <2>1 DEF KindsOK
<1> HIDE DEF moved, own
<1>13. /\ y.op.step \in {"none", "link"}
       /\ Loaded(y) => Loaded(x)
       /\ y.pc \in Act => x.pc \in Act
       /\ y.pc # "retire"
       /\ \A q \in FinalPaths : y.pc \in Act =>
             y.targets[q].published = x.targets[q].published
       /\ StepsOK(y)
       /\ \A q \in Outputs : Holds(r, y, q) =>
             /\ Holds(r, x, q)
             /\ q # p \/ (q = "partial" /\ Compared(files))
       /\ y.mode = "resume" /\ y.pc \notin Ended \cup {"lock"} =>
             /\ x.mode = "resume" /\ x.pc \notin Ended \cup {"lock"}
             /\ p # "lock"
  <2>1. CASE own /\ x.op.kind = "link"
    <3>1. y = Retiring(x)
      BY <1>1, <1>6, <2>1, ApartTurn
    <3> HIDE DEF y
    <3>2. /\ y.op.step = "link" /\ y.op.kind = "link" /\ y.op.path = x.op.path
          /\ y.pc = x.pc /\ y.mode = x.mode /\ y.samples = x.samples
          /\ y.own = x.own /\ y.kept = x.kept /\ x.op.path \in Outputs
          /\ y.targets[x.op.path].consumed
          /\ \A q \in Outputs :
               y.targets[q].published = x.targets[q].published
          /\ \A q \in Outputs : q # x.op.path => y.targets[q] = x.targets[q]
      BY <1>1, <1>2, <2>1, <3>1, RetiringIs
    <3>3. x.pc \in {"first", "publish"}
      BY <1>1, <1>2, <2>1 DEF LocalOK, OpOK, Sequel
    <3>4. Loaded(y) => Loaded(x)
      BY <3>2 DEF Loaded
    <3>5. StepsOK(y)
      BY <1>4, <3>2, <3>3 DEF StepsOK, Gathers
    <3>6. \A q \in Outputs : Holds(r, y, q) => Holds(r, x, q) /\ q # p
      BY <3>2 DEF Holds, HeldTarget
    <3>7. \A q \in FinalPaths : q \in Outputs
      BY PathsApart
    <3> QED BY <3>2, <3>3, <3>4, <3>5, <3>6, <3>7, PathsApart
  <2>2. CASE ~(own /\ x.op.kind = "link")
    <3> DEFINE o == x.op.otherwise
    <3>1. y = LeftOf(x, o)
      BY <1>1, <1>6, <2>2, ApartTurn
    <3> HIDE DEF y
    <3>2. /\ o \in {"close", "fail", "rollback", "done"}
          /\ o = "rollback" => x.pc \in {"publish", "rollback"}
          /\ o = "fail" => x.pc = "call"
          /\ x.pc \in Act \cup {"close", "unlock"} /\ x.pc \notin Ended
      BY <1>1, <1>2, OtherwiseIs
    <3>3. /\ y.pc = o /\ y.op = NoOp
          /\ o # "done" => y.targets = x.targets /\ y.mode = x.mode
          /\ o = "done" => /\ y.targets = [q \in Outputs |-> Unreserved]
                           /\ y.mode = "none"
          /\ o \in {"fail", "rollback"} =>
               /\ y.own = x.own /\ y.samples = x.samples /\ y.kept = x.kept
          /\ o \in {"close", "done"} => y.own = None /\ y.samples = {}
      BY <1>2, <3>1, <3>2, LeftIs
    <3>4. Loaded(y) => Loaded(x)
      BY <3>2, <3>3 DEF Loaded, Act
    <3>5. StepsOK(y)
      BY <1>4, <3>2, <3>3 DEF StepsOK, Gathers
    <3>6. y.op.step = "none" /\ y.pc # "retire"
      BY <3>2, <3>3 DEF NoOp
    <3>7. y.pc \in Act => x.pc \in Act /\ y.targets = x.targets
      BY <3>2, <3>3 DEF Act
    <3>8. p = "lock" => o = "done"
      BY <1>1, <1>2, <1>4, UsedPathIs
    <3>9. y.mode = "resume" /\ y.pc \notin Ended \cup {"lock"} =>
             /\ x.mode = "resume" /\ x.pc \notin Ended \cup {"lock"}
             /\ p # "lock"
      BY <3>2, <3>3, <3>8 DEF Act
    <3>10. \A q \in Outputs : Holds(r, y, q) => Holds(r, x, q)
      <4>1. ~HeldTarget(r, Unreserved)
        BY DEF HeldTarget, Unreserved, Placeholder, None, File
      <4> QED BY <3>3, <4>1 DEF Holds
    <3>11. p \in Outputs /\ Holds(r, x, p) => p = "partial" /\ Compared(files)
      <4>1. x.op.kind = "remove" => ~(p \in Outputs /\ Holds(r, x, p))
        BY <1>1, <1>2, <1>4, UsedPathIs
      <4>2. x.op.kind # "remove" => ~own
        BY <1>1, <2>2
      <4> QED BY <1>5, <4>1, <4>2
    <3> QED BY <3>4, <3>5, <3>6, <3>7, <3>9, <3>10, <3>11
  <2> QED BY <2>1, <2>2
<1> HIDE DEF x, y, p
<1>14. HoldsPaths(files', r, y)
  <2>1. ASSUME NEW q \in Claims(files'), Holds(r, y, q)
        PROVE  In(files', q) = Placeholder(r)
    <3>1. q \in Claims(files) /\ q \in Outputs /\ q \in Paths
      BY <1>10, <2>1, PathsApart
    <3>2. Holds(r, x, q) /\ q # p
      BY <1>13, <2>1, <3>1, PathsApart DEF Claims
    <3>3. ~Moved(x, q)
      BY <3>2 DEF Moved, p
    <3> QED BY <1>4, <1>6, <3>1, <3>2, <3>3 DEF Guarded, HoldsPaths
  <2>2. ASSUME y.pc \in Act, NEW q \in FinalPaths,
               y.targets[q].published # None
        PROVE  In(files', q) = y.targets[q].published
    <3>1. q \in Paths /\ q # "partial"
      BY PathsApart
    <3> QED BY <1>4, <1>8, <1>13, <2>2, <3>1 DEF Guarded, HoldsPaths
  <2> QED BY <2>1, <2>2 DEF HoldsPaths
<1>15. HoldsLock(files', r, y)
  <2>1. p # "lock" => ~Moved(x, "lock")
    BY DEF Moved, p
  <2>2. "lock" \in Paths /\ "lock" # "partial"
    BY PathsApart
  <2> QED BY <1>4, <1>8, <1>13, <2>1, <2>2 DEF Guarded, HoldsLock
<1>16. Expects(files', r, y)
  BY <1>13 DEF Expects
<1>17. KindOK(files', r, y)
  BY <1>4, <1>11, <1>13 DEF KindOK, Mid
<1>18. Guarded(files', r, y) /\ StepsOK(y)
  BY <1>13, <1>14, <1>15, <1>16 DEF Guarded
<1>19. y = run'[r]
  BY DEF y
<1> QED BY <1>7, <1>9, <1>10, <1>11, <1>12, <1>17, <1>18, <1>19,
           ChangeConsistent

(* A staged file is linked.                                                 *)
LEMMA LinkConsistent ==
  ASSUME CampaignInv, CampaignInv', Consistent(files, run), NEW r \in Runs,
         Link(r)
  PROVE  Consistent(files', run') /\ Onward(files, files')
<1> DEFINE x == run[r]
           y == run'[r]
           p == x.op.path
           new == StagedOf(r, x, p)
<1>1. /\ x.op # NoOp /\ x.op.step = "link"
      /\ IF At(p) = None THEN Moves(r, Linked(r, x))
         ELSE Moves(r, LeftOf(x, x.op.otherwise))
      /\ Staged(r, p) = new
  BY LinkMoves DEF CampaignInv, Link
<1>2. CASE At(p) # None
  <2>1. files' = files
    BY <1>2 DEF Link
  <2> QED BY <1>1, <1>2, <2>1, FailsConsistent
<1>3. CASE At(p) = None
  <2>1. /\ x \in RunStates /\ LocalOK(r, x) /\ RunsOK
        /\ files \in [Places -> Files]
    BY RunIs DEF CampaignInv, DiskOK
  <2>2. Guarded(files, r, x) /\ KindOK(files, r, x) /\ KindsOK(files)
        /\ StepsOK(x)
    BY DEF Consistent
  <2>3. Puts(files, files', p, new)
    BY <1>1, <1>3 DEF Link, Puts
  <2>4. \/ /\ x.pc = "first" /\ p = "partial" /\ new.what = "partial"
           /\ new.data = x.samples
        \/ /\ x.pc = "publish" /\ p \in FinalPaths /\ new.what = "final"
    <3>1. \/ x.pc = "first" /\ p = "partial"
          \/ x.pc = "publish" /\ p \in FinalPaths
      BY <1>1, <2>1, LinkedOK
    <3>2. new.what = IF p = "partial" THEN "partial" ELSE "final"
      BY DEF StagedOf, FinalOf, File
    <3>3. p = "partial" => new.data = x.samples
      BY DEF StagedOf, File
    <3> QED BY <3>1, <3>2, <3>3, PathsApart
  <2>5. p \in Paths /\ p \in Outputs
    BY <2>4, PathsApart
  <2>6. In(files', p) = new /\ Apart(files, files', r, p)
        /\ files'[Stage(r)] = files[Stage(r)]
        /\ files'[Quarantine(r)] = files[Quarantine(r)]
    <3> HIDE DEF p, new
    <3> QED BY <2>1, <2>3, <2>5, PutIs
  <2>7. \A q \in Paths : q # p => In(files', q) = In(files, q)
    BY <2>6 DEF Apart
  <2>8. Turn(files, files', run, run', r) /\ y = Linked(r, x)
    BY <1>1, <1>3, <2>6, ApartTurn
  <2> HIDE DEF y
  <2>9. /\ y.op = NoOp /\ y.mode = x.mode /\ y.samples = x.samples
        /\ y.kept = x.kept
        /\ y.targets[p].consumed = TRUE /\ y.targets[p].published = new
        /\ \A q \in Outputs : q # p => y.targets[q] = x.targets[q]
        /\ \/ /\ x.pc = "first" /\ y.pc = "block" /\ p = "partial"
              /\ y.own = new
           \/ /\ x.pc = "publish" /\ y.pc \in {"publish", "retire"}
              /\ p \in FinalPaths /\ y.own = x.own
              /\ y.pc = "retire" => p = "comparison"
    <3>1. /\ y.op = NoOp /\ y.mode = x.mode /\ y.samples = x.samples
          /\ y.kept = x.kept
          /\ y.targets[p].consumed = TRUE /\ y.targets[p].published = new
          /\ \A q \in Outputs : q # p => y.targets[q] = x.targets[q]
          /\ \/ /\ x.pc = "first" /\ y.pc = "block" /\ p = "partial"
                /\ y.own = new
             \/ /\ x.pc = "publish" /\ y.pc \in {"publish", "retire"}
                /\ p \in FinalPaths /\ y.own = x.own
                /\ x.todo \in 2..4 /\ p = Finals[x.todo - 1]
                /\ y.pc = (IF x.todo = 4 THEN "retire" ELSE "publish")
      BY ZenonT(60), <1>1, <2>1, <2>8, LinkedOK
    <3> QED BY <3>1, PathsAre
  <2>10. None.what = "none"
    BY DEF None, File
  <2>11. In(files, p) = None
    BY <1>3 DEF In, At
  <2> HIDE DEF new, x
  <2>12. Compared(files) => Compared(files')
    BY <2>6, <2>7, <2>10, <2>11, PathsApart DEF Compared
  <2>13. Started(files) => Started(files')
    BY <2>6, <2>7, <2>10, <2>11, PathsApart DEF Started
  <2>14. Claims(files') \subseteq Claims(files)
    BY <2>12, PathsApart DEF Claims
  <2>15. \A q \in Paths : In(files', q) = In(files, q) \/ Free(files, r, q)
    BY <2>7, <2>11 DEF Free
  <2>16. StepsOK(y)
    BY <2>2, <2>4, <2>9 DEF StepsOK, Gathers
  <2>17. HoldsPaths(files', r, y)
    <3>1. ASSUME NEW q \in Claims(files'), Holds(r, y, q)
          PROVE  In(files', q) = Placeholder(r)
      <4>1. q \in Claims(files) /\ q \in Outputs /\ q \in Paths
        BY <2>14, <3>1, PathsApart
      <4>2. q # p /\ Holds(r, x, q) /\ ~Moved(x, q)
        BY <1>1, <2>9, <3>1, <4>1 DEF Holds, HeldTarget, Moved, x
      <4> QED BY <2>2, <2>7, <4>1, <4>2 DEF Guarded, HoldsPaths
    <3>2. ASSUME y.pc \in Act, NEW q \in FinalPaths,
                 y.targets[q].published # None
          PROVE  In(files', q) = y.targets[q].published
      <4>1. CASE q = p
        BY <2>6, <2>9, <4>1
      <4>2. CASE q # p
        <5>1. q \in Outputs /\ q \in Paths /\ x.pc \in Act
          BY <2>9, PathsApart DEF Act
        <5> QED BY <2>2, <2>7, <2>9, <3>2, <4>2, <5>1 DEF Guarded, HoldsPaths
      <4> QED BY <4>1, <4>2
    <3> QED BY <3>1, <3>2 DEF HoldsPaths
  <2>18. HoldsLock(files', r, y)
    <3>1. p # "lock" /\ "lock" \in Paths /\ ~Moved(x, "lock")
          /\ x.pc \notin Ended \cup {"lock"}
      BY <1>1, <2>5, <2>9, PathsApart DEF Moved, Ended, x
    <3>2. y.pc = "retire" => Compared(files')
      BY <2>4, <2>6, <2>9 DEF Compared
    <3> QED BY <2>2, <2>7, <2>9, <3>1, <3>2 DEF Guarded, HoldsLock
  <2>19. Expects(files', r, y)
    BY <2>9 DEF Expects, NoOp
  <2>20. KindOK(files', r, y)
    <3>1. Loaded(y) => Loaded(x) \/ Started(files')
      BY <2>4, <2>6, <2>9 DEF Loaded, Act, Started
    <3>2. ~Mid(y) /\ y.op.step # "settle"
      BY <2>9 DEF Mid, NoOp
    <3> QED BY <2>2, <2>12, <2>13, <3>1, <3>2 DEF KindOK
  <2>21. KindsOK(files')
    <3>1. new.what \in KindsAt(p)
      BY <2>4, PathsApart DEF KindsAt
    <3> QED BY <2>2, <2>6, <2>7, <3>1 DEF KindsOK
  <2>22. Guarded(files', r, y)
    BY <2>17, <2>18, <2>19 DEF Guarded
  <2>23. y = run'[r]
    BY DEF y
  <2> QED BY <2>8, <2>12, <2>13, <2>15, <2>16, <2>20, <2>21, <2>22, <2>23,
             ChangeConsistent
<1> QED BY <1>2, <1>3

(* The partial is exchanged with the staged file.                           *)
LEMMA ExchangeConsistent ==
  ASSUME CampaignInv, CampaignInv', Consistent(files, run), NEW r \in Runs,
         Exchange(r)
  PROVE  Consistent(files', run') /\ Onward(files, files')
<1> DEFINE x == run[r]
           y == run'[r]
           new == File(r, "partial", x.samples)
           fails == x.op.expected = None \/ At("partial") = None
<1>1. /\ x.op # NoOp /\ x.op.step = "exchange" /\ x.op.kind = "replace"
      /\ IF fails THEN Moves(r, LeftOf(x, x.op.otherwise))
         ELSE Moves(r, StepTo(x, "confirm"))
      /\ Staged(r, "partial") = new
  BY ExchangeMoves DEF CampaignInv, Exchange, StagedOf
<1>2. CASE fails
  <2>1. files' = files
    BY <1>2 DEF Exchange
  <2> QED BY <1>1, <1>2, <2>1, FailsConsistent
<1>3. CASE ~fails
  <2>1. /\ x \in RunStates /\ LocalOK(r, x) /\ RunsOK
        /\ files \in [Places -> Files]
    BY RunIs DEF CampaignInv, DiskOK
  <2>2. Guarded(files, r, x) /\ KindOK(files, r, x) /\ KindsOK(files)
        /\ StepsOK(x)
    BY DEF Consistent
  <2>3. PutsAside(files, files', "partial", new, Stage(r), At("partial"))
    <3>1. files' = [files EXCEPT ![Stage(r)] = At("partial"),
                                 ![<<"partial", 0>>] = new]
      BY <1>1, <1>3 DEF Exchange
    <3>2. Stage(r) # <<"partial", 0>>
      BY PlacesAre, PathsApart
    <3> QED BY <2>1, <3>1, <3>2 DEF PutsAside
  <2>4. In(files', "partial") = new /\ Apart(files, files', r, "partial")
        /\ files'[Stage(r)] = At("partial")
    <3>1. "partial" \in Paths
      BY PathsApart
    <3> HIDE DEF new
    <3> QED BY <2>1, <2>3, <3>1, PutAsideIs
  <2>5. \A q \in Paths : q # "partial" => In(files', q) = In(files, q)
    BY <2>4 DEF Apart
  <2>6. Turn(files, files', run, run', r) /\ y = StepTo(x, "confirm")
    BY <1>1, <1>3, <2>4, ApartTurn
  <2> HIDE DEF y
  <2>7. /\ y.op.step = "confirm" /\ y.op.kind = "replace"
        /\ y.op.path = x.op.path /\ y.pc = x.pc /\ y.mode = x.mode
        /\ y.samples = x.samples
        /\ y.own = x.own /\ y.targets = x.targets /\ y.kept = x.kept
    <3>1. "confirm" \in OpSteps
      BY DEF OpSteps
    <3> QED BY <1>1, <2>1, <2>6, <3>1, SteppedIs
  <2>8. Loaded(x) /\ x.pc \in {"first", "call", "fail"}
        /\ x.op.path = "partial"
    BY <1>1, <2>1, WritersAreLoaded
  <2>9. Started(files) \/ Compared(files)
    BY <2>2, <2>8 DEF KindOK
  <2>10. Compared(files') = Compared(files) /\ Claims(files') = Claims(files)
    <3>1. Compared(files') = Compared(files)
      BY <2>5, PathsApart DEF Compared
    <3> QED BY <3>1 DEF Claims
  <2>11. Started(files') /\ new.what = "partial"
    BY <2>4 DEF Started, File
  <2>12. \A q \in Paths : In(files', q) = In(files, q) \/ Free(files, r, q)
    BY <2>5, <2>9 DEF Free, Started
  <2>13. ~Holds(r, x, "partial")
    BY <1>1, <2>1, <2>2, UsedPathIs
  <2>14. StepsOK(y)
    BY <1>1, <2>2, <2>7, <2>8 DEF StepsOK
  <2> HIDE DEF x, new
  <2>15. HoldsPaths(files', r, y)
    <3>1. ASSUME NEW q \in Claims(files'), Holds(r, y, q)
          PROVE  In(files', q) = Placeholder(r)
      <4>1. q \in Claims(files) /\ q \in Paths
        BY <2>10, <3>1, PathsApart
      <4>2. Holds(r, x, q) /\ ~Moved(x, q)
        BY <1>1, <2>7, <3>1 DEF Holds, Moved
      <4>3. q # "partial"
        BY <2>13, <4>2
      <4> QED BY <2>2, <2>5, <4>1, <4>2, <4>3 DEF Guarded, HoldsPaths
    <3>2. \A q \in FinalPaths : q \in Paths /\ q # "partial"
      BY PathsApart
    <3> QED BY <2>2, <2>5, <2>7, <3>1, <3>2 DEF HoldsPaths, Guarded
  <2>16. HoldsLock(files', r, y)
    <3>1. "lock" \in Paths /\ "lock" # "partial" /\ ~Moved(x, "lock")
      BY <1>1, PathsApart DEF Moved
    <3> QED BY <2>2, <2>5, <2>7, <2>10, <3>1 DEF Guarded, HoldsLock
  <2>17. Expects(files', r, y)
    BY <2>7 DEF Expects
  <2>18. KindOK(files', r, y)
    <3>1. At("partial").what \in KindsAt("partial") /\ "partial" \in Paths
      BY <2>2, PathsApart DEF KindsOK, At, In
    <3>2. ~Compared(files') => At("partial").what = "partial"
      BY <2>9, <2>10 DEF Started, At, In
    <3> QED BY <2>4, <2>7, <2>11, <3>1, <3>2 DEF KindOK
  <2>19. KindsOK(files')
    <3>1. new.what \in KindsAt("partial")
      BY <2>11 DEF KindsAt
    <3> QED BY <2>2, <2>4, <2>5, <3>1 DEF KindsOK
  <2>20. Guarded(files', r, y)
    BY <2>15, <2>16, <2>17 DEF Guarded
  <2>21. y = run'[r]
    BY DEF y
  <2> QED BY <2>6, <2>10, <2>11, <2>12, <2>14, <2>18, <2>19, <2>20, <2>21,
             ChangeConsistent
<1> QED BY <1>2, <1>3

(* The exchange is confirmed.                                               *)
LEMMA ConfirmConsistent ==
  ASSUME CampaignInv, CampaignInv', Consistent(files, run), NEW r \in Runs,
         Confirm(r)
  PROVE  Consistent(files', run') /\ Onward(files, files')
<1> DEFINE x == run[r]
           y == run'[r]
           owned == /\ files[Stage(r)] = x.op.expected
                    /\ At("partial") = StagedOf(r, x, "partial")
<1>1. /\ x.op # NoOp /\ x.op.step = "confirm" /\ x.op.kind = "replace"
      /\ IF owned THEN Moves(r, Confirmed(r, x))
         ELSE Moves(r, StepTo(x, "back"))
      /\ Staged(r, "partial") = StagedOf(r, x, "partial")
  BY ConfirmMoves DEF CampaignInv, Confirm
<1>2. /\ x \in RunStates /\ LocalOK(r, x) /\ RunsOK
      /\ files \in [Places -> Files]
  BY RunIs DEF CampaignInv, DiskOK
<1>3. Guarded(files, r, x) /\ KindOK(files, r, x) /\ KindsOK(files)
      /\ StepsOK(x)
  BY DEF Consistent
<1>4. Loaded(x) /\ x.pc \in {"first", "call", "fail"}
      /\ x.op.path = "partial"
  BY <1>1, <1>2, WritersAreLoaded
<1>5. CASE ~owned
  <2>1. files' = files
    BY <1>1, <1>5 DEF Confirm
  <2>2. Turn(files, files, run, run', r) /\ y = StepTo(x, "back")
    BY <1>1, <1>5, <2>1, QuietTurn
  <2> HIDE DEF y
  <2>3. /\ y.op.step = "back" /\ y.op.kind = "replace"
        /\ y.pc = x.pc /\ y.mode = x.mode /\ y.samples = x.samples
        /\ y.own = x.own /\ y.targets = x.targets /\ y.kept = x.kept
    <3>1. "back" \in OpSteps
      BY DEF OpSteps
    <3> QED BY <1>1, <1>2, <2>2, <3>1, SteppedIs
  <2>4. StepsOK(y) /\ Expects(files, r, y) /\ y.op.step # "settle"
    BY <1>1, <1>3, <1>4, <2>3 DEF StepsOK, Expects
  <2>5. \A q \in Outputs : Holds(r, y, q) => Holds(r, x, q) /\ ~Moved(x, q)
    BY <1>1, <2>3 DEF Holds, Moved
  <2>6. x.pc \notin Ended \cup {"lock"} /\ ~Moved(x, "lock") /\ Mid(x)
        /\ y.pc # "retire"
    BY <1>1, <1>4, <2>3 DEF Ended, Moved, Mid
  <2>7. y = run'[r]
    BY DEF y
  <2> QED BY <1>4, <2>1, <2>2, <2>3, <2>4, <2>5, <2>6, <2>7,
             QuietConsistent DEF Onward
<1>6. CASE owned
  <2>1. Sets(files, files', Stage(r), None)
    BY <1>1, <1>6 DEF Confirm, Sets
  <2>2. /\ \A p \in Paths : In(files', p) = In(files, p)
        /\ Apart(files, files', r, "partial")
    BY <1>2, <2>1, AsideAloneIs
  <2>3. Turn(files, files', run, run', r) /\ y = Confirmed(r, x)
    BY <1>1, <1>6, <2>2, ApartTurn
  <2> HIDE DEF y
  <2>4. /\ y.op = NoOp /\ y.mode = x.mode /\ y.targets = x.targets
        /\ y.pc \in {"block", "next", "verify", "close"}
        /\ y.pc \in Gathers => x.pc = "call"
        /\ y.own = StagedOf(r, x, "partial")
        /\ y.pc # "close" => y.samples = x.samples /\ y.kept = x.kept
    BY <1>1, <1>2, <2>3, ConfirmedOK DEF Gathers
  <2>5. Compared(files') = Compared(files) /\ Claims(files') = Claims(files)
        /\ Started(files') = Started(files)
    <3>1. Compared(files') = Compared(files) /\ Started(files') = Started(files)
      BY <2>2, PathsApart DEF Compared, Started
    <3> QED BY <3>1 DEF Claims
  <2>6. StepsOK(y)
    <3>1. y.own.data = x.samples
      BY <2>4 DEF StagedOf, File
    <3> QED BY <1>3, <2>4, <3>1 DEF StepsOK, Gathers
  <2>7. HoldsPaths(files', r, y)
    <3>1. ASSUME NEW q \in Claims(files'), Holds(r, y, q)
          PROVE  In(files', q) = Placeholder(r)
      <4>1. q \in Claims(files) /\ q \in Paths
        BY <2>5, <3>1, PathsApart
      <4>2. Holds(r, x, q) /\ ~Moved(x, q)
        BY <1>1, <2>4, <3>1 DEF Holds, Moved
      <4> QED BY <1>3, <2>2, <4>1, <4>2 DEF Guarded, HoldsPaths
    <3>2. (\A q \in FinalPaths : q \in Paths) /\ x.pc \in Act
      BY <1>4, PathsApart DEF Act
    <3> QED BY <1>3, <2>2, <2>4, <3>1, <3>2 DEF HoldsPaths, Guarded
  <2>8. HoldsLock(files', r, y)
    <3>1. "lock" \in Paths /\ ~Moved(x, "lock")
          /\ x.pc \notin Ended \cup {"lock"}
      BY <1>1, <1>4, PathsApart DEF Moved, Ended
    <3> QED BY <1>3, <2>2, <2>4, <3>1 DEF Guarded, HoldsLock
  <2>9. Expects(files', r, y)
    BY <2>4 DEF Expects, NoOp
  <2>10. KindOK(files', r, y)
    BY <1>3, <1>4, <2>4, <2>5 DEF KindOK, Mid, NoOp
  <2>11. KindsOK(files')
    BY <1>3, <2>2 DEF KindsOK
  <2>12. Guarded(files', r, y)
    BY <2>7, <2>8, <2>9 DEF Guarded
  <2>13. y = run'[r]
    BY DEF y
  <2> QED BY <2>2, <2>3, <2>5, <2>6, <2>10, <2>11, <2>12, <2>13,
             ChangeConsistent
<1> QED BY <1>5, <1>6

(* The exchange is undone.                                                  *)
LEMMA BackConsistent ==
  ASSUME CampaignInv, CampaignInv', Consistent(files, run), NEW r \in Runs,
         ExchangeBack(r)
  PROVE  Consistent(files', run') /\ Onward(files, files')
<1> DEFINE x == run[r]
           y == run'[r]
           o == x.op.otherwise
           back == IF At("partial") = None THEN None ELSE files[Stage(r)]
<1>1. /\ x.op # NoOp /\ x.op.step = "back" /\ x.op.kind = "replace"
      /\ Moves(r, LeftOf(x, o))
  BY BackMoves DEF CampaignInv, ExchangeBack
<1>2. /\ x \in RunStates /\ LocalOK(r, x) /\ RunsOK
      /\ files \in [Places -> Files]
  BY RunIs DEF CampaignInv, DiskOK
<1>3. Guarded(files, r, x) /\ KindOK(files, r, x) /\ KindsOK(files)
      /\ StepsOK(x)
  BY DEF Consistent
<1>4. /\ Loaded(x) /\ x.pc \in {"first", "call", "fail"}
      /\ x.op.path = "partial" /\ o \in {"fail", "close"} /\ Mid(x)
      /\ o = "fail" => x.pc = "call"
  BY <1>1, <1>2, WritersAreLoaded DEF Mid
<1>5. PutsAside(files, files', "partial", back, Stage(r), None)
  BY DEF ExchangeBack, PutsAside
<1>6. In(files', "partial") = back /\ Apart(files, files', r, "partial")
      /\ "partial" \in Paths
  <2>1. "partial" \in Paths
    BY PathsApart
  <2> HIDE DEF back
  <2> QED BY <1>2, <1>5, <2>1, PutAsideIs
<1>7. \A q \in Paths : q # "partial" => In(files', q) = In(files, q)
  BY <1>6 DEF Apart
<1>8. Turn(files, files', run, run', r) /\ y = LeftOf(x, o)
  BY <1>1, <1>6, ApartTurn
<1> HIDE DEF y
<1>9. /\ y.pc = o /\ y.op = NoOp /\ y.targets = x.targets /\ y.mode = x.mode
      /\ o = "fail" =>
           /\ y.own = x.own /\ y.samples = x.samples /\ y.kept = x.kept
  BY <1>2, <1>4, <1>8, LeftIs
<1>10. Compared(files') = Compared(files) /\ Claims(files') = Claims(files)
  <2>1. Compared(files') = Compared(files)
    BY <1>7, PathsApart DEF Compared
  <2> QED BY <2>1 DEF Claims
<1>11. Started(files) \/ Compared(files)
  BY <1>3, <1>4 DEF KindOK
<1>12. None.what = "none"
  BY DEF None, File
<1>13. Started(files') \/ Compared(files')
  <2>1. CASE ~Compared(files)
    <3>1. At("partial") # None
      BY <1>11, <1>12, <2>1 DEF Started, In, At
    <3>2. files[Stage(r)].what = "partial"
      BY <1>3, <1>4, <2>1 DEF KindOK
    <3> QED BY <1>6, <3>1, <3>2 DEF Started
  <2> QED BY <1>10, <2>1
<1>14. \A q \in Paths : In(files', q) = In(files, q) \/ Free(files, r, q)
  BY <1>7, <1>11 DEF Free, Started
<1>15. StepsOK(y)
  BY <1>3, <1>4, <1>9 DEF StepsOK, Gathers
<1>16. HoldsPaths(files', r, y)
  <2>1. ASSUME NEW q \in Claims(files'), Holds(r, y, q)
        PROVE  In(files', q) = Placeholder(r)
    <3>1. q \in Claims(files) /\ q \in Paths
      BY <1>10, <2>1, PathsApart
    <3>2. Holds(r, x, q) /\ ~Moved(x, q)
      BY <1>1, <1>9, <2>1 DEF Holds, Moved
    <3>3. q # "partial"
      BY <1>1, <1>2, <1>3, <3>2, UsedPathIs
    <3> QED BY <1>3, <1>7, <3>1, <3>2, <3>3 DEF Guarded, HoldsPaths
  <2>2. \A q \in FinalPaths : q \in Paths /\ q # "partial"
    BY PathsApart
  <2>3. x.pc \in Act
    BY <1>4 DEF Act
  <2> QED BY <1>3, <1>7, <1>9, <2>1, <2>2, <2>3 DEF HoldsPaths, Guarded
<1>17. HoldsLock(files', r, y)
  <2>1. "lock" \in Paths /\ "lock" # "partial" /\ ~Moved(x, "lock")
        /\ x.pc \notin Ended \cup {"lock"} /\ y.pc # "retire"
    BY <1>1, <1>4, <1>9, PathsApart DEF Moved, Ended
  <2> QED BY <1>3, <1>7, <1>9, <2>1 DEF Guarded, HoldsLock
<1>18. Expects(files', r, y)
  BY <1>9 DEF Expects, NoOp
<1>19. KindOK(files', r, y)
  BY <1>9, <1>13 DEF KindOK, Mid, NoOp
<1>20. KindsOK(files')
  <2>1. back.what \in KindsAt("partial")
    BY <1>3, <1>4, <1>12 DEF KindOK, KindsAt
  <2> QED BY <1>3, <1>6, <1>7, <2>1 DEF KindsOK
<1>21. Guarded(files', r, y)
  BY <1>16, <1>17, <1>18 DEF Guarded
<1>22. y = run'[r]
  BY DEF y
<1> QED BY <1>8, <1>10, <1>13, <1>14, <1>15, <1>19, <1>20, <1>21, <1>22,
           ChangeConsistent

(* The operator removes what a dead run left.                               *)
LEMMA TidyConsistent ==
  ASSUME CampaignInv, CampaignInv', Consistent(files, run), NEW p \in Paths,
         Tidy(p)
  PROVE  Consistent(files', run') /\ Onward(files, files')
<1> DEFINE by == At(p).by
<1>1. /\ files' = [files EXCEPT ![<<p, 0>>] = None] /\ run' = run
      /\ At(p).what \in {"lock", "placeholder"} /\ run[by].pc = "dead"
  BY DEF Tidy, Is
<1>2. files \in [Places -> Files] /\ files' \in [Places -> Files] /\ RunsOK
  BY DEF CampaignInv, DiskOK
<1>3. Puts(files, files', p, None)
  BY <1>1 DEF Puts
<1>4. ASSUME NEW q \in Runs
      PROVE  /\ In(files', p) = None /\ Apart(files, files', q, p)
             /\ files'[Stage(q)] = files[Stage(q)]
             /\ files'[Quarantine(q)] = files[Quarantine(q)]
  BY <1>2, <1>3, PutIs
<1>5. Turn(files, files', run, run', by)
  BY <1>1, <1>2, <1>4, RunIs DEF Turn, RunsOK
<1>6. ASSUME NEW q \in Runs
      PROVE  StepsOK(run'[q]) /\ Guarded(files', q, run'[q])
             /\ KindOK(files', q, run'[q]) /\ KindsOK(files')
  <2>1. /\ In(files', p) = None
        /\ \A w \in Paths : w # p => In(files', w) = In(files, w)
    BY <1>4 DEF Apart
  <2>2. None.what = "none" /\ \A w : "none" \in KindsAt(w)
    BY DEF None, File, KindsAt
  <2>3. /\ Compared(files) => Compared(files')
        /\ Started(files) => Started(files')
    BY <1>1, <2>1, PathsApart DEF Compared, Started, In, At
  <2>4. KindsOK(files')
    BY <2>1, <2>2 DEF Consistent, KindsOK
  <2>5. \A w \in Paths : In(files', w) = In(files, w) \/ Free(files, by, w)
    BY <2>1 DEF Free, In, At
  <2>6. CASE q # by
    <3> HIDE DEF by
    <3> QED BY <1>5, <2>3, <2>4, <2>5, <2>6, OthersConsistent
  <2>7. CASE q = by
    <3> DEFINE x == run[q]
    <3>1. x.pc = "dead" /\ run'[q] = x /\ LocalOK(q, x) /\ x \in RunStates
      BY <1>1, <1>2, <2>7, RunIs
    <3> HIDE DEF x
    <3>2. x.op = NoOp /\ \A w \in Outputs : ~Holds(q, x, w)
      BY <3>1, BlankIs DEF Ended
    <3>3. StepsOK(x) /\ Guarded(files', q, x) /\ KindOK(files', q, x)
      BY <3>1, <3>2, PathsApart
      DEF StepsOK, Guarded, HoldsPaths, HoldsLock, Expects, KindOK, NoOp,
          Loaded, Mid, Act, Ended, Gathers
    <3> QED BY <2>4, <3>1, <3>3
  <2> QED BY <2>6, <2>7
<1>7. KindsOK(files')
  <2>1. None.what = "none" /\ \A w : "none" \in KindsAt(w)
    BY DEF None, File, KindsAt
  <2>2. \A pl \in Places : files'[pl] \in {None, files[pl]}
    BY <1>1, <1>2
  <2> QED BY <2>1, <2>2, PlacesAre DEF Consistent, KindsOK, In
<1>8. Onward(files, files')
  <2>1. \A w \in Paths : w # p => In(files', w) = In(files, w)
    <3>1. \A w \in Paths : w # p => <<w, 0>> # <<p, 0>>
      OBVIOUS
    <3> QED BY <1>1, <1>2, <3>1, PlacesAre DEF In
  <2> QED BY <1>1, <2>1, PathsApart DEF Onward, Compared, Started, In, At
<1> QED BY <1>6, <1>7, <1>8 DEF Consistent

(* A frozen input changes.                                                  *)
LEMMA DriftConsistent ==
  ASSUME CampaignInv, CampaignInv', Consistent(files, run),
         NEW input \in {"bundle", "closure"}, Drift(input)
  PROVE  Consistent(files', run')
<1>1. files' = files /\ \A r \in Runs : SameButClean(run[r], run'[r])
  BY DriftMoves DEF CampaignInv, Drift
<1>2. ASSUME NEW r \in Runs
      PROVE  StepsOK(run'[r]) /\ Guarded(files, r, run'[r])
             /\ KindOK(files, r, run'[r])
  <2> DEFINE x == run[r]
             y == run'[r]
  <2>1. /\ y.pc = x.pc /\ y.op = x.op /\ y.own = x.own /\ y.mode = x.mode
        /\ y.targets = x.targets /\ y.samples = x.samples /\ y.kept = x.kept
    BY <1>1 DEF SameButClean
  <2>2. StepsOK(x) /\ Guarded(files, r, x) /\ KindOK(files, r, x)
    BY DEF Consistent
  <2> HIDE DEF x, y
  <2>3. StepsOK(y) /\ KindOK(files, r, y)
    BY <2>1, <2>2 DEF StepsOK, KindOK, Loaded, Mid
  <2>4. Guarded(files, r, y)
    BY <2>1, <2>2
    DEF Guarded, HoldsPaths, HoldsLock, Expects, Holds, Moved
  <2> QED BY <2>3, <2>4 DEF y
<1> QED BY <1>1, <1>2 DEF Consistent

(* The state of every run, by itself.                                       *)
Locals(X) == \A q \in Runs : X[q] \in RunStates /\ LocalOK(q, X[q])

(* A run that holds every final is alone with them.                         *)
LEMMA SoleIs ==
  ASSUME NEW F, NEW X, Locals(X), Consistent(F, X), NEW r \in Runs,
         Sole(r, X[r]), X[r].pc \notin {"publish", "rollback"}
  PROVE  /\ \A p \in FinalPaths :
              In(F, p) = Placeholder(r) /\ In(F, p).what # "final"
         /\ ~Compared(F)
         /\ \A q \in Runs, p \in FinalPaths :
              q # r => ~Holds(q, X[q], p) \/ Moved(X[q], p)
<1> DEFINE x == X[r]
<1>1. Guarded(F, r, x) /\ LocalOK(r, x) /\ x \in RunStates
  BY DEF Consistent, Locals
<1>2. ASSUME NEW p \in FinalPaths PROVE ~Moved(x, p)
  <2>1. x.op # NoOp => x.op.kind = "replace" \/ x.op.path = "partial"
    BY <1>1, PathsApart DEF LocalOK, OpOK, Sequel, Sole, Act
  <2>2. x.op.kind = "replace" => x.op.path = "partial"
    BY <1>1, WritersAreLoaded
  <2>3. NoOp.step # "settle" /\ p # "partial"
    BY PathsApart DEF NoOp
  <2> QED BY <2>1, <2>2, <2>3 DEF Moved
<1>3. \A p \in FinalPaths : In(F, p) = Placeholder(r)
  BY <1>1, <1>2, PathsApart DEF Sole, Guarded, HoldsPaths
<1>4. Placeholder(r).what = "placeholder" /\ \A q : Placeholder(q).by = q
  BY DEF Placeholder, File
<1>5. ~Compared(F)
  BY <1>3, <1>4, PathsApart DEF Compared
<1>6. ASSUME NEW q \in Runs, NEW p \in FinalPaths, q # r, Holds(q, X[q], p),
             ~Moved(X[q], p)
      PROVE  FALSE
  <2>1. In(F, p) = Placeholder(q)
    BY <1>6, PathsApart DEF Consistent, Guarded, HoldsPaths
  <2> QED BY <1>3, <1>4, <1>6, <2>1
<1> QED BY <1>3, <1>4, <1>5, <1>6

(* Two runs never hold every final at once.                                 *)
LEMMA SolesAreOne ==
  ASSUME NEW F, NEW X, Locals(X), Consistent(F, X), NEW r \in Runs,
         Sole(r, X[r]), X[r].pc \notin {"publish", "rollback"},
         NEW q \in Runs, Sole(q, X[q]), X[q].pc \notin {"publish", "rollback"}
  PROVE  q = r
<1>1. "comparison" \in FinalPaths
  BY PathsApart
<1>2. In(F, "comparison") = Placeholder(r)
      /\ In(F, "comparison") = Placeholder(q)
  BY <1>1, SoleIs
<1> QED BY <1>2 DEF Placeholder, File

(* What a run with samples to gather holds and does.                        *)
LEMMA UndoneIs ==
  ASSUME NEW r \in Runs, NEW x \in RunStates, LocalOK(r, x), StepsOK(x),
         Undone(x)
  PROVE  /\ Sole(r, x) /\ Writing(x) /\ Loaded(x) /\ ~Mid(x)
         /\ x.pc \notin {"publish", "rollback"} /\ ~Ready(r, x)
         /\ x.pc # "call" => ~Complete(x.samples)
         /\ x.own.what = "partial"
<1>1. x.pc \in {"next", "call", "verify", "block"}
  BY DEF Undone, Gathers
<1>2. x.pc \in {"block", "next", "verify"} => ~Complete(x.samples)
  BY DEF Undone, StepsOK
<1>3. Sole(r, x) /\ Writing(x)
  BY <1>1, <1>2, HoldersAre DEF Gathers
<1>4. ~Mid(x) /\ x.op.step # "confirm"
  BY DEF Undone, Mid
<1>5. ~Ready(r, x)
  BY <1>1, <1>2, <1>4 DEF Ready
<1> QED BY <1>1, <1>2, <1>3, <1>4, <1>5, WritersAreLoaded

(* Nobody else writes beside a run that has samples to gather.              *)
LEMMA UndoneAlone ==
  ASSUME NEW F, NEW X, Locals(X), Consistent(F, X), Alone(F, X),
         NEW w \in Runs, Undone(X[w]), NEW q \in Runs, q # w
  PROVE  ~Writing(X[q]) /\ ~Mid(X[q]) /\ ~Undone(X[q]) /\ X[q].pc \notin Gathers
<1>1. /\ LocalOK(w, X[w]) /\ X[w] \in RunStates /\ StepsOK(X[w])
      /\ LocalOK(q, X[q]) /\ X[q] \in RunStates /\ StepsOK(X[q])
  BY DEF Locals, Consistent
<1>2. Sole(w, X[w]) /\ X[w].pc \notin {"publish", "rollback"}
  BY <1>1, UndoneIs
<1>3. ~Writing(X[q])
  <2>1. SUFFICES ASSUME Writing(X[q]) PROVE FALSE
    OBVIOUS
  <2>2. Loaded(X[q])
    BY <1>1, <2>1, WritersAreLoaded
  <2>3. ~Complete(X[q].samples)
    BY <2>2 DEF Alone
  <2>4. Sole(q, X[q]) /\ X[q].pc \notin {"publish", "rollback"}
    BY <1>1, <2>1, <2>3, HoldersAre
  <2> QED BY <1>2, <2>4, SolesAreOne
<1>4. ~Mid(X[q])
  BY <1>1, <1>3, WritersAreLoaded
<1>5. ~Undone(X[q])
  BY <1>1, <1>3, UndoneIs
<1>6. X[q].pc \notin Gathers
  BY <1>1, <1>3, HoldersAre
<1> QED BY <1>3, <1>4, <1>5, <1>6

(* Once a population is complete for good, nobody has samples to gather.    *)
LEMMA FirmNoUndone ==
  ASSUME NEW F, NEW X, Locals(X), Consistent(F, X), Settled(F, X),
         NEW w \in Runs
  PROVE  ~Undone(X[w])
<1>1. SUFFICES ASSUME Undone(X[w]) PROVE FALSE
  OBVIOUS
<1>2. /\ Writing(X[w]) /\ ~Ready(w, X[w])
      /\ X[w].pc # "call" => ~Complete(X[w].samples)
  BY <1>1, UndoneIs DEF Locals, Consistent
<1>3. /\ Complete(X[w].samples)
      /\ X[w].pc \in Gathers => Ready(w, X[w])
  BY <1>2 DEF Settled, SettledRun
<1> QED BY <1>2, <1>3 DEF Gathers

(* A partial is set aside only beside a comparison.                         *)
LEMMA AsideIsCompared ==
  ASSUME NEW F, NEW X, Locals(X), Consistent(F, X), NEW q \in Runs,
         Moved(X[q], "partial"), F[Quarantine(q)].what = "partial"
  PROVE  Compared(F)
<1> DEFINE x == X[q]
<1>1. Guarded(F, q, x) /\ LocalOK(q, x) /\ x \in RunStates
  BY DEF Consistent, Locals
<1>2. x.op.kind \in {"remove", "link"} /\ x.op # NoOp
  BY <1>1 DEF LocalOK, OpOK, Sequel, Moved, NoOp
<1>3. x.pc = "retire" => Compared(F)
  BY <1>1 DEF Guarded, HoldsLock
<1>4. x.op.expected = Placeholder(q) \/ x.pc = "retire"
  BY <1>1, <1>2, ExpectedIs DEF Moved
<1>5. ~Compared(F) => F[Quarantine(q)] = x.op.expected
  BY <1>1, <1>2, PathsApart DEF Guarded, Expects, Claims, Moved
<1>6. Placeholder(q).what # "partial"
  BY DEF Placeholder, File
<1> QED BY <1>3, <1>4, <1>5, <1>6

(* A resume that holds a final is alone, but for a run that has begun to    *)
(* publish.                                                                 *)
LEMMA LoneResume ==
  ASSUME NEW F, NEW X, Locals(X), Consistent(F, X), NEW r \in Runs,
         X[r].pc = "first", X[r].mode = "resume",
         NEW p \in FinalPaths, Holds(r, X[r], p),
         NEW q \in Runs, q # r, Loaded(X[q])
  PROVE  Consumed(X[q]) \/ Ready(q, X[q])
<1> DEFINE x == X[r]
           y == X[q]
<1>1. Guarded(F, r, x) /\ LocalOK(r, x) /\ x \in RunStates
      /\ Guarded(F, q, y) /\ LocalOK(q, y) /\ y \in RunStates
  BY DEF Consistent, Locals
<1>2. /\ Lock(r) # Lock(q) /\ Placeholder(r) # Placeholder(q)
  BY DEF Lock, Placeholder, File
<1>3. x.op # NoOp => x.op.kind = "replace" /\ x.op.path = "partial"
  BY <1>1 DEF LocalOK, OpOK, Sequel
<1>4. ~Moved(x, "lock") /\ ~Moved(x, p)
  BY <1>3, PathsApart DEF Moved, NoOp
<1>5. In(F, "lock") = Lock(r)
  BY <1>1, <1>4 DEF Guarded, HoldsLock, Ended
<1>6. y.mode # "resume"
  <2>1. ~Moved(y, "lock") /\ y.pc \notin Ended \cup {"lock"}
    <3>1. y.pc \in Act \cup {"reserve"}
      BY DEF Loaded
    <3>2. y.op # NoOp /\ y.op.path = "lock" => y.pc = "unlock"
      BY <1>1, PathsAre, PathsApart DEF LocalOK, OpOK, Sequel
    <3> QED BY <3>1, <3>2 DEF Moved, Act, Ended, NoOp
  <2> QED BY <1>1, <1>2, <1>5, <2>1 DEF Guarded, HoldsLock
<1>7. y.mode = "fresh" /\ y.pc \in Act
  BY <1>1, <1>6 DEF LocalOK, PhaseOK, Loaded, Act, Ended
<1>8. In(F, p) = Placeholder(r)
  BY <1>1, <1>4, PathsApart DEF Guarded, HoldsPaths
<1>9. ~Holds(q, y, p) \/ Moved(y, p)
  BY <1>1, <1>2, <1>8, PathsApart DEF Guarded, HoldsPaths
<1>10. TargetOK(q, y, p) /\ y.targets[p].info # None
       /\ y.targets[p].info = Placeholder(q) /\ ~y.targets[p].preexisting
  <2>1. TargetOK(q, y, p) /\ FinalTargetOK(q, y, p)
    BY <1>1, PathsApart DEF LocalOK, TargetsOK
  <2> QED BY <1>7, <2>1 DEF TargetOK, FinalTargetOK
<1>11. CASE ~Holds(q, y, p)
  BY <1>7, <1>10, <1>11 DEF Holds, HeldTarget, Consumed, Spent
<1>12. CASE Moved(y, p) /\ Holds(q, y, p)
  <2>1. y.op # NoOp /\ StepsOK(y)
    BY <1>12 DEF Consistent, Moved, NoOp
  <2>2. y.op.kind # "remove" /\ p \in Outputs
    BY <1>1, <1>12, <2>1, UsedPathIs, PathsApart DEF Moved
  <2>3. y.pc = "publish"
    BY <1>1, <1>7, <1>12, <2>1, <2>2, PathsApart
    DEF LocalOK, OpOK, Sequel, Moved, Act
  <2>4. Complete(y.samples)
    BY <1>1, <2>3 DEF LocalOK, PhaseOK
  <2> QED BY <1>12, <2>3, <2>4 DEF Ready
<1> QED BY <1>9, <1>11, <1>12

(* A step of run r after which it knows, writes and promises no more.       *)
Fades(F, r, x, y, d) ==
    /\ Loaded(y) => \/ Loaded(x) /\ y.samples = x.samples
                    \/ Started(F) /\ y.samples = In(F, "partial").data
    /\ Writing(y) => /\ Writing(x) /\ y.samples = x.samples
                     /\ Restored(d, r, x) => Restored(d, r, y)
    /\ Undone(y) => Undone(x) /\ y.own = x.own
    /\ Consumed(y) \/ Ready(r, y) => Consumed(x) \/ Ready(r, x)
    /\ y.pc \in Gathers =>
          \/ x.pc \in Gathers /\ (Ready(r, x) => Ready(r, y))
          \/ Writing(x) /\ ~Complete(x.samples)
    /\ Mid(y) => Mid(x) /\ (Ready(r, x) => Ready(r, y))

(* What it may do to the files meanwhile.                                   *)
Calm(F, G, r, x, y) ==
    /\ Onward(F, G)
    /\ Started(G) =>
          \/ In(G, "partial") = In(F, "partial")
          \/ AsideIs(F, r, x, In(G, "partial").data)
          \/ StageIs(F, r, x, In(G, "partial").data) /\ ~Ready(r, x)
    /\ \A p \in FinalPaths :
          In(G, p).what = "final" => In(G, p) = In(F, p)
    /\ Mid(y) => G[Stage(r)] = F[Stage(r)]
    /\ Moved(y, "partial") /\ G[Quarantine(r)].what = "partial" =>
          Started(F) /\ G[Quarantine(r)] = In(F, "partial")

(* After a step that fades, nothing new is known,                           *)
LEMMA FadingFull ==
  ASSUME NEW F, NEW G, NEW X, NEW Y, NEW r \in Runs, NEW d, NEW D,
         Turn(F, G, X, Y, r), Calm(F, G, r, X[r], Y[r]),
         Fades(F, r, X[r], Y[r], d), Full(G, Y, D)
  PROVE  Full(F, X, D)
<1> DEFINE x == X[r]
           y == Y[r]
<1>1. Complete(D) /\ Val(G, Y, D)
  BY DEF Full
<1>2. CASE Started(G) /\ In(G, "partial").data = D
  <2>1. \/ Started(F) /\ In(F, "partial").data = D
        \/ Knows(F, r, x, D)
    BY <1>2 DEF Calm, Started, Knows
  <2> QED BY <1>1, <2>1 DEF Full, Val
<1>3. ASSUME NEW q \in Runs, q # r, Knows(G, q, Y[q], D)
      PROVE  Full(F, X, D)
  <2>1. Y[q] = X[q] /\ G[Stage(q)] = F[Stage(q)]
        /\ G[Quarantine(q)] = F[Quarantine(q)]
    BY <1>3 DEF Turn
  <2>2. Knows(F, q, X[q], D)
    BY <1>3, <2>1 DEF Knows, StageIs, AsideIs
  <2> QED BY <1>1, <2>2 DEF Full, Val
<1>4. ASSUME Knows(G, r, y, D)
      PROVE  Full(F, X, D)
  <2>1. \/ Knows(F, r, x, D)
        \/ Started(F) /\ In(F, "partial").data = D
    BY <1>4 DEF Knows, StageIs, AsideIs, Calm, Fades
  <2> QED BY <1>1, <2>1 DEF Full, Val
<1> QED BY <1>1, <1>2, <1>3, <1>4 DEF Val

(* only one complete population is known,                                   *)
LEMMA FadingOne ==
  ASSUME NEW F, NEW G, NEW X, NEW Y, NEW r \in Runs, NEW d,
         Turn(F, G, X, Y, r), Calm(F, G, r, X[r], Y[r]),
         Fades(F, r, X[r], Y[r], d), OneValue(F, X, d)
  PROVE  OneValue(G, Y, d)
<1>1. SUFFICES ASSUME NEW D, Full(G, Y, D)
               PROVE  /\ \A q \in Runs : Agrees(d, q, Y[q], D)
                      /\ \A E : Full(G, Y, E) => D = E
  BY DEF OneValue
<1>2. Full(F, X, D) /\ \A E : Full(G, Y, E) => Full(F, X, E)
  BY <1>1, FadingFull
<1>3. /\ \A q \in Runs : Agrees(d, q, X[q], D)
      /\ \A E : Full(F, X, E) => D = E
  BY <1>2 DEF OneValue
<1>4. ASSUME NEW q \in Runs PROVE Agrees(d, q, Y[q], D)
  <2>1. CASE q # r
    BY <1>3, <2>1 DEF Turn
  <2>2. CASE q = r
    BY <1>3, <2>2 DEF Agrees, Fades
  <2> QED BY <2>1, <2>2
<1> QED BY <1>2, <1>3, <1>4

(* whoever gathers is alone,                                                *)
LEMMA FadingAlone ==
  ASSUME NEW F, NEW G, NEW X, NEW Y, NEW r \in Runs, NEW d,
         Turn(F, G, X, Y, r), Fades(F, r, X[r], Y[r], d), Alone(F, X),
         \/ In(G, "partial") = In(F, "partial")
         \/ \A w \in Runs : ~Undone(X[w])
  PROVE  Alone(G, Y)
<1>1. SUFFICES ASSUME NEW w \in Runs, Undone(Y[w])
               PROVE  /\ In(G, "partial") = Y[w].own
                      /\ \A q \in Runs : q # w /\ Loaded(Y[q]) =>
                            ~Complete(Y[q].samples)
  BY DEF Alone
<1>2. Undone(X[w]) /\ Y[w].own = X[w].own
  <2>1. CASE w # r
    BY <1>1, <2>1 DEF Turn
  <2>2. CASE w = r
    BY <1>1, <2>2 DEF Fades
  <2> QED BY <2>1, <2>2
<1>3. /\ In(F, "partial") = X[w].own /\ In(G, "partial") = In(F, "partial")
      /\ \A q \in Runs : q # w /\ Loaded(X[q]) => ~Complete(X[q].samples)
      /\ ~Complete(In(F, "partial").data)
  BY <1>2 DEF Alone, Undone
<1>4. ASSUME NEW q \in Runs, q # w, Loaded(Y[q])
      PROVE  ~Complete(Y[q].samples)
  <2>1. CASE q # r
    BY <1>3, <1>4, <2>1 DEF Turn
  <2>2. CASE q = r
    BY <1>3, <1>4, <2>2 DEF Fades
  <2> QED BY <2>1, <2>2
<1> QED BY <1>2, <1>3, <1>4

(* and what was settled stays so.                                           *)
LEMMA FadingSettled ==
  ASSUME NEW F, NEW G, NEW X, NEW Y, NEW r \in Runs, NEW d,
         Turn(F, G, X, Y, r), Calm(F, G, r, X[r], Y[r]),
         Fades(F, r, X[r], Y[r], d), Firm(F, X) => Settled(F, X), Firm(G, Y)
  PROVE  Settled(G, Y)
<1> DEFINE x == X[r]
           y == Y[r]
<1>1. Firm(F, X)
  <2>1. CASE \E p \in FinalPaths : In(G, p).what = "final"
    BY <2>1 DEF Firm, Calm
  <2>2. ASSUME NEW q \in Runs, Consumed(Y[q]) \/ Ready(q, Y[q])
        PROVE  Firm(F, X)
    <3>1. CASE q # r
      BY <2>2, <3>1 DEF Turn, Firm
    <3>2. CASE q = r
      BY <2>2, <3>2 DEF Firm, Fades
    <3> QED BY <3>1, <3>2
  <2> QED BY <2>1, <2>2 DEF Firm
<1>2. Settled(F, X)
  BY <1>1
<1>3. ~Compared(G) => Started(G)
  BY <1>2 DEF Settled, Calm, Onward
<1>4. SettledRun(F, X, r)
  BY <1>2 DEF Settled
<1>5. Started(F) => Complete(In(F, "partial").data)
  BY <1>2 DEF Settled
<1>6. Started(G) => Complete(In(G, "partial").data)
  <2>1. SUFFICES ASSUME Started(G) PROVE Complete(In(G, "partial").data)
    OBVIOUS
  <2>2. CASE In(G, "partial") = In(F, "partial")
    BY <1>5, <2>1, <2>2 DEF Started
  <2>3. CASE AsideIs(F, r, x, In(G, "partial").data)
    BY <1>4, <2>3 DEF SettledRun, AsideIs
  <2>4. CASE StageIs(F, r, x, In(G, "partial").data) /\ ~Ready(r, x)
    BY <1>4, <2>4 DEF SettledRun, StageIs
  <2> QED BY <2>1, <2>2, <2>3, <2>4 DEF Calm
<1>7. ASSUME NEW q \in Runs PROVE SettledRun(G, Y, q)
  <2>1. CASE q # r
    <3>1. Y[q] = X[q] /\ G[Stage(q)] = F[Stage(q)]
          /\ G[Quarantine(q)] = F[Quarantine(q)]
      BY <2>1 DEF Turn
    <3>2. SettledRun(F, X, q)
      BY <1>2 DEF Settled
    <3>3. X[q].pc \in Gathers =>
            \A w \in Runs : w # q => ~Ready(w, Y[w]) /\ ~Consumed(Y[w])
      <4>1. SUFFICES ASSUME X[q].pc \in Gathers, NEW w \in Runs, w # q
                     PROVE  ~Ready(w, Y[w]) /\ ~Consumed(Y[w])
        OBVIOUS
      <4>2. ~Ready(w, X[w]) /\ ~Consumed(X[w])
        BY <3>2, <4>1 DEF SettledRun
      <4>3. CASE w # r
        BY <4>2, <4>3 DEF Turn
      <4>4. CASE w = r
        BY <4>2, <4>4 DEF Fades
      <4> QED BY <4>3, <4>4
    <3> QED BY <3>1, <3>2, <3>3 DEF SettledRun
  <2>2. CASE q = r
    <3>1. Mid(y) /\ G[Stage(r)].what = "partial" /\ ~Ready(r, y) =>
            Complete(G[Stage(r)].data)
      BY <1>4 DEF SettledRun, Fades, Calm
    <3>2. Moved(y, "partial") /\ G[Quarantine(r)].what = "partial" =>
            Complete(G[Quarantine(r)].data)
      BY <1>5 DEF Calm
    <3>3. Writing(y) => Complete(y.samples)
      BY <1>4 DEF SettledRun, Fades
    <3>4. ASSUME y.pc \in Gathers
          PROVE  /\ Ready(r, y)
                 /\ \A w \in Runs : w # r => ~Ready(w, Y[w]) /\ ~Consumed(Y[w])
      <4>1. x.pc \in Gathers /\ (Ready(r, x) => Ready(r, y))
        BY <1>4, <3>4 DEF Fades, SettledRun
      <4> QED BY <1>4, <4>1 DEF SettledRun, Turn
    <3> QED BY <2>2, <3>1, <3>2, <3>3, <3>4 DEF SettledRun
  <2> QED BY <2>1, <2>2
<1>8. ASSUME NEW p \in FinalPaths PROVE SettledFinal(G, Y, p)
  <2>1. SUFFICES ASSUME In(G, p).what = "final"
                 PROVE  /\ \A D : Full(G, Y, D) => In(G, p).data = Part(D, p)
                        /\ Compared(G) => In(G, p).data
                                        = Part(In(G, "comparison").data, p)
    BY DEF SettledFinal
  <2>2. In(G, p) = In(F, p) /\ SettledFinal(F, X, p)
    BY <1>2, <2>1 DEF Calm, Settled
  <2>3. \A D : Full(G, Y, D) => Full(F, X, D)
    BY FadingFull
  <2>4. Compared(G) =>
          Compared(F) /\ In(G, "comparison") = In(F, "comparison")
    BY PathsApart DEF Compared, Calm
  <2> QED BY <2>1, <2>2, <2>3, <2>4 DEF SettledFinal
<1> QED BY <1>3, <1>6, <1>7, <1>8 DEF Settled

(* A step that fades keeps what is shared.                                  *)
LEMMA FadingShared ==
  ASSUME NEW F, NEW G, NEW X, NEW Y, NEW r \in Runs, NEW d,
         Turn(F, G, X, Y, r), Calm(F, G, r, X[r], Y[r]),
         Fades(F, r, X[r], Y[r], d), Shared(F, X, d), Consistent(G, Y),
         \/ In(G, "partial") = In(F, "partial")
         \/ \A w \in Runs : ~Undone(X[w])
  PROVE  Shared(G, Y, d)
BY FadingOne, FadingAlone, FadingSettled DEF Shared

(* A step that leaves the directory alone.                                  *)
LEMMA QuietShared ==
  ASSUME NEW F, NEW X, NEW Y, NEW r \in Runs, NEW d, Turn(F, F, X, Y, r),
         Fades(F, r, X[r], Y[r], d), Shared(F, X, d), Consistent(F, Y),
         ~Moved(Y[r], "partial")
  PROVE  Shared(F, Y, d)
<1>1. Calm(F, F, r, X[r], Y[r])
  BY DEF Calm, Onward
<1> QED BY <1>1, FadingShared

(* A run that writes no more.                                               *)
LEMMA OutFades ==
  ASSUME NEW F, NEW r, NEW x, NEW y, NEW d, y.pc \notin Act, ~Mid(y),
         Loaded(y) => \/ Loaded(x) /\ y.samples = x.samples
                      \/ Started(F) /\ y.samples = In(F, "partial").data
  PROVE  Fades(F, r, x, y, d)
BY DEF Fades, Writing, Undone, Consumed, Ready, Gathers, Act

(* A run that goes on with what it has.                                     *)
LEMMA OnFades ==
  ASSUME NEW F, NEW r, NEW x, NEW y, NEW d, x.pc \in Act, ~Mid(y),
         y.samples = x.samples, y.own = x.own, y.targets = x.targets,
         Writing(y) => Writing(x), x.pc = "fail" => y.pc = "fail",
         Undone(y) => Undone(x), Ready(r, y) => Ready(r, x),
         y.pc \in Gathers =>
            \/ x.pc \in Gathers /\ (Ready(r, x) => Ready(r, y))
            \/ Writing(x) /\ ~Complete(x.samples)
  PROVE  Fades(F, r, x, y, d)
<1>1. Loaded(y) => Loaded(x)
  BY DEF Loaded
<1>2. Consumed(y) => Consumed(x)
  BY DEF Consumed
<1>3. Writing(y) /\ Restored(d, r, x) => Restored(d, r, y)
  BY DEF Restored, Sole, Holds, Act
<1> QED BY <1>1, <1>2, <1>3 DEF Fades

(* A step of run r that leaves the directory alone.                         *)
LEMMA StillShared ==
  ASSUME CampaignInv, CampaignInv', Shared(files, run, drifted),
         NEW r \in Runs, NEW y, Moves(r, y), files' = files,
         drifted' = drifted, Consistent(files', run'),
         Fades(files, r, run[r], y, drifted), ~Moved(y, "partial")
  PROVE  Shared(files', run', drifted')
<1>1. Turn(files, files, run, run', r) /\ run'[r] = y
  BY QuietTurn
<1> QED BY <1>1, QuietShared

(* A run that leaves keeps it.                                              *)
LEMMA LeavesShared ==
  ASSUME CampaignInv, CampaignInv', Shared(files, run, drifted),
         NEW r \in Runs, NEW y, Moves(r, y), files' = files,
         drifted' = drifted, Consistent(files', run'),
         y.op = NoOp, y.pc \in {"close", "unlock", "done", "dead"}
  PROVE  Shared(files', run', drifted')
<1>1. /\ y.pc \notin Act /\ ~Mid(y) /\ ~Loaded(y) /\ ~Moved(y, "partial")
  BY DEF Act, Mid, Loaded, Moved, NoOp
<1>2. Fades(files, r, run[r], y, drifted)
  BY <1>1, OutFades
<1> QED BY <1>1, <1>2, StillShared

(* The steps of the command, one by one, keep what is shared.  A run begins.*)
LEMMA BeginShared ==
  ASSUME CampaignInv, CampaignInv', Shared(files, run, drifted), NEW r \in Runs,
         NEW mode \in {"fresh", "resume"}, Begin(r, mode)
  PROVE  Shared(files', run', drifted')
<1> DEFINE x == run[r]
           y == run'[r]
<1>1. /\ Moves(r, y) /\ y.pc \in {"lock", "reserve"}
      /\ y.own = None /\ y.op = NoOp
  BY BeginMoves DEF CampaignInv
<1>2. files' = files /\ drifted' = drifted
  BY DEF Begin, Quiet, Elsewhere
<1>3. Consistent(files', run')
  BY BeginConsistent DEF Shared
<1>4. /\ y.pc \notin Act /\ ~Mid(y) /\ ~Loaded(y) /\ ~Moved(y, "partial")
  BY <1>1 DEF Act, Mid, Loaded, Moved, NoOp
<1>5. Fades(files, r, x, y, drifted)
  BY <1>4, OutFades
<1> QED BY <1>1, <1>2, <1>3, <1>4, <1>5, StillShared

(* A run dies.                                                              *)
LEMMA CrashShared ==
  ASSUME CampaignInv, CampaignInv', Shared(files, run, drifted), NEW r \in Runs,
         Crash(r)
  PROVE  Shared(files', run', drifted')
<1>1. Moves(r, run'[r]) /\ run'[r].pc = "dead" /\ run'[r].op = NoOp
  BY CrashMoves DEF CampaignInv
<1>2. files' = files /\ drifted' = drifted
  BY DEF Crash, Quiet, Elsewhere
<1>3. Consistent(files', run')
  BY CrashConsistent DEF Shared
<1> QED BY <1>1, <1>2, <1>3, LeavesShared

(* A resume loads the partial.                                              *)
LEMMA LoadShared ==
  ASSUME CampaignInv, CampaignInv', Shared(files, run, drifted), NEW r \in Runs,
         openABResume(r)
  PROVE  Shared(files', run', drifted')
<1> DEFINE x == run[r]
           y == run'[r]
           v == At("partial")
<1>1. /\ Moves(r, y) /\ y.op = NoOp
      /\ \/ v.what = "partial" /\ y.pc = "reserve" /\ y.samples = v.data
         \/ y.pc = "unlock"
  <2>1. RunsOK /\ FilesOK
    BY DEF CampaignInv, DiskOK, FilesOK, Sound
  <2> QED BY <2>1, LoadMoves
<1>2. files' = files /\ drifted' = drifted
  BY DEF openABResume, Quiet, Elsewhere
<1>3. Consistent(files', run')
  BY LoadConsistent DEF Shared
<1>4. CASE y.pc = "unlock"
  BY <1>1, <1>2, <1>3, <1>4, LeavesShared
<1>5. CASE v.what = "partial" /\ y.pc = "reserve" /\ y.samples = v.data
  <2>1. /\ y.pc \notin Act /\ ~Mid(y) /\ ~Moved(y, "partial")
    BY <1>1, <1>5 DEF Act, Mid, Moved, NoOp
  <2>2. Started(files) /\ y.samples = In(files, "partial").data
    BY <1>5 DEF Started, In, At
  <2>3. Fades(files, r, x, y, drifted)
    BY <2>1, <2>2, OutFades
  <2> QED BY <1>1, <1>2, <1>3, <2>1, <2>3, StillShared
<1> QED BY <1>1, <1>4, <1>5

(* The first checkpoint opens.                                              *)
LEMMA FirstShared ==
  ASSUME CampaignInv, CampaignInv', Shared(files, run, drifted), NEW r \in Runs,
         FirstCheckpoint(r)
  PROVE  Shared(files', run', drifted')
<1> DEFINE x == run[r]
           y == run'[r]
<1>1. /\ Moves(r, y) /\ x.pc = "first" /\ x.op = NoOp
      /\ \/ y = LeftOf(x, "close")
         \/ y = [x EXCEPT !.op = savePartial(r, "block", "close")]
  BY FirstMoves DEF CampaignInv
<1>2. files' = files /\ drifted' = drifted
  BY DEF FirstCheckpoint, Quiet, Elsewhere
<1>3. Consistent(files', run')
  BY FirstConsistent DEF Shared
<1>4. x \in RunStates /\ LocalOK(r, x) /\ RunsOK
  BY RunIs DEF CampaignInv
<1>5. CASE y = LeftOf(x, "close")
  <2>1. y.pc = "close" /\ y.op = NoOp
    BY <1>4, <1>5, LeftIs
  <2> QED BY <1>1, <1>2, <1>3, <2>1, LeavesShared
<1>6. CASE y = [x EXCEPT !.op = savePartial(r, "block", "close")]
  <2>1. savePartial(r, "block", "close") \in Operations
    BY ZenonT(60), <1>1, <1>4, SaveIs DEF Steps
  <2>2. /\ y.op = savePartial(r, "block", "close") /\ y.pc = x.pc
        /\ y.mode = x.mode /\ y.own = x.own /\ y.targets = x.targets
        /\ y.samples = x.samples
    BY <1>4, <1>6, <2>1, OpFields
  <2>3. y.op.step = "check"
    <3>1. "block" \in Steps /\ "close" \in Steps
      BY DEF Steps
    <3>2. x.mode \in {"fresh", "resume"}
      BY <1>1, <1>4 DEF LocalOK, PhaseOK, Ended
    <3> QED BY <1>1, <1>4, <2>2, <3>1, <3>2, SaveIs
  <2> HIDE DEF y
  <2>4. Fades(files, r, x, y, drifted) /\ ~Moved(y, "partial")
    <3>1. /\ ~Mid(y) /\ ~Writing(y) /\ ~Undone(y) /\ ~Ready(r, y)
          /\ y.pc \notin Gathers /\ x.pc \in Act
      BY <1>1, <2>2, <2>3
      DEF Mid, Writing, Undone, Ready, Gathers, Act
    <3>2. Fades(files, r, x, y, drifted)
      BY <1>1, <2>2, <3>1, OnFades
    <3> QED BY <2>3, <3>2 DEF Moved
  <2>5. y = run'[r]
    BY DEF y
  <2> QED BY <1>1, <1>2, <1>3, <2>4, <2>5, StillShared
<1> QED BY <1>1, <1>5, <1>6

(* A failed run saves what it has.                                          *)
LEMMA FailureShared ==
  ASSUME CampaignInv, CampaignInv', Shared(files, run, drifted), NEW r \in Runs,
         finalizeFailure(r)
  PROVE  Shared(files', run', drifted')
<1> DEFINE x == run[r]
           y == run'[r]
<1>1. /\ Moves(r, y) /\ x.pc = "fail" /\ x.op = NoOp
      /\ y = [x EXCEPT !.op = savePartial(r, "close", "close")]
  BY FailureMoves DEF CampaignInv
<1>2. files' = files /\ drifted' = drifted
  BY DEF finalizeFailure, Quiet, Elsewhere
<1>3. Consistent(files', run')
  BY FailureConsistent DEF Shared
<1>4. x \in RunStates /\ LocalOK(r, x) /\ RunsOK
  BY RunIs DEF CampaignInv
<1>5. savePartial(r, "close", "close") \in Operations /\ "close" \in Steps
  BY ZenonT(60), <1>1, <1>4, SaveIs DEF Steps
<1>6. /\ y.op = savePartial(r, "close", "close") /\ y.pc = x.pc
      /\ y.mode = x.mode /\ y.own = x.own /\ y.targets = x.targets
      /\ y.samples = x.samples
  BY <1>1, <1>4, <1>5, OpFields
<1> HIDE DEF y
<1>7. y.op.step \in {"check", "exchange"}
  BY <1>1, <1>3, <1>5, <1>6, SavingOpens DEF Shared
<1>8. Fades(files, r, x, y, drifted) /\ ~Moved(y, "partial")
  <2>1. /\ ~Mid(y) /\ Writing(x) /\ ~Undone(y) /\ ~Ready(r, y)
        /\ y.pc \notin Gathers /\ x.pc \in Act
    BY <1>1, <1>6, <1>7
    DEF Mid, Writing, Undone, Ready, Gathers, Act
  <2>2. Fades(files, r, x, y, drifted)
    BY <1>1, <1>6, <2>1, OnFades
  <2> QED BY <1>7, <2>2 DEF Moved
<1>9. y = run'[r]
  BY DEF y
<1> QED BY <1>1, <1>2, <1>3, <1>8, <1>9, StillShared

(* A block begins.                                                          *)
LEMMA BlockShared ==
  ASSUME CampaignInv, CampaignInv', Shared(files, run, drifted), NEW r \in Runs,
         BeginBlock(r)
  PROVE  Shared(files', run', drifted')
<1> DEFINE x == run[r]
           y == run'[r]
<1>1. /\ Moves(r, y) /\ x.pc = "block" /\ x.op = NoOp /\ y.op = NoOp
      /\ y.samples = x.samples /\ y.own = x.own /\ y.targets = x.targets
      /\ \/ y.pc = "finish"
         \/ ~Complete(x.samples) /\ y.pc = "next"
  BY BlockMoves DEF CampaignInv
<1>2. files' = files /\ drifted' = drifted
  BY DEF BeginBlock, Quiet, Elsewhere
<1>3. Consistent(files', run')
  BY BlockConsistent DEF Shared
<1> HIDE DEF y
<1>4. /\ ~Mid(y) /\ Writing(x) /\ (Undone(y) => Undone(x))
      /\ (Ready(r, y) => Ready(r, x)) /\ x.pc \in Act
      /\ ~Moved(y, "partial")
  BY <1>1 DEF Mid, Writing, Undone, Ready, Gathers, Act, Moved, NoOp, Holds
<1>5. y.pc \in Gathers => Writing(x) /\ ~Complete(x.samples)
  BY <1>1, <1>4 DEF Gathers
<1>6. Fades(files, r, x, y, drifted)
  BY <1>1, <1>4, <1>5, OnFades
<1>7. y = run'[r]
  BY DEF y
<1> QED BY <1>1, <1>2, <1>3, <1>4, <1>6, <1>7, StillShared

(* A call begins.                                                           *)
LEMMA BeginSampleShared ==
  ASSUME CampaignInv, CampaignInv', Shared(files, run, drifted), NEW r \in Runs,
         BeginSample(r)
  PROVE  Shared(files', run', drifted')
<1> DEFINE x == run[r]
           y == run'[r]
<1>1. /\ Moves(r, y) /\ x.pc = "next" /\ x.op = NoOp /\ y.op = NoOp
      /\ x.block \in DOMAIN Blocks
      /\ y.samples = x.samples /\ y.own = x.own /\ y.targets = x.targets
      /\ \/ y.pc \in {"verify", "fail"}
         \/ y.pc = "call" /\ ~abBlockComplete(x.samples, x.block)
  BY BeginSampleMoves DEF CampaignInv
<1>2. files' = files /\ drifted' = drifted
  BY DEF BeginSample
<1>3. Consistent(files', run')
  BY BeginSampleConsistent DEF Shared
<1>4. y.pc = "call" => ~Complete(x.samples)
  <2>1. x \in RunStates
    BY RunIs DEF CampaignInv
  <2>2. x.samples \in SUBSET Samples
    BY <2>1 DEF RunStates
  <2> QED BY <1>1, <2>2, PopulationIs
<1> HIDE DEF y
<1>5. /\ ~Mid(y) /\ Writing(x) /\ (Undone(y) => Undone(x))
      /\ (Ready(r, y) => Ready(r, x)) /\ x.pc \in Act
      /\ ~Moved(y, "partial")
  BY <1>1 DEF Mid, Writing, Undone, Ready, Gathers, Act, Moved, NoOp, Holds
<1>6. y.pc \in Gathers => x.pc \in Gathers /\ (Ready(r, x) => Ready(r, y))
  BY <1>1, <1>4 DEF Gathers, Ready, Holds
<1>7. Fades(files, r, x, y, drifted)
  BY <1>1, <1>5, <1>6, OnFades
<1>8. y = run'[r]
  BY DEF y
<1> QED BY <1>1, <1>2, <1>3, <1>5, <1>7, <1>8, StillShared

(* The population is validated.                                             *)
LEMMA FinishShared ==
  ASSUME CampaignInv, CampaignInv', Shared(files, run, drifted), NEW r \in Runs,
         Finish(r)
  PROVE  Shared(files', run', drifted')
<1> DEFINE x == run[r]
           y == run'[r]
<1>1. /\ Moves(r, y) /\ x.pc = "finish" /\ x.op = NoOp /\ y.op = NoOp
      /\ y.samples = x.samples /\ y.own = x.own /\ y.targets = x.targets
      /\ y.pc \in {"fail", "publish"}
  BY FinishMoves DEF CampaignInv
<1>2. files' = files /\ drifted' = drifted
  BY DEF Finish, Quiet, Elsewhere
<1>3. Consistent(files', run')
  BY FinishConsistent DEF Shared
<1> HIDE DEF y
<1>4. /\ ~Mid(y) /\ Writing(x) /\ ~Undone(y) /\ y.pc \notin Gathers
      /\ (Ready(r, y) => Ready(r, x)) /\ x.pc \in Act
      /\ ~Moved(y, "partial")
  BY <1>1 DEF Mid, Writing, Undone, Ready, Gathers, Act, Moved, NoOp, Holds
<1>5. Fades(files, r, x, y, drifted)
  BY <1>1, <1>4, OnFades
<1>6. y = run'[r]
  BY DEF y
<1> QED BY <1>1, <1>2, <1>3, <1>4, <1>5, <1>6, StillShared

(* A final is published or reused.                                          *)
LEMMA PublishShared ==
  ASSUME CampaignInv, CampaignInv', Shared(files, run, drifted), NEW r \in Runs,
         PublishOrReuse(r)
  PROVE  Shared(files', run', drifted')
<1> DEFINE x == run[r]
           y == run'[r]
<1>1. /\ Moves(r, y) /\ x.pc = "publish" /\ x.op = NoOp
      /\ y.samples = x.samples /\ y.own = x.own /\ y.targets = x.targets
      /\ y.pc \in {"publish", "retire", "rollback"}
      /\ y.op = NoOp \/ y.op.step = "check"
  BY PublishMoves DEF CampaignInv
<1>2. files' = files /\ drifted' = drifted
  BY DEF PublishOrReuse, Quiet, Elsewhere
<1>3. Consistent(files', run')
  BY PublishConsistent DEF Shared
<1> HIDE DEF y
<1>4. /\ ~Mid(y) /\ Writing(x) /\ ~Undone(y) /\ y.pc \notin Gathers
      /\ (Ready(r, y) => Ready(r, x)) /\ x.pc \in Act
      /\ ~Moved(y, "partial")
  BY <1>1 DEF Mid, Writing, Undone, Ready, Gathers, Act, Moved, NoOp, Holds
<1>5. Fades(files, r, x, y, drifted)
  BY <1>1, <1>4, OnFades
<1>6. y = run'[r]
  BY DEF y
<1> QED BY <1>1, <1>2, <1>3, <1>4, <1>5, <1>6, StillShared

(* The partial is retired.                                                  *)
LEMMA RetireShared ==
  ASSUME CampaignInv, CampaignInv', Shared(files, run, drifted), NEW r \in Runs,
         RemoveAfterSuccess(r)
  PROVE  Shared(files', run', drifted')
<1> DEFINE x == run[r]
           y == run'[r]
<1>1. /\ Moves(r, y) /\ x.pc = "retire" /\ x.op = NoOp
      /\ y.samples = x.samples /\ y.own = x.own /\ y.targets = x.targets
      /\ y.pc = "retire" /\ y.op.step = "check"
  BY RetireMoves DEF CampaignInv
<1>2. files' = files /\ drifted' = drifted
  BY DEF RemoveAfterSuccess, Quiet, Elsewhere
<1>3. Consistent(files', run')
  BY RetireConsistent DEF Shared
<1> HIDE DEF y
<1>4. /\ ~Mid(y) /\ Writing(x) /\ ~Undone(y) /\ y.pc \notin Gathers
      /\ ~Ready(r, y) /\ x.pc \in Act /\ ~Moved(y, "partial")
  BY <1>1 DEF Mid, Writing, Undone, Ready, Gathers, Act, Moved, NoOp, Holds
<1>5. Fades(files, r, x, y, drifted)
  BY <1>1, <1>4, OnFades
<1>6. y = run'[r]
  BY DEF y
<1> QED BY <1>1, <1>2, <1>3, <1>4, <1>5, <1>6, StillShared

(* A published final is rolled back.                                        *)
LEMMA RollbackShared ==
  ASSUME CampaignInv, CampaignInv', Shared(files, run, drifted), NEW r \in Runs,
         RollbackPublished(r)
  PROVE  Shared(files', run', drifted')
<1> DEFINE x == run[r]
           y == run'[r]
           p == y.op.path
<1>1. /\ Moves(r, y) /\ x.pc = "rollback" /\ x.op = NoOp
      /\ y.samples = x.samples /\ y.own = x.own
      /\ \/ y.pc = "fail" /\ y.op = NoOp /\ y.targets = x.targets
         \/ /\ y.pc = "rollback" /\ y.op.step = "check"
            /\ p \in {"control", "candidate"}
            /\ y.op.expected = FinalOf(r, x.samples, p)
            /\ x.targets[p].published = y.op.expected
  BY RollbackMoves DEF CampaignInv
<1>2. files' = files /\ drifted' = drifted
  BY DEF RollbackPublished, Quiet, Elsewhere
<1>3. Consistent(files', run')
  BY RollbackConsistent DEF Shared
<1>4. x \in RunStates /\ LocalOK(r, x)
  BY RunIs DEF CampaignInv
<1> HIDE DEF y
<1>5. Fades(files, r, x, y, drifted) /\ ~Moved(y, "partial")
  <2>1. CASE y.pc = "fail" /\ y.op = NoOp /\ y.targets = x.targets
    <3>1. /\ ~Mid(y) /\ Writing(x) /\ ~Undone(y) /\ y.pc \notin Gathers
          /\ ~Ready(r, y) /\ x.pc \in Act /\ ~Moved(y, "partial")
      BY <1>1, <2>1
      DEF Mid, Writing, Undone, Ready, Gathers, Act, Moved, NoOp
    <3>2. Fades(files, r, x, y, drifted)
      BY <1>1, <2>1, <3>1, OnFades
    <3> QED BY <3>1, <3>2
  <2>2. CASE /\ y.pc = "rollback" /\ y.op.step = "check"
             /\ p \in {"control", "candidate"}
             /\ y.op.expected = FinalOf(r, x.samples, p)
             /\ x.targets[p].published = y.op.expected
    <3>1. Consumed(x)
      <4>1. p \in FinalPaths /\ p \in Outputs /\ x.pc \in Act
        BY <1>1, <2>2, PathsApart DEF Act
      <4>2. x.targets[p].published # None
        BY <2>2 DEF FinalOf, File, None
      <4>3. FinalTargetOK(r, x, p) /\ TargetOK(r, x, p)
        BY <1>4, <4>1 DEF LocalOK, TargetsOK
      <4> QED BY <4>1, <4>2, <4>3 DEF FinalTargetOK, TargetOK, Consumed, Spent
    <3>2. /\ ~Mid(y) /\ Writing(x) /\ ~Undone(y) /\ y.pc \notin Gathers
          /\ ~Ready(r, y) /\ ~Moved(y, "partial") /\ Loaded(x)
          /\ ~Restored(drifted, r, x)
      BY <1>1, <1>4, <2>2, WritersAreLoaded
      DEF Mid, Writing, Undone, Ready, Gathers, Act, Moved, Loaded, Restored
    <3> QED BY <1>1, <3>1, <3>2 DEF Fades, Moved
  <2> QED BY <1>1, <2>1, <2>2
<1>6. y = run'[r]
  BY DEF y
<1> QED BY <1>1, <1>2, <1>3, <1>5, <1>6, StillShared

(* An unused reservation is given back.                                     *)
LEMMA CloseShared ==
  ASSUME CampaignInv, CampaignInv', Shared(files, run, drifted), NEW r \in Runs,
         CloseReservations(r)
  PROVE  Shared(files', run', drifted')
<1> DEFINE y == run'[r]
<1>1. /\ Moves(r, y)
      /\ \/ y.pc = "unlock" /\ y.op = NoOp
         \/ y.pc = "close" /\ y.op.step = "check"
  BY CloseMoves DEF CampaignInv
<1>2. files' = files /\ drifted' = drifted
  BY DEF CloseReservations, Quiet, Elsewhere
<1>3. Consistent(files', run')
  BY CloseConsistent DEF Shared
<1>4. /\ ~Mid(y) /\ ~Loaded(y) /\ y.pc \notin Act /\ ~Moved(y, "partial")
  BY <1>1 DEF Mid, Loaded, Act, Moved, NoOp
<1>5. Fades(files, r, run[r], y, drifted)
  BY <1>4, OutFades
<1> QED BY <1>1, <1>2, <1>3, <1>4, <1>5, StillShared

(* A resume gives its lock back.                                            *)
LEMMA UnlockShared ==
  ASSUME CampaignInv, CampaignInv', Shared(files, run, drifted), NEW r \in Runs,
         CloseResume(r)
  PROVE  Shared(files', run', drifted')
<1> DEFINE x == run[r]
           y == run'[r]
<1>1. /\ Moves(r, y)
      /\ \/ y = LeftOf(x, "done")
         \/ y.pc = "unlock" /\ y.op.step = "check"
  BY UnlockMoves DEF CampaignInv
<1>2. files' = files /\ drifted' = drifted
  BY DEF CloseResume, Quiet, Elsewhere
<1>3. Consistent(files', run')
  BY UnlockConsistent DEF Shared
<1>4. y = LeftOf(x, "done") => y.pc = "done" /\ y.op = NoOp
  BY LeftIs, RunIs DEF CampaignInv
<1>5. /\ ~Mid(y) /\ ~Loaded(y) /\ y.pc \notin Act /\ ~Moved(y, "partial")
  BY <1>1, <1>4 DEF Mid, Loaded, Act, Moved, NoOp
<1>6. Fades(files, r, run[r], y, drifted)
  BY <1>5, OutFades
<1> QED BY <1>1, <1>2, <1>3, <1>5, <1>6, StillShared

(* An operation that gives up with the directory as it is.                  *)
LEMMA FailsShared ==
  ASSUME CampaignInv, CampaignInv', Shared(files, run, drifted), NEW r \in Runs,
         run[r].op # NoOp, Moves(r, LeftOf(run[r], run[r].op.otherwise)),
         files' = files, drifted' = drifted, run[r].op.step # "settle"
  PROVE  Shared(files', run', drifted')
<1> DEFINE x == run[r]
           pc == x.op.otherwise
           y == LeftOf(x, pc)
<1>1. x \in RunStates /\ LocalOK(r, x)
  BY RunIs DEF CampaignInv
<1>2. Consistent(files', run')
  BY FailsConsistent DEF Shared
<1>3. /\ pc \in {"close", "fail", "rollback", "done"}
      /\ pc = "rollback" => x.pc \in {"publish", "rollback"}
      /\ pc = "fail" => x.pc = "call"
  BY <1>1, OtherwiseIs
<1>4. /\ y.pc = pc /\ y.op = NoOp
      /\ pc \in {"fail", "rollback"} =>
            y.own = x.own /\ y.samples = x.samples /\ y.targets = x.targets
  BY <1>1, <1>3, LeftIs
<1> HIDE DEF y
<1>5. CASE pc \in {"close", "done"}
  BY <1>2, <1>4, <1>5, LeavesShared DEF y
<1>6. CASE pc \in {"fail", "rollback"}
  <2>1. /\ ~Mid(y) /\ Writing(x) /\ ~Undone(y) /\ y.pc \notin Gathers
        /\ ~Ready(r, y) /\ x.pc \in Act /\ ~Moved(y, "partial")
    BY <1>3, <1>4, <1>6
    DEF Mid, Writing, Undone, Ready, Gathers, Act, Moved, NoOp
  <2>2. Fades(files, r, x, y, drifted)
    BY <1>3, <1>4, <1>6, <2>1, OnFades
  <2> QED BY <1>2, <2>1, <2>2, StillShared DEF y
<1> QED BY <1>3, <1>5, <1>6

(* A step after which a complete population was known before.               *)
LEMMA OneKeeps ==
  ASSUME NEW F, NEW G, NEW X, NEW Y, NEW r \in Runs, NEW d,
         Turn(F, G, X, Y, r), OneValue(F, X, d),
         \A D : Full(G, Y, D) => Full(F, X, D) /\ Agrees(d, r, Y[r], D)
  PROVE  OneValue(G, Y, d)
<1>1. SUFFICES ASSUME NEW D, Full(G, Y, D)
               PROVE  /\ \A q \in Runs : Agrees(d, q, Y[q], D)
                      /\ \A E : Full(G, Y, E) => D = E
  BY DEF OneValue
<1>2. /\ \A q \in Runs : Agrees(d, q, X[q], D)
      /\ \A E : Full(F, X, E) => D = E
  BY <1>1 DEF OneValue
<1>3. ASSUME NEW q \in Runs PROVE Agrees(d, q, Y[q], D)
  <2>1. CASE q # r
    BY <1>2, <2>1 DEF Turn
  <2>2. CASE q = r
    BY <1>1, <2>2
  <2> QED BY <2>1, <2>2
<1> QED BY <1>2, <1>3

(* A population known after a turn was known before.                        *)
LEMMA FullFrom ==
  ASSUME NEW F, NEW G, NEW X, NEW Y, NEW r \in Runs, Turn(F, G, X, Y, r),
         NEW D, Full(G, Y, D),
         Started(G) /\ In(G, "partial").data = D => Val(F, X, D),
         Knows(G, r, Y[r], D) => Val(F, X, D)
  PROVE  Full(F, X, D)
<1>1. Complete(D) /\ Val(G, Y, D)
  BY DEF Full
<1>2. ASSUME NEW q \in Runs, q # r, Knows(G, q, Y[q], D)
      PROVE  Val(F, X, D)
  <2>1. Knows(F, q, X[q], D)
    BY <1>2 DEF Knows, StageIs, AsideIs, Turn
  <2> QED BY <2>1 DEF Val
<1> QED BY <1>1, <1>2 DEF Full, Val

(* Another run is as settled as before, unless run r is newly ready.        *)
LEMMA OthersSettled ==
  ASSUME NEW F, NEW G, NEW X, NEW Y, NEW r \in Runs, Turn(F, G, X, Y, r),
         NEW q \in Runs, q # r, SettledRun(F, X, q),
         \/ X[q].pc \notin Gathers
         \/ Consumed(Y[r]) \/ Ready(r, Y[r]) => Consumed(X[r]) \/ Ready(r, X[r])
  PROVE  SettledRun(G, Y, q)
<1>1. Y[q] = X[q] /\ G[Stage(q)] = F[Stage(q)]
      /\ G[Quarantine(q)] = F[Quarantine(q)]
  BY DEF Turn
<1>2. X[q].pc \in Gathers =>
        \A w \in Runs : w # q => ~Ready(w, Y[w]) /\ ~Consumed(Y[w])
  <2>1. SUFFICES ASSUME X[q].pc \in Gathers, NEW w \in Runs, w # q
                 PROVE  ~Ready(w, Y[w]) /\ ~Consumed(Y[w])
    OBVIOUS
  <2>2. ~Ready(w, X[w]) /\ ~Consumed(X[w])
    BY <2>1 DEF SettledRun
  <2>3. CASE w # r
    BY <2>2, <2>3 DEF Turn
  <2>4. CASE w = r
    BY <2>1, <2>2, <2>4
  <2> QED BY <2>3, <2>4
<1> QED BY <1>1, <1>2 DEF SettledRun

(* A settled campaign stays settled.                                        *)
LEMMA SettledKeeps ==
  ASSUME NEW F, NEW G, NEW X, NEW Y, NEW r \in Runs, Turn(F, G, X, Y, r),
         Settled(F, X), SettledRun(G, Y, r),
         \/ \A q \in Runs : q # r => X[q].pc \notin Gathers
         \/ Consumed(Y[r]) \/ Ready(r, Y[r]) =>
               Consumed(X[r]) \/ Ready(r, X[r]),
         ~Compared(G) => Started(G),
         Started(G) => Complete(In(G, "partial").data),
         \A p \in FinalPaths : SettledFinal(G, Y, p)
  PROVE  Settled(G, Y)
<1>1. ASSUME NEW q \in Runs PROVE SettledRun(G, Y, q)
  <2>1. CASE q # r
    BY <2>1, OthersSettled DEF Settled
  <2> QED BY <2>1
<1> QED BY <1>1 DEF Settled

(* A resume that still has samples to gather holds every final, and nobody  *)
(* knows of a complete population.                                          *)
LEMMA LoneIsOpen ==
  ASSUME NEW F, NEW X, NEW d, Locals(X), Shared(F, X, d), NEW r \in Runs,
         X[r].pc = "first", X[r].mode = "resume", ~Mid(X[r]),
         ~Complete(X[r].samples), In(F, "partial") = X[r].own, NEW D
  PROVE  ~Full(F, X, D)
<1> DEFINE x == X[r]
<1>1. x \in RunStates /\ LocalOK(r, x) /\ Consistent(F, X)
  BY DEF Locals, Shared
<1>2. Sole(r, x) /\ x.pc \notin {"publish", "rollback"}
  BY <1>1, HoldersAre
<1>3. ~Compared(F)
  BY <1>1, <1>2, SoleIs
<1>4. x.samples = x.own.data /\ x.own.what = "partial"
  BY <1>1 DEF LocalOK, PhaseOK
<1>5. Started(F) /\ ~Complete(In(F, "partial").data)
  BY <1>4 DEF Started
<1>6. ~Firm(F, X)
  BY <1>5 DEF Shared, Settled
<1>7. ASSUME NEW q \in Runs, q # r PROVE ~Loaded(X[q])
  <2>1. SUFFICES ASSUME Loaded(X[q]) PROVE FALSE
    OBVIOUS
  <2>2. "control" \in FinalPaths
    BY PathsApart
  <2>3. Holds(r, x, "control")
    BY <1>2, <2>2 DEF Sole
  <2>4. Consumed(X[q]) \/ Ready(q, X[q])
    BY <1>1, <1>7, <2>1, <2>2, <2>3, LoneResume
  <2> QED BY <1>6, <2>4 DEF Firm
<1>8. ASSUME NEW q \in Runs, Knows(F, q, X[q], D), Complete(D) PROVE FALSE
  <2>1. ~AsideIs(F, q, X[q], D)
    BY <1>1, <1>3, AsideIsCompared DEF AsideIs
  <2>2. CASE q = r
    BY <1>8, <2>1, <2>2 DEF Knows, StageIs
  <2>3. CASE q # r
    <3>1. ~Loaded(X[q])
      BY <1>7, <2>3
    <3>2. ~Mid(X[q])
      BY <3>1, WritersAreLoaded DEF Locals
    <3> QED BY <1>8, <2>1, <3>1, <3>2 DEF Knows, StageIs
  <2> QED BY <2>2, <2>3
<1> QED BY <1>5, <1>8 DEF Full, Val

(* The check of the first checkpoint of a resume.                           *)
LEMMA FirstCheckShared ==
  ASSUME NEW F, NEW X, NEW Y, NEW d, NEW r \in Runs, Turn(F, F, X, Y, r),
         Shared(F, X, d), Consistent(F, Y), X[r].pc = "first",
         X[r].mode = "resume", ~Mid(X[r]), In(F, "partial") = X[r].own,
         Y[r] = StepTo(X[r], "exchange")
  PROVE  Shared(F, Y, d)
<1> DEFINE x == X[r]
           y == Y[r]
<1>1. Locals(X) /\ x \in RunStates /\ LocalOK(r, x)
  BY DEF Turn, Locals
<1>2. /\ y.op.step = "exchange" /\ y.pc = x.pc /\ y.mode = x.mode
      /\ y.samples = x.samples /\ y.own = x.own /\ y.targets = x.targets
  <2>1. "exchange" \in OpSteps
    BY DEF OpSteps
  <2> QED BY <1>1, <2>1, SteppedIs
<1>3. x.samples = x.own.data /\ x.own.what = "partial"
  BY <1>1 DEF LocalOK, PhaseOK
<1>4. Started(F) /\ In(F, "partial").data = x.samples
  BY <1>3 DEF Started
<1>5. ~Mid(y) /\ ~Undone(y) /\ y.pc \notin Gathers /\ ~Ready(r, y)
      /\ ~Moved(y, "partial")
  BY <1>2 DEF Mid, Undone, Gathers, Ready, Moved
<1>6. (Loaded(y) => Loaded(x)) /\ (Consumed(y) => Consumed(x))
  BY <1>2 DEF Loaded, Consumed
<1>7. ASSUME NEW D, Full(F, Y, D)
      PROVE  Full(F, X, D) /\ y.samples = D
  <2>1. Knows(F, r, y, D) => Val(F, X, D)
    BY <1>2, <1>5, <1>6 DEF Knows, StageIs, AsideIs, Val
  <2>2. Started(F) /\ In(F, "partial").data = D => Val(F, X, D)
    BY DEF Val
  <2>3. Full(F, X, D)
    BY <1>7, <2>1, <2>2, FullFrom
  <2>4. Complete(x.samples)
    BY <1>1, <2>3, LoneIsOpen
  <2>5. Full(F, X, x.samples)
    BY <1>4, <2>4 DEF Full, Val
  <2> QED BY <1>2, <2>3, <2>5 DEF Shared, OneValue
<1>8. OneValue(F, Y, d)
  BY <1>7, OneKeeps DEF Shared, Agrees
<1>9. Alone(F, Y)
  <2>1. SUFFICES ASSUME NEW w \in Runs, Undone(Y[w])
                 PROVE  /\ In(F, "partial") = Y[w].own
                        /\ \A q \in Runs : q # w /\ Loaded(Y[q]) =>
                              ~Complete(Y[q].samples)
    BY DEF Alone
  <2>2. w # r /\ Y[w] = X[w]
    BY <1>5, <2>1 DEF Turn
  <2>3. /\ In(F, "partial") = X[w].own
        /\ \A q \in Runs : q # w /\ Loaded(X[q]) => ~Complete(X[q].samples)
    BY <2>1, <2>2 DEF Shared, Alone
  <2>4. ASSUME NEW q \in Runs, q # w, Loaded(Y[q])
        PROVE  ~Complete(Y[q].samples)
    <3>1. CASE q = r
      BY <1>2, <1>6, <2>3, <2>4, <3>1
    <3>2. CASE q # r
      BY <2>3, <2>4, <3>2 DEF Turn
    <3> QED BY <3>1, <3>2
  <2> QED BY <2>2, <2>3, <2>4
<1>10. Firm(F, Y) => Settled(F, Y)
  <2>1. SUFFICES ASSUME Firm(F, Y) PROVE Settled(F, Y)
    OBVIOUS
  <2>2. Firm(F, X)
    <3>1. ASSUME NEW q \in Runs, Consumed(Y[q]) \/ Ready(q, Y[q])
          PROVE  Firm(F, X)
      <4>1. CASE q = r
        BY <1>5, <1>6, <3>1, <4>1 DEF Firm
      <4>2. CASE q # r
        BY <3>1, <4>2 DEF Firm, Turn
      <4> QED BY <4>1, <4>2
    <3> QED BY <2>1, <3>1 DEF Firm
  <2>3. Settled(F, X)
    BY <2>2 DEF Shared
  <2>4. Complete(x.samples)
    BY <1>4, <2>3 DEF Settled
  <2>5. SettledRun(F, Y, r)
    BY <1>2, <1>5, <2>4 DEF SettledRun
  <2>6. \A p \in FinalPaths : SettledFinal(F, Y, p)
    BY <1>7, <2>3 DEF Settled, SettledFinal
  <2>7. /\ ~Compared(F) => Started(F)
        /\ Started(F) => Complete(In(F, "partial").data)
    BY <2>3 DEF Settled
  <2>8. Consumed(y) \/ Ready(r, y) => Consumed(x) \/ Ready(r, x)
    BY <1>5, <1>6
  <2> QED BY <2>3, <2>5, <2>6, <2>7, <2>8, SettledKeeps
<1> QED BY <1>8, <1>9, <1>10 DEF Shared

(* Whoever gathers stays alone.                                             *)
LEMMA AloneKeeps ==
  ASSUME NEW F, NEW G, NEW X, NEW Y, NEW r \in Runs, Turn(F, G, X, Y, r),
         Alone(F, X),
         Undone(Y[r]) =>
            /\ In(G, "partial") = Y[r].own
            /\ \A q \in Runs : q # r /\ Loaded(X[q]) => ~Complete(X[q].samples),
         \A w \in Runs : w # r /\ Undone(X[w]) =>
            /\ In(G, "partial") = In(F, "partial")
            /\ Loaded(Y[r]) => ~Complete(Y[r].samples)
  PROVE  Alone(G, Y)
<1>1. SUFFICES ASSUME NEW w \in Runs, Undone(Y[w])
               PROVE  /\ In(G, "partial") = Y[w].own
                      /\ \A q \in Runs : q # w /\ Loaded(Y[q]) =>
                            ~Complete(Y[q].samples)
  BY DEF Alone
<1>2. CASE w = r
  BY <1>1, <1>2 DEF Turn
<1>3. CASE w # r
  <2>1. Y[w] = X[w]
    BY <1>3 DEF Turn
  <2>2. /\ In(F, "partial") = X[w].own
        /\ \A q \in Runs : q # w /\ Loaded(X[q]) => ~Complete(X[q].samples)
    BY <1>1, <2>1 DEF Alone
  <2>3. /\ In(G, "partial") = In(F, "partial")
        /\ Loaded(Y[r]) => ~Complete(Y[r].samples)
    BY <1>1, <1>3, <2>1
  <2>4. ASSUME NEW q \in Runs, q # w, Loaded(Y[q])
        PROVE  ~Complete(Y[q].samples)
    <3>1. CASE q = r
      BY <2>3, <2>4, <3>1
    <3>2. CASE q # r
      BY <2>2, <2>4, <3>2 DEF Turn
    <3> QED BY <3>1, <3>2
  <2> QED BY <2>1, <2>2, <2>3, <2>4
<1> QED BY <1>2, <1>3

(* An operation goes on to its next step, with the directory as it is.      *)
LEMMA SteppingFades ==
  ASSUME NEW F, NEW d, NEW r \in Runs, NEW x \in RunStates, LocalOK(r, x),
         x.op # NoOp, x.op.step = "check",
         NEW step \in {"rename", "exchange"}, NEW y, y = StepTo(x, step),
         step = "exchange" <=> x.op.kind = "replace",
         ~(x.pc = "first" /\ x.mode = "resume")
  PROVE  Fades(F, r, x, y, d) /\ ~Moved(y, "partial")
<1>1. step \in OpSteps
  BY DEF OpSteps
<1>2. /\ y.op.step = step /\ y.pc = x.pc /\ y.mode = x.mode
      /\ y.samples = x.samples /\ y.own = x.own /\ y.targets = x.targets
      /\ y.op.kind = x.op.kind
  BY <1>1, SteppedIs
<1>3. ~Mid(y) /\ ~Moved(y, "partial")
  BY <1>2 DEF Mid, Moved
<1>4. CASE x.pc \notin Act
  <2>1. Loaded(y) => Loaded(x)
    BY <1>2 DEF Loaded
  <2> QED BY <1>2, <1>3, <1>4, <2>1, OutFades
<1>5. CASE x.pc \in Act
  <2>1. Writing(y) => Writing(x)
    <3>1. y.pc = "first" /\ y.mode = "resume" => FALSE
      BY <1>2
    <3> QED BY <1>2, <3>1 DEF Writing
  <2>2. x.pc \in Gathers \cup {"block"} =>
          x.op.kind = "replace" /\ x.pc \in Gathers
    BY DEF LocalOK, OpOK, Sequel, Gathers
  <2>3. Undone(y) => Undone(x)
    BY <1>2, <2>2 DEF Undone
  <2>4. /\ Ready(r, y) => Ready(r, x)
        /\ y.pc \in Gathers =>
             x.pc \in Gathers /\ (Ready(r, x) => Ready(r, y))
    <3>1. x.op.step # "confirm" /\ y.op.step # "confirm"
      BY <1>2
    <3>2. Ready(r, y) <=> Ready(r, x)
      BY <1>2, <3>1 DEF Ready, Holds
    <3> QED BY <1>2, <3>2
  <2> QED BY <1>2, <1>3, <1>5, <2>1, <2>3, <2>4, OnFades
<1> QED BY <1>4, <1>5

(* An operation checks its file.                                            *)
LEMMA CheckShared ==
  ASSUME CampaignInv, CampaignInv', Shared(files, run, drifted), NEW r \in Runs,
         Check(r)
  PROVE  Shared(files', run', drifted')
<1> DEFINE x == run[r]
           o == x.op
           step == IF o.kind = "replace" THEN "exchange" ELSE "rename"
           y == IF sameOwnedABFile(o.expected, At(o.path))
                THEN StepTo(x, step) ELSE LeftOf(x, o.otherwise)
<1>1. Moves(r, y) /\ o # NoOp /\ Quiet /\ o.step = "check"
  BY CheckMoves DEF CampaignInv, Check
<1>2. files' = files /\ drifted' = drifted
  BY <1>1 DEF Quiet, Elsewhere
<1>3. Consistent(files', run')
  BY CheckConsistent DEF Shared
<1>4. x \in RunStates /\ LocalOK(r, x)
  BY RunIs DEF CampaignInv
<1>5. CASE ~sameOwnedABFile(o.expected, At(o.path))
  BY <1>1, <1>2, <1>5, FailsShared
<1>6. CASE sameOwnedABFile(o.expected, At(o.path))
  <2>1. Moves(r, StepTo(x, step)) /\ step \in {"rename", "exchange"}
    BY <1>1, <1>6
  <2>2. CASE x.pc = "first" /\ x.mode = "resume"
    <3>1. o.kind = "replace" /\ o.path = "partial" /\ o.expected = x.own
      BY <1>1, <1>4, <2>2 DEF LocalOK, OpOK, Sequel
    <3>2. In(files, "partial") = x.own
      BY <1>6, <3>1 DEF sameOwnedABFile, In, At
    <3>3. ~Mid(x)
      BY <1>1 DEF Mid
    <3>4. Turn(files, files, run, run', r) /\ run'[r] = StepTo(x, "exchange")
      BY <1>2, <2>1, <3>1, QuietTurn
    <3> QED BY <1>2, <1>3, <2>2, <3>2, <3>3, <3>4, FirstCheckShared
  <2>3. CASE ~(x.pc = "first" /\ x.mode = "resume")
    <3> DEFINE z == StepTo(x, step)
    <3>1. step = "exchange" <=> o.kind = "replace"
      OBVIOUS
    <3>2. Moves(r, z)
      BY <2>1
    <3> HIDE DEF step
    <3>3. Fades(files, r, x, z, drifted) /\ ~Moved(z, "partial")
      BY <1>1, <1>4, <2>1, <2>3, <3>1, SteppingFades
    <3> HIDE DEF z
    <3> QED BY <1>2, <1>3, <3>2, <3>3, StillShared
  <2> QED BY <2>2, <2>3
<1> QED BY <1>5, <1>6

(* A run that holds every final leaves nothing firm while it is not ready.  *)
LEMMA SoleNotFirm ==
  ASSUME NEW F, NEW G, NEW X, NEW Y, NEW r \in Runs, Turn(F, G, X, Y, r),
         Consistent(F, X), Sole(r, X[r]),
         X[r].pc \notin {"publish", "rollback"},
         \A p \in FinalPaths : In(G, p) = In(F, p),
         Y[r].targets = X[r].targets, ~Ready(r, Y[r]),
         \A q \in Runs : q # r => ~Consumed(X[q]) /\ ~Ready(q, X[q])
  PROVE  ~Firm(G, Y)
<1>1. \A p \in FinalPaths : In(G, p).what # "final"
  BY SoleIs DEF Turn, Locals
<1>2. ~Consumed(Y[r])
  BY DEF Consumed, Spent, Sole, Holds, HeldTarget
<1>3. ASSUME NEW q \in Runs PROVE ~Consumed(Y[q]) /\ ~Ready(q, Y[q])
  <2>1. CASE q = r
    BY <1>2, <2>1
  <2>2. CASE q # r
    BY <2>2 DEF Turn
  <2> QED BY <2>1, <2>2
<1> QED BY <1>1, <1>3 DEF Firm

(* Beside a run with samples to gather nobody knows of a complete population*)
(* but, perhaps, that run itself.                                           *)
LEMMA OpenIs ==
  ASSUME NEW F, NEW X, NEW d, Locals(X), Shared(F, X, d), NEW r \in Runs,
         Undone(X[r]), NEW D, Full(F, X, D)
  PROVE  X[r].samples = D
<1>1. Consistent(F, X) /\ Alone(F, X) /\ Complete(D)
  BY DEF Shared, Full
<1>2. LocalOK(r, X[r]) /\ X[r] \in RunStates /\ StepsOK(X[r])
  BY <1>1 DEF Locals, Consistent
<1>3. /\ Sole(r, X[r]) /\ X[r].pc \notin {"publish", "rollback"}
      /\ ~Mid(X[r]) /\ ~Complete(X[r].own.data)
  BY <1>2, UndoneIs DEF Undone
<1>4. ~Compared(F)
  BY <1>1, <1>3, SoleIs
<1>5. ~(Started(F) /\ In(F, "partial").data = D)
  BY <1>1, <1>3 DEF Alone
<1>6. ASSUME NEW q \in Runs, Knows(F, q, X[q], D) PROVE X[r].samples = D
  <2>1. ~AsideIs(F, q, X[q], D)
    BY <1>1, <1>4, AsideIsCompared DEF AsideIs
  <2>2. CASE q = r
    BY <1>3, <1>6, <2>1, <2>2 DEF Knows, StageIs
  <2>3. CASE q # r
    <3>1. ~Mid(X[q])
      BY <1>1, <2>3, UndoneAlone
    <3>2. ~(Loaded(X[q]) /\ X[q].samples = D)
      BY <1>1, <2>3 DEF Alone
    <3> QED BY <1>6, <2>1, <3>1, <3>2 DEF Knows, StageIs
  <2> QED BY <2>2, <2>3
<1> QED BY <1>5, <1>6 DEF Full, Val

(* A run that was alone with samples to gather goes on with others.         *)
LEMMA SoloShared ==
  ASSUME NEW F, NEW X, NEW Y, NEW d, NEW r \in Runs, Turn(F, F, X, Y, r),
         Shared(F, X, d), Consistent(F, Y), Undone(X[r]),
         Complete(X[r].samples) => Y[r].samples = X[r].samples,
         Y[r].own = X[r].own, Y[r].targets = X[r].targets,
         Y[r].pc \in {"call", "fail"},
         Y[r].op.step \in {"none", "check", "exchange"}
  PROVE  Shared(F, Y, d)
<1> DEFINE x == X[r]
           y == Y[r]
<1>1. Locals(X) /\ Consistent(F, X) /\ Alone(F, X) /\ OneValue(F, X, d)
  BY DEF Turn, Locals, Shared
<1>2. LocalOK(r, x) /\ x \in RunStates /\ StepsOK(x)
  BY <1>1 DEF Locals, Consistent
<1>3. /\ Sole(r, x) /\ x.pc \notin {"publish", "rollback"} /\ Loaded(x)
      /\ ~Complete(x.own.data)
  BY <1>2, UndoneIs DEF Undone
<1>4. ~Firm(F, X)
  BY <1>1, FirmNoUndone DEF Shared
<1>5. ~Mid(y) /\ ~Moved(y, "partial") /\ ~Ready(r, y)
  BY DEF Mid, Moved, Ready
<1>6. ASSUME NEW D, Full(F, Y, D) PROVE y.samples = D
  <2>1. CASE Knows(F, r, y, D)
    BY <1>5, <2>1 DEF Knows, StageIs, AsideIs
  <2>2. CASE ~Knows(F, r, y, D)
    <3>1. Started(F) /\ In(F, "partial").data = D => Val(F, X, D)
      BY DEF Val
    <3>2. Full(F, X, D)
      BY <1>6, <2>2, <3>1, FullFrom
    <3>3. x.samples = D /\ Complete(D)
      BY <1>1, <3>2, OpenIs DEF Full
    <3> QED BY <3>3
  <2> QED BY <2>1, <2>2
<1>7. OneValue(F, Y, d)
  <2>1. SUFFICES ASSUME NEW D, Full(F, Y, D)
                 PROVE  /\ \A q \in Runs : Agrees(d, q, Y[q], D)
                        /\ \A E : Full(F, Y, E) => D = E
    BY DEF OneValue
  <2>2. ASSUME NEW q \in Runs PROVE Agrees(d, q, Y[q], D)
    <3>1. CASE q = r
      BY <1>6, <2>1, <3>1 DEF Agrees
    <3>2. CASE q # r
      <4>1. ~Writing(X[q])
        BY <1>1, <3>2, UndoneAlone
      <4> QED BY <3>2, <4>1 DEF Agrees, Turn
    <3> QED BY <3>1, <3>2
  <2> QED BY <1>6, <2>1, <2>2
<1>8. Alone(F, Y)
  <2>1. /\ In(F, "partial") = y.own
        /\ \A q \in Runs : q # r /\ Loaded(X[q]) => ~Complete(X[q].samples)
    BY <1>1 DEF Alone
  <2>2. \A w \in Runs : w # r => ~Undone(X[w])
    BY <1>1, UndoneAlone
  <2> QED BY <1>1, <2>1, <2>2, AloneKeeps
<1>9. ~Firm(F, Y)
  <2>1. \A q \in Runs : q # r => ~Consumed(X[q]) /\ ~Ready(q, X[q])
    BY <1>4 DEF Firm
  <2> QED BY <1>1, <1>3, <1>5, <2>1, SoleNotFirm
<1> QED BY <1>7, <1>8, <1>9 DEF Shared

(* A run that gathered loses its block, or the place it staged for.         *)
LEMMA VoidShared ==
  ASSUME NEW F, NEW X, NEW Y, NEW d, NEW r \in Runs, Turn(F, F, X, Y, r),
         Shared(F, X, d), Consistent(F, Y), X[r].pc \in Gathers, Ready(r, X[r]),
         \/ Y[r].samples = X[r].samples /\ Mid(X[r])
         \/ /\ Restored(d, r, Y[r]) /\ ~Complete(Y[r].samples)
            /\ Y[r].op.step \notin {"confirm", "back"},
         Y[r].targets = X[r].targets, ~Ready(r, Y[r]), ~Moved(Y[r], "partial"),
         ~Undone(Y[r])
  PROVE  Shared(F, Y, d)
<1> DEFINE x == X[r]
           y == Y[r]
<1>1. Locals(X) /\ Consistent(F, X) /\ Alone(F, X) /\ OneValue(F, X, d)
  BY DEF Turn, Locals, Shared
<1>2. LocalOK(r, x) /\ x \in RunStates
  BY <1>1 DEF Locals
<1>3. /\ Sole(r, x) /\ x.pc \notin {"publish", "rollback"} /\ Loaded(x)
      /\ Writing(x)
  BY <1>2, HoldersAre, WritersAreLoaded DEF Gathers
<1>4. Settled(F, X)
  BY DEF Shared, Firm
<1>5. Complete(x.samples) /\ Full(F, X, x.samples)
  BY <1>3 DEF Ready, Full, Val, Knows
<1>6. ASSUME NEW D, Full(F, Y, D)
      PROVE  Full(F, X, D) /\ Agrees(d, r, y, D)
  <2>1. Knows(F, r, y, D) => Val(F, X, D)
    <3>1. CASE y.samples = x.samples /\ Mid(x)
      BY <1>3, <3>1 DEF Knows, StageIs, AsideIs, Val
    <3>2. CASE ~Complete(y.samples) /\ y.op.step \notin {"confirm", "back"}
      BY <1>6, <3>2 DEF Knows, StageIs, AsideIs, Full, Mid
    <3> QED BY <3>1, <3>2
  <2>2. Started(F) /\ In(F, "partial").data = D => Val(F, X, D)
    BY DEF Val
  <2>3. Full(F, X, D)
    BY <1>6, <2>1, <2>2, FullFrom
  <2>4. x.samples = D
    BY <1>1, <1>5, <2>3 DEF OneValue
  <2> QED BY <2>3, <2>4 DEF Agrees
<1>7. OneValue(F, Y, d)
  BY <1>1, <1>6, OneKeeps
<1>8. Alone(F, Y)
  <2>1. \A w \in Runs : ~Undone(X[w])
    BY <1>1, <1>4, FirmNoUndone
  <2> QED BY <1>1, <2>1, AloneKeeps
<1>9. ~Firm(F, Y)
  <2>1. \A q \in Runs : q # r => ~Consumed(X[q]) /\ ~Ready(q, X[q])
    BY <1>4 DEF Settled, SettledRun
  <2> QED BY <1>1, <1>3, <2>1, SoleNotFirm
<1> QED BY <1>7, <1>8, <1>9 DEF Shared

(* A call returns.                                                          *)
LEMMA EndSampleShared ==
  ASSUME CampaignInv, CampaignInv', Shared(files, run, drifted), NEW r \in Runs,
         EndSample(r)
  PROVE  Shared(files', run', drifted')
<1> DEFINE x == run[r]
           y == run'[r]
<1>1. /\ Moves(r, y) /\ x.pc = "call" /\ x.op = NoOp
      /\ y.own = x.own /\ y.targets = x.targets
      /\ y.pc \in {"call", "fail"}
      /\ y.op = NoOp \/ y.op.step \in {"check", "exchange"}
  BY EndSampleMoves DEF CampaignInv
<1>2. files' = files /\ drifted' = drifted
  BY DEF EndSample, Quiet, Elsewhere
<1>3. Consistent(files', run') /\ StepsOK(x)
  BY EndSampleConsistent DEF Shared, Consistent
<1>4. Turn(files, files, run, run', r)
  BY <1>1, <1>2, QuietTurn
<1>5. ~Complete(x.samples)
  <2>1. x \in RunStates /\ LocalOK(r, x)
    BY RunIs DEF CampaignInv
  <2>2. ~abBlockComplete(x.samples, x.block) /\ x.block \in DOMAIN Blocks
    BY <1>1, <2>1 DEF LocalOK, PhaseOK
  <2>3. x.samples \in SUBSET Samples
    BY <2>1 DEF RunStates
  <2> QED BY <2>2, <2>3, PopulationIs
<1>6. Undone(x)
  BY <1>1, <1>3 DEF Undone, StepsOK, Gathers, NoOp
<1>7. y.op.step \in {"none", "check", "exchange"}
  BY <1>1 DEF NoOp
<1> QED BY <1>1, <1>2, <1>3, <1>4, <1>5, <1>6, <1>7, SoloShared

(* A block is verified.                                                     *)
LEMMA VerifyShared ==
  ASSUME CampaignInv, CampaignInv', Shared(files, run, drifted), NEW r \in Runs,
         VerifyBlock(r)
  PROVE  Shared(files', run', drifted')
<1> DEFINE x == run[r]
           y == run'[r]
<1>1. /\ Moves(r, y) /\ x.pc = "verify" /\ x.op = NoOp /\ y.op = NoOp
      /\ y.own = x.own /\ y.targets = x.targets
      /\ \/ y.pc = "block" /\ y.samples = x.samples
         \/ y.pc = "fail" /\ y.samples = Restore(r, x.samples)
  BY VerifyMoves DEF CampaignInv
<1>2. files' = files /\ drifted' = drifted
  BY DEF VerifyBlock, Quiet, Elsewhere
<1>3. Consistent(files', run') /\ StepsOK(x)
  BY VerifyConsistent DEF Shared, Consistent
<1>4. Turn(files, files, run, run', r)
  BY <1>1, <1>2, QuietTurn
<1>5. x \in RunStates /\ LocalOK(r, x)
  BY RunIs DEF CampaignInv
<1> HIDE DEF y
<1>6. /\ ~Mid(y) /\ Writing(x) /\ y.pc \notin Gathers /\ x.pc \in Act
      /\ ~Moved(y, "partial") /\ x.pc \in Gathers
  BY <1>1 DEF Mid, Writing, Gathers, Act, Moved, NoOp
<1>7. CASE y.samples = x.samples
  <2>1. (Undone(y) => Undone(x)) /\ (Ready(r, y) => Ready(r, x))
    BY <1>1, <1>7 DEF Undone, Ready, Gathers, NoOp, Holds
  <2>2. Fades(files, r, x, y, drifted)
    BY <1>1, <1>6, <1>7, <2>1, OnFades
  <2> QED BY <1>1, <1>2, <1>3, <1>6, <2>2, StillShared DEF y
<1>8. CASE y.pc = "fail" /\ "bundle" \in drifted /\ y.samples = x.kept
  <2>1. Sole(r, x) /\ ~Complete(y.samples)
    BY <1>3, <1>5, <1>6, <1>8, HoldersAre DEF StepsOK
  <2>2. Restored(drifted, r, y)
    BY <1>1, <1>8, <2>1 DEF Restored, Sole, Holds, Act
  <2>3. ~Ready(r, y) /\ ~Undone(y) /\ y.op.step = "none"
    BY <1>1, <1>8 DEF Ready, Undone, Gathers, NoOp
  <2>4. CASE ~Complete(x.samples)
    <3>1. Undone(x)
      BY <1>1, <1>3, <2>4 DEF Undone, StepsOK, Gathers, NoOp
    <3> QED
      BY <1>1, <1>2, <1>3, <1>4, <1>8, <2>3, <2>4, <3>1, SoloShared DEF y
  <2>5. CASE Complete(x.samples)
    <3>1. Ready(r, x)
      BY <1>1, <2>1, <2>5, PathsApart DEF Ready, Sole
    <3>2. y.op.step \notin {"confirm", "back"}
      BY <2>3
    <3> QED
      BY <1>1, <1>2, <1>3, <1>4, <1>6, <2>1, <2>2, <2>3, <3>1, <3>2,
         VoidShared DEF y
  <2> QED BY <2>4, <2>5
<1> QED BY <1>1, <1>7, <1>8 DEF Restore

(* An exchange that found the wrong file goes back.                         *)
LEMMA BackingShared ==
  ASSUME NEW F, NEW X, NEW Y, NEW d, NEW r \in Runs, Turn(F, F, X, Y, r),
         Shared(F, X, d), Consistent(F, Y), X[r].op.step = "confirm",
         Y[r] = StepTo(X[r], "back")
  PROVE  Shared(F, Y, d)
<1> DEFINE x == X[r]
           y == Y[r]
<1>1. x \in RunStates /\ LocalOK(r, x)
  BY DEF Turn
<1>2. /\ y.op.step = "back" /\ y.pc = x.pc /\ y.mode = x.mode
      /\ y.samples = x.samples /\ y.own = x.own /\ y.targets = x.targets
  <2>1. "back" \in OpSteps
    BY DEF OpSteps
  <2> QED BY <1>1, <2>1, SteppedIs
<1>3. /\ Mid(x) /\ Mid(y) /\ ~Undone(y) /\ ~Moved(y, "partial")
      /\ x.pc \in {"first", "call", "fail"} /\ Writing(x)
  BY <1>1, <1>2, WritersAreLoaded DEF Mid, Undone, Moved
<1>4. ~Ready(r, y)
  BY <1>2, <1>3 DEF Ready
<1>5. CASE Ready(r, x)
  <2>1. x.pc \in Gathers
    BY <1>3, <1>5 DEF Ready, Gathers
  <2> QED BY <1>2, <1>3, <1>4, <1>5, <2>1, VoidShared
<1>6. CASE ~Ready(r, x)
  <2>1. (Loaded(y) => Loaded(x)) /\ (Consumed(y) => Consumed(x))
        /\ (Restored(d, r, x) => Restored(d, r, y))
    BY <1>2 DEF Loaded, Consumed, Restored, Sole, Holds
  <2>2. y.pc \in Gathers => x.pc \in Gathers
    BY <1>2
  <2>3. Fades(F, r, x, y, d)
    BY <1>2, <1>3, <1>4, <1>6, <2>1, <2>2 DEF Fades
  <2> QED BY <1>3, <2>3, QuietShared
<1> QED BY <1>5, <1>6

(* A resume takes its lock.                                                 *)
LEMMA LockShared ==
  ASSUME CampaignInv, CampaignInv', Shared(files, run, drifted), NEW r \in Runs,
         acquireABResumeLock(r)
  PROVE  Shared(files', run', drifted')
<1> DEFINE x == run[r]
           y == run'[r]
<1>1. /\ Moves(r, LeftOf(x, IF At("lock") = None THEN "load" ELSE "done"))
      /\ x.pc = "lock" /\ x.op = NoOp
  BY LockMoves DEF CampaignInv
<1>2. drifted' = drifted
  BY DEF acquireABResumeLock, Elsewhere
<1>3. Consistent(files', run') /\ Onward(files, files')
  BY LockConsistent DEF Shared
<1>4. /\ x \in RunStates /\ LocalOK(r, x) /\ RunsOK
      /\ files \in [Places -> Files]
  BY RunIs DEF CampaignInv, DiskOK
<1>5. CASE At("lock") # None
  <2>1. files' = files
    BY <1>1, <1>5 DEF acquireABResumeLock
  <2>2. Moves(r, LeftOf(x, "done"))
    BY <1>1, <1>5
  <2>3. LeftOf(x, "done").pc = "done" /\ LeftOf(x, "done").op = NoOp
    BY <1>4, LeftIs
  <2> QED BY <1>2, <1>3, <2>1, <2>2, <2>3, LeavesShared
<1>6. CASE At("lock") = None
  <2>1. Puts(files, files', "lock", Lock(r))
    BY <1>1, <1>6 DEF acquireABResumeLock, Lock, Puts
  <2>2. "lock" \in Paths
    BY PathsApart
  <2>3. Apart(files, files', r, "lock")
    BY <1>4, <2>1, <2>2, PutIs
  <2>4. /\ Turn(files, files', run, run', r) /\ y = LeftOf(x, "load")
    BY <1>1, <1>6, <2>3, ApartTurn
  <2> HIDE DEF y
  <2>5. y.pc = "load" /\ y.op = NoOp
    BY <1>4, <2>4, LeftFields DEF Steps
  <2>6. y.pc \notin Act /\ ~Mid(y) /\ ~Loaded(y) /\ ~Moved(y, "partial")
    BY <2>5 DEF Act, Mid, Loaded, Moved, NoOp
  <2>7. Fades(files, r, x, y, drifted)
    BY <2>6, OutFades
  <2>8. \A q \in Outputs : In(files', q) = In(files, q)
    BY <2>3, PathsApart DEF Apart
  <2>9. Calm(files, files', r, x, y)
    BY <1>3, <2>6, <2>8, PathsApart DEF Calm
  <2>10. y = run'[r]
    BY DEF y
  <2> QED BY <1>2, <1>3, <2>4, <2>7, <2>8, <2>9, <2>10, PathsApart, FadingShared
<1> QED BY <1>5, <1>6

(* The owned partial of a run with samples to gather is there.              *)
LEMMA UndoneStarted ==
  ASSUME NEW F, NEW X, NEW d, Locals(X), Shared(F, X, d), NEW w \in Runs,
         Undone(X[w])
  PROVE  Started(F) /\ ~Compared(F) /\ ~Firm(F, X)
<1>1. Consistent(F, X) /\ Alone(F, X)
  BY DEF Shared
<1>2. LocalOK(w, X[w]) /\ X[w] \in RunStates /\ StepsOK(X[w])
  BY <1>1 DEF Locals, Consistent
<1>3. /\ X[w].own.what = "partial" /\ Sole(w, X[w])
      /\ X[w].pc \notin {"publish", "rollback"}
  BY <1>2, UndoneIs
<1>4. ~Compared(F)
  BY <1>1, <1>3, SoleIs
<1>5. ~Firm(F, X)
  BY <1>1, FirmNoUndone DEF Shared
<1> QED BY <1>1, <1>3, <1>4, <1>5 DEF Alone, Started

(* A run reserves a path.                                                   *)
LEMMA ReserveShared ==
  ASSUME CampaignInv, CampaignInv', Shared(files, run, drifted), NEW r \in Runs,
         reserveABOutputs(r)
  PROVE  Shared(files', run', drifted')
<1> DEFINE x == run[r]
           y == run'[r]
           i == x.todo + 1
           p == PathAt(x, i)
<1>0. RunsOK /\ FilesOK /\ files \in [Places -> Files]
  BY DEF CampaignInv, DiskOK, FilesOK, Sound
<1>1. /\ Moves(r, y) /\ x.pc = "reserve" /\ p \in Outputs
      /\ Reserved(r)[i] = p
      /\ \/ y = LeftOf(x, "close") /\ At(p) # None /\ ~AllowsExisting(r)
         \/ /\ y.pc \in {"reserve", "first"}
            /\ y.samples = x.samples /\ y.own = x.own /\ y.op = NoOp
  BY <1>0, ReserveMoves
<1>2. drifted' = drifted
  BY DEF reserveABOutputs, Elsewhere
<1>3. Consistent(files', run') /\ Onward(files, files')
  BY ReserveConsistent DEF Shared
<1>4. x \in RunStates /\ LocalOK(r, x) /\ Locals(run)
  BY RunIs DEF CampaignInv, Locals
<1>5. LocalOK(r, y) /\ y \in RunStates
  BY <1>1 DEF Moves
<1>6. y # LeftOf(x, "close") =>
        /\ Fades(files, r, x, y, drifted) /\ ~Moved(y, "partial") /\ ~Mid(y)
  <2>1. SUFFICES ASSUME y.pc \in {"reserve", "first"}, y.samples = x.samples,
                        y.own = x.own, y.op = NoOp
                 PROVE  /\ Fades(files, r, x, y, drifted)
                        /\ ~Moved(y, "partial") /\ ~Mid(y)
    BY <1>1
  <2>2. (Loaded(y) => Loaded(x)) /\ ~Writing(y) /\ ~Undone(y) /\ ~Ready(r, y)
        /\ y.pc \notin Gathers /\ ~Mid(y) /\ ~Moved(y, "partial")
    BY <1>1, <2>1
    DEF Loaded, Writing, Undone, Ready, Gathers, Mid, Moved, NoOp, Act
  <2>3. ~Consumed(y)
    <3>1. \A q \in FinalPaths : FreshTarget(y.targets[q])
      BY <1>5, <2>1 DEF LocalOK, TargetsOK, FinalTargetOK
    <3> QED BY <3>1 DEF Consumed, Spent, FreshTarget
  <2> QED BY <2>1, <2>2, <2>3 DEF Fades
<1>7. CASE At(p) # None
  <2>1. files' = files
    <3>1. CASE files' # files
      <4>1. files' = [files EXCEPT ![<<p, 0>>] = At(p)]
        BY <1>1, <1>7, <3>1 DEF reserveABOutputs, At
      <4>2. files' = files
        BY <1>0, <4>1 DEF At
      <4> QED BY <4>2, <3>1
    <3> QED BY <3>1
  <2>2. CASE y = LeftOf(x, "close")
    <3>1. y.pc = "close" /\ y.op = NoOp
      BY <1>4, <2>2, LeftIs
    <3> QED BY <1>1, <1>2, <1>3, <2>1, <3>1, LeavesShared
  <2>3. CASE y # LeftOf(x, "close")
    BY <1>1, <1>2, <1>3, <1>6, <2>1, <2>3, StillShared
  <2> QED BY <2>2, <2>3
<1>8. CASE At(p) = None
  <2>1. Puts(files, files', p, Placeholder(r))
    BY <1>1, <1>8 DEF reserveABOutputs, At, Placeholder, Puts
  <2>2. p \in Paths
    BY <1>1, PathsApart
  <2>3. In(files', p) = Placeholder(r) /\ Apart(files, files', r, p)
        /\ \A q \in Paths : q # p => In(files', q) = In(files, q)
    <3> HIDE DEF p
    <3>1. In(files', p) = Placeholder(r) /\ Apart(files, files', r, p)
      BY <1>0, <2>1, <2>2, PutIs
    <3> QED BY <3>1 DEF Apart
  <2>4. Turn(files, files', run, run', r)
    BY <1>1, <2>3, ApartTurn
  <2>5. Placeholder(r).what = "placeholder" /\ None.what = "none"
    BY DEF Placeholder, None, File
  <2>6. y # LeftOf(x, "close")
    BY <1>1, <1>8, <1>4, LeftIs
  <2>7. Calm(files, files', r, x, y)
    <3>1. /\ Started(files') => In(files', "partial") = In(files, "partial")
          /\ \A q \in FinalPaths :
                In(files', q).what = "final" => In(files', q) = In(files, q)
      BY <2>3, <2>5, PathsApart DEF Started
    <3> QED BY <1>3, <1>6, <2>6, <3>1 DEF Calm
  <2>8. \/ In(files', "partial") = In(files, "partial")
        \/ \A w \in Runs : ~Undone(run[w])
    <3>1. p = "partial" => ~Started(files)
      BY <1>8, <2>5 DEF Started, In, At
    <3> QED BY <1>4, <2>3, <3>1, UndoneStarted, PathsApart
  <2> HIDE DEF x, y, p
  <2>9. x = run[r] /\ y = run'[r]
    BY DEF x, y
  <2> QED BY <1>2, <1>3, <1>6, <2>4, <2>6, <2>7, <2>8, <2>9, FadingShared
<1> QED BY <1>7, <1>8

(* The operator removes what a dead run left.                               *)
LEMMA TidyShared ==
  ASSUME CampaignInv, CampaignInv', Shared(files, run, drifted),
         NEW p \in Paths,
         Tidy(p)
  PROVE  Shared(files', run', drifted')
<1>1. /\ files' = [files EXCEPT ![<<p, 0>>] = None] /\ run' = run
      /\ At(p).what \in {"lock", "placeholder"} /\ drifted' = drifted
  BY DEF Tidy
<1>2. files \in [Places -> Files] /\ Locals(run)
  BY RunIs DEF CampaignInv, DiskOK, Locals
<1>3. Consistent(files', run') /\ Onward(files, files')
  BY TidyConsistent DEF Shared
<1>4. /\ \A w \in Paths : w # p => In(files', w) = In(files, w)
      /\ In(files', p) = None
      /\ \A q \in Runs : /\ files'[Stage(q)] = files[Stage(q)]
                         /\ files'[Quarantine(q)] = files[Quarantine(q)]
  <2>1. \A w \in Paths : w # p => <<w, 0>> # <<p, 0>>
    OBVIOUS
  <2> QED BY <1>1, <1>2, <2>1, PlacesAre DEF In
<1>5. None.what = "none"
  BY DEF None, File
<1>6. /\ Started(files') => In(files', "partial") = In(files, "partial")
      /\ \A q \in FinalPaths :
            In(files', q).what = "final" => In(files', q) = In(files, q)
  BY <1>4, <1>5, PathsApart DEF Started
<1>7. ASSUME NEW D, Full(files', run, D)
      PROVE  Full(files, run, D)
  <2>1. ASSUME NEW q \in Runs, Knows(files', q, run[q], D)
        PROVE  Knows(files, q, run[q], D)
    BY <1>4, <2>1 DEF Knows, StageIs, AsideIs
  <2> QED BY <1>6, <1>7, <2>1 DEF Full, Val, Started
<1>8. OneValue(files', run, drifted)
  BY <1>7 DEF Shared, OneValue
<1>9. Alone(files', run)
  <2>1. ASSUME NEW w \in Runs, Undone(run[w])
        PROVE  In(files', "partial") = In(files, "partial")
    <3>1. Started(files)
      BY <1>2, <2>1, UndoneStarted
    <3>2. p # "partial"
      BY <1>1, <3>1 DEF Started, At, In
    <3> QED BY <1>4, <3>2, PathsApart
  <2> QED BY <2>1 DEF Shared, Alone
<1>10. Firm(files', run) => Settled(files', run)
  <2>1. SUFFICES ASSUME Firm(files', run) PROVE Settled(files', run)
    OBVIOUS
  <2>2. Settled(files, run)
    BY <1>6, <2>1 DEF Firm, Shared
  <2>3. ~Compared(files') => Started(files')
    BY <1>3, <2>2 DEF Onward, Settled
  <2>4. Started(files') => Complete(In(files', "partial").data)
    BY <1>6, <2>2 DEF Settled, Started
  <2>5. ASSUME NEW q \in Runs PROVE SettledRun(files', run, q)
    BY <1>4, <2>2 DEF Settled, SettledRun
  <2>6. ASSUME NEW q \in FinalPaths PROVE SettledFinal(files', run, q)
    <3>1. SettledFinal(files, run, q)
      BY <2>2 DEF Settled
    <3>2. Compared(files') =>
            /\ Compared(files)
            /\ In(files', "comparison") = In(files, "comparison")
      BY <1>6, PathsApart DEF Compared
    <3> QED BY <1>6, <1>7, <3>1, <3>2 DEF SettledFinal
  <2> QED BY <2>3, <2>4, <2>5, <2>6 DEF Settled
<1> QED BY <1>1, <1>3, <1>8, <1>9, <1>10 DEF Shared

(* A file is moved into the quarantine.                                     *)
LEMMA RenameShared ==
  ASSUME CampaignInv, CampaignInv', Shared(files, run, drifted), NEW r \in Runs,
         Rename(r)
  PROVE  Shared(files', run', drifted')
<1> DEFINE x == run[r]
           y == run'[r]
           p == x.op.path
<1>1. /\ x.op # NoOp /\ x.op.step = "rename"
      /\ IF At(p) = None THEN Moves(r, LeftOf(x, x.op.otherwise))
         ELSE Moves(r, StepTo(x, "settle"))
  BY RenameMoves DEF CampaignInv, Rename
<1>2. drifted' = drifted
  BY DEF Rename, Elsewhere
<1>3. CASE At(p) = None
  <2>1. files' = files
    BY <1>3 DEF Rename
  <2> QED BY <1>1, <1>2, <1>3, <2>1, FailsShared
<1>4. CASE At(p) # None
  <2>0. /\ x \in RunStates /\ LocalOK(r, x) /\ RunsOK /\ Locals(run)
        /\ files \in [Places -> Files]
    BY RunIs DEF CampaignInv, DiskOK, Locals
  <2>1. p \in Paths
    BY <1>1, <2>0, ExpectedIsOwn
  <2>2. PutsAside(files, files', p, None, Quarantine(r), At(p))
    BY <1>4 DEF Rename, PutsAside
  <2>3. In(files', p) = None /\ Apart(files, files', r, p)
        /\ files'[Quarantine(r)] = At(p)
    <3> HIDE DEF p
    <3> QED BY <2>0, <2>1, <2>2, PutAsideIs
  <2>4. \A q \in Paths : q # p => In(files', q) = In(files, q)
    BY <2>3 DEF Apart
  <2>5. /\ Turn(files, files', run, run', r) /\ y = StepTo(x, "settle")
    BY <1>1, <1>4, <2>3, ApartTurn
  <2>6. /\ y.op.step = "settle" /\ y.op.path = p
        /\ y.pc = x.pc /\ y.mode = x.mode /\ y.samples = x.samples
        /\ y.own = x.own /\ y.targets = x.targets
    <3>1. "settle" \in OpSteps
      BY DEF OpSteps
    <3> QED BY <2>0, <2>5, <3>1, SteppedIs
  <2>7. Consistent(files', run') /\ Onward(files, files')
    BY RenameConsistent DEF Shared
  <2>8. x.op.kind \in {"remove", "link"} /\ x.pc \notin Gathers \cup {"block"}
    BY <1>1, <2>0 DEF LocalOK, OpOK, Sequel, NoOp, Gathers
  <2>9. None.what = "none"
    BY DEF None, File
  <2>10. p = "partial" /\ Started(files) => Compared(files)
    <3>1. Guarded(files, r, x)
      BY DEF Shared, Consistent
    <3>2. p = "partial" /\ ~Compared(files) => At(p) = x.op.expected
      BY <1>1, <2>8, <3>1, PathsApart DEF Guarded, Expects, Claims, In, At
    <3>3. \/ x.op.expected = x.own /\ x.pc = "retire" /\ p = "partial"
          \/ x.op.expected.by = r /\ x.op.expected.what # "partial"
      BY <2>0, <2>8, ExpectedIs
    <3>4. x.pc = "retire" => Compared(files)
      BY <3>1 DEF Guarded, HoldsLock
    <3> QED BY <3>2, <3>3, <3>4 DEF Started, In, At
  <2> HIDE DEF x, y, p
  <2>11. ~Mid(y) /\ ~Undone(y) /\ y.pc \notin Gathers
    BY <2>6, <2>8 DEF Mid, Undone
  <2>12. Fades(files, r, x, y, drifted)
    <3>1. CASE x.pc \notin Act
      <4>1. Loaded(y) => Loaded(x)
        BY <2>6 DEF Loaded
      <4> QED BY <2>6, <2>11, <3>1, <4>1, OutFades
    <3>2. CASE x.pc \in Act
      <4>1. (Writing(y) => Writing(x)) /\ (Ready(r, y) => Ready(r, x))
        BY <2>6, <2>8 DEF Writing, Ready, Holds, Gathers
      <4> QED BY <2>6, <2>11, <3>2, <4>1, OnFades
    <3> QED BY <3>1, <3>2
  <2>13. Calm(files, files', r, x, y)
    <3>1. Started(files') => In(files', "partial") = In(files, "partial")
      BY <2>3, <2>4, <2>9, PathsApart DEF Started
    <3>2. \A q \in FinalPaths :
             In(files', q).what = "final" => In(files', q) = In(files, q)
      BY <2>3, <2>4, <2>9, PathsApart
    <3>3. Moved(y, "partial") /\ files'[Quarantine(r)].what = "partial" =>
             Started(files) /\ files'[Quarantine(r)] = In(files, "partial")
      BY <2>3, <2>6 DEF Moved, Started, In, At
    <3> QED BY <2>7, <2>11, <3>1, <3>2, <3>3 DEF Calm
  <2>14. \/ In(files', "partial") = In(files, "partial")
         \/ \A w \in Runs : ~Undone(run[w])
    BY <2>0, <2>4, <2>10, UndoneStarted, PathsApart
  <2>15. x = run[r] /\ y = run'[r]
    BY DEF x, y
  <2> QED BY <1>2, <2>5, <2>7, <2>12, <2>13, <2>14, <2>15, FadingShared
<1> QED BY <1>3, <1>4

(* What was moved is removed, or put back.                                  *)
LEMMA SettleShared ==
  ASSUME CampaignInv, CampaignInv', Shared(files, run, drifted), NEW r \in Runs,
         Settle(r)
  PROVE  Shared(files', run', drifted')
<1> DEFINE x == run[r]
           y == run'[r]
           p == x.op.path
           moved == files[Quarantine(r)]
           own == sameOwnedABFile(x.op.expected, moved)
<1>1. /\ x.op # NoOp /\ x.op.step = "settle" /\ x.op.kind \in {"link", "remove"}
      /\ IF own /\ x.op.kind = "link" THEN Moves(r, Retiring(x))
         ELSE Moves(r, LeftOf(x, x.op.otherwise))
  BY SettleMoves DEF CampaignInv, Settle
<1>2. /\ x \in RunStates /\ LocalOK(r, x) /\ RunsOK /\ Locals(run)
      /\ files \in [Places -> Files] /\ drifted' = drifted
  BY RunIs DEF CampaignInv, DiskOK, Locals, Settle, Elsewhere
<1>3. p \in Paths
  BY <1>1, <1>2, ExpectedIsOwn
<1>4. Consistent(files', run') /\ Onward(files, files')
  BY SettleConsistent DEF Shared
<1>5. ~own => p = "partial" /\ Compared(files)
  <2>1. p \in Claims(files) \cup {"lock"} => moved = x.op.expected
    BY <1>1 DEF Shared, Consistent, Guarded, Expects
  <2>2. x.op.expected # None
    BY <1>1, <1>2, ExpectedIsOwn
  <2> QED BY <1>3, <2>1, <2>2, PathsApart DEF Claims, sameOwnedABFile
<1>6. /\ \A q \in Paths : q # p => In(files', q) = In(files, q)
      /\ In(files', p) \in {In(files, p), moved}
      /\ own => In(files', p) = In(files, p)
      /\ Apart(files, files', r, p)
  <2>0. Stage(r) # Quarantine(r)
    BY PlacesAre
  <2>1. CASE own
    <3>1. Sets(files, files', Quarantine(r), None)
      BY <2>1 DEF Settle, Sets
    <3> HIDE DEF p
    <3>2. /\ \A q \in Paths : In(files', q) = In(files, q)
          /\ Apart(files, files', r, p)
      BY <1>2, <3>1, AsideAloneIs
    <3> QED BY <1>3, <3>2
  <2>2. CASE ~own
    <3> DEFINE v == IF At(p) = None THEN moved ELSE At(p)
    <3>1. PutsAside(files, files', p, v, Quarantine(r), None)
      <4>1. files' = [files EXCEPT ![Quarantine(r)] = None,
                        ![<<p, 0>>] = IF At(p) = None THEN moved ELSE @]
        BY <2>2 DEF Settle
      <4>2. Quarantine(r) # <<p, 0>> /\ Quarantine(r) \in Places
            /\ <<p, 0>> \in Places
        BY <1>3, PlacesAre
      <4> QED BY <1>2, <4>1, <4>2 DEF PutsAside, At
    <3> HIDE DEF p, v
    <3>2. In(files', p) = v /\ Apart(files, files', r, p)
      BY <1>2, <1>3, <2>0, <3>1, PutAsideIs
    <3> QED BY <2>2, <3>2 DEF Apart, v, At, In
  <2> QED BY <2>1, <2>2
<1>7. Turn(files, files', run, run', r)
  BY <1>1, <1>6, ApartTurn
<1>8. /\ y.op.step \in {"none", "link"} /\ Fades(files, r, x, y, drifted)
  <2>1. CASE own /\ x.op.kind = "link"
    <3>1. y = Retiring(x)
      BY <1>1, <1>6, <2>1, ApartTurn
    <3> HIDE DEF y, own
    <3>2. /\ y.op.step = "link"
          /\ y.pc = x.pc /\ y.mode = x.mode /\ y.samples = x.samples
          /\ y.own = x.own /\ p \in Outputs
          /\ \A q \in Outputs : q # p => y.targets[q] = x.targets[q]
      BY <1>1, <1>2, <2>1, <3>1, RetiringIs
    <3>3. \/ x.pc = "first" /\ p = "partial" /\ x.mode = "fresh"
          \/ x.pc = "publish" /\ p \in FinalPaths /\ ~x.targets[p].consumed
             /\ ~x.targets[p].preexisting
      <4>1. x.todo \in 2..4 => Finals[x.todo - 1] \in FinalPaths
        <5>1. x.todo \in 2..4 =>
                x.todo - 1 = 1 \/ x.todo - 1 = 2 \/ x.todo - 1 = 3
          OBVIOUS
        <5> QED BY <5>1, PathsAre, PathsApart
      <4> QED BY <1>1, <1>2, <2>1, <4>1 DEF LocalOK, OpOK, Sequel
    <3>4. CASE x.pc = "first" /\ p = "partial" /\ x.mode = "fresh"
      <4>1. \A q \in FinalPaths : y.targets[q] = x.targets[q]
        BY <3>2, <3>4, PathsApart
      <4>2. (Loaded(y) => Loaded(x)) /\ (Consumed(y) => Consumed(x))
        BY <3>2, <4>1 DEF Loaded, Consumed
      <4>3. ~Writing(y) /\ ~Undone(y) /\ ~Ready(r, y) /\ ~Mid(y)
            /\ y.pc \notin Gathers
        BY <3>2, <3>4 DEF Writing, Undone, Ready, Mid, Gathers
      <4> QED BY <3>2, <4>2, <4>3 DEF Fades
    <3>5. CASE x.pc = "publish" /\ p \in FinalPaths /\ ~x.targets[p].consumed
               /\ ~x.targets[p].preexisting
      <4>1. TargetOK(r, x, p) /\ x.targets[p].info # None
        BY <1>2, <3>2, <3>5 DEF LocalOK, TargetsOK, FinalTargetOK, Act
      <4>2. Complete(x.samples)
        BY <1>2, <3>5 DEF LocalOK, PhaseOK
      <4>3. Ready(r, x)
        BY <3>5, <4>1, <4>2 DEF TargetOK, Ready, Holds, HeldTarget
      <4>4. Loaded(x) /\ Writing(x) /\ ~Undone(y) /\ ~Mid(y)
            /\ y.pc \notin Gathers /\ ~Restored(drifted, r, x)
        BY <1>2, <3>2, <3>5, WritersAreLoaded
        DEF Writing, Undone, Mid, Gathers, Restored, Act
      <4> QED BY <3>2, <4>3, <4>4 DEF Fades
    <3> QED BY <3>2, <3>3, <3>4, <3>5
  <2>2. CASE ~(own /\ x.op.kind = "link")
    <3> DEFINE o == x.op.otherwise
    <3>1. y = LeftOf(x, o)
      BY <1>1, <1>6, <2>2, ApartTurn
    <3> HIDE DEF y
    <3>2. /\ o \in {"close", "rollback", "done"}
          /\ o = "rollback" => x.pc \in {"publish", "rollback"}
      <4>1. x.pc # "call"
        BY <1>1, <1>2 DEF LocalOK, OpOK, Sequel
      <4> QED BY <1>1, <1>2, <4>1, OtherwiseIs
    <3>3. /\ y.pc = o /\ y.op = NoOp
          /\ o # "done" => y.targets = x.targets
          /\ o = "rollback" => y.own = x.own /\ y.samples = x.samples
      BY <1>2, <3>1, <3>2, LeftIs
    <3>4. y.op.step = "none" /\ ~Mid(y)
      BY <3>3 DEF NoOp, Mid
    <3>5. CASE o = "rollback"
      <4>1. /\ Writing(x) /\ ~Undone(y) /\ y.pc \notin Gathers
            /\ ~Ready(r, y) /\ x.pc \in Act /\ x.pc # "fail"
        BY <3>2, <3>3, <3>5 DEF Writing, Undone, Ready, Gathers, Act
      <4> QED BY <3>3, <3>4, <3>5, <4>1, OnFades
    <3>6. CASE o # "rollback"
      <4>1. y.pc \notin Act /\ ~Loaded(y)
        BY <3>2, <3>3, <3>6 DEF Act, Loaded
      <4> QED BY <3>4, <4>1, OutFades
    <3> QED BY <3>5, <3>6
  <2> QED BY <2>1, <2>2
<1>9. None.what = "none"
  BY DEF None, File
<1>10. Calm(files, files', r, x, y)
  <2>1. Started(files') =>
          \/ In(files', "partial") = In(files, "partial")
          \/ AsideIs(files, r, x, In(files', "partial").data)
    <3>1. CASE p = "partial"
      BY <1>1, <1>6, <3>1 DEF Started, AsideIs, Moved
    <3>2. CASE p # "partial"
      BY <1>6, <3>2, PathsApart
    <3> QED BY <3>1, <3>2
  <2>2. \A q \in FinalPaths : In(files', q) = In(files, q)
    BY <1>5, <1>6, PathsApart
  <2>3. ~Mid(y) /\ ~Moved(y, "partial")
    BY <1>8 DEF Mid, Moved
  <2> QED BY <1>4, <2>1, <2>2, <2>3 DEF Calm
<1>11. \/ In(files', "partial") = In(files, "partial")
       \/ \A w \in Runs : ~Undone(run[w])
  BY <1>2, <1>5, <1>6, UndoneStarted, PathsApart
<1> HIDE DEF x, y, p, moved, own
<1>12. x = run[r] /\ y = run'[r]
  BY DEF x, y
<1> QED BY <1>2, <1>4, <1>7, <1>8, <1>10, <1>11, <1>12, FadingShared

(* The first checkpoint of a fresh run.                                     *)
LEMMA FirstLinkShared ==
  ASSUME NEW F, NEW G, NEW X, NEW Y, NEW d, NEW r \in Runs,
         Turn(F, G, X, Y, r), Shared(F, X, d), Consistent(G, Y),
         X[r].pc = "first", X[r].mode = "fresh", In(F, "partial").what = "none",
         \A p \in FinalPaths : In(G, p) = In(F, p),
         Started(G), In(G, "partial") = Y[r].own, Y[r].own.data = X[r].samples,
         Y[r].pc = "block", Y[r].op = NoOp, Y[r].samples = X[r].samples,
         \A p \in FinalPaths : Y[r].targets[p] = X[r].targets[p]
  PROVE  Shared(G, Y, d)
<1> DEFINE x == X[r]
           y == Y[r]
<1>1. Locals(X) /\ Consistent(F, X) /\ Alone(F, X)
  BY DEF Turn, Locals, Shared
<1>2. LocalOK(r, x) /\ x \in RunStates
  BY <1>1 DEF Locals
<1>3. Sole(r, x) /\ x.pc \notin {"publish", "rollback"}
  BY <1>2, HoldersAre
<1>4. ~Compared(F) /\ ~Started(F)
  BY <1>1, <1>3, SoleIs DEF Started
<1>5. ~Firm(F, X)
  BY <1>4 DEF Shared, Settled
<1>6. ASSUME NEW q \in Runs
      PROVE  /\ ~Loaded(X[q]) /\ ~Mid(X[q]) /\ ~Writing(X[q])
             /\ ~Undone(X[q]) /\ X[q].pc \notin Gathers
             /\ ~(Moved(X[q], "partial") /\ F[Quarantine(q)].what = "partial")
  <2>1. ~Loaded(X[q])
    BY <1>1, <1>4 DEF Consistent, KindOK
  <2>2. LocalOK(q, X[q]) /\ X[q] \in RunStates /\ StepsOK(X[q])
    BY <1>1 DEF Locals, Consistent
  <2>3. ~Mid(X[q]) /\ ~Writing(X[q])
    BY <2>1, <2>2, WritersAreLoaded
  <2>4. ~Undone(X[q]) /\ X[q].pc \notin Gathers
    BY <2>2, <2>3, UndoneIs, HoldersAre
  <2>5. ~(Moved(X[q], "partial") /\ F[Quarantine(q)].what = "partial")
    BY <1>1, <1>4, AsideIsCompared
  <2> QED BY <2>1, <2>3, <2>4, <2>5
<1>7. ASSUME NEW q \in Runs, q # r
      PROVE  /\ ~Loaded(Y[q]) /\ ~Mid(Y[q]) /\ ~Writing(Y[q])
             /\ ~Undone(Y[q]) /\ Y[q].pc \notin Gathers
             /\ ~(Moved(Y[q], "partial") /\ G[Quarantine(q)].what = "partial")
             /\ ~Consumed(Y[q]) /\ ~Ready(q, Y[q])
  BY <1>5, <1>6, <1>7 DEF Turn, Firm
<1>8. ~Mid(y) /\ ~Moved(y, "partial") /\ y.pc \notin Gathers
  BY DEF Mid, Moved, NoOp, Gathers
<1>9. ASSUME NEW D, Full(G, Y, D) PROVE D = x.samples
  <2>1. ASSUME NEW q \in Runs, Knows(G, q, Y[q], D) PROVE D = x.samples
    <3>1. CASE q = r
      BY <1>8, <2>1, <3>1 DEF Knows, StageIs, AsideIs
    <3>2. CASE q # r
      BY <1>7, <2>1, <3>2 DEF Knows, StageIs, AsideIs
    <3> QED BY <3>1, <3>2
  <2> QED BY <1>9, <2>1 DEF Full, Val
<1>10. OneValue(G, Y, d)
  <2>1. ASSUME NEW D, Full(G, Y, D), NEW q \in Runs
        PROVE  Agrees(d, q, Y[q], D)
    <3>1. CASE q = r
      BY <1>9, <2>1, <3>1 DEF Agrees
    <3>2. CASE q # r
      BY <1>7, <3>2 DEF Agrees
    <3> QED BY <3>1, <3>2
  <2> QED BY <1>9, <2>1 DEF OneValue
<1>11. Alone(G, Y)
  BY <1>1, <1>6, AloneKeeps
<1>12. \A p \in FinalPaths : In(G, p).what # "final"
  BY <1>1, <1>3, SoleIs
<1>13. Firm(G, Y) => Settled(G, Y)
  <2>1. SUFFICES ASSUME Firm(G, Y) PROVE Settled(G, Y)
    OBVIOUS
  <2>2. ~Consumed(y)
    BY <1>3 DEF Consumed, Spent, Sole, Holds, HeldTarget
  <2>3. Complete(y.samples)
    <3>1. PICK q \in Runs : Consumed(Y[q]) \/ Ready(q, Y[q])
      BY <1>12, <2>1 DEF Firm
    <3>2. q = r
      BY <1>7, <3>1
    <3> QED BY <2>2, <3>1, <3>2 DEF Ready
  <2>4. ASSUME NEW q \in Runs PROVE SettledRun(G, Y, q)
    <3>1. CASE q = r
      BY <1>8, <2>3, <3>1 DEF SettledRun
    <3>2. CASE q # r
      BY <1>7, <3>2 DEF SettledRun
    <3> QED BY <3>1, <3>2
  <2>5. \A p \in FinalPaths : SettledFinal(G, Y, p)
    BY <1>12 DEF SettledFinal
  <2> QED BY <2>3, <2>4, <2>5 DEF Settled
<1> QED BY <1>10, <1>11, <1>13 DEF Shared

(* A final is published.                                                    *)
LEMMA FinalLinkShared ==
  ASSUME NEW F, NEW G, NEW X, NEW Y, NEW d, NEW r \in Runs,
         Turn(F, G, X, Y, r), Shared(F, X, d), Consistent(G, Y), Onward(F, G),
         X[r].pc = "publish", Consumed(X[r]), Complete(X[r].samples),
         NEW p \in FinalPaths, In(F, p).what = "none",
         In(G, p) = FinalOf(r, X[r].samples, p),
         \A q \in Paths : q # p => In(G, q) = In(F, q),
         Y[r].pc \in {"publish", "retire"}, Y[r].op = NoOp,
         Y[r].samples = X[r].samples, Y[r].own = X[r].own
  PROVE  Shared(G, Y, d)
<1> DEFINE x == X[r]
           y == Y[r]
           S == x.samples
<1>1. /\ Locals(X) /\ Consistent(F, X) /\ Alone(F, X) /\ OneValue(F, X, d)
      /\ LocalOK(r, x) /\ x \in RunStates
  BY DEF Turn, Locals, Shared
<1>2. Settled(F, X)
  BY DEF Shared, Firm
<1>3. Writing(x) /\ Loaded(x)
  BY <1>1, WritersAreLoaded DEF Writing, Act
<1>4. Full(F, X, S)
  BY <1>3 DEF Full, Val, Knows
<1>5. ~Mid(y) /\ ~Moved(y, "partial") /\ y.pc \notin Gathers /\ ~Undone(y)
  BY DEF Mid, Moved, NoOp, Gathers, Undone
<1>6. In(G, "partial") = In(F, "partial") /\ (Started(G) <=> Started(F))
  <2>1. "partial" \in Paths /\ "partial" # p
    BY PathsApart
  <2>2. In(G, "partial") = In(F, "partial")
    BY <2>1
  <2> QED BY <2>2 DEF Started
<1>7. ASSUME NEW D, Full(G, Y, D) PROVE D = S /\ Full(F, X, D)
  <2>1. Knows(G, r, y, D) => Val(F, X, D)
    BY <1>3, <1>5 DEF Knows, StageIs, AsideIs, Val
  <2>2. Started(G) /\ In(G, "partial").data = D => Val(F, X, D)
    BY <1>6 DEF Val
  <2>3. Full(F, X, D)
    BY <1>7, <2>1, <2>2, FullFrom
  <2> QED BY <1>1, <1>4, <2>3 DEF OneValue
<1>8. OneValue(G, Y, d)
  BY <1>1, <1>7, OneKeeps DEF Agrees
<1>9. Alone(G, Y)
  <2>1. \A w \in Runs : ~Undone(X[w])
    BY <1>1, <1>2, FirmNoUndone
  <2> QED BY <1>1, <1>5, <2>1, AloneKeeps
<1>10. In(G, p).what = "final" /\ In(G, p).data = Part(S, p)
  BY DEF FinalOf, File
<1>11. Compared(G) => In(G, "comparison").data = S
  <2>1. \A T : Part(T, "comparison") = T
    BY DEF Part
  <2>2. CASE p = "comparison"
    BY <1>10, <2>1, <2>2
  <2>3. CASE p # "comparison"
    <3>1. "comparison" \in FinalPaths /\ "comparison" \in Paths
      BY PathsApart
    <3>2. In(G, "comparison") = In(F, "comparison")
      BY <2>3, <3>1
    <3>3. Compared(G) => In(F, "comparison").data = Part(S, "comparison")
      BY <1>2, <1>4, <3>1, <3>2 DEF Compared, Settled, SettledFinal
    <3> QED BY <2>1, <3>2, <3>3
  <2> QED BY <2>2, <2>3
<1>12. ASSUME NEW q \in FinalPaths PROVE SettledFinal(G, Y, q)
  <2>1. In(G, q).what = "final" => In(G, q).data = Part(S, q)
    <3>1. CASE q = p
      BY <1>10, <3>1
    <3>2. CASE q # p
      <4>1. In(G, q) = In(F, q)
        BY <3>2, PathsApart
      <4>2. SettledFinal(F, X, q)
        BY <1>2 DEF Settled
      <4> QED BY <1>4, <4>1, <4>2 DEF SettledFinal
    <3> QED BY <3>1, <3>2
  <2> QED BY <1>7, <1>11, <2>1 DEF SettledFinal
<1>13. Settled(G, Y)
  <2>1. SettledRun(G, Y, r)
    BY <1>5 DEF SettledRun
  <2>2. ~Compared(G) => Started(G)
    BY <1>2 DEF Onward, Settled
  <2>3. Started(G) => Complete(In(G, "partial").data)
    BY <1>2, <1>6 DEF Settled
  <2> QED BY <1>2, <1>12, <2>1, <2>2, <2>3, SettledKeeps
<1> QED BY <1>8, <1>9, <1>13 DEF Shared

(* A staged file is linked.                                                 *)
LEMMA LinkShared ==
  ASSUME CampaignInv, CampaignInv', Shared(files, run, drifted), NEW r \in Runs,
         Link(r)
  PROVE  Shared(files', run', drifted')
<1> DEFINE x == run[r]
           y == run'[r]
           p == x.op.path
           new == StagedOf(r, x, p)
<1>1. /\ x.op # NoOp /\ x.op.step = "link"
      /\ IF At(p) = None THEN Moves(r, Linked(r, x))
         ELSE Moves(r, LeftOf(x, x.op.otherwise))
      /\ Staged(r, p) = new
  BY LinkMoves DEF CampaignInv, Link
<1>2. drifted' = drifted
  BY DEF Link, Elsewhere
<1>3. CASE At(p) # None
  <2>1. files' = files
    BY <1>3 DEF Link
  <2> QED BY <1>1, <1>2, <1>3, <2>1, FailsShared
<1>4. CASE At(p) = None
  <2>1. /\ x \in RunStates /\ LocalOK(r, x) /\ RunsOK
        /\ files \in [Places -> Files]
    BY RunIs DEF CampaignInv, DiskOK
  <2>2. Puts(files, files', p, new)
    BY <1>1, <1>4 DEF Link, Puts
  <2>3. /\ \/ x.pc = "first" /\ p = "partial" /\ x.mode = "fresh"
           \/ /\ x.pc = "publish" /\ p \in FinalPaths
              /\ x.targets[p].consumed /\ x.targets[p].info = Placeholder(r)
    BY <1>1, <2>1, LinkedOK, PathsAre
  <2>4. p \in Paths
    BY <2>3, PathsApart
  <2>5. In(files', p) = new /\ Apart(files, files', r, p)
    <3> HIDE DEF p, new
    <3> QED BY <2>1, <2>2, <2>4, PutIs
  <2>6. \A q \in Paths : q # p => In(files', q) = In(files, q)
    BY <2>5 DEF Apart
  <2>7. Turn(files, files', run, run', r) /\ y = Linked(r, x)
    BY <1>1, <1>4, <2>5, ApartTurn
  <2>71. /\ y.op = NoOp /\ y.samples = x.samples
         /\ y.targets[p].published = new
         /\ \A q \in Outputs : q # p => y.targets[q] = x.targets[q]
         /\ \/ /\ x.pc = "first" /\ p = "partial" /\ y.pc = "block"
               /\ y.own = new
            \/ /\ x.pc = "publish" /\ p \in FinalPaths
               /\ y.pc \in {"publish", "retire"} /\ y.own = x.own
    <3> HIDE DEF y
    <3> QED BY ZenonT(60), <1>1, <2>1, <2>7, LinkedOK
  <2>8. Consistent(files', run') /\ Onward(files, files')
    BY LinkConsistent DEF Shared
  <2>9. In(files, p).what = "none"
    BY <1>4 DEF In, At, None, File
  <2>10. CASE x.pc = "first" /\ p = "partial" /\ x.mode = "fresh"
    <3>1. new.what = "partial" /\ new.data = x.samples
      BY <2>10 DEF StagedOf, File
    <3>2. /\ y.op = NoOp /\ y.samples = x.samples /\ y.pc = "block"
          /\ y.own = new /\ \A q \in FinalPaths : y.targets[q] = x.targets[q]
      BY <2>71, <2>10, PathsApart
    <3>3. /\ In(files', "partial") = new /\ In(files, "partial").what = "none"
          /\ \A q \in FinalPaths : In(files', q) = In(files, q)
      BY <2>5, <2>6, <2>9, <2>10, PathsApart
    <3>4. Started(files')
      BY <3>1, <3>3 DEF Started
    <3> HIDE DEF new
    <3> QED BY <1>2, <2>7, <2>8, <2>10, <3>1, <3>2, <3>3, <3>4, FirstLinkShared
  <2>11. CASE x.pc = "publish" /\ p \in FinalPaths /\ x.targets[p].consumed
              /\ x.targets[p].info = Placeholder(r)
    <3>1. new = FinalOf(r, x.samples, p)
      BY <2>11, PathsApart DEF StagedOf
    <3>2. Complete(x.samples)
      BY <2>1, <2>11 DEF LocalOK, PhaseOK
    <3>3. Consumed(x)
      <4>1. TargetOK(r, x, p)
        BY <2>1, <2>11, PathsApart DEF LocalOK, TargetsOK
      <4>2. ~x.targets[p].preexisting
        BY <1>1, <2>1, <2>11 DEF LocalOK, OpOK, Sequel
      <4> QED BY <2>11, <4>2 DEF Consumed, Spent, Act
    <3>4. /\ y.op = NoOp /\ y.samples = x.samples
          /\ y.pc \in {"publish", "retire"} /\ y.own = x.own
      BY <2>71, <2>11, PathsApart
    <3>5. In(files', p) = FinalOf(r, x.samples, p)
      BY <2>5, <3>1
    <3> HIDE DEF x, y, new, p
    <3>6. x = run[r] /\ y = run'[r]
      BY DEF x, y
    <3> QED BY <1>2, <2>6, <2>7, <2>8, <2>9, <2>11, <3>2, <3>3, <3>4, <3>5,
               <3>6, FinalLinkShared
  <2> QED BY <2>3, <2>10, <2>11
<1> QED BY <1>3, <1>4

(* A run exchanges its partial.                                             *)
LEMMA SwappingShared ==
  ASSUME NEW F, NEW G, NEW X, NEW Y, NEW d, NEW r \in Runs,
         Turn(F, G, X, Y, r), Shared(F, X, d), Consistent(G, Y), Onward(F, G),
         X[r].op.step = "exchange", Y[r] = StepTo(X[r], "confirm"),
         \A q \in FinalPaths : In(G, q) = In(F, q),
         In(G, "partial") = File(r, "partial", X[r].samples),
         G[Stage(r)] = In(F, "partial")
  PROVE  Shared(G, Y, d)
<1> DEFINE x == X[r]
           y == Y[r]
<1>1. /\ Locals(X) /\ Consistent(F, X) /\ Alone(F, X) /\ OneValue(F, X, d)
      /\ LocalOK(r, x) /\ x \in RunStates /\ StepsOK(x)
  BY DEF Turn, Locals, Shared, Consistent
<1>2. /\ y.op.step = "confirm" /\ y.pc = x.pc /\ y.mode = x.mode
      /\ y.samples = x.samples /\ y.own = x.own /\ y.targets = x.targets
  <2>1. "confirm" \in OpSteps
    BY DEF OpSteps
  <2> QED BY <1>1, <2>1, SteppedIs
<1>3. /\ x.pc \in {"first", "call", "fail"} /\ Loaded(x)
      /\ x.pc = "first" => x.mode = "resume"
  BY <1>1, WritersAreLoaded
<1>4. Writing(x) /\ Loaded(y) /\ ~Undone(y) /\ ~Moved(y, "partial")
      /\ ~Ready(r, x)
  BY <1>2, <1>3 DEF Writing, Loaded, Undone, Moved, Ready, Act
<1>5. \A q \in Runs : q # r => ~Undone(X[q])
  BY <1>1, <1>4, UndoneAlone
<1>6. Started(G) /\ In(G, "partial").data = x.samples
  BY DEF Started, File
<1>7. ASSUME NEW D, Full(G, Y, D) PROVE Full(F, X, D) /\ Agrees(d, r, y, D)
  <2>1. Started(G) /\ In(G, "partial").data = D => Val(F, X, D)
    BY <1>3, <1>6 DEF Val, Knows
  <2>2. Knows(G, r, y, D) => Val(F, X, D)
    BY <1>2, <1>3, <1>4 DEF Knows, StageIs, AsideIs, Val, Started
  <2>3. Full(F, X, D)
    BY <1>7, <2>1, <2>2, FullFrom
  <2>4. Agrees(d, r, x, D)
    BY <1>1, <2>3 DEF OneValue
  <2>5. Restored(d, r, x) => Restored(d, r, y)
    BY <1>2 DEF Restored, Sole, Holds
  <2> QED BY <1>2, <1>4, <2>3, <2>4, <2>5 DEF Agrees
<1>8. OneValue(G, Y, d)
  BY <1>1, <1>7, OneKeeps
<1>9. Alone(G, Y)
  BY <1>1, <1>4, <1>5, AloneKeeps
<1>10. /\ Compared(G) <=> Compared(F)
       /\ Compared(G) => In(G, "comparison") = In(F, "comparison")
  BY PathsApart DEF Compared
<1>11. ASSUME Firm(F, X) PROVE Settled(G, Y)
  <2>1. Settled(F, X)
    BY <1>11 DEF Shared
  <2>2. SettledRun(F, X, r)
    BY <2>1 DEF Settled
  <2>3. Complete(x.samples) /\ x.pc \notin Gathers
    BY <1>4, <2>2 DEF SettledRun
  <2>4. ~Ready(r, y) /\ (Consumed(y) => Consumed(x))
    BY <1>2, <1>3, <2>3 DEF Ready, Gathers, Consumed
  <2>5. SettledRun(G, Y, r)
    <3>1. G[Stage(r)].what = "partial" => Complete(G[Stage(r)].data)
      BY <2>1 DEF Settled, Started
    <3> QED BY <1>2, <1>4, <2>3, <3>1 DEF SettledRun
  <2>6. ASSUME NEW p \in FinalPaths PROVE SettledFinal(G, Y, p)
    <3>1. SettledFinal(F, X, p) /\ In(G, p) = In(F, p)
      BY <2>1 DEF Settled
    <3> QED BY <1>7, <1>10, <3>1 DEF SettledFinal
  <2> QED BY <1>6, <2>1, <2>3, <2>4, <2>5, <2>6, SettledKeeps
<1>12. ASSUME ~Firm(F, X), Firm(G, Y) PROVE Settled(G, Y)
  <2>1. Ready(r, y)
    <3>1. ASSUME NEW q \in Runs, q # r PROVE ~Consumed(Y[q]) /\ ~Ready(q, Y[q])
      BY <1>12, <3>1 DEF Turn, Firm
    <3>2. ~Consumed(y)
      BY <1>2, <1>12 DEF Consumed, Firm
    <3>3. \A p \in FinalPaths : In(G, p).what # "final"
      BY <1>12 DEF Firm
    <3> QED BY <1>12, <3>1, <3>2, <3>3 DEF Firm
  <2>2. x.pc = "call" /\ Complete(x.samples)
    BY <1>2, <1>3, <2>1 DEF Ready
  <2>3. Undone(x)
    BY <1>1, <2>2 DEF Undone, StepsOK, Gathers
  <2>4. ~Compared(F)
    <3>1. Sole(r, x) /\ x.pc \notin {"publish", "rollback"}
      BY <1>1, <2>3, UndoneIs
    <3> QED BY <1>1, <3>1, SoleIs
  <2>5. SettledRun(G, Y, r)
    <3>1. \A q \in Runs : q # r => ~Ready(q, Y[q]) /\ ~Consumed(Y[q])
      BY <1>12 DEF Turn, Firm
    <3> QED BY <1>2, <1>4, <2>1, <2>2, <3>1 DEF SettledRun
  <2>6. ASSUME NEW q \in Runs, q # r PROVE SettledRun(G, Y, q)
    <3>1. ~Writing(X[q]) /\ ~Mid(X[q]) /\ X[q].pc \notin Gathers
      BY <1>1, <2>3, <2>6, UndoneAlone
    <3>2. ~(Moved(X[q], "partial") /\ F[Quarantine(q)].what = "partial")
      BY <1>1, <2>4, AsideIsCompared
    <3> QED BY <2>6, <3>1, <3>2 DEF SettledRun, Turn
  <2>7. \A p \in FinalPaths : SettledFinal(G, Y, p)
    BY <1>12 DEF SettledFinal, Firm
  <2> QED BY <1>6, <2>2, <2>5, <2>6, <2>7 DEF Settled
<1> QED BY <1>8, <1>9, <1>11, <1>12 DEF Shared

(* The partial is exchanged with the staged file.                           *)
LEMMA ExchangeShared ==
  ASSUME CampaignInv, CampaignInv', Shared(files, run, drifted), NEW r \in Runs,
         Exchange(r)
  PROVE  Shared(files', run', drifted')
<1> DEFINE x == run[r]
           new == File(r, "partial", x.samples)
           fails == x.op.expected = None \/ At("partial") = None
<1>1. /\ x.op # NoOp /\ x.op.step = "exchange"
      /\ IF fails THEN Moves(r, LeftOf(x, x.op.otherwise))
         ELSE Moves(r, StepTo(x, "confirm"))
      /\ Staged(r, "partial") = new
  BY ExchangeMoves DEF CampaignInv, Exchange, StagedOf
<1>2. drifted' = drifted
  BY DEF Exchange, Elsewhere
<1>3. CASE fails
  <2>1. files' = files
    BY <1>3 DEF Exchange
  <2> QED BY <1>1, <1>2, <1>3, <2>1, FailsShared
<1>4. CASE ~fails
  <2>1. files \in [Places -> Files] /\ "partial" \in Paths
    BY PathsApart DEF CampaignInv, DiskOK
  <2>2. PutsAside(files, files', "partial", new, Stage(r), At("partial"))
    <3>1. files' = [files EXCEPT ![Stage(r)] = At("partial"),
                                 ![<<"partial", 0>>] = new]
      BY <1>1, <1>4 DEF Exchange
    <3>2. Stage(r) # <<"partial", 0>>
      BY PlacesAre, PathsApart
    <3> QED BY <2>1, <3>1, <3>2 DEF PutsAside
  <2>3. In(files', "partial") = new /\ Apart(files, files', r, "partial")
        /\ files'[Stage(r)] = At("partial")
    <3> HIDE DEF new
    <3> QED BY <2>1, <2>2, PutAsideIs
  <2>4. \A q \in FinalPaths : In(files', q) = In(files, q)
    BY <2>3, PathsApart DEF Apart
  <2>5. Turn(files, files', run, run', r) /\ run'[r] = StepTo(x, "confirm")
    BY <1>1, <1>4, <2>3, ApartTurn
  <2>6. Consistent(files', run') /\ Onward(files, files')
    BY ExchangeConsistent DEF Shared
  <2>7. files'[Stage(r)] = In(files, "partial")
    BY <2>3 DEF In, At
  <2> QED BY <1>1, <1>2, <2>3, <2>4, <2>5, <2>6, <2>7, SwappingShared
<1> QED BY <1>3, <1>4

(* A run confirms its exchange.                                             *)
LEMMA ConfirmingShared ==
  ASSUME NEW F, NEW G, NEW X, NEW Y, NEW d, NEW r \in Runs,
         Turn(F, G, X, Y, r), Shared(F, X, d), Consistent(G, Y),
         X[r].op.step = "confirm", \A q \in Paths : In(G, q) = In(F, q),
         In(F, "partial") = Y[r].own, Y[r].own.what = "partial",
         Y[r].own.data = X[r].samples, Y[r].op = NoOp,
         Y[r].targets = X[r].targets, Y[r].samples = X[r].samples,
         \/ X[r].pc = "first" /\ Y[r].pc = "block"
         \/ X[r].pc = "call" /\ Y[r].pc \in {"next", "verify"}
  PROVE  Shared(G, Y, d)
<1> DEFINE x == X[r]
           y == Y[r]
<1>1. /\ Locals(X) /\ Consistent(F, X) /\ Alone(F, X) /\ OneValue(F, X, d)
      /\ LocalOK(r, x) /\ x \in RunStates
  BY DEF Turn, Locals, Shared, Consistent
<1>2. /\ Loaded(x) /\ Writing(x) /\ Mid(x) /\ ~Moved(x, "partial")
      /\ x.pc = "first" => x.mode = "resume"
  BY <1>1, WritersAreLoaded DEF Mid, Moved
<1>3. /\ Loaded(y) /\ ~Mid(y) /\ ~Moved(y, "partial") /\ x.pc # "fail"
      /\ y.pc \in {"block", "next", "verify"} /\ x.pc \in Act
  <2>1. None.what = "none"
    BY DEF None, File
  <2> QED BY <2>1 DEF Loaded, Mid, Moved, NoOp, Act
<1>4. \A q \in Runs : q # r => ~Undone(X[q])
  BY <1>1, <1>2, UndoneAlone
<1>5. /\ In(G, "partial") = In(F, "partial") /\ Started(F) /\ Started(G)
      /\ \A p \in FinalPaths : In(G, p) = In(F, p)
      /\ Compared(G) <=> Compared(F)
      /\ In(G, "comparison") = In(F, "comparison")
  BY PathsApart DEF Started, Compared
<1>6. ASSUME NEW D, Full(F, X, D) PROVE x.samples = D
  <2>1. Agrees(d, r, x, D)
    BY <1>1, <1>6 DEF OneValue
  <2> QED BY <1>2, <1>3, <2>1 DEF Agrees, Restored
<1>7. ASSUME NEW D, Full(G, Y, D) PROVE Full(F, X, D) /\ Agrees(d, r, y, D)
  <2>1. Started(G) /\ In(G, "partial").data = D => Val(F, X, D)
    BY <1>5 DEF Val
  <2>2. Knows(G, r, y, D) => Val(F, X, D)
    BY <1>2, <1>3 DEF Knows, StageIs, AsideIs, Val
  <2>3. Full(F, X, D)
    BY <1>7, <2>1, <2>2, FullFrom
  <2> QED BY <1>6, <2>3 DEF Agrees
<1>8. OneValue(G, Y, d)
  BY <1>1, <1>7, OneKeeps
<1>9. Alone(G, Y)
  <2>1. ASSUME Undone(y), NEW q \in Runs, Loaded(X[q]), Complete(X[q].samples)
        PROVE  FALSE
    <3>1. Full(F, X, X[q].samples)
      BY <2>1 DEF Full, Val, Knows
    <3>2. x.samples = X[q].samples
      BY <1>6, <3>1
    <3> QED BY <2>1, <3>2 DEF Undone
  <2> QED BY <1>1, <1>4, <1>5, <2>1, AloneKeeps
<1>10. /\ Consumed(y) => Consumed(x)
       /\ \A p \in FinalPaths : Holds(r, y, p) <=> Holds(r, x, p)
  BY <1>3 DEF Consumed, Holds
<1>11. x.pc = "call" => (Ready(r, y) <=> Ready(r, x))
  BY <1>3, <1>10 DEF Ready
<1>12. ASSUME Firm(F, X) PROVE Settled(G, Y)
  <2>1. Settled(F, X) /\ SettledRun(F, X, r)
    BY <1>12 DEF Shared, Settled
  <2>2. Complete(x.samples)
    BY <1>2, <2>1 DEF SettledRun
  <2>3. SettledRun(G, Y, r)
    <3>1. ASSUME y.pc \in Gathers
          PROVE  Ready(r, y)
                 /\ \A q \in Runs : q # r => ~Ready(q, Y[q]) /\ ~Consumed(Y[q])
      <4>1. x.pc = "call" /\ x.pc \in Gathers
        BY <3>1 DEF Gathers
      <4> QED BY <1>11, <2>1, <4>1 DEF SettledRun, Turn
    <3> QED BY <1>3, <2>2, <3>1 DEF SettledRun
  <2>4. \/ \A q \in Runs : q # r => X[q].pc \notin Gathers
        \/ Consumed(y) \/ Ready(r, y) => Consumed(x) \/ Ready(r, x)
    <3>1. ASSUME NEW p \in FinalPaths, Holds(r, x, p),
                 NEW q \in Runs, q # r, X[q].pc \in Gathers
          PROVE  FALSE
      <4>1. Sole(q, X[q]) /\ X[q].pc \notin {"publish", "rollback"}
        BY <1>1, <3>1, HoldersAre DEF Locals, Gathers
      <4>2. ~Moved(x, p)
        BY DEF Moved
      <4> QED BY <1>1, <3>1, <4>1, <4>2, SoleIs
    <3> QED BY <1>10, <3>1 DEF Ready
  <2>5. ASSUME NEW p \in FinalPaths PROVE SettledFinal(G, Y, p)
    <3>1. SettledFinal(F, X, p)
      BY <2>1 DEF Settled
    <3> QED BY <1>5, <1>7, <3>1 DEF SettledFinal
  <2> QED BY <1>5, <2>1, <2>2, <2>3, <2>4, <2>5, SettledKeeps
<1>13. ASSUME ~Firm(F, X), Firm(G, Y) PROVE Settled(G, Y)
  <2>1. /\ \A p \in FinalPaths : In(F, p).what # "final"
        /\ ~Consumed(x) /\ ~Ready(r, x)
        /\ \A q \in Runs : ~Consumed(X[q]) /\ ~Ready(q, X[q])
    BY <1>13 DEF Firm
  <2>2. Ready(r, y)
    <3>1. ASSUME NEW q \in Runs, q # r PROVE ~Consumed(Y[q]) /\ ~Ready(q, Y[q])
      BY <2>1, <3>1 DEF Turn
    <3> QED BY <1>5, <1>10, <1>13, <2>1, <3>1 DEF Firm
  <2>3. x.pc = "first" /\ x.mode = "resume" /\ y.pc = "block"
    BY <1>2, <1>11, <2>1, <2>2
  <2>4. PICK p \in FinalPaths : Holds(r, x, p)
    BY <1>10, <2>2 DEF Ready
  <2>5. ~Compared(F)
    BY <2>1, PathsApart DEF Compared
  <2>6. Complete(x.samples)
    BY <2>2 DEF Ready
  <2>7. SettledRun(G, Y, r)
    BY <1>3, <2>3, <2>6 DEF SettledRun, Gathers
  <2>8. ASSUME NEW q \in Runs, q # r PROVE SettledRun(G, Y, q)
    <3>1. ~Loaded(X[q])
      BY <1>1, <2>1, <2>3, <2>4, <2>8, LoneResume
    <3>2. ~Writing(X[q]) /\ ~Mid(X[q]) /\ X[q].pc \notin Gathers
      BY <1>1, <2>8, <3>1, WritersAreLoaded, HoldersAre DEF Locals
    <3>3. ~(Moved(X[q], "partial") /\ F[Quarantine(q)].what = "partial")
      BY <1>1, <2>5, AsideIsCompared
    <3> QED BY <2>8, <3>2, <3>3 DEF SettledRun, Turn
  <2>9. \A q \in FinalPaths : SettledFinal(G, Y, q)
    BY <1>5, <2>1 DEF SettledFinal
  <2> QED BY <1>5, <2>6, <2>7, <2>8, <2>9 DEF Settled
<1> QED BY <1>8, <1>9, <1>12, <1>13 DEF Shared

(* The exchange is confirmed.                                               *)
LEMMA ConfirmShared ==
  ASSUME CampaignInv, CampaignInv', Shared(files, run, drifted), NEW r \in Runs,
         Confirm(r)
  PROVE  Shared(files', run', drifted')
<1> DEFINE x == run[r]
           y == run'[r]
           owned == /\ files[Stage(r)] = x.op.expected
                    /\ At("partial") = StagedOf(r, x, "partial")
<1>1. /\ x.op # NoOp /\ x.op.step = "confirm" /\ x.op.kind = "replace"
      /\ IF owned THEN Moves(r, Confirmed(r, x))
         ELSE Moves(r, StepTo(x, "back"))
      /\ Staged(r, "partial") = StagedOf(r, x, "partial")
  BY ConfirmMoves DEF CampaignInv, Confirm
<1>2. /\ x \in RunStates /\ LocalOK(r, x) /\ RunsOK
      /\ files \in [Places -> Files] /\ drifted' = drifted
  BY RunIs DEF CampaignInv, DiskOK, Confirm, Elsewhere
<1>3. Consistent(files', run') /\ Onward(files, files')
  BY ConfirmConsistent DEF Shared
<1>4. CASE ~owned
  <2>1. files' = files
    BY <1>1, <1>4 DEF Confirm
  <2>2. Turn(files, files, run, run', r) /\ y = StepTo(x, "back")
    BY <1>1, <1>4, <2>1, QuietTurn
  <2> QED BY <1>1, <1>2, <1>3, <2>1, <2>2, BackingShared
<1>5. CASE owned
  <2>1. Sets(files, files', Stage(r), None)
    BY <1>1, <1>5 DEF Confirm, Sets
  <2>2. /\ \A p \in Paths : In(files', p) = In(files, p)
        /\ Apart(files, files', r, "partial")
    BY <1>2, <2>1, AsideAloneIs
  <2>3. Turn(files, files', run, run', r) /\ y = Confirmed(r, x)
    BY <1>1, <1>5, <2>2, ApartTurn
  <2>4. /\ \/ x.pc = "first" /\ y.pc = "block"
           \/ x.pc = "call" /\ y.pc \in {"next", "verify"}
           \/ x.pc = "fail" /\ y.pc = "close"
        /\ y.op = NoOp /\ y.own = StagedOf(r, x, "partial")
        /\ y.targets = x.targets
        /\ y.pc # "close" => y.samples = x.samples
    <3> HIDE DEF y
    <3> QED BY <1>1, <1>2, <2>3, ConfirmedOK
  <2>5. y.own.what = "partial" /\ y.own.data = x.samples
    BY <2>4 DEF StagedOf, File
  <2>6. In(files, "partial") = y.own
    BY <1>5, <2>4 DEF In, At
  <2>7. CASE x.pc = "fail" /\ y.pc = "close"
    <3>1. y.pc \notin Act /\ ~Mid(y) /\ ~Loaded(y) /\ ~Moved(y, "partial")
      BY <2>4, <2>7 DEF Act, Mid, Loaded, Moved, NoOp
    <3>2. Fades(files, r, x, y, drifted)
      BY <3>1, OutFades
    <3>3. /\ In(files', "partial") = In(files, "partial")
          /\ \A p \in FinalPaths : In(files', p) = In(files, p)
      BY <2>2, PathsApart
    <3>4. Calm(files, files', r, x, y)
      BY <1>3, <3>1, <3>3 DEF Calm
    <3> QED BY <1>2, <1>3, <2>3, <3>2, <3>3, <3>4, FadingShared
  <2>8. CASE \/ x.pc = "first" /\ y.pc = "block"
             \/ x.pc = "call" /\ y.pc \in {"next", "verify"}
    <3>1. y.samples = x.samples
      BY <2>4, <2>8
    <3> HIDE DEF x, y
    <3>2. x = run[r] /\ y = run'[r]
      BY DEF x, y
    <3> QED BY <1>1, <1>2, <1>3, <2>2, <2>3, <2>4, <2>5, <2>6, <2>8, <3>1,
               <3>2, ConfirmingShared
  <2> QED BY <2>4, <2>7, <2>8
<1> QED BY <1>4, <1>5

(* The exchange is undone.                                                  *)
LEMMA BackShared ==
  ASSUME CampaignInv, CampaignInv', Shared(files, run, drifted), NEW r \in Runs,
         ExchangeBack(r)
  PROVE  Shared(files', run', drifted')
<1> DEFINE x == run[r]
           y == run'[r]
           o == x.op.otherwise
           back == IF At("partial") = None THEN None ELSE files[Stage(r)]
<1>1. /\ x.op # NoOp /\ x.op.step = "back" /\ x.op.kind = "replace"
      /\ Moves(r, LeftOf(x, o))
  BY BackMoves DEF CampaignInv, ExchangeBack
<1>2. /\ x \in RunStates /\ LocalOK(r, x) /\ RunsOK
      /\ files \in [Places -> Files] /\ drifted' = drifted
  BY RunIs DEF CampaignInv, DiskOK, ExchangeBack, Elsewhere
<1>3. /\ Consistent(files', run') /\ Onward(files, files')
      /\ Locals(run) /\ Consistent(files, run) /\ Alone(files, run)
  BY BackConsistent, RunIs DEF Shared, Locals, CampaignInv
<1>4. /\ Writing(x) /\ x.pc \in {"first", "call", "fail"}
      /\ o \in {"fail", "close"} /\ Mid(x)
      /\ o = "fail" => x.pc = "call"
  BY <1>1, <1>2, WritersAreLoaded DEF Mid
<1>5. PutsAside(files, files', "partial", back, Stage(r), None)
  BY DEF ExchangeBack, PutsAside
<1>6. In(files', "partial") = back /\ Apart(files, files', r, "partial")
  <2>1. "partial" \in Paths
    BY PathsApart
  <2> HIDE DEF back
  <2> QED BY <1>2, <1>5, <2>1, PutAsideIs
<1>7. \A p \in FinalPaths : In(files', p) = In(files, p)
  BY <1>6, PathsApart DEF Apart
<1>8. Turn(files, files', run, run', r) /\ y = LeftOf(x, o)
  BY <1>1, <1>6, ApartTurn
<1> HIDE DEF y
<1>9. /\ y.pc = o /\ y.op = NoOp /\ y.targets = x.targets
      /\ o = "fail" => y.own = x.own /\ y.samples = x.samples
  BY <1>2, <1>4, <1>8, LeftIs
<1>10. ~Mid(y) /\ ~Moved(y, "partial")
  BY <1>9 DEF Mid, Moved, NoOp
<1>11. Started(files') => StageIs(files, r, x, In(files', "partial").data)
                          /\ ~Ready(r, x)
  <2>1. None.what = "none"
    BY DEF None, File
  <2> QED BY <1>1, <1>4, <1>6, <2>1 DEF Started, StageIs, Ready
<1>12. Calm(files, files', r, x, y)
  BY <1>3, <1>7, <1>10, <1>11 DEF Calm
<1>13. Fades(files, r, x, y, drifted)
  <2>1. CASE o = "close"
    <3>1. y.pc \notin Act /\ ~Loaded(y)
      BY <1>9, <2>1 DEF Act, Loaded
    <3> QED BY <1>10, <3>1, OutFades
  <2>2. CASE o = "fail"
    <3>1. x.pc \in Act /\ y.pc = "fail"
      BY <1>4, <1>9, <2>2 DEF Act
    <3>2. ~Undone(y) /\ ~Ready(r, y) /\ y.pc \notin Gathers
      BY <3>1 DEF Undone, Ready, Gathers
    <3> QED BY <1>4, <1>9, <1>10, <2>2, <3>1, <3>2, OnFades
  <2> QED BY <1>4, <2>1, <2>2
<1>14. \A w \in Runs : ~Undone(run[w])
  <2>1. ~Undone(x)
    BY <1>1 DEF Undone
  <2>2. ASSUME NEW w \in Runs, w # r PROVE ~Undone(run[w])
    BY <1>3, <1>4, <2>2, UndoneAlone
  <2> QED BY <2>1, <2>2
<1>15. y = run'[r]
  BY DEF y
<1> QED BY <1>2, <1>3, <1>8, <1>12, <1>13, <1>14, <1>15, FadingShared DEF Shared

(* A step that only taints the calls that run, and that takes no restored   *)
(* run its drift.                                                           *)
LEMMA TaintShared ==
  ASSUME NEW F, NEW X, NEW Y, NEW d, NEW e, Shared(F, X, d), Consistent(F, Y),
         \A r \in Runs : SameButClean(X[r], Y[r]),
         \A r \in Runs : Writing(X[r]) /\ Restored(d, r, X[r]) =>
                            Restored(e, r, X[r])
  PROVE  Shared(F, Y, e)
<1>1. ASSUME NEW r \in Runs
      PROVE  /\ \A D : Knows(F, r, Y[r], D) <=> Knows(F, r, X[r], D)
             /\ \A D : Agrees(d, r, X[r], D) => Agrees(e, r, Y[r], D)
             /\ Undone(Y[r]) => Undone(X[r])
             /\ Consumed(Y[r]) <=> Consumed(X[r])
             /\ Ready(r, Y[r]) <=> Ready(r, X[r])
             /\ Y[r].own = X[r].own /\ Y[r].samples = X[r].samples
             /\ Loaded(Y[r]) => Loaded(X[r])
  <2> DEFINE x == X[r]
             y == Y[r]
  <2>1. /\ y.pc = x.pc /\ y.op = x.op /\ y.own = x.own /\ y.mode = x.mode
        /\ y.targets = x.targets /\ y.samples = x.samples
    BY DEF SameButClean
  <2>2. Writing(x) /\ Restored(d, r, x) => Restored(e, r, x)
    OBVIOUS
  <2> HIDE DEF x, y
  <2>3. /\ Loaded(y) <=> Loaded(x)
        /\ Mid(y) <=> Mid(x)
        /\ Moved(y, "partial") <=> Moved(x, "partial")
        /\ Writing(y) <=> Writing(x)
        /\ Undone(y) => Undone(x)
    BY <2>1 DEF Loaded, Mid, Moved, Writing, Undone
  <2>4. \A p : Holds(r, y, p) <=> Holds(r, x, p)
    BY <2>1 DEF Holds
  <2>5. Sole(r, y) <=> Sole(r, x)
    BY <2>1, <2>4 DEF Sole
  <2>6. /\ Consumed(y) <=> Consumed(x)
        /\ Ready(r, y) <=> Ready(r, x)
        /\ Restored(e, r, y) <=> Restored(e, r, x)
    BY <2>1, <2>4, <2>5 DEF Consumed, Ready, Restored
  <2>7. \A D : Knows(F, r, y, D) <=> Knows(F, r, x, D)
    BY <2>1, <2>3 DEF Knows, StageIs, AsideIs
  <2>8. \A D : Agrees(d, r, x, D) => Agrees(e, r, y, D)
    BY <2>1, <2>2, <2>3, <2>6 DEF Agrees
  <2> QED BY <2>1, <2>3, <2>6, <2>7, <2>8 DEF x, y
<1>2. \A D : Full(F, Y, D) <=> Full(F, X, D)
  BY <1>1 DEF Full, Val
<1>3. OneValue(F, Y, e)
  BY <1>1, <1>2 DEF Shared, OneValue
<1>4. Alone(F, Y)
  BY <1>1 DEF Shared, Alone
<1>5. Firm(F, Y) => Firm(F, X)
  BY <1>1 DEF Firm
<1>6. ASSUME Settled(F, X) PROVE Settled(F, Y)
  <2>1. ASSUME NEW r \in Runs PROVE SettledRun(F, Y, r)
    <3> DEFINE x == X[r]
               y == Y[r]
    <3>1. SettledRun(F, X, r)
      BY <1>6 DEF Settled
    <3>2. /\ y.pc = x.pc /\ y.op = x.op /\ y.mode = x.mode
          /\ y.samples = x.samples
      BY DEF SameButClean
    <3>3. /\ \A q \in Runs : Ready(q, Y[q]) <=> Ready(q, X[q])
          /\ \A q \in Runs : Consumed(Y[q]) <=> Consumed(X[q])
      BY <1>1
    <3>4. /\ Mid(y) <=> Mid(x)
          /\ Moved(y, "partial") <=> Moved(x, "partial")
          /\ Writing(y) <=> Writing(x)
      BY <3>2 DEF Mid, Moved, Writing
    <3> QED BY <3>1, <3>2, <3>3, <3>4 DEF SettledRun
  <2>2. ASSUME NEW p \in FinalPaths PROVE SettledFinal(F, Y, p)
    <3>1. SettledFinal(F, X, p)
      BY <1>6 DEF Settled
    <3> QED BY <1>2, <3>1 DEF SettledFinal
  <2> QED BY <1>6, <2>1, <2>2 DEF Settled
<1> QED BY <1>3, <1>4, <1>5, <1>6 DEF Shared

(* A frozen input changes.                                                  *)
LEMMA DriftShared ==
  ASSUME CampaignInv, CampaignInv', Shared(files, run, drifted),
         NEW input \in {"bundle", "closure"}, Drift(input)
  PROVE  Shared(files', run', drifted')
<1>1. files' = files /\ \A r \in Runs : SameButClean(run[r], run'[r])
  BY DriftMoves DEF CampaignInv, Drift
<1>2. drifted' = drifted \cup {input}
  BY DEF Drift
<1>3. Consistent(files', run')
  BY DriftConsistent DEF Shared
<1>4. \A r \in Runs : Restored(drifted, r, run[r]) =>
                         Restored(drifted', r, run[r])
  BY <1>2 DEF Restored
<1> QED BY <1>1, <1>3, <1>4, TaintShared

(* The frozen inputs are put back.                                          *)
LEMMA RepairShared ==
  ASSUME CampaignInv, Shared(files, run, drifted), Repair
  PROVE  Shared(files', run', drifted')
<1>1. run' = run /\ files' = files /\ \A r \in Runs : ~Alive(r)
  BY DEF Repair
<1>2. ASSUME NEW r \in Runs PROVE ~Writing(run[r])
  <2>1. run[r].pc \in {"idle", "done", "dead"}
    BY <1>1 DEF Alive
  <2> QED BY <2>1 DEF Writing, Act
<1>3. \A r \in Runs : SameButClean(run[r], run'[r])
  BY <1>1 DEF SameButClean
<1>4. Consistent(files', run')
  BY <1>1 DEF Shared
<1> QED BY <1>1, <1>2, <1>3, <1>4, TaintShared

(* It holds when nothing has begun.                                         *)
LEMMA InitShared == Init => Shared(files, run, drifted)
<1> SUFFICES ASSUME Init PROVE Shared(files, run, drifted)
  OBVIOUS
<1>1. /\ \A r \in Runs : run[r] = NewRun
      /\ \A pl \in Places : files[pl] = None
      /\ \A p \in Paths : In(files, p) = None
  BY PlacesAre DEF Init, In
<1>2. None.what = "none" /\ \A w : "none" \in KindsAt(w)
  BY DEF None, File, KindsAt
<1>3. ~Started(files) /\ ~Compared(files)
      /\ \A p \in FinalPaths : In(files, p).what # "final"
  BY <1>1, <1>2, PathsApart DEF Started, Compared
<1>4. ASSUME NEW r \in Runs
      PROVE  /\ StepsOK(run[r]) /\ Guarded(files, r, run[r])
             /\ KindOK(files, r, run[r])
             /\ ~Loaded(run[r]) /\ ~Mid(run[r]) /\ ~Writing(run[r])
             /\ ~Moved(run[r], "partial") /\ ~Undone(run[r])
             /\ ~Consumed(run[r]) /\ ~Ready(r, run[r])
  <2> DEFINE x == run[r]
  <2>1. /\ x.pc = "idle" /\ x.mode = "none" /\ x.op = NoOp
        /\ x.targets = [o \in Outputs |-> Unreserved]
    BY <1>1 DEF NewRun
  <2>2. x \in RunStates /\ LocalOK(r, x)
    BY InitHolds, RunIs DEF CampaignInv
  <2> HIDE DEF x
  <2>3. \A p \in Outputs : ~Holds(r, x, p)
    BY <2>1, <2>2, BlankIs
  <2>4. /\ ~Loaded(x) /\ ~Mid(x) /\ ~Writing(x) /\ ~Moved(x, "partial")
        /\ ~Undone(x) /\ ~Consumed(x) /\ ~Ready(r, x)
    BY <2>1 DEF Loaded, Mid, Writing, Moved, Undone, Consumed, Ready, NoOp,
                Act, Gathers
  <2>5. StepsOK(x) /\ KindOK(files, r, x)
    BY <2>1, <2>4 DEF StepsOK, KindOK, NoOp, Gathers
  <2>6. Guarded(files, r, x)
    BY <2>1, <2>3, PathsApart
    DEF Guarded, HoldsPaths, HoldsLock, Expects, NoOp, Claims, Act
  <2> QED BY <2>4, <2>5, <2>6 DEF x
<1>5. KindsOK(files)
  BY <1>1, <1>2 DEF KindsOK
<1>6. \A D : ~Full(files, run, D)
  BY <1>3, <1>4 DEF Full, Val, Knows, StageIs, AsideIs
<1> QED BY <1>3, <1>4, <1>5, <1>6
        DEF Shared, Consistent, OneValue, Alone, Firm

(* Every step of the program keeps it.                                      *)
LEMMA CommandShared ==
  ASSUME CampaignInv, CampaignInv', Shared(files, run, drifted),
         NEW r \in Runs, commandAB(r)
  PROVE  Shared(files', run', drifted')
<1>1. CASE acquireABResumeLock(r) \/ openABResume(r) \/ reserveABOutputs(r)
           \/ FirstCheckpoint(r)
  BY <1>1, LockShared, LoadShared, ReserveShared, FirstShared
<1>2. CASE BeginBlock(r) \/ BeginSample(r) \/ EndSample(r) \/ VerifyBlock(r)
  BY <1>2, BlockShared, BeginSampleShared, EndSampleShared, VerifyShared
<1>3. CASE finalizeFailure(r) \/ Finish(r) \/ PublishOrReuse(r)
           \/ RollbackPublished(r)
  BY <1>3, FailureShared, FinishShared, PublishShared, RollbackShared
<1>4. CASE RemoveAfterSuccess(r) \/ CloseReservations(r) \/ CloseResume(r)
  BY <1>4, RetireShared, CloseShared, UnlockShared
<1> QED BY <1>1, <1>2, <1>3, <1>4 DEF commandAB

(* Every step on files keeps it.                                            *)
LEMMA FileStepShared ==
  ASSUME CampaignInv, CampaignInv', Shared(files, run, drifted),
         NEW r \in Runs, FileStep(r)
  PROVE  Shared(files', run', drifted')
<1>1. CASE Check(r) \/ Rename(r) \/ Settle(r) \/ Link(r)
  BY <1>1, CheckShared, RenameShared, SettleShared, LinkShared
<1>2. CASE Exchange(r) \/ Confirm(r) \/ ExchangeBack(r)
  BY <1>2, ExchangeShared, ConfirmShared, BackShared
<1> QED BY <1>1, <1>2 DEF FileStep

(* Every step of a campaign that nobody else touches keeps it.              *)
LEMMA StepShared ==
  ASSUME CampaignInv, CampaignInv', Shared(files, run, drifted), [Next]_vars,
         ~touched'
  PROVE  Shared(files', run', drifted')
<1>1. ASSUME NEW r \in Runs,
             \/ \E mode \in {"fresh", "resume"} : Begin(r, mode)
             \/ commandAB(r) \/ FileStep(r) \/ Crash(r)
      PROVE  Shared(files', run', drifted')
  BY <1>1, BeginShared, CommandShared, FileStepShared, CrashShared
<1>2. ASSUME NEW p \in Paths, UserWrites(p) PROVE FALSE
  BY <1>2 DEF UserWrites
<1>3. ASSUME NEW p \in Paths, Tidy(p) PROVE Shared(files', run', drifted')
  BY <1>3, TidyShared
<1>4. ASSUME NEW input \in {"bundle", "closure"}, Drift(input)
      PROVE  Shared(files', run', drifted')
  BY <1>4, DriftShared
<1>5. CASE Repair
  BY <1>5, RepairShared
<1>6. CASE UNCHANGED vars
  BY <1>6 DEF vars
<1> QED BY <1>1, <1>2, <1>3, <1>4, <1>5, <1>6 DEF Next, World

(* What somebody else has touched stays touched.                            *)
LEMMA TouchStays == CampaignInv /\ [Next]_vars /\ touched => touched'
<1> SUFFICES ASSUME CampaignInv, [Next]_vars PROVE touched => touched'
  OBVIOUS
<1>1. ASSUME NEW r \in Runs,
             \/ \E mode \in {"fresh", "resume"} : Begin(r, mode)
             \/ commandAB(r) \/ FileStep(r) \/ Crash(r)
      PROVE  touched' = touched
  BY <1>1
  DEF Begin, commandAB, FileStep, Crash, acquireABResumeLock, openABResume,
      reserveABOutputs, FirstCheckpoint, BeginBlock, BeginSample, EndSample,
      VerifyBlock, finalizeFailure, Finish, PublishOrReuse,
      RollbackPublished, RemoveAfterSuccess, CloseReservations, CloseResume,
      Check, Rename, Settle, Link, Exchange, Confirm, ExchangeBack, Quiet,
      Elsewhere, Fine
<1>2. ASSUME NEW p \in Paths, UserWrites(p) \/ Tidy(p)
      PROVE  touched => touched'
  BY <1>2 DEF UserWrites, Tidy
<1>3. ASSUME NEW input \in {"bundle", "closure"}, Drift(input)
      PROVE  touched' = touched
  BY <1>3 DEF Drift
<1>4. CASE Repair \/ UNCHANGED vars
  BY <1>4 DEF Repair, vars
<1> QED BY <1>1, <1>2, <1>3, <1>4 DEF Next, World

(* Every step keeps the invariant.                                          *)
LEMMA SharedKeeps == SharedInv /\ [Next]_vars => SharedInv'
<1> SUFFICES ASSUME SharedInv, [Next]_vars PROVE SharedInv'
  OBVIOUS
<1>1. CampaignInv /\ CampaignInv'
  BY InvKeeps DEF SharedInv
<1>2. ASSUME ~touched' PROVE Shared(files', run', drifted')
  <2>1. ~touched
    BY <1>1, <1>2, TouchStays
  <2> QED BY <1>1, <1>2, <2>1, StepShared DEF SharedInv
<1>3. Shared(files', run', drifted') <=> Shared(files, run, drifted)'
  OBVIOUS
<1> QED BY <1>1, <1>2, <1>3 DEF SharedInv

(* The comparison is of the two finals beside it.                           *)
LEMMA SharedGivesAgreement ==
  ASSUME SharedInv, ~touched, At("comparison").what = "final",
         At("control").what = "final", At("candidate").what = "final"
  PROVE  At("comparison").data = At("control").data \cup At("candidate").data
<1> DEFINE all == At("comparison").data
<1>1. /\ In(files, "comparison").what = "final"
      /\ In(files, "control").what = "final"
      /\ In(files, "candidate").what = "final"
      /\ In(files, "comparison").data = all
  BY DEF In, At
<1>2. Settled(files, run) /\ Compared(files)
  <2>1. Firm(files, run)
    BY <1>1, PathsApart DEF Firm
  <2> QED BY <1>1, <2>1 DEF SharedInv, Shared, Compared
<1>3. /\ At("control").data = Part(all, "control")
      /\ At("candidate").data = Part(all, "candidate")
  <2>1. SettledFinal(files, run, "control")
        /\ SettledFinal(files, run, "candidate")
    BY <1>2, PathsApart DEF Settled
  <2> QED BY <1>1, <1>2, <2>1 DEF SettledFinal, In, At
<1>4. all \in SUBSET Samples
  <2>1. "comparison" \in Paths /\ <<"comparison", 0>> \in Places
    BY PathsApart, PlacesAre
  <2>2. At("comparison") \in Files
    BY <2>1 DEF SharedInv, CampaignInv, DiskOK, At
  <2> QED BY <2>2 DEF Files
<1>5. \A s \in all : s[1][2] \in {"control", "candidate"}
  BY <1>4 DEF Samples, Coordinates, Arms
<1> HIDE DEF all
<1>6. all = Part(all, "control") \cup Part(all, "candidate")
  BY <1>5 DEF Part
<1> QED BY <1>3, <1>6 DEF all

(* The invariant gives what a campaign keeps.                               *)
LEMMA SharedGives == SharedInv => CampaignKept
<1> SUFFICES ASSUME SharedInv PROVE CampaignKept
  OBVIOUS
<1>1. CampaignInv
  BY DEF SharedInv
<1>2. FinalsAreWhole
  BY <1>1, InvGivesWholeFinals DEF FinalsAreWhole
<1> QED BY <1>1, <1>2, InvGives, SharedGivesAgreement
        DEF CampaignKept, FinalsAgree

(* And it holds initially.                                                  *)
LEMMA InitHasShared == Init => SharedInv
BY InitHolds, InitShared DEF SharedInv

(* For every plan and any number of runs, deaths, drifts and files of       *)
(* others: no file of somebody else is lost, every published final is whole,*)
(* and, unless somebody else changed a file of the campaign, the comparison *)
(* holds exactly the samples of the two finals beside it, whichever runs    *)
(* published the three.                                                     *)
THEOREM CampaignIsKept == Spec => []CampaignKept
BY InitHasShared, SharedKeeps, SharedGives, PTL DEF Spec

(* The model is called by no other step.                                    *)
LEMMA OnlyCallsPay ==
  ASSUME CampaignInv, [Next]_vars, paid' # paid
  PROVE  \E r \in Runs : BeginSample(r)
<1>1. ASSUME NEW r \in Runs, ~BeginSample(r),
             \/ \E mode \in {"fresh", "resume"} : Begin(r, mode)
             \/ commandAB(r) \/ FileStep(r) \/ Crash(r)
      PROVE  paid' = paid
  BY <1>1
  DEF Begin, commandAB, FileStep, Crash, acquireABResumeLock, openABResume,
      reserveABOutputs, FirstCheckpoint, BeginBlock, EndSample, VerifyBlock,
      finalizeFailure, Finish, PublishOrReuse, RollbackPublished,
      RemoveAfterSuccess, CloseReservations, CloseResume, Check, Rename,
      Settle, Link, Exchange, Confirm, ExchangeBack, Quiet, Elsewhere
<1>2. ASSUME NEW p \in Paths, UserWrites(p) \/ Tidy(p) PROVE paid' = paid
  BY <1>2 DEF UserWrites, Tidy
<1>3. ASSUME NEW input \in {"bundle", "closure"}, Drift(input)
      PROVE  paid' = paid
  BY <1>3 DEF Drift
<1>4. CASE Repair \/ UNCHANGED vars
  BY <1>4 DEF Repair, vars
<1> QED BY <1>1, <1>2, <1>3, <1>4 DEF Next, World

(* A call is for a coordinate that the partial has no sample of.            *)
LEMMA PaysOnce ==
  ASSUME SharedInv, [Next]_vars, ~touched, NEW c \in Coordinates,
         paid'[c] > paid[c]
  PROVE  c \notin CoordinatesOf(At("partial").data)
<1>0. CampaignInv /\ paid \in [Coordinates -> Nat]
  BY DEF SharedInv, CampaignInv, PaidOK
<1>1. paid' # paid
  BY <1>0
<1>2. PICK r \in Runs : BeginSample(r)
  BY <1>0, <1>1, OnlyCallsPay
<1> DEFINE x == run[r]
           n == NextCoordinate(x.samples, x.block)
<1>3. /\ x.pc = "next" /\ x.op = NoOp /\ x.block \in DOMAIN Blocks
      /\ ~abBlockComplete(x.samples, x.block)
      /\ paid' = [paid EXCEPT ![n] = @ + 1]
  <2>1. RunsOK
    BY <1>0 DEF CampaignInv
  <2> QED BY <1>1, <1>2, <2>1, BeginSampleMoves
<1>4. n = c
  BY <1>0, <1>3
<1>5. x \in RunStates /\ LocalOK(r, x) /\ x.samples \in SUBSET Samples
  <2>1. x \in RunStates /\ LocalOK(r, x)
    BY <1>0, RunIs DEF CampaignInv
  <2> QED BY <2>1 DEF RunStates
<1>6. c \notin CoordinatesOf(x.samples) /\ ~Complete(x.samples)
  BY <1>3, <1>4, <1>5, PopulationIs
<1>7. Shared(files, run, drifted) /\ StepsOK(x)
  BY DEF SharedInv, Shared, Consistent
<1>8. x.own.data = x.samples
  BY <1>3, <1>7 DEF StepsOK
<1>9. Undone(x)
  BY <1>3, <1>6, <1>8 DEF Undone, Gathers, NoOp
<1>10. At("partial") = x.own
  BY <1>7, <1>9 DEF Shared, Alone, In, At
<1> QED BY <1>6, <1>8, <1>10

(* For every plan and any number of runs, deaths and drifts: as long as     *)
(* nobody else has changed a file of the campaign, the model is never called*)
(* for a coordinate whose sample the partial already holds.                 *)
THEOREM CampaignPaysOnce == Spec => PaidOnce
<1>1. SharedInv /\ [Next]_vars =>
        [\A c \in Coordinates :
            paid'[c] > paid[c] =>
                touched \/ c \notin CoordinatesOf(At("partial").data)]_vars
  BY PaysOnce
<1> QED BY <1>1, InitHasShared, SharedKeeps, PTL DEF Spec, PaidOnce

-----------------------------------------------------------------------------
(* What becomes of the samples on disk *)

(* The partial that run r writes with samples S; a population that a file   *)
(* under a private name keeps; a partial that lacks samples.                *)
Draft(r, S) == File(r, "partial", S)
Saved(H, D) == \E f \in H : f.data = D
Torn(F) == Started(F) /\ ~Complete(In(F, "partial").data)

(* A run finds what it wrote last: at the partial, or there and in its stage*)
(* what it exchanged for it.                                                *)
Swapped(F, r, x) == /\ x.op.step = "confirm" /\ F[Stage(r)] = x.own
                    /\ In(F, "partial") = Draft(r, x.samples)
Current(F, r, x) == IF Mid(x) THEN Swapped(F, r, x)
                    ELSE In(F, "partial") = x.own

(* A run that has exchanged an incomplete partial for its complete one.     *)
Pending(F, r, x) == /\ Mid(x) /\ Complete(x.samples)
                    /\ F[Stage(r)].what = "partial"
                    /\ ~Complete(F[Stage(r)].data)

(* A run only adds to what it owns; with the last sample it still holds     *)
(* every final.                                                             *)
OwnOK(r, x) ==
    Loaded(x) => /\ x.own.data \subseteq x.samples
                 /\ Complete(x.samples) /\ ~Complete(x.own.data) => Sole(r, x)

(* A run with samples to gather finds what it wrote last.                   *)
OpenOK(F, r, x) == Writing(x) /\ ~Complete(x.samples) => Current(F, r, x)

(* When the partial lacks samples, a complete population that a run knows   *)
(* is kept under a private name, unless the run has yet to write it.        *)
TornOK(F, H, r, x) ==
    Loaded(x) /\ Complete(x.samples) /\ Torn(F) =>
        Saved(H, x.samples) \/ (~Mid(x) /\ In(F, "partial") = x.own)

(* Before a run may take its complete partial back, another one has kept it:*)
(* nobody gives the partial back to it.                                     *)
PendingOK(F, H, X, r) ==
    Pending(F, r, X[r]) =>
        \/ Saved(H, X[r].samples)
        \/ /\ F[Stage(r)] = X[r].own
           /\ In(F, "partial") = Draft(r, X[r].samples) =>
                 X[r].op.step = "confirm"
           /\ \A q \in Runs : q # r /\ Loaded(X[q]) /\ Complete(X[q].samples)
                 => Current(F, q, X[q])

(* One run at most has loaded the partial, and one has begun it.            *)
ModesOK(X) == \A r, q \in Runs :
    r # q /\ Loaded(X[r]) /\ Loaded(X[q]) => X[r].mode # X[q].mode

(* What is known of the samples on disk while no bundle has drifted.        *)
Traced(F, H, X) ==
    /\ ModesOK(X)
    /\ \A r \in Runs : /\ OwnOK(r, X[r]) /\ OpenOK(F, r, X[r])
                       /\ TornOK(F, H, r, X[r]) /\ PendingOK(F, H, X, r)

(* Locks and placeholders hold no sample.                                   *)
Blank(f) == f.what \in {"lock", "placeholder"} => f.data = {}
Blanks(F) == \A pl \in Places : Blank(F[pl])

TracedInv ==
    /\ SharedInv /\ Blanks(files)
    /\ ~touched /\ "bundle" \notin drifted => Traced(files, hidden, run)

(* A run that goes on with the partial it owns, or gives it up.             *)
Goes(r, x, y) ==
    /\ Loaded(y) =>
          /\ Loaded(x) /\ y.own = x.own /\ y.samples = x.samples
          /\ y.mode = x.mode /\ (Mid(y) <=> Mid(x))
          /\ Sole(r, x) => Sole(r, y) \/ Complete(y.own.data)
    /\ Writing(y) => Writing(x)
    /\ Mid(y) => y.op.step = x.op.step
Follows(F, G, r, x, y) == /\ Goes(r, x, y)
                          /\ Mid(y) => G[Stage(r)] = F[Stage(r)]

(* Nobody relies on the partial, and what there is now is whole.            *)
Cleared(F, G, H, X) ==
    /\ ~Torn(G)
    /\ \A r \in Runs :
          /\ Writing(X[r]) => Complete(X[r].samples)
          /\ Pending(F, r, X[r]) => Saved(H, X[r].samples)

(* Runs that go on with what they own keep the samples traced.              *)
LEMMA FollowingTraced ==
  ASSUME NEW F, NEW G, NEW H, NEW K, NEW X, NEW Y, H \subseteq K, Locals(Y),
         Traced(F, H, X), \A q \in Runs : Follows(F, G, q, X[q], Y[q]),
         In(G, "partial") = In(F, "partial") \/ Cleared(F, G, H, X)
  PROVE  Traced(G, K, Y)
<1>1. \A D : Saved(H, D) => Saved(K, D)
  BY DEF Saved
<1>2. \A q \in Runs : /\ Goes(q, X[q], Y[q])
                      /\ Mid(Y[q]) => G[Stage(q)] = F[Stage(q)]
  BY DEF Follows
<1>3. \A q \in Runs : /\ Writing(Y[q]) => Loaded(Y[q])
                      /\ Mid(Y[q]) => Writing(Y[q])
  BY WritersAreLoaded DEF Locals
<1>4. ModesOK(Y)
  BY <1>2 DEF ModesOK, Traced, Goes
<1>5. ASSUME NEW r \in Runs
      PROVE  /\ OwnOK(r, Y[r]) /\ OpenOK(G, r, Y[r]) /\ TornOK(G, K, r, Y[r])
             /\ PendingOK(G, K, Y, r)
  <2> DEFINE x == X[r]
             y == Y[r]
  <2>1. /\ OwnOK(r, x) /\ OpenOK(F, r, x) /\ TornOK(F, H, r, x)
        /\ PendingOK(F, H, X, r)
    BY DEF Traced
  <2>2. Goes(r, x, y) /\ (Mid(y) => G[Stage(r)] = F[Stage(r)])
    BY <1>2
  <2>3. OwnOK(r, y)
    BY <2>1, <2>2 DEF OwnOK, Goes
  <2>4. ASSUME NEW q \in Runs, Loaded(Y[q]), Current(F, q, X[q]),
               In(G, "partial") = In(F, "partial")
        PROVE  Current(G, q, Y[q])
    <3>1. /\ Y[q].own = X[q].own /\ Y[q].samples = X[q].samples
          /\ Mid(Y[q]) <=> Mid(X[q])
          /\ Mid(Y[q]) => /\ Y[q].op.step = X[q].op.step
                          /\ G[Stage(q)] = F[Stage(q)]
      BY <1>2, <2>4 DEF Goes
    <3> QED BY <2>4, <3>1 DEF Current, Swapped
  <2>5. OpenOK(G, r, y)
    <3>1. SUFFICES ASSUME Writing(y), ~Complete(y.samples)
                   PROVE  Current(G, r, y)
      BY DEF OpenOK
    <3>2. Loaded(y) /\ Writing(x) /\ ~Complete(x.samples)
      BY <1>3, <2>2, <3>1 DEF Goes
    <3>3. Current(F, r, x)
      BY <2>1, <3>2 DEF OpenOK
    <3>4. In(G, "partial") = In(F, "partial")
      BY <3>2 DEF Cleared
    <3> QED BY <2>4, <3>2, <3>3, <3>4
  <2>6. TornOK(G, K, r, y)
    <3>1. SUFFICES ASSUME Loaded(y), Complete(y.samples), Torn(G)
                   PROVE  \/ Saved(K, y.samples)
                          \/ ~Mid(y) /\ In(G, "partial") = y.own
      BY DEF TornOK
    <3>2. In(G, "partial") = In(F, "partial") /\ Torn(F)
      BY <3>1 DEF Cleared, Torn, Started
    <3>3. /\ Loaded(x) /\ y.own = x.own /\ y.samples = x.samples
          /\ Mid(y) <=> Mid(x)
      BY <2>2, <3>1 DEF Goes
    <3>4. Saved(H, x.samples) \/ (~Mid(x) /\ In(F, "partial") = x.own)
      BY <2>1, <3>1, <3>2, <3>3 DEF TornOK
    <3> QED BY <1>1, <3>2, <3>3, <3>4
  <2>7. PendingOK(G, K, Y, r)
    <3>1. SUFFICES ASSUME Pending(G, r, y), ~Saved(K, y.samples)
                   PROVE  /\ G[Stage(r)] = y.own
                          /\ In(G, "partial") = Draft(r, y.samples) =>
                                y.op.step = "confirm"
                          /\ \A q \in Runs : q # r /\ Loaded(Y[q])
                               /\ Complete(Y[q].samples) => Current(G, q, Y[q])
      BY DEF PendingOK
    <3>2. /\ Mid(y) /\ Loaded(y) /\ Mid(x) /\ y.own = x.own
          /\ y.samples = x.samples /\ y.op.step = x.op.step
          /\ G[Stage(r)] = F[Stage(r)]
      BY <1>3, <2>2, <3>1 DEF Pending, Goes
    <3>3. Pending(F, r, x) /\ ~Saved(H, x.samples)
      BY <1>1, <3>1, <3>2 DEF Pending
    <3>4. In(G, "partial") = In(F, "partial")
      BY <3>3 DEF Cleared
    <3>5. /\ F[Stage(r)] = x.own
          /\ In(F, "partial") = Draft(r, x.samples) => x.op.step = "confirm"
          /\ \A q \in Runs : q # r /\ Loaded(X[q]) /\ Complete(X[q].samples)
               => Current(F, q, X[q])
      BY <2>1, <3>3 DEF PendingOK
    <3>6. ASSUME NEW q \in Runs, q # r, Loaded(Y[q]), Complete(Y[q].samples)
          PROVE  Current(G, q, Y[q])
      <4>1. Loaded(X[q]) /\ Complete(X[q].samples)
        BY <1>2, <3>6 DEF Goes
      <4> QED BY <2>4, <3>4, <3>5, <3>6, <4>1
    <3> QED BY <3>2, <3>4, <3>5, <3>6
  <2> QED BY <2>3, <2>5, <2>6, <2>7
<1> QED BY <1>4, <1>5 DEF Traced

(* A step of one run that goes on with what it owns.                        *)
LEMMA TurnTraced ==
  ASSUME NEW F, NEW G, NEW H, NEW K, NEW X, NEW Y, NEW r \in Runs,
         H \subseteq K, Turn(F, G, X, Y, r), Traced(F, H, X),
         Follows(F, G, r, X[r], Y[r]),
         In(G, "partial") = In(F, "partial") \/ Cleared(F, G, H, X)
  PROVE  Traced(G, K, Y)
<1>1. Locals(Y)
  BY DEF Turn, Locals
<1>2. ASSUME NEW q \in Runs PROVE Follows(F, G, q, X[q], Y[q])
  <2>1. CASE q # r
    BY <2>1 DEF Turn, Follows, Goes
  <2>2. CASE q = r
    BY <2>2
  <2> QED BY <2>1, <2>2
<1> QED BY <1>1, <1>2, FollowingTraced

(* Nobody relies on a partial that is gone, or on one beside the comparison.*)
LEMMA NobodyRelies ==
  ASSUME NEW F, NEW G, NEW H, NEW X, NEW d, Locals(X), Shared(F, X, d),
         Traced(F, H, X), Compared(F) \/ ~Started(F), ~Torn(G)
  PROVE  Cleared(F, G, H, X)
<1>1. ASSUME NEW r \in Runs
      PROVE  /\ Writing(X[r]) => Complete(X[r].samples)
             /\ Pending(F, r, X[r]) => Saved(H, X[r].samples)
  <2> DEFINE x == X[r]
  <2>1. /\ x \in RunStates /\ LocalOK(r, x)
        /\ Writing(x) => Loaded(x)
        /\ Mid(x) => Writing(x) /\ x.pc \in {"first", "call", "fail"}
    BY WritersAreLoaded DEF Locals
  <2>2. CASE ~Compared(F)
    <3>1. ~Loaded(x)
      BY <2>2 DEF Shared, Consistent, KindOK
    <3> QED BY <2>1, <3>1 DEF Pending
  <2>3. CASE Compared(F)
    <3>1. Settled(F, X)
      BY <2>3, PathsApart DEF Shared, Firm, Compared
    <3>2. Writing(x) => Complete(x.samples)
      BY <3>1 DEF Settled, SettledRun
    <3>3. ASSUME Pending(F, r, x), ~Saved(H, x.samples) PROVE FALSE
      <4>1. F[Stage(r)] = x.own /\ OwnOK(r, x)
        BY <3>3 DEF Traced, PendingOK
      <4>2. Sole(r, x) /\ x.pc \notin {"publish", "rollback"}
        BY <2>1, <3>3, <4>1 DEF OwnOK, Pending
      <4> QED BY <2>3, <4>2, SoleIs DEF Shared
    <3> QED BY <3>2, <3>3
  <2> QED BY <2>2, <2>3
<1> QED BY <1>1 DEF Cleared

(* A step of run r that leaves the directory alone.                         *)
LEMMA StillTraced ==
  ASSUME CampaignInv, CampaignInv', Traced(files, hidden, run),
         NEW r \in Runs, NEW y, Moves(r, y), files' = files, hidden' = hidden,
         Goes(r, run[r], y)
  PROVE  Traced(files', hidden', run')
<1>1. Turn(files, files, run, run', r) /\ run'[r] = y
  BY QuietTurn
<1>2. Follows(files, files, r, run[r], run'[r])
  BY <1>1 DEF Follows
<1> QED BY <1>1, <1>2, TurnTraced

(* A run that has left, or has loaded nothing yet.                          *)
LEMMA OutGoes ==
  ASSUME NEW r, NEW x, NEW y, y.pc \notin Act, y.pc = "reserve" => y.own = None,
         ~Mid(y)
  PROVE  Goes(r, x, y)
BY DEF Goes, Loaded, Writing, Act

(* A run that goes on with what it has.                                     *)
LEMMA OnGoes ==
  ASSUME NEW r, NEW x, NEW y, x.pc \in Act, y.pc \in Act,
         y.samples = x.samples, y.own = x.own, y.targets = x.targets,
         y.mode = x.mode, ~Mid(x), ~Mid(y), Writing(y) => Writing(x)
  PROVE  Goes(r, x, y)
BY DEF Goes, Loaded, Sole, Holds

(* A run whose operation gives up.                                          *)
LEMMA FailGoes ==
  ASSUME NEW r \in Runs, NEW x \in RunStates, LocalOK(r, x), x.op # NoOp,
         ~Mid(x)
  PROVE  Goes(r, x, LeftOf(x, x.op.otherwise))
<1> DEFINE pc == x.op.otherwise
           y == LeftOf(x, pc)
<1>1. /\ pc \in {"close", "fail", "rollback", "done"}
      /\ pc = "rollback" => x.pc \in {"publish", "rollback"}
      /\ pc = "fail" => x.pc = "call"
  BY OtherwiseIs
<1>2. /\ y.pc = pc /\ y.op = NoOp
      /\ pc \in {"fail", "rollback"} =>
            y.own = x.own /\ y.samples = x.samples /\ y.targets = x.targets
  BY <1>1, LeftIs
<1>3. pc \in {"fail", "rollback"} => y.mode = x.mode
  BY <1>1, LeftFields DEF Steps
<1> HIDE DEF y
<1>4. ~Mid(y)
  BY <1>2 DEF Mid, NoOp
<1>5. CASE pc \in {"close", "done"}
  BY <1>2, <1>4, <1>5, OutGoes DEF Act, y
<1>6. CASE pc \in {"fail", "rollback"}
  <2>1. x.pc \in Act /\ y.pc \in Act /\ Writing(x)
    BY <1>1, <1>2, <1>6 DEF Act, Writing
  <2> QED BY <1>2, <1>3, <1>4, <1>6, <2>1, OnGoes DEF y
<1> QED BY <1>1, <1>5, <1>6

(* The steps of the command that leave the directory alone, one by one.     *)
LEMMA OutsideTraced ==
  ASSUME CampaignInv, CampaignInv', Traced(files, hidden, run), NEW r \in Runs,
         \/ \E mode \in {"fresh", "resume"} : Begin(r, mode)
         \/ CloseReservations(r) \/ CloseResume(r) \/ Crash(r)
  PROVE  Traced(files', hidden', run')
<1> DEFINE x == run[r]
           y == run'[r]
<1>0. RunsOK
  BY DEF CampaignInv
<1>1. /\ Moves(r, y) /\ ~Mid(y) /\ y.pc \notin Act
      /\ y.pc = "reserve" => y.own = None
  <2>1. ASSUME NEW mode \in {"fresh", "resume"}, Begin(r, mode)
        PROVE  Moves(r, y) /\ y.pc \in {"lock", "reserve"} /\ y.own = None
               /\ y.op = NoOp
    BY <1>0, <2>1, BeginMoves
  <2>2. CASE CloseReservations(r)
    <3>1. /\ Moves(r, y)
          /\ \/ y.pc = "unlock" /\ y.op = NoOp
             \/ y.pc = "close" /\ y.op.step = "check"
      BY <1>0, <2>2, CloseMoves
    <3> QED BY <3>1 DEF Mid, Act, NoOp
  <2>3. CASE CloseResume(r)
    <3>1. /\ Moves(r, y)
          /\ \/ y = LeftOf(x, "done")
             \/ y.pc = "unlock" /\ y.op.step = "check"
      BY <1>0, <2>3, UnlockMoves
    <3>2. y = LeftOf(x, "done") => y.pc = "done" /\ y.op = NoOp
      BY <1>0, LeftIs, RunIs
    <3> QED BY <3>1, <3>2 DEF Mid, Act, NoOp
  <2>4. CASE Crash(r)
    <3>1. Moves(r, y) /\ y.pc = "dead" /\ y.op = NoOp
      BY <1>0, <2>4, CrashMoves
    <3> QED BY <3>1 DEF Mid, Act, NoOp
  <2> QED BY <2>1, <2>2, <2>3, <2>4 DEF Mid, Act, NoOp
<1>2. files' = files /\ hidden' = hidden
  BY DEF Begin, CloseReservations, CloseResume, Crash, Quiet
<1>3. Goes(r, x, y)
  BY <1>1, OutGoes
<1> QED BY <1>1, <1>2, <1>3, StillTraced

(* A checkpoint opens.                                                      *)
LEMMA SavingTraced ==
  ASSUME CampaignInv, CampaignInv', Traced(files, hidden, run), NEW r \in Runs,
         FirstCheckpoint(r) \/ finalizeFailure(r)
  PROVE  Traced(files', hidden', run')
<1> DEFINE x == run[r]
           y == run'[r]
<1>1. x \in RunStates /\ LocalOK(r, x) /\ RunsOK
  BY RunIs DEF CampaignInv
<1>2. files' = files /\ hidden' = hidden
  BY DEF FirstCheckpoint, finalizeFailure, Quiet
<1>3. "block" \in Steps /\ "close" \in Steps
  BY DEF Steps
<1>4. ASSUME NEW then \in {"block", "close"}, Moves(r, y), x.op = NoOp,
             x.pc \in {"first", "fail"},
             y = [x EXCEPT !.op = savePartial(r, then, "close")]
      PROVE  Traced(files', hidden', run')
  <2> DEFINE o == savePartial(r, then, "close")
  <2>1. /\ o \in Operations /\ o.step \in {"check", "exchange"}
        /\ x.pc = "first" => o.step = "check" \/ x.mode # "resume"
        /\ x.pc = "first" /\ x.mode # "resume" => o.step = "check"
    BY <1>1, <1>3, <1>4, SaveIs, SaveStarts
  <2> HIDE DEF o
  <2>2. /\ y.op = o /\ y.pc = x.pc
        /\ y.mode = x.mode /\ y.own = x.own /\ y.targets = x.targets
        /\ y.samples = x.samples
    BY <1>1, <1>4, <2>1, OpFields DEF o
  <2> HIDE DEF y
  <2>3. /\ x.pc \in Act /\ y.pc \in Act /\ ~Mid(x) /\ ~Mid(y)
        /\ Writing(y) => Writing(x)
    BY <1>4, <2>1, <2>2 DEF Act, Mid, NoOp, Writing
  <2>4. Goes(r, x, y)
    BY <2>2, <2>3, OnGoes
  <2> QED BY <1>2, <1>4, <2>4, StillTraced
<1>5. CASE FirstCheckpoint(r)
  <2>1. /\ Moves(r, y) /\ x.pc = "first" /\ x.op = NoOp
        /\ \/ y = LeftOf(x, "close")
           \/ y = [x EXCEPT !.op = savePartial(r, "block", "close")]
    BY <1>1, <1>5, FirstMoves
  <2>2. CASE y = LeftOf(x, "close")
    <3>1. y.pc = "close" /\ y.op = NoOp
      BY <1>1, <2>2, LeftIs
    <3>2. Goes(r, x, y)
      BY <3>1, OutGoes DEF Mid, NoOp, Act
    <3> QED BY <1>2, <2>1, <3>2, StillTraced
  <2> QED BY <1>4, <2>1, <2>2
<1>6. CASE finalizeFailure(r)
  <2>1. /\ Moves(r, y) /\ x.pc = "fail" /\ x.op = NoOp
        /\ y = [x EXCEPT !.op = savePartial(r, "close", "close")]
    BY <1>1, <1>6, FailureMoves
  <2> QED BY <1>4, <2>1
<1> QED BY <1>5, <1>6

(* A run gathers, finishes, publishes and retires.                          *)
LEMMA InsideTraced ==
  ASSUME CampaignInv, CampaignInv', Traced(files, hidden, run), NEW r \in Runs,
         "bundle" \notin drifted,
         \/ BeginBlock(r) \/ BeginSample(r) \/ VerifyBlock(r) \/ Finish(r)
         \/ PublishOrReuse(r) \/ RemoveAfterSuccess(r)
  PROVE  Traced(files', hidden', run')
<1> DEFINE x == run[r]
           y == run'[r]
<1>0. RunsOK
  BY DEF CampaignInv
<1>1. /\ Moves(r, y) /\ x.op = NoOp
      /\ y.op = NoOp \/ y.op.step = "check"
      /\ y.samples = x.samples /\ y.own = x.own /\ y.targets = x.targets
      /\ y.mode = x.mode
      /\ x.pc \in Act \ {"first"} /\ y.pc \in Act
  <2>1. CASE BeginBlock(r)
    BY <1>0, <2>1, BlockMoves DEF Act
  <2>2. CASE BeginSample(r)
    BY <1>0, <2>2, BeginSampleMoves DEF Act
  <2>3. CASE VerifyBlock(r)
    BY <1>0, <2>3, VerifyMoves DEF Act, Restore
  <2>4. CASE Finish(r)
    BY <1>0, <2>4, FinishMoves DEF Act
  <2>5. CASE PublishOrReuse(r)
    BY <1>0, <2>5, PublishMoves DEF Act
  <2>6. CASE RemoveAfterSuccess(r)
    BY <1>0, <2>6, RetireMoves DEF Act
  <2> QED BY <2>1, <2>2, <2>3, <2>4, <2>5, <2>6
<1>2. files' = files /\ hidden' = hidden
  BY DEF BeginBlock, BeginSample, VerifyBlock, Finish, PublishOrReuse,
         RemoveAfterSuccess, Quiet
<1> HIDE DEF y
<1>3. ~Mid(x) /\ ~Mid(y) /\ Writing(x)
  BY <1>1 DEF Mid, NoOp, Writing
<1>4. Goes(r, x, y)
  BY <1>1, <1>3, OnGoes
<1>5. y = run'[r]
  BY DEF y
<1> QED BY <1>1, <1>2, <1>4, <1>5, StillTraced

(* A published final is rolled back.                                        *)
LEMMA RollbackTraced ==
  ASSUME CampaignInv, CampaignInv', Shared(files, run, drifted),
         Traced(files, hidden, run), NEW r \in Runs, RollbackPublished(r)
  PROVE  Traced(files', hidden', run')
<1> DEFINE x == run[r]
           y == run'[r]
<1>1. /\ Moves(r, y) /\ x.pc = "rollback" /\ x.op = NoOp
      /\ Complete(x.samples) /\ y.own = x.own /\ y.mode = x.mode
      /\ y.samples = x.samples
      /\ \/ y.pc = "fail" /\ y.op = NoOp
         \/ y.pc = "rollback" /\ y.op.step = "check"
  BY RollbackMoves DEF CampaignInv
<1>2. files' = files /\ hidden' = hidden
  BY DEF RollbackPublished, Quiet
<1>3. x.own.data = x.samples
  BY <1>1 DEF Shared, Consistent, StepsOK
<1> HIDE DEF y
<1>4. /\ ~Mid(x) /\ ~Mid(y) /\ Writing(x) /\ Complete(y.own.data)
      /\ Loaded(y) => Loaded(x)
  BY <1>1, <1>3 DEF Mid, NoOp, Writing, Act, Loaded
<1>5. Goes(r, x, y)
  BY <1>1, <1>4 DEF Goes
<1>6. y = run'[r]
  BY DEF y
<1> QED BY <1>1, <1>2, <1>5, <1>6, StillTraced

(* A step on the directory that writes no partial.                          *)
LEMMA ApartTraced ==
  ASSUME CampaignInv, CampaignInv', Shared(files, run, drifted),
         Traced(files, hidden, run), NEW r \in Runs, NEW y, Moves(r, y), NEW p,
         Apart(files, files', r, p), Goes(r, run[r], y), ~Mid(y),
         hidden \subseteq hidden',
         \/ In(files', "partial") = In(files, "partial")
         \/ (Compared(files) \/ ~Started(files)) /\ ~Torn(files')
  PROVE  Traced(files', hidden', run')
<1>1. Turn(files, files', run, run', r) /\ run'[r] = y
  BY ApartTurn
<1>2. Follows(files, files', r, run[r], run'[r])
  BY <1>1 DEF Follows
<1>3. Locals(run)
  BY <1>1 DEF Turn, Locals
<1>4. \/ In(files', "partial") = In(files, "partial")
      \/ Cleared(files, files', hidden, run)
  BY <1>3, NobodyRelies
<1> QED BY <1>1, <1>2, <1>4, TurnTraced

(* A resume takes its lock.                                                 *)
LEMMA LockTraced ==
  ASSUME CampaignInv, CampaignInv', Shared(files, run, drifted),
         Traced(files, hidden, run), NEW r \in Runs, acquireABResumeLock(r)
  PROVE  Traced(files', hidden', run')
<1> DEFINE x == run[r]
           pc == IF At("lock") = None THEN "load" ELSE "done"
           y == LeftOf(x, pc)
<1>1. Moves(r, y) /\ x \in RunStates /\ files \in [Places -> Files]
  BY LockMoves, RunIs DEF CampaignInv, DiskOK
<1>2. y.pc = pc /\ y.op = NoOp
  BY <1>1, LeftFields DEF Steps
<1> HIDE DEF y
<1>3. Goes(r, x, y) /\ ~Mid(y)
  BY <1>2, OutGoes DEF Act, Mid, NoOp
<1>4. hidden' = hidden
  BY DEF acquireABResumeLock
<1>5. "lock" \in Paths /\ "partial" \in Paths /\ "lock" # "partial"
  BY PathsApart
<1>6. CASE At("lock") = None
  <2>1. Puts(files, files', "lock", File(r, "lock", {}))
    BY <1>6 DEF acquireABResumeLock, Puts
  <2>2. Apart(files, files', r, "lock")
    BY <1>1, <1>5, <2>1, PutIs
  <2> QED BY <1>1, <1>3, <1>4, <1>5, <2>2, ApartTraced DEF Apart
<1>7. CASE At("lock") # None
  <2>1. files' = files
    BY <1>7 DEF acquireABResumeLock
  <2> QED BY <1>1, <1>3, <1>4, <2>1, StillTraced
<1> QED BY <1>6, <1>7

(* A run reserves a path.                                                   *)
LEMMA ReserveTraced ==
  ASSUME CampaignInv, CampaignInv', Shared(files, run, drifted),
         Traced(files, hidden, run), NEW r \in Runs, reserveABOutputs(r)
  PROVE  Traced(files', hidden', run')
<1> DEFINE x == run[r]
           y == run'[r]
           i == x.todo + 1
           p == PathAt(x, i)
<1>0. RunsOK /\ FilesOK /\ files \in [Places -> Files]
  BY DEF CampaignInv, DiskOK, FilesOK, Sound
<1>1. /\ Moves(r, y) /\ x.pc = "reserve" /\ x.op = NoOp /\ p \in Outputs
      /\ Reserved(r)[i] = p
      /\ \/ y = LeftOf(x, "close") /\ At(p) # None /\ ~AllowsExisting(r)
         \/ /\ y.pc \in {"reserve", "first"} /\ y.mode = x.mode
            /\ y.samples = x.samples /\ y.own = x.own /\ y.op = NoOp
  BY <1>0, ReserveMoves
<1>2. hidden' = hidden
  BY DEF reserveABOutputs
<1>3. x \in RunStates
  BY <1>0, RunIs
<1>4. p \in Paths
  BY <1>1, PathsApart
<1>5. Goes(r, x, y) /\ ~Mid(y)
  <2>1. CASE y = LeftOf(x, "close")
    <3>1. y.pc = "close" /\ y.op = NoOp
      BY <1>3, <2>1, LeftIs
    <3> QED BY <3>1, OutGoes DEF Act, Mid, NoOp
  <2>2. CASE /\ y.pc \in {"reserve", "first"} /\ y.mode = x.mode
             /\ y.samples = x.samples /\ y.own = x.own /\ y.op = NoOp
    <3>1. ~Mid(x) /\ ~Mid(y) /\ ~Writing(y) /\ ~Sole(r, x)
      BY <1>1, <2>2 DEF Mid, NoOp, Writing, Sole, Act
    <3>2. Loaded(y) => Loaded(x)
      BY <1>1, <2>2 DEF Loaded
    <3> QED BY <2>2, <3>1, <3>2 DEF Goes
  <2> QED BY <1>1, <2>1, <2>2
<1>6. CASE At(p) # None
  <2>1. files' = files
    <3>1. CASE files' # files
      <4>1. files' = [files EXCEPT ![<<p, 0>>] = At(p)]
        BY <1>1, <1>6, <3>1 DEF reserveABOutputs, At
      <4>2. files' = files
        BY <1>0, <4>1 DEF At
      <4> QED BY <4>2, <3>1
    <3> QED BY <3>1
  <2> QED BY <1>1, <1>2, <1>5, <2>1, StillTraced
<1>7. CASE At(p) = None
  <2>1. Puts(files, files', p, Placeholder(r))
    BY <1>1, <1>7 DEF reserveABOutputs, At, Placeholder, Puts
  <2> HIDE DEF p, x, y
  <2>2. In(files', p) = Placeholder(r) /\ Apart(files, files', r, p)
    BY <1>0, <1>4, <2>1, PutIs
  <2>3. Placeholder(r).what = "placeholder" /\ None.what = "none"
    BY DEF Placeholder, None, File
  <2>4. \/ In(files', "partial") = In(files, "partial")
        \/ ~Started(files) /\ ~Torn(files')
    <3>1. CASE p = "partial"
      BY <1>7, <2>2, <2>3, <3>1 DEF Started, Torn, In, At
    <3>2. CASE p # "partial"
      BY <2>2, <3>2, PathsApart DEF Apart
    <3> QED BY <3>1, <3>2
  <2>5. x = run[r] /\ y = run'[r]
    BY DEF x, y
  <2> QED BY <1>1, <1>2, <1>5, <2>2, <2>4, <2>5, ApartTraced
<1> QED BY <1>6, <1>7

(* A file is moved into the quarantine.                                     *)
LEMMA RenameTraced ==
  ASSUME CampaignInv, CampaignInv', Shared(files, run, drifted),
         Traced(files, hidden, run), NEW r \in Runs, Rename(r)
  PROVE  Traced(files', hidden', run')
<1> DEFINE x == run[r]
           y == run'[r]
           p == x.op.path
<1>1. /\ x.op # NoOp /\ x.op.step = "rename"
      /\ IF At(p) = None THEN Moves(r, LeftOf(x, x.op.otherwise))
         ELSE Moves(r, StepTo(x, "settle"))
  BY RenameMoves DEF CampaignInv, Rename
<1>2. hidden' = hidden
  BY DEF Rename
<1>3. /\ x \in RunStates /\ LocalOK(r, x)
      /\ files \in [Places -> Files]
  BY RunIs DEF CampaignInv, DiskOK
<1>4. ~Mid(x)
  BY <1>1 DEF Mid
<1>5. CASE At(p) = None
  <2>1. files' = files
    BY <1>5 DEF Rename
  <2>2. Goes(r, x, LeftOf(x, x.op.otherwise))
    BY <1>1, <1>3, <1>4, FailGoes
  <2> QED BY <1>1, <1>2, <1>5, <2>1, <2>2, StillTraced
<1>6. CASE At(p) # None
  <2>1. p \in Paths
    BY <1>1, <1>3, ExpectedIsOwn
  <2>2. PutsAside(files, files', p, None, Quarantine(r), At(p))
    BY <1>6 DEF Rename, PutsAside
  <2>3. In(files', p) = None /\ Apart(files, files', r, p)
    <3> HIDE DEF p
    <3> QED BY <1>3, <2>1, <2>2, PutAsideIs
  <2>4. y = StepTo(x, "settle") /\ Moves(r, y)
    BY <1>1, <1>6, <2>3, ApartTurn
  <2>5. /\ y.op.step = "settle" /\ y.pc = x.pc /\ y.mode = x.mode
        /\ y.samples = x.samples /\ y.own = x.own /\ y.targets = x.targets
    <3>1. "settle" \in OpSteps
      BY DEF OpSteps
    <3> QED BY <1>3, <2>4, <3>1, SteppedIs
  <2>6. x.op.kind \in {"remove", "link"}
    BY <1>1, <1>3 DEF LocalOK, OpOK, Sequel, NoOp
  <2>7. p = "partial" /\ Started(files) => Compared(files)
    <3>1. Guarded(files, r, x)
      BY DEF Shared, Consistent
    <3>2. p = "partial" /\ ~Compared(files) => At(p) = x.op.expected
      BY <1>1, <2>6, <3>1, PathsApart DEF Guarded, Expects, Claims, In, At
    <3>3. \/ x.op.expected = x.own /\ x.pc = "retire" /\ p = "partial"
          \/ x.op.expected.by = r /\ x.op.expected.what # "partial"
      BY <1>3, <2>6, ExpectedIs
    <3>4. x.pc = "retire" => Compared(files)
      BY <3>1 DEF Guarded, HoldsLock
    <3> QED BY <3>2, <3>3, <3>4 DEF Started, In, At
  <2> HIDE DEF x, y, p
  <2>8. Goes(r, x, y) /\ ~Mid(y)
    BY <1>4, <2>5 DEF Goes, Mid, Loaded, Sole, Holds, Writing
  <2>9. \/ In(files', "partial") = In(files, "partial")
        \/ (Compared(files) \/ ~Started(files)) /\ ~Torn(files')
    <3>1. CASE p = "partial"
      BY <2>3, <2>7, <3>1 DEF Torn, Started, None, File
    <3>2. CASE p # "partial"
      BY <2>3, <3>2, PathsApart DEF Apart
    <3> QED BY <3>1, <3>2
  <2>10. x = run[r] /\ y = run'[r]
    BY DEF x, y
  <2> QED BY <1>2, <2>3, <2>4, <2>8, <2>9, <2>10, ApartTraced
<1> QED BY <1>5, <1>6

(* A run that has retired its placeholder goes on to the link.              *)
LEMMA RetiringGoes ==
  ASSUME NEW r \in Runs, NEW x \in RunStates, LocalOK(r, x), StepsOK(x),
         x.op.step = "settle", x.op.kind = "link"
  PROVE  Goes(r, x, Retiring(x)) /\ Retiring(x).op.step = "link"
<1> DEFINE y == Retiring(x)
<1>1. /\ y.op.step = "link" /\ y.pc = x.pc /\ y.mode = x.mode
      /\ y.samples = x.samples /\ y.own = x.own
      /\ \A q \in Outputs : q # x.op.path => y.targets[q] = x.targets[q]
  BY RetiringIs
<1> HIDE DEF y
<1>2. \/ x.pc = "first" /\ x.op.path = "partial"
      \/ x.pc = "publish"
  BY DEF LocalOK, OpOK, Sequel, NoOp
<1>3. Sole(r, x) => Sole(r, y) \/ Complete(y.own.data)
  <2>1. CASE x.pc = "publish"
    <3>1. x.own.data = x.samples /\ Complete(x.samples)
      BY <2>1 DEF LocalOK, PhaseOK, StepsOK
    <3> QED BY <1>1, <3>1
  <2>2. CASE x.pc = "first" /\ x.op.path = "partial"
    <3>1. \A q \in FinalPaths : y.targets[q] = x.targets[q]
      BY <1>1, <2>2, PathsApart
    <3> QED BY <1>1, <3>1 DEF Sole, Holds
  <2> QED BY <1>2, <2>1, <2>2
<1>4. ~Mid(x) /\ ~Mid(y)
  BY <1>1 DEF Mid
<1>5. Goes(r, x, y)
  BY <1>1, <1>3, <1>4 DEF Goes, Loaded, Writing
<1> QED BY <1>1, <1>5 DEF y

(* What was moved is removed, or put back.                                  *)
LEMMA SettleTraced ==
  ASSUME CampaignInv, CampaignInv', Shared(files, run, drifted),
         Traced(files, hidden, run), NEW r \in Runs, Settle(r)
  PROVE  Traced(files', hidden', run')
<1> DEFINE x == run[r]
           p == x.op.path
           moved == files[Quarantine(r)]
           own == sameOwnedABFile(x.op.expected, moved)
           y == IF own /\ x.op.kind = "link" THEN Retiring(x)
                ELSE LeftOf(x, x.op.otherwise)
<1>1. /\ x.op # NoOp /\ x.op.step = "settle" /\ x.op.kind \in {"link", "remove"}
      /\ Moves(r, y)
  BY SettleMoves DEF CampaignInv, Settle
<1>2. /\ x \in RunStates /\ LocalOK(r, x) /\ StepsOK(x)
      /\ files \in [Places -> Files]
  BY RunIs DEF CampaignInv, DiskOK, Shared, Consistent
<1>3. p \in Paths
  BY <1>1, <1>2, ExpectedIsOwn
<1>4. hidden \subseteq hidden'
  BY DEF Settle
<1>5. ~own => p = "partial" /\ Compared(files)
  <2>1. p \in Claims(files) \cup {"lock"} => moved = x.op.expected
    BY <1>1 DEF Shared, Consistent, Guarded, Expects
  <2>2. x.op.expected # None
    BY <1>1, <1>2, ExpectedIsOwn
  <2> QED BY <1>3, <2>1, <2>2, PathsApart DEF Claims, sameOwnedABFile
<1>6. Goes(r, x, y) /\ ~Mid(y)
  <2>1. CASE own /\ x.op.kind = "link"
    BY <1>1, <1>2, <2>1, RetiringGoes DEF Mid
  <2>2. CASE ~(own /\ x.op.kind = "link")
    <3>1. ~Mid(x)
      BY <1>1 DEF Mid
    <3>2. Goes(r, x, y)
      BY <1>1, <1>2, <2>2, <3>1, FailGoes
    <3>3. x.op.otherwise \in {"close", "fail", "rollback", "done"}
      BY <1>1, <1>2, OtherwiseIs
    <3>4. y.op = NoOp
      BY <1>2, <2>2, <3>3, LeftIs
    <3> QED BY <3>2, <3>4 DEF Mid, NoOp
  <2> QED BY <2>1, <2>2
<1>7. CASE own
  <2>1. Sets(files, files', Quarantine(r), None)
    BY <1>7 DEF Settle, Sets
  <2> HIDE DEF p, x, y
  <2>2. In(files', "partial") = In(files, "partial")
        /\ Apart(files, files', r, p)
    BY <1>2, <2>1, AsideAloneIs, PathsApart
  <2>3. x = run[r]
    BY DEF x
  <2> QED BY <1>1, <1>4, <1>6, <2>2, <2>3, ApartTraced
<1>8. CASE ~own
  <2> DEFINE v == IF At(p) = None THEN moved ELSE At(p)
  <2>1. PutsAside(files, files', p, v, Quarantine(r), None)
    <3>1. files' = [files EXCEPT ![Quarantine(r)] = None,
                      ![<<p, 0>>] = IF At(p) = None THEN moved ELSE @]
      BY <1>8 DEF Settle
    <3>2. Quarantine(r) # <<p, 0>> /\ Quarantine(r) \in Places
          /\ <<p, 0>> \in Places
      BY <1>3, PlacesAre
    <3> QED BY <1>2, <3>1, <3>2 DEF PutsAside, At
  <2>2. In(files', "partial") = v /\ Apart(files, files', r, p)
    <3> HIDE DEF p, v
    <3>1. In(files', p) = v /\ Apart(files, files', r, p)
      BY <1>2, <1>3, <2>1, PutAsideIs
    <3> QED BY <1>5, <1>8, <3>1
  <2>3. /\ Started(files) => Complete(In(files, "partial").data)
        /\ moved.what = "partial" => Complete(moved.data)
    <3>1. Settled(files, run)
      BY <1>5, <1>8, PathsApart DEF Shared, Firm, Compared
    <3>2. Moved(x, "partial") /\ SettledRun(files, run, r)
      BY <1>1, <1>5, <1>8, <3>1 DEF Moved, Settled
    <3> QED BY <3>1, <3>2 DEF Settled, SettledRun
  <2>4. ~Torn(files')
    BY <1>5, <1>8, <2>2, <2>3 DEF Torn, Started, v, In, At
  <2> HIDE DEF p, x, y
  <2>5. x = run[r]
    BY DEF x
  <2> QED BY <1>1, <1>4, <1>5, <1>6, <1>8, <2>2, <2>4, <2>5, ApartTraced
<1> QED BY <1>7, <1>8

(* A run that is in no exchange after its step, and that leaves the partial *)
(* as it is or is the only one to have loaded it.                           *)
LEMMA PlainTraced ==
  ASSUME NEW F, NEW G, NEW H, NEW K, NEW X, NEW Y, NEW r \in Runs,
         H \subseteq K, Turn(F, G, X, Y, r), Traced(F, H, X), ~Mid(Y[r]),
         OwnOK(r, Y[r]), OpenOK(G, r, Y[r]), TornOK(G, K, r, Y[r]),
         Loaded(Y[r]) =>
            \A q \in Runs : q # r /\ Loaded(X[q]) => X[q].mode # Y[r].mode,
         \/ /\ In(G, "partial") = In(F, "partial")
            /\ Loaded(Y[r]) /\ Complete(Y[r].samples) =>
                  \/ In(G, "partial") = Y[r].own
                  \/ \A q \in Runs : q # r /\ Pending(F, q, X[q]) =>
                        Saved(H, X[q].samples)
         \/ \A q \in Runs : q # r => ~Loaded(X[q])
  PROVE  Traced(G, K, Y)
<1> DEFINE y == Y[r]
<1>1. \A D : Saved(H, D) => Saved(K, D)
  BY DEF Saved
<1>2. \A q \in Runs : q # r => Y[q] = X[q] /\ G[Stage(q)] = F[Stage(q)]
  BY DEF Turn
<1>3. ModesOK(Y)
  BY <1>2 DEF ModesOK, Traced
<1>4. PendingOK(G, K, Y, r)
  BY DEF PendingOK, Pending
<1>5. ASSUME NEW q \in Runs, q # r
      PROVE  /\ OwnOK(q, Y[q]) /\ OpenOK(G, q, Y[q]) /\ TornOK(G, K, q, Y[q])
             /\ PendingOK(G, K, Y, q)
  <2>1. /\ OwnOK(q, X[q]) /\ OpenOK(F, q, X[q]) /\ TornOK(F, H, q, X[q])
        /\ PendingOK(F, H, X, q)
    BY DEF Traced
  <2>2. Y[q] = X[q] /\ G[Stage(q)] = F[Stage(q)]
    BY <1>2, <1>5
  <2>3. CASE \A w \in Runs : w # r => ~Loaded(X[w])
    <3>1. ~Loaded(Y[q])
      BY <1>5, <2>2, <2>3
    <3>2. ~Writing(Y[q]) /\ ~Mid(Y[q])
      BY <3>1, WritersAreLoaded DEF Turn
    <3> QED BY <3>1, <3>2 DEF OwnOK, OpenOK, TornOK, PendingOK, Pending
  <2>4. CASE /\ In(G, "partial") = In(F, "partial")
             /\ Loaded(y) /\ Complete(y.samples) =>
                  \/ In(G, "partial") = y.own
                  \/ \A w \in Runs : w # r /\ Pending(F, w, X[w]) =>
                        Saved(H, X[w].samples)
    <3>1. \A w \in Runs : w # r /\ Current(F, w, X[w]) => Current(G, w, Y[w])
      BY <1>2, <2>4 DEF Current, Swapped
    <3>2. OpenOK(G, q, Y[q])
      BY <1>5, <2>1, <2>2, <3>1 DEF OpenOK
    <3>3. TornOK(G, K, q, Y[q])
      BY <1>1, <2>1, <2>2, <2>4 DEF TornOK, Torn, Started
    <3>4. ASSUME Pending(G, q, Y[q]), ~Saved(K, Y[q].samples)
          PROVE  /\ G[Stage(q)] = Y[q].own
                 /\ In(G, "partial") = Draft(q, Y[q].samples) =>
                       Y[q].op.step = "confirm"
                 /\ \A w \in Runs : w # q /\ Loaded(Y[w])
                      /\ Complete(Y[w].samples) => Current(G, w, Y[w])
      <4>1. Pending(F, q, X[q]) /\ ~Saved(H, X[q].samples)
        BY <1>1, <2>2, <3>4 DEF Pending
      <4>2. /\ F[Stage(q)] = X[q].own
            /\ In(F, "partial") = Draft(q, X[q].samples) =>
                  X[q].op.step = "confirm"
            /\ \A w \in Runs : w # q /\ Loaded(X[w]) /\ Complete(X[w].samples)
                 => Current(F, w, X[w])
        BY <2>1, <4>1 DEF PendingOK
      <4>3. ASSUME NEW w \in Runs, w # q, Loaded(Y[w]), Complete(Y[w].samples)
            PROVE  Current(G, w, Y[w])
        <5>1. CASE w = r
          <6>1. In(G, "partial") = y.own
            BY <1>5, <2>4, <4>1, <4>3, <5>1
          <6> QED BY <5>1, <6>1 DEF Current
        <5>2. CASE w # r
          BY <1>2, <3>1, <4>2, <4>3, <5>2
        <5> QED BY <5>1, <5>2
      <4> QED BY <2>2, <2>4, <4>2, <4>3
    <3>5. PendingOK(G, K, Y, q)
      BY <3>4 DEF PendingOK
    <3> QED BY <2>1, <2>2, <3>2, <3>3, <3>5
  <2> QED BY <2>3, <2>4
<1> QED BY <1>3, <1>4, <1>5 DEF Traced

(* A run that goes on finds the others in the other mode.                   *)
LEMMA OtherModes ==
  ASSUME NEW F, NEW H, NEW X, Traced(F, H, X), NEW r \in Runs, NEW y,
         Loaded(X[r]), y.mode = X[r].mode
  PROVE  \A q \in Runs : q # r /\ Loaded(X[q]) => X[q].mode # y.mode
BY DEF Traced, ModesOK

(* A resume loads the partial.                                              *)
LEMMA LoadTraced ==
  ASSUME CampaignInv, CampaignInv', Shared(files, run, drifted),
         Traced(files, hidden, run), NEW r \in Runs, openABResume(r)
  PROVE  Traced(files', hidden', run')
<1> DEFINE x == run[r]
           y == run'[r]
           v == At("partial")
<1>1. /\ Moves(r, y) /\ x.pc = "load" /\ x.op = NoOp /\ x.mode = "resume"
      /\ y.op = NoOp /\ y.mode = "resume"
      /\ \/ y.pc = "reserve" /\ y.samples = v.data /\ y.own = v
         \/ y.pc = "unlock"
  <2>1. RunsOK /\ FilesOK
    BY DEF CampaignInv, DiskOK, FilesOK, Sound
  <2> QED BY <2>1, LoadMoves
<1>2. files' = files /\ hidden' = hidden
  BY DEF openABResume, Quiet
<1>3. ~Mid(y)
  BY <1>1 DEF Mid, NoOp
<1>4. CASE y.pc = "unlock"
  <2>1. Goes(r, x, y)
    BY <1>3, <1>4, OutGoes DEF Act
  <2> QED BY <1>1, <1>2, <2>1, StillTraced
<1>5. CASE y.pc = "reserve" /\ y.samples = v.data /\ y.own = v
  <2>1. Turn(files, files, run, run', r) /\ run'[r] = y
    BY <1>1, <1>2, QuietTurn
  <2>2. ASSUME NEW q \in Runs, q # r, Loaded(run[q]), run[q].mode = "resume"
        PROVE  FALSE
    <3>1. LocalOK(q, run[q]) /\ run[q] \in RunStates
      BY RunIs DEF CampaignInv
    <3>2. ~Moved(run[q], "lock")
      <4>1. SUFFICES ASSUME run[q].op.step = "settle", run[q].op.path = "lock"
                     PROVE  FALSE
        BY DEF Moved
      <4>2. run[q].op # NoOp
        BY <4>1 DEF NoOp
      <4>3. run[q].op.otherwise = "done"
        BY <2>2, <3>1, <4>1, <4>2, UsedPathIs DEF Shared, Consistent
      <4>4. run[q].pc = "unlock"
        BY <3>1, <4>2, <4>3 DEF LocalOK, OpOK, Sequel
      <4> QED BY <2>2, <4>4 DEF Loaded, Act
    <3>3. run[q].pc \notin Ended \cup {"lock"}
      BY <2>2 DEF Loaded, Act, Ended
    <3>4. In(files, "lock") = Lock(q)
      BY <2>2, <3>2, <3>3 DEF Shared, Consistent, Guarded, HoldsLock
    <3>5. x.pc \notin Ended \cup {"lock"} /\ ~Moved(x, "lock")
      BY <1>1 DEF Ended, Moved, NoOp
    <3>6. In(files, "lock") = Lock(r)
      BY <1>1, <3>5 DEF Shared, Consistent, Guarded, HoldsLock
    <3> QED BY <2>2, <3>4, <3>6 DEF Lock, File
  <2>3. In(files, "partial") = y.own
    BY <1>5 DEF In, At
  <2>4. OwnOK(r, y)
    BY <1>5 DEF OwnOK
  <2>5. ~Writing(y)
    BY <1>5 DEF Writing, Act
  <2>6. OpenOK(files, r, y) /\ TornOK(files, hidden, r, y)
    BY <1>3, <2>3, <2>5 DEF OpenOK, TornOK
  <2> HIDE DEF x, y
  <2>7. y = run'[r]
    BY DEF y
  <2>8. Loaded(y) => \A q \in Runs : q # r /\ Loaded(run[q]) =>
                                        run[q].mode # y.mode
    BY <1>1, <2>2
  <2> QED BY <1>2, <1>3, <2>1, <2>3, <2>4, <2>6, <2>7, <2>8, PlainTraced
<1> QED BY <1>1, <1>4, <1>5

(* A call of the model returns.                                             *)
LEMMA EndSampleTraced ==
  ASSUME CampaignInv, CampaignInv', Shared(files, run, drifted),
         Traced(files, hidden, run), NEW r \in Runs, "bundle" \notin drifted,
         EndSample(r)
  PROVE  Traced(files', hidden', run')
<1> DEFINE x == run[r]
           y == run'[r]
<1>1. /\ Moves(r, y) /\ x.pc = "call" /\ x.op = NoOp
      /\ y.own = x.own /\ y.targets = x.targets /\ y.mode = x.mode
      /\ y.pc \in {"call", "fail"} /\ x.samples \subseteq y.samples
      /\ y.op = NoOp \/ y.op.step \in {"check", "exchange"}
  BY EndSampleMoves DEF CampaignInv, Restore
<1>2. files' = files /\ hidden' = hidden
  BY DEF EndSample, Quiet
<1>3. x \in RunStates /\ LocalOK(r, x)
  BY RunIs DEF CampaignInv
<1>4. Turn(files, files, run, run', r)
  BY <1>1, <1>2, QuietTurn
<1>5. ~Complete(x.samples)
  <2>1. ~abBlockComplete(x.samples, x.block) /\ x.block \in DOMAIN Blocks
    BY <1>1, <1>3 DEF LocalOK, PhaseOK
  <2>2. x.samples \in SUBSET Samples
    BY <1>3 DEF RunStates
  <2> QED BY <2>1, <2>2, PopulationIs
<1>6. Writing(x) /\ Loaded(x) /\ ~Mid(x) /\ Sole(r, x)
  BY <1>1, <1>3, HoldersAre, WritersAreLoaded DEF Gathers, Mid, NoOp
<1>7. In(files, "partial") = y.own
  BY <1>1, <1>5, <1>6 DEF Traced, OpenOK, Current
<1> HIDE DEF y
<1>8. ~Mid(y) /\ Sole(r, y)
  BY <1>1, <1>6 DEF Mid, NoOp, Sole, Holds, Act
<1>9. OwnOK(r, y)
  BY <1>1, <1>6, <1>8 DEF Traced, OwnOK
<1>10. OpenOK(files, r, y) /\ TornOK(files, hidden, r, y)
  BY <1>7, <1>8 DEF OpenOK, TornOK, Current
<1>11. \A q \in Runs : q # r /\ Loaded(run[q]) => run[q].mode # y.mode
  BY <1>1, <1>6, OtherModes
<1>12. y = run'[r]
  BY DEF y
<1> QED BY <1>2, <1>4, <1>7, <1>8, <1>9, <1>10, <1>11, <1>12, PlainTraced

(* What the operation expects is checked.                                   *)
LEMMA CheckTraced ==
  ASSUME CampaignInv, CampaignInv', Traced(files, hidden, run),
         NEW r \in Runs, Check(r)
  PROVE  Traced(files', hidden', run')
<1> DEFINE x == run[r]
           o == x.op
           step == IF o.kind = "replace" THEN "exchange" ELSE "rename"
           same == sameOwnedABFile(o.expected, At(o.path))
<1>1. /\ o # NoOp /\ Quiet /\ o.step = "check"
      /\ IF same THEN Moves(r, StepTo(x, step))
         ELSE Moves(r, LeftOf(x, o.otherwise))
  BY CheckMoves DEF CampaignInv, Check
<1>2. files' = files /\ hidden' = hidden
  BY <1>1 DEF Quiet
<1>3. x \in RunStates /\ LocalOK(r, x) /\ ~Mid(x)
  BY <1>1, RunIs DEF CampaignInv, Mid
<1>4. CASE ~same
  <2>1. Goes(r, x, LeftOf(x, o.otherwise))
    BY <1>1, <1>3, FailGoes
  <2> QED BY <1>1, <1>2, <1>4, <2>1, StillTraced
<1>5. CASE same
  <2> DEFINE y == StepTo(x, step)
  <2>1. /\ y.op.step = step /\ y.pc = x.pc /\ y.mode = x.mode
        /\ y.samples = x.samples /\ y.own = x.own /\ y.targets = x.targets
    <3>1. step \in OpSteps
      BY DEF OpSteps
    <3> HIDE DEF step
    <3> QED BY <1>3, <3>1, SteppedIs
  <2>2. Moves(r, y) /\ step \in {"exchange", "rename"}
    BY <1>1, <1>5
  <2> HIDE DEF y
  <2>3. ~Mid(y) /\ (Sole(r, x) <=> Sole(r, y)) /\ (Loaded(y) <=> Loaded(x))
    BY <2>1, <2>2 DEF Mid, Sole, Holds, Loaded
  <2>4. CASE step = "rename"
    <3>1. Writing(y) => Writing(x)
      BY <2>1, <2>4 DEF Writing
    <3>2. Goes(r, x, y)
      BY <1>3, <2>1, <2>3, <3>1 DEF Goes
    <3> QED BY <1>2, <2>2, <3>2, StillTraced
  <2>5. CASE o.kind = "replace"
    <3>1. o.path = "partial" /\ o.expected = x.own /\ Loaded(x)
      BY <1>3, <2>5, WritersAreLoaded
    <3>2. In(files, "partial") = y.own
      BY <1>5, <2>1, <3>1 DEF sameOwnedABFile, In, At
    <3>3. OwnOK(r, y)
      BY <2>1, <2>3, <3>1 DEF Traced, OwnOK
    <3>4. OpenOK(files, r, y) /\ TornOK(files, hidden, r, y)
      BY <2>3, <3>2 DEF OpenOK, TornOK, Current
    <3>5. \A q \in Runs : q # r /\ Loaded(run[q]) => run[q].mode # y.mode
      BY <2>1, <3>1, OtherModes
    <3>6. Turn(files, files, run, run', r) /\ run'[r] = y
      BY <1>2, <2>2, QuietTurn
    <3> QED BY <1>2, <2>3, <3>2, <3>3, <3>4, <3>5, <3>6, PlainTraced
  <2> QED BY <2>4, <2>5
<1> QED BY <1>4, <1>5

(* A run that has loaded the partial knows its samples; every complete      *)
(* population that is known is theirs when they are complete.               *)
LEMMA OnePopulation ==
  ASSUME NEW F, NEW X, NEW d, Shared(F, X, d), "bundle" \notin d,
         NEW r \in Runs, Loaded(X[r]), Complete(X[r].samples)
  PROVE  /\ Full(F, X, X[r].samples)
         /\ \A D : Full(F, X, D) => D = X[r].samples
         /\ \A q \in Runs : Loaded(X[q]) /\ Complete(X[q].samples) =>
                              X[q].samples = X[r].samples
         /\ \A q \in Runs : Writing(X[q]) => X[q].samples = X[r].samples
<1>1. \A q \in Runs : Loaded(X[q]) /\ Complete(X[q].samples) =>
                        Full(F, X, X[q].samples)
  BY DEF Full, Val, Knows
<1>2. \A D : Full(F, X, D) => D = X[r].samples
  BY <1>1 DEF Shared, OneValue
<1>3. \A q \in Runs : Agrees(d, q, X[q], X[r].samples)
  BY <1>1 DEF Shared, OneValue
<1> QED BY <1>1, <1>2, <1>3 DEF Agrees, Restored

(* Two runs that own an incomplete partial and know every sample are one.   *)
LEMMA LackingIsOne ==
  ASSUME NEW F, NEW X, NEW H, NEW d, Locals(X), Shared(F, X, d),
         Traced(F, H, X), NEW r \in Runs, NEW q \in Runs,
         Loaded(X[r]), Complete(X[r].samples), ~Complete(X[r].own.data),
         Loaded(X[q]), Complete(X[q].samples), ~Complete(X[q].own.data)
  PROVE  q = r
<1>1. Sole(r, X[r]) /\ Sole(q, X[q])
  BY DEF Traced, OwnOK
<1>2. /\ X[r].pc \notin {"publish", "rollback"}
      /\ X[q].pc \notin {"publish", "rollback"}
  BY DEF Shared, Consistent, StepsOK
<1> QED BY <1>1, <1>2, SolesAreOne DEF Shared

(* A run that has samples to gather is the only one that writes.            *)
LEMMA LackingWritesAlone ==
  ASSUME NEW F, NEW X, NEW d, Locals(X), Shared(F, X, d), "bundle" \notin d,
         NEW r \in Runs, NEW q \in Runs, q # r,
         Writing(X[r]), Writing(X[q]), ~Complete(X[q].samples)
  PROVE  FALSE
<1>1. CASE Complete(X[r].samples)
  <2>1. Loaded(X[r])
    BY WritersAreLoaded DEF Locals
  <2> QED BY <1>1, <2>1, OnePopulation
<1>2. CASE ~Complete(X[r].samples)
  <2>1. /\ Sole(r, X[r]) /\ X[r].pc \notin {"publish", "rollback"}
        /\ Sole(q, X[q]) /\ X[q].pc \notin {"publish", "rollback"}
    BY <1>2, HoldersAre DEF Locals
  <2> QED BY <2>1, SolesAreOne DEF Shared
<1> QED BY <1>1, <1>2

(* An exchange whose files are not as expected is to be undone.             *)
LEMMA BackingTraced ==
  ASSUME NEW F, NEW H, NEW X, NEW Y, NEW r \in Runs, Turn(F, F, X, Y, r),
         Traced(F, H, X), Mid(X[r]), ~Swapped(F, r, X[r]),
         X[r].op.step = "confirm", Y[r] = StepTo(X[r], "back")
  PROVE  Traced(F, H, Y)
<1> DEFINE x == X[r]
           y == Y[r]
<1>1. /\ y.op.step = "back" /\ y.pc = x.pc /\ y.mode = x.mode
      /\ y.samples = x.samples /\ y.own = x.own /\ y.targets = x.targets
  <2>1. "back" \in OpSteps
    BY DEF OpSteps
  <2> QED BY <2>1, SteppedIs DEF Turn
<1>2. \A q \in Runs : q # r => Y[q] = X[q]
  BY DEF Turn
<1>3. Writing(x) /\ Loaded(x) /\ ~Current(F, r, x)
  BY WritersAreLoaded DEF Turn, Current
<1>4. /\ OwnOK(r, x) /\ OpenOK(F, r, x) /\ TornOK(F, H, r, x)
      /\ PendingOK(F, H, X, r)
  BY DEF Traced
<1>5. Complete(x.samples)
  BY <1>3, <1>4 DEF OpenOK
<1> HIDE DEF x, y
<1>6. Mid(y) /\ (Loaded(y) <=> Loaded(x)) /\ (Sole(r, y) <=> Sole(r, x))
  BY <1>1 DEF Mid, Loaded, Sole, Holds
<1>7. ModesOK(Y)
  BY <1>1, <1>2, <1>6 DEF ModesOK, Traced, x, y
<1>8. OwnOK(r, y) /\ OpenOK(F, r, y)
  BY <1>1, <1>4, <1>5, <1>6 DEF OwnOK, OpenOK
<1>9. TornOK(F, H, r, y)
  BY <1>1, <1>4, <1>6 DEF TornOK, x
<1>10. PendingOK(F, H, Y, r)
  <2>1. SUFFICES ASSUME Pending(F, r, y), ~Saved(H, y.samples)
                 PROVE  /\ F[Stage(r)] = y.own
                        /\ In(F, "partial") # Draft(r, y.samples)
                        /\ \A q \in Runs : q # r /\ Loaded(Y[q])
                             /\ Complete(Y[q].samples) => Current(F, q, Y[q])
    BY DEF PendingOK, y
  <2>2. Pending(F, r, x) /\ ~Saved(H, x.samples)
    BY <1>1, <2>1 DEF Pending, x
  <2>3. /\ F[Stage(r)] = x.own
        /\ \A q \in Runs : q # r /\ Loaded(X[q]) /\ Complete(X[q].samples)
             => Current(F, q, X[q])
    BY <1>4, <2>2 DEF PendingOK, x
  <2>4. In(F, "partial") # Draft(r, x.samples)
    BY <2>3 DEF Swapped, x
  <2> QED BY <1>1, <1>2, <2>3, <2>4
<1>11. ASSUME NEW q \in Runs, q # r
       PROVE  /\ OwnOK(q, Y[q]) /\ OpenOK(F, q, Y[q]) /\ TornOK(F, H, q, Y[q])
              /\ PendingOK(F, H, Y, q)
  <2>1. /\ OwnOK(q, X[q]) /\ OpenOK(F, q, X[q]) /\ TornOK(F, H, q, X[q])
        /\ PendingOK(F, H, X, q)
    BY DEF Traced
  <2>2. Pending(F, q, X[q]) => Saved(H, X[q].samples)
    BY <1>3, <1>5, <1>11, <2>1 DEF PendingOK, x
  <2> QED BY <1>2, <1>11, <2>1, <2>2 DEF PendingOK
<1> QED BY <1>7, <1>8, <1>9, <1>10, <1>11 DEF Traced, y

(* An exchange is confirmed.                                                *)
LEMMA ConfirmTraced ==
  ASSUME CampaignInv, CampaignInv', Traced(files, hidden, run), NEW r \in Runs,
         Confirm(r)
  PROVE  Traced(files', hidden', run')
<1> DEFINE x == run[r]
           y == run'[r]
           owned == /\ files[Stage(r)] = x.op.expected
                    /\ At("partial") = StagedOf(r, x, "partial")
<1>1. /\ x.op # NoOp /\ x.op.step = "confirm" /\ x.op.kind = "replace"
      /\ IF owned THEN Moves(r, Confirmed(r, x))
         ELSE Moves(r, StepTo(x, "back"))
      /\ Staged(r, "partial") = StagedOf(r, x, "partial")
  BY ConfirmMoves DEF CampaignInv, Confirm
<1>2. /\ x \in RunStates /\ LocalOK(r, x) /\ RunsOK
      /\ files \in [Places -> Files] /\ hidden' = hidden
  BY RunIs DEF CampaignInv, DiskOK, Confirm
<1>3. Loaded(x) /\ Mid(x) /\ x.op.expected = x.own
  BY <1>1, <1>2, WritersAreLoaded DEF Mid
<1>4. CASE ~owned
  <2>1. files' = files
    BY <1>1, <1>4 DEF Confirm
  <2>2. Turn(files, files, run, run', r) /\ y = StepTo(x, "back")
    BY <1>1, <1>4, <2>1, QuietTurn
  <2>3. ~Swapped(files, r, x)
    BY <1>3, <1>4 DEF Swapped, Draft, StagedOf, In, At
  <2> QED BY <1>1, <1>2, <1>3, <2>1, <2>2, <2>3, BackingTraced
<1>5. CASE owned
  <2>1. Sets(files, files', Stage(r), None)
    BY <1>1, <1>5 DEF Confirm, Sets
  <2>2. /\ \A p \in Paths : In(files', p) = In(files, p)
        /\ Apart(files, files', r, "partial")
    BY <1>2, <2>1, AsideAloneIs
  <2>3. Turn(files, files', run, run', r) /\ y = Confirmed(r, x)
    BY <1>1, <1>5, <2>2, ApartTurn
  <2>4. /\ y.pc \in {"block", "next", "verify", "close"}
        /\ y.op = NoOp /\ y.own = StagedOf(r, x, "partial")
        /\ y.mode = x.mode
        /\ y.pc # "close" => y.samples = x.samples
    <3> HIDE DEF y
    <3> QED BY <1>1, <1>2, <2>3, ConfirmedOK
  <2>5. y.own.data = x.samples
    BY <2>4 DEF StagedOf, File
  <2>6. In(files', "partial") = y.own /\ In(files, "partial") = y.own
    BY <1>5, <2>2, <2>4, PathsApart DEF In, At
  <2> HIDE DEF y
  <2>7. ~Mid(y) /\ (y.pc = "close" => ~Loaded(y) /\ ~Writing(y))
    BY <2>4 DEF Mid, NoOp, Loaded, Writing, Act
  <2>8. OwnOK(r, y)
    BY <2>4, <2>5, <2>7 DEF OwnOK
  <2>9. OpenOK(files', r, y) /\ TornOK(files', hidden', r, y)
    BY <2>6, <2>7 DEF OpenOK, TornOK, Current
  <2>10. \A q \in Runs : q # r /\ Loaded(run[q]) => run[q].mode # y.mode
    BY <1>3, <2>4, OtherModes
  <2>11. y = run'[r]
    BY DEF y
  <2> QED BY <1>2, <2>3, <2>6, <2>7, <2>8, <2>9, <2>10, <2>11, PlainTraced
<1> QED BY <1>4, <1>5

(* The partial is exchanged for the one with the samples of the run.        *)
LEMMA SwappingTraced ==
  ASSUME NEW F, NEW G, NEW H, NEW X, NEW Y, NEW d, NEW r \in Runs,
         Turn(F, G, X, Y, r), Shared(F, X, d), "bundle" \notin d,
         Traced(F, H, X),
         X[r].op.step = "exchange", Y[r] = StepTo(X[r], "confirm"),
         In(G, "partial") = Draft(r, X[r].samples),
         G[Stage(r)] = In(F, "partial")
  PROVE  Traced(G, H, Y)
<1> DEFINE x == X[r]
           y == Y[r]
           S == x.samples
<1>1. /\ Locals(X) /\ Consistent(F, X) /\ x \in RunStates /\ LocalOK(r, x)
      /\ x.mode \in {"fresh", "resume"}
      /\ \A q \in Runs : Loaded(X[q]) => X[q].mode \in {"fresh", "resume"}
  <2>1. Locals(X) /\ Consistent(F, X)
    BY DEF Turn, Locals, Shared
  <2>2. \A q \in Runs : Loaded(X[q]) => X[q].mode \in {"fresh", "resume"}
    BY <2>1 DEF Locals, LocalOK, PhaseOK, Loaded, Act, Ended
  <2>3. x \in RunStates /\ LocalOK(r, x)
    BY <2>1 DEF Locals
  <2>4. Loaded(x)
    BY <2>3, WritersAreLoaded
  <2> QED BY <2>1, <2>2, <2>3, <2>4
<1>2. /\ y.op.step = "confirm" /\ y.pc = x.pc /\ y.mode = x.mode
      /\ y.samples = x.samples /\ y.own = x.own /\ y.targets = x.targets
  <2>1. "confirm" \in OpSteps
    BY DEF OpSteps
  <2> QED BY <1>1, <2>1, SteppedIs
<1>3. /\ x.pc \in {"first", "call", "fail"} /\ Loaded(x)
      /\ x.pc = "first" => x.mode = "resume"
  BY <1>1, WritersAreLoaded
<1>4. \A q \in Runs : q # r => Y[q] = X[q] /\ G[Stage(q)] = F[Stage(q)]
  BY DEF Turn
<1>5. /\ OwnOK(r, x) /\ OpenOK(F, r, x) /\ TornOK(F, H, r, x) /\ ModesOK(X)
  BY DEF Traced
<1>6. Draft(r, S).data = S /\ \A T : Draft(r, S).by = r
  BY DEF Draft, File
<1>7. Writing(x) /\ ~Mid(x)
  BY <1>3 DEF Writing, Mid, Act
<1> HIDE DEF x, y
<1>8. Mid(y) /\ (Loaded(y) <=> Loaded(x)) /\ (Sole(r, y) <=> Sole(r, x))
  BY <1>2 DEF Mid, Loaded, Sole, Holds
<1>9. In(F, "partial") = x.own => Current(G, r, y)
  BY <1>2, <1>8 DEF Current, Swapped, x
<1>10. ModesOK(Y)
  BY <1>2, <1>4, <1>5, <1>8 DEF ModesOK, x, y
<1>11. OwnOK(r, y) /\ OpenOK(G, r, y)
  <2>1. OwnOK(r, y)
    BY <1>2, <1>5, <1>8 DEF OwnOK
  <2>2. ~Complete(x.samples) => In(F, "partial") = x.own
    BY <1>5, <1>7 DEF OpenOK, Current
  <2> QED BY <1>2, <1>9, <2>1, <2>2 DEF OpenOK
<1>12. TornOK(G, H, r, y)
  BY <1>2, <1>6 DEF TornOK, Torn, x
<1>13. PendingOK(G, H, Y, r)
  <2>1. SUFFICES ASSUME Pending(G, r, y), ~Saved(H, y.samples)
                 PROVE  /\ G[Stage(r)] = y.own
                        /\ \A q \in Runs : q # r /\ Loaded(Y[q])
                             /\ Complete(Y[q].samples) => Current(G, q, Y[q])
    BY <1>2 DEF PendingOK, y
  <2>2. Torn(F) /\ Complete(S) /\ ~Saved(H, S)
    BY <1>2, <2>1 DEF Pending, Torn, Started
  <2>3. In(F, "partial") = x.own /\ ~Complete(x.own.data)
    BY <1>3, <1>5, <2>2 DEF TornOK, Torn
  <2>4. ASSUME NEW q \in Runs, q # r, Loaded(Y[q]), Complete(Y[q].samples)
        PROVE  FALSE
    <3>1. Loaded(X[q]) /\ Complete(X[q].samples)
      BY <1>4, <2>4
    <3>2. X[q].samples = S
      BY <1>3, <2>2, <3>1, OnePopulation DEF x
    <3>3. In(F, "partial") = X[q].own
      BY <2>2, <3>1, <3>2 DEF Traced, TornOK
    <3> QED BY <1>1, <1>3, <2>2, <2>3, <2>4, <3>1, <3>3, LackingIsOne DEF x
  <2> QED BY <1>2, <2>3, <2>4 DEF x
<1>14. ASSUME NEW q \in Runs, q # r
       PROVE  /\ OwnOK(q, Y[q]) /\ OpenOK(G, q, Y[q]) /\ TornOK(G, H, q, Y[q])
              /\ PendingOK(G, H, Y, q)
  <2>1. OwnOK(q, X[q]) /\ PendingOK(F, H, X, q)
    BY DEF Traced
  <2>2. Y[q] = X[q] /\ G[Stage(q)] = F[Stage(q)]
    BY <1>4, <1>14
  <2>3. OpenOK(G, q, Y[q])
    BY <1>1, <1>7, <1>14, <2>2, LackingWritesAlone DEF OpenOK, x
  <2>4. TornOK(G, H, q, Y[q])
    <3>1. ASSUME Loaded(X[q]), Complete(X[q].samples) PROVE Complete(S)
      BY <1>7, <3>1, OnePopulation DEF x
    <3> QED BY <1>6, <2>2, <3>1 DEF TornOK, Torn, x
  <2>5. PendingOK(G, H, Y, q)
    <3>1. SUFFICES ASSUME Pending(F, q, X[q]), ~Saved(H, X[q].samples)
                   PROVE  /\ F[Stage(q)] = X[q].own
                          /\ In(G, "partial") # Draft(q, X[q].samples)
                          /\ \A w \in Runs : w # q /\ Loaded(Y[w])
                               /\ Complete(Y[w].samples) => Current(G, w, Y[w])
      BY <2>2 DEF PendingOK, Pending
    <3>2. Loaded(X[q])
      BY <1>1, <3>1, WritersAreLoaded DEF Pending, Locals
    <3>3. In(G, "partial") # Draft(q, X[q].samples)
      BY <1>14 DEF Draft, File
    <3>4. /\ F[Stage(q)] = X[q].own
          /\ \A w \in Runs : w # q /\ Loaded(X[w]) /\ Complete(X[w].samples)
               => Current(F, w, X[w])
      BY <2>1, <3>1 DEF PendingOK
    <3>5. ASSUME NEW w \in Runs, w # q, Loaded(Y[w]), Complete(Y[w].samples)
          PROVE  Current(G, w, Y[w])
      <4>1. CASE w = r
        <5>1. Current(F, r, x)
          BY <1>2, <1>3, <3>4, <3>5, <4>1 DEF x, y
        <5>2. In(F, "partial") = x.own
          BY <1>7, <5>1 DEF Current
        <5> QED BY <1>9, <4>1, <5>2 DEF y
      <4>2. CASE w # r
        <5>1. Loaded(X[w])
          BY <1>4, <3>5, <4>2
        <5>2. /\ X[w].mode # X[q].mode /\ X[w].mode # x.mode
              /\ X[q].mode # x.mode
          BY <1>3, <1>5, <1>14, <3>2, <3>5, <4>2, <5>1 DEF ModesOK, x
        <5> QED BY <1>1, <3>2, <5>1, <5>2
      <4> QED BY <4>1, <4>2
    <3> QED BY <3>3, <3>4, <3>5
  <2> QED BY <2>1, <2>2, <2>3, <2>4, <2>5
<1> QED BY <1>10, <1>11, <1>12, <1>13, <1>14 DEF Traced, y

(* The partial is exchanged, or it is gone.                                 *)
LEMMA ExchangeTraced ==
  ASSUME CampaignInv, CampaignInv', Shared(files, run, drifted),
         Traced(files, hidden, run), NEW r \in Runs, "bundle" \notin drifted,
         Exchange(r)
  PROVE  Traced(files', hidden', run')
<1> DEFINE x == run[r]
           new == File(r, "partial", x.samples)
           fails == x.op.expected = None \/ At("partial") = None
<1>1. /\ x.op # NoOp /\ x.op.step = "exchange"
      /\ IF fails THEN Moves(r, LeftOf(x, x.op.otherwise))
         ELSE Moves(r, StepTo(x, "confirm"))
      /\ Staged(r, "partial") = new
  BY ExchangeMoves DEF CampaignInv, Exchange, StagedOf
<1>2. hidden' = hidden
  BY DEF Exchange
<1>3. CASE fails
  <2>1. files' = files
    BY <1>3 DEF Exchange
  <2>2. x \in RunStates /\ LocalOK(r, x) /\ ~Mid(x)
    BY <1>1, RunIs DEF CampaignInv, Mid
  <2>3. Goes(r, x, LeftOf(x, x.op.otherwise))
    BY <1>1, <2>2, FailGoes
  <2> QED BY <1>1, <1>2, <1>3, <2>1, <2>3, StillTraced
<1>4. CASE ~fails
  <2>1. files \in [Places -> Files] /\ "partial" \in Paths
    BY PathsApart DEF CampaignInv, DiskOK
  <2>2. PutsAside(files, files', "partial", new, Stage(r), At("partial"))
    <3>1. files' = [files EXCEPT ![Stage(r)] = At("partial"),
                                 ![<<"partial", 0>>] = new]
      BY <1>1, <1>4 DEF Exchange
    <3>2. Stage(r) # <<"partial", 0>>
      BY PlacesAre, PathsApart
    <3> QED BY <2>1, <3>1, <3>2 DEF PutsAside
  <2>3. In(files', "partial") = new /\ Apart(files, files', r, "partial")
        /\ files'[Stage(r)] = At("partial")
    <3> HIDE DEF new, x, fails
    <3> DEFINE was == At("partial")
    <3>1. PutsAside(files, files', "partial", new, Stage(r), was)
      BY <2>2
    <3> HIDE DEF was
    <3>2. /\ In(files', "partial") = new /\ files'[Stage(r)] = was
          /\ Apart(files, files', r, "partial")
      BY <2>1, <3>1, PutAsideIs
    <3> QED BY <3>2 DEF was
  <2>4. Turn(files, files', run, run', r) /\ run'[r] = StepTo(x, "confirm")
    BY <1>1, <1>4, <2>3, ApartTurn
  <2>5. /\ files'[Stage(r)] = In(files, "partial")
        /\ In(files', "partial") = Draft(r, x.samples)
    BY <2>3 DEF In, At, Draft
  <2> QED BY <1>1, <1>2, <2>4, <2>5, SwappingTraced
<1> QED BY <1>3, <1>4

(* A run that takes its exchange back.                                      *)
LEMMA ReturningTraced ==
  ASSUME NEW F, NEW G, NEW H, NEW K, NEW X, NEW Y, NEW d, NEW r \in Runs,
         Turn(F, G, X, Y, r), Shared(F, X, d), "bundle" \notin d,
         Traced(F, H, X), H \subseteq K, X[r].op.step = "back", Y[r].op = NoOp,
         Y[r].mode = X[r].mode, Y[r].pc \in {"close", "fail"},
         Y[r].pc = "fail" =>
            /\ Y[r].own = X[r].own /\ Y[r].samples = X[r].samples
            /\ Y[r].targets = X[r].targets,
         Started(G) =>
            /\ In(G, "partial") = F[Stage(r)]
            /\ \/ In(F, "partial") \in K
               \/ In(F, "partial") = Draft(r, X[r].samples)
  PROVE  Traced(G, K, Y)
<1> DEFINE x == X[r]
           y == Y[r]
           S == x.samples
<1>1. /\ Locals(X) /\ x \in RunStates /\ LocalOK(r, x)
      /\ \A q \in Runs : q # r => Y[q] = X[q] /\ G[Stage(q)] = F[Stage(q)]
  BY DEF Turn, Locals
<1>2. Mid(x) /\ Writing(x) /\ Loaded(x) /\ x.pc \in Act
  <2>1. Mid(x)
    BY DEF Mid
  <2>2. Writing(x) /\ Loaded(x)
    BY <1>1, <2>1, WritersAreLoaded
  <2> QED BY <2>1, <2>2 DEF Writing, Act
<1>3. /\ OwnOK(r, x) /\ OpenOK(F, r, x) /\ TornOK(F, H, r, x) /\ ModesOK(X)
      /\ PendingOK(F, H, X, r)
  BY DEF Traced
<1>4. ~Current(F, r, x)
  BY <1>2 DEF Current, Swapped
<1>5. Complete(S)
  BY <1>2, <1>3, <1>4 DEF OpenOK
<1>6. /\ Full(F, X, S) /\ \A D : Full(F, X, D) => D = S
      /\ \A q \in Runs : Loaded(X[q]) /\ Complete(X[q].samples) =>
                           X[q].samples = S
      /\ \A q \in Runs : Writing(X[q]) => X[q].samples = S
  BY <1>2, <1>5, OnePopulation
<1>7. Torn(G) => Pending(F, r, x) /\ In(G, "partial") = F[Stage(r)]
  BY <1>2, <1>5 DEF Torn, Pending, Started
<1>8. \A D : Saved(H, D) => Saved(K, D)
  BY DEF Saved
<1>9. ASSUME Torn(G), ~Saved(K, S)
      PROVE  /\ In(G, "partial") = x.own /\ ~Complete(x.own.data)
             /\ In(F, "partial") \in K
             /\ \A q \in Runs : q # r /\ Loaded(X[q]) /\ Complete(X[q].samples)
                  => Current(F, q, X[q])
  <2>1. /\ F[Stage(r)] = x.own /\ In(F, "partial") # Draft(r, S)
        /\ \A q \in Runs : q # r /\ Loaded(X[q]) /\ Complete(X[q].samples)
             => Current(F, q, X[q])
    BY <1>3, <1>7, <1>8, <1>9 DEF PendingOK
  <2>2. Started(G) /\ ~Complete(F[Stage(r)].data)
    BY <1>7, <1>9 DEF Torn, Pending
  <2> QED BY <1>7, <1>9, <2>1, <2>2
<1> HIDE DEF x, y
<1>10. ~Mid(y) /\ (Writing(y) => y.pc = "fail") /\ (Loaded(y) => y.pc = "fail")
  BY DEF Mid, NoOp, Writing, Loaded, Act, y
<1>11. y.pc = "fail" => /\ y.own = x.own /\ y.samples = S
                        /\ Sole(r, x) => Sole(r, y)
  BY DEF Sole, Holds, Act, x, y
<1>12. ModesOK(Y)
  BY <1>1, <1>2, <1>3 DEF ModesOK, x, y
<1>13. OwnOK(r, y) /\ OpenOK(G, r, y) /\ PendingOK(G, K, Y, r)
  <2>1. OwnOK(r, y)
    BY <1>2, <1>3, <1>10, <1>11 DEF OwnOK
  <2>2. OpenOK(G, r, y)
    BY <1>5, <1>10, <1>11 DEF OpenOK
  <2> QED BY <1>10, <2>1, <2>2 DEF PendingOK, Pending, y
<1>14. TornOK(G, K, r, y)
  BY <1>9, <1>10, <1>11 DEF TornOK
<1>15. ASSUME NEW q \in Runs, q # r
       PROVE  /\ OwnOK(q, Y[q]) /\ OpenOK(G, q, Y[q]) /\ TornOK(G, K, q, Y[q])
              /\ PendingOK(G, K, Y, q)
  <2>1. /\ OwnOK(q, X[q]) /\ PendingOK(F, H, X, q)
        /\ Y[q] = X[q] /\ G[Stage(q)] = F[Stage(q)]
    BY <1>1, <1>15 DEF Traced
  <2>2. OpenOK(G, q, Y[q])
    BY <1>5, <1>6, <2>1 DEF OpenOK
  <2>3. Pending(F, q, X[q]) => Saved(H, X[q].samples)
    BY <1>2, <1>4, <1>5, <1>15, <2>1 DEF PendingOK, x
  <2>4. PendingOK(G, K, Y, q)
    BY <1>8, <2>1, <2>3 DEF PendingOK, Pending
  <2>5. ASSUME Loaded(X[q]), Complete(X[q].samples), Torn(G), ~Saved(K, S)
        PROVE  FALSE
    <3>1. /\ Current(F, q, X[q]) /\ In(F, "partial") \in K
          /\ ~Complete(x.own.data) /\ X[q].samples = S
      BY <1>6, <1>9, <1>15, <2>5
    <3>2. In(F, "partial").data # S
      BY <2>5, <3>1 DEF Saved
    <3>3. ~Mid(X[q]) /\ In(F, "partial") = X[q].own
      BY <3>1, <3>2 DEF Current, Swapped, Draft, File
    <3>4. X[q].own.what = "partial"
      BY <1>1, <2>5, WritersAreLoaded DEF Locals
    <3>5. ~Complete(X[q].own.data)
      BY <1>6, <3>2, <3>3, <3>4 DEF Full, Val, Started
    <3> QED BY <1>1, <1>2, <1>5, <1>15, <2>5, <3>1, <3>5, LackingIsOne DEF x
  <2>6. TornOK(G, K, q, Y[q])
    BY <1>6, <2>1, <2>5 DEF TornOK
  <2> QED BY <2>1, <2>2, <2>4, <2>6
<1> QED BY <1>12, <1>13, <1>14, <1>15 DEF Traced, y

(* An exchange is undone.                                                   *)
LEMMA BackTraced ==
  ASSUME CampaignInv, CampaignInv', Shared(files, run, drifted),
         Traced(files, hidden, run), NEW r \in Runs, "bundle" \notin drifted,
         ExchangeBack(r)
  PROVE  Traced(files', hidden', run')
<1> DEFINE x == run[r]
           y == run'[r]
           o == x.op.otherwise
           back == IF At("partial") = None THEN None ELSE files[Stage(r)]
           left == IF back = None THEN files[Stage(r)] ELSE At("partial")
<1>1. /\ x.op # NoOp /\ x.op.step = "back" /\ x.op.kind = "replace"
      /\ Moves(r, LeftOf(x, o))
      /\ Staged(r, "partial") = Draft(r, x.samples)
  BY BackMoves DEF CampaignInv, ExchangeBack, StagedOf, Draft
<1>2. /\ x \in RunStates /\ LocalOK(r, x) /\ files \in [Places -> Files]
  BY RunIs DEF CampaignInv, DiskOK
<1>3. o \in {"fail", "close"}
  BY <1>1, <1>2, WritersAreLoaded
<1>4. /\ hidden \subseteq hidden'
      /\ left # Draft(r, x.samples) => left \in hidden'
  BY <1>1 DEF ExchangeBack
<1>5. PutsAside(files, files', "partial", back, Stage(r), None)
  BY DEF ExchangeBack, PutsAside
<1>6. In(files', "partial") = back /\ Apart(files, files', r, "partial")
  <2>1. "partial" \in Paths
    BY PathsApart
  <2> HIDE DEF back
  <2> QED BY <1>2, <1>5, <2>1, PutAsideIs
<1>7. Turn(files, files', run, run', r) /\ y = LeftOf(x, o)
  BY <1>1, <1>6, ApartTurn
<1>8. ASSUME Started(files')
      PROVE  /\ In(files', "partial") = files[Stage(r)]
             /\ \/ In(files, "partial") \in hidden'
                \/ In(files, "partial") = Draft(r, x.samples)
  <2>1. back # None
    BY <1>6, <1>8 DEF Started, None, File
  <2>2. back = files[Stage(r)] /\ left = At("partial")
    BY <2>1
  <2>3. In(files, "partial") = At("partial")
    BY DEF In, At
  <2> HIDE DEF left, back
  <2> QED BY <1>4, <1>6, <2>2, <2>3
<1> HIDE DEF y, left, back
<1>9. /\ y.pc = o /\ y.op = NoOp /\ y.targets = x.targets /\ y.mode = x.mode
      /\ o = "fail" => y.own = x.own /\ y.samples = x.samples
  BY <1>2, <1>3, <1>7, LeftIs
<1>10. y.pc \in {"close", "fail"} /\ (y.pc = "fail" => o = "fail")
  BY <1>3, <1>9
<1> HIDE DEF x, o
<1>11. x = run[r] /\ y = run'[r]
  BY DEF x, y
<1> QED BY <1>1, <1>4, <1>7, <1>8, <1>9, <1>10, <1>11, ReturningTraced

(* A staged file is linked.                                                 *)
LEMMA LinkTraced ==
  ASSUME CampaignInv, CampaignInv', Shared(files, run, drifted),
         Traced(files, hidden, run), NEW r \in Runs, Link(r)
  PROVE  Traced(files', hidden', run')
<1> DEFINE x == run[r]
           y == run'[r]
           p == x.op.path
           new == StagedOf(r, x, p)
<1>1. /\ x.op # NoOp /\ x.op.step = "link"
      /\ IF At(p) = None THEN Moves(r, Linked(r, x))
         ELSE Moves(r, LeftOf(x, x.op.otherwise))
      /\ Staged(r, p) = new
  BY LinkMoves DEF CampaignInv, Link
<1>2. hidden' = hidden
  BY DEF Link
<1>3. /\ x \in RunStates /\ LocalOK(r, x) /\ RunsOK /\ ~Mid(x)
      /\ files \in [Places -> Files] /\ StepsOK(x)
  BY <1>1, RunIs DEF CampaignInv, DiskOK, Mid, Shared, Consistent
<1>4. CASE At(p) # None
  <2>1. files' = files
    BY <1>4 DEF Link
  <2>2. Goes(r, x, LeftOf(x, x.op.otherwise))
    BY <1>1, <1>3, FailGoes
  <2> QED BY <1>1, <1>2, <1>4, <2>1, <2>2, StillTraced
<1>5. CASE At(p) = None
  <2>1. Puts(files, files', p, new)
    BY <1>1, <1>5 DEF Link, Puts
  <2>2. p \in Outputs /\ p \in Paths
    BY <1>1, <1>3, LinkedOK, PathsApart
  <2>3. In(files', p) = new /\ Apart(files, files', r, p)
    <3> HIDE DEF p, new
    <3> QED BY <1>3, <2>1, <2>2, PutIs
  <2>4. Turn(files, files', run, run', r) /\ y = Linked(r, x)
    BY <1>1, <1>5, <2>3, ApartTurn
  <2>5. /\ y.op = NoOp /\ y.samples = x.samples /\ y.mode = x.mode
        /\ \/ /\ x.pc = "first" /\ p = "partial" /\ y.pc = "block"
              /\ x.mode = "fresh" /\ y.own = new
           \/ /\ x.pc = "publish" /\ p \in FinalPaths
              /\ y.pc \in {"publish", "retire"} /\ y.own = x.own
    <3> HIDE DEF y
    <3> QED BY ZenonT(60), <1>1, <1>3, <2>4, LinkedOK
  <2> HIDE DEF y, new
  <2>6. ~Mid(y)
    BY <2>5 DEF Mid, NoOp
  <2>7. CASE x.pc = "publish" /\ p \in FinalPaths
             /\ y.pc \in {"publish", "retire"} /\ y.own = x.own
    <3>1. x.own.data = x.samples /\ Complete(x.samples)
      BY <1>3, <2>7 DEF StepsOK, LocalOK, PhaseOK
    <3>2. Writing(x) /\ Loaded(x)
      BY <1>3, <2>7, WritersAreLoaded DEF Writing, Act
    <3>3. Goes(r, x, y)
      BY <1>3, <2>5, <2>6, <2>7, <3>1, <3>2 DEF Goes
    <3>4. In(files', "partial") = In(files, "partial")
      BY <2>3, <2>7, PathsApart DEF Apart
    <3>5. Moves(r, y)
      BY <1>1, <1>5, <2>4
    <3> QED BY <1>2, <2>3, <2>6, <3>3, <3>4, <3>5, ApartTraced
  <2>8. CASE x.pc = "first" /\ p = "partial" /\ x.mode = "fresh"
             /\ y.own = new
    <3>1. In(files', "partial") = y.own /\ y.own.data = x.samples
      BY <2>3, <2>8 DEF new, StagedOf, File
    <3>2. Sole(r, x)
      BY <1>3, <2>8, HoldersAre
    <3>3. ~Compared(files)
      <4>1. Locals(run)
        BY RunIs DEF CampaignInv, Locals
      <4> QED BY <2>8, <3>2, <4>1, SoleIs DEF Shared
    <3>4. ~Started(files)
      BY <1>5, <2>8 DEF Started, In, At, None, File
    <3>5. \A q \in Runs : ~Loaded(run[q])
      BY <3>3, <3>4 DEF Shared, Consistent, KindOK
    <3>6. OwnOK(r, y)
      BY <2>5, <3>1 DEF OwnOK
    <3>7. OpenOK(files', r, y) /\ TornOK(files', hidden', r, y)
      BY <2>6, <3>1 DEF OpenOK, TornOK, Current
    <3>8. y = run'[r]
      BY DEF y
    <3> QED BY <1>2, <2>4, <2>6, <3>5, <3>6, <3>7, <3>8, PlainTraced
  <2> QED BY <2>5, <2>7, <2>8
<1> QED BY <1>4, <1>5

(* Nothing is to be traced while nobody has loaded the partial.             *)
LEMMA NobodyTraced ==
  ASSUME NEW F, NEW H, NEW X, Locals(X), \A q \in Runs : ~Loaded(X[q])
  PROVE  Traced(F, H, X)
<1>1. \A q \in Runs : ~Writing(X[q]) /\ ~Mid(X[q])
  BY WritersAreLoaded DEF Locals
<1> QED BY <1>1 DEF Traced, ModesOK, OwnOK, OpenOK, TornOK, PendingOK, Pending

(* What a dead run left is removed.                                         *)
LEMMA TidyTraced ==
  ASSUME CampaignInv, CampaignInv', Shared(files, run, drifted),
         Traced(files, hidden, run), NEW p \in Paths, Tidy(p)
  PROVE  Traced(files', hidden', run')
<1>1. /\ files' = [files EXCEPT ![<<p, 0>>] = None] /\ run' = run
      /\ At(p).what \in {"lock", "placeholder"} /\ hidden' = hidden
  BY DEF Tidy
<1>2. files \in [Places -> Files] /\ Locals(run)
  BY RunIs DEF CampaignInv, DiskOK, Locals
<1>3. /\ \A w \in Paths : w # p => In(files', w) = In(files, w)
      /\ In(files', p) = None
      /\ \A q \in Runs : files'[Stage(q)] = files[Stage(q)]
  <2>1. \A w \in Paths : w # p => <<w, 0>> # <<p, 0>>
    OBVIOUS
  <2> QED BY <1>1, <1>2, <2>1, PlacesAre DEF In
<1>4. \A q \in Runs : Follows(files, files', q, run[q], run'[q])
  BY <1>1, <1>3 DEF Follows, Goes
<1>5. \/ In(files', "partial") = In(files, "partial")
      \/ Cleared(files, files', hidden, run)
  <2>1. CASE p # "partial"
    BY <1>3, <2>1, PathsApart
  <2>2. CASE p = "partial"
    <3>1. ~Started(files)
      BY <1>1, <2>2 DEF Started, In, At
    <3>2. ~Torn(files')
      BY <1>3, <2>2 DEF Torn, Started, None, File
    <3> QED BY <1>2, <3>1, <3>2, NobodyRelies
  <2> QED BY <2>1, <2>2
<1>6. hidden \subseteq hidden' /\ Locals(run')
  BY <1>1, <1>2
<1> QED BY <1>4, <1>5, <1>6, FollowingTraced

(* A frozen input drifts.                                                   *)
LEMMA DriftTraced ==
  ASSUME CampaignInv, CampaignInv', Traced(files, hidden, run),
         NEW input \in {"bundle", "closure"}, Drift(input)
  PROVE  Traced(files', hidden', run')
<1>1. /\ files' = files /\ hidden' = hidden
      /\ \A r \in Runs : SameButClean(run[r], run'[r])
  BY DriftMoves DEF CampaignInv, Drift
<1>2. Locals(run')
  <2>1. run' \in [Runs -> RunStates] /\ \A r \in Runs : LocalOK(r, run'[r])
    BY DEF CampaignInv, RunsOK
  <2> QED BY <2>1 DEF Locals
<1>3. \A q \in Runs : Follows(files, files', q, run[q], run'[q])
  BY <1>1 DEF Follows, Goes, SameButClean, Loaded, Mid, Writing, Sole, Holds
<1>4. hidden \subseteq hidden' /\ In(files', "partial") = In(files, "partial")
  BY <1>1
<1> QED BY <1>2, <1>3, <1>4, FollowingTraced

(* The frozen inputs are put back when nobody runs.                         *)
LEMMA RepairTraced ==
  ASSUME CampaignInv, Repair
  PROVE  Traced(files', hidden', run')
<1>1. run' = run /\ \A r \in Runs : ~Alive(r)
  BY DEF Repair
<1>2. Locals(run)
  BY RunIs DEF CampaignInv, Locals
<1>3. \A r \in Runs : ~Loaded(run[r])
  BY <1>1 DEF Alive, Loaded, Act
<1> QED BY <1>1, <1>2, <1>3, NobodyTraced

(* Every step of the program keeps the samples traced.                      *)
LEMMA CommandTraced ==
  ASSUME CampaignInv, CampaignInv', Shared(files, run, drifted),
         Traced(files, hidden, run), NEW r \in Runs, "bundle" \notin drifted,
         commandAB(r)
  PROVE  Traced(files', hidden', run')
<1>1. CASE acquireABResumeLock(r) \/ openABResume(r) \/ reserveABOutputs(r)
           \/ FirstCheckpoint(r) \/ finalizeFailure(r)
  BY <1>1, LockTraced, LoadTraced, ReserveTraced, SavingTraced
<1>2. CASE BeginBlock(r) \/ BeginSample(r) \/ VerifyBlock(r) \/ Finish(r)
           \/ PublishOrReuse(r) \/ RemoveAfterSuccess(r)
  BY <1>2, InsideTraced
<1>3. CASE EndSample(r) \/ RollbackPublished(r) \/ CloseReservations(r)
           \/ CloseResume(r)
  BY <1>3, EndSampleTraced, RollbackTraced, OutsideTraced
<1> QED BY <1>1, <1>2, <1>3 DEF commandAB

(* Every step on files keeps them traced.                                   *)
LEMMA FileStepTraced ==
  ASSUME CampaignInv, CampaignInv', Shared(files, run, drifted),
         Traced(files, hidden, run), NEW r \in Runs, "bundle" \notin drifted,
         FileStep(r)
  PROVE  Traced(files', hidden', run')
<1>1. CASE Check(r) \/ Rename(r) \/ Settle(r) \/ Link(r)
  BY <1>1, CheckTraced, RenameTraced, SettleTraced, LinkTraced
<1>2. CASE Exchange(r) \/ Confirm(r) \/ ExchangeBack(r)
  BY <1>2, ExchangeTraced, ConfirmTraced, BackTraced
<1> QED BY <1>1, <1>2 DEF FileStep

(* Every step of a campaign that nobody else touches keeps them traced.     *)
LEMMA StepTraced ==
  ASSUME CampaignInv, CampaignInv', Shared(files, run, drifted), [Next]_vars,
         Traced(files, hidden, run), "bundle" \notin drifted, ~touched'
  PROVE  Traced(files', hidden', run')
<1>1. ASSUME NEW r \in Runs,
             \/ \E mode \in {"fresh", "resume"} : Begin(r, mode)
             \/ commandAB(r) \/ FileStep(r) \/ Crash(r)
      PROVE  Traced(files', hidden', run')
  BY <1>1, OutsideTraced, CommandTraced, FileStepTraced
<1>2. ASSUME NEW p \in Paths, UserWrites(p) PROVE FALSE
  BY <1>2 DEF UserWrites
<1>3. ASSUME NEW p \in Paths, Tidy(p) PROVE Traced(files', hidden', run')
  BY <1>3, TidyTraced
<1>4. ASSUME NEW input \in {"bundle", "closure"}, Drift(input)
      PROVE  Traced(files', hidden', run')
  BY <1>4, DriftTraced
<1>5. CASE Repair
  BY <1>5, RepairTraced
<1>6. CASE UNCHANGED vars
  BY <1>6 DEF vars
<1> QED BY <1>1, <1>2, <1>3, <1>4, <1>5, <1>6 DEF Next, World

(* What has drifted stays so until it is put back.                          *)
LEMMA DriftStays ==
  ASSUME [Next]_vars, ~Repair
  PROVE  drifted \subseteq drifted'
<1>1. ASSUME NEW r \in Runs,
             \/ \E mode \in {"fresh", "resume"} : Begin(r, mode)
             \/ commandAB(r) \/ FileStep(r) \/ Crash(r)
      PROVE  drifted' = drifted
  BY <1>1
  DEF Begin, commandAB, FileStep, Crash, acquireABResumeLock, openABResume,
      reserveABOutputs, FirstCheckpoint, BeginBlock, BeginSample, EndSample,
      VerifyBlock, finalizeFailure, Finish, PublishOrReuse,
      RollbackPublished, RemoveAfterSuccess, CloseReservations, CloseResume,
      Check, Rename, Settle, Link, Exchange, Confirm, ExchangeBack, Quiet,
      Elsewhere, Fine
<1>2. ASSUME NEW p \in Paths, UserWrites(p) \/ Tidy(p)
      PROVE  drifted' = drifted
  BY <1>2 DEF UserWrites, Tidy
<1>3. ASSUME NEW input \in {"bundle", "closure"}, Drift(input)
      PROVE  drifted \subseteq drifted'
  BY <1>3 DEF Drift
<1>4. CASE UNCHANGED vars
  BY <1>4 DEF vars
<1> QED BY <1>1, <1>2, <1>3, <1>4 DEF Next, World

(* A place that gets another file, or one that was already there.           *)
LEMMA BlanksKeep ==
  ASSUME NEW F \in [Places -> Files], Blanks(F), NEW pl, NEW v, Blank(v),
         NEW G, Sets(F, G, pl, v)
  PROVE  Blanks(G)
BY DEF Blanks, Sets

LEMMA TwoBlanksKeep ==
  ASSUME NEW F \in [Places -> Files], Blanks(F), NEW pl, NEW v, Blank(v),
         NEW pm, NEW w, Blank(w),
         NEW G, G = [F EXCEPT ![pl] = v, ![pm] = w]
  PROVE  Blanks(G)
BY DEF Blanks

(* The files that the program makes.                                        *)
LEMMA NewBlanks ==
  /\ Blank(None)
  /\ \A r, D : Blank(File(r, "partial", D)) /\ Blank(File(r, "final", D))
  /\ \A r : /\ Blank(File(r, "placeholder", {})) /\ Blank(File(r, "lock", {}))
            /\ Blank(File(r, "foreign", {}))
BY DEF Blank, None, File

(* The steps on files keep locks and placeholders empty.                    *)
LEMMA FileStepBlanks ==
  ASSUME CampaignInv, Blanks(files), NEW r \in Runs, FileStep(r)
  PROVE  Blanks(files')
<1> DEFINE p == run[r].op.path
<1>1. files \in [Places -> Files] /\ Stage(r) \in Places
      /\ Quarantine(r) \in Places /\ <<"partial", 0>> \in Places
  BY PlacesAre, PathsApart DEF CampaignInv, DiskOK
<1>2. run[r] \in RunStates /\ LocalOK(r, run[r])
  BY RunIs DEF CampaignInv
<1>3. run[r].op # NoOp => <<p, 0>> \in Places
  BY <1>2, ExpectedIsOwn, PlacesAre
<1>4. \A pl \in Places : Blank(files[pl])
  BY DEF Blanks
<1>5. CASE Check(r)
  <2>1. files' = files
    BY <1>5 DEF Check, Quiet
  <2> QED BY <2>1
<1>6. CASE Rename(r)
  <2>1. run[r].op # NoOp
    BY <1>6, RenameMoves DEF CampaignInv
  <2>2. CASE At(p) = None
    <3>1. files' = files
      BY <1>6, <2>2 DEF Rename
    <3> QED BY <3>1
  <2>3. CASE At(p) # None
    <3>1. files' = [files EXCEPT ![<<p, 0>>] = None, ![Quarantine(r)] = At(p)]
      BY <1>6, <2>3 DEF Rename
    <3>2. Blank(At(p)) /\ Blank(None)
      BY <1>3, <1>4, <2>1, NewBlanks DEF At
    <3> HIDE DEF p
    <3> QED BY <1>1, <3>1, <3>2, TwoBlanksKeep
  <2> QED BY <2>2, <2>3
<1>7. CASE Settle(r)
  <2> DEFINE moved == files[Quarantine(r)]
             v == IF At(p) = None THEN moved ELSE At(p)
  <2>1. run[r].op # NoOp
    BY <1>7, SettleMoves DEF CampaignInv
  <2>2. Blank(At(p)) /\ Blank(None) /\ Blank(moved)
    BY <1>1, <1>3, <1>4, <2>1, NewBlanks DEF At
  <2>3. \/ Sets(files, files', Quarantine(r), None)
        \/ files' = [files EXCEPT ![Quarantine(r)] = None, ![<<p, 0>>] = v]
    <3>1. <<p, 0>> # Quarantine(r) /\ <<p, 0>> \in Places
      BY <1>3, <2>1, PlacesAre
    <3>2. \/ files' = [files EXCEPT ![Quarantine(r)] = None]
          \/ files' = [files EXCEPT ![Quarantine(r)] = None,
                         ![<<p, 0>>] = IF At(p) = None THEN moved ELSE @]
      BY <1>7 DEF Settle
    <3> QED BY <1>1, <3>1, <3>2 DEF Sets, At
  <2>4. Blank(v)
    BY <2>2
  <2> HIDE DEF p, v
  <2> QED BY <1>1, <2>2, <2>3, <2>4, BlanksKeep, TwoBlanksKeep
<1>8. CASE Link(r)
  <2>1. CASE At(p) # None
    <3>1. files' = files
      BY <1>8, <2>1 DEF Link
    <3> QED BY <3>1
  <2>2. CASE At(p) = None
    <3>1. Sets(files, files', <<p, 0>>, Staged(r, p))
      BY <1>8, <2>2 DEF Link, Sets
    <3>2. Blank(Staged(r, p))
      BY NewBlanks DEF Staged, saveABBaseline
    <3> HIDE DEF p
    <3> QED BY <1>1, <3>1, <3>2, BlanksKeep
  <2> QED BY <2>1, <2>2
<1>9. CASE Exchange(r)
  <2>1. \/ files' = files
        \/ files' = [files EXCEPT ![Stage(r)] = At("partial"),
                             ![<<"partial", 0>>] = Staged(r, "partial")]
    BY <1>9 DEF Exchange
  <2>2. Blank(Staged(r, "partial")) /\ Blank(At("partial"))
    BY <1>1, <1>4, NewBlanks DEF Staged, At
  <2> QED BY <1>1, <2>1, <2>2, TwoBlanksKeep
<1>10. CASE Confirm(r)
  <2>1. files' = files \/ Sets(files, files', Stage(r), None)
    BY <1>10 DEF Confirm, Sets
  <2> QED BY <1>1, <2>1, NewBlanks, BlanksKeep
<1>11. CASE ExchangeBack(r)
  <2> DEFINE back == IF At("partial") = None THEN None ELSE files[Stage(r)]
  <2>1. files' = [files EXCEPT ![<<"partial", 0>>] = back, ![Stage(r)] = None]
    BY <1>11 DEF ExchangeBack
  <2>2. Blank(back) /\ Blank(None)
    BY <1>1, <1>4, NewBlanks
  <2> HIDE DEF back
  <2> QED BY <1>1, <2>1, <2>2, TwoBlanksKeep
<1> QED BY <1>5, <1>6, <1>7, <1>8, <1>9, <1>10, <1>11 DEF FileStep

(* So does every step.                                                      *)
LEMMA StepBlanks ==
  ASSUME CampaignInv, Blanks(files), [Next]_vars
  PROVE  Blanks(files')
<1>1. files \in [Places -> Files]
  BY DEF CampaignInv, DiskOK
<1>2. ASSUME NEW r \in Runs, FileStep(r) PROVE Blanks(files')
  BY <1>2, FileStepBlanks
<1>3. ASSUME NEW r \in Runs, acquireABResumeLock(r) PROVE Blanks(files')
  <2>1. files' = files \/ Sets(files, files', <<"lock", 0>>,
                               File(r, "lock", {}))
    BY <1>3 DEF acquireABResumeLock, Sets
  <2> QED BY <1>1, <2>1, NewBlanks, BlanksKeep
<1>4. ASSUME NEW r \in Runs, reserveABOutputs(r) PROVE Blanks(files')
  <2> DEFINE p == Reserved(r)[run[r].todo + 1]
             v == IF At(p) = None THEN File(r, "placeholder", {}) ELSE At(p)
  <2>1. \/ files' = files
        \/ files' = [files EXCEPT ![<<p, 0>>] = IF @ = None THEN v ELSE @]
    BY <1>4 DEF reserveABOutputs
  <2>2. \/ files' = files
        \/ Sets(files, files', <<p, 0>>, File(r, "placeholder", {}))
    <3>1. CASE At(p) = None
      BY <1>1, <2>1, <3>1 DEF Sets, At
    <3>2. CASE At(p) # None
      BY <1>1, <2>1, <3>2 DEF At
    <3> QED BY <3>1, <3>2
  <2> HIDE DEF p
  <2> QED BY <1>1, <2>2, NewBlanks, BlanksKeep
<1>5. ASSUME NEW r \in Runs,
             \/ \E mode \in {"fresh", "resume"} : Begin(r, mode)
             \/ openABResume(r) \/ FirstCheckpoint(r) \/ BeginBlock(r)
             \/ BeginSample(r) \/ EndSample(r) \/ VerifyBlock(r)
             \/ finalizeFailure(r) \/ Finish(r) \/ PublishOrReuse(r)
             \/ RollbackPublished(r) \/ RemoveAfterSuccess(r)
             \/ CloseReservations(r) \/ CloseResume(r) \/ Crash(r)
      PROVE  Blanks(files')
  <2>1. files' = files
    BY <1>5
    DEF Begin, openABResume, FirstCheckpoint, BeginBlock, BeginSample,
        EndSample, VerifyBlock, finalizeFailure, Finish, PublishOrReuse,
        RollbackPublished, RemoveAfterSuccess, CloseReservations, CloseResume,
        Crash, Quiet
  <2> QED BY <2>1
<1>6. ASSUME NEW p \in Paths, UserWrites(p) PROVE Blanks(files')
  <2>1. Sets(files, files', <<p, 0>>, File(MaxStarts + mishaps', "foreign", {}))
    BY <1>6 DEF UserWrites, Sets
  <2> QED BY <1>1, <2>1, NewBlanks, BlanksKeep
<1>7. ASSUME NEW p \in Paths, Tidy(p) PROVE Blanks(files')
  <2>1. Sets(files, files', <<p, 0>>, None)
    BY <1>7 DEF Tidy, Sets
  <2> QED BY <1>1, <2>1, NewBlanks, BlanksKeep
<1>8. CASE \/ \E input \in {"bundle", "closure"} : Drift(input)
           \/ Repair \/ UNCHANGED vars
  <2>1. files' = files
    BY <1>8 DEF Drift, Repair, vars
  <2> QED BY <2>1
<1> QED BY <1>2, <1>3, <1>4, <1>5, <1>6, <1>7, <1>8
        DEF Next, World, commandAB

(* The invariant holds initially, and every step keeps it.                  *)
LEMMA InitHasTraced == Init => TracedInv
<1> SUFFICES ASSUME Init PROVE TracedInv
  OBVIOUS
<1>1. SharedInv /\ CampaignInv
  BY InitHasShared DEF SharedInv
<1>2. Blanks(files)
  BY NewBlanks DEF Init, Blanks
<1>3. \A r \in Runs : ~Loaded(run[r])
  BY DEF Init, NewRun, Loaded, Act
<1>4. Locals(run)
  BY <1>1, RunIs DEF CampaignInv, Locals
<1>5. Traced(files, hidden, run)
  BY <1>3, <1>4, NobodyTraced
<1> QED BY <1>1, <1>2, <1>5 DEF TracedInv

LEMMA TracedKeeps == TracedInv /\ [Next]_vars => TracedInv'
<1> SUFFICES ASSUME TracedInv, [Next]_vars PROVE TracedInv'
  OBVIOUS
<1>1. SharedInv /\ SharedInv' /\ CampaignInv /\ CampaignInv'
  BY SharedKeeps DEF TracedInv, SharedInv
<1>2. Blanks(files')
  BY <1>1, StepBlanks DEF TracedInv
<1>3. ASSUME ~touched', "bundle" \notin drifted'
      PROVE  Traced(files', hidden', run')
  <2>1. CASE Repair
    BY <1>1, <2>1, RepairTraced
  <2>2. CASE ~Repair
    <3>1. "bundle" \notin drifted
      BY <1>3, <2>2, DriftStays
    <3>2. ~touched
      BY <1>1, <1>3, TouchStays
    <3> QED BY <1>1, <1>3, <3>1, <3>2, StepTraced DEF TracedInv, SharedInv
  <2> QED BY <2>1, <2>2
<1>4. /\ Traced(files', hidden', run') <=> Traced(files, hidden, run)'
      /\ Blanks(files') <=> Blanks(files)'
  OBVIOUS
<1> QED BY <1>1, <1>2, <1>3, <1>4 DEF TracedInv

(* The samples that the files F and H hold.                                 *)
Found(F, H) == UNION ({F[pl].data : pl \in Places} \cup {f.data : f \in H})

LEMMA FoundIs ==
  ASSUME NEW F, NEW H
  PROVE  /\ \A pl \in Places : F[pl].data \subseteq Found(F, H)
         /\ \A f \in H : f.data \subseteq Found(F, H)
         /\ \A D : Saved(H, D) => D \subseteq Found(F, H)
BY DEF Found, Saved

LEMMA FoundInside ==
  ASSUME NEW F, NEW H, NEW D, \A pl \in Places : F[pl].data \subseteq D,
         \A f \in H : f.data \subseteq D
  PROVE  Found(F, H) \subseteq D
BY DEF Found

(* Two places change, and what they held is still found.                    *)
LEMMA FoundKeeps ==
  ASSUME NEW F, NEW G, NEW H, NEW K, H \subseteq K, NEW a, NEW b,
         \A pl \in Places : pl # a /\ pl # b => G[pl] = F[pl],
         F[a].data \subseteq Found(G, K), F[b].data \subseteq Found(G, K)
  PROVE  Found(F, H) \subseteq Found(G, K)
<1>1. \A pl \in Places : F[pl].data \subseteq Found(G, K)
  BY FoundIs
<1>2. \A f \in H : f.data \subseteq Found(G, K)
  BY FoundIs
<1> QED BY <1>1, <1>2 DEF Found

(* One place changes, and what it held is still found.                      *)
LEMMA OneFoundKeeps ==
  ASSUME NEW F, NEW G, NEW H, NEW K, H \subseteq K, NEW a,
         \A pl \in Places : pl # a => G[pl] = F[pl],
         F[a].data \subseteq Found(G, K)
  PROVE  Found(F, H) \subseteq Found(G, K)
<1>1. \A pl \in Places : F[pl].data \subseteq Found(G, K)
  BY FoundIs
<1>2. \A f \in H : f.data \subseteq Found(G, K)
  BY FoundIs
<1> QED BY <1>1, <1>2 DEF Found

(* When a campaign is firm the partial holds the population, or the         *)
(* comparison does.                                                         *)
LEMMA PopulationStands ==
  ASSUME NEW F, NEW X, NEW d, Shared(F, X, d), "bundle" \notin d, Firm(F, X),
         NEW r \in Runs, Loaded(X[r]), Complete(X[r].samples)
  PROVE  IF Compared(F) THEN In(F, "comparison").data = X[r].samples
         ELSE In(F, "partial").data = X[r].samples
<1>1. Settled(F, X) /\ Full(F, X, X[r].samples)
  BY OnePopulation DEF Shared
<1>2. CASE Compared(F)
  <2>1. SettledFinal(F, X, "comparison")
    BY <1>1, PathsApart DEF Settled
  <2> QED BY <1>1, <1>2, <2>1 DEF SettledFinal, Compared, Part
<1>3. CASE ~Compared(F)
  <2>1. Started(F) /\ Complete(In(F, "partial").data)
    BY <1>1, <1>3 DEF Settled
  <2>2. Full(F, X, In(F, "partial").data)
    BY <2>1 DEF Full, Val
  <2>3. In(F, "partial").data = X[r].samples
    BY <2>2, OnePopulation
  <2> QED BY <1>3, <2>3
<1> QED BY <1>2, <1>3

(* A settled removal loses no sample: a final is removed while the partial  *)
(* or the comparison holds its samples, the partial when the comparison     *)
(* does.                                                                    *)
LEMMA SettleFinds ==
  ASSUME CampaignInv, Shared(files, run, drifted), NEW r \in Runs,
         "bundle" \notin drifted, Settle(r)
  PROVE  Found(files, hidden) \subseteq Found(files', hidden')
<1> DEFINE x == run[r]
           p == x.op.path
           moved == files[Quarantine(r)]
           own == sameOwnedABFile(x.op.expected, moved)
<1>1. /\ x.op # NoOp /\ x.op.step = "settle" /\ x.op.kind \in {"link", "remove"}
  BY SettleMoves DEF CampaignInv, Settle
<1>2. /\ x \in RunStates /\ LocalOK(r, x) /\ StepsOK(x)
      /\ files \in [Places -> Files]
  BY RunIs DEF CampaignInv, DiskOK, Shared, Consistent
<1>3. p \in Paths
  BY <1>1, <1>2, ExpectedIsOwn
<1>4. /\ Quarantine(r) \in Places /\ <<p, 0>> \in Places
      /\ Quarantine(r) # <<p, 0>>
      /\ \A q \in Paths : <<q, 0>> \in Places /\ Quarantine(r) # <<q, 0>>
  BY <1>3, PlacesAre
<1>5. CASE ~own
  <2> DEFINE v == IF At(p) = None THEN moved ELSE At(p)
  <2>1. files' = [files EXCEPT ![Quarantine(r)] = None, ![<<p, 0>>] = v]
    <3>1. files' = [files EXCEPT ![Quarantine(r)] = None,
                      ![<<p, 0>>] = IF At(p) = None THEN moved ELSE @]
      BY <1>5 DEF Settle
    <3> QED BY <1>2, <1>4, <3>1 DEF At
  <2>2. hidden \subseteq hidden' /\ (At(p) # None => moved \in hidden')
    BY <1>5 DEF Settle
  <2>3. /\ files'[<<p, 0>>] = v
        /\ \A pl \in Places : pl # Quarantine(r) /\ pl # <<p, 0>> =>
                                files'[pl] = files[pl]
    <3> HIDE DEF p, v
    <3> QED BY <1>2, <1>4, <2>1
  <2>4. moved.data \subseteq Found(files', hidden')
    <3>1. CASE At(p) = None
      <4>1. files'[<<p, 0>>] = moved
        BY <2>3, <3>1
      <4> QED BY <1>4, <4>1, FoundIs
    <3>2. CASE At(p) # None
      BY <2>2, <3>2, FoundIs
    <3> QED BY <3>1, <3>2
  <2>5. At(p).data \subseteq Found(files', hidden')
    <3>1. CASE At(p) = None
      BY <3>1 DEF None, File
    <3>2. CASE At(p) # None
      <4>1. files'[<<p, 0>>] = At(p)
        BY <2>3, <3>2
      <4> QED BY <1>4, <4>1, FoundIs
    <3> QED BY <3>1, <3>2
  <2>6. files[<<p, 0>>].data \subseteq Found(files', hidden')
    BY <2>5 DEF At
  <2> HIDE DEF p, v
  <2> QED BY <2>2, <2>3, <2>4, <2>6, FoundKeeps
<1>6. CASE own
  <2>1. files' = [files EXCEPT ![Quarantine(r)] = None] /\ hidden' = hidden
        /\ moved = x.op.expected
    BY <1>6 DEF Settle, sameOwnedABFile
  <2>2. \A pl \in Places : pl # Quarantine(r) => files'[pl] = files[pl]
    BY <1>2, <2>1
  <2>3. \A q \in Paths : In(files, q).data \subseteq Found(files', hidden')
    BY <1>4, <2>2, FoundIs DEF In
  <2>4. ASSUME Loaded(x), Complete(x.samples), Firm(files, run)
        PROVE  x.samples \subseteq Found(files', hidden')
    <3>1. \/ In(files, "comparison").data = x.samples
          \/ In(files, "partial").data = x.samples
      BY <2>4, PopulationStands
    <3>2. "partial" \in Paths /\ "comparison" \in Paths
      BY PathsApart
    <3> QED BY <2>3, <3>1, <3>2
  <2>5. \/ x.op.expected.data = {}
        \/ /\ x.pc = "rollback"
           /\ x.op.expected = FinalOf(r, x.samples, p)
           /\ x.targets[p].consumed /\ ~x.targets[p].preexisting
           /\ p \in {"control", "candidate"}
        \/ x.pc = "retire" /\ x.op.expected = x.own
    <3>1. Placeholder(r).data = {} /\ Lock(r).data = {}
      BY DEF Placeholder, Lock, File
    <3>2. \/ x.op.expected \in {Placeholder(r), Lock(r)}
          \/ /\ x.pc = "rollback"
             /\ x.op.expected = FinalOf(r, x.samples, p)
             /\ x.targets[p].consumed /\ ~x.targets[p].preexisting
             /\ p \in {"control", "candidate"}
          \/ x.pc = "retire" /\ x.op.expected = x.own
      BY <1>1, <1>2 DEF LocalOK, OpOK, Sequel, Lock
    <3> QED BY <3>1, <3>2
  <2>6. x.pc \in {"rollback", "retire"} => Loaded(x) /\ Complete(x.samples)
    <3>1. x.pc \in {"rollback", "retire"} => Writing(x)
      BY DEF Writing, Act
    <3>2. x.pc \in {"rollback", "retire"} => Complete(x.samples)
      BY <1>2 DEF LocalOK, PhaseOK
    <3> QED BY <1>2, <3>1, <3>2, WritersAreLoaded
  <2>7. moved.data \subseteq Found(files', hidden')
    <3>1. CASE x.op.expected.data = {}
      BY <2>1, <3>1
    <3>2. CASE /\ x.pc = "rollback"
               /\ x.op.expected = FinalOf(r, x.samples, p)
               /\ x.targets[p].consumed /\ ~x.targets[p].preexisting
               /\ p \in {"control", "candidate"}
      <4>1. Consumed(x)
        BY <3>2, PathsApart DEF Consumed, Spent, Act
      <4>2. Firm(files, run)
        BY <4>1 DEF Firm
      <4>3. moved.data \subseteq x.samples
        BY <2>1, <3>2 DEF FinalOf, File, Part
      <4> QED BY <2>4, <2>6, <3>2, <4>2, <4>3
    <3>3. CASE x.pc = "retire" /\ x.op.expected = x.own
      <4>1. Compared(files)
        BY <3>3 DEF Shared, Consistent, Guarded, HoldsLock
      <4>2. Firm(files, run)
        BY <4>1, PathsApart DEF Firm, Compared
      <4>3. moved.data = x.samples
        BY <1>2, <2>1, <3>3 DEF StepsOK
      <4> QED BY <2>4, <2>6, <3>3, <4>2, <4>3
    <3> QED BY <2>5, <3>1, <3>2, <3>3
  <2>8. hidden \subseteq hidden'
        /\ files[Quarantine(r)].data \subseteq Found(files', hidden')
    BY <2>1, <2>7
  <2> DEFINE a == Quarantine(r)
  <2>9. files[a].data \subseteq Found(files', hidden')
        /\ \A pl \in Places : pl # a => files'[pl] = files[pl]
    BY <2>2, <2>8
  <2> HIDE DEF a, x
  <2> QED BY <2>8, <2>9, OneFoundKeeps
<1> QED BY <1>5, <1>6

(* A confirmed exchange removes a partial whose samples the new one has.    *)
LEMMA ConfirmFinds ==
  ASSUME CampaignInv, Traced(files, hidden, run), NEW r \in Runs, Confirm(r)
  PROVE  Found(files, hidden) \subseteq Found(files', hidden')
<1> DEFINE x == run[r]
           owned == /\ files[Stage(r)] = x.op.expected
                    /\ At("partial") = StagedOf(r, x, "partial")
<1>1. /\ x.op.kind = "replace"
      /\ Staged(r, "partial") = StagedOf(r, x, "partial")
  BY ConfirmMoves DEF CampaignInv
<1>2. x \in RunStates /\ LocalOK(r, x) /\ files \in [Places -> Files]
  BY RunIs DEF CampaignInv, DiskOK
<1>3. Loaded(x) /\ x.op.expected = x.own
  BY <1>1, <1>2, WritersAreLoaded
<1>4. hidden' = hidden
  BY DEF Confirm
<1>5. CASE ~owned
  <2>1. files' = files
    BY <1>1, <1>5 DEF Confirm
  <2> QED BY <1>4, <2>1
<1>6. CASE owned
  <2>1. files' = [files EXCEPT ![Stage(r)] = None]
    BY <1>1, <1>6 DEF Confirm
  <2>2. /\ <<"partial", 0>> \in Places /\ <<"partial", 0>> # Stage(r)
    BY PlacesAre, PathsApart
  <2>3. \A pl \in Places : pl # Stage(r) => files'[pl] = files[pl]
    BY <1>2, <2>1
  <2>4. files[Stage(r)].data \subseteq x.samples
    BY <1>3, <1>6 DEF Traced, OwnOK
  <2>5. files'[<<"partial", 0>>].data = x.samples
    BY <1>6, <2>2, <2>3 DEF At, StagedOf, File
  <2>6. files[Stage(r)].data \subseteq Found(files', hidden')
    BY <2>2, <2>4, <2>5, FoundIs
  <2> DEFINE a == Stage(r)
  <2>7. files[a].data \subseteq Found(files', hidden')
        /\ \A pl \in Places : pl # a => files'[pl] = files[pl]
    BY <2>3, <2>6
  <2>8. hidden \subseteq hidden'
    BY <1>4
  <2> HIDE DEF a, x
  <2> QED BY <2>7, <2>8, OneFoundKeeps
<1> QED BY <1>5, <1>6

(* An exchange taken back drops a partial only if its samples are the only  *)
(* population, and that is kept.                                            *)
LEMMA BackFinds ==
  ASSUME CampaignInv, Shared(files, run, drifted), Traced(files, hidden, run),
         NEW r \in Runs, "bundle" \notin drifted, ExchangeBack(r)
  PROVE  Found(files, hidden) \subseteq Found(files', hidden')
<1> DEFINE x == run[r]
           S == x.samples
           here == At("partial")
           there == files[Stage(r)]
           back == IF here = None THEN None ELSE there
           left == IF back = None THEN there ELSE here
<1>1. /\ x.op.step = "back" /\ x.op.kind = "replace"
      /\ Staged(r, "partial") = Draft(r, S)
  BY BackMoves DEF CampaignInv, ExchangeBack, StagedOf, Draft
<1>2. /\ x \in RunStates /\ LocalOK(r, x) /\ files \in [Places -> Files]
      /\ there # None
  BY <1>1, RunIs DEF CampaignInv, DiskOK, Private
<1>3. Mid(x) /\ Writing(x) /\ Loaded(x)
  BY <1>1, <1>2, WritersAreLoaded DEF Mid
<1>4. /\ OpenOK(files, r, x) /\ PendingOK(files, hidden, run, r)
      /\ KindOK(files, r, x)
  BY DEF Traced, Shared, Consistent
<1>5. Complete(S)
  BY <1>1, <1>3, <1>4 DEF OpenOK, Current, Swapped
<1>6. hidden \subseteq hidden' /\ (left # Draft(r, S) => left \in hidden')
  BY <1>1 DEF ExchangeBack
<1>7. /\ <<"partial", 0>> \in Places /\ <<"partial", 0>> # Stage(r)
      /\ Stage(r) \in Places
      /\ <<"comparison", 0>> \in Places /\ <<"comparison", 0>> # Stage(r)
      /\ <<"comparison", 0>> # <<"partial", 0>>
  BY PlacesAre, PathsApart
<1>8. /\ files'[<<"partial", 0>>] = back
      /\ \A pl \in Places : pl # Stage(r) /\ pl # <<"partial", 0>> =>
                              files'[pl] = files[pl]
  <2>1. files' = [files EXCEPT ![<<"partial", 0>>] = back, ![Stage(r)] = None]
    BY DEF ExchangeBack
  <2> HIDE DEF back
  <2> QED BY <1>2, <1>7, <2>1
<1>9. Draft(r, S).data = S /\ Draft(r, S).what = "partial"
      /\ None.data = {} /\ None.what = "none"
  BY DEF Draft, File, None
<1>10. ASSUME Compared(files) PROVE S \subseteq Found(files', hidden')
  <2>1. Firm(files, run)
    BY <1>10, PathsApart DEF Firm, Compared
  <2>2. In(files, "comparison").data = S
    BY <1>3, <1>5, <1>10, <2>1, PopulationStands
  <2>3. files'[<<"comparison", 0>>].data = S
    BY <1>7, <1>8, <2>2 DEF In
  <2> QED BY <1>7, <2>3, FoundIs
<1> HIDE DEF S
<1>11. left.data \subseteq Found(files', hidden')
  <2>1. CASE left # Draft(r, S)
    BY <1>6, <2>1, FoundIs
  <2>2. CASE left = Draft(r, S)
    <3>1. SUFFICES ASSUME ~Compared(files)
                   PROVE  S \subseteq Found(files', hidden')
      BY <1>9, <1>10, <2>2
    <3>2. Started(files) /\ there.what = "partial"
      BY <1>3, <1>4, <3>1 DEF KindOK
    <3>3. here # None
      BY <1>9, <3>2 DEF Started, In, At
    <3>4. back = there /\ here = Draft(r, S) /\ In(files, "partial") = here
      BY <1>2, <2>2, <3>3 DEF In, At
    <3>5. CASE Complete(there.data)
      <4>1. Full(files, run, there.data)
        BY <1>3, <3>2, <3>5 DEF Full, Val, Knows, StageIs
      <4>2. there.data = S
        BY <1>3, <1>5, <4>1, OnePopulation DEF S
      <4> QED BY <1>7, <1>8, <3>4, <4>2, FoundIs
    <3>6. CASE ~Complete(there.data)
      <4>1. Pending(files, r, x)
        BY <1>3, <1>5, <3>2, <3>6 DEF Pending, S
      <4>2. Saved(hidden, S)
        BY <1>1, <1>4, <3>4, <4>1 DEF PendingOK, S
      <4>3. Saved(hidden', S)
        BY <1>6, <4>2 DEF Saved
      <4> QED BY <4>3, FoundIs
    <3> QED BY <3>5, <3>6
  <2> QED BY <2>1, <2>2
<1>12. /\ here.data \subseteq Found(files', hidden')
       /\ there.data \subseteq Found(files', hidden')
  <2>1. CASE here = None
    BY <1>9, <1>11, <2>1
  <2>2. CASE here # None
    <3>1. back = there /\ left = here
      BY <1>2, <2>2
    <3> QED BY <1>7, <1>8, <1>11, <3>1, FoundIs
  <2> QED BY <2>1, <2>2
<1>13. files[<<"partial", 0>>].data \subseteq Found(files', hidden')
  BY <1>12 DEF At
<1> DEFINE a == Stage(r)
           b == <<"partial", 0>>
<1>14. /\ files[a].data \subseteq Found(files', hidden')
       /\ files[b].data \subseteq Found(files', hidden')
       /\ \A pl \in Places : pl # a /\ pl # b => files'[pl] = files[pl]
  BY <1>8, <1>12, <1>13
<1>15. hidden \subseteq hidden'
  BY <1>6
<1> HIDE DEF a, b, back, left, here, there, x
<1> DEFINE D == Found(files', hidden')
<1>16. /\ \A pl \in Places : files'[pl].data \subseteq D
       /\ \A f \in hidden' : f.data \subseteq D
  BY FoundIs
<1> HIDE DEF D
<1>17. \A pl \in Places : files[pl].data \subseteq D
  BY <1>14, <1>16 DEF D
<1>18. \A f \in hidden : f.data \subseteq D
  BY <1>15, <1>16
<1>19. Found(files, hidden) \subseteq D
  BY <1>17, <1>18, FoundInside
<1> QED BY <1>19 DEF D

(* A step that no world disturbs loses no sample.                           *)
LEMMA LockFinds ==
  ASSUME CampaignInv, NEW r \in Runs, acquireABResumeLock(r)
  PROVE  Found(files, hidden) \subseteq Found(files', hidden')
<1> DEFINE a == <<"lock", 0>>
<1>1. files \in [Places -> Files] /\ hidden' = hidden /\ a \in Places
  BY PlacesAre, PathsApart DEF CampaignInv, DiskOK, acquireABResumeLock
<1>2. CASE At("lock") = None
  <2>1. files[a].data \subseteq Found(files', hidden')
    BY <1>2 DEF At, None, File
  <2>2. \A pl \in Places : pl # a => files'[pl] = files[pl]
    BY <1>1, <1>2 DEF acquireABResumeLock
  <2>3. hidden \subseteq hidden'
    BY <1>1
  <2> HIDE DEF a
  <2> QED BY <2>1, <2>2, <2>3, OneFoundKeeps
<1>3. CASE At("lock") # None
  <2>1. files' = files
    BY <1>3 DEF acquireABResumeLock
  <2> QED BY <1>1, <2>1
<1> QED BY <1>2, <1>3

LEMMA ReserveFinds ==
  ASSUME CampaignInv, NEW r \in Runs, reserveABOutputs(r)
  PROVE  Found(files, hidden) \subseteq Found(files', hidden')
<1> DEFINE p == Reserved(r)[run[r].todo + 1]
           a == <<p, 0>>
           v == IF At(p) = None THEN File(r, "placeholder", {}) ELSE At(p)
<1>1. files \in [Places -> Files] /\ hidden' = hidden
  BY DEF CampaignInv, DiskOK, reserveABOutputs
<1>2. \/ files' = files
      \/ files' = [files EXCEPT ![a] = IF @ = None THEN v ELSE @]
  BY DEF reserveABOutputs
<1>3. CASE At(p) = None
  <2>1. files[a].data \subseteq Found(files', hidden')
    BY <1>3 DEF At, None, File
  <2>2. \A pl \in Places : pl # a => files'[pl] = files[pl]
    <3> HIDE DEF a, v
    <3> QED BY <1>1, <1>2
  <2>3. hidden \subseteq hidden'
    BY <1>1
  <2> HIDE DEF a
  <2> QED BY <2>1, <2>2, <2>3, OneFoundKeeps
<1>4. CASE At(p) # None
  <2>1. files[a] # None
    BY <1>4 DEF At
  <2>2. files' = files
    <3> HIDE DEF a, v
    <3> QED BY <1>1, <1>2, <2>1
  <2> QED BY <1>1, <2>2
<1> QED BY <1>3, <1>4

LEMMA LinkFinds ==
  ASSUME CampaignInv, NEW r \in Runs, Link(r)
  PROVE  Found(files, hidden) \subseteq Found(files', hidden')
<1> DEFINE p == run[r].op.path
           a == <<p, 0>>
<1>1. files \in [Places -> Files] /\ hidden' = hidden
  BY DEF CampaignInv, DiskOK, Link
<1>2. CASE At(p) = None
  <2>1. files[a].data \subseteq Found(files', hidden')
    BY <1>2 DEF At, None, File
  <2>2. files' = [files EXCEPT ![a] = Staged(r, p)]
    BY <1>2 DEF Link
  <2>3. \A pl \in Places : pl # a => files'[pl] = files[pl]
    <3> HIDE DEF a, p
    <3> QED BY <1>1, <2>2
  <2>4. hidden \subseteq hidden'
    BY <1>1
  <2> HIDE DEF a
  <2> QED BY <2>1, <2>3, <2>4, OneFoundKeeps
<1>3. CASE At(p) # None
  <2>1. files' = files
    BY <1>3 DEF Link
  <2> QED BY <1>1, <2>1
<1> QED BY <1>2, <1>3

(* What is renamed or exchanged goes to a place that was empty.             *)
LEMMA MovedIsFound ==
  ASSUME NEW F, NEW G, NEW H, NEW K, H \subseteq K,
         NEW a \in Places, NEW b \in Places, F[b] = None, G[b] = F[a],
         \A pl \in Places : pl # a /\ pl # b => G[pl] = F[pl]
  PROVE  Found(F, H) \subseteq Found(G, K)
<1>1. G[b].data \subseteq Found(G, K)
  BY FoundIs
<1>2. F[b].data \subseteq Found(G, K) /\ F[a].data \subseteq Found(G, K)
  BY <1>1 DEF None, File
<1> QED BY <1>2, FoundKeeps

LEMMA RenameFinds ==
  ASSUME CampaignInv, NEW r \in Runs, Rename(r)
  PROVE  Found(files, hidden) \subseteq Found(files', hidden')
<1> DEFINE x == run[r]
           p == x.op.path
           a == <<p, 0>>
           b == Quarantine(r)
<1>1. files \in [Places -> Files] /\ hidden' = hidden
  BY DEF CampaignInv, DiskOK, Rename
<1>2. /\ x.op # NoOp /\ x.op.step = "rename" /\ x.pc # "dead"
      /\ x \in RunStates /\ LocalOK(r, x)
  BY RenameMoves, RunIs DEF CampaignInv, Rename, Alive
<1>3. files[b] = None
  BY <1>2 DEF CampaignInv, DiskOK, Private
<1>4. p \in Paths
  BY <1>2, ExpectedIsOwn
<1>5. a \in Places /\ b \in Places /\ a # b
  BY <1>4, PlacesAre
<1>6. CASE At(p) = None
  <2>1. files' = files
    BY <1>6 DEF Rename
  <2> QED BY <1>1, <2>1
<1>7. CASE At(p) # None
  <2>1. files' = [files EXCEPT ![a] = None, ![b] = At(p)]
    BY <1>7 DEF Rename
  <2>2. At(p) = files[a]
    BY DEF At
  <2>3. hidden \subseteq hidden'
    BY <1>1
  <2> HIDE DEF a, b, p, x
  <2>4. /\ files'[b] = files[a]
        /\ \A pl \in Places : pl # a /\ pl # b => files'[pl] = files[pl]
    BY <1>1, <1>5, <2>1, <2>2
  <2> QED BY <1>3, <1>5, <2>3, <2>4, MovedIsFound
<1> QED BY <1>6, <1>7

LEMMA ExchangeFinds ==
  ASSUME CampaignInv, NEW r \in Runs, Exchange(r)
  PROVE  Found(files, hidden) \subseteq Found(files', hidden')
<1> DEFINE x == run[r]
           a == <<"partial", 0>>
           b == Stage(r)
<1>1. files \in [Places -> Files] /\ hidden' = hidden
  BY DEF CampaignInv, DiskOK, Exchange
<1>2. x.op.step = "exchange" /\ x.pc # "dead"
  BY DEF Exchange, Alive
<1>3. files[b] = None
  BY <1>2 DEF CampaignInv, DiskOK, Private
<1>4. a \in Places /\ b \in Places /\ a # b
  BY PlacesAre, PathsApart
<1>5. \/ files' = files
      \/ files' = [files EXCEPT ![b] = At("partial"),
                                ![a] = Staged(r, "partial")]
  BY DEF Exchange
<1>6. CASE files' = files
  BY <1>1, <1>6
<1>7. CASE files' = [files EXCEPT ![b] = At("partial"),
                                  ![a] = Staged(r, "partial")]
  <2>1. At("partial") = files[a]
    BY DEF At
  <2>2. hidden \subseteq hidden'
    BY <1>1
  <2> HIDE DEF a, b
  <2>3. /\ files'[b] = files[a]
        /\ \A pl \in Places : pl # a /\ pl # b => files'[pl] = files[pl]
    BY <1>1, <1>4, <1>7, <2>1
  <2> QED BY <1>3, <1>4, <2>2, <2>3, MovedIsFound
<1> QED BY <1>5, <1>6, <1>7

LEMMA TidyFinds ==
  ASSUME CampaignInv, Blanks(files), NEW p \in Paths, Tidy(p)
  PROVE  Found(files, hidden) \subseteq Found(files', hidden')
<1> DEFINE a == <<p, 0>>
<1>1. files \in [Places -> Files] /\ hidden' = hidden /\ a \in Places
  BY PlacesAre DEF CampaignInv, DiskOK, Tidy
<1>2. files[a].data = {}
  BY <1>1 DEF Blanks, Blank, Tidy, At
<1>3. files' = [files EXCEPT ![a] = None]
  BY DEF Tidy
<1>4. hidden \subseteq hidden' /\ files[a].data \subseteq Found(files', hidden')
  BY <1>1, <1>2
<1> HIDE DEF a
<1>5. \A pl \in Places : pl # a => files'[pl] = files[pl]
  BY <1>1, <1>3
<1> QED BY <1>4, <1>5, OneFoundKeeps

(* No step loses a sample, but for a drifted bundle or a replaced file.     *)
LEMMA StepFinds ==
  ASSUME TracedInv, [Next]_vars, ~touched', "bundle" \notin drifted
  PROVE  Found(files, hidden) \subseteq Found(files', hidden')
<1>1. CampaignInv /\ Blanks(files)
  BY DEF TracedInv, SharedInv
<1>2. ~touched
  BY <1>1, TouchStays
<1>3. Shared(files, run, drifted) /\ Traced(files, hidden, run)
  BY <1>2 DEF TracedInv, SharedInv
<1>4. ASSUME NEW r \in Runs, FileStep(r)
      PROVE  Found(files, hidden) \subseteq Found(files', hidden')
  <2>1. CASE Check(r)
    <3>1. files' = files /\ hidden' = hidden
      BY <2>1 DEF Check, Quiet
    <3> QED BY <3>1
  <2> QED BY <1>1, <1>3, <1>4, <2>1, RenameFinds, SettleFinds, LinkFinds,
             ExchangeFinds, ConfirmFinds, BackFinds DEF FileStep
<1>5. ASSUME NEW r \in Runs, commandAB(r)
      PROVE  Found(files, hidden) \subseteq Found(files', hidden')
  <2>1. CASE acquireABResumeLock(r)
    BY <1>1, <2>1, LockFinds
  <2>2. CASE reserveABOutputs(r)
    BY <1>1, <2>2, ReserveFinds
  <2>3. CASE ~acquireABResumeLock(r) /\ ~reserveABOutputs(r)
    <3>1. files' = files /\ hidden' = hidden
      BY <1>5, <2>3
      DEF commandAB, openABResume, FirstCheckpoint, BeginBlock, BeginSample,
          EndSample, VerifyBlock, finalizeFailure, Finish, PublishOrReuse,
          RollbackPublished, RemoveAfterSuccess, CloseReservations,
          CloseResume, Crash, Quiet
    <3> QED BY <3>1
  <2> QED BY <2>1, <2>2, <2>3
<1>6. ASSUME NEW r \in Runs, NEW mode \in {"fresh", "resume"}, Begin(r, mode)
      PROVE  Found(files, hidden) \subseteq Found(files', hidden')
  <2>1. files' = files /\ hidden' = hidden
    BY <1>6 DEF Begin, Quiet
  <2> QED BY <2>1
<1>7. ASSUME World
      PROVE  Found(files, hidden) \subseteq Found(files', hidden')
  <2>1. ASSUME NEW r \in Runs, Crash(r)
        PROVE  Found(files, hidden) \subseteq Found(files', hidden')
    <3>1. files' = files /\ hidden' = hidden
      BY <2>1 DEF Crash, Quiet
    <3> QED BY <3>1
  <2>2. ASSUME NEW p \in Paths, UserWrites(p) PROVE FALSE
    BY <2>2 DEF UserWrites
  <2>3. ASSUME NEW p \in Paths, Tidy(p)
        PROVE  Found(files, hidden) \subseteq Found(files', hidden')
    BY <1>1, <2>3, TidyFinds
  <2>4. CASE Repair \/ \E input \in {"bundle", "closure"} : Drift(input)
    <3>1. files' = files /\ hidden' = hidden
      BY <2>4 DEF Drift, Repair
    <3> QED BY <3>1
  <2> QED BY <1>7, <2>1, <2>2, <2>3, <2>4 DEF World
<1>8. CASE UNCHANGED vars
  <2>1. files' = files /\ hidden' = hidden
    BY <1>8 DEF vars
  <2> QED BY <2>1
<1> QED BY <1>4, <1>5, <1>6, <1>7, <1>8 DEF Next

(* A paid sample that is on disk stays on disk, whoever dies, fails, rolls  *)
(* back or retires the partial, unless its block was voided by a drifted    *)
(* bundle or somebody else replaced a file (ab.go, savePartial to the end). *)
THEOREM CampaignKeepsEvidence == Spec => EvidenceSurvives
<1>1. TracedInv /\ [Next]_vars =>
        [Evidence \subseteq Evidence' \/ touched' \/ "bundle" \in drifted]_vars
  <2>1. SUFFICES ASSUME TracedInv, [Next]_vars,
                        ~touched', "bundle" \notin drifted
                 PROVE  Evidence \subseteq Evidence'
    OBVIOUS
  <2>2. Found(files, hidden) \subseteq Found(files', hidden')
    BY <2>1, StepFinds
  <2> QED BY <2>2 DEF Evidence, Found
<1> QED BY <1>1, InitHasTraced, TracedKeeps, PTL DEF Spec, EvidenceSurvives

===============================================================================
