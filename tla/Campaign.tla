------------------------------- MODULE Campaign -------------------------------
(***************************************************************************)
(* A frozen A/B campaign: commandAB claims its four output paths, calls    *)
(* the model once for every planned coordinate, replaces its partial       *)
(* artifact after every sample, publishes three finals and retires the     *)
(* partial.  A later run may resume the partial.  Runs die at any step,    *)
(* two of them may overlap, the frozen inputs may drift, and somebody else *)
(* uses the same directory.                                                *)
(*                                                                         *)
(* A file is known by its inode: who made it, what it is and what it       *)
(* holds.  Every removal, exchange and link is a step of its own.          *)
(***************************************************************************)
EXTENDS Naturals, Sequences, FiniteSets

CONSTANTS
    Blocks,     \* the plan: for each block the order of its two arms
    MaxStarts,  \* bound on the runs of the command
    MaxMishaps  \* bound on deaths, failures, overlaps, drifts and
                \* foreign files

ASSUME PlanIsBalanced ==
    /\ Blocks \in Seq(Seq({"control", "candidate"}))
    /\ \A b \in DOMAIN Blocks :
          Len(Blocks[b]) = 2 /\ Blocks[b][1] # Blocks[b][2]
ASSUME BoundsAreNatural == {MaxStarts, MaxMishaps} \subseteq Nat

VARIABLES
    run,     \* each run of the command
    files,   \* what each path of the result directory names
    paid,    \* how often the model was called for a coordinate
    drifted, \* frozen inputs that are no longer what was frozen
    users,   \* files of somebody else that they have not removed
    hidden,  \* files kept under a private name, out of the campaign's way
    touched, \* somebody else has changed a path of the campaign
    mishaps

vars == <<run, files, paid, drifted, users, hidden, touched, mishaps>>

Runs == 1..MaxStarts
Arms == {"control", "candidate"}
Coordinates == (DOMAIN Blocks) \X Arms
Finals == <<"control", "candidate", "comparison">>
Outputs == {"partial", "control", "candidate", "comparison"}
Paths == Outputs \cup {"lock"}
Places == (Paths \X {0}) \cup ({"stage", "quarantine"} \X Runs)

\* A sample: its coordinate, the call it comes from, and whether the frozen
\* closure was intact while it ran.
Samples == Coordinates \X (1..MaxStarts) \X BOOLEAN

File(by, what, data) == [by |-> by, what |-> what, data |-> data]
None == File(0, "none", {})
Files == [by : 0..(MaxStarts + MaxMishaps),
          what : {"none", "placeholder", "partial", "final", "lock",
                  "foreign"},
          data : SUBSET Samples]

At(path) == files[<<path, 0>>]
Stage(r) == <<"stage", r>>
Quarantine(r) == <<"quarantine", r>>

Happens == mishaps < MaxMishaps /\ mishaps' = mishaps + 1
Fine == UNCHANGED mishaps

----------------------------------------------------------------------------
(* The population *)

CoordinatesOf(samples) == {s[1] : s \in samples}

abBlockComplete(samples, b) ==
    \A arm \in Arms : <<b, arm>> \in CoordinatesOf(samples)

validateCompleteABPopulation(samples) ==
    /\ CoordinatesOf(samples) = Coordinates
    /\ Cardinality(samples) = Cardinality(Coordinates)

OpenBlocks(samples) == {b \in DOMAIN Blocks : ~abBlockComplete(samples, b)}

\* Mutant: samples of the block that are already there are not skipped.
FirstCoordinate(samples, b) == <<b, Blocks[b][1]>>

\* The first coordinate of the block's order that has no sample yet.
NextCoordinate(samples, b) ==
    IF <<b, Blocks[b][1]>> \notin CoordinatesOf(samples)
    THEN <<b, Blocks[b][1]>> ELSE <<b, Blocks[b][2]>>

\* A partial is loaded strictly: its samples are distinct coordinates of
\* the plan.
validatePartialABArtifact(file) ==
    /\ file.what = "partial"
    /\ Cardinality(CoordinatesOf(file.data)) = Cardinality(file.data)

\* What a final of the campaign holds: the samples of its arm, or all.
saveABBaseline(r, path) ==
    File(r, "final",
         IF path = "comparison" THEN run[r].samples
         ELSE {s \in run[r].samples : s[1][2] = path})

----------------------------------------------------------------------------

NoOp == [kind |-> "none", step |-> "none", path |-> "lock",
         expected |-> None, then |-> "done", otherwise |-> "done"]

Unreserved == [info |-> None, published |-> None, preexisting |-> FALSE,
               consumed |-> FALSE]

Steps == {"idle", "lock", "load", "reserve", "first", "block", "next",
          "call", "verify", "finish", "publish",
          "rollback", "fail", "retire", "close", "unlock", "done", "dead"}

Operations ==
    [kind : {"none", "remove", "replace", "link"},
     step : {"none", "check", "rename", "settle", "link", "exchange",
             "confirm", "back"},
     path : Paths, expected : Files, then : Steps, otherwise : Steps]

Reservations == [info : Files, published : Files, preexisting : BOOLEAN,
                 consumed : BOOLEAN]

RunStates ==
    [pc : Steps, mode : {"none", "fresh", "resume"},
     samples : SUBSET Samples, kept : SUBSET Samples,
     block : 0..Len(Blocks), clean : BOOLEAN, forced : BOOLEAN,
     own : Files, todo : 0..4, targets : [Outputs -> Reservations],
     op : Operations]

TypeOK ==
    /\ run \in [Runs -> RunStates]
    /\ files \in [Places -> Files]
    /\ paid \in [Coordinates -> 0..MaxStarts]
    /\ drifted \subseteq {"bundle", "closure"}
    /\ users \subseteq Files /\ hidden \subseteq Files
    /\ touched \in BOOLEAN
    /\ mishaps \in 0..MaxMishaps

NewRun == [pc |-> "idle", mode |-> "none", samples |-> {}, kept |-> {},
           block |-> 0, clean |-> TRUE, forced |-> FALSE, own |-> None,
           todo |-> 0, targets |-> [o \in Outputs |-> Unreserved],
           op |-> NoOp]

Init ==
    /\ run = [r \in Runs |-> NewRun]
    /\ files = [p \in Places |-> None]
    /\ paid = [c \in Coordinates |-> 0]
    /\ drifted = {}
    /\ users = {} /\ hidden = {}
    /\ touched = FALSE
    /\ mishaps = 0

----------------------------------------------------------------------------
(* Steps on files, shared by the operations below *)

Alive(r) == run[r].pc \notin {"idle", "done", "dead"}

Is(r, pc) == run[r].pc = pc /\ run[r].op = NoOp

\* The rest of the directory and of the campaign stays as it is.
Elsewhere == UNCHANGED <<paid, drifted, users, touched>>
Quiet == Elsewhere /\ UNCHANGED <<files, hidden>>

\* A run that returns keeps its placeholders only, and then nothing.
Left(r, pc) ==
    CASE pc = "done" -> [NewRun EXCEPT !.pc = pc]
      [] pc = "close" -> [NewRun EXCEPT !.pc = pc, !.mode = run[r].mode,
                                        !.targets = run[r].targets]
      [] OTHER -> [run[r] EXCEPT !.op = NoOp, !.pc = pc]

Ends(r, pc) == run' = [run EXCEPT ![r] = Left(r, pc)]

Continues(r, step) == run' = [run EXCEPT ![r].op.step = step]

\* The file that an operation puts in place.
Staged(r, path) ==
    IF path = "partial" THEN File(r, "partial", run[r].samples)
    ELSE saveABBaseline(r, path)

removeOwnedABFile(path, expected, then, otherwise) ==
    [kind |-> "remove", step |-> "check", path |-> path,
     expected |-> expected, then |-> then, otherwise |-> otherwise]

\* A fresh placeholder is retired and the staged file is linked.
PublishStaged(r, path, then, otherwise) ==
    [kind |-> "link", step |-> "check", path |-> path,
     expected |-> run[r].targets[path].info,
     then |-> then, otherwise |-> otherwise]

\* A resume checks its partial first; a fresh run exchanges at once.
replaceOwnedABFile(r, then, otherwise) ==
    [kind |-> "replace", path |-> "partial", expected |-> run[r].own,
     step |-> IF run[r].mode = "resume" THEN "check" ELSE "exchange",
     then |-> then, otherwise |-> otherwise]

savePartial(r, then, otherwise) ==
    IF run[r].mode = "fresh" /\ ~run[r].targets["partial"].consumed
    THEN PublishStaged(r, "partial", then, otherwise)
    ELSE replaceOwnedABFile(r, then, otherwise)

\* Mutant: any file at the path is taken for the owned one.
sameNamedABFile(expected, file) == expected # None

sameOwnedABFile(expected, file) == expected # None /\ file = expected

Check(r) ==
    LET op == run[r].op IN
    /\ Alive(r) /\ op.step = "check"
    /\ IF sameOwnedABFile(op.expected, At(op.path))
       THEN Continues(r, IF op.kind = "replace" THEN "exchange"
                         ELSE "rename")
       ELSE Ends(r, op.otherwise)
    /\ Quiet /\ Fine

\* Whatever the path names by now goes to a private quarantine.
Rename(r) ==
    LET op == run[r].op IN
    /\ Alive(r) /\ op.step = "rename"
    /\ IF At(op.path) = None
       THEN Ends(r, op.otherwise) /\ UNCHANGED files
       ELSE /\ Continues(r, "settle")
            /\ files' = [files EXCEPT ![<<op.path, 0>>] = None,
                                      ![Quarantine(r)] = At(op.path)]
    /\ Elsewhere /\ UNCHANGED hidden /\ Fine

\* The owned inode is unlinked; any other one goes back, without
\* replacing what has appeared at the path.
Settle(r) ==
    LET op == run[r].op
        moved == files[Quarantine(r)]
    IN
    /\ Alive(r) /\ op.step = "settle"
    /\ \/ /\ sameOwnedABFile(op.expected, moved)
          /\ files' = [files EXCEPT ![Quarantine(r)] = None]
          /\ IF op.kind = "link"
             THEN run' = [run EXCEPT
                             ![r].op.step = "link",
                             ![r].targets[op.path].consumed = TRUE]
             ELSE Ends(r, op.then)
          /\ UNCHANGED hidden
       \/ /\ ~sameOwnedABFile(op.expected, moved)
          /\ LET free == At(op.path) = None IN
             /\ files' = [files EXCEPT
                             ![Quarantine(r)] = None,
                             ![<<op.path, 0>>] = IF free THEN moved ELSE @]
             /\ hidden' = IF free THEN hidden ELSE hidden \cup {moved}
          /\ Ends(r, op.otherwise)
    /\ Elsewhere /\ Fine

\* A hard link never replaces a file.
Link(r) ==
    LET op == run[r].op
        new == Staged(r, op.path)
    IN
    /\ Alive(r) /\ op.step = "link"
    /\ IF At(op.path) = None
       THEN /\ files' = [files EXCEPT ![<<op.path, 0>>] = new]
            /\ run' = [run EXCEPT ![r] =
                   [Left(r, op.then) EXCEPT
                       !.targets[op.path].published = new,
                       !.own = IF op.path = "partial" THEN new ELSE @]]
       ELSE Ends(r, op.otherwise) /\ UNCHANGED files
    /\ Elsewhere /\ UNCHANGED hidden /\ Fine

Exchange(r) ==
    LET op == run[r].op IN
    /\ Alive(r) /\ op.step = "exchange"
    /\ IF op.expected = None \/ At("partial") = None
       THEN Ends(r, op.otherwise) /\ UNCHANGED files
       ELSE /\ Continues(r, "confirm")
            /\ files' = [files EXCEPT ![Stage(r)] = At("partial"),
                             ![<<"partial", 0>>] = Staged(r, "partial")]
    /\ Elsewhere /\ UNCHANGED hidden /\ Fine

Confirm(r) ==
    LET op == run[r].op
        owned == /\ files[Stage(r)] = op.expected
                 /\ At("partial") = Staged(r, "partial")
    IN
    /\ Alive(r) /\ op.step = "confirm"
    /\ IF owned
       THEN /\ files' = [files EXCEPT ![Stage(r)] = None]
            /\ run' = [run EXCEPT ![r] = [Left(r, op.then) EXCEPT
                                            !.own = Staged(r, "partial")]]
       ELSE Continues(r, "back") /\ UNCHANGED files
    /\ Elsewhere /\ UNCHANGED hidden /\ Fine

\* The exchange is undone; only the staged file itself is cleaned up.
ExchangeBack(r) ==
    LET op == run[r].op
        back == IF At("partial") = None THEN None ELSE files[Stage(r)]
        left == IF back = None THEN files[Stage(r)] ELSE At("partial")
    IN
    /\ Alive(r) /\ op.step = "back"
    /\ files' = [files EXCEPT ![<<"partial", 0>>] = back,
                              ![Stage(r)] = None]
    /\ hidden' = IF left = Staged(r, "partial") THEN hidden
                 ELSE hidden \cup {left}
    /\ Ends(r, op.otherwise)
    /\ Elsewhere /\ Fine

FileStep(r) == Check(r) \/ Rename(r) \/ Settle(r) \/ Link(r)
               \/ Exchange(r) \/ Confirm(r) \/ ExchangeBack(r)

----------------------------------------------------------------------------
(* commandAB *)

\* The frozen inputs are verified before anything is claimed.
Begin(r, mode) ==
    /\ run[r].pc = "idle" /\ \A q \in 1..(r - 1) : run[q].pc # "idle"
    /\ drifted = {}
    /\ run' = [run EXCEPT
                  ![r].mode = mode,
                  ![r].pc = IF mode = "resume" THEN "lock" ELSE "reserve"]
    /\ IF \E q \in Runs : Alive(q) THEN Happens ELSE Fine
    /\ Quiet

acquireABResumeLock(r) ==
    /\ Is(r, "lock")
    /\ IF At("lock") = None
       THEN /\ Ends(r, "load")
            /\ files' = [files EXCEPT ![<<"lock", 0>>] =
                                         File(r, "lock", {})]
       ELSE Ends(r, "done") /\ UNCHANGED files
    /\ Elsewhere /\ UNCHANGED hidden /\ Fine

openABResume(r) ==
    /\ Is(r, "load")
    /\ IF validatePartialABArtifact(At("partial"))
       THEN run' = [run EXCEPT ![r].pc = "reserve",
                               ![r].samples = At("partial").data,
                               ![r].own = At("partial")]
       ELSE Ends(r, "unlock")
    /\ Quiet /\ Fine

\* The paths in the order they are claimed.
Reserved(r) == IF run[r].mode = "fresh" THEN <<"partial">> \o Finals
               ELSE Finals

\* Only a resume that has every sample may claim files that exist.
AllowsExisting(r) ==
    run[r].mode = "resume" /\ validateCompleteABPopulation(run[r].samples)

reserveABOutputs(r) ==
    LET i == run[r].todo + 1
        path == Reserved(r)[i]
        target == [Unreserved EXCEPT
                      !.info = IF At(path) = None
                               THEN File(r, "placeholder", {})
                               ELSE At(path),
                      !.preexisting = At(path) # None,
                      !.consumed = At(path) # None]
    IN
    /\ Is(r, "reserve")
    /\ IF At(path) = None \/ AllowsExisting(r)
       THEN /\ run' = [run EXCEPT
                          ![r].targets[path] = target,
                          ![r].todo = IF i = Len(Reserved(r)) THEN 1 ELSE i,
                          ![r].pc = IF i = Len(Reserved(r)) THEN "first"
                                    ELSE "reserve"]
            /\ files' = [files EXCEPT
                            ![<<path, 0>>] = IF @ = None THEN target.info
                                             ELSE @]
       ELSE Ends(r, "close") /\ UNCHANGED files
    /\ Elsewhere /\ UNCHANGED hidden /\ Fine

\* After the probe of the runtime the first checkpoint is written.
FirstCheckpoint(r) ==
    /\ Is(r, "first")
    /\ \/ /\ run' = [run EXCEPT ![r].op = savePartial(r, "block", "close")]
          /\ Fine
       \/ Ends(r, "close") /\ Happens
    /\ Quiet

\* Complete blocks are skipped; a block begins with a checkpoint of what
\* is to survive it.
BeginBlock(r) ==
    LET open == OpenBlocks(run[r].samples) IN
    /\ Is(r, "block")
    /\ IF open = {} THEN Ends(r, "finish")
       ELSE run' = [run EXCEPT
                       ![r].pc = "next", ![r].kept = run[r].samples,
                       ![r].block = CHOOSE b \in open :
                                       \A c \in open : b <= c]
    /\ Quiet /\ Fine

Failure == "fail"

BeginSample(r) ==
    LET c == NextCoordinate(run[r].samples, run[r].block) IN
    /\ Is(r, "next")
    /\ \/ /\ abBlockComplete(run[r].samples, run[r].block)
          /\ Ends(r, "verify") /\ UNCHANGED paid /\ Fine
       \/ /\ ~abBlockComplete(run[r].samples, run[r].block)
          /\ \/ /\ "closure" \notin drifted
                /\ run' = [run EXCEPT ![r].pc = "call", ![r].clean = TRUE]
                /\ paid' = [paid EXCEPT ![c] = @ + 1] /\ Fine
             \/ /\ "closure" \in drifted
                /\ Ends(r, Failure) /\ UNCHANGED paid /\ Fine
             \/ /\ run' = [run EXCEPT ![r].pc = "verify",
                                      ![r].forced = TRUE]
                /\ UNCHANGED paid /\ Happens
    /\ UNCHANGED <<files, drifted, users, hidden, touched>>

\* The closure is hashed again when the call returns.
rejectABSamplesAfterClosureDrift(r) == "closure" \in drifted

Recorded(r) ==
    LET c == NextCoordinate(run[r].samples, run[r].block) IN
    {<<c, paid[c], run[r].clean>>}

\* What a failed run keeps: a drifted bundle takes the whole block with it.
Restore(r, samples) ==
    IF "bundle" \in drifted THEN run[r].kept ELSE samples

\* The call returns a sample, a sample that ends the campaign, or an error
\* with or without a sample.  Every accepted sample is checkpointed.
EndSample(r) ==
    LET sample == run[r].samples \cup Recorded(r)
        void == rejectABSamplesAfterClosureDrift(r)
    IN
    /\ Is(r, "call")
    /\ \/ /\ ~void /\ Fine
          /\ run' = [run EXCEPT ![r].samples = sample, ![r].clean = TRUE,
                                ![r].op = savePartial(r, "next", Failure)]
       \/ /\ ~void /\ Happens
          /\ run' = [run EXCEPT ![r].samples = sample, ![r].forced = TRUE,
                                ![r].op = savePartial(r, "verify", Failure)]
       \/ /\ \E kept \in IF void THEN {run[r].samples}
                         ELSE {run[r].samples, sample} :
                run' = [run EXCEPT ![r].pc = Failure, ![r].clean = TRUE,
                                   ![r].samples = Restore(r, kept)]
          /\ IF void \/ "bundle" \in drifted THEN Fine ELSE Happens
    /\ Quiet

\* The bundles are verified at the end of every block.
VerifyBlock(r) ==
    /\ Is(r, "verify")
    /\ run' = [run EXCEPT
                  ![r].samples = Restore(r, @), ![r].kept = {},
                  ![r].pc = IF "bundle" \in drifted \/ run[r].forced
                            THEN Failure ELSE "block"]
    /\ Quiet /\ Fine

\* Every failure leaves a checkpoint behind.
finalizeFailure(r) ==
    /\ Is(r, "fail")
    /\ run' = [run EXCEPT ![r].op = savePartial(r, "close", "close")]
    /\ Quiet /\ Fine

\* The whole population is there: stage the finals and compare them.
Finish(r) ==
    /\ Is(r, "finish")
    /\ \/ /\ validateCompleteABPopulation(run[r].samples) /\ Fine
          /\ "bundle" \notin drifted
          /\ run' = [run EXCEPT ![r].pc = "publish", ![r].todo = 1]
       \/ /\ Ends(r, Failure)
          /\ IF "bundle" \in drifted THEN Fine ELSE Happens
    /\ Quiet

\* Mutant: whatever was found at the path is taken for the final.
ReusesAny(r, path) == At(path) = run[r].targets[path].info

\* A pinned file is reused when it is exactly the regenerated final.
Reuses(r, path) ==
    /\ At(path) = run[r].targets[path].info
    /\ At(path).what = "final"
    /\ At(path).data = saveABBaseline(r, path).data

\* The finals are published one after the other.
PublishOrReuse(r) ==
    LET i == run[r].todo
        path == Finals[i]
        next == IF i = Len(Finals) THEN "retire" ELSE "publish"
    IN
    /\ Is(r, "publish")
    /\ run' = [run EXCEPT
                  ![r].todo = i + 1,
                  ![r].pc = IF ~run[r].targets[path].preexisting THEN @
                            ELSE IF Reuses(r, path) THEN next
                            ELSE "rollback",
                  ![r].op = IF run[r].targets[path].preexisting THEN @
                            ELSE PublishStaged(r, path, next, "rollback")]
    /\ Quiet /\ Fine

\* The code takes several paths in any order; the model in one.
FirstOf(paths) ==
    LET order == <<"partial">> \o Finals IN
    order[CHOOSE i \in DOMAIN order :
             /\ order[i] \in paths
             /\ \A j \in 1..(i - 1) : order[j] \notin paths]

\* What this run has published is removed again, and nothing else.
OwnedFinals(r) ==
    {path \in Outputs \ {"partial"} :
        run[r].targets[path].published # None}

RollbackPublished(r) ==
    /\ Is(r, "rollback")
    /\ \/ /\ OwnedFinals(r) = {} /\ Ends(r, Failure)
       \/ /\ OwnedFinals(r) # {}
          /\ LET path == FirstOf(OwnedFinals(r)) IN
             run' = [run EXCEPT
                        ![r].op = removeOwnedABFile(path,
                            run[r].targets[path].published,
                            "rollback", "rollback"),
                        ![r].targets[path].published = None]
    /\ Quiet /\ Fine

RemoveAfterSuccess(r) ==
    /\ Is(r, "retire")
    /\ run' = [run EXCEPT
                  ![r].op = removeOwnedABFile("partial", run[r].own,
                                              "close", "close")]
    /\ Quiet /\ Fine

Unused(r) == {path \in Outputs : /\ run[r].targets[path].info # None
                                 /\ ~run[r].targets[path].consumed}

\* Every return gives up the placeholders that were not used.
CloseReservations(r) ==
    /\ Is(r, "close")
    /\ \/ Unused(r) = {} /\ Ends(r, "unlock")
       \/ /\ Unused(r) # {}
          /\ LET path == FirstOf(Unused(r)) IN
             run' = [run EXCEPT
                        ![r].op = removeOwnedABFile(path,
                            run[r].targets[path].info, "close", "close"),
                        ![r].targets[path].consumed = TRUE]
    /\ Quiet /\ Fine

\* A resume gives its lock back.
CloseResume(r) ==
    /\ Is(r, "unlock")
    /\ IF run[r].mode = "resume"
       THEN run' = [run EXCEPT
                       ![r].op = removeOwnedABFile("lock",
                           File(r, "lock", {}), "done", "done")]
       ELSE Ends(r, "done")
    /\ Quiet /\ Fine

commandAB(r) ==
    \/ acquireABResumeLock(r) \/ openABResume(r) \/ reserveABOutputs(r)
    \/ FirstCheckpoint(r) \/ BeginBlock(r) \/ BeginSample(r)
    \/ EndSample(r) \/ VerifyBlock(r)
    \/ finalizeFailure(r) \/ Finish(r) \/ PublishOrReuse(r)
    \/ RollbackPublished(r) \/ RemoveAfterSuccess(r)
    \/ CloseReservations(r) \/ CloseResume(r)

----------------------------------------------------------------------------
(* The world around the campaign *)

\* The process is killed; what it has on disk stays.
Crash(r) ==
    /\ Alive(r)
    /\ run' = [run EXCEPT ![r] = [NewRun EXCEPT !.pc = "dead"]]
    /\ Happens /\ Quiet

\* Somebody else puts a file of theirs in place of whatever is there.
UserWrites(path) ==
    LET new == File(MaxStarts + mishaps', "foreign", {}) IN
    /\ Happens
    /\ files' = [files EXCEPT ![<<path, 0>>] = new]
    /\ users' = (users \ {At(path)}) \cup {new}
    /\ touched' = TRUE
    /\ UNCHANGED <<run, paid, drifted, hidden>>

\* The operator removes what a dead run left at a path: its lock, or a
\* placeholder that was never filled.
Tidy(path) ==
    /\ At(path).what \in {"lock", "placeholder"}
    /\ Is(At(path).by, "dead")
    /\ files' = [files EXCEPT ![<<path, 0>>] = None]
    /\ UNCHANGED <<run, paid, drifted, users, hidden, touched>> /\ Fine

\* A frozen input changes; a sample that is running has used it.
Drift(input) ==
    /\ Happens
    /\ input \notin drifted
    /\ drifted' = drifted \cup {input}
    /\ run' = [r \in Runs |->
                 IF input = "closure" /\ run[r].pc = "call"
                 THEN [run[r] EXCEPT !.clean = FALSE] ELSE run[r]]
    /\ UNCHANGED <<files, paid, users, hidden, touched>>

\* The frozen inputs are put back between two runs.
Repair ==
    /\ drifted # {} /\ \A r \in Runs : ~Alive(r)
    /\ drifted' = {}
    /\ UNCHANGED <<run, files, paid, users, hidden, touched>> /\ Fine

World == \/ \E r \in Runs : Crash(r)
         \/ \E path \in Paths : UserWrites(path) \/ Tidy(path)
         \/ \E input \in {"bundle", "closure"} : Drift(input)
         \/ Repair

Next ==
    \/ \E r \in Runs :
          \/ \E mode \in {"fresh", "resume"} : Begin(r, mode)
          \/ commandAB(r)
          \/ FileStep(r)
    \/ World

Spec == Init /\ [][Next]_vars

----------------------------------------------------------------------------
(* Properties *)

\* A file that somebody else put into the result directory is never lost:
\* it is where they put it, or kept under a private name (ab_resume.go,
\* removeOwnedABFile and replaceOwnedABFile).
ForeignFilesSurvive ==
    \A file \in users : file \in hidden \/ \E p \in Places : files[p] = file

Evidence == UNION ({files[p].data : p \in Places}
                   \cup {file.data : file \in hidden})

\* A paid sample that is on disk stays on disk, whoever dies, fails, rolls
\* back or retires the partial, unless its block was voided by a drifted
\* bundle or somebody else replaced a file (ab.go, savePartial to the end).
EvidenceSurvives ==
    [][Evidence \subseteq Evidence' \/ touched' \/ "bundle" \in drifted]_vars

\* The model is never called for a coordinate whose sample the partial
\* holds, however runs and resumes overlap (ab.go, the block loop).
PaidOnce ==
    [][\A c \in Coordinates :
          paid'[c] > paid[c] =>
              touched \/ c \notin CoordinatesOf(At("partial").data)]_vars

\* A published final has one sample of an intact closure for every
\* coordinate of its arms, whichever run published it (ab.go, Finish).
FinalsAreWhole ==
    \A path \in Outputs \ {"partial"} :
        At(path).what = "final" =>
            LET data == At(path).data
                whole == IF path = "comparison" THEN Coordinates
                         ELSE (DOMAIN Blocks) \X {path}
            IN
            /\ CoordinatesOf(data) = whole
            /\ Cardinality(data) = Cardinality(whole)
            /\ \A s \in data : s[3]

\* And the comparison is of the two finals beside it, whichever runs
\* published them (ab.go, PublishOrReuse).
FinalsAgree ==
    /\ FinalsAreWhole
    /\ (/\ At("comparison").what = "final" /\ At("control").what = "final"
        /\ At("candidate").what = "final" /\ ~touched)
       => At("comparison").data = At("control").data \cup At("candidate").data

\* What a campaign keeps of types, files and finals.
CampaignKept == TypeOK /\ ForeignFilesSurvive /\ FinalsAgree

=============================================================================
