---------------------------- MODULE Installation -----------------------------
(***************************************************************************)
(* "skynex install" and "skynex uninstall" on the OpenCode directory and   *)
(* the state directory: the snapshot transaction around an installation    *)
(* (internal/installer), the skill reconciliation (internal/skillsync),    *)
(* the owned tree and the configuration merge (internal/adapters), the     *)
(* state files (internal/config) and the staged uninstall.  An             *)
(* installation may fail or die between any two of its writes, while the   *)
(* user edits the same files.                                              *)
(***************************************************************************)
EXTENDS Integers, FiniteSets, SequencesExt

CONSTANTS
  Installers,  \* processes running "install"
  Versions,    \* bundle versions, natural numbers above 0
  Skills,      \* the skill files of all versions, in the order of Apply
  Assets,      \* the other files of all versions, in the order of WalkDir
  Ships(_, _), \* Ships(v, f): version v ships file f
  Nested,      \* files below a directory that exists before any installation
  Servers,     \* MCP servers a user may configure
  SnapshotCap, \* snapshotCap: how many snapshots may be retained
  MaxInstalls, \* bound: installations started
  MaxEdits     \* bound: what the user does

StateFiles == {"ownership", "config", "lock"}
SkillSet == ToSet(Skills)
AssetSet == ToSet(Assets)
Files == SkillSet \cup AssetSet

ASSUME InstallationAssumption ==
  /\ Versions \subseteq Nat \ {0}
  /\ Skills \in Seq(SkillSet) /\ Assets \in Seq(AssetSet)
  /\ SkillSet \cap AssetSet = {} /\ Nested \subseteq Files
  /\ \A v \in Versions, f \in Files : Ships(v, f) \in BOOLEAN
  /\ SnapshotCap \in Nat /\ MaxInstalls \in Nat /\ MaxEdits \in Nat

VARIABLES
  disk,       \* content of each file: a version's, the user's, or NoFile
  config,     \* the servers of opencode.json, or NoConfig
  backup,     \* the servers of opencode.json.bak, or NoConfig
  inventory,  \* .skynex-manifest.json: asset to owned content, or NoInventory
  numbered,   \* whether that file has the field "version"
  state,      \* the state files: owned skills, a configuration, a lock record
  locks,      \* state files whose ".lock" file exists
  snapshots,  \* retained snapshots, the oldest first
  installs,   \* how many installations were started
  edits,      \* how often the user acted
  inst,       \* inst[p]: what installation p is doing and has read
  removal,    \* what the uninstall is doing and has read
  mine,       \* history: files the user wrote and nothing may replace unasked
  wanted      \* history: servers the user configured

vars == <<disk, config, backup, inventory, numbered, state, locks, snapshots,
          installs, edits, inst, removal, mine, wanted>>

User == 0
NoFile == -1
Contents == Versions \cup {User, NoFile}

NoConfig == [there |-> FALSE, servers |-> {}]
Config(servers) == [there |-> TRUE, servers |-> servers]
NoInventory == [there |-> FALSE, owns |-> <<>>]
NoStateFile == [there |-> FALSE, value |-> <<>>]
StateFile(value) == [there |-> TRUE, value |-> value]

\* An installation: what it installs, its snapshot, and what it has read.
Idle ==
  [pc |-> "idle", version |-> 0, snap |-> 0, loaded |-> NoStateFile,
   rewritten |-> {}, report |-> <<>>, replace |-> {}, at |-> 1, read |-> {},
   old |-> <<>>, next |-> <<>>, file |-> "config"]

NoRemoval ==
  [pc |-> "idle", owns |-> <<>>, inventory |-> NoInventory,
   state |-> [s \in StateFiles |-> NoStateFile], todo |-> <<>>]

\* What a manifest owns: f and the content it had when it was shipped.
Owned(owns, f) == f \in DOMAIN owns

Shipped(v, files) ==
  [f \in {g \in files : Ships(v, g)} |-> v]

Bundle(v, f) == IF Ships(v, f) THEN v ELSE NoFile

\* Nothing is installed, or one of the bundles is; an inventory with a version
\* field is the form that uninstall and its tests know.
Fresh ==
  /\ disk = [f \in Files |-> NoFile]
  /\ config = NoConfig /\ inventory = NoInventory /\ numbered = FALSE
  /\ state = [s \in StateFiles |-> NoStateFile]

Installed(v) ==
  /\ disk = [f \in Files |-> Bundle(v, f)]
  /\ config = Config({}) /\ numbered \in BOOLEAN
  /\ inventory = [there |-> TRUE, owns |-> Shipped(v, AssetSet)]
  /\ state = [s \in StateFiles |->
       StateFile(IF s = "ownership" THEN Shipped(v, SkillSet) ELSE <<s, v>>)]

Init ==
  /\ Fresh \/ \E v \in Versions : Installed(v)
  /\ backup = NoConfig
  /\ locks = {} /\ snapshots = <<>> /\ installs = 0 /\ edits = 0
  /\ inst = [p \in Installers |-> Idle]
  /\ removal = NoRemoval
  /\ mine = {} /\ wanted = {}

-----------------------------------------------------------------------------
(* Frames.                                                                 *)

InstBecomes(p, local) == inst' = [inst EXCEPT ![p] = local]

GoesOn(p, pc) == InstBecomes(p, [inst[p] EXCEPT !.pc = pc])

tree == <<disk, config, backup, inventory, numbered>>
history == <<mine, wanted>>
InstallKeeps == UNCHANGED <<installs, edits, removal, wanted>>

-----------------------------------------------------------------------------
(* installer.Apply: the snapshot around the installation.                  *)

\* prepareSnapshot: everything below the roots, with the status that says a
\* recovery may need it.
Snapshot ==
  [status |-> "recovery-needed", disk |-> disk, config |-> config,
   backup |-> backup, inventory |-> inventory, numbered |-> numbered,
   state |-> state]

\* isExactEmbeddedInstall: what is installed is the bundle, unmodified.
ExactlyCurrent(v) ==
  /\ \A f \in SkillSet : Ships(v, f) => disk[f] = v
  /\ state["ownership"] = StateFile(Shipped(v, SkillSet))
  /\ state["config"] = StateFile(<<"config", v>>)
  /\ state["lock"] = StateFile(<<"lock", v>>)

\* runInstall up to the transaction: nothing to do, no room for a snapshot, or
\* the installation begins.
InstallBegins(p, v) ==
  /\ inst[p] = Idle /\ installs < MaxInstalls
  /\ ~ExactlyCurrent(v)
  /\ Len(snapshots) < SnapshotCap
  /\ installs' = installs + 1
  /\ snapshots' = Append(snapshots, Snapshot)
  /\ InstBecomes(p, [Idle EXCEPT !.pc = "inspect", !.version = v,
                                 !.snap = Len(snapshots) + 1,
                                 !.loaded = state["config"]])
  /\ UNCHANGED <<tree, state, locks, edits, removal, history>>

\* PruneSnapshots: the oldest committed one; what a recovery may need stays.
\* Mutant: any snapshot is eligible.
EligibleToPruneAny(s) == s.status \in {"committed", "recovery-needed"}

EligibleToPrune(s) == s.status = "committed"

\* Snapshots are known by their place; only an idle system prunes, so that no
\* place moves under a running installation.
Prune ==
  /\ \A p \in Installers : inst[p] = Idle
  /\ Len(snapshots) >= SnapshotCap
  /\ \E i \in DOMAIN snapshots :
       /\ EligibleToPrune(snapshots[i])
       /\ \A j \in 1..i-1 : ~EligibleToPrune(snapshots[j])
       /\ snapshots' = RemoveAt(snapshots, i)
  /\ UNCHANGED <<tree, state, locks, installs, edits, inst, removal, history>>

\* commit: the manifest's status; the snapshot stays as a backup.
Commit(p) ==
  /\ inst[p].pc = "commit"
  /\ snapshots' = [snapshots EXCEPT ![inst[p].snap].status = "committed"]
  /\ InstBecomes(p, Idle)
  /\ InstallKeeps /\ UNCHANGED <<tree, state, locks, mine>>

\* A state file is replaced by renaming over it, so whoever retained the old
\* file's identity no longer finds it.
Rewrites(f) ==
  [p \in Installers |->
     IF inst[p] = Idle THEN Idle
     ELSE [inst[p] EXCEPT !.rewritten = @ \cup {f}]]

\* Some step of the mutation fails, or its commit does.
InstallFails(p) ==
  /\ inst[p].pc \notin {"idle", "rollback", "restore"}
  /\ GoesOn(p, "rollback")
  /\ locks' = IF inst[p].pc = "locked" THEN locks \ {inst[p].file} ELSE locks
  /\ InstallKeeps /\ UNCHANGED <<tree, state, snapshots, mine>>

\* The process dies; a lock file it holds stays.
InstallDies(p) ==
  /\ inst[p] # Idle
  /\ InstBecomes(p, Idle)
  /\ InstallKeeps /\ UNCHANGED <<tree, state, locks, snapshots, mine>>

\* removeCreatedDir: a file the snapshot does not have is removed, unless its
\* directory is older than the installation and is not traversed.
CreatedSince(s) ==
  {f \in Files \ Nested : s.disk[f] = NoFile}

\* removeRooted: a state file that existed and has been renamed over.
ReplacedRoots(p) ==
  {f \in inst[p].rewritten : snapshots[inst[p].snap].state[f].there}

\* rollback, first pass: what was created goes; a replaced root is refused and
\* nothing is restored then.
RollbackRemoves(p) ==
  LET s == snapshots[inst[p].snap] IN
  /\ inst[p].pc = "rollback"
  /\ disk' = [f \in Files |-> IF f \in CreatedSince(s) THEN NoFile ELSE disk[f]]
  /\ config' = IF s.config.there THEN config ELSE NoConfig
  /\ backup' = IF s.backup.there THEN backup ELSE NoConfig
  /\ inventory' = IF s.inventory.there THEN inventory ELSE NoInventory
  /\ state' = [f \in StateFiles |->
                 IF s.state[f].there THEN state[f] ELSE NoStateFile]
  /\ mine' = mine \ CreatedSince(s)
  /\ IF ReplacedRoots(p) = {}
     THEN GoesOn(p, "restore") ELSE InstBecomes(p, Idle)
  /\ InstallKeeps /\ UNCHANGED <<numbered, locks, snapshots>>

\* rollback, second pass: restoreEntry of everything that existed.  The
\* snapshot stays and says that a recovery may need it.
RollbackRestores(p) ==
  LET s == snapshots[inst[p].snap] IN
  /\ inst[p].pc = "restore"
  /\ disk' = [f \in Files |-> IF s.disk[f] = NoFile THEN disk[f] ELSE s.disk[f]]
  /\ config' = IF s.config.there THEN s.config ELSE config
  /\ backup' = IF s.backup.there THEN s.backup ELSE backup
  /\ inventory' = IF s.inventory.there THEN s.inventory ELSE inventory
  /\ numbered' = IF s.inventory.there THEN s.numbered ELSE numbered
  /\ state' = [f \in StateFiles |->
                 IF s.state[f].there THEN s.state[f] ELSE state[f]]
  /\ InstBecomes(p, Idle)
  /\ InstallKeeps /\ UNCHANGED <<locks, snapshots, mine>>

-----------------------------------------------------------------------------
(* skillsync.Session: Inspect, a human's decisions, Apply.                 *)

\* The status of one file, from its shipped, its local and its owned content.
Status(v, f, owns, legacy) ==
  LET b == Bundle(v, f)
      l == disk[f]
      owned == Owned(owns, f) IN
  CASE l = NoFile /\ b # NoFile            -> "Missing"
    [] b = NoFile /\ owned /\ l = NoFile   -> "Missing"
    [] b = NoFile /\ owned /\ l = owns[f]  -> "Retired"
    [] b = NoFile /\ owned                 -> "Modified"
    [] b = NoFile                          -> "Unknown"
    [] legacy /\ l = b                     -> "Current"
    [] legacy                              -> "Unknown"
    [] owned /\ l = owns[f] /\ b = owns[f] -> "Current"
    [] owned /\ l = owns[f]                -> "Outdated"
    [] l = b /\ ~owned                     -> "Unknown"
    [] OTHER                               -> "Modified"

\* Inspect's report: status, local content and shipped content of every file
\* that is shipped, present or owned.
Report(v) ==
  LET legacy == ~state["ownership"].there
      owns == state["ownership"].value IN
  [f \in {g \in SkillSet :
            Ships(v, g) \/ disk[g] # NoFile \/ Owned(owns, g)} |->
     [status |-> Status(v, f, owns, legacy), local |-> disk[f]]]

\* A file whose loss a human has to accept, bound to what was observed.
NeedsDecision(entry) == entry.status \in {"Modified", "Retired"}

\* Inspect, and in an interactive run the decisions about what it reports.
SkillsInspect(p) ==
  LET report == Report(inst[p].version) IN
  /\ inst[p].pc = "inspect"
  /\ \E replace \in SUBSET {f \in DOMAIN report : NeedsDecision(report[f])} :
       /\ mine' = mine \ replace
       /\ InstBecomes(p, [inst[p] EXCEPT !.pc = "verify", !.report = report,
                                         !.replace = replace])
  /\ InstallKeeps /\ UNCHANGED <<tree, state, locks, snapshots>>

\* Apply compares the report with a second one before it writes; a file that
\* changed since the decision ends the installation (InstallFails).
SkillsVerify(p) ==
  /\ inst[p].pc = "verify"
  /\ \A f \in DOMAIN inst[p].report :
       f \in DOMAIN Report(inst[p].version)
         /\ Report(inst[p].version)[f] = inst[p].report[f]
  /\ GoesOn(p, "skills")
  /\ InstallKeeps /\ UNCHANGED <<tree, state, locks, snapshots, mine>>

\* What Apply does to an entry: a missing or outdated file is written, a
\* modified or retired one only if a human decided so, all others stay.
Reconciled(p, f) ==
  LET e == inst[p].report[f] IN
  IF /\ e.status \in {"Missing", "Outdated", "Modified", "Retired"}
     /\ NeedsDecision(e) => f \in inst[p].replace
  THEN Bundle(inst[p].version, f) ELSE disk[f]

SkillsWrite(p) ==
  /\ inst[p].pc = "skills" /\ inst[p].at <= Len(Skills)
  /\ LET f == Skills[inst[p].at] IN
     /\ disk' = IF f \in DOMAIN inst[p].report
                THEN [disk EXCEPT ![f] = Reconciled(p, f)] ELSE disk
     /\ InstBecomes(p, [inst[p] EXCEPT !.at = @ + 1])
  /\ InstallKeeps
  /\ UNCHANGED <<config, backup, inventory, numbered, state, locks, snapshots,
                 mine>>

\* The ownership manifest names every shipped skill, kept ones included.
SkillsManifest(p) ==
  /\ inst[p].pc = "skills" /\ inst[p].at > Len(Skills)
  /\ state' = [state EXCEPT !["ownership"] =
                 StateFile(Shipped(inst[p].version, SkillSet))]
  /\ inst' = [Rewrites("ownership") EXCEPT ![p].pc = "backup"]
  /\ InstallKeeps /\ UNCHANGED <<tree, locks, snapshots, mine>>

-----------------------------------------------------------------------------
(* adapters: the owned tree and opencode.json.                             *)

\* The existing configuration is read for the merge and copied beside itself.
ConfigBackup(p) ==
  /\ inst[p].pc = "backup"
  /\ backup' = IF config.there THEN config ELSE backup
  /\ InstBecomes(p, [inst[p] EXCEPT
                        !.pc = "assets", !.at = 1, !.read = config.servers,
                        !.old = IF inventory.there THEN inventory.owns
                                ELSE <<>>])
  /\ InstallKeeps
  /\ UNCHANGED <<disk, config, inventory, numbered, state, locks, snapshots,
                 mine>>

\* A file is written where there is none, or where the one there is owned and
\* still is what was shipped.
MayWrite(p, f) ==
  \/ disk[f] = NoFile
  \/ Owned(inst[p].old, f) /\ disk[f] = inst[p].old[f]

\* The manifest also says v of f.
Records(owns, f, v) ==
  [g \in DOMAIN owns \cup {f} |-> IF g = f THEN v ELSE owns[g]]

\* Mutant: an owned file that is kept is recorded with its present content.
NextOwnedLocal(p, f) ==
  IF MayWrite(p, f) THEN Records(inst[p].next, f, inst[p].version)
  ELSE IF Owned(inst[p].old, f) THEN Records(inst[p].next, f, disk[f])
  ELSE inst[p].next

\* The new inventory after a shipped file: a modified one stays owned with the
\* content it was shipped with.
NextOwned(p, f) ==
  IF MayWrite(p, f) THEN Records(inst[p].next, f, inst[p].version)
  ELSE IF Owned(inst[p].old, f) THEN Records(inst[p].next, f, inst[p].old[f])
  ELSE inst[p].next

\* installOwnedTreeExcluding, one file of the bundle.
AssetWrite(p) ==
  /\ inst[p].pc = "assets" /\ inst[p].at <= Len(Assets)
  /\ LET f == Assets[inst[p].at]
         v == inst[p].version IN
     IF Ships(v, f)
     THEN /\ disk' = IF MayWrite(p, f) THEN [disk EXCEPT ![f] = v] ELSE disk
          /\ InstBecomes(p, [inst[p] EXCEPT !.at = @ + 1,
                                            !.next = NextOwned(p, f)])
     ELSE InstBecomes(p, [inst[p] EXCEPT !.at = @ + 1]) /\ UNCHANGED disk
  /\ InstallKeeps
  /\ UNCHANGED <<config, backup, inventory, numbered, state, locks, snapshots,
                 mine>>

\* opencode.json is written over whatever is there: its servers come back with
\* the merge.
ConfigWrite(p) ==
  /\ inst[p].pc = "assets" /\ inst[p].at > Len(Assets)
  /\ config' = Config({})
  /\ GoesOn(p, "retire")
  /\ InstallKeeps
  /\ UNCHANGED <<disk, backup, inventory, numbered, state, locks, snapshots,
                 mine>>

\* Files that are owned and no longer shipped go if they are unmodified; the
\* new inventory has no version field.
AssetsRetire(p) ==
  LET gone == {f \in DOMAIN inst[p].old \ DOMAIN inst[p].next :
                 disk[f] = inst[p].old[f]} IN
  /\ inst[p].pc = "retire"
  /\ disk' = [f \in Files |-> IF f \in gone THEN NoFile ELSE disk[f]]
  /\ inventory' = [there |-> TRUE, owns |-> inst[p].next]
  /\ numbered' = FALSE
  /\ GoesOn(p, "merge")
  /\ InstallKeeps /\ UNCHANGED <<config, backup, state, locks, snapshots, mine>>

\* mergeOpencodeConfigForNeurox: the servers that were read come back.
ConfigMerge(p) ==
  /\ inst[p].pc = "merge"
  /\ config' = Config(config.servers \cup inst[p].read)
  /\ GoesOn(p, "state")
  /\ InstallKeeps
  /\ UNCHANGED <<disk, backup, inventory, numbered, state, locks, snapshots,
                 mine>>

-----------------------------------------------------------------------------
(* config.SaveConfig and SaveLock: atomicWrite.                            *)

StateLock(p) ==
  /\ inst[p].pc = "state" /\ inst[p].file \notin locks
  /\ locks' = locks \cup {inst[p].file}
  /\ GoesOn(p, "locked")
  /\ InstallKeeps /\ UNCHANGED <<tree, state, snapshots, mine>>

\* The configuration must be the one that was loaded; the lock record is
\* written over whatever is there.
StateWrite(p) ==
  LET f == inst[p].file IN
  /\ inst[p].pc = "locked"
  /\ f = "config" => state[f] = inst[p].loaded
  /\ state' = [state EXCEPT ![f] = StateFile(<<f, inst[p].version>>)]
  /\ locks' = locks \ {f}
  /\ inst' = [Rewrites(f) EXCEPT
                ![p].pc = IF f = "config" THEN "state" ELSE "commit",
                ![p].file = "lock"]
  /\ InstallKeeps /\ UNCHANGED <<tree, snapshots, mine>>

-----------------------------------------------------------------------------
(* skynex uninstall.                                                       *)

RemovalKeeps ==
  UNCHANGED <<backup, locks, snapshots, installs, edits, inst, wanted>>

\* uninstallEligible: the file is what the manifest says was shipped.
\* Mutant: every file a manifest names is removed.
EligibleIfNamed(owns, f) == Owned(owns, f) /\ disk[f] # NoFile

Eligible(owns, f) == Owned(owns, f) /\ disk[f] = owns[f]

\* runUninstall needs both manifests and reads a numbered inventory only.
UninstallBegins ==
  LET skills == state["ownership"].value
      owns == [f \in DOMAIN inventory.owns \cup DOMAIN skills |->
                 IF Owned(inventory.owns, f) THEN inventory.owns[f]
                 ELSE skills[f]] IN
  /\ removal = NoRemoval
  /\ inventory.there /\ numbered /\ state["ownership"].there
  /\ removal' = [pc |-> "stage", owns |-> owns,
                 inventory |-> inventory, state |-> state,
                 todo |->
                   SelectSeq(Assets, LAMBDA f : Eligible(inventory.owns, f))
                     \o SelectSeq(Skills, LAMBDA f : Eligible(skills, f))]
  /\ RemovalKeeps
  /\ UNCHANGED <<disk, config, inventory, numbered, state, mine>>

\* One file is renamed into quarantine if it still is what was shipped.
UninstallStages ==
  LET f == Head(removal.todo) IN
  /\ removal.pc = "stage" /\ removal.todo # <<>>
  /\ Eligible(removal.owns, f)
  /\ disk' = [disk EXCEPT ![f] = NoFile]
  /\ removal' = [removal EXCEPT !.todo = Tail(@)]
  /\ UNCHANGED <<config, inventory, numbered, state, mine>> /\ RemovalKeeps

\* The manifests and the state files that were inspected follow; then what is
\* in quarantine is deleted.
UninstallEnds ==
  /\ removal.pc = "stage" /\ removal.todo = <<>>
  /\ inventory = removal.inventory /\ state = removal.state
  /\ inventory' = NoInventory /\ numbered' = FALSE
  /\ state' = [s \in StateFiles |-> NoStateFile]
  /\ removal' = NoRemoval
  /\ UNCHANGED <<disk, config, mine>> /\ RemovalKeeps

\* A file changed, or staging failed: uninstallRollback links a path below the
\* staged file, which cannot exist, so what was staged stays in quarantine.
UninstallFails ==
  /\ removal # NoRemoval
  /\ removal' = NoRemoval
  /\ RemovalKeeps
  /\ UNCHANGED <<disk, config, inventory, numbered, state, mine>>

-----------------------------------------------------------------------------
(* The user.                                                               *)

Quiet == removal = NoRemoval /\ \A p \in Installers : inst[p] = Idle

\* A file is edited or deleted.  Only what is written while nothing runs is
\* sure to be seen by what runs next.
UserWrites(f, content) ==
  /\ edits < MaxEdits /\ edits' = edits + 1
  /\ disk[f] # content /\ disk' = [disk EXCEPT ![f] = content]
  /\ mine' = IF content = User /\ Quiet THEN mine \cup {f} ELSE mine \ {f}
  /\ UNCHANGED <<config, backup, inventory, numbered, state, locks, snapshots,
                 installs, inst, removal, wanted>>

UserConfigures(s) ==
  /\ edits < MaxEdits /\ edits' = edits + 1
  /\ Quiet /\ config.there /\ s \notin config.servers
  /\ config' = Config(config.servers \cup {s})
  /\ wanted' = wanted \cup {s}
  /\ UNCHANGED <<disk, backup, inventory, numbered, state, locks, snapshots,
                 installs, inst, removal, mine>>

UserEditsState ==
  /\ edits < MaxEdits /\ edits' = edits + 1
  /\ state["config"].there
  /\ state' = [state EXCEPT !["config"] = StateFile(<<"config", User>>)]
  /\ inst' = Rewrites("config")
  /\ UNCHANGED <<tree, locks, snapshots, installs, removal, history>>

-----------------------------------------------------------------------------
InstallStep(p) ==
  \/ \E v \in Versions : InstallBegins(p, v)
  \/ SkillsInspect(p) \/ SkillsVerify(p) \/ SkillsWrite(p) \/ SkillsManifest(p)
  \/ ConfigBackup(p) \/ AssetWrite(p) \/ ConfigWrite(p) \/ AssetsRetire(p)
  \/ ConfigMerge(p) \/ StateLock(p) \/ StateWrite(p) \/ Commit(p)
  \/ InstallFails(p) \/ RollbackRemoves(p) \/ RollbackRestores(p)
  \/ InstallDies(p)

UninstallStep ==
  UninstallBegins \/ UninstallStages \/ UninstallEnds \/ UninstallFails

UserStep ==
  \/ \E f \in Files, c \in {User, NoFile} : UserWrites(f, c)
  \/ \E s \in Servers : UserConfigures(s)
  \/ UserEditsState

Next ==
  \/ \E p \in Installers : InstallStep(p)
  \/ Prune \/ UninstallStep \/ UserStep

Spec == Init /\ [][Next]_vars

-----------------------------------------------------------------------------
\* A manifest names some of these files and their shipped content.
Manifests(files) == UNION {[owned -> Versions] : owned \in SUBSET files}

Statuses == {"Missing", "Retired", "Modified", "Unknown", "Current", "Outdated"}

Reports == UNION {[files -> [status : Statuses, local : Contents]] :
                    files \in SUBSET SkillSet}

ConfigType == [there : BOOLEAN, servers : SUBSET Servers]
InventoryType == [there : BOOLEAN, owns : Manifests(AssetSet)]
RecordType ==
  [there : BOOLEAN,
   value : {<<>>} \cup ({"config", "lock"} \X (Versions \cup {User}))]

StateType ==
  [ownership : [there : BOOLEAN, value : Manifests(SkillSet)],
   config : RecordType, lock : RecordType]

SnapshotType ==
  [status : {"recovery-needed", "committed"}, disk : [Files -> Contents],
   config : ConfigType, backup : ConfigType, inventory : InventoryType,
   numbered : BOOLEAN, state : StateType]

InstallType ==
  [pc : {"idle", "inspect", "verify", "skills", "backup", "assets", "retire",
         "merge", "state", "locked", "commit", "rollback", "restore"},
   version : Versions \cup {0}, snap : Nat, loaded : RecordType,
   rewritten : SUBSET StateFiles, report : Reports, replace : SUBSET SkillSet,
   at : Nat \ {0}, read : SUBSET Servers, old : Manifests(AssetSet),
   next : Manifests(AssetSet), file : {"config", "lock"}]

TypeOK ==
  /\ disk \in [Files -> Contents]
  /\ config \in ConfigType /\ backup \in ConfigType
  /\ inventory \in InventoryType /\ numbered \in BOOLEAN
  /\ state \in StateType /\ locks \subseteq StateFiles
  /\ snapshots \in Seq(SnapshotType)
  /\ installs \in 0..MaxInstalls /\ edits \in 0..MaxEdits
  /\ inst \in [Installers -> InstallType]
  /\ DOMAIN removal = DOMAIN NoRemoval
  /\ removal.pc \in {"idle", "stage"} /\ removal.owns \in Manifests(Files)
  /\ mine \subseteq Files /\ wanted \subseteq Servers

\* What the user wrote while nothing was running stays, through installations
\* that fail, die, roll back, retire or adopt files, and through an uninstall,
\* unless a human decided about this very content.
UserFilesSurvive == \A f \in mine : disk[f] = User

\* No manifest claims the user's content, so none of it is ever eligible for a
\* silent update or removal.
UserContentIsNeverOwned ==
  /\ \A f \in DOMAIN inventory.owns : inventory.owns[f] \in Versions
  /\ state["ownership"].there =>
       \A f \in DOMAIN state["ownership"].value :
         state["ownership"].value[f] \in Versions

\* What installations keep of types and ownership.
OwnersKept == TypeOK /\ UserContentIsNeverOwned

\* A server the user configured is in opencode.json, in its copy, or in a
\* snapshot that pruning leaves alone, wherever an installation died.
ServersAreRecoverable ==
  \A s \in wanted :
    \/ s \in config.servers \cup backup.servers
    \/ \E i \in DOMAIN snapshots :
         /\ snapshots[i].status = "recovery-needed"
         /\ s \in snapshots[i].config.servers
=============================================================================
