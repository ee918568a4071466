----------------------------- MODULE Manifests -----------------------------
(***************************************************************************)
(* The manifests (jman.toml) and lockfiles (jman.lock) of one workspace,   *)
(* and the commands that write them: sync, add, remove, update, init and   *)
(* init --import, run by any number of jman processes while the user edits *)
(* manifests.                                                              *)
(*                                                                         *)
(* One external dependency stands for all: a manifest declares it in       *)
(* version "v1" or "v2", or does not declare it ("none").                  *)
(***************************************************************************)
EXTENDS Naturals, Sequences, FiniteSets

CONSTANTS
  Procs,      \* jman processes
  Commands,   \* the commands each of them may run
  Order,      \* the modules as workspace_directories lists them, root first
  Uses,       \* each module with the modules it depends on, transitively
  NoLock,     \* no jman.lock
  MaxEdits,   \* bound on edits by the user
  MaxRuns     \* bound on commands

Modules == {Order[i] : i \in DOMAIN Order}
Root == Order[1]

ASSUME OrderAssumption ==
  /\ Order \in Seq(Modules) /\ Order # <<>>
  /\ \A i, j \in DOMAIN Order : Order[i] = Order[j] => i = j
ASSUME UsesAssumption ==
  /\ Uses \in [Modules -> SUBSET Modules]
  /\ \A m \in Modules : m \in Uses[m] /\ \A x \in Uses[m] : Uses[x] \subseteq Uses[m]
Kinds == {"sync", "init", "import", "add", "remove", "update"}
ASSUME CommandsAssumption == Commands \in [Procs -> SUBSET Kinds]
ASSUME BoundAssumption == MaxEdits \in Nat /\ MaxRuns \in Nat

Versions == {"v1", "v2"}
Declared == Versions \cup {"none"}
\* "toolchain" is a file that only pins a JDK; "absent" is no file.
Contents == Declared \cup {"toolchain", "absent"}
Trees == [Modules -> Contents]
Locks == [manifest : Declared, workspace : Trees, from : Trees, suspect : BOOLEAN]
ASSUME NoLockAssumption == NoLock \notin Locks

VARIABLES
  manifest,    \* jman.toml of each module
  lock,        \* jman.lock of each module
  op,          \* the command each process runs
  stage,       \* where it is in that command
  target,      \* the module it was given
  todo,        \* modules still to be handled in this stage
  own,         \* content read for manifest_hash
  hash,        \* contents read for workspace_hash
  tree,        \* contents read for resolution
  saved,       \* what the command would restore
  committed,   \* files an import has renamed into place
  edits, runs, \* counted against the bounds
  moved,       \* history: a manifest was written by others since `own` was read
  interfered   \* history: others wrote manifests or locks since the command began

files == <<manifest, lock>>
locals == <<op, target, own, hash, tree, saved, committed>>
counters == <<edits, runs>>
history == <<moved, interfered>>
vars == <<files, stage, todo, locals, counters, history>>

(***************************************************************************)
(* What a lockfile holds: the two hashes it was written with, and the      *)
(* contents its packages were resolved from.                               *)
(***************************************************************************)
LockHashedLate(p) ==
  [manifest |-> own[p], workspace |-> manifest, from |-> tree[p], suspect |-> moved[p]]
LockFromGraph(p) ==
  [manifest |-> own[p], workspace |-> hash[p], from |-> tree[p], suspect |-> moved[p]]

LockOfOwnManifest(l, o, w, present) == l # NoLock /\ l.manifest = o /\ present
\* The artifacts it names must be in the cache, too: `present`, which is also
\* FALSE for sync --refresh. Mutations always refresh.
LockIsCurrent(l, o, w, present) ==
  l # NoLock /\ l.manifest = o /\ l.workspace = w /\ present

WorkspaceDirectories(t) == IF t = Root THEN Order ELSE <<t>>

Running(p) == stage[p] # "idle"
ReadingInputs == {"hash", "projects"}
Syncing == {"own"} \cup ReadingInputs \cup {"resolve"}

Begin(p, kind, m) ==
  /\ ~Running(p) /\ runs < MaxRuns /\ kind \in Commands[p]
  /\ runs' = runs + 1
  /\ op' = [op EXCEPT ![p] = kind]
  /\ target' = [target EXCEPT ![p] = m]

GoTo(p, s) == stage' = [stage EXCEPT ![p] = s]

(***************************************************************************)
(* A command that ends forgets what it held.                               *)
(***************************************************************************)
NoTree == [m \in Modules |-> "absent"]
NoFiles == [manifest |-> NoTree, lock |-> [m \in Modules |-> NoLock]]
End(p) ==
  /\ GoTo(p, "idle")
  /\ todo' = [todo EXCEPT ![p] = <<>>]
  /\ own' = [own EXCEPT ![p] = "none"]
  /\ hash' = [hash EXCEPT ![p] = NoTree]
  /\ tree' = [tree EXCEPT ![p] = NoTree]
  /\ committed' = [committed EXCEPT ![p] = {}]
  /\ saved' = [saved EXCEPT ![p] = NoFiles]
  /\ op' = [op EXCEPT ![p] = "none"]
  /\ target' = [target EXCEPT ![p] = Root]

Snapshot == [manifest |-> manifest, lock |-> lock]
Fresh(p) ==
  /\ saved' = [saved EXCEPT ![p] = Snapshot]
  /\ UNCHANGED <<own, hash, tree, committed>>

-----------------------------------------------------------------------------
(***************************************************************************)
(* sync: one module after the other.                                       *)
(***************************************************************************)
SyncProject(p) ==
  \E t \in Modules :
    /\ manifest[t] # "absent"
    /\ Begin(p, "sync", t)
    /\ todo' = [todo EXCEPT ![p] = WorkspaceDirectories(t)]
    /\ GoTo(p, "own")
    /\ UNCHANGED <<files, own, hash, tree, saved, committed, edits>>

ReadOwn(p) ==
  /\ stage[p] = "own"
  /\ manifest[Head(todo[p])] \in Declared
  /\ own' = [own EXCEPT ![p] = manifest[Head(todo[p])]]
  /\ GoTo(p, "hash")
  /\ UNCHANGED <<files, todo, op, target, hash, tree, saved, committed, counters>>

\* The module is finished: the next one, or the end of the command.
NextModule(p) ==
  IF Len(todo[p]) = 1
    THEN End(p)
    ELSE /\ todo' = [todo EXCEPT ![p] = Tail(@)]
         /\ GoTo(p, "own")
         /\ UNCHANGED locals

HashWorkspaceManifests(p) ==
  LET m == Head(todo[p]) IN
  /\ stage[p] = "hash"
  /\ \A x \in Modules : manifest[x] \in Declared
  /\ \E present \in BOOLEAN :
       IF op[p] \in {"sync", "init"} /\ LockIsCurrent(lock[m], own[p], manifest, present)
         THEN NextModule(p)
         ELSE /\ hash' = [hash EXCEPT ![p] = manifest]
              /\ GoTo(p, "projects")
              /\ UNCHANGED <<todo, op, target, own, tree, saved, committed>>
  /\ UNCHANGED <<files, counters>>

ManifestProjects(p) ==
  /\ stage[p] = "projects"
  /\ \A x \in Modules : manifest[x] \in Declared
  /\ tree' = [tree EXCEPT ![p] = manifest]
  /\ GoTo(p, "resolve")
  /\ UNCHANGED <<files, todo, op, target, own, hash, saved, committed, counters>>

\* Resolution may take long and may fail (Abandon, FailMutation).
WriteLockfile(p) ==
  /\ stage[p] = "resolve"
  /\ lock' = [lock EXCEPT ![Head(todo[p])] = LockFromGraph(p)]
  /\ NextModule(p)
  /\ UNCHANGED <<manifest, counters>>

-----------------------------------------------------------------------------
(***************************************************************************)
(* add and remove: write one manifest, sync, write the original back.      *)
(***************************************************************************)
Mutate(p, kind, t, c) ==
  /\ Begin(p, kind, t)
  /\ manifest' = [manifest EXCEPT ![t] = c]
  /\ todo' = [todo EXCEPT ![p] = WorkspaceDirectories(t)]
  /\ GoTo(p, "own") /\ Fresh(p)
  /\ UNCHANGED <<lock, edits>>

AddDependency(p) ==
  \E t \in Modules : manifest[t] = "none" /\ Mutate(p, "add", t, "v1")

RemoveDependency(p) ==
  \E t \in Modules : manifest[t] \in Versions /\ Mutate(p, "remove", t, "none")

RestoreManifest(p) ==
  /\ stage[p] = "restore" /\ op[p] \in {"add", "remove"}
  /\ manifest' = [manifest EXCEPT ![target[p]] = saved[p].manifest[target[p]]]
  /\ End(p)
  /\ UNCHANGED <<lock, counters>>

-----------------------------------------------------------------------------
(***************************************************************************)
(* update: plan, snapshot every file, apply the plan to every manifest     *)
(* that still declares what was planned for, sync the workspace; after an  *)
(* error restore the files one by one, up to the first error.              *)
(***************************************************************************)
Requests == {manifest[m] : m \in Modules} \cap Versions
\* The newest version of the level asked for, if there is one.
SelectDependencyUpdate(from) == IF from = "v1" THEN {"v2"} ELSE {}

PlanUpdate(p) ==
  /\ \A x \in Modules : manifest[x] \in Declared
  /\ \E from \in Requests : SelectDependencyUpdate(from) # {}
  /\ Begin(p, "update", Root)
  /\ GoTo(p, "snapshot")
  /\ UNCHANGED <<files, todo, own, hash, tree, saved, committed, edits>>

SnapshotWorkspaceFiles(p) ==
  /\ stage[p] = "snapshot"
  /\ saved' = [saved EXCEPT ![p] = Snapshot]
  /\ todo' = [todo EXCEPT ![p] = Order]
  /\ GoTo(p, "apply")
  /\ UNCHANGED <<files, op, target, own, hash, tree, committed, counters>>

ApplyDependencyUpdatePlan(p) ==
  LET m == Head(todo[p]) IN
  /\ stage[p] = "apply"
  /\ manifest[m] \in Declared
  /\ IF SelectDependencyUpdate(manifest[m]) # {}
       THEN \E to \in SelectDependencyUpdate(manifest[m]) :
              manifest' = [manifest EXCEPT ![m] = to]
       ELSE UNCHANGED manifest
  /\ IF Len(todo[p]) = 1
       THEN todo' = [todo EXCEPT ![p] = Order] /\ GoTo(p, "own")
       ELSE todo' = [todo EXCEPT ![p] = Tail(@)] /\ UNCHANGED stage
  /\ UNCHANGED <<lock, locals, counters>>

RestoreToml(p) ==
  LET m == Head(todo[p]) IN
  /\ stage[p] = "restore" /\ op[p] = "update"
  /\ manifest' = [manifest EXCEPT ![m] = saved[p].manifest[m]]
  /\ GoTo(p, "restorelock")
  /\ UNCHANGED <<lock, todo, locals, counters>>

RestoreExistingLock(p) ==
  LET m == Head(todo[p]) IN
  /\ stage[p] = "restorelock"
  /\ lock' = [lock EXCEPT ![m] = IF saved[p].lock[m] = NoLock THEN @ ELSE saved[p].lock[m]]
  /\ IF Len(todo[p]) = 1
       THEN End(p)
       ELSE /\ todo' = [todo EXCEPT ![p] = Tail(@)]
            /\ GoTo(p, "restore")
            /\ UNCHANGED locals
  /\ UNCHANGED <<manifest, counters>>
RestoreLock(p) ==
  LET m == Head(todo[p]) IN
  /\ stage[p] = "restorelock"
  /\ lock' = [lock EXCEPT ![m] = saved[p].lock[m]]
  /\ IF Len(todo[p]) = 1
       THEN End(p)
       ELSE /\ todo' = [todo EXCEPT ![p] = Tail(@)]
            /\ GoTo(p, "restore")
            /\ UNCHANGED locals
  /\ UNCHANGED <<manifest, counters>>

-----------------------------------------------------------------------------
(***************************************************************************)
(* init --import: everything is generated before anything is written; then *)
(* the files are renamed into place one by one, and an error removes those *)
(* that were.                                                              *)
(***************************************************************************)
Imported == [m \in Modules |-> "v1"]
ImportedLock == [manifest |-> "v1", workspace |-> Imported, from |-> Imported, suspect |-> FALSE]

ImportMaven(p) ==
  /\ \A m \in Modules : manifest[m] \in {"absent", "toolchain"} /\ lock[m] = NoLock
  /\ Begin(p, "import", Root)
  /\ GoTo(p, "generate")
  /\ UNCHANGED <<files, todo, own, hash, tree, saved, committed, edits>>

\* Resolves every module and writes the temporary files.
StageImport(p) ==
  /\ stage[p] = "generate"
  /\ todo' = [todo EXCEPT ![p] = Order]
  /\ GoTo(p, "commit")
  /\ UNCHANGED <<manifest, lock, locals, counters>>

CommitToml(p) ==
  LET m == Head(todo[p]) IN
  /\ stage[p] = "commit"
  /\ manifest' = [manifest EXCEPT ![m] = "v1"]
  /\ committed' = [committed EXCEPT ![p] = @ \cup {<<m, "toml">>}]
  /\ GoTo(p, "commitlock")
  /\ UNCHANGED <<lock, todo, op, target, own, hash, tree, saved, counters>>

CommitLock(p) ==
  LET m == Head(todo[p]) IN
  /\ stage[p] = "commitlock"
  /\ lock' = [lock EXCEPT ![m] = ImportedLock]
  /\ IF Len(todo[p]) = 1
       THEN End(p)
       ELSE /\ committed' = [committed EXCEPT ![p] = @ \cup {<<m, "lock">>}]
            /\ todo' = [todo EXCEPT ![p] = Tail(@)]
            /\ GoTo(p, "commit")
            /\ UNCHANGED <<op, target, own, hash, tree, saved>>
  /\ UNCHANGED <<manifest, counters>>

UndoTomls(p) ==
  LET m == Head(todo[p]) IN
  /\ stage[p] = "undo"
  /\ manifest' = [manifest EXCEPT ![m] = IF <<m, "toml">> \in committed[p] THEN "absent" ELSE @]
  /\ IF Len(todo[p]) = 1
       THEN End(p)
       ELSE todo' = [todo EXCEPT ![p] = Tail(@)] /\ UNCHANGED <<stage, locals>>
  /\ UNCHANGED <<lock, counters>>
\* Files are removed in the order they were committed; errors are ignored.
UndoCommit(p) ==
  LET m == Head(todo[p]) IN
  /\ stage[p] = "undo"
  /\ manifest' = [manifest EXCEPT ![m] = IF <<m, "toml">> \in committed[p] THEN "absent" ELSE @]
  /\ lock' = [lock EXCEPT ![m] = IF <<m, "lock">> \in committed[p] THEN NoLock ELSE @]
  /\ IF Len(todo[p]) = 1
       THEN End(p)
       ELSE todo' = [todo EXCEPT ![p] = Tail(@)] /\ UNCHANGED <<stage, locals>>
  /\ UNCHANGED counters

-----------------------------------------------------------------------------
(***************************************************************************)
(* init of a new project: the files are written in place, then every       *)
(* module is synchronized. Nothing is undone after an error.               *)
(***************************************************************************)
ScaffoldProject(p) ==
  /\ \A m \in Modules : manifest[m] = "absent" \/ (m = Root /\ manifest[m] = "toolchain")
  /\ Begin(p, "init", Root)
  /\ todo' = [todo EXCEPT ![p] = Order]
  /\ GoTo(p, "scaffold")
  /\ UNCHANGED <<files, own, hash, tree, saved, committed, edits>>

WriteScaffold(p) ==
  LET m == Head(todo[p]) IN
  /\ stage[p] = "scaffold"
  /\ manifest' = [manifest EXCEPT ![m] = "none"]
  /\ IF Len(todo[p]) = 1
       THEN todo' = [todo EXCEPT ![p] = Order] /\ GoTo(p, "own")
       ELSE todo' = [todo EXCEPT ![p] = Tail(@)] /\ UNCHANGED stage
  /\ UNCHANGED <<lock, locals, counters>>

-----------------------------------------------------------------------------
(***************************************************************************)
(* Errors, kills, and everybody else.                                      *)
(***************************************************************************)
\* sync and init, a failed snapshot or generation: nothing is brought back.
Abandon(p) ==
  /\ \/ op[p] \in {"sync", "init"} /\ stage[p] \in Syncing
     \/ stage[p] \in {"scaffold", "snapshot", "generate"}
  /\ End(p)
  /\ UNCHANGED <<files, counters>>

FailMutation(p) ==
  /\ op[p] \in {"add", "remove", "update"}
  /\ stage[p] \in Syncing \cup {"apply"}
  /\ GoTo(p, "restore")
  /\ todo' = [todo EXCEPT ![p] = Order]
  /\ UNCHANGED <<files, locals, counters>>

FailCommit(p) ==
  /\ stage[p] \in {"commit", "commitlock"}
  /\ GoTo(p, "undo")
  /\ todo' = [todo EXCEPT ![p] = Order]
  /\ UNCHANGED <<files, locals, counters>>

FailRestore(p) ==
  /\ stage[p] \in {"restore", "restorelock"}
  /\ End(p)
  /\ UNCHANGED <<files, counters>>

Kill(p) ==
  /\ Running(p)
  /\ End(p)
  /\ UNCHANGED <<files, counters>>

Edit ==
  \E m \in Modules, c \in Declared :
    /\ edits < MaxEdits /\ manifest[m] \in Declared \ {c}
    /\ edits' = edits + 1
    /\ manifest' = [manifest EXCEPT ![m] = c]
    /\ UNCHANGED <<lock, stage, todo, locals, runs>>

Init ==
  /\ manifest \in [Modules -> {"none", "v1"}] \cup [Modules -> {"absent", "toolchain"}]
  /\ lock = [m \in Modules |-> NoLock]
  /\ op = [p \in Procs |-> "none"] /\ stage = [p \in Procs |-> "idle"]
  /\ target = [p \in Procs |-> Root]
  /\ todo = [p \in Procs |-> <<>>]
  /\ own = [p \in Procs |-> "none"]
  /\ hash = [p \in Procs |-> NoTree] /\ tree = [p \in Procs |-> NoTree]
  /\ saved = [p \in Procs |-> NoFiles] /\ committed = [p \in Procs |-> {}]
  /\ edits = 0 /\ runs = 0
  /\ moved = [p \in Procs |-> FALSE] /\ interfered = [p \in Procs |-> FALSE]

Command(p) ==
  \/ SyncProject(p) \/ AddDependency(p) \/ RemoveDependency(p) \/ PlanUpdate(p)
  \/ ImportMaven(p) \/ ScaffoldProject(p)
Step(p) ==
  \/ ReadOwn(p) \/ HashWorkspaceManifests(p) \/ ManifestProjects(p) \/ WriteLockfile(p)
  \/ SnapshotWorkspaceFiles(p) \/ ApplyDependencyUpdatePlan(p)
  \/ RestoreManifest(p) \/ RestoreToml(p) \/ RestoreLock(p)
  \/ StageImport(p) \/ CommitToml(p) \/ CommitLock(p) \/ UndoCommit(p)
  \/ WriteScaffold(p)
Mishap(p) == Abandon(p) \/ FailMutation(p) \/ FailCommit(p) \/ FailRestore(p) \/ Kill(p)

\* What the others see of a step of `actors`.
Observe(actors) ==
  /\ moved' = [q \in Procs |->
       /\ stage'[q] \in ReadingInputs \cup {"resolve"}
       /\ moved[q] \/ (q \notin actors /\ stage[q] \in ReadingInputs /\ manifest' # manifest)]
  /\ interfered' = [q \in Procs |->
       /\ stage'[q] # "idle"
       /\ interfered[q] \/ (q \notin actors /\ Running(q) /\ files' # files)]

Next ==
  \/ \E p \in Procs : (Command(p) \/ Step(p) \/ Mishap(p)) /\ Observe({p})
  \/ Edit /\ Observe({})

Spec == Init /\ [][Next]_vars

-----------------------------------------------------------------------------
\* A lockfile that the next sync or build would accept as current was resolved
\* from what the manifests say now, whatever failed, was killed or restored,
\* unless somebody wrote a manifest between sync_one's two readings of them.
CurrentLockIsTruthful ==
  \A m \in Modules :
    (lock[m] # NoLock /\ lock[m].manifest = manifest[m] /\ lock[m].workspace = manifest
      /\ ~lock[m].suspect)
      => \A x \in Uses[m] : lock[m].from[x] = manifest[x]

\* A command that succeeds leaves current lockfiles for every module it was
\* about: locking a later module does not outdate an earlier one's.
Succeeds(p) ==
  /\ HashWorkspaceManifests(p) \/ WriteLockfile(p) \/ CommitLock(p)
  /\ stage'[p] = "idle"
SuccessMeansLocked ==
  [][ \A p \in Procs : Succeeds(p) /\ ~interfered[p] =>
        \A i \in DOMAIN WorkspaceDirectories(target[p]) :
          LET m == WorkspaceDirectories(target[p])[i] IN
          lock'[m] # NoLock /\ lock'[m].manifest = manifest'[m]
            /\ lock'[m].workspace = manifest' ]_vars

\* An update that reports its files as restored has restored all of them,
\* manifests and lockfiles, also those that did not exist.
UpdateRestoresEverything ==
  [][ \A p \in Procs : RestoreLock(p) /\ stage'[p] = "idle" /\ ~interfered[p] =>
        manifest' = saved[p].manifest /\ lock' = saved[p].lock ]_vars

\* An import that ends in an error leaves no module with a manifest or a
\* lockfile of it (nobody else having written).
FailedImportLeavesNothing ==
  [][ \A p \in Procs : UndoCommit(p) /\ stage'[p] = "idle" /\ ~interfered[p] =>
        \A m \in Modules : manifest'[m] \in {"absent", "toolchain"} /\ lock'[m] = NoLock ]_vars

\* "Implement `jman add`, `jman remove`, ... with atomic manifest/lock updates":
\* one that fails and restores the manifest leaves the lockfiles as they were.
\* That does not hold (see the README): sync_one may have rewritten a lockfile.
MutationIsAtomic ==
  [][ \A p \in Procs : RestoreManifest(p) /\ ~interfered[p] =>
        manifest' = saved[p].manifest /\ lock' = saved[p].lock ]_vars
=============================================================================
