-------------------------- MODULE ManifestsProofs --------------------------
(***************************************************************************)
(* Theorems about Manifests, for any workspace, processes, commands and    *)
(* edits.                                                                  *)
(***************************************************************************)
EXTENDS Manifests, SequenceTheorems, TLAPS

Entries(s) == {s[i] : i \in DOMAIN s}

\* The entries of what is still to be done, without the first.
LEMMA Remaining ==
  ASSUME NEW S, NEW s \in Seq(S), s # <<>>
  PROVE  /\ Head(s) \in S /\ Head(s) \in Entries(s)
         /\ Tail(s) \in Seq(S)
         /\ Entries(s) = {Head(s)} \cup Entries(Tail(s))
         /\ Len(s) = 1 => Entries(s) = {Head(s)}
         /\ Len(s) # 1 => Tail(s) # <<>>
<1>1. Len(s) \in Nat \ {0} /\ DOMAIN s = 1..Len(s) /\ \A i \in 1..Len(s) : s[i] \in S
  BY EmptySeq, LenProperties
<1>2. /\ Tail(s) \in Seq(S) /\ Len(Tail(s)) = Len(s) - 1 /\ Head(s) \in S
      /\ DOMAIN Tail(s) = 1..(Len(s) - 1)
      /\ \A i \in 1..(Len(s) - 1) : Tail(s)[i] = s[i + 1]
  BY HeadTailProperties, LenProperties
<1>3. Head(s) = s[1] /\ 1 \in DOMAIN s
  BY <1>1
<1>4. \A i \in DOMAIN s : i = 1 \/ (i - 1 \in DOMAIN Tail(s) /\ Tail(s)[i - 1] = s[i])
  BY <1>1, <1>2
<1>5. \A i \in DOMAIN Tail(s) : i + 1 \in DOMAIN s /\ Tail(s)[i] = s[i + 1]
  BY <1>1, <1>2
<1>6. Entries(s) = {Head(s)} \cup Entries(Tail(s))
  <2>1. Entries(s) \subseteq {Head(s)} \cup Entries(Tail(s))
    BY <1>3, <1>4 DEF Entries
  <2>2. {Head(s)} \cup Entries(Tail(s)) \subseteq Entries(s)
    BY <1>3, <1>5 DEF Entries
  <2> QED BY <2>1, <2>2
<1>7. Len(s) = 1 => Entries(s) = {Head(s)}
  BY <1>1, <1>3 DEF Entries
<1>8. Len(s) # 1 => Tail(s) # <<>>
  <2>1. Len(s) # 1 => Len(Tail(s)) # 0
    BY <1>1, <1>2
  <2> QED BY <2>1
<1> QED BY <1>2, <1>3, <1>6, <1>7, <1>8 DEF Entries

LEMMA AllModules ==
  /\ Root \in Modules
  /\ \A t \in Modules : /\ WorkspaceDirectories(t) \in Seq(Modules)
                        /\ WorkspaceDirectories(t) # <<>>
                        /\ Entries(WorkspaceDirectories(t)) \subseteq Modules
  /\ Order \in Seq(Modules) /\ Order # <<>> /\ Entries(Order) = Modules
<1>1. Order \in Seq(Modules) /\ Order # <<>>
  BY OrderAssumption
<1>2. 1 \in DOMAIN Order /\ Root \in Modules
  BY <1>1 DEF Root, Modules
<1>3. Entries(Order) = Modules
  BY DEF Entries, Modules
<1>4. ASSUME NEW t \in Modules
      PROVE  <<t>> \in Seq(Modules) /\ <<t>> # <<>> /\ Entries(<<t>>) \subseteq Modules
  BY DEF Entries
<1> QED BY <1>1, <1>2, <1>3, <1>4 DEF WorkspaceDirectories

---------------------------------------------------------------------------
(* The inductive invariant. *)

Stages == {"idle", "snapshot", "generate"} \cup Syncing
            \cup {"apply", "scaffold", "restore", "restorelock", "commit", "commitlock", "undo"}
Files == [manifest : Trees, lock : [Modules -> Locks \cup {NoLock}]]

FilesOk == manifest \in Trees /\ lock \in [Modules -> Locks \cup {NoLock}]
LocalsOk ==
  /\ op \in [Procs -> Kinds \cup {"none"}]
  /\ stage \in [Procs -> Stages]
  /\ target \in [Procs -> Modules]
  /\ todo \in [Procs -> Seq(Modules)]
  /\ own \in [Procs -> Declared]
  /\ hash \in [Procs -> Trees] /\ tree \in [Procs -> Trees]
  /\ saved \in [Procs -> Files]
  /\ committed \in [Procs -> SUBSET (Modules \X {"toml", "lock"})]
TypeOK == FilesOk /\ LocalsOk

\* A lockfile that is not suspect was resolved from the contents whose hash it
\* carries; so were those that an update would bring back.
Sound(l) == l # NoLock /\ ~l.suspect => l.from = l.workspace
LocksOk == \A m \in Modules : Sound(lock[m])
SavedOk(p) == \A m \in Modules : Sound(saved[p].lock[m])
HashedOk(p) ==
  ~moved[p] => /\ stage[p] = "projects" => hash[p] = manifest
               /\ stage[p] = "resolve" => tree[p] = hash[p]

TodoOk(p) == stage[p] \notin {"idle", "snapshot", "generate"} => todo[p] # <<>>
First(p) == Head(todo[p])
Left(p) == Entries(todo[p])

\* The rest is about a process that nobody else has interfered with.  What it
\* has synchronized stays current until it is done with the others.
Current(m) == lock[m] # NoLock /\ lock[m].manifest = manifest[m] /\ lock[m].workspace = manifest
SyncOk(p) ==
  /\ stage[p] \in Syncing =>
       \A m \in Entries(WorkspaceDirectories(target[p])) : m \in Left(p) \/ Current(m)
  /\ stage[p] \in {"hash", "projects", "resolve"} => own[p] = manifest[First(p)]
  /\ stage[p] \in {"projects", "resolve"} => hash[p] = manifest

\* What an update has restored, and what an import has put into place or
\* removed again.
Restored(p, m) == manifest[m] = saved[p].manifest[m] /\ lock[m] = saved[p].lock[m]
RestoreOk(p) ==
  /\ stage[p] = "restorelock" \/ (stage[p] = "restore" /\ op[p] = "update") =>
       \A m \in Modules : m \in Left(p) \/ Restored(p, m)
  /\ stage[p] = "restorelock" => manifest[First(p)] = saved[p].manifest[First(p)]

NoToml(m) == manifest[m] \in {"absent", "toolchain"}
ImportOk(p) ==
  /\ stage[p] = "generate" => \A m \in Modules : NoToml(m) /\ lock[m] = NoLock
  /\ stage[p] \in {"commit", "commitlock", "undo"} => \A m \in Modules :
       /\ <<m, "toml">> \in committed[p] \/ NoToml(m)
       /\ <<m, "lock">> \in committed[p] \/ lock[m] = NoLock
  /\ stage[p] = "undo" => \A m \in Modules : m \in Left(p) \/ (NoToml(m) /\ lock[m] = NoLock)
  /\ stage[p] \in {"commit", "commitlock"} => \A m \in Modules :
       m \in Left(p) \/ (manifest[m] = "v1" /\ lock[m] = ImportedLock)
  /\ stage[p] = "commitlock" => manifest[First(p)] = "v1"

ProcOk(p) ==
  /\ TodoOk(p) /\ SavedOk(p) /\ HashedOk(p)
  /\ ~interfered[p] => SyncOk(p) /\ RestoreOk(p) /\ ImportOk(p)

HistoryOk == moved \in [Procs -> BOOLEAN]
Inv == TypeOK /\ HistoryOk /\ LocksOk /\ \A p \in Procs : ProcOk(p)

---------------------------------------------------------------------------
(* What a step of one process does to the others. *)

Alone(p) == \A q \in Procs \ {p} :
  /\ op'[q] = op[q] /\ stage'[q] = stage[q] /\ target'[q] = target[q] /\ todo'[q] = todo[q]
  /\ own'[q] = own[q] /\ hash'[q] = hash[q] /\ tree'[q] = tree[q]
  /\ saved'[q] = saved[q] /\ committed'[q] = committed[q]

\* Whoever is not interfered with has seen no file change.
LEMMA Bystander ==
  ASSUME TypeOK, NEW actors, Observe(actors), NEW q \in Procs, q \notin actors, ProcOk(q),
         op'[q] = op[q], stage'[q] = stage[q], target'[q] = target[q], todo'[q] = todo[q],
         own'[q] = own[q], hash'[q] = hash[q], tree'[q] = tree[q],
         saved'[q] = saved[q], committed'[q] = committed[q]
  PROVE  ProcOk(q)'
<1>1. /\ moved'[q] = (/\ stage'[q] \in ReadingInputs \cup {"resolve"}
                      /\ moved[q] \/ (stage[q] \in ReadingInputs /\ manifest' # manifest))
      /\ interfered'[q] = (stage'[q] # "idle" /\ (interfered[q] \/ (Running(q) /\ files' # files)))
  BY DEF Observe
<1>2. TodoOk(q)' /\ SavedOk(q)'
  BY DEF ProcOk, TodoOk, SavedOk
<1>3. HashedOk(q)'
  <2> SUFFICES ASSUME ~moved'[q]
               PROVE  /\ stage[q] = "projects" => hash[q] = manifest'
                      /\ stage[q] = "resolve" => tree[q] = hash[q]
    BY DEF HashedOk
  <2>1. stage[q] \in {"projects", "resolve"} => ~moved[q]
    BY <1>1 DEF ReadingInputs
  <2>2. stage[q] = "projects" => manifest' = manifest
    BY <1>1 DEF ReadingInputs
  <2> QED BY <2>1, <2>2 DEF ProcOk, HashedOk
<1>4. ASSUME ~interfered'[q]
      PROVE  SyncOk(q)' /\ RestoreOk(q)' /\ ImportOk(q)'
  <2>1. CASE stage[q] = "idle"
    BY <2>1 DEF SyncOk, RestoreOk, ImportOk, Syncing, ReadingInputs
  <2>2. CASE stage[q] # "idle"
    <3>1. ~interfered[q] /\ manifest' = manifest /\ lock' = lock
      BY <1>1, <1>4, <2>2 DEF Running, files
    <3>2. SyncOk(q) /\ RestoreOk(q) /\ ImportOk(q)
      BY <3>1 DEF ProcOk
    <3>3. SyncOk(q)'
      BY <3>1, <3>2 DEF SyncOk, Current, Left, First
    <3>4. RestoreOk(q)'
      BY <3>1, <3>2 DEF RestoreOk, Restored, Left, First
    <3>5. ImportOk(q)'
      BY <3>1, <3>2 DEF ImportOk, NoToml, Left, First
    <3> QED BY <3>3, <3>4, <3>5
  <2> QED BY <2>1, <2>2
<1> QED BY <1>2, <1>3, <1>4 DEF ProcOk

LEMMA Observed ==
  ASSUME NEW actors, Observe(actors)
  PROVE  HistoryOk'
<1>1. \A q \in Procs : (/\ stage'[q] \in ReadingInputs \cup {"resolve"}
                        /\ moved[q] \/ (q \notin actors /\ stage[q] \in ReadingInputs /\ manifest' # manifest))
                       \in BOOLEAN
  OBVIOUS
<1> QED BY <1>1 DEF Observe, HistoryOk

\* A step of p keeps the invariant if it keeps the part that is about p.
LEMMA OwnStep ==
  ASSUME Inv, NEW p \in Procs, Alone(p), Observe({p}), TypeOK', LocksOk', ProcOk(p)'
  PROVE  Inv'
<1>1. ASSUME NEW q \in Procs \ {p}
      PROVE  ProcOk(q)'
  <2>1. TypeOK /\ ProcOk(q) /\ q \in Procs /\ q \notin {p}
    BY <1>1 DEF Inv
  <2>2. /\ op'[q] = op[q] /\ stage'[q] = stage[q] /\ target'[q] = target[q] /\ todo'[q] = todo[q]
        /\ own'[q] = own[q] /\ hash'[q] = hash[q] /\ tree'[q] = tree[q]
        /\ saved'[q] = saved[q] /\ committed'[q] = committed[q]
    BY <1>1 DEF Alone
  <2> QED BY <2>1, <2>2, Bystander
<1>2. HistoryOk'
  BY Observed
<1> QED BY <1>1, <1>2 DEF Inv

LEMMA OwnHistory ==
  ASSUME NEW p \in Procs, Observe({p})
  PROVE  /\ moved'[p] = (stage'[p] \in ReadingInputs \cup {"resolve"} /\ moved[p])
         /\ interfered'[p] = (stage'[p] # "idle" /\ interfered[p])
BY DEF Observe

LEMMA NothingHeld == NoTree \in Trees /\ NoFiles \in Files
BY DEF NoTree, NoFiles, Trees, Files, Contents, Declared, Versions

\* A command that ends has nothing left to answer for.
LEMMA EndKeeps ==
  ASSUME Inv, NEW p \in Procs, End(p), Observe({p}), FilesOk', LocksOk'
  PROVE  Inv'
<1> USE DEF Inv, TypeOK
<1>1. LocalsOk'
  <2>1. "none" \in Kinds \cup {"none"} /\ "none" \in Declared /\ "idle" \in Stages
        /\ Root \in Modules /\ <<>> \in Seq(Modules)
    BY AllModules DEF Declared, Stages
  <2> QED BY <2>1, NothingHeld DEF End, GoTo, LocalsOk
<1>2. Alone(p)
  BY DEF End, GoTo, Alone, LocalsOk
<1>3. stage'[p] = "idle" /\ saved'[p] = NoFiles
  BY DEF End, GoTo, LocalsOk
<1>4. ProcOk(p)'
  <2>1. TodoOk(p)' /\ HashedOk(p)' /\ SyncOk(p)' /\ RestoreOk(p)' /\ ImportOk(p)'
    BY <1>3 DEF TodoOk, HashedOk, SyncOk, RestoreOk, ImportOk, Syncing, ReadingInputs
  <2>2. SavedOk(p)'
    BY <1>3 DEF SavedOk, Sound, NoFiles
  <2> QED BY <2>1, <2>2 DEF ProcOk
<1> QED BY <1>1, <1>2, <1>4, OwnStep

---------------------------------------------------------------------------
(* The commands begin. *)

LEMMA SyncProjectKeeps ==
  ASSUME Inv, NEW p \in Procs, SyncProject(p), Observe({p})
  PROVE  Inv'
<1> USE DEF Inv, TypeOK
<1>1. PICK t \in Modules : /\ Begin(p, "sync", t)
                           /\ todo' = [todo EXCEPT ![p] = WorkspaceDirectories(t)]
                           /\ GoTo(p, "own")
                           /\ UNCHANGED <<files, own, hash, tree, saved, committed, edits>>
  BY DEF SyncProject
<1>2. /\ op' = [op EXCEPT ![p] = "sync"] /\ target' = [target EXCEPT ![p] = t]
      /\ todo' = [todo EXCEPT ![p] = WorkspaceDirectories(t)]
      /\ stage' = [stage EXCEPT ![p] = "own"]
      /\ UNCHANGED <<manifest, lock>> /\ UNCHANGED <<own, hash, tree, saved, committed>>
  BY <1>1 DEF Begin, GoTo, files
<1>3. WorkspaceDirectories(t) \in Seq(Modules) /\ WorkspaceDirectories(t) # <<>>
  BY AllModules
<1>4. TypeOK' /\ LocksOk'
  <2>1. "sync" \in Kinds /\ "own" \in Stages
    BY DEF Kinds, Stages, Syncing
  <2> QED BY <1>2, <1>3, <2>1 DEF FilesOk, LocalsOk, LocksOk
<1>5. Alone(p) /\ stage'[p] = "own" /\ target'[p] = t /\ todo'[p] = WorkspaceDirectories(t)
      /\ saved'[p] = saved[p]
  BY <1>2 DEF Alone, LocalsOk
<1>6. ProcOk(p)'
  <2>1. TodoOk(p)' /\ HashedOk(p)' /\ RestoreOk(p)' /\ ImportOk(p)'
    BY <1>3, <1>5 DEF TodoOk, HashedOk, RestoreOk, ImportOk
  <2>2. SavedOk(p)'
    BY <1>5 DEF ProcOk, SavedOk
  <2>3. SyncOk(p)'
    BY <1>5 DEF SyncOk, Left
  <2> QED BY <2>1, <2>2, <2>3 DEF ProcOk
<1> QED BY <1>4, <1>5, <1>6, OwnStep

LEMMA MutateKeeps ==
  ASSUME Inv, NEW p \in Procs, AddDependency(p) \/ RemoveDependency(p), Observe({p})
  PROVE  Inv'
<1> USE DEF Inv, TypeOK
<1>1. PICK kind \in {"add", "remove"}, t \in Modules, c \in Declared : Mutate(p, kind, t, c)
  BY DEF AddDependency, RemoveDependency, Declared, Versions
<1>2. /\ op' = [op EXCEPT ![p] = kind] /\ target' = [target EXCEPT ![p] = t]
      /\ todo' = [todo EXCEPT ![p] = WorkspaceDirectories(t)]
      /\ stage' = [stage EXCEPT ![p] = "own"]
      /\ manifest' = [manifest EXCEPT ![t] = c] /\ UNCHANGED lock
      /\ saved' = [saved EXCEPT ![p] = Snapshot] /\ UNCHANGED <<own, hash, tree, committed>>
  BY <1>1 DEF Mutate, Begin, GoTo, Fresh
<1>3. WorkspaceDirectories(t) \in Seq(Modules) /\ WorkspaceDirectories(t) # <<>>
  BY AllModules
<1>4. Snapshot \in Files /\ Snapshot.lock = lock
  BY DEF Snapshot, Files, FilesOk
<1> HIDE DEF Snapshot
<1>5. TypeOK' /\ LocksOk'
  <2>1. kind \in Kinds /\ "own" \in Stages /\ c \in Contents
    BY DEF Kinds, Stages, Syncing, Contents
  <2>2. FilesOk'
    BY <1>2, <2>1 DEF FilesOk, Trees
  <2> QED BY <1>2, <1>3, <1>4, <2>1, <2>2 DEF LocalsOk, LocksOk
<1>6. Alone(p) /\ stage'[p] = "own" /\ target'[p] = t /\ todo'[p] = WorkspaceDirectories(t)
      /\ saved'[p] = Snapshot
  BY <1>2 DEF Alone, LocalsOk
<1>7. ProcOk(p)'
  <2>1. TodoOk(p)' /\ HashedOk(p)' /\ RestoreOk(p)' /\ ImportOk(p)'
    BY <1>3, <1>6 DEF TodoOk, HashedOk, RestoreOk, ImportOk
  <2>2. SavedOk(p)'
    BY <1>4, <1>6 DEF LocksOk, SavedOk
  <2>3. SyncOk(p)'
    BY <1>6 DEF SyncOk, Left
  <2> QED BY <2>1, <2>2, <2>3 DEF ProcOk
<1> QED BY <1>5, <1>6, <1>7, OwnStep

\* update and init --import begin without writing anything.
LEMMA BeginningKeeps ==
  ASSUME Inv, NEW p \in Procs, PlanUpdate(p) \/ ImportMaven(p), Observe({p})
  PROVE  Inv'
<1> USE DEF Inv, TypeOK
<1>1. PICK kind \in {"update", "import"}, s \in {"snapshot", "generate"} :
        /\ op' = [op EXCEPT ![p] = kind] /\ target' = [target EXCEPT ![p] = Root]
        /\ stage' = [stage EXCEPT ![p] = s]
        /\ UNCHANGED <<manifest, lock>> /\ UNCHANGED <<todo, own, hash, tree, saved, committed>>
        /\ s = "generate" => \A m \in Modules : manifest[m] \in {"absent", "toolchain"} /\ lock[m] = NoLock
  BY DEF PlanUpdate, ImportMaven, Begin, GoTo, files
<1>2. TypeOK' /\ LocksOk'
  <2>1. kind \in Kinds /\ s \in Stages /\ Root \in Modules
    BY AllModules DEF Kinds, Stages
  <2> QED BY <1>1, <2>1 DEF FilesOk, LocalsOk, LocksOk
<1>3. Alone(p) /\ stage'[p] = s /\ saved'[p] = saved[p]
  BY <1>1 DEF Alone, LocalsOk
<1>4. ProcOk(p)'
  <2>1. TodoOk(p)' /\ HashedOk(p)' /\ RestoreOk(p)' /\ SyncOk(p)'
    BY <1>3 DEF TodoOk, HashedOk, RestoreOk, SyncOk, Syncing, ReadingInputs
  <2>2. SavedOk(p)'
    BY <1>3 DEF ProcOk, SavedOk
  <2>3. ImportOk(p)'
    BY <1>1, <1>3 DEF ImportOk, NoToml
  <2> QED BY <2>1, <2>2, <2>3 DEF ProcOk
<1> QED BY <1>2, <1>3, <1>4, OwnStep

LEMMA ScaffoldProjectKeeps ==
  ASSUME Inv, NEW p \in Procs, ScaffoldProject(p), Observe({p})
  PROVE  Inv'
<1> USE DEF Inv, TypeOK
<1>1. /\ op' = [op EXCEPT ![p] = "init"] /\ target' = [target EXCEPT ![p] = Root]
      /\ stage' = [stage EXCEPT ![p] = "scaffold"] /\ todo' = [todo EXCEPT ![p] = Order]
      /\ UNCHANGED <<manifest, lock>> /\ UNCHANGED <<own, hash, tree, saved, committed>>
  BY DEF ScaffoldProject, Begin, GoTo, files
<1>2. TypeOK' /\ LocksOk'
  <2>1. "init" \in Kinds /\ "scaffold" \in Stages /\ Root \in Modules /\ Order \in Seq(Modules)
    BY AllModules DEF Kinds, Stages
  <2> QED BY <1>1, <2>1 DEF FilesOk, LocalsOk, LocksOk
<1>3. Alone(p) /\ stage'[p] = "scaffold" /\ saved'[p] = saved[p] /\ todo'[p] = Order
  BY <1>1 DEF Alone, LocalsOk
<1>4. ProcOk(p)'
  <2>1. TodoOk(p)' /\ HashedOk(p)' /\ RestoreOk(p)' /\ SyncOk(p)' /\ ImportOk(p)'
    BY <1>3, AllModules DEF TodoOk, HashedOk, RestoreOk, SyncOk, ImportOk, Syncing, ReadingInputs
  <2>2. SavedOk(p)'
    BY <1>3 DEF ProcOk, SavedOk
  <2> QED BY <2>1, <2>2 DEF ProcOk
<1> QED BY <1>2, <1>3, <1>4, OwnStep

---------------------------------------------------------------------------
(* sync_one. *)

LEMMA ReadOwnKeeps ==
  ASSUME Inv, NEW p \in Procs, ReadOwn(p), Observe({p})
  PROVE  Inv'
<1> USE DEF Inv, TypeOK
<1>1. /\ stage[p] = "own" /\ manifest[First(p)] \in Declared
      /\ own' = [own EXCEPT ![p] = manifest[First(p)]]
      /\ stage' = [stage EXCEPT ![p] = "hash"]
      /\ UNCHANGED <<manifest, lock>>
      /\ UNCHANGED <<todo, op, target, hash, tree, saved, committed>>
  BY DEF ReadOwn, GoTo, First, files
<1>2. TypeOK' /\ LocksOk'
  <2>1. "hash" \in Stages
    BY DEF Stages, Syncing, ReadingInputs
  <2> QED BY <1>1, <2>1 DEF FilesOk, LocalsOk, LocksOk
<1>3. Alone(p) /\ stage'[p] = "hash" /\ own'[p] = manifest[First(p)]
  BY <1>1 DEF Alone, LocalsOk
<1>4. ProcOk(p)'
  <2>1. TodoOk(p)' /\ HashedOk(p)' /\ SavedOk(p)'
    BY <1>1, <1>3 DEF ProcOk, TodoOk, HashedOk, SavedOk
  <2>2. ASSUME ~interfered'[p]
        PROVE  SyncOk(p)' /\ RestoreOk(p)' /\ ImportOk(p)'
    <3>1. ~interfered[p]
      BY <1>3, <2>2, OwnHistory
    <3>2. \A m \in Entries(WorkspaceDirectories(target[p])) : m \in Left(p) \/ Current(m)
      BY <1>1, <3>1 DEF ProcOk, SyncOk, Syncing
    <3>3. SyncOk(p)'
      BY <1>1, <1>3, <3>2 DEF SyncOk, Left, Current, First
    <3> QED BY <1>3, <3>3 DEF RestoreOk, ImportOk
  <2> QED BY <2>1, <2>2 DEF ProcOk
<1> QED BY <1>2, <1>3, <1>4, OwnStep

\* The module at hand is locked, and the next one has its turn.
LEMMA NextModuleKeeps ==
  ASSUME Inv, NEW p \in Procs, NextModule(p), Observe({p}), stage[p] \in {"hash", "resolve"},
         manifest' = manifest, FilesOk', LocksOk',
         ~interfered[p] =>
           lock'[First(p)] # NoLock /\ lock'[First(p)].manifest = manifest'[First(p)]
             /\ lock'[First(p)].workspace = manifest',
         \A m \in Modules \ {First(p)} : lock'[m] = lock[m]
  PROVE  Inv'
<1> USE DEF Inv, TypeOK
<1>1. CASE Len(todo[p]) = 1
  BY <1>1, EndKeeps DEF NextModule
<1>2. CASE Len(todo[p]) # 1
  <2>1. /\ todo' = [todo EXCEPT ![p] = Tail(todo[p])] /\ stage' = [stage EXCEPT ![p] = "own"]
        /\ UNCHANGED <<op, target, own, hash, tree, saved, committed>>
    BY <1>2 DEF NextModule, GoTo, locals, LocalsOk
  <2>2. todo[p] \in Seq(Modules) /\ todo[p] # <<>>
    BY DEF LocalsOk, ProcOk, TodoOk
  <2>3. /\ Tail(todo[p]) \in Seq(Modules) /\ Tail(todo[p]) # <<>>
        /\ Left(p) = {First(p)} \cup Entries(Tail(todo[p]))
    BY <1>2, <2>2, Remaining DEF Left, First
  <2>4. LocalsOk'
    <3>1. "own" \in Stages
      BY DEF Stages, Syncing
    <3> QED BY <2>1, <2>3, <3>1 DEF LocalsOk
  <2>5. Alone(p) /\ stage'[p] = "own" /\ todo'[p] = Tail(todo[p])
    BY <2>1 DEF Alone, LocalsOk
  <2>6. ProcOk(p)'
    <3>1. TodoOk(p)' /\ HashedOk(p)' /\ SavedOk(p)'
      BY <2>1, <2>3, <2>5 DEF ProcOk, TodoOk, HashedOk, SavedOk
    <3>2. ASSUME ~interfered'[p]
          PROVE  SyncOk(p)' /\ RestoreOk(p)' /\ ImportOk(p)'
      <4>1. ~interfered[p]
        BY <2>5, <3>2, OwnHistory
      <4>2. \A m \in Entries(WorkspaceDirectories(target[p])) : m \in Left(p) \/ Current(m)
        BY <4>1 DEF ProcOk, SyncOk, Syncing, ReadingInputs
      <4>3. \A m \in Modules \ {First(p)} : Current(m) => Current(m)'
        BY DEF Current
      <4>4. Entries(WorkspaceDirectories(target[p])) \subseteq Modules
        BY AllModules DEF LocalsOk
      <4>5. PICK h \in Modules : h = First(p)
        BY <2>2, Remaining DEF First
      <4>6. Current(h)'
        BY <4>1, <4>5 DEF Current
      <4>7. \A m \in Entries(WorkspaceDirectories(target[p])) : m \in Left(p)' \/ Current(m)'
        BY <2>3, <2>5, <4>2, <4>3, <4>4, <4>5, <4>6 DEF Left
      <4>8. SyncOk(p)'
        BY <2>1, <2>5, <4>7 DEF SyncOk
      <4> QED BY <2>5, <4>8 DEF RestoreOk, ImportOk
    <3> QED BY <3>1, <3>2 DEF ProcOk
  <2> QED BY <2>4, <2>5, <2>6, OwnStep
<1> QED BY <1>1, <1>2

LEMMA HashWorkspaceManifestsKeeps ==
  ASSUME Inv, NEW p \in Procs, HashWorkspaceManifests(p), Observe({p})
  PROVE  Inv'
<1> USE DEF Inv, TypeOK
<1>1. stage[p] = "hash" /\ manifest' = manifest /\ lock' = lock
  BY DEF HashWorkspaceManifests, files
<1>2. FilesOk' /\ LocksOk'
  BY <1>1 DEF FilesOk, LocksOk
<1>3. PICK present \in BOOLEAN :
        IF op[p] \in {"sync", "init"} /\ LockIsCurrent(lock[First(p)], own[p], manifest, present)
          THEN NextModule(p)
          ELSE /\ hash' = [hash EXCEPT ![p] = manifest]
               /\ GoTo(p, "projects")
               /\ UNCHANGED <<todo, op, target, own, tree, saved, committed>>
  BY DEF HashWorkspaceManifests, First
<1>4. ~interfered[p] => /\ \A m \in Entries(WorkspaceDirectories(target[p])) : m \in Left(p) \/ Current(m)
                        /\ own[p] = manifest[First(p)]
  BY <1>1 DEF ProcOk, SyncOk, Syncing, ReadingInputs
<1>5. CASE LockIsCurrent(lock[First(p)], own[p], manifest, present) /\ NextModule(p)
  <2>1. ~interfered[p] => /\ lock[First(p)] # NoLock /\ lock[First(p)].manifest = manifest[First(p)]
                          /\ lock[First(p)].workspace = manifest
    BY <1>4, <1>5 DEF LockIsCurrent
  <2> QED BY <1>1, <1>2, <1>5, <2>1, NextModuleKeeps
<1>6. CASE /\ hash' = [hash EXCEPT ![p] = manifest] /\ GoTo(p, "projects")
           /\ UNCHANGED <<todo, op, target, own, tree, saved, committed>>
  <2>1. LocalsOk'
    <3>1. "projects" \in Stages
      BY DEF Stages, Syncing, ReadingInputs
    <3> QED BY <1>6, <3>1 DEF GoTo, LocalsOk, FilesOk
  <2>2. Alone(p) /\ stage'[p] = "projects" /\ hash'[p] = manifest
    BY <1>6 DEF GoTo, Alone, LocalsOk
  <2>3. ProcOk(p)'
    <3>1. TodoOk(p)' /\ HashedOk(p)' /\ SavedOk(p)'
      BY <1>1, <1>6, <2>2 DEF ProcOk, TodoOk, HashedOk, SavedOk
    <3>2. ASSUME ~interfered'[p]
          PROVE  SyncOk(p)' /\ RestoreOk(p)' /\ ImportOk(p)'
      <4>1. ~interfered[p]
        BY <2>2, <3>2, OwnHistory
      <4>2. SyncOk(p)'
        BY <1>1, <1>4, <1>6, <2>2, <4>1 DEF SyncOk, Left, Current, First
      <4> QED BY <2>2, <4>2 DEF RestoreOk, ImportOk
    <3> QED BY <3>1, <3>2 DEF ProcOk
  <2> QED BY <1>2, <2>1, <2>2, <2>3, OwnStep
<1> QED BY <1>3, <1>5, <1>6

LEMMA ManifestProjectsKeeps ==
  ASSUME Inv, NEW p \in Procs, ManifestProjects(p), Observe({p})
  PROVE  Inv'
<1> USE DEF Inv, TypeOK
<1>1. /\ stage[p] = "projects" /\ tree' = [tree EXCEPT ![p] = manifest]
      /\ stage' = [stage EXCEPT ![p] = "resolve"]
      /\ UNCHANGED <<manifest, lock>>
      /\ UNCHANGED <<todo, op, target, own, hash, saved, committed>>
  BY DEF ManifestProjects, GoTo, files
<1>2. TypeOK' /\ LocksOk'
  <2>1. "resolve" \in Stages
    BY DEF Stages, Syncing
  <2> QED BY <1>1, <2>1 DEF FilesOk, LocalsOk, LocksOk
<1>3. Alone(p) /\ stage'[p] = "resolve" /\ tree'[p] = manifest
  BY <1>1 DEF Alone, LocalsOk
<1>4. ProcOk(p)'
  <2>1. TodoOk(p)' /\ SavedOk(p)'
    BY <1>1, <1>3 DEF ProcOk, TodoOk, SavedOk
  <2>2. HashedOk(p)'
    <3>1. ~moved'[p] => ~moved[p]
      BY <1>3, OwnHistory
    <3> QED BY <1>1, <1>3, <3>1 DEF ProcOk, HashedOk
  <2>3. ASSUME ~interfered'[p]
        PROVE  SyncOk(p)' /\ RestoreOk(p)' /\ ImportOk(p)'
    <3>1. ~interfered[p]
      BY <1>3, <2>3, OwnHistory
    <3>2. /\ \A m \in Entries(WorkspaceDirectories(target[p])) : m \in Left(p) \/ Current(m)
          /\ own[p] = manifest[First(p)] /\ hash[p] = manifest
      BY <1>1, <3>1 DEF ProcOk, SyncOk, Syncing, ReadingInputs
    <3>3. SyncOk(p)'
      BY <1>1, <1>3, <3>2 DEF SyncOk, Left, Current, First
    <3> QED BY <1>3, <3>3 DEF RestoreOk, ImportOk
  <2> QED BY <2>1, <2>2, <2>3 DEF ProcOk
<1> QED BY <1>2, <1>3, <1>4, OwnStep

LEMMA WriteLockfileKeeps ==
  ASSUME Inv, NEW p \in Procs, WriteLockfile(p), Observe({p})
  PROVE  Inv'
<1> USE DEF Inv, TypeOK
<1> DEFINE l == LockFromGraph(p)
<1>1. /\ stage[p] = "resolve" /\ manifest' = manifest /\ NextModule(p)
      /\ lock' = [lock EXCEPT ![First(p)] = l]
  BY DEF WriteLockfile, First
<1>2. First(p) \in Modules
  BY <1>1, Remaining DEF ProcOk, TodoOk, LocalsOk, First
<1>3. /\ l \in Locks /\ l # NoLock
      /\ l.manifest = own[p] /\ l.workspace = hash[p] /\ l.from = tree[p] /\ l.suspect = moved[p]
  <2>1. own[p] \in Declared /\ hash[p] \in Trees /\ tree[p] \in Trees /\ moved[p] \in BOOLEAN
    BY DEF LocalsOk, HistoryOk
  <2>2. l \in Locks
    BY <2>1 DEF LockFromGraph, Locks
  <2> QED BY <2>2, NoLockAssumption DEF LockFromGraph
<1> HIDE DEF l
<1>4. Sound(l)
  BY <1>1, <1>3 DEF ProcOk, HashedOk, Sound
<1>5. lock'[First(p)] = l /\ \A m \in Modules \ {First(p)} : lock'[m] = lock[m]
  BY <1>1, <1>2 DEF FilesOk
<1>6. FilesOk' /\ LocksOk'
  <2>1. FilesOk'
    BY <1>1, <1>2, <1>3 DEF FilesOk
  <2>2. LocksOk'
    <3>1. \A m \in Modules : lock'[m] = l \/ lock'[m] = lock[m]
      BY <1>5
    <3> QED BY <1>4, <3>1 DEF LocksOk, Sound
  <2> QED BY <2>1, <2>2
<1>7. ~interfered[p] =>
        lock'[First(p)] # NoLock /\ lock'[First(p)].manifest = manifest'[First(p)]
          /\ lock'[First(p)].workspace = manifest'
  BY <1>1, <1>3, <1>5 DEF ProcOk, SyncOk
<1> QED BY <1>1, <1>5, <1>6, <1>7, NextModuleKeeps

---------------------------------------------------------------------------
(* update, and what add, remove and update restore. *)

LEMMA SnapshotKeeps ==
  ASSUME Inv, NEW p \in Procs, SnapshotWorkspaceFiles(p), Observe({p})
  PROVE  Inv'
<1> USE DEF Inv, TypeOK
<1>1. /\ saved' = [saved EXCEPT ![p] = Snapshot] /\ todo' = [todo EXCEPT ![p] = Order]
      /\ stage' = [stage EXCEPT ![p] = "apply"]
      /\ UNCHANGED <<manifest, lock>> /\ UNCHANGED <<op, target, own, hash, tree, committed>>
  BY DEF SnapshotWorkspaceFiles, GoTo, files
<1>2. Snapshot \in Files /\ Snapshot.lock = lock
  BY DEF Snapshot, Files, FilesOk
<1> HIDE DEF Snapshot
<1>3. TypeOK' /\ LocksOk'
  <2>1. "apply" \in Stages /\ Order \in Seq(Modules)
    BY AllModules DEF Stages
  <2> QED BY <1>1, <1>2, <2>1 DEF FilesOk, LocalsOk, LocksOk
<1>4. Alone(p) /\ stage'[p] = "apply" /\ saved'[p] = Snapshot /\ todo'[p] = Order
  BY <1>1 DEF Alone, LocalsOk
<1>5. ProcOk(p)'
  <2>1. TodoOk(p)' /\ HashedOk(p)' /\ SyncOk(p)' /\ RestoreOk(p)' /\ ImportOk(p)'
    BY <1>4, AllModules DEF TodoOk, HashedOk, SyncOk, RestoreOk, ImportOk, Syncing, ReadingInputs
  <2>2. SavedOk(p)'
    BY <1>2, <1>4 DEF SavedOk, LocksOk
  <2> QED BY <2>1, <2>2 DEF ProcOk
<1> QED BY <1>3, <1>4, <1>5, OwnStep

\* Writing the manifests one by one, then synchronizing all modules: update
\* and init.
LEMMA WritingKeeps ==
  ASSUME Inv, NEW p \in Procs, Observe({p}), stage[p] \in {"apply", "scaffold"}, manifest' \in Trees,
         UNCHANGED lock, UNCHANGED locals, target[p] \in Modules,
         \/ Len(todo[p]) = 1 /\ todo' = [todo EXCEPT ![p] = Order] /\ GoTo(p, "own")
         \/ Len(todo[p]) # 1 /\ todo' = [todo EXCEPT ![p] = Tail(todo[p])] /\ UNCHANGED stage
  PROVE  Inv'
<1> USE DEF Inv, TypeOK
<1>1. UNCHANGED <<op, target, own, hash, tree, saved, committed>>
  BY DEF locals
<1>2. todo[p] \in Seq(Modules) /\ todo[p] # <<>>
  BY DEF LocalsOk, ProcOk, TodoOk
<1>3. Tail(todo[p]) \in Seq(Modules) /\ (Len(todo[p]) # 1 => Tail(todo[p]) # <<>>)
  BY <1>2, Remaining
<1>4. FilesOk' /\ LocksOk'
  BY DEF FilesOk, LocksOk
<1>5. LocalsOk' /\ Alone(p)
      /\ \/ stage'[p] = "own" /\ todo'[p] = Order
         \/ stage'[p] \in {"apply", "scaffold"} /\ todo'[p] # <<>>
  <2>1. "own" \in Stages
    BY DEF Stages, Syncing
  <2>2. /\ todo \in [Procs -> Seq(Modules)] /\ stage \in [Procs -> Stages]
        /\ Order \in Seq(Modules) /\ Order # <<>>
    BY AllModules DEF LocalsOk
  <2>3. CASE Len(todo[p]) = 1 /\ todo' = [todo EXCEPT ![p] = Order] /\ GoTo(p, "own")
    <3>1. todo' \in [Procs -> Seq(Modules)] /\ stage' \in [Procs -> Stages]
      BY <2>1, <2>2, <2>3 DEF GoTo
    <3>2. stage'[p] = "own" /\ todo'[p] = Order
      BY <2>2, <2>3 DEF GoTo
    <3>3. LocalsOk'
      BY <1>1, <3>1 DEF LocalsOk
    <3>4. Alone(p)
      BY <1>1, <2>2, <2>3 DEF Alone, GoTo
    <3> QED BY <3>2, <3>3, <3>4
  <2>4. CASE Len(todo[p]) # 1 /\ todo' = [todo EXCEPT ![p] = Tail(todo[p])] /\ UNCHANGED stage
    <3>1. todo' \in [Procs -> Seq(Modules)]
      BY <1>3, <2>2, <2>4
    <3>2. stage'[p] \in {"apply", "scaffold"} /\ todo'[p] # <<>>
      BY <1>3, <2>2, <2>4
    <3>3. LocalsOk'
      BY <1>1, <2>4, <3>1 DEF LocalsOk
    <3>4. Alone(p)
      BY <1>1, <2>2, <2>4 DEF Alone
    <3> QED BY <3>2, <3>3, <3>4
  <2> QED BY <2>3, <2>4
<1>6. ProcOk(p)'
  <2>1. TodoOk(p)' /\ HashedOk(p)' /\ RestoreOk(p)' /\ ImportOk(p)'
    BY <1>5, AllModules DEF TodoOk, HashedOk, RestoreOk, ImportOk
  <2>2. SavedOk(p)'
    BY <1>1 DEF ProcOk, SavedOk
  <2>3. SyncOk(p)'
    BY <1>1, <1>5, AllModules DEF SyncOk, Left, Syncing, ReadingInputs
  <2> QED BY <2>1, <2>2, <2>3 DEF ProcOk
<1> QED BY <1>4, <1>5, <1>6, OwnStep

LEMMA ApplyKeeps ==
  ASSUME Inv, NEW p \in Procs, ApplyDependencyUpdatePlan(p), Observe({p})
  PROVE  Inv'
<1>1. manifest' \in Trees
  <2>1. PICK m : m = Head(todo[p])
    OBVIOUS
  <2>2. manifest' = manifest \/ manifest' = [manifest EXCEPT ![m] = "v2"]
    BY <2>1 DEF ApplyDependencyUpdatePlan, SelectDependencyUpdate
  <2>3. manifest \in Trees /\ "v2" \in Contents
    BY DEF Inv, TypeOK, FilesOk, Contents, Declared, Versions
  <2> QED BY <2>2, <2>3 DEF Trees
<1>2. target[p] \in Modules
  BY DEF Inv, TypeOK, LocalsOk
<1>3. /\ stage[p] = "apply" /\ UNCHANGED lock /\ UNCHANGED locals
      /\ \/ Len(todo[p]) = 1 /\ todo' = [todo EXCEPT ![p] = Order] /\ GoTo(p, "own")
         \/ Len(todo[p]) # 1 /\ todo' = [todo EXCEPT ![p] = Tail(todo[p])] /\ UNCHANGED stage
  BY DEF ApplyDependencyUpdatePlan, Inv, TypeOK, LocalsOk
<1> QED BY <1>1, <1>2, <1>3, WritingKeeps

LEMMA ScaffoldKeeps ==
  ASSUME Inv, NEW p \in Procs, WriteScaffold(p), Observe({p})
  PROVE  Inv'
<1>1. manifest' \in Trees
  <2>1. PICK m : m = Head(todo[p])
    OBVIOUS
  <2>2. manifest' = [manifest EXCEPT ![m] = "none"]
    BY <2>1 DEF WriteScaffold
  <2>3. manifest \in Trees /\ "none" \in Contents
    BY DEF Inv, TypeOK, FilesOk, Contents, Declared
  <2> QED BY <2>2, <2>3 DEF Trees
<1>2. target[p] \in Modules
  BY DEF Inv, TypeOK, LocalsOk
<1>3. /\ stage[p] = "scaffold" /\ UNCHANGED lock /\ UNCHANGED locals
      /\ \/ Len(todo[p]) = 1 /\ todo' = [todo EXCEPT ![p] = Order] /\ GoTo(p, "own")
         \/ Len(todo[p]) # 1 /\ todo' = [todo EXCEPT ![p] = Tail(todo[p])] /\ UNCHANGED stage
  BY DEF WriteScaffold, Inv, TypeOK, LocalsOk
<1> QED BY <1>1, <1>2, <1>3, WritingKeeps

LEMMA RestoreManifestKeeps ==
  ASSUME Inv, NEW p \in Procs, RestoreManifest(p), Observe({p})
  PROVE  Inv'
<1> USE DEF Inv, TypeOK
<1>1. PICK t \in Modules : t = target[p]
  BY DEF LocalsOk
<1>2. saved[p].manifest[t] \in Contents
  BY DEF LocalsOk, Files, Trees
<1>3. manifest' = [manifest EXCEPT ![t] = saved[p].manifest[t]] /\ lock' = lock /\ End(p)
  BY <1>1 DEF RestoreManifest
<1>4. FilesOk' /\ LocksOk'
  BY <1>2, <1>3 DEF FilesOk, Trees, LocksOk
<1> QED BY <1>3, <1>4, EndKeeps

LEMMA RestoreTomlKeeps ==
  ASSUME Inv, NEW p \in Procs, RestoreToml(p), Observe({p})
  PROVE  Inv'
<1> USE DEF Inv, TypeOK
<1>1. stage[p] = "restore" /\ op[p] = "update"
  BY DEF RestoreToml
<1>2. PICK h \in Modules : h = First(p) /\ h \in Left(p)
  BY <1>1, Remaining DEF ProcOk, TodoOk, LocalsOk, First, Left
<1>3. /\ manifest' = [manifest EXCEPT ![h] = saved[p].manifest[h]] /\ lock' = lock
      /\ stage' = [stage EXCEPT ![p] = "restorelock"]
      /\ UNCHANGED <<todo, op, target, own, hash, tree, saved, committed>>
  BY <1>2 DEF RestoreToml, GoTo, First, locals
<1>4. saved[p].manifest[h] \in Contents
  BY DEF LocalsOk, Files, Trees
<1>5. TypeOK' /\ LocksOk'
  <2>1. FilesOk' /\ LocksOk'
    BY <1>3, <1>4 DEF FilesOk, Trees, LocksOk
  <2>2. "restorelock" \in Stages
    BY DEF Stages
  <2> QED BY <1>3, <2>1, <2>2 DEF LocalsOk
<1>6. /\ Alone(p) /\ stage'[p] = "restorelock"
      /\ manifest'[h] = saved[p].manifest[h]
      /\ \A m \in Modules \ {h} : manifest'[m] = manifest[m]
  BY <1>3 DEF Alone, LocalsOk, FilesOk, Trees
<1>7. ProcOk(p)'
  <2>1. TodoOk(p)' /\ HashedOk(p)' /\ SavedOk(p)'
    BY <1>1, <1>3, <1>6 DEF ProcOk, TodoOk, HashedOk, SavedOk
  <2>2. ASSUME ~interfered'[p]
        PROVE  SyncOk(p)' /\ RestoreOk(p)' /\ ImportOk(p)'
    <3>1. ~interfered[p]
      BY <1>6, <2>2, OwnHistory
    <3>2. \A m \in Modules : m \in Left(p) \/ Restored(p, m)
      BY <1>1, <3>1 DEF ProcOk, RestoreOk
    <3>3. \A m \in Modules : m \in Left(p)' \/ Restored(p, m)'
      BY <1>2, <1>3, <1>6, <3>2 DEF Left, Restored
    <3>4. RestoreOk(p)'
      BY <1>2, <1>3, <1>6, <3>3 DEF RestoreOk, First
    <3> QED BY <1>6, <3>4 DEF SyncOk, ImportOk, Syncing, ReadingInputs
  <2> QED BY <2>1, <2>2 DEF ProcOk
<1> QED BY <1>5, <1>6, <1>7, OwnStep

LEMMA RestoreLockKeeps ==
  ASSUME Inv, NEW p \in Procs, RestoreLock(p), Observe({p})
  PROVE  Inv'
<1> USE DEF Inv, TypeOK
<1>1. stage[p] = "restorelock" /\ manifest' = manifest
  BY DEF RestoreLock
<1>2. todo[p] \in Seq(Modules) /\ todo[p] # <<>>
  BY <1>1 DEF LocalsOk, ProcOk, TodoOk
<1>3. PICK h \in Modules : h = First(p)
  BY <1>2, Remaining DEF First
<1>4. lock' = [lock EXCEPT ![h] = saved[p].lock[h]]
  BY <1>3 DEF RestoreLock, First
<1>5. saved[p].lock[h] \in Locks \cup {NoLock} /\ Sound(saved[p].lock[h])
  BY DEF LocalsOk, Files, ProcOk, SavedOk
<1>6. /\ lock'[h] = saved[p].lock[h]
      /\ \A m \in Modules \ {h} : lock'[m] = lock[m]
  BY <1>4 DEF FilesOk
<1>7. FilesOk' /\ LocksOk'
  <2>1. FilesOk'
    BY <1>1, <1>4, <1>5 DEF FilesOk
  <2>2. LocksOk'
    BY <1>5, <1>6 DEF LocksOk, Sound
  <2> QED BY <2>1, <2>2
<1>8. CASE End(p)
  BY <1>7, <1>8, EndKeeps
<1>9. CASE /\ Len(todo[p]) # 1 /\ todo' = [todo EXCEPT ![p] = Tail(@)]
           /\ GoTo(p, "restore") /\ UNCHANGED locals
  <2>1. /\ todo' = [todo EXCEPT ![p] = Tail(todo[p])] /\ stage' = [stage EXCEPT ![p] = "restore"]
        /\ UNCHANGED <<op, target, own, hash, tree, saved, committed>>
    BY <1>9 DEF GoTo, locals, LocalsOk
  <2>2. /\ Tail(todo[p]) \in Seq(Modules) /\ Tail(todo[p]) # <<>>
        /\ Left(p) = {h} \cup Entries(Tail(todo[p]))
    BY <1>2, <1>3, <1>9, Remaining DEF Left, First
  <2>3. LocalsOk' /\ Alone(p) /\ stage'[p] = "restore" /\ todo'[p] = Tail(todo[p])
    <3>1. "restore" \in Stages
      BY DEF Stages
    <3> QED BY <2>1, <2>2, <3>1 DEF LocalsOk, Alone
  <2>4. ProcOk(p)'
    <3>1. TodoOk(p)' /\ HashedOk(p)' /\ SavedOk(p)'
      BY <2>1, <2>2, <2>3 DEF ProcOk, TodoOk, HashedOk, SavedOk
    <3>2. ASSUME ~interfered'[p]
          PROVE  SyncOk(p)' /\ RestoreOk(p)' /\ ImportOk(p)'
      <4>1. ~interfered[p]
        BY <2>3, <3>2, OwnHistory
      <4>2. /\ \A m \in Modules : m \in Left(p) \/ Restored(p, m)
            /\ manifest[h] = saved[p].manifest[h]
        BY <1>1, <1>3, <4>1 DEF ProcOk, RestoreOk
      <4>3. \A m \in Modules : m \in Left(p)' \/ Restored(p, m)'
        BY <1>1, <1>6, <2>1, <2>2, <2>3, <4>2 DEF Left, Restored
      <4> QED BY <2>3, <4>3 DEF RestoreOk, SyncOk, ImportOk, Syncing, ReadingInputs
    <3> QED BY <3>1, <3>2 DEF ProcOk
  <2> QED BY <1>7, <2>3, <2>4, OwnStep
<1> QED BY <1>8, <1>9 DEF RestoreLock

---------------------------------------------------------------------------
(* init --import. *)

LEMMA ImportedLocks ==
  /\ Imported \in Trees /\ ImportedLock \in Locks /\ ImportedLock # NoLock /\ Sound(ImportedLock)
  /\ ImportedLock.manifest = "v1" /\ ImportedLock.workspace = Imported
  /\ \A m \in Modules : Imported[m] = "v1"
<1>1. Imported \in Trees
  BY DEF Imported, Trees, Contents, Declared, Versions
<1>2. ImportedLock \in Locks
  BY <1>1 DEF ImportedLock, Locks, Declared, Versions
<1>3. ImportedLock # NoLock
  BY <1>2, NoLockAssumption
<1> QED BY <1>1, <1>2, <1>3 DEF ImportedLock, Imported, Sound

LEMMA StageImportKeeps ==
  ASSUME Inv, NEW p \in Procs, StageImport(p), Observe({p})
  PROVE  Inv'
<1> USE DEF Inv, TypeOK
<1>1. /\ stage[p] = "generate" /\ todo' = [todo EXCEPT ![p] = Order]
      /\ stage' = [stage EXCEPT ![p] = "commit"]
      /\ UNCHANGED <<manifest, lock>> /\ UNCHANGED <<op, target, own, hash, tree, saved, committed>>
  BY DEF StageImport, GoTo, locals
<1>2. TypeOK' /\ LocksOk'
  <2>1. "commit" \in Stages /\ Order \in Seq(Modules)
    BY AllModules DEF Stages
  <2> QED BY <1>1, <2>1 DEF FilesOk, LocalsOk, LocksOk
<1>3. Alone(p) /\ stage'[p] = "commit" /\ todo'[p] = Order
  BY <1>1 DEF Alone, LocalsOk
<1>4. ProcOk(p)'
  <2>1. TodoOk(p)' /\ HashedOk(p)' /\ SavedOk(p)'
    BY <1>1, <1>3, AllModules DEF ProcOk, TodoOk, HashedOk, SavedOk
  <2>2. ASSUME ~interfered'[p]
        PROVE  SyncOk(p)' /\ RestoreOk(p)' /\ ImportOk(p)'
    <3>1. ~interfered[p]
      BY <1>3, <2>2, OwnHistory
    <3>2. \A m \in Modules : NoToml(m) /\ lock[m] = NoLock
      BY <1>1, <3>1 DEF ProcOk, ImportOk
    <3>3. ImportOk(p)'
      BY <1>1, <1>3, <3>2, AllModules DEF ImportOk, NoToml, Left
    <3> QED BY <1>3, <3>3 DEF SyncOk, RestoreOk, Syncing, ReadingInputs
  <2> QED BY <2>1, <2>2 DEF ProcOk
<1> QED BY <1>2, <1>3, <1>4, OwnStep

LEMMA CommitTomlKeeps ==
  ASSUME Inv, NEW p \in Procs, CommitToml(p), Observe({p})
  PROVE  Inv'
<1> USE DEF Inv, TypeOK
<1>1. stage[p] = "commit"
  BY DEF CommitToml
<1>2. PICK h \in Modules : h = First(p) /\ h \in Left(p)
  BY <1>1, Remaining DEF ProcOk, TodoOk, LocalsOk, First, Left
<1>3. /\ manifest' = [manifest EXCEPT ![h] = "v1"] /\ lock' = lock
      /\ committed' = [committed EXCEPT ![p] = committed[p] \cup {<<h, "toml">>}]
      /\ stage' = [stage EXCEPT ![p] = "commitlock"]
      /\ UNCHANGED <<todo, op, target, own, hash, tree, saved>>
  BY <1>2 DEF CommitToml, GoTo, First, LocalsOk
<1>4. TypeOK' /\ LocksOk'
  <2>1. "v1" \in Contents /\ "commitlock" \in Stages
    BY DEF Contents, Declared, Versions, Stages
  <2>2. committed[p] \cup {<<h, "toml">>} \in SUBSET (Modules \X {"toml", "lock"})
    BY DEF LocalsOk
  <2>3. FilesOk' /\ LocksOk'
    BY <1>3, <2>1 DEF FilesOk, Trees, LocksOk
  <2> QED BY <1>3, <2>1, <2>2, <2>3 DEF LocalsOk
<1>5. /\ Alone(p) /\ stage'[p] = "commitlock" /\ committed'[p] = committed[p] \cup {<<h, "toml">>}
      /\ manifest'[h] = "v1" /\ \A m \in Modules \ {h} : manifest'[m] = manifest[m]
  BY <1>3 DEF Alone, LocalsOk, FilesOk, Trees
<1>6. ProcOk(p)'
  <2>1. TodoOk(p)' /\ HashedOk(p)' /\ SavedOk(p)'
    BY <1>1, <1>3, <1>5 DEF ProcOk, TodoOk, HashedOk, SavedOk
  <2>2. ASSUME ~interfered'[p]
        PROVE  SyncOk(p)' /\ RestoreOk(p)' /\ ImportOk(p)'
    <3>1. ~interfered[p]
      BY <1>5, <2>2, OwnHistory
    <3>2. \A m \in Modules : /\ <<m, "toml">> \in committed[p] \/ NoToml(m)
                             /\ <<m, "lock">> \in committed[p] \/ lock[m] = NoLock
                             /\ m \in Left(p) \/ (manifest[m] = "v1" /\ lock[m] = ImportedLock)
      BY <1>1, <3>1 DEF ProcOk, ImportOk
    <3>3. \A m \in Modules : /\ <<m, "toml">> \in committed'[p] \/ NoToml(m)'
                             /\ <<m, "lock">> \in committed'[p] \/ lock'[m] = NoLock
                             /\ m \in Left(p)' \/ (manifest'[m] = "v1" /\ lock'[m] = ImportedLock)
      BY <1>2, <1>3, <1>5, <3>2 DEF NoToml, Left
    <3>4. ImportOk(p)'
      BY <1>2, <1>3, <1>5, <3>3 DEF ImportOk, First
    <3> QED BY <1>5, <3>4 DEF SyncOk, RestoreOk, Syncing, ReadingInputs
  <2> QED BY <2>1, <2>2 DEF ProcOk
<1> QED BY <1>4, <1>5, <1>6, OwnStep

LEMMA CommitLockKeeps ==
  ASSUME Inv, NEW p \in Procs, CommitLock(p), Observe({p})
  PROVE  Inv'
<1> USE DEF Inv, TypeOK
<1>1. stage[p] = "commitlock" /\ manifest' = manifest
  BY DEF CommitLock
<1>2. todo[p] \in Seq(Modules) /\ todo[p] # <<>>
  BY <1>1 DEF LocalsOk, ProcOk, TodoOk
<1>3. PICK h \in Modules : h = First(p)
  BY <1>2, Remaining DEF First
<1>4. lock' = [lock EXCEPT ![h] = ImportedLock]
  BY <1>3 DEF CommitLock, First
<1>5. lock'[h] = ImportedLock /\ \A m \in Modules \ {h} : lock'[m] = lock[m]
  BY <1>4 DEF FilesOk
<1>6. FilesOk' /\ LocksOk'
  <2>1. FilesOk'
    BY <1>1, <1>4, ImportedLocks DEF FilesOk
  <2>2. LocksOk'
    BY <1>5, ImportedLocks DEF LocksOk, Sound
  <2> QED BY <2>1, <2>2
<1>7. CASE End(p)
  BY <1>6, <1>7, EndKeeps
<1>8. CASE /\ Len(todo[p]) # 1
           /\ committed' = [committed EXCEPT ![p] = @ \cup {<<Head(todo[p]), "lock">>}]
           /\ todo' = [todo EXCEPT ![p] = Tail(@)]
           /\ GoTo(p, "commit")
           /\ UNCHANGED <<op, target, own, hash, tree, saved>>
  <2>1. /\ todo' = [todo EXCEPT ![p] = Tail(todo[p])] /\ stage' = [stage EXCEPT ![p] = "commit"]
        /\ committed' = [committed EXCEPT ![p] = committed[p] \cup {<<h, "lock">>}]
        /\ UNCHANGED <<op, target, own, hash, tree, saved>>
    BY <1>3, <1>8 DEF GoTo, LocalsOk, First
  <2>2. /\ Tail(todo[p]) \in Seq(Modules) /\ Tail(todo[p]) # <<>>
        /\ Left(p) = {h} \cup Entries(Tail(todo[p]))
    BY <1>2, <1>3, <1>8, Remaining DEF Left, First
  <2>3. /\ LocalsOk' /\ Alone(p) /\ stage'[p] = "commit" /\ todo'[p] = Tail(todo[p])
        /\ committed'[p] = committed[p] \cup {<<h, "lock">>}
    <3>1. "commit" \in Stages
      BY DEF Stages
    <3>2. committed[p] \cup {<<h, "lock">>} \in SUBSET (Modules \X {"toml", "lock"})
      BY DEF LocalsOk
    <3> QED BY <2>1, <2>2, <3>1, <3>2 DEF LocalsOk, Alone
  <2>4. ProcOk(p)'
    <3>1. TodoOk(p)' /\ HashedOk(p)' /\ SavedOk(p)'
      BY <2>1, <2>2, <2>3 DEF ProcOk, TodoOk, HashedOk, SavedOk
    <3>2. ASSUME ~interfered'[p]
          PROVE  SyncOk(p)' /\ RestoreOk(p)' /\ ImportOk(p)'
      <4>1. ~interfered[p]
        BY <2>3, <3>2, OwnHistory
      <4>2. /\ manifest[h] = "v1"
            /\ \A m \in Modules : /\ <<m, "toml">> \in committed[p] \/ NoToml(m)
                                  /\ <<m, "lock">> \in committed[p] \/ lock[m] = NoLock
                                  /\ m \in Left(p) \/ (manifest[m] = "v1" /\ lock[m] = ImportedLock)
        BY <1>1, <1>3, <4>1 DEF ProcOk, ImportOk
      <4>3. \A m \in Modules : /\ <<m, "toml">> \in committed'[p] \/ NoToml(m)'
                               /\ <<m, "lock">> \in committed'[p] \/ lock'[m] = NoLock
                               /\ m \in Left(p)' \/ (manifest'[m] = "v1" /\ lock'[m] = ImportedLock)
        BY <1>1, <1>5, <2>2, <2>3, <4>2 DEF NoToml, Left
      <4> QED BY <2>3, <4>3 DEF ImportOk, SyncOk, RestoreOk, Syncing, ReadingInputs
    <3> QED BY <3>1, <3>2 DEF ProcOk
  <2> QED BY <1>6, <2>3, <2>4, OwnStep
<1> QED BY <1>7, <1>8 DEF CommitLock

LEMMA UndoCommitKeeps ==
  ASSUME Inv, NEW p \in Procs, UndoCommit(p), Observe({p})
  PROVE  Inv'
<1> USE DEF Inv, TypeOK
<1>1. stage[p] = "undo"
  BY DEF UndoCommit
<1>2. todo[p] \in Seq(Modules) /\ todo[p] # <<>>
  BY <1>1 DEF LocalsOk, ProcOk, TodoOk
<1>3. PICK h \in Modules : h = First(p)
  BY <1>2, Remaining DEF First
<1> DEFINE c == IF <<h, "toml">> \in committed[p] THEN "absent" ELSE manifest[h]
           l == IF <<h, "lock">> \in committed[p] THEN NoLock ELSE lock[h]
<1>4. manifest' = [manifest EXCEPT ![h] = c] /\ lock' = [lock EXCEPT ![h] = l]
  BY <1>3 DEF UndoCommit, First, FilesOk, Trees
<1>5. /\ c = manifest[h] \/ c = "absent"
      /\ l = lock[h] \/ l = NoLock
      /\ (<<h, "toml">> \in committed[p] \/ NoToml(h)) => c \in {"absent", "toolchain"}
      /\ (<<h, "lock">> \in committed[p] \/ lock[h] = NoLock) => l = NoLock
  BY DEF NoToml
<1> HIDE DEF c, l
<1>6. /\ manifest'[h] = c /\ lock'[h] = l
      /\ \A m \in Modules \ {h} : manifest'[m] = manifest[m] /\ lock'[m] = lock[m]
  BY <1>4 DEF FilesOk, Trees
<1>7. FilesOk' /\ LocksOk'
  <2>1. c \in Contents /\ l \in Locks \cup {NoLock}
    BY <1>5 DEF FilesOk, Trees, Contents
  <2>2. FilesOk'
    BY <1>4, <2>1 DEF FilesOk, Trees
  <2>3. LocksOk'
    BY <1>5, <1>6 DEF LocksOk, Sound
  <2> QED BY <2>2, <2>3
<1>8. CASE End(p)
  BY <1>7, <1>8, EndKeeps
<1>9. CASE /\ Len(todo[p]) # 1 /\ todo' = [todo EXCEPT ![p] = Tail(@)]
           /\ UNCHANGED <<stage, locals>>
  <2>1. /\ todo' = [todo EXCEPT ![p] = Tail(todo[p])]
        /\ UNCHANGED <<stage, op, target, own, hash, tree, saved, committed>>
    BY <1>9 DEF locals, LocalsOk
  <2>2. /\ Tail(todo[p]) \in Seq(Modules) /\ Tail(todo[p]) # <<>>
        /\ Left(p) = {h} \cup Entries(Tail(todo[p]))
    BY <1>2, <1>3, <1>9, Remaining DEF Left, First
  <2>3. LocalsOk' /\ Alone(p) /\ stage'[p] = "undo" /\ todo'[p] = Tail(todo[p])
    BY <1>1, <2>1, <2>2 DEF LocalsOk, Alone
  <2>4. ProcOk(p)'
    <3>1. TodoOk(p)' /\ HashedOk(p)' /\ SavedOk(p)'
      BY <2>1, <2>2, <2>3 DEF ProcOk, TodoOk, HashedOk, SavedOk
    <3>2. ASSUME ~interfered'[p]
          PROVE  SyncOk(p)' /\ RestoreOk(p)' /\ ImportOk(p)'
      <4>1. ~interfered[p]
        BY <2>3, <3>2, OwnHistory
      <4>2. \A m \in Modules : /\ <<m, "toml">> \in committed[p] \/ NoToml(m)
                               /\ <<m, "lock">> \in committed[p] \/ lock[m] = NoLock
                               /\ m \in Left(p) \/ (NoToml(m) /\ lock[m] = NoLock)
        BY <1>1, <4>1 DEF ProcOk, ImportOk
      <4>3. NoToml(h)' /\ lock'[h] = NoLock
        BY <1>5, <1>6, <4>2 DEF NoToml
      <4>4. \A m \in Modules : /\ <<m, "toml">> \in committed[p] \/ NoToml(m)'
                               /\ <<m, "lock">> \in committed[p] \/ lock'[m] = NoLock
                               /\ m \in Left(p)' \/ (NoToml(m)' /\ lock'[m] = NoLock)
        BY <1>6, <2>2, <2>3, <4>2, <4>3 DEF NoToml, Left
      <4> QED BY <2>1, <2>3, <4>4 DEF ImportOk, SyncOk, RestoreOk, Syncing, ReadingInputs
    <3> QED BY <3>1, <3>2 DEF ProcOk
  <2> QED BY <1>7, <2>3, <2>4, OwnStep
<1> QED BY <1>8, <1>9 DEF UndoCommit

---------------------------------------------------------------------------
(* Errors, kills, edits. *)

LEMMA MishapKeeps ==
  ASSUME Inv, NEW p \in Procs, Mishap(p), Observe({p})
  PROVE  Inv'
<1> USE DEF Inv, TypeOK
<1>1. UNCHANGED <<manifest, lock>>
  BY DEF Mishap, Abandon, FailMutation, FailCommit, FailRestore, Kill, files
<1>2. FilesOk' /\ LocksOk'
  BY <1>1 DEF FilesOk, LocksOk
<1>3. CASE Abandon(p) \/ FailRestore(p) \/ Kill(p)
  BY <1>2, <1>3, EndKeeps DEF Abandon, FailRestore, Kill
<1>4. CASE FailMutation(p) \/ FailCommit(p)
  <2>1. PICK s \in {"restore", "undo"} :
          /\ stage' = [stage EXCEPT ![p] = s] /\ todo' = [todo EXCEPT ![p] = Order]
          /\ UNCHANGED <<op, target, own, hash, tree, saved, committed>>
          /\ s = "undo" => stage[p] \in {"commit", "commitlock"}
    BY <1>4 DEF FailMutation, FailCommit, GoTo, locals
  <2>2. LocalsOk' /\ Alone(p) /\ stage'[p] = s /\ todo'[p] = Order
    <3>1. s \in Stages
      BY DEF Stages
    <3> QED BY <2>1, <3>1, AllModules DEF LocalsOk, Alone
  <2>3. ProcOk(p)'
    <3>1. TodoOk(p)' /\ HashedOk(p)' /\ SavedOk(p)'
      BY <2>1, <2>2, AllModules DEF ProcOk, TodoOk, HashedOk, SavedOk
    <3>2. ASSUME ~interfered'[p]
          PROVE  SyncOk(p)' /\ RestoreOk(p)' /\ ImportOk(p)'
      <4>1. ~interfered[p]
        BY <2>2, <3>2, OwnHistory
      <4>2. s = "undo" => \A m \in Modules : /\ <<m, "toml">> \in committed[p] \/ NoToml(m)
                                             /\ <<m, "lock">> \in committed[p] \/ lock[m] = NoLock
        BY <2>1, <4>1 DEF ProcOk, ImportOk
      <4>3. Left(p)' = Modules
        BY <2>2, AllModules DEF Left
      <4>4. RestoreOk(p)' /\ SyncOk(p)'
        BY <2>2, <4>3 DEF RestoreOk, SyncOk, Syncing, ReadingInputs
      <4>5. ImportOk(p)'
        BY <1>1, <2>1, <2>2, <4>2, <4>3 DEF ImportOk, NoToml
      <4> QED BY <4>4, <4>5
    <3> QED BY <3>1, <3>2 DEF ProcOk
  <2> QED BY <1>2, <2>2, <2>3, OwnStep
<1> QED BY <1>3, <1>4 DEF Mishap

LEMMA EditKeeps ==
  ASSUME Inv, Edit, Observe({})
  PROVE  Inv'
<1> USE DEF Inv, TypeOK
<1>1. PICK m \in Modules, c \in Declared : manifest' = [manifest EXCEPT ![m] = c]
  BY DEF Edit
<1>2. lock' = lock /\ UNCHANGED <<op, stage, target, todo, own, hash, tree, saved, committed>>
  BY DEF Edit, locals
<1>3. FilesOk' /\ LocalsOk' /\ LocksOk'
  <2>1. c \in Contents
    BY DEF Contents
  <2> QED BY <1>1, <1>2, <2>1 DEF FilesOk, LocalsOk, LocksOk, Trees
<1>4. ASSUME NEW q \in Procs
      PROVE  ProcOk(q)'
  <2>1. TypeOK /\ ProcOk(q) /\ q \notin {}
    OBVIOUS
  <2> QED BY <1>2, <2>1, Bystander
<1> QED BY <1>3, <1>4, Observed

LEMMA InitInv == Init => Inv
<1> SUFFICES ASSUME Init
             PROVE  Inv
  OBVIOUS
<1>1. FilesOk
  <2>1. {"none", "v1"} \subseteq Contents /\ {"absent", "toolchain"} \subseteq Contents
    BY DEF Contents, Declared, Versions
  <2>2. manifest \in Trees
    BY <2>1 DEF Init, Trees
  <2> QED BY <2>2 DEF Init, FilesOk
<1>2. LocalsOk
  <2>1. "none" \in Declared /\ "idle" \in Stages /\ <<>> \in Seq(Modules) /\ Root \in Modules
    BY AllModules DEF Declared, Stages
  <2> QED BY <2>1, NothingHeld DEF Init, LocalsOk
<1>3. HistoryOk /\ LocksOk
  BY DEF Init, HistoryOk, LocksOk, Sound
<1>4. ASSUME NEW p \in Procs
      PROVE  ProcOk(p)
  <2>1. stage[p] = "idle" /\ saved[p] = NoFiles
    BY DEF Init
  <2>2. TodoOk(p) /\ HashedOk(p) /\ SyncOk(p) /\ RestoreOk(p) /\ ImportOk(p)
    BY <2>1 DEF TodoOk, HashedOk, SyncOk, RestoreOk, ImportOk, Syncing, ReadingInputs
  <2>3. SavedOk(p)
    BY <2>1 DEF SavedOk, Sound, NoFiles
  <2> QED BY <2>2, <2>3 DEF ProcOk
<1> QED BY <1>1, <1>2, <1>3, <1>4 DEF Inv, TypeOK

LEMMA StepKeeps ==
  ASSUME Inv, [Next]_vars
  PROVE  Inv'
<1>1. CASE UNCHANGED vars
  <2>1. UNCHANGED <<manifest, lock, moved, interfered, op, stage, target, todo, own, hash, tree,
                    saved, committed>>
    BY <1>1 DEF vars, files, locals, history
  <2>2. TypeOK' /\ HistoryOk' /\ LocksOk'
    BY <2>1 DEF Inv, TypeOK, FilesOk, LocalsOk, HistoryOk, LocksOk
  <2>3. ASSUME NEW p \in Procs
        PROVE  ProcOk(p)'
    <3>1. ProcOk(p)
      BY DEF Inv
    <3>2. TodoOk(p)' /\ SavedOk(p)' /\ HashedOk(p)'
      BY <2>1, <3>1 DEF ProcOk, TodoOk, SavedOk, HashedOk
    <3>3. ~interfered[p] => SyncOk(p)' /\ RestoreOk(p)' /\ ImportOk(p)'
      BY <2>1, <3>1 DEF ProcOk, SyncOk, RestoreOk, ImportOk, Current, Restored, NoToml, Left, First
    <3> QED BY <2>1, <3>2, <3>3 DEF ProcOk
  <2> QED BY <2>2, <2>3 DEF Inv
<1>2. ASSUME NEW p \in Procs, Command(p), Observe({p})
      PROVE  Inv'
  BY <1>2, SyncProjectKeeps, MutateKeeps, BeginningKeeps, ScaffoldProjectKeeps DEF Command
<1>3. ASSUME NEW p \in Procs, Step(p), Observe({p})
      PROVE  Inv'
  BY <1>3, ReadOwnKeeps, HashWorkspaceManifestsKeeps, ManifestProjectsKeeps, WriteLockfileKeeps,
     SnapshotKeeps, ApplyKeeps, RestoreManifestKeeps, RestoreTomlKeeps, RestoreLockKeeps,
     StageImportKeeps, CommitTomlKeeps, CommitLockKeeps, UndoCommitKeeps, ScaffoldKeeps
  DEF Step
<1>4. ASSUME NEW p \in Procs, Mishap(p), Observe({p})
      PROVE  Inv'
  BY <1>4, MishapKeeps
<1>5. CASE Edit /\ Observe({})
  BY <1>5, EditKeeps
<1> QED BY <1>1, <1>2, <1>3, <1>4, <1>5 DEF Next

---------------------------------------------------------------------------
(* Theorems. *)

(* Whatever commands run and fail side by side: a lockfile carries the hash of
   what it was resolved from or somebody wrote in between, and a command that
   nobody interferes with knows what it has locked, restored, committed and
   removed so far. *)
THEOREM ManifestsInvariant == Spec => []Inv
<1>1. Init => Inv
  BY InitInv
<1>2. Inv /\ [Next]_vars => Inv'
  BY StepKeeps
<1> QED BY <1>1, <1>2, PTL DEF Spec

(* What sync and build accept as a current lockfile (lock_is_current) was
   resolved from the manifests as they are. *)
THEOREM LocksAreTruthful == Spec => []CurrentLockIsTruthful
<1>1. Inv => CurrentLockIsTruthful
  BY UsesAssumption DEF Inv, LocksOk, Sound, CurrentLockIsTruthful
<1> QED BY <1>1, ManifestsInvariant, PTL

(* When sync, add, remove, update, init or init --import succeeds, every module
   it was about has a lockfile that the next command takes for current. *)
THEOREM SuccessLocks == Spec => SuccessMeansLocked
<1> DEFINE Locked(p) ==
             \A i \in DOMAIN WorkspaceDirectories(target[p]) :
               LET m == WorkspaceDirectories(target[p])[i] IN
               lock'[m] # NoLock /\ lock'[m].manifest = manifest'[m] /\ lock'[m].workspace = manifest'
           Safe == \A p \in Procs : Succeeds(p) /\ ~interfered[p] => Locked(p)
<1>1. ASSUME Inv
      PROVE  Safe
  <2> SUFFICES ASSUME NEW p \in Procs, Succeeds(p), ~interfered[p]
               PROVE  \A m \in Entries(WorkspaceDirectories(target[p])) :
                        lock'[m] # NoLock /\ lock'[m].manifest = manifest'[m]
                          /\ lock'[m].workspace = manifest'
    BY DEF Entries
  <2> USE <1>1 DEF Inv, TypeOK
  <2>1. stage'[p] = "idle" /\ stage[p] \in {"hash", "resolve", "commitlock"} /\ manifest' = manifest
    BY DEF Succeeds, HashWorkspaceManifests, WriteLockfile, CommitLock, files
  <2>2. todo[p] \in Seq(Modules) /\ todo[p] # <<>>
    BY <2>1 DEF LocalsOk, ProcOk, TodoOk
  <2>3. PICK h \in Modules : h = First(p)
    BY <2>2, Remaining DEF First
  <2>4. Len(todo[p]) = 1 => Left(p) = {h}
    BY <2>2, <2>3, Remaining DEF Left, First
  <2>5. Entries(WorkspaceDirectories(target[p])) \subseteq Modules
    BY AllModules DEF LocalsOk
  <2>6. CASE CommitLock(p)
    <3>1. stage[p] = "commitlock" /\ lock' = [lock EXCEPT ![h] = ImportedLock]
      BY <2>3, <2>6 DEF CommitLock, First
    <3>2. Len(todo[p]) = 1
      BY <2>1, <2>6 DEF CommitLock, GoTo, LocalsOk
    <3>3. \A m \in Modules \ {h} : manifest[m] = "v1" /\ lock[m] = ImportedLock
      BY <2>4, <3>1, <3>2 DEF ProcOk, ImportOk
    <3>4. \A m \in Modules : manifest[m] = "v1" /\ lock'[m] = ImportedLock
      BY <2>3, <3>1, <3>3 DEF FilesOk, ProcOk, ImportOk
    <3>5. manifest = Imported
      BY <3>4, ImportedLocks DEF FilesOk, Trees
    <3> QED BY <2>1, <2>5, <3>4, <3>5, ImportedLocks
  <2>7. CASE HashWorkspaceManifests(p) \/ WriteLockfile(p)
    <3>1. /\ stage[p] \in Syncing
          /\ \A m \in Entries(WorkspaceDirectories(target[p])) : m \in Left(p) \/ Current(m)
      BY <2>7 DEF HashWorkspaceManifests, WriteLockfile, ProcOk, SyncOk, Syncing, ReadingInputs
    <3>2. Len(todo[p]) = 1
      BY <2>1, <2>7 DEF HashWorkspaceManifests, WriteLockfile, NextModule, GoTo, LocalsOk
    <3>3. lock'[h] # NoLock /\ lock'[h].manifest = manifest[h] /\ lock'[h].workspace = manifest
      <4>1. CASE HashWorkspaceManifests(p)
        <5>1. stage[p] = "hash" /\ lock' = lock
          BY <4>1 DEF HashWorkspaceManifests, files
        <5>2. PICK present \in BOOLEAN : LockIsCurrent(lock[h], own[p], manifest, present)
          BY <2>1, <2>3, <4>1 DEF HashWorkspaceManifests, GoTo, LocalsOk, First
        <5>3. own[p] = manifest[h]
          BY <2>3, <5>1 DEF ProcOk, SyncOk
        <5> QED BY <5>1, <5>2, <5>3 DEF LockIsCurrent
      <4>2. CASE WriteLockfile(p)
        <5>1. stage[p] = "resolve" /\ lock'[h] = LockFromGraph(p)
          BY <2>3, <4>2 DEF WriteLockfile, First, FilesOk
        <5>2. own[p] = manifest[h] /\ hash[p] = manifest
          BY <2>3, <5>1 DEF ProcOk, SyncOk
        <5>3. own[p] \in Declared /\ hash[p] \in Trees /\ tree[p] \in Trees /\ moved[p] \in BOOLEAN
          BY DEF LocalsOk, HistoryOk
        <5>4. LockFromGraph(p) \in Locks
          BY <5>3 DEF LockFromGraph, Locks
        <5>5. LockFromGraph(p) # NoLock
          BY <5>4, NoLockAssumption
        <5>6. LockFromGraph(p).manifest = own[p] /\ LockFromGraph(p).workspace = hash[p]
          BY DEF LockFromGraph
        <5> QED BY <5>1, <5>2, <5>5, <5>6
      <4> QED BY <2>7, <4>1, <4>2
    <3>4. \A m \in Modules \ {h} : lock'[m] = lock[m]
      BY <2>3, <2>7 DEF HashWorkspaceManifests, WriteLockfile, files, First, FilesOk
    <3> QED BY <2>1, <2>4, <2>5, <3>1, <3>2, <3>3, <3>4 DEF Current
  <2> QED BY <2>6, <2>7 DEF Succeeds
<1>2. SuccessMeansLocked <=> [][Safe]_vars
  BY DEF SuccessMeansLocked
<1> HIDE DEF Safe
<1>3. Inv /\ [Next]_vars => [Safe]_vars
  BY <1>1
<1> QED BY <1>2, <1>3, ManifestsInvariant, PTL DEF Spec

(* An update that restores the last of its files has brought back all of them. *)
THEOREM UpdateRestores == Spec => UpdateRestoresEverything
<1> DEFINE Safe == \A p \in Procs : RestoreLock(p) /\ stage'[p] = "idle" /\ ~interfered[p] =>
                     manifest' = saved[p].manifest /\ lock' = saved[p].lock
<1>1. ASSUME Inv
      PROVE  Safe
  <2> SUFFICES ASSUME NEW p \in Procs, RestoreLock(p), stage'[p] = "idle", ~interfered[p]
               PROVE  manifest' = saved[p].manifest /\ lock' = saved[p].lock
    OBVIOUS
  <2> USE <1>1 DEF Inv, TypeOK
  <2>1. stage[p] = "restorelock" /\ manifest' = manifest
    BY DEF RestoreLock
  <2>2. todo[p] \in Seq(Modules) /\ todo[p] # <<>>
    BY <2>1 DEF LocalsOk, ProcOk, TodoOk
  <2>3. PICK h \in Modules : h = First(p)
    BY <2>2, Remaining DEF First
  <2>4. Len(todo[p]) = 1
    BY DEF RestoreLock, GoTo, LocalsOk
  <2>5. Left(p) = {h}
    BY <2>2, <2>3, <2>4, Remaining DEF Left, First
  <2>6. manifest[h] = saved[p].manifest[h] /\ \A m \in Modules \ {h} : Restored(p, m)
    BY <2>1, <2>3, <2>5 DEF ProcOk, RestoreOk
  <2>7. lock' = [lock EXCEPT ![h] = saved[p].lock[h]]
    BY <2>3 DEF RestoreLock, First
  <2>8. \A m \in Modules : manifest[m] = saved[p].manifest[m] /\ lock'[m] = saved[p].lock[m]
    BY <2>6, <2>7 DEF Restored, FilesOk
  <2>9. /\ manifest \in Trees /\ saved[p].manifest \in Trees
        /\ lock' \in [Modules -> Locks \cup {NoLock}]
        /\ saved[p].lock \in [Modules -> Locks \cup {NoLock}]
    BY <2>7 DEF FilesOk, LocalsOk, Files
  <2>10. manifest = saved[p].manifest
    BY <2>8, <2>9 DEF Trees
  <2>11. lock' = saved[p].lock
    BY <2>8, <2>9
  <2> QED BY <2>1, <2>10, <2>11
<1>2. UpdateRestoresEverything <=> [][Safe]_vars
  BY DEF UpdateRestoresEverything
<1> HIDE DEF Safe
<1>3. Inv /\ [Next]_vars => [Safe]_vars
  BY <1>1
<1> QED BY <1>2, <1>3, ManifestsInvariant, PTL DEF Spec

(* An import that has removed the last of its files again leaves nothing. *)
THEOREM FailedImportLeaves == Spec => FailedImportLeavesNothing
<1> DEFINE Safe == \A p \in Procs : UndoCommit(p) /\ stage'[p] = "idle" /\ ~interfered[p] =>
                     \A m \in Modules : manifest'[m] \in {"absent", "toolchain"} /\ lock'[m] = NoLock
<1>1. ASSUME Inv
      PROVE  Safe
  <2> SUFFICES ASSUME NEW p \in Procs, UndoCommit(p), stage'[p] = "idle", ~interfered[p]
               PROVE  \A m \in Modules : manifest'[m] \in {"absent", "toolchain"} /\ lock'[m] = NoLock
    OBVIOUS
  <2> USE <1>1 DEF Inv, TypeOK
  <2>1. stage[p] = "undo"
    BY DEF UndoCommit
  <2>2. todo[p] \in Seq(Modules) /\ todo[p] # <<>>
    BY <2>1 DEF LocalsOk, ProcOk, TodoOk
  <2>3. PICK h \in Modules : h = First(p)
    BY <2>2, Remaining DEF First
  <2>4. Len(todo[p]) = 1
    BY <2>1 DEF UndoCommit
  <2>5. Left(p) = {h}
    BY <2>2, <2>3, <2>4, Remaining DEF Left, First
  <2>6. /\ <<h, "toml">> \in committed[p] \/ NoToml(h)
        /\ <<h, "lock">> \in committed[p] \/ lock[h] = NoLock
        /\ \A m \in Modules \ {h} : NoToml(m) /\ lock[m] = NoLock
    BY <2>1, <2>5 DEF ProcOk, ImportOk
  <2>7. /\ manifest' = [manifest EXCEPT ![h] = IF <<h, "toml">> \in committed[p] THEN "absent" ELSE @]
        /\ lock' = [lock EXCEPT ![h] = IF <<h, "lock">> \in committed[p] THEN NoLock ELSE @]
    BY <2>3 DEF UndoCommit, First
  <2> QED BY <2>6, <2>7 DEF NoToml, FilesOk, Trees
<1>2. FailedImportLeavesNothing <=> [][Safe]_vars
  BY DEF FailedImportLeavesNothing
<1> HIDE DEF Safe
<1>3. Inv /\ [Next]_vars => [Safe]_vars
  BY <1>1
<1> QED BY <1>2, <1>3, ManifestsInvariant, PTL DEF Spec

=============================================================================
