--------------------------- MODULE WorkspaceBuild ---------------------------
(***************************************************************************)
(* `jman compile` over a workspace: crates/jman-build/src/lib.rs,          *)
(* compile_workspace_with_rebuild and compile_module.  A build walks the   *)
(* topological layers of the module graph; the modules of one layer are    *)
(* compiled concurrently, and the first error drops the futures of its     *)
(* siblings at whatever await point they have reached.  compile_module     *)
(* takes no lock: it fingerprints the inputs, compares the fingerprint     *)
(* with .jman/check.sha256, runs javac into a temporary tree, swaps that   *)
(* tree for .jman/output with two renames and writes the state file last.  *)
(*                                                                         *)
(* Contents are abstracted to version numbers.  A Tree maps every module   *)
(* to the version of that module's sources a fingerprint or a class        *)
(* directory stands for; 0 is "not part of it", so that a tree whose own   *)
(* component is 0 is an absent file or directory.                          *)
(***************************************************************************)
EXTENDS Naturals, FiniteSets

CONSTANTS
    Module,       \* the modules discover_modules returns
    Deps,         \* Module -> its workspace dependencies, of every scope
    CompileDeps,  \* Module -> those visible to production compilation
    Proc,         \* the jman processes that may build the workspace
    Jobs,         \* --jobs
    Revert,       \* may an edit restore an earlier content (git checkout)?
    MaxVersion,   \* bound: source versions are 1..MaxVersion
    MaxBuilds     \* bound: builds started

ASSUME GraphAssumption ==
    /\ Deps \in [Module -> SUBSET Module]
    /\ CompileDeps \in [Module -> SUBSET Module]
    /\ \A m \in Module : CompileDeps[m] \subseteq Deps[m]

\* topological_layers rejects a cyclic graph before any module is compiled:
\* every set of modules has one that depends on none of the others.
ASSUME AcyclicAssumption ==
    \A S \in SUBSET Module : S # {} => \E m \in S : Deps[m] \cap S = {}

ASSUME BoundAssumption ==
    /\ Jobs \in Nat \ {0}
    /\ MaxVersion \in Nat \ {0}
    /\ MaxBuilds \in Nat
    /\ Revert \in BOOLEAN

VARIABLES
    src,       \* what the sources, resources and manifest of a module hold
    classes,   \* the tree under .jman/output of each module
    state,     \* the fingerprint in .jman/check.sha256 of each module
    builds,    \* builds started so far
    status,    \* per process: idle, running, ok, failed, killed
    rebuild,   \* per process: --rebuild
    complete,  \* per process: modules of the finished layers
    layer,     \* per process: modules of the current layer
    stage,     \* per process and module: how far compile_module has come
    seen,      \* per process and module: the version fingerprinted
    temp,      \* per process and module: .jman/output.tmp.PID
    backup,    \* per process and module: .jman/output.old.PID
    since      \* history: per process, the versions its build may have read

disk == <<classes, state>>
progress == <<complete, layer, stage, seen, temp, backup>>
vars == <<src, disk, builds, status, rebuild, progress, since>>

Version == 0..MaxVersion
Tree == [Module -> Version]
NoTree == [m \in Module |-> 0]
Stage == {"waiting", "hashed", "compiled", "parked", "placed", "done"}

\* Every module reachable over compile edges: transitive_dependencies(Compile)
\* as the least set closed under CompileDeps.
Upstream(m) ==
    {d \in Module :
        \A S \in SUBSET Module :
            /\ CompileDeps[m] \subseteq S
            /\ \A e \in S : CompileDeps[e] \subseteq S
            => d \in S}

Closure(m) == Upstream(m) \cup {m}

OwnFingerprint(p, m) == [d \in Module |-> IF d = m THEN seen[p][d] ELSE 0]

TreeOf(m) == {t \in Tree : \A d \in Module \ Closure(m) : t[d] = 0}

\* module_fingerprint: the module's own inputs and the fingerprints this build
\* computed for everything upstream.
Fingerprint(p, m) ==
    [d \in Module |-> IF d \in Closure(m) THEN seen[p][d] ELSE 0]

\* The tree javac produces now: the sources as they are on disk, against the
\* class directories of the upstream modules as they are on disk.  A missing
\* class directory is only ignored by javac.
Compiled(m) ==
    [d \in Module |-> IF d = m THEN src[m]
                      ELSE IF d \in Upstream(m) THEN classes[d][d] ELSE 0]

HasClasses(m) == classes[m][m] # 0

HitWithoutOutput(p, m) == ~rebuild[p] /\ state[m] = Fingerprint(p, m)
HitOnRebuild(p, m) ==
    rebuild[p] /\ state[m] = Fingerprint(p, m) /\ HasClasses(m)

Hit(p, m) ==
    ~rebuild[p] /\ state[m] = Fingerprint(p, m) /\ HasClasses(m)

\* The modules topological_layers puts in the layer after the set C.
LayerAfter(C) == {m \in Module \ C : Deps[m] \subseteq C}

\* Modules whose compile_module future has started and not returned.
Active(p) == {m \in layer[p] : stage[p][m] \notin {"waiting", "done"}}

------------------------------------------------------------------------------
Init ==
    /\ src = [m \in Module |-> 1]
    /\ classes = [m \in Module |-> NoTree]
    /\ state = [m \in Module |-> NoTree]
    /\ builds = 0
    /\ status = [p \in Proc |-> "idle"]
    /\ rebuild = [p \in Proc |-> FALSE]
    /\ complete = [p \in Proc |-> {}]
    /\ layer = [p \in Proc |-> {}]
    /\ stage = [p \in Proc |-> [m \in Module |-> "waiting"]]
    /\ seen = [p \in Proc |-> NoTree]
    /\ temp = [p \in Proc |-> [m \in Module |-> NoTree]]
    /\ backup = [p \in Proc |-> [m \in Module |-> NoTree]]
    /\ since = [p \in Proc |-> [m \in Module |-> {}]]

\* The user saves a module's inputs.
Edit(m) ==
    \E v \in 1..MaxVersion :
        /\ IF Revert THEN v # src[m] ELSE v = src[m] + 1
        /\ src' = [src EXCEPT ![m] = v]
        /\ since' = [p \in Proc |->
                        IF status[p] = "running"
                        THEN [since[p] EXCEPT ![m] = @ \cup {v}] ELSE since[p]]
        /\ UNCHANGED <<disk, builds, status, rebuild, progress>>

\* A new process starts; its pid, and with it its temporary and backup names,
\* are its own.
StartBuild(p) ==
    /\ status[p] # "running"
    /\ builds < MaxBuilds
    /\ builds' = builds + 1
    /\ \E r \in BOOLEAN : rebuild' = [rebuild EXCEPT ![p] = r]
    /\ status' = [status EXCEPT ![p] = "running"]
    /\ layer' = [layer EXCEPT ![p] = LayerAfter({})]
    /\ since' = [since EXCEPT ![p] = [m \in Module |-> {src[m]}]]
    /\ UNCHANGED <<src, disk, complete, stage, seen, temp, backup>>

\* compile_module up to module_fingerprint, under a semaphore permit.
Hash(p, m) ==
    /\ m \in layer[p]
    /\ stage[p][m] = "waiting"
    /\ Cardinality(Active(p)) < Jobs
    /\ seen' = [seen EXCEPT ![p][m] = src[m]]
    /\ stage' = [stage EXCEPT ![p][m] = "hashed"]
    /\ UNCHANGED <<src, disk, builds, status, rebuild, complete, layer, temp,
                   backup, since>>

\* The state file names this fingerprint and .jman/output/classes is there.
Reuse(p, m) ==
    /\ stage[p][m] = "hashed"
    /\ Hit(p, m)
    /\ stage' = [stage EXCEPT ![p][m] = "done"]
    /\ UNCHANGED <<src, disk, builds, status, rebuild, complete, layer, seen,
                   temp, backup, since>>

CompileRecording(p, m) ==
    /\ stage[p][m] = "hashed"
    /\ ~Hit(p, m)
    /\ temp' = [temp EXCEPT ![p][m] = Compiled(m)]
    /\ state' = [state EXCEPT ![m] = Fingerprint(p, m)]
    /\ stage' = [stage EXCEPT ![p][m] = "compiled"]
    /\ UNCHANGED <<src, classes, builds, status, rebuild, complete, layer,
                   seen, backup, since>>

\* Resources copied and javac run into the temporary tree.
Compile(p, m) ==
    /\ stage[p][m] = "hashed"
    /\ ~Hit(p, m)
    /\ temp' = [temp EXCEPT ![p][m] = Compiled(m)]
    /\ stage' = [stage EXCEPT ![p][m] = "compiled"]
    /\ UNCHANGED <<src, disk, builds, status, rebuild, complete, layer, seen,
                   backup, since>>

\* replace_directory, first rename: output -> output.old.PID.
Park(p, m) ==
    /\ stage[p][m] = "compiled"
    /\ backup' = [backup EXCEPT ![p][m] = classes[m]]
    /\ classes' = [classes EXCEPT ![m] = NoTree]
    /\ stage' = [stage EXCEPT ![p][m] = "parked"]
    /\ UNCHANGED <<src, state, builds, status, rebuild, complete, layer, seen,
                   temp, since>>

\* replace_directory, second rename, which needs the target to be gone, and
\* the removal of the backup.
Place(p, m) ==
    /\ stage[p][m] = "parked"
    /\ ~HasClasses(m)
    /\ classes' = [classes EXCEPT ![m] = temp[p][m]]
    /\ temp' = [temp EXCEPT ![p][m] = NoTree]
    /\ backup' = [backup EXCEPT ![p][m] = NoTree]
    /\ stage' = [stage EXCEPT ![p][m] = "placed"]
    /\ UNCHANGED <<src, state, builds, status, rebuild, complete, layer, seen,
                   since>>

\* fs::write of check.sha256.
WriteState(p, m) ==
    /\ stage[p][m] = "placed"
    /\ state' = [state EXCEPT ![m] = Fingerprint(p, m)]
    /\ stage' = [stage EXCEPT ![p][m] = "done"]
    /\ UNCHANGED <<src, classes, builds, status, rebuild, complete, layer,
                   seen, temp, backup, since>>

\* Everything the process held in memory is gone; its temporary and backup
\* trees stay behind as garbage nobody reads.
Abandon(p, outcome) ==
    /\ status' = [status EXCEPT ![p] = outcome]
    /\ complete' = [complete EXCEPT ![p] = {}]
    /\ layer' = [layer EXCEPT ![p] = {}]
    /\ stage' = [stage EXCEPT ![p] = [m \in Module |-> "waiting"]]
    /\ seen' = [seen EXCEPT ![p] = NoTree]
    /\ temp' = [temp EXCEPT ![p] = [m \in Module |-> NoTree]]
    /\ backup' = [backup EXCEPT ![p] = [m \in Module |-> NoTree]]
    /\ since' = [since EXCEPT ![p] = [m \in Module |-> {}]]

\* fs::write truncates before it writes: interrupted, or on a full disk, it
\* leaves a state file that names nothing.
TearState(p) ==
    \E torn \in SUBSET {m \in Module : stage[p][m] = "placed"} :
        state' = [m \in Module |-> IF m \in torn THEN NoTree ELSE state[m]]

\* One module's compilation returns an error: unreadable input, a javac
\* diagnostic, an I/O error.  try_collect returns it at once and drops every
\* sibling where it stands.  Only the failing module itself, and only when
\* its second rename failed, tries to put its backup back: it is the certain
\* outcome when another process has put an output directory there since.
Fail(p, m) ==
    /\ m \in Active(p)
    /\ classes' = IF stage[p][m] = "parked" /\ ~HasClasses(m)
                  THEN [classes EXCEPT ![m] = backup[p][m]]
                  ELSE classes
    /\ TearState(p)
    /\ Abandon(p, "failed")
    /\ UNCHANGED <<src, builds, rebuild>>

\* The process is killed between two of its steps, or during a write.
Kill(p) ==
    /\ status[p] = "running"
    /\ TearState(p)
    /\ Abandon(p, "killed")
    /\ UNCHANGED <<src, classes, builds, rebuild>>

NextLayerEarly(p) ==
    /\ status[p] = "running"
    /\ \E m \in layer[p] : stage[p][m] = "done"
    /\ complete[p] \cup layer[p] # Module
    /\ complete' = [complete EXCEPT ![p] = @ \cup layer[p]]
    /\ layer' = [layer EXCEPT ![p] = LayerAfter(complete[p] \cup layer[p])]
    /\ UNCHANGED <<src, disk, builds, status, rebuild, stage, seen, temp,
                   backup, since>>

\* try_collect returned the whole layer: go on with the next one.
NextLayer(p) ==
    /\ status[p] = "running"
    /\ \A m \in layer[p] : stage[p][m] = "done"
    /\ complete[p] \cup layer[p] # Module
    /\ complete' = [complete EXCEPT ![p] = @ \cup layer[p]]
    /\ layer' = [layer EXCEPT ![p] = LayerAfter(complete[p] \cup layer[p])]
    /\ UNCHANGED <<src, disk, builds, status, rebuild, stage, seen, temp,
                   backup, since>>

\* The last layer returned: CompileResult.
FinishBuild(p) ==
    /\ status[p] = "running"
    /\ \A m \in layer[p] : stage[p][m] = "done"
    /\ complete[p] \cup layer[p] = Module
    /\ Abandon(p, "ok")
    /\ UNCHANGED <<src, disk, builds, rebuild>>

ModuleStep(p, m) ==
    \/ Hash(p, m)
    \/ Reuse(p, m)
    \/ Compile(p, m)
    \/ Park(p, m)
    \/ Place(p, m)
    \/ WriteState(p, m)

BuildStep(p) ==
    \/ \E m \in Module : ModuleStep(p, m)
    \/ NextLayer(p)
    \/ FinishBuild(p)

Next ==
    \/ \E m \in Module : Edit(m)
    \/ \E p \in Proc : StartBuild(p) \/ BuildStep(p) \/ Kill(p)
    \/ \E p \in Proc : \E m \in Module : Fail(p, m)

Spec == Init /\ [][Next]_vars
------------------------------------------------------------------------------
(* Properties.                                                             *)

\* Types, and that a module's outputs and record never depend on a module it
\* cannot see in production: a test dependency stays off the classpath.
TypeOK ==
    /\ src \in [Module -> 1..MaxVersion]
    /\ classes \in [Module -> Tree]
    /\ state \in [Module -> Tree]
    /\ \A m \in Module : classes[m] \in TreeOf(m) /\ state[m] \in TreeOf(m)
    /\ builds \in 0..MaxBuilds
    /\ status \in [Proc -> {"idle", "running", "ok", "failed", "killed"}]
    /\ rebuild \in [Proc -> BOOLEAN]
    /\ complete \in [Proc -> SUBSET Module]
    /\ layer \in [Proc -> SUBSET Module]
    /\ stage \in [Proc -> [Module -> Stage]]
    /\ seen \in [Proc -> Tree]
    /\ temp \in [Proc -> [Module -> Tree]]
    /\ backup \in [Proc -> [Module -> Tree]]
    /\ \A p \in Proc : \A m \in Module :
          temp[p][m] \in TreeOf(m) /\ backup[p][m] \in TreeOf(m)
    /\ since \in [Proc -> [Module -> SUBSET (1..MaxVersion)]]

\* compile_workspace_with_rebuild looks the fingerprint of every transitive
\* dependency up in the results of earlier layers ("module scheduler lost a
\* predecessor result" otherwise): whatever is being compiled, everything
\* upstream of it has finished in this very build.
NoLostPredecessor ==
    \A p \in Proc : \A m \in layer[p] :
        Upstream(m) \subseteq {d \in complete[p] : stage[p][d] = "done"}

\* A state file never names inputs newer than the classes lying beside it,
\* nor newer than the classes of any module upstream, whatever edits, errors,
\* dropped futures and kills came between the two renames and the write.
RecordNotAhead ==
    \A m \in Module : \A d \in Closure(m) :
        /\ HasClasses(m) => state[m][d] <= classes[m][d]
        /\ HasClasses(d) => state[m][d] <= classes[d][d]

\* Once compile_module has returned, compiled or cached, the module's classes
\* are on disk and at least as new as the inputs it fingerprinted, its own and
\* those of everything upstream: what the next layers are compiled against.
ResultsNotStale ==
    \A p \in Proc : \A m \in Module :
        stage[p][m] = "done" =>
            /\ HasClasses(m)
            /\ \A d \in Closure(m) :
                  seen[p][d] <= classes[m][d] /\ classes[m][d] <= src[d]

\* "correct no-op rebuild behavior" (PLAN.md:267), seen by the user: when a
\* build succeeds, and no other build is in flight, every class directory was
\* compiled from contents its module and the modules upstream have had since
\* this build began.  A cached module is no exception.
SuccessIsFresh ==
    [][\A p \in Proc :
          /\ status[p] = "running" /\ status'[p] = "ok"
          /\ \A q \in Proc \ {p} : status[q] # "running"
          => \A m \in Module : \A d \in Closure(m) :
                classes[m][d] \in since[p][d]]_vars

\* Every module is compiled from the present inputs and recorded as such.
Settled ==
    \A m \in Module :
        /\ HasClasses(m)
        /\ state[m] = [d \in Module |-> IF d \in Closure(m) THEN src[d] ELSE 0]

\* The other half of PLAN.md:267: in a settled workspace a build without
\* --rebuild never has a module in javac or moving its output away.
NoOpCompilesNothing ==
    Settled => \A p \in Proc : \A m \in Module :
        stage[p][m] \in {"compiled", "parked"} => rebuild[p]
=============================================================================
