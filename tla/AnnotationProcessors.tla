------------------------ MODULE AnnotationProcessors ------------------------
(***************************************************************************)
(* Annotation processing in the language server: run_annotation_processors *)
(* of native_backend.rs, the controller in processor_worker.rs, and the    *)
(* JVM worker it talks to (tools/annotation-processor-worker).  A server   *)
(* goes through the compile units that have processors, dependencies       *)
(* first, each under its lock file.  A unit is skipped when a fingerprint  *)
(* of its request says that it was processed, or has failed.               *)
(* Otherwise the worker compiles into staging directories and publishes    *)
(* generated sources and classes: it deletes the old directory and moves   *)
(* the new one to its place, one after the other.                          *)
(*                                                                         *)
(* At its end a run inserts the class directories it has found into the    *)
(* models of the server, where later runs find them on class paths, also   *)
(* on that of the unit itself.  A unit whose model lists a directory that  *)
(* is gone is left out of a run.                                           *)
(*                                                                         *)
(* A fingerprint has the modification time of every directory the request  *)
(* names.  An input that is edited, or a directory that is replaced, never *)
(* has an earlier one again.  A tree is described by the inputs it was     *)
(* made from.  The lock is the one of FileLock, which is free again when   *)
(* its owner is dead.                                                      *)
(***************************************************************************)
EXTENDS Naturals, FiniteSets

CONSTANTS
    Unit,        \* compile units with processors
    DependsOn,   \* Unit -> the units whose classes it is compiled against
    Shown,       \* units whose model names the directory that their generated
                 \* sources go to; those of others go to .jman-java/generated,
                 \* which no request names
    Broken,      \* pairs <<unit, version>>: sources with compile errors
    Server,      \* language servers that have the project open; a restart is
                 \* a new one
    Mishap,      \* kinds of mishap: "edit", "delete", "clear", "kill", "wait", "jvm", "io"
    MaxMishaps,  \* bound: mishaps
    MaxRuns,     \* bound: runs of annotation processing
    None         \* no tree, no fingerprint, no server, no time

ASSUME UnitAssumption == DependsOn \in [Unit -> SUBSET Unit]

\* The directories published for a unit: generated sources, the classes of the last
\* complete run, and those of a failed run.
ClassDir == Unit \X {"partial", "classes"}
Dir == ClassDir \cup (Unit \X {"generated"})

\* What a unit is processed from: the version of its own sources, and the times of
\* the directories named in the request; 0: named and not there, None: not named.
Inputs == [own : Nat, at : [Dir -> Nat \cup {None}]]

ASSUME NoneAssumption == None \notin Server \cup Unit \cup Nat \cup Inputs
ASSUME BoundAssumption == MaxMishaps \in Nat /\ MaxRuns \in Nat

VARIABLES
    source,   \* version of each unit's own sources
    tree,     \* per unit: the trees and files it has on disk
    time,     \* modification time of each directory; 0: it is not there
    lock,     \* per unit: the server that has its lock file
    stamp,    \* modification time of the directory published last
    alive,    \* servers that run
    phase,    \* per server: where it is in run_annotation_processors
    models,   \* per server: the class directories its models list, and those
              \* they listed before a reload that can still fail
    todo,     \* per server: the units its run has before it
    done,     \* per server: the units it has gone through
    listing,  \* per server: the class directories it has found there
    cur,      \* per server: the unit it is at
    fp,       \* per server: the fingerprint it processes under
    memory,   \* per server: fingerprints its worker has succeeded with
    jvm,      \* per server: its worker, which outlives a killed server
    mishaps,  \* mishaps so far
    runs,     \* runs so far
    quiet,    \* history: per server, it has run last, and nobody disturbed it
    overlap,  \* history: were two workers ever at the same unit?
    cleared,  \* history: were outputs ever deleted from outside?
    asked     \* history: per unit, the class paths of the requests for it

disk == <<source, tree, time, lock, stamp>>
run == <<todo, done, listing, cur, fp>>
server == <<alive, phase, models, run, memory>>
bounds == <<mishaps, runs>>
history == <<quiet, overlap, cleared, asked>>
vars == <<disk, server, jvm, bounds, history>>

\* The directory a worker writes to, and publishes from, is the same for all.
NoTree ==
    [generated |-> None,   \* what the generated sources were made from
     classes |-> None,     \* what the classes were made from
     stagedGenerated |-> None, stagedClasses |-> None,
     state |-> FALSE,      \* is there a state directory?
     persisted |-> None,   \* request.fingerprint
     failed |-> None]      \* request.failed-fingerprint

NoMemory == [u \in Unit |-> None]
Off == [step |-> "off", unit |-> None]
Idle == [step |-> "idle", unit |-> None]

NoModels == [listed |-> {}, undo |-> {}]

Exists(x) == time[x] # 0

\* processor_inputs_available: what the model lists for the unit must be there.
Available(listed) == {u \in Unit : \A x \in listed : x[1] = u => Exists(x)}

\* order_processor_models: its dependencies have had their turn.
Due(s, u) == u \in todo[s] /\ DependsOn[u] \cap todo[s] = {}

\* The class directories of its dependencies that the run has found, or that
\* their models list; and what its own model lists, but for the classes.
ClassPath(s, u) ==
    {x \in listing[s] \cup models[s].listed : x[1] \in DependsOn[u]}
    \cup ({<<u, "partial">>} \cap models[s].listed)

\* CompileModel::source_path and dependency_source_roots.
SourcePath(u) == {<<d, "generated">> : d \in Shown \cap (DependsOn[u] \cup {u})}

Times(dirs) == [x \in Dir |-> IF x \in dirs THEN time[x] ELSE None]
Named(f) == {x \in Dir : f.at[x] # None}

\* ProcessorRequest::fingerprint.
Fingerprint(s, u) ==
    [own |-> source[u], at |-> Times(ClassPath(s, u) \cup SourcePath(u))]

\* What javac makes of it: the worker deletes the unit's own partial classes
\* before it compiles, and its generated sources are made again.
Seen(f, u) ==
    [own |-> f.own,
     at |-> [x \in Dir |-> IF x[1] \in DependsOn[u] THEN f.at[x] ELSE None]]

\* The request has been processed, and its generated sources are there.
Remembered(s, u) ==
    tree[u].persisted = Fingerprint(s, u) /\ Exists(<<u, "generated">>)

\* ProcessorRequest::persistent_cache_hit.
PersistentHit(s, u) == Remembered(s, u) \/ tree[u].failed = Fingerprint(s, u)

\* ProcessorWorker::process it asks the worker.
Reusable(s, u) == memory[s][u] = Fingerprint(s, u) \/ Remembered(s, u)

Busy(s) == jvm[s].step \notin {"off", "idle"}

\* No other server is at work, and no worker of one that was killed.
Alone(s) == \A t \in Server \ {s} : phase[t] = "idle" /\ ~Busy(t)

------------------------------------------------------------------------------
Init ==
    /\ source = [u \in Unit |-> 1]
    /\ tree = [u \in Unit |-> NoTree]
    /\ time = [x \in Dir |-> 0]
    /\ lock = [u \in Unit |-> None]
    /\ stamp = 0
    /\ alive = Server
    /\ phase = [s \in Server |-> "idle"]
    /\ models = [s \in Server |-> NoModels]
    /\ todo = [s \in Server |-> {}]
    /\ done = [s \in Server |-> {}]
    /\ listing = [s \in Server |-> {}]
    /\ cur = [s \in Server |-> None]
    /\ fp = [s \in Server |-> None]
    /\ memory = [s \in Server |-> NoMemory]
    /\ jvm = [s \in Server |-> Off]
    /\ mishaps = 0
    /\ runs = 0
    /\ quiet = [s \in Server |-> FALSE]
    /\ overlap = FALSE
    /\ cleared = FALSE
    /\ asked = [u \in Unit |-> {}]

\* Something that happens to a project now and then.
Happens(kind) ==
    /\ kind \in Mishap
    /\ mishaps < MaxMishaps
    /\ mishaps' = mishaps + 1
    /\ quiet' = [s \in Server |-> FALSE]
    /\ cleared' = (cleared \/ kind \in {"delete", "clear"})
    /\ UNCHANGED <<runs, overlap, asked>>

\* The user saves a source of u.
Edit(u) ==
    /\ Happens("edit")
    /\ source' = [source EXCEPT ![u] = @ + 1]
    /\ UNCHANGED <<tree, time, lock, stamp, server, jvm>>

\* `gradle clean` or the like: generated sources are in the build directory.
Delete(u) ==
    /\ Happens("delete")
    /\ Exists(<<u, "generated">>)
    /\ tree' = [tree EXCEPT ![u].generated = None]
    /\ time' = [time EXCEPT ![<<u, "generated">>] = 0]
    /\ UNCHANGED <<source, lock, stamp, server, jvm>>

\* clear_project_cache: the state directories of all units, with the lock files
\* that servers may have in them, but not what the workers remember.
ClearCache(s) ==
    /\ s \in alive /\ phase[s] = "idle"
    /\ Happens("clear")
    /\ tree' = [u \in Unit |-> [NoTree EXCEPT !.generated = tree[u].generated,
                                    !.stagedGenerated = tree[u].stagedGenerated]]
    /\ time' = [x \in Dir |-> IF x \in ClassDir THEN 0 ELSE time[x]]
    /\ lock' = [u \in Unit |-> None]
    /\ UNCHANGED <<source, stamp, server, jvm>>

\* The server is killed.  Its worker finds its input closed when it has answered.
Kill(s) ==
    /\ s \in alive
    /\ Happens("kill")
    /\ alive' = alive \ {s}
    /\ lock' = [u \in Unit |-> IF lock[u] = s THEN None ELSE lock[u]]
    /\ phase' = [phase EXCEPT ![s] = "idle"]
    /\ models' = [models EXCEPT ![s] = NoModels]
    /\ todo' = [todo EXCEPT ![s] = {}]
    /\ done' = [done EXCEPT ![s] = {}]
    /\ listing' = [listing EXCEPT ![s] = {}]
    /\ cur' = [cur EXCEPT ![s] = None]
    /\ memory' = [memory EXCEPT ![s] = NoMemory]
    /\ jvm' = [jvm EXCEPT ![s] = IF Busy(s) THEN @ ELSE Off]
    /\ UNCHANGED <<source, tree, time, stamp, fp>>

\* The worker's process dies: the server reads an empty line.
WorkerDies(s) ==
    /\ jvm[s].step \notin {"off", "idle", "ok", "error", "eof"}
    /\ Happens("jvm")
    /\ jvm' = [jvm EXCEPT ![s].step = "eof"]
    /\ UNCHANGED <<disk, server>>

\* A directory cannot be deleted or moved.
PublishFails(s) ==
    /\ jvm[s].step \in {"cleanGenerated", "moveGenerated", "cleanClasses", "moveClasses"}
    /\ Happens("io")
    /\ jvm' = [jvm EXCEPT ![s].step = "error"]
    /\ UNCHANGED <<disk, server>>

------------------------------------------------------------------------------
(* The server.                                                             *)

\* A save, which keeps the models; initialization or a rebuild, which loads new
\* ones; or a reload, which takes the old ones back when it fails.
Begin(s) ==
    /\ s \in alive /\ phase[s] = "idle"
    /\ runs < MaxRuns
    /\ runs' = runs + 1
    /\ phase' = [phase EXCEPT ![s] = "ready"]
    /\ LET old == models[s].listed IN
       \E next \in {[listed |-> old, undo |-> old], NoModels,
                    [listed |-> {}, undo |-> old]} :
          /\ models' = [models EXCEPT ![s] = next]
          /\ todo' = [todo EXCEPT ![s] = Available(next.listed)]
    /\ done' = [done EXCEPT ![s] = {}]
    /\ quiet' = [t \in Server |-> t = s /\ Alone(s)]
    /\ UNCHANGED <<disk, alive, listing, cur, fp, memory, jvm, mishaps, overlap,
                   cleared, asked>>

AcquireAny(s, u) ==
    /\ phase[s] = "ready"
    /\ u \in todo[s]
    /\ lock[u] = None
    /\ lock' = [lock EXCEPT ![u] = s]
    /\ tree' = [tree EXCEPT ![u].state = TRUE]
    /\ todo' = [todo EXCEPT ![s] = @ \ {u}]
    /\ cur' = [cur EXCEPT ![s] = u]
    /\ phase' = [phase EXCEPT ![s] = "locked"]
    /\ UNCHANGED <<source, time, stamp, alive, models, done, listing, fp, memory,
                   jvm, bounds, history>>

Acquire(s, u) ==
    /\ phase[s] = "ready"
    /\ Due(s, u)
    /\ lock[u] = None
    /\ lock' = [lock EXCEPT ![u] = s]
    /\ tree' = [tree EXCEPT ![u].state = TRUE]
    /\ todo' = [todo EXCEPT ![s] = @ \ {u}]
    /\ cur' = [cur EXCEPT ![s] = u]
    /\ phase' = [phase EXCEPT ![s] = "locked"]
    /\ UNCHANGED <<source, time, stamp, alive, models, done, listing, fp, memory,
                   jvm, bounds, history>>

\* The lock file of the next unit is not removed in time: the run ends, and a
\* reload takes its models back.
GiveUp(s) ==
    /\ phase[s] = "ready"
    /\ \E u \in Unit : Due(s, u) /\ lock[u] # None
    /\ Happens("wait")
    /\ phase' = [phase EXCEPT ![s] = "idle"]
    /\ models' = [models EXCEPT ![s] = [listed |-> @.undo, undo |-> {}]]
    /\ todo' = [todo EXCEPT ![s] = {}]
    /\ done' = [done EXCEPT ![s] = {}]
    /\ listing' = [listing EXCEPT ![s] = {}]
    /\ UNCHANGED <<disk, alive, cur, fp, memory, jvm>>

\* The lock file is removed, by path.
Drop(s, u) ==
    /\ phase' = [phase EXCEPT ![s] = "ready"]
    /\ done' = [done EXCEPT ![s] = @ \cup {u}]
    /\ cur' = [cur EXCEPT ![s] = None]
    /\ fp' = [fp EXCEPT ![s] = None]
    /\ lock' = [lock EXCEPT ![u] = None]
    /\ UNCHANGED <<alive, models, todo>>

\* The unit has had its turn: its class directories are those that are there now.
Leave(s, u) ==
    /\ Drop(s, u)
    /\ listing' = [listing EXCEPT ![s] = @ \cup {x \in ClassDir : x[1] = u /\ Exists(x)}]

Skip(s, u) ==
    /\ phase[s] = "locked"
    /\ PersistentHit(s, u)
    /\ Leave(s, u)
    /\ UNCHANGED <<source, tree, time, stamp, memory, jvm, bounds, history>>

\* No worker can be started: the unit is left as it is, and its class directories
\* are not listed.
CannotStart(s, u) ==
    /\ phase[s] = "locked"
    /\ ~PersistentHit(s, u)
    /\ jvm[s].step = "off"
    /\ Happens("jvm")
    /\ Drop(s, u)
    /\ UNCHANGED <<source, tree, time, stamp, listing, memory, jvm>>

\* There is a worker, or one is started.
Ask(s, u) ==
    /\ phase[s] = "locked"
    /\ ~PersistentHit(s, u)
    /\ jvm' = [jvm EXCEPT ![s] = Idle]
    /\ phase' = [phase EXCEPT ![s] = "process"]
    /\ UNCHANGED <<disk, alive, models, run, memory, bounds, history>>

\* process computes the fingerprint once more.
Reuse(s, u) ==
    /\ phase[s] = "process"
    /\ Reusable(s, u)
    /\ memory' = [memory EXCEPT ![s][u] = Fingerprint(s, u)]
    /\ Leave(s, u)
    /\ UNCHANGED <<source, tree, time, stamp, jvm, bounds, history>>

\* It writes the request file, for which the state directory must be there.
Send(s, u) ==
    /\ phase[s] = "process"
    /\ ~Reusable(s, u)
    /\ tree[u].state
    /\ fp' = [fp EXCEPT ![s] = Fingerprint(s, u)]
    /\ jvm' = [jvm EXCEPT ![s] = [step |-> "compile", unit |-> u]]
    /\ overlap' = (overlap \/ \E t \in Server \ {s} : Busy(t) /\ jvm[t].unit = u)
    /\ asked' = [asked EXCEPT ![u] = @ \cup {ClassPath(s, u)}]
    /\ phase' = [phase EXCEPT ![s] = "waiting"]
    /\ UNCHANGED <<disk, alive, models, todo, done, listing, cur, memory, bounds,
                   quiet, cleared>>

\* An error of process: the worker is dropped, with all it remembers.
DropWorker(s) ==
    /\ memory' = [memory EXCEPT ![s] = NoMemory]
    /\ jvm' = [jvm EXCEPT ![s] = Off]

CannotSend(s, u) ==
    /\ phase[s] = "process"
    /\ ~Reusable(s, u)
    /\ ~tree[u].state
    /\ DropWorker(s)
    /\ Leave(s, u)
    /\ UNCHANGED <<source, tree, time, stamp, bounds, history>>

SucceedLate(s, u) ==
    /\ phase[s] = "waiting"
    /\ jvm[s].step = "ok"
    /\ tree[u].state
    /\ memory' = [memory EXCEPT ![s][u] = fp[s]]
    /\ tree' = [tree EXCEPT ![u].persisted = Fingerprint(s, u), ![u].failed = None]
    /\ jvm' = [jvm EXCEPT ![s] = Idle]
    /\ Leave(s, u)
    /\ UNCHANGED <<source, time, stamp, bounds, history>>

Succeed(s, u) ==
    /\ phase[s] = "waiting"
    /\ jvm[s].step = "ok"
    /\ tree[u].state
    /\ memory' = [memory EXCEPT ![s][u] = fp[s]]
    /\ tree' = [tree EXCEPT ![u].persisted = fp[s], ![u].failed = None]
    /\ jvm' = [jvm EXCEPT ![s] = Idle]
    /\ Leave(s, u)
    /\ UNCHANGED <<source, time, stamp, bounds, history>>

\* The fingerprint cannot be persisted.
SucceedInVain(s, u) ==
    /\ phase[s] = "waiting"
    /\ jvm[s].step = "ok"
    /\ ~tree[u].state
    /\ DropWorker(s)
    /\ Leave(s, u)
    /\ UNCHANGED <<source, tree, time, stamp, bounds, history>>

\* Whatever is not OK, an empty answer among it, is a failure of the inputs.
FailUnit(s, u) ==
    /\ phase[s] = "waiting"
    /\ jvm[s].step \in {"error", "eof"}
    /\ tree' = [tree EXCEPT ![u].failed = IF tree[u].state THEN fp[s] ELSE @]
    /\ DropWorker(s)
    /\ Leave(s, u)
    /\ UNCHANGED <<source, time, stamp, bounds, history>>

\* The directories found go into the models, with those they had.
Finish(s) ==
    /\ phase[s] = "ready"
    /\ todo[s] = {}
    /\ phase' = [phase EXCEPT ![s] = "idle"]
    /\ models' = [models EXCEPT ![s] =
                     [listed |-> @.listed \cup listing[s], undo |-> {}]]
    /\ listing' = [listing EXCEPT ![s] = {}]
    /\ IF done[s] = {} THEN DropWorker(s) ELSE UNCHANGED <<memory, jvm>>
    /\ UNCHANGED <<disk, alive, todo, done, cur, fp, bounds, history>>

------------------------------------------------------------------------------
(* The worker's JVM.                                                       *)

\* The staging directories and the partial classes are deleted; javac reads the
\* directories of the request.  Sources with errors leave the classes they had as
\* partial ones.
Compile(s, u) ==
    /\ jvm[s].step = "compile"
    /\ IF <<u, source[u]>> \in Broken
       THEN /\ stamp' = stamp + 1
            /\ time' = [time EXCEPT ![<<u, "partial">>] = stamp']
            /\ tree' = [tree EXCEPT ![u].state = TRUE, ![u].stagedGenerated = None,
                                    ![u].stagedClasses = None]
            /\ jvm' = [jvm EXCEPT ![s].step = "error"]
       ELSE /\ LET now == [own |-> source[u], at |-> Times(Named(fp[s]))] IN
               tree' = [tree EXCEPT ![u].state = TRUE,
                                    ![u].stagedGenerated = Seen(now, u),
                                    ![u].stagedClasses = Seen(now, u)]
            /\ time' = [time EXCEPT ![<<u, "partial">>] = 0]
            /\ jvm' = [jvm EXCEPT ![s].step = "cleanGenerated"]
            /\ UNCHANGED stamp

CleanGenerated(s, u) ==
    /\ jvm[s].step = "cleanGenerated"
    /\ tree' = [tree EXCEPT ![u].generated = None]
    /\ time' = [time EXCEPT ![<<u, "generated">>] = 0]
    /\ jvm' = [jvm EXCEPT ![s].step = "moveGenerated"]
    /\ UNCHANGED stamp

\* Files.move: fails when the source is gone, or the target back.
MoveGenerated(s, u) ==
    /\ jvm[s].step = "moveGenerated"
    /\ IF tree[u].stagedGenerated # None /\ ~Exists(<<u, "generated">>)
       THEN /\ stamp' = stamp + 1
            /\ time' = [time EXCEPT ![<<u, "generated">>] = stamp']
            /\ tree' = [tree EXCEPT ![u].generated = tree[u].stagedGenerated,
                                    ![u].stagedGenerated = None]
            /\ jvm' = [jvm EXCEPT ![s].step = "cleanClasses"]
       ELSE jvm' = [jvm EXCEPT ![s].step = "error"] /\ UNCHANGED <<tree, time, stamp>>

CleanClasses(s, u) ==
    /\ jvm[s].step = "cleanClasses"
    /\ tree' = [tree EXCEPT ![u].classes = None]
    /\ time' = [time EXCEPT ![<<u, "classes">>] = 0]
    /\ jvm' = [jvm EXCEPT ![s].step = "moveClasses"]
    /\ UNCHANGED stamp

MoveClasses(s, u) ==
    /\ jvm[s].step = "moveClasses"
    /\ IF tree[u].stagedClasses # None /\ ~Exists(<<u, "classes">>)
       THEN /\ stamp' = stamp + 1
            /\ time' = [time EXCEPT ![<<u, "classes">>] = stamp']
            /\ tree' = [tree EXCEPT ![u].classes = tree[u].stagedClasses,
                                    ![u].stagedClasses = None, ![u].state = TRUE]
            /\ jvm' = [jvm EXCEPT ![s].step = "ok"]
       ELSE jvm' = [jvm EXCEPT ![s].step = "error"] /\ UNCHANGED <<tree, time, stamp>>

\* Nobody reads the answer, and there is no further request.
Exit(s) ==
    /\ s \notin alive
    /\ jvm[s].step \in {"ok", "error", "eof"}
    /\ jvm' = [jvm EXCEPT ![s] = Off]
    /\ UNCHANGED <<disk, server, bounds, history>>

WorkerStep(s) ==
    /\ \E u \in Unit :
          /\ jvm[s].unit = u
          /\ \/ Compile(s, u) \/ CleanGenerated(s, u) \/ MoveGenerated(s, u)
             \/ CleanClasses(s, u) \/ MoveClasses(s, u)
    /\ UNCHANGED <<source, lock, server, bounds, history>>

ServerStep(s) ==
    \/ \E u \in Unit :
          \/ Acquire(s, u)
          \/ /\ cur[s] = u
             /\ \/ Skip(s, u) \/ Ask(s, u) \/ Reuse(s, u) \/ Send(s, u) \/ CannotSend(s, u)
                \/ Succeed(s, u) \/ SucceedInVain(s, u) \/ FailUnit(s, u)
    \/ Finish(s)

Next ==
    \/ \E u \in Unit : Edit(u) \/ Delete(u)
    \/ \E s \in Server :
          \/ ClearCache(s) \/ Kill(s) \/ GiveUp(s) \/ WorkerDies(s) \/ PublishFails(s)
          \/ \E u \in Unit : cur[s] = u /\ CannotStart(s, u)
          \/ Begin(s) \/ ServerStep(s) \/ WorkerStep(s) \/ Exit(s)

Spec == Init /\ [][Next]_vars
------------------------------------------------------------------------------
(* Properties.                                                             *)

\* Against the inputs of a run of s: trees made from them, and a failure of them,
\* whatever the unit itself had on disk at the time.
Present(s, u) == Seen(Fingerprint(s, u), u)
Made(s, u) == tree[u].generated = Present(s, u)
Compiled(s, u) == tree[u].classes = Present(s, u)
FailedBefore(s, u) == tree[u].failed # None /\ Seen(tree[u].failed, u) = Present(s, u)

\* Made from directories of the same names.
Alike(f, g) == Named(f) = Named(g)

\* The dependencies of u are on disk, of their present sources, and in the request.
Ready(s, u) ==
    \A d \in DependsOn[u] :
        /\ <<d, "classes">> \in ClassPath(s, u)
        /\ tree[d].classes # None /\ tree[d].classes.own = source[d]
        /\ tree[d].generated # None

\* "reuses unchanged output, reruns after source changes" (docs/jman-java.md:124):
\* what a server would take from the disk was made from the inputs that it has,
\* whatever was edited, lost, half published or left by a dead server, unless
\* two workers have been at the same unit.  A directory that is missing has no
\* time, and may be missing again: the claim is about a unit whose dependencies
\* are compiled and on its class path.
FreshReuse ==
    ~overlap =>
        \A s \in Server, u \in Unit :
            Remembered(s, u) /\ Ready(s, u)
            => /\ Alike(tree[u].generated, Present(s, u)) => Made(s, u)
               /\ tree[u].classes # None /\ Alike(tree[u].classes, Present(s, u))
                  => Compiled(s, u)

\* Units that are compiled against one another only.
Closed(units) == \A u \in units : DependsOn[u] \subseteq units

\* All requests for these units have named the class directories that s would name
\* now, but for the unit's own.
Uniform(s, units) ==
    \A u \in units : \A path \in asked[u] :
        path \ {<<u, "partial">>} = ClassPath(s, u) \ {<<u, "partial">>}

\* The generated sources that their requests name are there.
Generated(units) == \A u \in units : \A x \in SourcePath(u) : Exists(x)

\* A run that nothing disturbs leaves every unit that it goes through processed
\* from the present inputs, unless it, or a unit that it is compiled against, has
\* failed with its present inputs: dependencies have been published before those
\* who are compiled against them were fingerprinted.  A request that names other
\* directories, or one that is missing, leaves fingerprints on disk and in memory
\* that may come true again.
Processed(s, units) ==
    \/ \E u \in units : FailedBefore(s, u)
    \/ \A u \in units : Made(s, u) /\ Compiled(s, u)

RunsProcessEverything ==
    \A s \in alive :
        phase[s] = "idle" /\ quiet[s] /\ ~overlap /\ ~cleared
        => \A units \in SUBSET done[s] :
               Closed(units) /\ Uniform(s, units) /\ Generated(units)
               => Processed(s, units)

=============================================================================
