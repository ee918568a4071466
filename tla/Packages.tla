------------------------------ MODULE Packages ------------------------------
(***************************************************************************)
(* The archives of a workspace: crates/jman-build/src/lib.rs,              *)
(* package_workspace and package_cached_with_rebuild.  Each archive has a  *)
(* cache record and a lock of its own beside it in .jman/artifacts.  Under *)
(* the lock a process hashes the inputs, takes the archive as it is when   *)
(* the record names that key and the archive's checksum, and otherwise     *)
(* writes a new one and hashes the inputs again before it records them.    *)
(*                                                                         *)
(* An input is what a module's developer writes, or one of the trees that  *)
(* a compilation replaces: .jman/output, with the classes and the sources  *)
(* that annotation processors generate, and .jman/generated, with those of *)
(* generators.  Each is a version number; a key and an archive are the     *)
(* inputs they were made from (hashing and zipping are taken to be         *)
(* injective).  Packaging takes no lock that a compilation respects.       *)
(* Release composes these actions with publication.                        *)
(***************************************************************************)
EXTENDS Naturals, Sequences

CONSTANTS
  Module,        \* the modules with packaging "jar"
  Order,         \* the same, dependencies first
  Upstream,      \* each module with the workspace modules on its class path
  Applications,  \* the modules with a main-class
  Proc,          \* jman processes
  None,          \* no file, no record, no process
  MaxVersion     \* bound: sources have the versions 1..MaxVersion

ASSUME PackagesAssumption ==
  /\ Upstream \in [Module -> SUBSET Module]
  /\ Applications \subseteq Module
  /\ Order \in Seq(Module) /\ \A m \in Module : \E i \in DOMAIN Order : Order[i] = m
  /\ MaxVersion \in Nat \ {0}

VARIABLES
  src,         \* the version of each module's sources and manifest
  built,       \* the version each tree was made from, 0 if it is missing
  artifact,    \* the archives, each as the inputs it was made from
  record,      \* their .cache.json
  locked,      \* the process that holds their .lock
  run,         \* what each process is doing
  overlapped   \* history: two processes have been at work at once

workspace == <<src, built>>
cache == <<artifact, record, locked>>

Kinds == {"thin", "sources", "javadoc", "fat"}
Artifact == Module \X Kinds
Trees == {"output", "generated"} \X Module
Input == {"sources", "output", "generated"} \X Module

\* What package_module, package_sources, package_javadoc and package_fat read,
\* and package_input_key hashes for them.
Reads(a) ==
  LET own == {<<"output", a[1]>>}
      sources == {<<"sources", a[1]>>, <<"output", a[1]>>, <<"generated", a[1]>>}
      upstream == {"output"} \X Upstream[a[1]]
  IN CASE a[2] = "thin" -> own
       [] a[2] = "sources" -> sources
       [] a[2] = "javadoc" -> sources \cup upstream
       [] a[2] = "fat" -> own \cup upstream

\* A tree that is missing reads as an empty one.
Contents(a) ==
  [i \in Reads(a) |-> IF i \in Trees THEN built[i] ELSE src[i[2]]]

\* The archives that a command asks for.
Tasks(kinds) ==
  {a \in Module \X {kinds[i] : i \in DOMAIN kinds} : a[2] = "fat" => a[1] \in Applications}

Place(s, x) == CHOOSE i \in DOMAIN s : s[i] = x
Task(p) == run[p].task

\* They are made module by module.
Precedes(p, a, b) ==
  IF a[1] = b[1] THEN Place(run[p].kinds, a[2]) <= Place(run[p].kinds, b[2])
                 ELSE Place(Order, a[1]) < Place(Order, b[1])

At(p, step) == run[p].step = step
Running(p) == ~At(p, "idle")
Alone(p) == \A q \in Proc \ {p} : ~Running(q)

NextTask(p) ==
  /\ run' = [run EXCEPT ![p].step = "lock", ![p].todo = @ \ {Task(p)}]
  /\ locked' = [locked EXCEPT ![Task(p)] = None]

\* While a process compiles, a tree may be missing for a moment (the swap), or
\* for good (a dropped sibling).
Swap(p, t) ==
  /\ At(p, "build")
  /\ built[t] # 0
  /\ built' = [built EXCEPT ![t] = 0]
  /\ UNCHANGED <<src, cache, run, overlapped>>

\* compile_workspace_with_rebuild returns.  By theorem SuccessMeansFresh of
\* WorkspaceBuild the classes were compiled, by this build or before, from what
\* the sources have held since it began, and so it is with generated sources,
\* whose generators are keyed by the same inputs (GeneratorCache); of
\* overlapping builds nothing is known.
Compile(p) ==
  /\ At(p, "build")
  /\ built' \in IF Alone(p) /\ ~overlapped
                THEN {b \in [Trees -> 1..MaxVersion] : \A t \in Trees : b[t] \in run[p].since[t[2]]}
                ELSE {b \in [Trees -> 0..MaxVersion] : \A t \in Trees : b[t] <= src[t[2]]}
  /\ run' = [run EXCEPT ![p].step = "lock", ![p].todo = Tasks(run[p].kinds)]
  /\ UNCHANGED <<src, cache, overlapped>>

\* lock_exclusive waits; then package_input_key.
Lock(p) ==
  /\ At(p, "lock")
  /\ \E a \in run[p].todo :
       /\ \A b \in run[p].todo : Precedes(p, a, b)
       /\ locked[a] = None
       /\ locked' = [locked EXCEPT ![a] = p]
       /\ run' = [run EXCEPT ![p].step = "look", ![p].task = a, ![p].key = Contents(a)]
  /\ UNCHANGED <<workspace, artifact, record, overlapped>>

ReusableAnyKey(a, key) == record[a] # None /\ artifact[a] = record[a].checksum

\* The record names the key and the checksum of the archive on disk.
Reusable(a, key) ==
  record[a] # None /\ record[a].key = key /\ artifact[a] = record[a].checksum

Reuse(p) ==
  /\ At(p, "look")
  /\ ~run[p].rebuild /\ Reusable(Task(p), run[p].key)
  /\ NextTask(p)
  /\ UNCHANGED <<workspace, artifact, record, overlapped>>

\* The archive is written to a temporary file and renamed over the old one.
Archive(p) ==
  /\ At(p, "look")
  /\ run[p].rebuild \/ ~Reusable(Task(p), run[p].key)
  /\ artifact' = [artifact EXCEPT ![Task(p)] = Contents(Task(p))]
  /\ run' = [run EXCEPT ![p].step = "record", ![p].made = Contents(Task(p))]
  /\ UNCHANGED <<workspace, record, locked, overlapped>>

RecordAnyway(p) ==
  /\ At(p, "record")
  /\ record' = [record EXCEPT ![Task(p)] = [key |-> run[p].key, checksum |-> run[p].made]]
  /\ NextTask(p)
  /\ UNCHANGED <<workspace, artifact, overlapped>>

\* The second key is the first one.
Record(p) ==
  /\ At(p, "record")
  /\ Contents(Task(p)) = run[p].key
  /\ record' = [record EXCEPT ![Task(p)] = [key |-> run[p].key, checksum |-> run[p].made]]
  /\ NextTask(p)
  /\ UNCHANGED <<workspace, artifact, overlapped>>

\* An input has changed: the archive stays, and the old record beside it.
LeaveUnrecorded(p) ==
  /\ At(p, "record")
  /\ Contents(Task(p)) # run[p].key
  /\ NextTask(p)
  /\ UNCHANGED <<workspace, artifact, record, overlapped>>

PackageStep(p) ==
  \/ Compile(p) \/ Lock(p) \/ Reuse(p) \/ Archive(p) \/ Record(p) \/ LeaveUnrecorded(p)

PackagesInit ==
  /\ src = [m \in Module |-> 1]
  /\ built = [t \in Trees |-> 0]
  /\ artifact = [a \in Artifact |-> None]
  /\ record = [a \in Artifact |-> None]
  /\ locked = [a \in Artifact |-> None]
  /\ overlapped = FALSE
------------------------------------------------------------------------------
\* "An input changed while packaging must never be recorded under its old key"
\* (lib.rs:3475): an archive that a record offers for reuse was made from the very
\* inputs the record's key names, whatever was edited, killed or replaced in
\* between, as long as no two commands have been at work at once.  A compilation
\* beside the packaging takes a tree away and puts an equal one back between the
\* two keys.
RecordTruthful ==
  ~overlapped =>
    \A a \in Artifact :
      record[a] # None /\ Reusable(a, record[a].key) => artifact[a] = record[a].key
=============================================================================
