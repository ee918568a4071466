----------------------------- MODULE Toolchains -----------------------------
(***************************************************************************)
(* The JDKs that jman manages (toolchain.rs): `jman java install` and      *)
(* `jman java remove` of the releases of one distribution and major.  They *)
(* hold a file lock, which the system releases when a process dies; every  *)
(* other command looks for a JDK without it.                               *)
(*                                                                         *)
(* An installation is the set of its parts: a command finds it if it has   *)
(* its metadata, written last, and its compiler; "lib" is the rest of it.  *)
(* Deleting a directory is not atomic, and may stop anywhere.  A process   *)
(* keeps its number when it is started again: process ids are reused.      *)
(***************************************************************************)
EXTENDS Naturals, FiniteSets, Sequences, SequencesExt

CONSTANTS Latest,         \* the releases are 1..Latest, oldest first
          Proc,         \* process ids
          MaxCommands,  \* bound: commands started
          MaxMishaps    \* bound: I/O and network errors, kills

ASSUME Bounds == {Latest, MaxCommands, MaxMishaps} \subseteq Nat

VARIABLES home,      \* the directory of each release: its parts
          staged,    \* what removals have set aside, under .remove-PID-INDEX
          archive,   \* the downloaded archive of each release
          lock,      \* who holds which lock file
          run,       \* the command of each process
          damaged,   \* history: releases put back without some of their parts
          commands, left

vars == <<home, staged, archive, lock, run, damaged, commands, left>>

Versions == 1..Latest
Newest == 0                              \* the request that names only the major
Requests == Versions \cup {Newest}
Unpacked == {"javac", "lib"}
Whole == Unpacked \cup {"metadata"}
Absent == {}

\* list, and find: the installations that answer a request.
Listed == {v \in Versions : {"metadata", "javac"} \subseteq home[v]}
Found(request) == {v \in Listed : request \in {Newest, v}}

LockByRequest(request) == request

\* lock_path: the releases of a major share a lock.
LockName(request) == Newest

Idle == [pc |-> "idle", removes |-> FALSE, all |-> FALSE, request |-> Newest,
         version |-> Newest, unpacked |-> {},        \* of an installation
         chosen |-> <<>>, at |-> 1, from |-> 1,      \* of a removal
         aside |-> {}, before |-> {}, failed |-> FALSE]
At(p, step) == run[p].pc = step
Goto(p, step) == run' = [run EXCEPT ![p].pc = step]
End(p) == run' = [run EXCEPT ![p] = Idle] /\ lock' = {l \in lock : l.by # p}

Init ==
  /\ home = [v \in Versions |-> Absent] /\ staged = {}
  /\ archive = [v \in Versions |-> "none"] /\ lock = {}
  /\ run = [p \in Proc |-> Idle] /\ damaged = {}
  /\ commands = 0 /\ left = MaxMishaps

Fault == left > 0 /\ left' = left - 1

\* acquire_install_lock.
Acquire(p) ==
  LET name == LockName(run[p].request)
  IN  /\ \A l \in lock : l.name # name
      /\ lock' = lock \cup {[by |-> p, name |-> name]}

---------------------------------------------------------------------------
(* install_with_progress. *)

\* A request that is met already takes no lock and changes nothing.
StartInstall(p, request) ==
  /\ At(p, "idle") /\ commands < MaxCommands /\ commands' = commands + 1
  /\ Found(request) = {}
  /\ run' = [run EXCEPT ![p] = [Idle EXCEPT !.pc = "lock", !.request = request]]
  /\ UNCHANGED <<home, staged, archive, lock, damaged, left>>

LockToInstall(p) ==
  /\ At(p, "lock") /\ ~run[p].removes
  /\ Acquire(p) /\ Goto(p, "find")
  /\ UNCHANGED <<home, staged, archive, damaged, commands, left>>

Resolved(p) ==
  \E v \in Versions : /\ run[p].request \in {Newest, v}
                      /\ run' = [run EXCEPT ![p].pc = "download", ![p].version = v]

InstallAnyway(p) ==
  /\ At(p, "find")
  /\ Resolved(p) /\ UNCHANGED lock
  /\ UNCHANGED <<home, staged, archive, damaged, commands, left>>

\* Another process may have installed it while this one waited.  Which release
\* of the major is the newest is the catalog's answer of the moment.
FindAgain(p) ==
  /\ At(p, "find")
  /\ \/ Found(run[p].request) # {} /\ End(p)
     \/ Found(run[p].request) = {} /\ Resolved(p) /\ UNCHANGED lock
  /\ UNCHANGED <<home, staged, archive, damaged, commands, left>>

\* download_verified creates the file, or truncates the one it finds ...
Download(p) ==
  /\ At(p, "download")
  /\ archive' = [archive EXCEPT ![run[p].version] = "partial"]
  /\ Goto(p, "receive")
  /\ UNCHANGED <<home, staged, lock, damaged, commands, left>>

\* ... and goes on when all of it has come with the right checksum.
Receive(p) ==
  /\ At(p, "receive")
  /\ archive' = [archive EXCEPT ![run[p].version] = "verified"]
  /\ Goto(p, "extract")
  /\ UNCHANGED <<home, staged, lock, damaged, commands, left>>

\* A truncated archive that still has a compiler gives some of the parts.
Extract(p) ==
  /\ At(p, "extract")
  /\ \E parts \in SUBSET Unpacked :
       /\ "javac" \in parts /\ (archive[run[p].version] = "verified" => parts = Unpacked)
       /\ run' = [run EXCEPT ![p].pc = "place", ![p].unpacked = parts]
  /\ UNCHANGED <<home, staged, archive, lock, damaged, commands, left>>

\* A directory without metadata, or without a compiler, makes way.
Clear(p) ==
  /\ At(p, "place") /\ home[run[p].version] # Absent
  /\ home' = [home EXCEPT ![run[p].version] = Absent]
  /\ UNCHANGED <<staged, archive, lock, run, damaged, commands, left>>

Place(p) ==
  LET v == run[p].version
  IN  /\ At(p, "place") /\ home[v] = Absent
      /\ home' = [home EXCEPT ![v] = run[p].unpacked]
      /\ archive' = [archive EXCEPT ![v] = "none"]
      /\ damaged' = damaged \ {v}
      /\ Goto(p, "record")
      /\ UNCHANGED <<staged, lock, commands, left>>

Record(p) ==
  LET v == run[p].version
  IN  /\ At(p, "record") /\ home[v] # Absent
      /\ home' = [home EXCEPT ![v] = @ \cup {"metadata"}]
      /\ End(p)
      /\ UNCHANGED <<staged, archive, damaged, commands, left>>

---------------------------------------------------------------------------
(* remove. *)

StartRemove(p, request, all) ==
  /\ At(p, "idle") /\ commands < MaxCommands /\ commands' = commands + 1
  /\ run' = [run EXCEPT ![p] = [Idle EXCEPT !.pc = "lock", !.removes = TRUE,
                                            !.request = request, !.all = all]]
  /\ UNCHANGED <<home, staged, archive, lock, damaged, left>>

LockToRemove(p) ==
  /\ At(p, "lock") /\ run[p].removes
  /\ Acquire(p) /\ Goto(p, "select")
  /\ UNCHANGED <<home, staged, archive, damaged, commands, left>>

\* removal_candidates: the newest of a major, or all of them.
Candidates(p) ==
  LET found == Found(run[p].request)
  IN  IF run[p].all THEN found ELSE {v \in found : \A w \in found : w <= v}

OldestFirst(releases) ==
  {order \in [1..Cardinality(releases) -> releases] :
     \A i, j \in DOMAIN order : i < j => order[i] < order[j]}

Select(p) ==
  /\ At(p, "select")
  /\ \/ Candidates(p) = {} /\ End(p)
     \/ /\ Candidates(p) # {} /\ UNCHANGED lock
        /\ \E order \in OldestFirst(Candidates(p)) :
             run' = [run EXCEPT ![p].pc = "stage", ![p].before = Listed, ![p].chosen = order]
  /\ UNCHANGED <<home, staged, archive, damaged, commands, left>>

Next1(p) == run[p].chosen[run[p].at]
More(p) == run[p].at <= Len(run[p].chosen)
Aside(p) == {s \in staged : s.by = p /\ s.index = run[p].at}

\* Every candidate is renamed before the first one is deleted.
Stage(p) ==
  LET v == Next1(p)
  IN  /\ At(p, "stage") /\ More(p) /\ Aside(p) = {} /\ home[v] # Absent
      /\ staged' = staged \cup {[by |-> p, index |-> run[p].at, parts |-> home[v]]}
      /\ home' = [home EXCEPT ![v] = Absent]
      /\ run' = [run EXCEPT ![p].at = @ + 1, ![p].aside = @ \cup {v}]
      /\ UNCHANGED <<archive, lock, damaged, commands, left>>

UndoneButLast(p, first, last, failed) ==
  run' = [run EXCEPT ![p].pc = "undo", ![p].from = first, ![p].at = last - 1, ![p].failed = failed]

\* rollback_staged of the candidates first..last, from the last one back.
Undone(p, first, last, failed) ==
  run' = [run EXCEPT ![p].pc = "undo", ![p].from = first, ![p].at = last, ![p].failed = failed]

\* The name is taken, by what a killed process with this id has left, or the
\* rename fails: what has been set aside is put back.
StageFails(p) ==
  /\ At(p, "stage") /\ More(p)
  /\ (Aside(p) # {} /\ UNCHANGED left) \/ Fault
  /\ Undone(p, 1, run[p].at - 1, FALSE)
  /\ UNCHANGED <<home, staged, archive, lock, damaged, commands>>

AllStaged(p) ==
  /\ At(p, "stage") /\ ~More(p)
  /\ run' = [run EXCEPT ![p].pc = "delete", ![p].at = 1]
  /\ UNCHANGED <<home, staged, archive, lock, damaged, commands, left>>

Delete(p) ==
  /\ At(p, "delete") /\ More(p)
  /\ staged' = staged \ Aside(p)
  /\ run' = [run EXCEPT ![p].at = @ + 1, ![p].aside = @ \ {Next1(p)}]
  /\ UNCHANGED <<home, archive, lock, damaged, commands, left>>

\* A deletion that fails may have deleted some of the parts.
Remains(p) ==
  \E parts \in SUBSET UNION {s.parts : s \in Aside(p)} :
     staged' = (staged \ Aside(p)) \cup {[by |-> p, index |-> run[p].at, parts |-> parts]}

DeleteFails(p) ==
  /\ At(p, "delete") /\ More(p) /\ Fault
  /\ Remains(p)
  /\ Undone(p, run[p].at, Len(run[p].chosen), TRUE)
  /\ UNCHANGED <<home, archive, lock, damaged, commands>>

FinishRemove(p) ==
  /\ At(p, "delete") /\ ~More(p) /\ End(p)
  /\ UNCHANGED <<home, staged, archive, damaged, commands, left>>

\* One rename of the rollback.
PutBack(p, s) ==
  LET v == Next1(p)
  IN  /\ At(p, "undo") /\ run[p].at >= run[p].from /\ s \in Aside(p) /\ home[v] = Absent
      /\ home' = [home EXCEPT ![v] = s.parts]
      /\ staged' = staged \ {s}
      /\ damaged' = IF s.parts = Whole THEN damaged ELSE damaged \cup {v}
      /\ run' = [run EXCEPT ![p].at = @ - 1, ![p].aside = @ \ {v}]
      /\ UNCHANGED <<archive, lock, commands, left>>

\* Its errors are ignored.
NotPutBack(p) ==
  /\ At(p, "undo") /\ run[p].at >= run[p].from /\ Fault
  /\ run' = [run EXCEPT ![p].at = @ - 1, ![p].failed = TRUE]
  /\ UNCHANGED <<home, staged, archive, lock, damaged, commands>>

FinishUndo(p) ==
  /\ At(p, "undo") /\ run[p].at < run[p].from /\ End(p)
  /\ UNCHANGED <<home, staged, archive, damaged, commands, left>>

---------------------------------------------------------------------------
\* An installation that fails ends like a process that is killed: with what it
\* has done so far, and with part of a directory that it was deleting.
Stop(p) ==
  /\ ~At(p, "idle") /\ Fault /\ End(p)
  /\ \/ /\ At(p, "place")
        /\ \E parts \in SUBSET home[run[p].version] :
             home' = [home EXCEPT ![run[p].version] = parts]
        /\ UNCHANGED staged
     \/ At(p, "delete") /\ More(p) /\ Remains(p) /\ UNCHANGED home
     \/ UNCHANGED <<home, staged>>
  /\ UNCHANGED <<archive, damaged, commands>>

InstallStep(p) ==
  \/ \E request \in Requests : StartInstall(p, request)
  \/ LockToInstall(p) \/ FindAgain(p) \/ Download(p) \/ Receive(p) \/ Extract(p)
  \/ Clear(p) \/ Place(p) \/ Record(p)

RemoveStep(p) ==
  \/ \E request \in Requests, all \in BOOLEAN : StartRemove(p, request, all)
  \/ LockToRemove(p) \/ Select(p) \/ Stage(p) \/ StageFails(p) \/ AllStaged(p)
  \/ Delete(p) \/ DeleteFails(p) \/ FinishRemove(p)
  \/ (\E s \in staged : PutBack(p, s)) \/ NotPutBack(p) \/ FinishUndo(p)

Next == \E p \in Proc : InstallStep(p) \/ RemoveStep(p) \/ Stop(p)

Spec == Init /\ [][Next]_vars

---------------------------------------------------------------------------
(* Properties. *)

Steps == {"idle", "lock", "find", "download", "receive", "extract", "place", "record",
          "select", "stage", "delete", "undo"}
Runs == [pc : Steps, removes : BOOLEAN, all : BOOLEAN, request : Requests, version : Requests,
         unpacked : SUBSET Unpacked, chosen : Seq(Versions), at : Nat, from : Nat,
         aside : SUBSET Versions, before : SUBSET Versions, failed : BOOLEAN]

TypeOK ==
  /\ home \in [Versions -> SUBSET Whole]
  /\ staged \subseteq [by : Proc, index : Nat, parts : SUBSET Whole]
  /\ \A s, t \in staged : s.by = t.by /\ s.index = t.index => s = t
  /\ archive \in [Versions -> {"none", "partial", "verified"}]
  /\ lock \subseteq [by : Proc, name : Requests]
  /\ run \in [Proc -> Runs] /\ damaged \subseteq Versions
  /\ commands \in Nat /\ left \in Nat

(* A JDK that a command finds has all its parts, whatever was interrupted,
   killed or run at once, unless the deletion of its directory failed and the
   rollback put the rest back: "corruption recovery" (PLAN.md:245) replaces
   only what is not found. *)
ListedAreWhole == \A v \in Listed \ damaged : home[v] = Whole

(* A removal takes exactly what it has chosen; one that fails before it
   deletes leaves everything as it was ("Targets are renamed inside the
   toolchain store before deletion so a failure while staging multiple
   targets can be rolled back", toolchain.rs:611). *)
RemovalIsExact ==
  [][\A p \in Proc :
       /\ FinishRemove(p) => Listed' = run[p].before \ ToSet(run[p].chosen)
       /\ FinishUndo(p) /\ ~run[p].failed => Listed' = run[p].before]_vars

(* To the commands that take no lock the store is that of JdkStore: an
   installation appears whole, at once, and only a removal takes it away, so
   that no installation pulls a JDK from under a running build. *)
Store == INSTANCE JdkStore WITH managed <- Listed,
                                taken <- UNION {run[p].aside : p \in Proc}
ImplementsStore == Store!Spec
=============================================================================
