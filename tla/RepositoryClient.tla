-------------------------- MODULE RepositoryClient --------------------------
(***************************************************************************)
(* RepositoryClient::fetch of jman-resolver: the tasks of one process ask  *)
(* for repository files through a memory cache, one lock per path, a file  *)
(* cache per repository that other processes share, and a store of         *)
(* artifacts named by their content.                                       *)
(*                                                                         *)
(* Bytes are an edition of the file at a path: a repository that publishes *)
(* the path again has another edition.  A damaged or missing entry of the  *)
(* content store is one that is not in `stored`: fetch treats both alike.  *)
(* A request that is retried and answered is one Consult; FetchFails       *)
(* stands for the third failure, a refusal, or a disk error.               *)
(***************************************************************************)
EXTENDS Naturals, FiniteSets

CONSTANTS Task,          \* the tasks of the process that call fetch
          Path,          \* repository paths
          Artifact,      \* those whose file goes to the content store
          Repositories,  \* how many repositories are asked, in order
          Directories    \* those that are directories, named by a file:// URL

VARIABLES offline,   \* --offline: no repository is contacted over the network
          remote,    \* remote[r][p]: the edition repository r has, or None
          disk,      \* disk[r][p]: the edition cached for repository r
          stored,    \* content store: the whole files, as <<path, edition>>
          memory,    \* memory[p]: the file this process has fetched, or NoFile
          holder,    \* holder[p]: the set of the one task that owns the lock of p, or Free
          fetching,  \* fetching[t]: where task t is in fetch
          mishaps    \* failures and interference so far

Repository == 1..Repositories
Edition == 1..2
None == 0
NoFile == [repository |-> 0, edition |-> None]
Free == {}
Idle == [at |-> "idle", path |-> CHOOSE p \in Path : TRUE, file |-> NoFile]

\* The states in which a task owns the lock of its path.
Critical == {"disk", "write", "place"}
Running == Critical \cup {"lookup", "wait"}

----------------------------------------------------------------------------
PathOf(t) == fetching[t].path
RepositoryOf(t) == fetching[t].file.repository
Resting(t) == fetching[t].at \notin Running

Move(t, at) == [fetching EXCEPT ![t].at = at]
Finish(t, file) == [fetching EXCEPT ![t].at = "done", ![t].file = file]

\* The fetch of path p begins with a look at the memory cache.
Request(f, t, p) == [f EXCEPT ![t] = [at |-> "lookup", path |-> p, file |-> NoFile]]

Lookup(t) ==
  /\ fetching[t].at = "lookup"
  /\ fetching' = IF memory[PathOf(t)] # NoFile
                   THEN Finish(t, memory[PathOf(t)]) ELSE Move(t, "wait")
  /\ UNCHANGED <<offline, remote, disk, stored, memory, holder, mishaps>>

\* A bug: the memory cache is not looked at under the lock.
EnterUnchecked(t) ==
  /\ fetching[t].at = "wait"
  /\ holder[PathOf(t)] = Free
  /\ holder' = [holder EXCEPT ![PathOf(t)] = {t}]
  /\ fetching' = [fetching EXCEPT ![t].at = "disk", ![t].file.repository = 1]
  /\ UNCHANGED <<offline, remote, disk, stored, memory, mishaps>>

\* The lock of the path is taken, and the memory cache looked at again: the
\* task that owned the lock may have fetched the file.
Enter(t) ==
  /\ fetching[t].at = "wait"
  /\ holder[PathOf(t)] = Free
  /\ IF memory[PathOf(t)] # NoFile
       THEN fetching' = Finish(t, memory[PathOf(t)]) /\ UNCHANGED holder
       ELSE /\ holder' = [holder EXCEPT ![PathOf(t)] = {t}]
            /\ fetching' = [fetching EXCEPT ![t].at = "disk", ![t].file.repository = 1]
  /\ UNCHANGED <<offline, remote, disk, stored, memory, mishaps>>


Cached(t) == disk[RepositoryOf(t)][PathOf(t)]
Reached(t) == ~offline \/ RepositoryOf(t) \in Directories
Answer(t) == IF Reached(t) THEN remote[RepositoryOf(t)][PathOf(t)] ELSE None

Fail(t) ==
  /\ fetching' = Move(t, "error")
  /\ holder' = [holder EXCEPT ![PathOf(t)] = Free]

Advance(t, at, edition) ==
  /\ fetching' = [Move(t, at) EXCEPT ![t].file.edition = edition]
  /\ UNCHANGED holder

\* Is repository r the last one to ask?
LastRepository(r) == r = Repositories


\* What a repository has answered before is used without asking it again.
\* Otherwise it is asked; when it lacks the file, the next one is looked at.
Consult(t) ==
  /\ fetching[t].at = "disk"
  /\ \/ Cached(t) # None /\ Advance(t, "place", Cached(t))
     \/ Cached(t) = None /\ Answer(t) # None /\ Advance(t, "write", Answer(t))
     \/ /\ Cached(t) = None /\ Answer(t) = None
        /\ IF LastRepository(RepositoryOf(t)) THEN Fail(t)
           ELSE /\ fetching' = [fetching EXCEPT ![t].file.repository = @ + 1]
                /\ UNCHANGED holder
  /\ UNCHANGED <<offline, remote, disk, stored, memory, mishaps>>

Write(t) ==
  /\ fetching[t].at = "write"
  /\ disk' = [disk EXCEPT ![RepositoryOf(t)][PathOf(t)] = fetching[t].file.edition]
  /\ fetching' = Move(t, "place")
  /\ UNCHANGED <<offline, remote, stored, memory, holder, mishaps>>

\* An artifact goes to the content store unless a whole copy is there; the
\* file is remembered and the lock released.
Put(t) == {<<PathOf(t), fetching[t].file.edition>>} \cap (Artifact \X Edition)
Place(t) ==
  /\ fetching[t].at = "place"
  /\ stored' = stored \cup Put(t)
  /\ memory' = [memory EXCEPT ![PathOf(t)] = fetching[t].file]
  /\ fetching' = Move(t, "done")
  /\ holder' = [holder EXCEPT ![PathOf(t)] = Free]
  /\ UNCHANGED <<offline, remote, disk, mishaps>>

FetchFails(t) ==
  /\ \/ fetching[t].at \in {"write", "place"}
     \/ fetching[t].at = "disk" /\ Cached(t) = None /\ Reached(t)
  /\ Fail(t)
  /\ mishaps' = mishaps + 1
  /\ UNCHANGED <<offline, remote, disk, stored, memory>>

FetchStep(t) == Lookup(t) \/ Enter(t) \/ Consult(t) \/ Write(t) \/ Place(t)

----------------------------------------------------------------------------
\* A repository publishes a path again, or one that another repository has.
Republish(r, p) ==
  /\ \E s \in Repository : remote[s][p] # None
  /\ \E e \in Edition \ {remote[r][p]} : remote' = [remote EXCEPT ![r][p] = e]
  /\ mishaps' = mishaps + 1
  /\ UNCHANGED <<offline, disk, stored, memory, holder, fetching>>

\* Another process that found no cached file finishes its own fetch.
Neighbour(r, p) ==
  /\ remote[r][p] \notin {None, disk[r][p]}
  /\ disk' = [disk EXCEPT ![r][p] = remote[r][p]]
  /\ mishaps' = mishaps + 1
  /\ UNCHANGED <<offline, remote, stored, memory, holder, fetching>>
=============================================================================
