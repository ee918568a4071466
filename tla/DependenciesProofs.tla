-------------------------- MODULE DependenciesProofs --------------------------
(***************************************************************************)
(* Theorems about Dependencies and its RepositoryClient, for any modules,  *)
(* coordinates, repositories and projects, whatever fails, changes or is   *)
(* killed.  The invariant of the client comes first: who owns the lock of  *)
(* a path is alone at work on it, and what is remembered is an edition.    *)
(* Then the walks: each is at the end of a sequence of states that only    *)
(* its roots, its management and the files fetched so far decide.          *)
(***************************************************************************)
EXTENDS Dependencies, FiniteSetTheorems, SequenceTheorems, WellFoundedInduction, TLAPS

\* A set of numbers that is not empty has a least one.
LEMMA Least ==
  ASSUME NEW S \in SUBSET Nat, S # {}
  PROVE  \E n \in S : \A k \in S : n <= k
<1>1. PICK n \in S : \A k \in S : ~(<<k, n>> \in OpToRel(<, Nat))
  BY NatLessThanWellFounded, WFMin, Zenon
<1>2. \A k \in S : ~(k < n)
  BY <1>1 DEF OpToRel
<1> QED BY <1>2

\* A finite set as a sequence.
LEMMA Enumerated ==
  ASSUME NEW S, IsFiniteSet(S)
  PROVE  Cardinality(S) \in Nat /\ SetToSeq(S) \in [1..Cardinality(S) -> S]
<1> DEFINE n == Cardinality(S)
<1>1. n \in Nat /\ IsFiniteSet(1..n) /\ Cardinality(1..n) = n
  BY FS_CardinalityType, FS_Interval
<1>2. ExistsBijection(1..n, S)
  BY <1>1, FS_SameCardinalityBij
<1>3. \E g \in [1..n -> S] : IsInjective(g)
  BY <1>2 DEF ExistsBijection, Bijection, Injection
<1> QED BY <1>1, <1>3 DEF SetToSeq

\* first[k] is what is kept of the first k items.
Keeps(items, kept, n, first) ==
  first = [k \in 0..n |->
    IF k = 0 THEN <<>>
    ELSE IF kept[k] THEN Append(first[k - 1], items[k]) ELSE first[k - 1]]

\* The function that goes through the items is there, whatever they are.
LEMMA KeptExists ==
  ASSUME NEW items, NEW kept, NEW n \in Nat
  PROVE  \E first : Keeps(items, kept, n, first)
<1> DEFINE Missing == {m \in Nat : ~ \E first : Keeps(items, kept, m, first)}
<1>1. ASSUME NEW m \in Nat, NEW f, Keeps(items, kept, m, f)
      PROVE  \E first : Keeps(items, kept, m + 1, first)
  <2> DEFINE last == IF kept[m + 1] THEN Append(f[m], items[m + 1]) ELSE f[m]
             g == [k \in 0..m + 1 |-> IF k = m + 1 THEN last ELSE f[k]]
  <2>1. \A k \in 0..m : g[k] = f[k]
    OBVIOUS
  <2>2. \A k \in 0..m : f[k] = IF k = 0 THEN <<>>
          ELSE IF kept[k] THEN Append(f[k - 1], items[k]) ELSE f[k - 1]
    BY <1>1 DEF Keeps
  <2>3. ASSUME NEW k \in 0..m + 1
        PROVE  g[k] = IF k = 0 THEN <<>>
                      ELSE IF kept[k] THEN Append(g[k - 1], items[k]) ELSE g[k - 1]
    <3>1. CASE k = m + 1
      <4>1. g[k] = last /\ g[k - 1] = f[m] /\ k # 0
        BY <3>1, <2>1
      <4> QED BY <3>1, <4>1
    <3>2. CASE k \in 0..m
      <4>1. g[k] = f[k] /\ (k # 0 => g[k - 1] = f[k - 1])
        BY <3>2, <2>1
      <4> HIDE DEF g
      <4> QED BY <3>2, <4>1, <2>2
    <3> QED BY <3>1, <3>2
  <2>4. g = [k \in 0..m + 1 |-> g[k]]
    OBVIOUS
  <2> HIDE DEF g
  <2>5. Keeps(items, kept, m + 1, g)
    BY <2>3, <2>4 DEF Keeps
  <2> QED BY <2>5
<1>2. 0 \notin Missing
  <2> DEFINE f == [k \in 0..0 |-> <<>>]
  <2>1. Keeps(items, kept, 0, f)
    BY DEF Keeps
  <2> QED BY <2>1
<1>3. Missing = {}
  <2> SUFFICES ASSUME Missing # {} PROVE FALSE
    OBVIOUS
  <2>1. PICK m \in Missing : \A k \in Missing : m <= k
    BY Least
  <2>2. m # 0 /\ m - 1 \in Nat /\ m - 1 \notin Missing
    BY <1>2, <2>1
  <2>3. PICK f : Keeps(items, kept, m - 1, f)
    BY <2>2
  <2>4. \E first : Keeps(items, kept, (m - 1) + 1, first)
    BY <1>1, <2>2, <2>3
  <2> QED BY <2>1, <2>2, <2>4
<1> QED BY <1>3

\* What is kept of items of some kind is a sequence of that kind.
LEMMA KeptType ==
  ASSUME NEW C, NEW items, Len(items) \in Nat, NEW kept,
         \A k \in 1..Len(items) : kept[k] => items[k] \in C
  PROVE  KeptOf(items, kept) \in Seq(C)
<1> DEFINE n == Len(items)
           f == CHOOSE first : Keeps(items, kept, n, first)
<1>1. Keeps(items, kept, n, f)
  BY KeptExists
<1>2. KeptOf(items, kept) = f[n]
  BY DEF KeptOf, Keeps
<1> HIDE DEF f
<1>3. \A k \in 0..n : f[k] = IF k = 0 THEN <<>>
        ELSE IF kept[k] THEN Append(f[k - 1], items[k]) ELSE f[k - 1]
  BY <1>1 DEF Keeps
<1> DEFINE Wrong == {k \in 0..n : f[k] \notin Seq(C)}
<1>4. Wrong = {}
  <2> SUFFICES ASSUME Wrong # {} PROVE FALSE
    OBVIOUS
  <2>1. PICK k \in Wrong : \A j \in Wrong : k <= j
    <3>1. Wrong \in SUBSET Nat
      OBVIOUS
    <3> HIDE DEF Wrong
    <3> QED BY <3>1, Least
  <2>2. CASE k = 0
    <3>1. f[0] = <<>>
      BY <1>3
    <3>2. <<>> \in Seq(C)
      BY EmptySeq
    <3>3. k \in Wrong
      BY <2>1
    <3> QED BY <2>2, <3>1, <3>2, <3>3
  <2>3. CASE k # 0
    <3>1. k - 1 \in 0..n /\ f[k - 1] \in Seq(C) /\ k \in 1..n
      BY <2>1, <2>3
    <3>2. f[k] \in Seq(C)
      <4>1. CASE kept[k]
        <5>1. f[k] = Append(f[k - 1], items[k]) /\ items[k] \in C
          BY <1>3, <3>1, <4>1, <2>3
        <5> QED BY <3>1, <5>1, AppendProperties
      <4>2. CASE ~kept[k]
        BY <1>3, <3>1, <4>2, <2>3
      <4> QED BY <4>1, <4>2
    <3> QED BY <2>1, <3>2
  <2> QED BY <2>2, <2>3
<1> QED BY <1>2, <1>4

----------------------------------------------------------------------------
(* Types. *)

Tasks == Module \X (0..MaxPackages)
Artifacts == Coordinate \X {"jar"}
Scopes == Scope \cup {"unstated", "none"}
File == [repository : Nat, edition : Edition \cup {None}]
Known == [repository : Nat, edition : Edition]
Candidates == [to : Coordinate, scope : Scopes, excluded : SUBSET Name, below : SUBSET Name,
               parent : Nat, depth : Nat]
Selections == [at : Coordinate, pom : Known, scopes : SUBSET Scopes, parent : Nat, depth : Nat,
               edges : SUBSET Coordinate, artifact : File, path : Path]
Places == {"idle", "lookup", "wait", "disk", "write", "place", "done", "error"}
Fetch == [at : Places, path : Path, file : File]

ClientTypes ==
  /\ remote \in [Repository -> [Path -> Edition \cup {None}]]
  /\ disk \in [Repository -> [Path -> Edition \cup {None}]]
  /\ memory \in [Path -> File]
  /\ holder \in [Path -> SUBSET Tasks]
  /\ fetching \in [Tasks -> Fetch]

ResolverTypes ==
  /\ project \in Projects
  /\ walk \in [Module -> {"walking", "loading", "joining", "done", "failed"}]
  /\ queue \in [Module -> Seq(Candidates)]
  /\ packages \in [Module -> Seq(Selections)]
  /\ \A m \in Module : Len(packages[m]) <= MaxPackages
  /\ asked \in [Module -> SUBSET Coordinate]
  /\ todo \in [Module -> Seq(Coordinate)]

\* The lock of a path is its owner's, and while a task owns it nobody has
\* fetched the file; who is done has what this process remembers.
FetchOk(t) ==
  /\ fetching[t].at \in Critical =>
       /\ holder[PathOf(t)] = {t} /\ memory[PathOf(t)] = NoFile
       /\ RepositoryOf(t) \in Repository
  /\ fetching[t].at \in {"write", "place"} => fetching[t].file.edition \in Edition
  /\ fetching[t].at = "done" =>
       fetching[t].file = memory[PathOf(t)] /\ memory[PathOf(t)] # NoFile

\* Whatever is remembered is an edition, and an artifact is in the store.
MemoryOk ==
  \A p \in Path : memory[p] # NoFile =>
    /\ memory[p].edition \in Edition
    /\ p \in Artifacts => <<p, memory[p].edition>> \in stored

ClientInv == ClientTypes /\ MemoryOk /\ \A t \in Tasks : FetchOk(t)

\* What is remembered stays, and every task keeps its path.
MemoryKept == \A p \in Path : memory[p] # NoFile => memory'[p] = memory[p]
PathsKept == \A t \in Tasks : fetching'[t].path = fetching[t].path

----------------------------------------------------------------------------
(* Steps of fetch. *)

LEMMA Constants ==
  /\ NoFile \in File /\ Idle \in Fetch /\ 1 \in Repository
  /\ \A c \in Coordinate : Pom(c) \in Path /\ Jar(c) \in Path
  /\ Artifacts \subseteq Path
<1>1. NoFile \in File
  BY DEF NoFile, File
<1>2. \A c \in Coordinate : Pom(c) \in Path /\ Jar(c) \in Path
  BY DEF Pom, Jar, Path
<1>3. (CHOOSE p \in Path : TRUE) \in Path
  BY <1>2, SituationAssumption
<1>4. Idle \in Fetch
  BY <1>1, <1>3 DEF Idle, Fetch, Places
<1>5. 1 \in Repository
  BY SituationAssumption DEF Repository
<1> QED BY <1>1, <1>2, <1>4, <1>5 DEF Artifacts, Path

\* One task moves to r, and nothing is remembered.
LEMMA OneMoves ==
  ASSUME ClientInv, NEW t \in Tasks, NEW r \in Fetch, fetching' = [fetching EXCEPT ![t] = r],
         UNCHANGED <<remote, stored, memory>>,
         disk' \in [Repository -> [Path -> Edition \cup {None}]],
         \/ UNCHANGED holder
         \/ holder' = [holder EXCEPT ![PathOf(t)] = {}] /\ holder[PathOf(t)] = {t}
         \/ holder' = [holder EXCEPT ![PathOf(t)] = {t}] /\ holder[PathOf(t)] = {},
         r.at \in Critical =>
           /\ holder'[r.path] = {t} /\ memory[r.path] = NoFile /\ r.file.repository \in Repository,
         r.at \in {"write", "place"} => r.file.edition \in Edition,
         r.at = "done" => r.file = memory[r.path] /\ memory[r.path] # NoFile
  PROVE  ClientInv' /\ MemoryKept
<1>1. ClientTypes /\ MemoryOk /\ \A u \in Tasks : FetchOk(u)
  BY DEF ClientInv
<1>2. fetching' \in [Tasks -> Fetch] /\ fetching'[t] = r
  BY <1>1 DEF ClientTypes
<1>3. \A u \in Tasks \ {t} : fetching'[u] = fetching[u]
  BY <1>1 DEF ClientTypes
<1>4. holder' \in [Path -> SUBSET Tasks]
  BY <1>1 DEF ClientTypes
<1>5. ClientTypes' /\ MemoryOk'
  BY <1>1, <1>2, <1>4 DEF ClientTypes, MemoryOk
<1>6. FetchOk(t)'
  BY <1>2 DEF FetchOk, PathOf, RepositoryOf
<1>7. ASSUME NEW u \in Tasks \ {t} PROVE FetchOk(u)'
  <2>1. FetchOk(u) /\ fetching'[u] = fetching[u] /\ memory' = memory /\ fetching[u].path \in Path
    BY <1>1, <1>3 DEF ClientTypes, Fetch
  <2>2. fetching[u].at \in Critical => holder'[fetching[u].path] = {u}
    BY <1>1, <2>1 DEF FetchOk, PathOf, ClientTypes
  <2> QED BY <2>1, <2>2 DEF FetchOk, PathOf, RepositoryOf
<1> QED BY <1>5, <1>6, <1>7 DEF ClientInv, MemoryKept

LEMMA PathStays ==
  ASSUME ClientInv, NEW t \in Tasks, NEW r, r.path = PathOf(t),
         fetching' = [fetching EXCEPT ![t] = r]
  PROVE  PathsKept
BY DEF ClientInv, ClientTypes, PathsKept, PathOf

\* A task goes on to `at` with `file`.
Goes(t, at, file) == [fetching[t] EXCEPT !.at = at, !.file = file]

LEMMA GoesType ==
  ASSUME ClientInv, NEW t \in Tasks, NEW at \in Places, NEW file \in File
  PROVE  /\ Goes(t, at, file) \in Fetch /\ Goes(t, at, file).path = PathOf(t)
         /\ Goes(t, at, file).at = at /\ Goes(t, at, file).file = file
<1>1. fetching[t] \in Fetch
  BY DEF ClientInv, ClientTypes
<1> QED BY <1>1 DEF Goes, Fetch, PathOf

\* Move goes on with the file that the task has.
LEMMA MoveGoes ==
  ASSUME ClientInv, NEW t \in Tasks, NEW at
  PROVE  Move(t, at) = [fetching EXCEPT ![t] = Goes(t, at, fetching[t].file)]
<1>1. fetching[t] \in Fetch
  BY DEF ClientInv, ClientTypes
<1>2. [fetching[t] EXCEPT !.at = at] = Goes(t, at, fetching[t].file)
  BY <1>1 DEF Goes, Fetch
<1>3. Move(t, at) = [fetching EXCEPT ![t] = [fetching[t] EXCEPT !.at = at]]
  BY DEF Move
<1> QED BY <1>2, <1>3

LEMMA TaskFacts ==
  ASSUME ClientInv, NEW t \in Tasks
  PROVE  /\ fetching[t].at \in Places /\ PathOf(t) \in Path /\ fetching[t].file \in File
         /\ memory[PathOf(t)] \in File /\ FetchOk(t)
BY DEF ClientInv, ClientTypes, Fetch, PathOf

LEMMA LookupKeeps ==
  ASSUME ClientInv, NEW t \in Tasks, Lookup(t)
  PROVE  ClientInv' /\ MemoryKept /\ PathsKept
<1> USE TaskFacts
<1>1. /\ UNCHANGED <<remote, disk, stored, memory, holder>>
      /\ disk' \in [Repository -> [Path -> Edition \cup {None}]]
  BY DEF Lookup, ClientInv, ClientTypes
<1>2. CASE memory[PathOf(t)] # NoFile
  <2> DEFINE r == Goes(t, "done", memory[PathOf(t)])
  <2>1. fetching' = [fetching EXCEPT ![t] = r]
    BY <1>2 DEF Lookup, Finish, Goes, ClientInv, ClientTypes
  <2>2. /\ r \in Fetch /\ r.path = PathOf(t) /\ r.at = "done" /\ r.file = memory[PathOf(t)]
    BY GoesType DEF Places
  <2> HIDE DEF r
  <2> QED BY <1>1, <1>2, <2>1, <2>2, OneMoves, PathStays DEF Critical
<1>3. CASE memory[PathOf(t)] = NoFile
  <2> DEFINE r == Goes(t, "wait", fetching[t].file)
  <2>1. fetching' = [fetching EXCEPT ![t] = r]
    BY <1>3, MoveGoes DEF Lookup
  <2>2. r \in Fetch /\ r.path = PathOf(t) /\ r.at = "wait"
    BY GoesType DEF Places
  <2> HIDE DEF r
  <2> QED BY <1>1, <2>1, <2>2, OneMoves, PathStays DEF Critical
<1> QED BY <1>2, <1>3

LEMMA EnterKeeps ==
  ASSUME ClientInv, NEW t \in Tasks, Enter(t)
  PROVE  ClientInv' /\ MemoryKept /\ PathsKept
<1> USE TaskFacts
<1>1. /\ UNCHANGED <<remote, disk, stored, memory>> /\ holder[PathOf(t)] = {}
      /\ disk' \in [Repository -> [Path -> Edition \cup {None}]]
  BY DEF Enter, ClientInv, ClientTypes, Free
<1>2. CASE memory[PathOf(t)] # NoFile
  <2> DEFINE r == Goes(t, "done", memory[PathOf(t)])
  <2>1. fetching' = [fetching EXCEPT ![t] = r] /\ UNCHANGED holder
    BY <1>2 DEF Enter, Finish, Goes, ClientInv, ClientTypes
  <2>2. /\ r \in Fetch /\ r.path = PathOf(t) /\ r.at = "done" /\ r.file = memory[PathOf(t)]
    BY GoesType DEF Places
  <2> HIDE DEF r
  <2> QED BY <1>1, <1>2, <2>1, <2>2, OneMoves, PathStays DEF Critical
<1>3. CASE memory[PathOf(t)] = NoFile
  <2> DEFINE file == [fetching[t].file EXCEPT !.repository = 1]
             r == Goes(t, "disk", file)
  <2>1. file \in File /\ file.repository = 1
    BY DEF File
  <2>2. fetching' = [fetching EXCEPT ![t] = r] /\ holder' = [holder EXCEPT ![PathOf(t)] = {t}]
    <3>1. /\ fetching' = [fetching EXCEPT ![t].at = "disk", ![t].file.repository = 1]
          /\ holder' = [holder EXCEPT ![PathOf(t)] = {t}]
      BY <1>3 DEF Enter
    <3>2. fetching[t] \in Fetch
      BY DEF ClientInv, ClientTypes
    <3>3. [fetching[t] EXCEPT !.at = "disk", !.file.repository = 1] = r
      BY <3>2 DEF Goes, Fetch
    <3>4. fetching' = [fetching EXCEPT ![t] = [fetching[t] EXCEPT !.at = "disk", !.file.repository = 1]]
      BY <3>1
    <3> QED BY <3>1, <3>3, <3>4
  <2>3. r \in Fetch /\ r.path = PathOf(t) /\ r.at = "disk" /\ r.file = file
    BY <2>1, GoesType DEF Places
  <2>4. holder'[PathOf(t)] = {t}
    BY <2>2 DEF ClientInv, ClientTypes
  <2> HIDE DEF r, file
  <2> QED BY <1>1, <1>3, <2>1, <2>2, <2>3, <2>4, Constants, OneMoves, PathStays
<1> QED BY <1>2, <1>3

\* An error gives the lock back.
LEMMA FailKeeps ==
  ASSUME ClientInv, NEW t \in Tasks, fetching[t].at \in Critical, Fail(t),
         UNCHANGED <<remote, disk, stored, memory>>
  PROVE  ClientInv' /\ MemoryKept /\ PathsKept
<1> USE TaskFacts
<1> DEFINE r == Goes(t, "error", fetching[t].file)
<1>1. /\ disk' \in [Repository -> [Path -> Edition \cup {None}]] /\ holder[PathOf(t)] = {t}
  BY DEF ClientInv, ClientTypes, FetchOk
<1>2. fetching' = [fetching EXCEPT ![t] = r] /\ holder' = [holder EXCEPT ![PathOf(t)] = {}]
  BY MoveGoes DEF Fail, Free
<1>3. r \in Fetch /\ r.path = PathOf(t) /\ r.at = "error"
  BY GoesType DEF Places
<1> HIDE DEF r
<1> QED BY <1>1, <1>2, <1>3, OneMoves, PathStays DEF Critical

LEMMA ConsultKeeps ==
  ASSUME ClientInv, NEW t \in Tasks, Consult(t)
  PROVE  ClientInv' /\ MemoryKept /\ PathsKept
<1> USE TaskFacts
<1>1. /\ UNCHANGED <<remote, disk, stored, memory>> /\ fetching[t].at = "disk"
      /\ disk' \in [Repository -> [Path -> Edition \cup {None}]]
  BY DEF Consult, ClientInv, ClientTypes
<1>2. /\ holder[PathOf(t)] = {t} /\ memory[PathOf(t)] = NoFile /\ RepositoryOf(t) \in Repository
      /\ "disk" \in Critical
  BY <1>1 DEF FetchOk, Critical
<1>3. /\ Cached(t) \in Edition \cup {None} /\ Answer(t) \in Edition \cup {None}
  BY <1>2 DEF ClientInv, ClientTypes, Cached, Answer
<1>4. CASE \E at \in {"place", "write"}, e \in Edition : Advance(t, at, e)
  <2>1. PICK at \in {"place", "write"}, e \in Edition : Advance(t, at, e)
    BY <1>4
  <2> DEFINE file == [fetching[t].file EXCEPT !.edition = e]
             r == Goes(t, at, file)
  <2>2. file \in File /\ file.edition = e /\ file.repository \in Repository
    BY <1>2 DEF File, RepositoryOf
  <2>3. fetching' = [fetching EXCEPT ![t] = r] /\ UNCHANGED holder
    BY <2>1 DEF Advance, Move, Goes, ClientInv, ClientTypes, Fetch
  <2>4. r \in Fetch /\ r.path = PathOf(t) /\ r.at = at /\ r.file = file
    BY <2>2, GoesType DEF Places
  <2> HIDE DEF r, file
  <2> QED BY <1>1, <1>2, <2>2, <2>3, <2>4, OneMoves, PathStays
<1>5. CASE ~LastRepository(RepositoryOf(t)) /\ UNCHANGED holder
           /\ fetching' = [fetching EXCEPT ![t].file.repository = @ + 1]
  <2> DEFINE file == [fetching[t].file EXCEPT !.repository = @ + 1]
             r == Goes(t, "disk", file)
  <2>1. file \in File /\ file.repository = RepositoryOf(t) + 1
    BY DEF File, RepositoryOf
  <2>2. file.repository \in Repository
    BY <1>2, <1>5, <2>1, SituationAssumption DEF LastRepository, Repository
  <2>3. fetching' = [fetching EXCEPT ![t] = r]
    BY <1>1, <1>5 DEF Goes, ClientInv, ClientTypes, Fetch
  <2>4. r \in Fetch /\ r.path = PathOf(t) /\ r.at = "disk" /\ r.file = file
    BY <2>1, GoesType DEF Places
  <2> HIDE DEF r, file
  <2> QED BY <1>1, <1>2, <1>5, <2>2, <2>3, <2>4, OneMoves, PathStays
<1>6. CASE Fail(t)
  BY <1>1, <1>2, <1>6, FailKeeps
<1> QED BY <1>3, <1>4, <1>5, <1>6 DEF Consult

LEMMA WriteKeeps ==
  ASSUME ClientInv, NEW t \in Tasks, Write(t)
  PROVE  ClientInv' /\ MemoryKept /\ PathsKept
<1> USE TaskFacts
<1> DEFINE e == fetching[t].file.edition
           r == Goes(t, "place", fetching[t].file)
<1>1. /\ UNCHANGED <<remote, stored, memory, holder>> /\ fetching[t].at = "write"
      /\ disk' = [disk EXCEPT ![RepositoryOf(t)][PathOf(t)] = e]
  BY DEF Write
<1>2. /\ holder[PathOf(t)] = {t} /\ memory[PathOf(t)] = NoFile /\ RepositoryOf(t) \in Repository
      /\ e \in Edition
  BY <1>1 DEF FetchOk, Critical
<1>3. disk' \in [Repository -> [Path -> Edition \cup {None}]]
  BY <1>1, <1>2 DEF ClientInv, ClientTypes
<1>4. fetching' = [fetching EXCEPT ![t] = r]
  BY MoveGoes DEF Write
<1>5. r \in Fetch /\ r.path = PathOf(t) /\ r.at = "place" /\ r.file = fetching[t].file
  BY GoesType DEF Places
<1> HIDE DEF r
<1> QED BY <1>1, <1>2, <1>3, <1>4, <1>5, OneMoves, PathStays DEF RepositoryOf

\* The owner of a lock is alone: no other task is anywhere on that path but at
\* its beginning, or done with what is remembered.
LEMMA PlaceKeeps ==
  ASSUME ClientInv, NEW t \in Tasks, Place(t)
  PROVE  ClientInv' /\ MemoryKept /\ PathsKept
<1> USE TaskFacts
<1> DEFINE r == Goes(t, "done", fetching[t].file)
           p == PathOf(t)
           file == fetching[t].file
<1>1. /\ fetching[t].at = "place" /\ UNCHANGED <<remote, disk>>
      /\ stored' = stored \cup Put(t) /\ memory' = [memory EXCEPT ![p] = file]
      /\ holder' = [holder EXCEPT ![p] = {}]
  BY DEF Place, Free
<1>2. fetching' = [fetching EXCEPT ![t] = r]
  BY MoveGoes DEF Place
<1>3. r \in Fetch /\ r.path = p /\ r.at = "done" /\ r.file = file
  BY GoesType DEF Places
<1>4. /\ holder[p] = {t} /\ memory[p] = NoFile /\ p \in Path /\ file \in File
      /\ file.edition \in Edition
  BY <1>1 DEF FetchOk, Critical
<1>5. file # NoFile
  BY <1>4 DEF NoFile, Edition, None
<1> HIDE DEF r, file
<1>6. ClientTypes /\ MemoryOk /\ \A u \in Tasks : FetchOk(u)
  BY DEF ClientInv
<1>7. /\ memory' \in [Path -> File] /\ memory'[p] = file
      /\ \A q \in Path \ {p} : memory'[q] = memory[q]
  BY <1>1, <1>4, <1>6 DEF ClientTypes
<1>8. /\ holder' \in [Path -> SUBSET Tasks]
      /\ \A q \in Path \ {p} : holder'[q] = holder[q]
  BY <1>1, <1>6 DEF ClientTypes
<1>9. /\ fetching' \in [Tasks -> Fetch] /\ fetching'[t] = r
      /\ \A u \in Tasks \ {t} : fetching'[u] = fetching[u]
  BY <1>2, <1>3, <1>6 DEF ClientTypes
<1>10. ClientTypes'
  BY <1>1, <1>6, <1>7, <1>8, <1>9 DEF ClientTypes
<1>11. MemoryOk'
  <2>1. p \in Artifacts => <<p, file.edition>> \in stored'
    BY <1>1, <1>4 DEF Put, Artifacts, file
  <2>2. ASSUME NEW q \in Path, memory'[q] # NoFile
        PROVE  memory'[q].edition \in Edition /\ (q \in Artifacts => <<q, memory'[q].edition>> \in stored')
    <3>1. CASE q = p
      BY <3>1, <2>1, <1>4, <1>7
    <3>2. CASE q # p
      <4>1. memory'[q] = memory[q]
        BY <3>2, <1>7
      <4> QED BY <4>1, <2>2, <1>1, <1>6 DEF MemoryOk
    <3> QED BY <3>1, <3>2
  <2> QED BY <2>2 DEF MemoryOk
<1>12. FetchOk(t)'
  BY <1>3, <1>5, <1>7, <1>9 DEF FetchOk, PathOf, Critical
<1>13. ASSUME NEW u \in Tasks \ {t} PROVE FetchOk(u)'
  <2> DEFINE q == fetching[u].path
  <2>1. FetchOk(u) /\ fetching'[u] = fetching[u] /\ q \in Path
    BY <1>6, <1>9 DEF ClientTypes, Fetch
  <2>2. q = p => fetching[u].at \notin Critical
    BY <2>1, <1>4 DEF FetchOk, PathOf
  <2>3. q = p => fetching[u].at # "done"
    BY <2>1, <1>4 DEF FetchOk, PathOf
  <2>4. q # p => memory'[q] = memory[q] /\ holder'[q] = holder[q]
    BY <2>1, <1>7, <1>8
  <2>5. CASE q = p
    <3>1. fetching[u].at \notin Critical \cup {"done"}
      BY <2>5, <2>2, <2>3
    <3> QED BY <3>1, <2>1 DEF FetchOk, Critical
  <2>6. CASE q # p
    <3>1. memory'[q] = memory[q] /\ holder'[q] = holder[q]
      BY <2>4, <2>6
    <3> QED BY <3>1, <2>1 DEF FetchOk, PathOf, RepositoryOf
  <2> QED BY <2>5, <2>6
<1>14. MemoryKept
  BY <1>4, <1>7 DEF MemoryKept
<1> QED BY <1>2, <1>3, <1>10, <1>11, <1>12, <1>13, <1>14, PathStays DEF ClientInv

LEMMA FetchKeeps ==
  ASSUME ClientInv, NEW t \in Tasks, FetchStep(t)
  PROVE  ClientInv' /\ MemoryKept /\ PathsKept
BY LookupKeeps, EnterKeeps, ConsultKeeps, WriteKeeps, PlaceKeeps DEF FetchStep

LEMMA FailureKeeps ==
  ASSUME ClientInv, NEW t \in Tasks, FetchFails(t)
  PROVE  ClientInv' /\ MemoryKept /\ PathsKept
BY FailKeeps DEF FetchFails, Critical

\* Nothing of this process depends on what the repositories and their caches hold.
LEMMA ChangeKeeps ==
  ASSUME ClientInv, NEW r \in Repository, NEW p \in Path, Republish(r, p) \/ Neighbour(r, p)
  PROVE  ClientInv' /\ MemoryKept /\ PathsKept
<1>1. UNCHANGED <<stored, memory, holder, fetching>>
  BY DEF Republish, Neighbour
<1>2. ClientTypes
  BY DEF ClientInv
<1>3. ASSUME NEW f \in [Repository -> [Path -> Edition \cup {None}]],
             NEW e \in Edition \cup {None}
      PROVE  [f EXCEPT ![r][p] = e] \in [Repository -> [Path -> Edition \cup {None}]]
  <2>1. [f[r] EXCEPT ![p] = e] \in [Path -> Edition \cup {None}]
    OBVIOUS
  <2> QED BY <2>1
<1>4. /\ remote' \in [Repository -> [Path -> Edition \cup {None}]]
      /\ disk' \in [Repository -> [Path -> Edition \cup {None}]]
  <2>1. CASE Republish(r, p)
    <3>1. PICK e \in Edition : remote' = [remote EXCEPT ![r][p] = e]
      BY <2>1 DEF Republish
    <3>2. remote' \in [Repository -> [Path -> Edition \cup {None}]]
      BY <1>2, <1>3, <3>1 DEF ClientTypes
    <3>3. disk' = disk
      BY <2>1 DEF Republish
    <3> QED BY <1>2, <3>2, <3>3 DEF ClientTypes
  <2>2. CASE Neighbour(r, p)
    <3>1. remote[r][p] \in Edition \cup {None}
      BY <1>2 DEF ClientTypes
    <3>2. disk' = [disk EXCEPT ![r][p] = remote[r][p]] /\ remote' = remote
      BY <2>2 DEF Neighbour
    <3>3. disk' \in [Repository -> [Path -> Edition \cup {None}]]
      BY <1>2, <1>3, <3>1, <3>2 DEF ClientTypes
    <3> QED BY <1>2, <3>2, <3>3 DEF ClientTypes
  <2> QED BY <2>1, <2>2
<1>5. ClientTypes'
  BY <1>1, <1>2, <1>4 DEF ClientTypes
<1>6. MemoryOk' /\ \A t \in Tasks : FetchOk(t)'
  BY <1>1 DEF ClientInv, MemoryOk, FetchOk, PathOf, RepositoryOf
<1> QED BY <1>1, <1>5, <1>6 DEF ClientInv, MemoryKept, PathsKept

\* A task that owns no lock asks for another file.
LEMMA RequestKeeps ==
  ASSUME ClientInv, NEW t \in Tasks, Resting(t), NEW p \in Path,
         fetching' = Request(fetching, t, p), UNCHANGED <<remote, disk, stored, memory, holder>>
  PROVE  /\ ClientInv' /\ MemoryKept /\ PathOf(t)' = p
         /\ \A u \in Tasks \ {t} : fetching'[u] = fetching[u]
<1> DEFINE r == [at |-> "lookup", path |-> p, file |-> NoFile]
<1>1. r \in Fetch /\ r.at = "lookup" /\ r.path = p
  BY Constants DEF Fetch, Places
<1>2. fetching' = [fetching EXCEPT ![t] = r]
  BY DEF Request
<1> HIDE DEF r
<1>3. ClientInv' /\ MemoryKept
  BY <1>1, <1>2, OneMoves DEF ClientInv, ClientTypes, Critical
<1>4. fetching'[t] = r /\ \A u \in Tasks \ {t} : fetching'[u] = fetching[u]
  BY <1>2 DEF ClientInv, ClientTypes
<1> QED BY <1>1, <1>3, <1>4 DEF PathOf

----------------------------------------------------------------------------
(* What the operators of the walk return. *)

LEMMA ProjectType ==
  ASSUME project \in Projects
  PROVE  /\ project.modules \subseteq Module /\ project.local \subseteq Coordinate
         /\ \A m \in Module : /\ project.roots[m] \in Seq(Declaration)
                             /\ project.managed[m] \subseteq Declaration
         /\ \A c \in Coordinate, e \in Edition : Model(c, e) \in PomModel
         /\ project.remote \in [Repository -> [Path -> Edition \cup {None}]]
         /\ project.disk \in [Repository -> [Path -> Edition \cup {None}]]
BY SituationAssumption DEF Model

LEMMA ManagedType ==
  ASSUME project \in Projects, NEW m \in Module, NEW d \in Declaration
  PROVE  Managed(m, d) \in Declaration
<1> DEFINE here == {g \in project.managed[m] : g.to.name = d.to.name}
           g == CHOOSE g \in here : TRUE
           managed == [d EXCEPT !.to = g.to, !.exclusions = @ \cup g.exclusions,
                                !.scope = IF g.scope = "unstated" THEN @ ELSE g.scope]
<1>1. CASE here = {}
  BY <1>1 DEF Managed
<1>2. CASE here # {}
  <2>1. g \in Declaration
    BY <1>2, ProjectType
  <2>2. Managed(m, d) = managed
    BY <1>2 DEF Managed
  <2> HIDE DEF g
  <2>3. managed \in Declaration
    BY <2>1 DEF Declaration
  <2> QED BY <2>2, <2>3
<1> QED BY <1>1, <1>2

LEMMA DerivedType ==
  ASSUME NEW parent, NEW child
  PROVE  Derived(parent, child) \in Scopes
BY DEF Derived, Scopes, Scope

LEMMA CandidateType ==
  ASSUME NEW d \in Declaration, NEW scope \in Scopes, NEW active \in SUBSET Name,
         NEW parent \in Nat, NEW depth \in Nat
  PROVE  Candidate(d, scope, active, parent, depth) \in Candidates
BY DEF Candidate, Candidates, Declaration

LEMMA RootsType ==
  ASSUME project \in Projects, NEW m \in Module
  PROVE  RootCandidates(m) \in Seq(Candidates)
<1> DEFINE roots == project.roots[m]
<1>1. roots \in Seq(Declaration)
  BY ProjectType
<1>2. Len(roots) \in Nat /\ \A k \in 1..Len(roots) : roots[k] \in Declaration
  BY <1>1, LenProperties, ElementOfSeq
<1>3. ASSUME NEW d \in Declaration PROVE RootCandidate(d) \in Candidates
  <2>1. d.scope \in Scopes /\ d.exclusions \in SUBSET Name
    BY DEF Declaration, Scopes
  <2>2. Candidate(d, d.scope, {}, 0, 1) \in Candidates
    BY <2>1, CandidateType
  <2> QED BY <2>1, <2>2 DEF RootCandidate, Candidates
<1> HIDE DEF roots
<1>4. [k \in 1..Len(roots) |-> RootCandidate(roots[k])] \in Seq(Candidates)
  BY <1>2, <1>3
<1> QED BY <1>4 DEF RootCandidates, roots

LEMMA ChildrenType ==
  ASSUME project \in Projects, NEW m \in Module, NEW pom \in PomModel, NEW c \in Candidates,
         NEW parent \in Nat
  PROVE  Children(m, pom, c, parent) \in Seq(Candidates)
<1> DEFINE deps == pom.deps
           Child(d) == Candidate(Managed(m, d), Derived(c.scope, Managed(m, d).scope),
                                 c.below, parent, c.depth + 1)
           items == [k \in 1..Len(deps) |-> Child(deps[k])]
           kept == [k \in 1..Len(deps) |-> Followed(m, deps[k], c.scope)]
<1>1. deps \in Seq(Declaration)
  BY DEF PomModel
<1>2. Len(deps) \in Nat /\ \A k \in 1..Len(deps) : deps[k] \in Declaration
  BY <1>1, LenProperties, ElementOfSeq
<1>3. ASSUME NEW d \in Declaration PROVE Child(d) \in Candidates
  <2>1. c.below \in SUBSET Name /\ c.depth + 1 \in Nat
    BY DEF Candidates
  <2> QED BY <2>1, ManagedType, DerivedType, CandidateType
<1>4. Children(m, pom, c, parent) = KeptOf(items, kept)
  BY DEF Children
<1> HIDE DEF Child, kept, deps
<1>5. Len(items) = Len(deps) /\ \A k \in 1..Len(items) : items[k] \in Candidates
  BY <1>2, <1>3
<1> HIDE DEF items
<1> QED BY <1>2, <1>4, <1>5, KeptType

LEMMA WantedType ==
  ASSUME NEW q \in Seq(Candidates), NEW before
  PROVE  /\ Wanted(q, before) \in Seq(Coordinate)
         /\ ToSet(Wanted(q, before)) \in SUBSET Coordinate
<1> DEFINE here == {k \in 1..Len(q) : ~Excluded(q[k])}
           all == {q[k].to : k \in here}
           poms == all \ before
           n == Cardinality(poms)
           f == SetToSeq(poms)
<1>1. Len(q) \in Nat /\ \A k \in 1..Len(q) : q[k].to \in Coordinate
  <2>1. Len(q) \in Nat /\ \A k \in 1..Len(q) : q[k] \in Candidates
    BY LenProperties, ElementOfSeq
  <2> QED BY <2>1 DEF Candidates
<1>2. poms \subseteq Coordinate
  BY <1>1
<1>3. IsFiniteSet(poms)
  <2>1. IsFiniteSet(1..Len(q))
    BY <1>1, FS_Interval
  <2>2. IsFiniteSet(here)
    BY <2>1, FS_Subset
  <2>3. [k \in here |-> q[k].to] \in Surjection(here, all)
    BY DEF Surjection
  <2>4. IsFiniteSet(all)
    BY <2>2, <2>3, FS_Surjection
  <2> QED BY <2>4, FS_Subset
<1>4. Wanted(q, before) = f
  BY DEF Wanted
<1> HIDE DEF poms
<1>5. n \in Nat /\ f \in [1..n -> poms]
  BY <1>3, Enumerated
<1>6. f \in Seq(Coordinate) /\ ToSet(f) \in SUBSET Coordinate
  BY <1>2, <1>5 DEF ToSet
<1> QED BY <1>4, <1>6

\* The edge of a package changes no coordinate.
LEMMA AddEdgeType ==
  ASSUME NEW ps \in Seq(Selections), NEW parent, NEW child \in Coordinate
  PROVE  /\ AddEdge(ps, parent, child) \in Seq(Selections)
         /\ Len(AddEdge(ps, parent, child)) = Len(ps)
         /\ \A k \in 1..Len(ps) : AddEdge(ps, parent, child)[k].at = ps[k].at
<1> DEFINE new == [ps EXCEPT ![parent].edges = @ \cup {child}]
<1>1. Len(ps) \in Nat /\ ps \in [1..Len(ps) -> Selections]
  BY LenProperties
<1>2. ASSUME NEW x \in Selections
      PROVE  /\ [x EXCEPT !.edges = @ \cup {child}] \in Selections
             /\ [x EXCEPT !.edges = @ \cup {child}].at = x.at
  BY DEF Selections
<1>3. \A k \in 1..Len(ps) : new[k] \in Selections /\ new[k].at = ps[k].at
  BY <1>1, <1>2
<1>4. new \in [1..Len(ps) -> Selections]
  BY <1>1, <1>3
<1>5. new \in Seq(Selections) /\ Len(new) = Len(ps)
  BY <1>1, <1>4
<1> QED BY <1>3, <1>5 DEF AddEdge

LEMMA IndexType ==
  ASSUME NEW m \in Module, packages[m] \in Seq(Selections), NEW c
  PROVE  IndexOf(m, c) \in 0..Len(packages[m])
BY LenProperties DEF IndexOf

----------------------------------------------------------------------------
(* The invariant of the walks. *)

\* While a POM is loaded it is that of the first candidate.
Loading(m) ==
  walk[m] = "loading" =>
    /\ queue[m] # <<>> /\ ~Excluded(First(m)) /\ ~IsLocal(First(m).to)
    /\ PathOf(Walker(m)) = Pom(First(m).to)

\* The i-th task downloads the artifact of the i-th package, and the tasks of
\* packages to come have not begun.
Downloading(m) ==
  /\ \A i \in 1..MaxPackages : i > Len(packages[m]) => fetching[<<m, i>>].at = "idle"
  /\ walk[m] # "failed" =>
       \A i \in Downloads(m) : PathOf(<<m, i>>) = Jar(packages[m][i].at)

\* A package of a resolution that is done has the artifact that is remembered.
Joined(m) ==
  walk[m] = "done" => \A i \in Downloads(m) :
    /\ packages[m][i].path = Jar(packages[m][i].at)
    /\ packages[m][i].artifact = memory[Jar(packages[m][i].at)]
    /\ memory[Jar(packages[m][i].at)] # NoFile

WalkOk(m) == Loading(m) /\ Downloading(m) /\ Joined(m)

Inv == ClientInv /\ ResolverTypes /\ \A m \in Module : WalkOk(m)

\* What a step leaves alone when it is not one of module n.
Undisturbed(n) ==
  /\ queue'[n] = queue[n] /\ packages'[n] = packages[n] /\ walk'[n] = walk[n]
  /\ \A i \in 0..MaxPackages :
       /\ fetching'[<<n, i>>].path = fetching[<<n, i>>].path
       /\ fetching[<<n, i>>].at = "idle" => fetching'[<<n, i>>].at = "idle"

LEMMA ResolverFacts ==
  ASSUME ResolverTypes, NEW m \in Module
  PROVE  /\ project \in Projects /\ queue[m] \in Seq(Candidates)
         /\ packages[m] \in Seq(Selections) /\ Len(packages[m]) \in 0..MaxPackages
         /\ packages[m] \in [1..Len(packages[m]) -> Selections]
         /\ \A i \in 1..Len(packages[m]) : packages[m][i] \in Selections
                                         /\ packages[m][i].at \in Coordinate
         /\ \A i \in 0..MaxPackages : <<m, i>> \in Tasks
         /\ 0 \in 0..MaxPackages
         /\ queue[m] # <<>> => First(m) \in Candidates /\ Tail(queue[m]) \in Seq(Candidates)
<1>1. /\ project \in Projects /\ queue[m] \in Seq(Candidates)
      /\ packages[m] \in Seq(Selections) /\ Len(packages[m]) <= MaxPackages
  BY DEF ResolverTypes
<1>2. Len(packages[m]) \in Nat /\ packages[m] \in [1..Len(packages[m]) -> Selections]
  BY <1>1, LenProperties
<1>3. \A i \in 1..Len(packages[m]) : packages[m][i] \in Selections
                                   /\ packages[m][i].at \in Coordinate
  BY <1>2 DEF Selections
<1>4. queue[m] # <<>> => First(m) \in Candidates /\ Tail(queue[m]) \in Seq(Candidates)
  BY <1>1, HeadTailProperties DEF First
<1>5. \A i \in 0..MaxPackages : <<m, i>> \in Tasks
  BY DEF Tasks
<1>6. Len(packages[m]) \in 0..MaxPackages /\ 0 \in 0..MaxPackages
  BY <1>1, <1>2, SituationAssumption
<1> QED BY <1>1, <1>2, <1>3, <1>4, <1>5, <1>6

LEMMA WalkStays ==
  ASSUME Inv, NEW n \in Module, Undisturbed(n), MemoryKept, project' = project
  PROVE  WalkOk(n)'
<1> DEFINE len == Len(packages[n])
<1>1. /\ WalkOk(n) /\ len \in 0..MaxPackages
      /\ \A i \in 1..len : packages[n][i].at \in Coordinate
  BY ResolverFacts DEF Inv
<1>2. /\ queue'[n] = queue[n] /\ packages'[n] = packages[n] /\ walk'[n] = walk[n]
      /\ Downloads(n)' = Downloads(n) /\ Downloads(n) \subseteq 1..len
  BY DEF Undisturbed, Downloads, HasArtifact, IsLocal
<1>3. Loading(n)'
  <2>1. fetching'[<<n, 0>>].path = fetching[<<n, 0>>].path
    BY SituationAssumption DEF Undisturbed
  <2> QED BY <1>1, <1>2, <2>1 DEF WalkOk, Loading, First, Excluded, IsLocal, PathOf, Walker
<1>4. Downloading(n)'
  <2>1. \A i \in 1..MaxPackages :
          /\ fetching'[<<n, i>>].path = fetching[<<n, i>>].path
          /\ fetching[<<n, i>>].at = "idle" => fetching'[<<n, i>>].at = "idle"
    BY SituationAssumption DEF Undisturbed
  <2>2. \A i \in Downloads(n) : i \in 1..MaxPackages
    BY <1>1, <1>2, SituationAssumption
  <2> QED BY <1>1, <1>2, <2>1, <2>2 DEF WalkOk, Downloading, PathOf
<1>5. Joined(n)'
  <2> SUFFICES ASSUME walk[n] = "done", NEW i \in Downloads(n)
               PROVE  /\ packages[n][i].path = Jar(packages[n][i].at)
                      /\ packages[n][i].artifact = memory'[Jar(packages[n][i].at)]
                      /\ memory'[Jar(packages[n][i].at)] # NoFile
    BY <1>2 DEF Joined
  <2> DEFINE jar == Jar(packages[n][i].at)
  <2>1. /\ packages[n][i].path = jar /\ packages[n][i].artifact = memory[jar]
        /\ memory[jar] # NoFile
    BY <1>1 DEF WalkOk, Joined
  <2>2. jar \in Path
    BY <1>1, <1>2, Constants
  <2>3. memory'[jar] = memory[jar]
    BY <2>1, <2>2 DEF MemoryKept
  <2> QED BY <2>1, <2>3
<1> QED BY <1>3, <1>4, <1>5 DEF WalkOk

\* A fetch goes on: the walks see that paths stay, and that who is idle is.
LEMMA TasksStay ==
  ASSUME Inv, NEW t \in Tasks, FetchStep(t) \/ FetchFails(t), UNCHANGED resolverVars,
         project' = project
  PROVE  Inv' /\ MemoryKept
<1>1. ClientInv' /\ MemoryKept /\ PathsKept
  BY FetchKeeps, FailureKeeps DEF Inv
<1>2. fetching[t].at # "idle"
  BY DEF FetchStep, FetchFails, Lookup, Enter, Consult, Write, Place
<1>3. \A u \in Tasks \ {t} : fetching'[u] = fetching[u]
  <2>1. ClientTypes
    BY DEF Inv, ClientInv
  <2>2. CASE Lookup(t)
    BY <2>1, <2>2 DEF Lookup, Finish, Move, ClientTypes
  <2>3. CASE Enter(t)
    BY <2>1, <2>3 DEF Enter, Finish, ClientTypes
  <2>4. CASE Consult(t)
    BY <2>1, <2>4 DEF Consult, Advance, Fail, Move, ClientTypes
  <2>5. CASE Write(t)
    BY <2>1, <2>5 DEF Write, Move, ClientTypes
  <2>6. CASE Place(t)
    BY <2>1, <2>6 DEF Place, Move, ClientTypes
  <2>7. CASE FetchFails(t)
    BY <2>1, <2>7 DEF FetchFails, Fail, Move, ClientTypes
  <2> QED BY <2>2, <2>3, <2>4, <2>5, <2>6, <2>7 DEF FetchStep
<1>4. \A n \in Module : Undisturbed(n)
  BY <1>1, <1>2, <1>3 DEF Undisturbed, PathsKept, Tasks, resolverVars
<1>5. ResolverTypes'
  BY DEF Inv, ResolverTypes, resolverVars
<1>6. \A n \in Module : WalkOk(n)'
  BY <1>1, <1>4, WalkStays
<1> QED BY <1>1, <1>5, <1>6 DEF Inv

----------------------------------------------------------------------------
(* Steps of a walk. *)

LEMMA AgainKeeps ==
  ASSUME ResolverTypes, NEW m \in Module, NEW q \in Seq(Candidates), Continue(m, q) \/ Skip(m, q)
  PROVE  /\ queue' \in [Module -> Seq(Candidates)] /\ queue'[m] = q
         /\ todo' \in [Module -> Seq(Coordinate)] /\ asked' \in [Module -> SUBSET Coordinate]
         /\ walk' \in [Module -> {"walking", "loading", "joining", "done", "failed"}]
         /\ walk'[m] = "walking"
         /\ \A n \in Module \ {m} : queue'[n] = queue[n] /\ walk'[n] = walk[n]
<1>1. queue' = [queue EXCEPT ![m] = q] /\ walk' = [walk EXCEPT ![m] = "walking"]
  BY DEF Continue, Skip
<1>2. /\ queue' \in [Module -> Seq(Candidates)] /\ queue'[m] = q
      /\ \A n \in Module \ {m} : queue'[n] = queue[n]
  BY <1>1 DEF ResolverTypes
<1>3. /\ walk' \in [Module -> {"walking", "loading", "joining", "done", "failed"}]
      /\ walk'[m] = "walking" /\ \A n \in Module \ {m} : walk'[n] = walk[n]
  BY <1>1 DEF ResolverTypes
<1>4. todo' \in [Module -> Seq(Coordinate)] /\ asked' \in [Module -> SUBSET Coordinate]
  <2>1. CASE Skip(m, q)
    BY <2>1 DEF Skip, ResolverTypes
  <2>2. CASE Continue(m, q)
    <3> DEFINE w == Wanted(q, asked[m])
    <3>1. w \in Seq(Coordinate) /\ ToSet(w) \in SUBSET Coordinate
      BY WantedType
    <3>2. todo' = [todo EXCEPT ![m] = w] /\ asked' = [asked EXCEPT ![m] = @ \cup ToSet(w)]
      BY <2>2 DEF Continue
    <3> HIDE DEF w
    <3> QED BY <3>1, <3>2 DEF ResolverTypes
  <2> QED BY <2>1, <2>2
<1> QED BY <1>2, <1>3, <1>4

\* The packages that were there keep their coordinates; a task may begin.
LEMMA WalkOn ==
  ASSUME Inv, NEW m \in Module, walk[m] # "failed", walk'[m] = "walking", project' = project,
         Len(packages'[m]) = Len(packages[m]),
         \A i \in 1..Len(packages[m]) : packages'[m][i].at = packages[m][i].at,
         \A i \in 1..MaxPackages : fetching'[<<m, i>>] = fetching[<<m, i>>]
  PROVE  WalkOk(m)'
<1>1. WalkOk(m) /\ Len(packages[m]) \in 0..MaxPackages
  BY ResolverFacts DEF Inv
<1>2. Loading(m)' /\ Joined(m)'
  BY DEF Loading, Joined
<1>3. Downloads(m)' = Downloads(m)
  BY DEF Downloads, HasArtifact, IsLocal
<1>4. \A i \in Downloads(m) : i \in 1..Len(packages[m]) /\ i \in 1..MaxPackages
  BY <1>1, SituationAssumption DEF Downloads
<1>5. ASSUME NEW i \in Downloads(m)
      PROVE  fetching'[<<m, i>>].path = Jar(packages'[m][i].at)
  BY <1>1, <1>4 DEF WalkOk, Downloading, PathOf
<1>6. Downloading(m)'
  BY <1>1, <1>3, <1>5 DEF WalkOk, Downloading, PathOf
<1> QED BY <1>2, <1>6 DEF WalkOk

\* A module that is not m sees nothing of what m does.
Apart(m) ==
  \A n \in Module \ {m} :
    /\ queue'[n] = queue[n] /\ packages'[n] = packages[n] /\ walk'[n] = walk[n]
    /\ \A i \in 0..MaxPackages : fetching'[<<n, i>>] = fetching[<<n, i>>]

LEMMA OthersStay ==
  ASSUME Inv, NEW m \in Module, Apart(m), MemoryKept, project' = project
  PROVE  \A n \in Module \ {m} : WalkOk(n)'
BY WalkStays DEF Apart, Undisturbed

LEMMA RelocateKeeps ==
  ASSUME Inv, NEW m \in Module, queue[m] # <<>>, walk[m] # "failed", NEW pom \in PomModel,
         Relocate(m, First(m), pom),
         UNCHANGED <<project, offline, remote, disk, stored, memory, holder, mishaps>>
  PROVE  Inv' /\ MemoryKept
<1> DEFINE c == First(m)
           q == <<[c EXCEPT !.to = pom.moved]>> \o Tail(queue[m])
<1>1. c \in Candidates /\ Tail(queue[m]) \in Seq(Candidates) /\ ResolverTypes
  BY ResolverFacts DEF Inv
<1>2. pom.moved \in Coordinate
  BY DEF Relocate, MovedAway, PomModel
<1>3. [c EXCEPT !.to = pom.moved] \in Candidates
  BY <1>1, <1>2 DEF Candidates
<1>4. q \in Seq(Candidates)
  BY <1>1, <1>3, ConcatProperties
<1>5. Skip(m, q) /\ UNCHANGED <<packages, fetching>>
  BY DEF Relocate
<1> HIDE DEF q, c
<1>6. /\ queue' \in [Module -> Seq(Candidates)]
      /\ todo' \in [Module -> Seq(Coordinate)] /\ asked' \in [Module -> SUBSET Coordinate]
      /\ walk' \in [Module -> {"walking", "loading", "joining", "done", "failed"}]
      /\ walk'[m] = "walking"
      /\ \A n \in Module \ {m} : queue'[n] = queue[n] /\ walk'[n] = walk[n]
  BY <1>1, <1>4, <1>5, AgainKeeps
<1>7. ResolverTypes'
  BY <1>1, <1>5, <1>6 DEF ResolverTypes
<1>8. ClientInv' /\ MemoryKept
  BY <1>5 DEF Inv, ClientInv, ClientTypes, MemoryOk, FetchOk, PathOf, RepositoryOf, MemoryKept
<1>9. WalkOk(m)'
  BY <1>5, <1>6, WalkOn
<1>10. \A n \in Module \ {m} : WalkOk(n)'
  BY <1>5, <1>6, <1>8, OthersStay DEF Apart
<1> QED BY <1>7, <1>8, <1>9, <1>10 DEF Inv

LEMMA MergeKeeps ==
  ASSUME Inv, NEW m \in Module, queue[m] # <<>>, walk[m] # "failed", NEW pom,
         Merge(m, First(m), pom),
         UNCHANGED <<project, offline, remote, disk, stored, memory, holder, mishaps>>
  PROVE  Inv' /\ MemoryKept
<1> DEFINE c == First(m)
           i == IndexOf(m, c)
           ps == packages[m]
           edged == AddEdge(ps, c.parent, ps[i].at)
           expanded == SelectedPom(m, c)
           wider == [edged EXCEPT ![i].scopes = @ \cup {c.scope}]
           longer == Enqueue(Tail(queue[m]), Children(m, expanded, c, i))
<1>1. /\ c \in Candidates /\ Tail(queue[m]) \in Seq(Candidates) /\ ResolverTypes
      /\ ps \in Seq(Selections) /\ Len(ps) \in 0..MaxPackages /\ project \in Projects
      /\ \A k \in 1..Len(ps) : ps[k] \in Selections /\ ps[k].at \in Coordinate
  BY ResolverFacts DEF Inv
<1>2. i \in 1..Len(ps)
  <2>1. i \in 0..Len(ps) /\ i # 0
    BY <1>1, IndexType DEF Merge, MergeWith
  <2> HIDE DEF i, ps
  <2> QED BY <1>1, <2>1
<1>3. expanded \in PomModel
  <2>1. ps[i] \in Selections
    BY <1>1, <1>2
  <2>2. ps[i].at \in Coordinate /\ ps[i].pom.edition \in Edition
    BY <2>1 DEF Selections, Known
  <2>3. expanded = Model(ps[i].at, ps[i].pom.edition)
    BY DEF SelectedPom
  <2> QED BY <1>1, <2>2, <2>3, ProjectType
<1>4. /\ edged \in Seq(Selections) /\ Len(edged) = Len(ps)
      /\ \A k \in 1..Len(ps) : edged[k].at = ps[k].at
  BY <1>1, <1>2, AddEdgeType
<1>5. /\ wider \in Seq(Selections) /\ Len(wider) = Len(ps)
      /\ \A k \in 1..Len(ps) : wider[k].at = ps[k].at
  <2> DEFINE x == [edged[i] EXCEPT !.scopes = @ \cup {c.scope}]
  <2>1. edged[i] \in Selections
    BY <1>2, <1>4, ElementOfSeq
  <2>2. c.scope \in Scopes
    BY <1>1 DEF Candidates
  <2>3. x \in Selections /\ x.at = edged[i].at
    BY <2>1, <2>2 DEF Selections
  <2>4. wider = [edged EXCEPT ![i] = x]
    OBVIOUS
  <2> HIDE DEF wider, edged, x, i, ps, c
  <2> QED BY <1>2, <1>4, <2>3, <2>4, ExceptSeq
<1>6. longer \in Seq(Candidates)
  <2>1. i \in Nat
    BY <1>2
  <2>2. Children(m, expanded, c, i) \in Seq(Candidates)
    BY <1>1, <1>3, <2>1, ChildrenType
  <2> QED BY <1>1, <2>2, ConcatProperties DEF Enqueue
<1>7. /\ \/ packages' = [packages EXCEPT ![m] = edged] /\ Skip(m, Tail(queue[m]))
         \/ packages' = [packages EXCEPT ![m] = wider] /\ Continue(m, longer)
      /\ UNCHANGED fetching
  BY DEF Merge, MergeWith
<1> HIDE DEF edged, wider, longer, expanded, i, c
<1>8. \E new \in Seq(Selections), q \in Seq(Candidates) :
        /\ Len(new) = Len(ps) /\ \A k \in 1..Len(ps) : new[k].at = ps[k].at
        /\ packages' = [packages EXCEPT ![m] = new] /\ (Continue(m, q) \/ Skip(m, q))
  BY <1>1, <1>4, <1>5, <1>6, <1>7
<1>9. PICK new \in Seq(Selections), q \in Seq(Candidates) :
        /\ Len(new) = Len(ps) /\ \A k \in 1..Len(ps) : new[k].at = ps[k].at
        /\ packages' = [packages EXCEPT ![m] = new] /\ (Continue(m, q) \/ Skip(m, q))
  BY <1>8
<1>10. /\ queue' \in [Module -> Seq(Candidates)]
       /\ todo' \in [Module -> Seq(Coordinate)] /\ asked' \in [Module -> SUBSET Coordinate]
       /\ walk' \in [Module -> {"walking", "loading", "joining", "done", "failed"}]
       /\ walk'[m] = "walking"
       /\ \A n \in Module \ {m} : queue'[n] = queue[n] /\ walk'[n] = walk[n]
  BY <1>1, <1>9, AgainKeeps
<1>11. /\ packages' \in [Module -> Seq(Selections)] /\ packages'[m] = new
       /\ \A n \in Module \ {m} : packages'[n] = packages[n]
  BY <1>1, <1>9 DEF ResolverTypes
<1>12. \A n \in Module : Len(packages'[n]) <= MaxPackages
  BY <1>1, <1>9, <1>11 DEF ResolverTypes
<1>13. ResolverTypes'
  BY <1>1, <1>10, <1>11, <1>12 DEF ResolverTypes
<1>14. ClientInv' /\ MemoryKept
  BY <1>7 DEF Inv, ClientInv, ClientTypes, MemoryOk, FetchOk, PathOf, RepositoryOf, MemoryKept
<1>15. WalkOk(m)'
  BY <1>7, <1>9, <1>10, <1>11, WalkOn
<1>16. \A n \in Module \ {m} : WalkOk(n)'
  BY <1>7, <1>10, <1>11, <1>14, OthersStay DEF Apart
<1> QED BY <1>13, <1>14, <1>15, <1>16 DEF Inv

\* The download of a package begins with the package: its task was idle.
LEMMA SelectKeeps ==
  ASSUME Inv, NEW m \in Module, queue[m] # <<>>, walk[m] # "failed", NEW pom \in PomModel,
         NEW file \in Known, Select(m, First(m), pom, file),
         UNCHANGED <<project, offline, remote, disk, stored, memory, holder, mishaps>>
  PROVE  Inv' /\ MemoryKept
<1> DEFINE c == First(m)
           ps == packages[m]
           i == Len(ps) + 1
           new == [at |-> c.to, pom |-> file, scopes |-> {c.scope}, parent |-> c.parent,
                   depth |-> c.depth, edges |-> {}, artifact |-> NoFile, path |-> Pom(c.to)]
           more == Append(ps, new)
           edged == AddEdge(more, c.parent, c.to)
           q == Enqueue(Tail(queue[m]), Children(m, pom, c, i))
<1>1. /\ c \in Candidates /\ Tail(queue[m]) \in Seq(Candidates) /\ ResolverTypes
      /\ ps \in Seq(Selections) /\ Len(ps) \in 0..MaxPackages /\ project \in Projects
      /\ WalkOk(m) /\ ClientInv
  BY ResolverFacts DEF Inv
<1>2. /\ i <= MaxPackages
      /\ packages' = [packages EXCEPT ![m] = edged]
      /\ fetching' = IF HasArtifact(c.to) THEN Request(fetching, <<m, i>>, Jar(c.to))
                                          ELSE fetching
      /\ Continue(m, q)
  BY DEF Select
<1>3. i \in 1..MaxPackages /\ i \in Nat /\ i = Len(ps) + 1
  BY <1>1, <1>2, SituationAssumption
<1>4. c.to \in Coordinate
  BY <1>1 DEF Candidates
<1>5. new \in Selections /\ new.at = c.to
  BY <1>1, <1>4, Constants DEF Selections, Candidates
<1> HIDE DEF new, i, c, ps
<1>6. /\ more \in Seq(Selections) /\ Len(more) = i /\ more[i].at = c.to
      /\ \A k \in 1..Len(ps) : more[k] = ps[k]
  BY <1>1, <1>3, <1>5, AppendProperties
<1> HIDE DEF more
<1>7. /\ edged \in Seq(Selections) /\ Len(edged) = i
      /\ \A k \in 1..i : edged[k].at = more[k].at
  BY <1>4, <1>6, AddEdgeType
<1>8. q \in Seq(Candidates)
  <2>1. Children(m, pom, c, i) \in Seq(Candidates)
    BY <1>1, <1>3, ChildrenType
  <2> QED BY <1>1, <2>1, ConcatProperties DEF Enqueue
<1> HIDE DEF edged, q
<1>9. /\ queue' \in [Module -> Seq(Candidates)]
      /\ todo' \in [Module -> Seq(Coordinate)] /\ asked' \in [Module -> SUBSET Coordinate]
      /\ walk' \in [Module -> {"walking", "loading", "joining", "done", "failed"}]
      /\ walk'[m] = "walking"
      /\ \A n \in Module \ {m} : queue'[n] = queue[n] /\ walk'[n] = walk[n]
  BY <1>1, <1>2, <1>8, AgainKeeps
<1>10. /\ packages' \in [Module -> Seq(Selections)] /\ packages'[m] = edged
       /\ \A n \in Module \ {m} : packages'[n] = packages[n]
  BY <1>1, <1>2, <1>7 DEF ResolverTypes
<1>11. \A n \in Module : Len(packages'[n]) <= MaxPackages
  <2>1. Len(packages'[m]) <= MaxPackages
    BY <1>3, <1>7, <1>10, SituationAssumption
  <2>2. \A n \in Module : Len(packages[n]) <= MaxPackages
    BY <1>1 DEF ResolverTypes
  <2> QED BY <1>10, <2>1, <2>2
<1>12. ResolverTypes'
  BY <1>1, <1>9, <1>10, <1>11 DEF ResolverTypes
<1>13. <<m, i>> \in Tasks /\ fetching[<<m, i>>].at = "idle"
  <2>1. i > Len(ps)
    BY <1>1, <1>3
  <2> QED BY <1>1, <1>3, <2>1, ResolverFacts, SituationAssumption DEF WalkOk, Downloading, ps
<1>14. /\ ClientInv' /\ MemoryKept
       /\ HasArtifact(c.to) => fetching'[<<m, i>>].path = Jar(c.to)
       /\ \A u \in Tasks \ {<<m, i>>} : fetching'[u] = fetching[u]
  <2>1. CASE HasArtifact(c.to)
    <3>1. Resting(<<m, i>>)
      BY <1>13 DEF Resting, Running, Critical
    <3>2. Jar(c.to) \in Path
      BY <1>4, Constants
    <3>3. fetching' = Request(fetching, <<m, i>>, Jar(c.to))
      BY <1>2, <2>1
    <3> QED BY <1>1, <1>13, <3>1, <3>2, <3>3, RequestKeeps DEF PathOf
  <2>2. CASE ~HasArtifact(c.to)
    <3>1. fetching' = fetching
      BY <1>2, <2>2
    <3> QED BY <1>1, <2>2, <3>1
            DEF ClientInv, ClientTypes, MemoryOk, FetchOk, PathOf, RepositoryOf, MemoryKept
  <2> QED BY <2>1, <2>2
<1>15. \A k \in 1..MaxPackages : k # i => fetching'[<<m, k>>] = fetching[<<m, k>>]
  <2>1. \A k \in 1..MaxPackages : k # i => <<m, k>> \in Tasks \ {<<m, i>>}
    BY SituationAssumption DEF Tasks
  <2> QED BY <1>14, <2>1
<1>16. WalkOk(m)'
  <2>1. Loading(m)' /\ Joined(m)'
    BY <1>9 DEF Loading, Joined
  <2>2. ASSUME NEW k \in 1..MaxPackages, k > i
        PROVE  fetching'[<<m, k>>].at = "idle"
    <3>1. k # i /\ k > Len(ps)
      BY <1>1, <1>3, <2>2
    <3>2. fetching[<<m, k>>].at = "idle"
      BY <1>1, <3>1 DEF WalkOk, Downloading, ps
    <3> QED BY <1>15, <3>1, <3>2
  <2>3. ASSUME NEW k \in Downloads(m)'
        PROVE  fetching'[<<m, k>>].path = Jar(packages'[m][k].at)
    <3>1. k \in 1..i /\ HasArtifact(edged[k].at) /\ packages'[m][k].at = more[k].at
      BY <1>7, <1>10 DEF Downloads, HasArtifact, IsLocal
    <3>2. CASE k = i
      BY <1>3, <1>6, <1>7, <1>14, <3>1, <3>2
    <3>3. CASE k # i
      <4>1. k \in 1..Len(ps) /\ k \in 1..MaxPackages /\ more[k] = ps[k]
        <5>1. Len(ps) \in Nat /\ Len(ps) <= MaxPackages /\ MaxPackages \in Nat
          BY <1>1, SituationAssumption
        <5>2. k \in 1..Len(ps) /\ k \in 1..MaxPackages
          BY <1>3, <3>1, <3>3, <5>1
        <5> QED BY <1>6, <5>2
      <4>2. k \in Downloads(m)
        BY <1>7, <3>1, <4>1 DEF Downloads, ps
      <4>3. fetching[<<m, k>>].path = Jar(ps[k].at)
        BY <1>1, <4>2 DEF WalkOk, Downloading, PathOf, ps
      <4> QED BY <1>15, <3>1, <3>3, <4>1, <4>3
    <3> QED BY <3>2, <3>3
  <2>4. Downloading(m)'
    BY <1>7, <1>10, <2>2, <2>3 DEF Downloading, PathOf
  <2> QED BY <2>1, <2>4 DEF WalkOk
<1>17. Apart(m)
  <2>1. \A n \in Module \ {m}, k \in 0..MaxPackages : <<n, k>> \in Tasks \ {<<m, i>>}
    BY DEF Tasks
  <2> QED BY <1>9, <1>10, <1>14, <2>1 DEF Apart
<1>18. \A n \in Module \ {m} : WalkOk(n)'
  BY <1>14, <1>17, OthersStay
<1> QED BY <1>12, <1>14, <1>16, <1>18 DEF Inv

LEMMA VisitKeeps ==
  ASSUME Inv, NEW m \in Module, queue[m] # <<>>, walk[m] # "failed", NEW pom \in PomModel,
         NEW file \in Known, Visit(m, First(m), pom, file)
  PROVE  Inv' /\ MemoryKept
<1>1. UNCHANGED <<project, offline, remote, disk, stored, memory, holder, mishaps>>
  BY DEF Visit
<1>2. Relocate(m, First(m), pom) \/ Merge(m, First(m), pom) \/ Select(m, First(m), pom, file)
  BY DEF Visit
<1> QED BY <1>1, <1>2, RelocateKeeps, MergeKeeps, SelectKeeps

\* The client is at rest when a walk goes on without it.
LEMMA ClientRests ==
  ASSUME ClientInv, UNCHANGED clientVars
  PROVE  ClientInv' /\ MemoryKept
BY DEF clientVars, ClientInv, ClientTypes, MemoryOk, FetchOk, PathOf, RepositoryOf, MemoryKept

LEMMA PrefetchKeeps ==
  ASSUME Inv, NEW m \in Module, Prefetch(m)
  PROVE  Inv' /\ MemoryKept
<1>1. /\ walk[m] = "walking" /\ todo[m] # <<>> /\ Resting(Walker(m))
      /\ todo' = [todo EXCEPT ![m] = Tail(@)]
      /\ fetching' = Request(fetching, Walker(m), Pom(Head(todo[m])))
      /\ UNCHANGED <<project, walk, queue, packages, asked, remote, disk, stored, memory, holder>>
  BY DEF Prefetch
<1>2. ResolverTypes /\ ClientInv
  BY DEF Inv
<1>3. Head(todo[m]) \in Coordinate /\ Tail(todo[m]) \in Seq(Coordinate)
  BY <1>1, <1>2, HeadTailProperties DEF ResolverTypes
<1>4. Walker(m) \in Tasks /\ Pom(Head(todo[m])) \in Path
  BY <1>2, <1>3, ResolverFacts, Constants DEF Walker
<1>5. /\ ClientInv' /\ MemoryKept
      /\ \A u \in Tasks \ {Walker(m)} : fetching'[u] = fetching[u]
  BY <1>1, <1>2, <1>4, RequestKeeps
<1>6. ResolverTypes'
  BY <1>1, <1>2, <1>3 DEF ResolverTypes
<1>7. \A n \in Module, k \in 0..MaxPackages :
        n # m \/ k # 0 => fetching'[<<n, k>>] = fetching[<<n, k>>]
  BY <1>5 DEF Walker, Tasks
<1>8. WalkOk(m)'
  <2>1. walk[m] # "failed" /\ walk'[m] = "walking"
    BY <1>1
  <2>2. \A i \in 1..MaxPackages : fetching'[<<m, i>>] = fetching[<<m, i>>]
    BY <1>7, SituationAssumption
  <2> QED BY <1>1, <2>1, <2>2, WalkOn
<1>9. \A n \in Module \ {m} : WalkOk(n)'
  BY <1>1, <1>5, <1>7, OthersStay DEF Apart
<1> QED BY <1>5, <1>6, <1>8, <1>9 DEF Inv

LEMMA DropExcludedKeeps ==
  ASSUME Inv, NEW m \in Module, DropExcluded(m)
  PROVE  Inv' /\ MemoryKept
<1>1. /\ walk[m] = "walking" /\ queue[m] # <<>> /\ Skip(m, Tail(queue[m]))
      /\ UNCHANGED <<project, packages>> /\ UNCHANGED clientVars
  BY DEF DropExcluded, Ready
<1>2. ResolverTypes /\ ClientInv /\ Tail(queue[m]) \in Seq(Candidates)
  BY <1>1, ResolverFacts DEF Inv
<1>3. /\ queue' \in [Module -> Seq(Candidates)]
      /\ todo' \in [Module -> Seq(Coordinate)] /\ asked' \in [Module -> SUBSET Coordinate]
      /\ walk' \in [Module -> {"walking", "loading", "joining", "done", "failed"}]
      /\ walk'[m] = "walking"
      /\ \A n \in Module \ {m} : queue'[n] = queue[n] /\ walk'[n] = walk[n]
  BY <1>1, <1>2, AgainKeeps
<1>4. ResolverTypes'
  BY <1>1, <1>2, <1>3 DEF ResolverTypes
<1>5. ClientInv' /\ MemoryKept
  BY <1>1, <1>2, ClientRests
<1>6. fetching' = fetching
  BY <1>1 DEF clientVars
<1>7. WalkOk(m)'
  BY <1>1, <1>3, <1>6, WalkOn
<1>8. \A n \in Module \ {m} : WalkOk(n)'
  BY <1>1, <1>3, <1>5, <1>6, OthersStay DEF Apart
<1> QED BY <1>4, <1>5, <1>7, <1>8 DEF Inv

LEMMA VisitLocalKeeps ==
  ASSUME Inv, NEW m \in Module, VisitLocal(m)
  PROVE  Inv' /\ MemoryKept
<1> DEFINE pom == Model(First(m).to, 1)
<1>1. /\ walk[m] = "walking" /\ queue[m] # <<>> /\ Visit(m, First(m), pom, LocalFile)
  BY DEF VisitLocal, Ready
<1>2. First(m).to \in Coordinate /\ project \in Projects
  BY <1>1, ResolverFacts DEF Inv, Candidates
<1>3. 1 \in Edition /\ LocalFile \in Known
  BY DEF Edition, LocalFile, Known
<1>4. pom \in PomModel
  BY <1>2, <1>3, ProjectType
<1> HIDE DEF pom
<1> QED BY <1>1, <1>3, <1>4, VisitKeeps

\* What a walk has loaded is an edition, whoever fetched it.
LEMMA LoadedFile ==
  ASSUME Inv, NEW m \in Module, walk[m] = "loading", fetching[Walker(m)].at = "done"
  PROVE  /\ queue[m] # <<>> /\ ~Excluded(First(m)) /\ ~IsLocal(First(m).to)
         /\ First(m).to \in Coordinate /\ Pom(First(m).to) \in Path
         /\ fetching[Walker(m)].file = memory[Pom(First(m).to)]
         /\ memory[Pom(First(m).to)] # NoFile
         /\ fetching[Walker(m)].file \in Known
         /\ Model(First(m).to, fetching[Walker(m)].file.edition) \in PomModel
<1> DEFINE c == First(m)
           file == fetching[Walker(m)].file
<1>1. /\ queue[m] # <<>> /\ ~Excluded(c) /\ ~IsLocal(c.to) /\ PathOf(Walker(m)) = Pom(c.to)
  BY DEF Inv, WalkOk, Loading
<1>2. c \in Candidates /\ project \in Projects /\ Walker(m) \in Tasks
  BY <1>1, ResolverFacts DEF Inv, Walker
<1>3. c.to \in Coordinate
  BY <1>2 DEF Candidates
<1>4. file = memory[Pom(c.to)] /\ memory[Pom(c.to)] # NoFile
  BY <1>1, <1>2 DEF Inv, ClientInv, FetchOk
<1>5. Pom(c.to) \in Path
  BY <1>3, Constants
<1>6. file \in File /\ file.edition \in Edition
  BY <1>4, <1>5 DEF Inv, ClientInv, ClientTypes, MemoryOk
<1>7. file \in Known
  BY <1>6 DEF File, Known
<1>8. Model(c.to, file.edition) \in PomModel
  BY <1>2, <1>3, <1>6, ProjectType
<1> QED BY <1>1, <1>3, <1>4, <1>5, <1>7, <1>8

LEMMA VisitLoadedKeeps ==
  ASSUME Inv, NEW m \in Module, VisitLoaded(m)
  PROVE  Inv' /\ MemoryKept
<1> DEFINE file == fetching[Walker(m)].file
           pom == Model(First(m).to, file.edition)
<1>1. /\ walk[m] = "loading" /\ fetching[Walker(m)].at = "done"
      /\ Visit(m, First(m), pom, file)
  BY DEF VisitLoaded
<1>2. queue[m] # <<>> /\ file \in Known /\ pom \in PomModel
  BY <1>1, LoadedFile
<1> HIDE DEF pom, file
<1> QED BY <1>1, <1>2, VisitKeeps

LEMMA LoadKeeps ==
  ASSUME Inv, NEW m \in Module, Load(m)
  PROVE  Inv' /\ MemoryKept
<1>1. /\ walk[m] = "walking" /\ queue[m] # <<>> /\ Resting(Walker(m))
      /\ ~Excluded(First(m)) /\ ~IsLocal(First(m).to)
      /\ walk' = [walk EXCEPT ![m] = "loading"]
      /\ fetching' = Request(fetching, Walker(m), Pom(First(m).to))
      /\ UNCHANGED <<project, queue, packages, asked, todo, remote, disk, stored, memory, holder>>
  BY DEF Load, Ready
<1>2. /\ ResolverTypes /\ ClientInv /\ First(m).to \in Coordinate /\ Walker(m) \in Tasks
      /\ Len(packages[m]) \in 0..MaxPackages /\ WalkOk(m)
  BY <1>1, ResolverFacts DEF Inv, Candidates, Walker
<1>3. Pom(First(m).to) \in Path
  BY <1>2, Constants
<1>4. /\ ClientInv' /\ MemoryKept /\ PathOf(Walker(m))' = Pom(First(m).to)
      /\ \A u \in Tasks \ {Walker(m)} : fetching'[u] = fetching[u]
  BY <1>1, <1>2, <1>3, RequestKeeps
<1>5. /\ walk' \in [Module -> {"walking", "loading", "joining", "done", "failed"}]
      /\ walk'[m] = "loading" /\ \A n \in Module \ {m} : walk'[n] = walk[n]
  BY <1>1, <1>2 DEF ResolverTypes
<1>6. ResolverTypes'
  BY <1>1, <1>2, <1>5 DEF ResolverTypes
<1>7. \A n \in Module, k \in 0..MaxPackages :
        n # m \/ k # 0 => fetching'[<<n, k>>] = fetching[<<n, k>>]
  BY <1>4 DEF Walker, Tasks
<1>8. WalkOk(m)'
  <2>1. Loading(m)'
    BY <1>1, <1>4, <1>5 DEF Loading, First, Excluded, IsLocal, Walker
  <2>2. \A i \in 1..MaxPackages : fetching'[<<m, i>>] = fetching[<<m, i>>]
    BY <1>7, SituationAssumption
  <2>3. Downloads(m)' = Downloads(m) /\ \A i \in Downloads(m) : i \in 1..MaxPackages
    BY <1>1, <1>2, SituationAssumption DEF Downloads, HasArtifact, IsLocal
  <2>4. Downloading(m)'
    BY <1>1, <1>2, <2>2, <2>3 DEF WalkOk, Downloading, PathOf
  <2>5. Joined(m)'
    BY <1>5 DEF Joined
  <2> QED BY <2>1, <2>4, <2>5 DEF WalkOk
<1>9. \A n \in Module \ {m} : WalkOk(n)'
  BY <1>1, <1>4, <1>5, <1>7, OthersStay DEF Apart
<1> QED BY <1>4, <1>6, <1>8, <1>9 DEF Inv

LEMMA AwaitKeeps ==
  ASSUME Inv, NEW m \in Module, AwaitArtifacts(m)
  PROVE  Inv' /\ MemoryKept
<1>1. /\ walk[m] = "walking" /\ walk' = [walk EXCEPT ![m] = "joining"]
      /\ UNCHANGED <<project, queue, packages, asked, todo>> /\ UNCHANGED clientVars
      /\ fetching' = fetching
  BY DEF AwaitArtifacts, Ready, clientVars
<1>2. ResolverTypes /\ ClientInv /\ WalkOk(m)
  BY DEF Inv
<1>3. /\ walk' \in [Module -> {"walking", "loading", "joining", "done", "failed"}]
      /\ walk'[m] = "joining" /\ \A n \in Module \ {m} : walk'[n] = walk[n]
  BY <1>1, <1>2 DEF ResolverTypes
<1>4. ResolverTypes'
  BY <1>1, <1>2, <1>3 DEF ResolverTypes
<1>5. ClientInv' /\ MemoryKept
  BY <1>1, <1>2, ClientRests
<1>6. WalkOk(m)'
  BY <1>1, <1>2, <1>3
     DEF WalkOk, Loading, Downloading, Joined, Downloads, HasArtifact, IsLocal, PathOf
<1>7. \A n \in Module \ {m} : WalkOk(n)'
  BY <1>1, <1>3, <1>5, OthersStay DEF Apart
<1> QED BY <1>4, <1>5, <1>6, <1>7 DEF Inv

\* What has arrived for a package is the file of its own artifact.
LEMMA ArrivedFiles ==
  ASSUME Inv, NEW m \in Module, walk[m] = "joining",
         \A i \in Downloads(m) : fetching[<<m, i>>].at = "done"
  PROVE  /\ Arrived(m) \in Seq(Selections) /\ Len(Arrived(m)) = Len(packages[m])
         /\ \A i \in 1..Len(packages[m]) : Arrived(m)[i].at = packages[m][i].at
         /\ \A i \in 1..Len(packages[m]) : i \notin Downloads(m) =>
              Arrived(m)[i] = packages[m][i]
         /\ \A i \in Downloads(m) :
              /\ i \in 1..Len(packages[m]) /\ Jar(packages[m][i].at) \in Path
              /\ memory[Jar(packages[m][i].at)] # NoFile
              /\ Arrived(m)[i] = [packages[m][i] EXCEPT
                    !.artifact = memory[Jar(packages[m][i].at)],
                    !.path = Jar(packages[m][i].at)]
<1> DEFINE ps == packages[m]
           jar(i) == Jar(ps[i].at)
           with(i) == [ps[i] EXCEPT !.artifact = memory[jar(i)], !.path = jar(i)]
<1>1. /\ Len(ps) \in 0..MaxPackages /\ Len(ps) \in Nat /\ WalkOk(m) /\ ClientInv
      /\ \A i \in 1..Len(ps) : ps[i] \in Selections /\ ps[i].at \in Coordinate
  BY ResolverFacts, SituationAssumption DEF Inv
<1>2. ASSUME NEW i \in Downloads(m)
      PROVE  /\ i \in 1..Len(ps) /\ jar(i) \in Path /\ memory[jar(i)] # NoFile
             /\ memory[jar(i)] \in File /\ Arrived(m)[i] = with(i)
             /\ with(i) \in Selections /\ with(i).at = ps[i].at
  <2>1. i \in 1..Len(ps) /\ <<m, i>> \in Tasks /\ jar(i) \in Path
    BY <1>1, Constants, SituationAssumption DEF Downloads, Tasks
  <2>2. fetching[<<m, i>>].path = jar(i)
    BY <1>1 DEF WalkOk, Downloading, PathOf
  <2>3. fetching[<<m, i>>].file = memory[jar(i)] /\ memory[jar(i)] # NoFile
    BY <1>1, <2>1, <2>2 DEF ClientInv, FetchOk, PathOf
  <2>4. memory[jar(i)] \in File
    BY <1>1, <2>1 DEF ClientInv, ClientTypes
  <2>5. Arrived(m)[i] = with(i)
    BY <2>1, <2>2, <2>3 DEF Arrived, PathOf
  <2>6. ps[i] \in Selections
    BY <1>1, <2>1
  <2>7. with(i) \in Selections /\ with(i).at = ps[i].at
    BY <2>1, <2>4, <2>6 DEF Selections
  <2> QED BY <2>1, <2>3, <2>4, <2>5, <2>7
<1>3. ASSUME NEW i \in 1..Len(ps), i \notin Downloads(m) PROVE Arrived(m)[i] = ps[i]
  BY <1>3 DEF Arrived
<1> HIDE DEF with, jar
<1>4. DOMAIN Arrived(m) = 1..Len(ps) /\ Arrived(m) = [i \in 1..Len(ps) |-> Arrived(m)[i]]
  BY DEF Arrived
<1> HIDE DEF ps
<1>5. \A i \in 1..Len(ps) : Arrived(m)[i] \in Selections /\ Arrived(m)[i].at = ps[i].at
  BY <1>1, <1>2, <1>3
<1>6. Arrived(m) \in [1..Len(ps) -> Selections]
  BY <1>4, <1>5
<1>7. Arrived(m) \in Seq(Selections) /\ Len(Arrived(m)) = Len(ps)
  BY <1>1, <1>6
<1> QED BY <1>2, <1>3, <1>5, <1>7 DEF with, jar, ps

LEMMA FinishKeeps ==
  ASSUME Inv, NEW m \in Module, FinishArtifacts(m)
  PROVE  Inv' /\ MemoryKept
<1>1. /\ walk[m] = "joining" /\ packages' = [packages EXCEPT ![m] = Arrived(m)]
      /\ \A i \in Downloads(m) : fetching[<<m, i>>].at = "done"
      /\ walk' = [walk EXCEPT ![m] = "done"]
      /\ UNCHANGED <<project, queue, asked, todo>> /\ UNCHANGED clientVars
      /\ fetching' = fetching
  BY DEF FinishArtifacts, clientVars
<1>2. ResolverTypes /\ ClientInv /\ WalkOk(m) /\ Len(packages[m]) \in 0..MaxPackages
  BY ResolverFacts DEF Inv
<1>3. /\ Arrived(m) \in Seq(Selections) /\ Len(Arrived(m)) = Len(packages[m])
      /\ \A i \in 1..Len(packages[m]) : Arrived(m)[i].at = packages[m][i].at
  BY <1>1, ArrivedFiles
<1>4. /\ walk' \in [Module -> {"walking", "loading", "joining", "done", "failed"}]
      /\ walk'[m] = "done" /\ \A n \in Module \ {m} : walk'[n] = walk[n]
  BY <1>1, <1>2 DEF ResolverTypes
<1>5. /\ packages' \in [Module -> Seq(Selections)] /\ packages'[m] = Arrived(m)
      /\ \A n \in Module \ {m} : packages'[n] = packages[n]
  BY <1>1, <1>2, <1>3 DEF ResolverTypes
<1>6. \A n \in Module : Len(packages'[n]) <= MaxPackages
  BY <1>2, <1>3, <1>5 DEF ResolverTypes
<1>7. ResolverTypes'
  BY <1>1, <1>2, <1>4, <1>5, <1>6 DEF ResolverTypes
<1>8. ClientInv' /\ MemoryKept
  BY <1>1, <1>2, ClientRests
<1>9. Downloads(m)' = Downloads(m) /\ Downloads(m) \subseteq 1..Len(packages[m])
  BY <1>1, <1>3, <1>5 DEF Downloads, HasArtifact, IsLocal
<1>10. Loading(m)'
  BY <1>4 DEF Loading
<1>11. Downloading(m)'
  BY <1>1, <1>2, <1>3, <1>5, <1>9 DEF WalkOk, Downloading, PathOf
<1>12. Joined(m)'
  <2> SUFFICES ASSUME NEW i \in Downloads(m)
               PROVE  LET jar == Jar(packages'[m][i].at)
                      IN  /\ packages'[m][i].path = jar /\ memory'[jar] # NoFile
                          /\ packages'[m][i].artifact = memory'[jar]
    BY <1>9 DEF Joined
  <2> DEFINE p == packages[m][i]
             jar == Jar(p.at)
  <2>1. p \in Selections
    BY <1>2, <1>9, ResolverFacts
  <2>2. /\ memory[jar] # NoFile
        /\ Arrived(m)[i] = [p EXCEPT !.artifact = memory[jar], !.path = jar]
    BY <1>1, ArrivedFiles
  <2>3. memory' = memory
    BY <1>1 DEF clientVars
  <2> HIDE DEF p, jar
  <2>4. /\ Arrived(m)[i].at = p.at /\ Arrived(m)[i].path = jar
        /\ Arrived(m)[i].artifact = memory[jar]
    BY <2>1, <2>2 DEF Selections
  <2> QED BY <1>5, <2>2, <2>3, <2>4 DEF jar
<1>13. \A n \in Module \ {m} : WalkOk(n)'
  BY <1>1, <1>4, <1>5, <1>8, OthersStay DEF Apart
<1> QED BY <1>7, <1>8, <1>10, <1>11, <1>12, <1>13 DEF Inv, WalkOk

\* No task at all: nobody owns a lock, and nothing is done.
LEMMA NothingRuns ==
  /\ NoTasks \in [Tasks -> Fetch] /\ NoLocks \in [Path -> SUBSET Tasks]
  /\ \A t \in Tasks : NoTasks[t].at = "idle"
BY Constants DEF NoTasks, NoLocks, Tasks, Free, Idle

LEMMA IdleOk ==
  ASSUME fetching' = NoTasks
  PROVE  \A t \in Tasks : FetchOk(t)'
BY NothingRuns DEF FetchOk, Critical

LEMMA FailsKeeps ==
  ASSUME Inv, NEW m \in Module, ResolveFails(m)
  PROVE  Inv' /\ MemoryKept
<1>1. /\ walk' = [x \in Module |-> "failed"] /\ fetching' = NoTasks /\ holder' = NoLocks
      /\ UNCHANGED <<project, queue, packages, asked, todo, remote, disk, stored, memory>>
  BY DEF ResolveFails
<1>2. ResolverTypes /\ ClientTypes /\ MemoryOk
  BY DEF Inv, ClientInv
<1>3. ResolverTypes'
  BY <1>1, <1>2 DEF ResolverTypes
<1>4. ClientTypes' /\ MemoryOk'
  BY <1>1, <1>2, NothingRuns DEF ClientTypes, MemoryOk
<1>5. ASSUME NEW n \in Module PROVE WalkOk(n)'
  <2>1. walk'[n] = "failed"
    BY <1>1
  <2>2. \A i \in 1..MaxPackages : fetching'[<<n, i>>].at = "idle"
    BY <1>1, NothingRuns, SituationAssumption DEF Tasks
  <2> QED BY <2>1, <2>2 DEF WalkOk, Loading, Downloading, Joined
<1> QED BY <1>1, <1>3, <1>4, <1>5, IdleOk DEF Inv, ClientInv, MemoryKept

----------------------------------------------------------------------------
\* A process that begins: nothing is remembered and nothing runs.
Beginning ==
  /\ project \in Projects
  /\ remote \in [Repository -> [Path -> Edition \cup {None}]]
  /\ disk \in [Repository -> [Path -> Edition \cup {None}]]
  /\ walk = FirstWalk /\ queue = FirstQueue /\ todo = FirstTodo /\ asked = FirstAsked
  /\ packages = NoPackages
  /\ memory = NothingFetched /\ holder = NoLocks /\ fetching = NoTasks

LEMMA BeginningOk == Beginning => Inv
<1> SUFFICES ASSUME Beginning PROVE Inv
  OBVIOUS
<1>1. memory \in [Path -> File] /\ \A p \in Path : memory[p] = NoFile
  BY Constants DEF Beginning, NothingFetched
<1>2. ClientTypes /\ MemoryOk
  BY <1>1, NothingRuns DEF Beginning, ClientTypes, MemoryOk
<1>3. \A t \in Tasks : FetchOk(t)
  BY NothingRuns DEF Beginning, FetchOk, Critical
<1>4. \A m \in Module :
        /\ RootCandidates(m) \in Seq(Candidates)
        /\ Wanted(RootCandidates(m), {}) \in Seq(Coordinate)
        /\ ToSet(Wanted(RootCandidates(m), {})) \in SUBSET Coordinate
  BY RootsType, WantedType DEF Beginning
<1>5. /\ queue \in [Module -> Seq(Candidates)] /\ todo \in [Module -> Seq(Coordinate)]
      /\ asked \in [Module -> SUBSET Coordinate]
  BY <1>4 DEF Beginning, FirstQueue, FirstTodo, FirstAsked
<1>6. \A m \in Module : packages[m] = <<>> /\ Len(packages[m]) = 0
  BY DEF Beginning, NoPackages
<1>7. packages \in [Module -> Seq(Selections)] /\ \A m \in Module : Len(packages[m]) <= MaxPackages
  BY <1>6, SituationAssumption DEF Beginning, NoPackages
<1>8. walk \in [Module -> {"walking", "done"}]
  BY DEF Beginning, FirstWalk
<1>9. ResolverTypes
  BY <1>5, <1>7, <1>8 DEF Beginning, ResolverTypes
<1>10. ASSUME NEW m \in Module PROVE WalkOk(m)
  <2>1. Downloads(m) = {}
    BY <1>6 DEF Downloads
  <2>2. \A i \in 1..MaxPackages : fetching[<<m, i>>].at = "idle"
    BY NothingRuns, SituationAssumption DEF Beginning, Tasks
  <2>3. walk[m] # "loading"
    BY <1>8
  <2> QED BY <2>1, <2>2, <2>3 DEF WalkOk, Loading, Downloading, Joined
<1> QED BY <1>2, <1>3, <1>9, <1>10 DEF Inv, ClientInv

LEMMA InitBegins == Init => Beginning
BY ProjectType DEF Init, Beginning

LEMMA RestartBegins ==
  ASSUME Inv, Restart
  PROVE  Beginning'
BY DEF Inv, ClientInv, ClientTypes, ResolverTypes, Restart, Beginning, FirstWalk, FirstQueue,
       FirstTodo, FirstAsked, NoPackages, NothingFetched, NoLocks, NoTasks, RootCandidates, Wanted

LEMMA WalkKeeps ==
  ASSUME Inv, NEW m \in Module, WalkStep(m)
  PROVE  Inv' /\ MemoryKept
BY PrefetchKeeps, DropExcludedKeeps, VisitLocalKeeps, LoadKeeps, VisitLoadedKeeps, AwaitKeeps,
   FinishKeeps, FailsKeeps DEF WalkStep

\* A mishap that is not the end of the process.
Disturbance ==
  /\ \/ \E t \in Tasks : FetchFails(t)
     \/ \E r \in Repository, p \in Path : Republish(r, p) \/ Neighbour(r, p)
  /\ UNCHANGED <<project, resolverVars>>

LEMMA DisturbanceKeeps ==
  ASSUME Inv, Disturbance
  PROVE  Inv' /\ MemoryKept
<1>1. UNCHANGED resolverVars /\ project' = project
  BY DEF Disturbance
<1>2. CASE \E t \in Tasks : FetchFails(t)
  BY <1>1, <1>2, TasksStay
<1>3. CASE \E r \in Repository, p \in Path : Republish(r, p) \/ Neighbour(r, p)
  <2>1. ClientInv' /\ MemoryKept /\ PathsKept
    BY <1>3, ChangeKeeps DEF Inv
  <2>2. fetching' = fetching
    BY <1>3 DEF Republish, Neighbour
  <2>3. \A n \in Module : Undisturbed(n)
    BY <1>1, <2>2 DEF Undisturbed, resolverVars
  <2>4. \A n \in Module : WalkOk(n)'
    BY <1>1, <2>1, <2>3, WalkStays
  <2>5. ResolverTypes'
    BY <1>1 DEF Inv, ResolverTypes, resolverVars
  <2> QED BY <2>1, <2>4, <2>5 DEF Inv
<1> QED BY <1>2, <1>3 DEF Disturbance

\* A step of the process, or one of the world around it, or another process.
LEMMA Steps ==
  ASSUME [Next]_vars
  PROVE  \/ \E m \in Module : WalkStep(m)
         \/ \E t \in Tasks : FetchOf(t)
         \/ Disturbance \/ Restart \/ UNCHANGED vars
<1>1. CASE \E m \in Module : Poll(m)
  <2>1. PICK m \in Module : Poll(m)
    BY <1>1
  <2>2. \A t \in TasksOf(m) : t \in Tasks
    BY DEF TasksOf, Tasks
  <2> QED BY <2>1, <2>2 DEF Poll
<1>2. CASE Mishap
  BY <1>2 DEF Mishap, Disturbance, Tasks
<1> QED BY <1>1, <1>2 DEF Next

LEMMA NextKeeps ==
  ASSUME Inv, [Next]_vars
  PROVE  Inv'
<1>1. ASSUME NEW t \in Tasks, FetchOf(t) PROVE Inv'
  BY <1>1, TasksStay DEF FetchOf
<1>2. CASE UNCHANGED vars
  <2>1. /\ project' = project /\ UNCHANGED resolverVars /\ UNCHANGED clientVars
        /\ fetching' = fetching
    BY <1>2 DEF vars, clientVars
  <2>2. ClientInv' /\ MemoryKept
    BY <2>1, ClientRests DEF Inv
  <2>3. \A n \in Module : WalkOk(n)'
    BY <2>1, <2>2, WalkStays DEF Undisturbed, resolverVars
  <2>4. ResolverTypes'
    BY <2>1 DEF Inv, ResolverTypes, resolverVars
  <2> QED BY <2>2, <2>3, <2>4 DEF Inv
<1>3. CASE Restart
  <2>1. Beginning'
    BY <1>3, RestartBegins
  <2> QED BY <2>1, BeginningOk, PTL
<1> QED BY <1>1, <1>2, <1>3, Steps, WalkKeeps, DisturbanceKeeps

\* Every variable of fetch and of the walks keeps its type, the lock of a path
\* (RepositoryClient::fetch, repository.rs) has one owner, and a walk's POM and
\* downloads are those of its own candidates (graph.rs, resolve_in_workspace).
THEOREM Invariant == Spec => []Inv
<1>1. Init => Inv
  BY InitBegins, BeginningOk
<1>2. Inv /\ [Next]_vars => Inv'
  BY NextKeeps
<1> QED BY <1>1, <1>2, PTL DEF Spec

\* finish_artifacts (graph.rs) hands out no package whose artifact is not whole
\* in the content store, whoever has downloaded it and from which repository.
THEOREM Stored == Spec => []ArtifactsAreStored
<1>1. Inv => ArtifactsAreStored
  <2> SUFFICES ASSUME Inv, NEW m \in project.modules, walk[m] = "done", NEW i \in Downloads(m)
               PROVE  LET jar == Jar(packages[m][i].at)
                      IN  /\ packages[m][i].path = jar
                          /\ <<jar, packages[m][i].artifact.edition>> \in stored
    BY DEF ArtifactsAreStored
  <2> DEFINE jar == Jar(packages[m][i].at)
  <2>1. m \in Module
    BY ProjectType DEF Inv, ResolverTypes
  <2>2. /\ packages[m][i].path = jar /\ packages[m][i].artifact = memory[jar]
        /\ memory[jar] # NoFile
    BY <2>1 DEF Inv, WalkOk, Joined
  <2>3. packages[m][i].at \in Coordinate
    BY <2>1, ResolverFacts DEF Inv, Downloads
  <2>4. jar \in Artifacts /\ jar \in Path
    BY <2>3, Constants DEF Jar, Artifacts
  <2>5. <<jar, memory[jar].edition>> \in stored
    BY <2>2, <2>4 DEF Inv, ClientInv, MemoryOk
  <2> QED BY <2>2, <2>5
<1> QED BY <1>1, Invariant, PTL

----------------------------------------------------------------------------
(* A walk goes one way, whoever fetches what it needs.                     *)

\* What decides how a walk goes on.
WalkState == [queue : Seq(Candidates), packages : Seq(Selections)]
StateOf(m) == [queue |-> queue[m], packages |-> packages[m]]
Start(m) == [queue |-> RootCandidates(m), packages |-> <<>>]

\* IndexOf in the packages of a state.
Found(ps, c) ==
  LET here == {i \in 1..Len(ps) : ps[i].at.name = c.to.name}
  IN  IF here = {} THEN 0 ELSE CHOOSE i \in here : TRUE

\* What a visit of its first candidate makes of state a.
RelocatedState(a, c, pom) ==
  [queue |-> <<[c EXCEPT !.to = pom.moved]>> \o Tail(a.queue), packages |-> a.packages]

MergedState(m, a, c) ==
  LET ps == a.packages
      i == Found(ps, c)
      edged == AddEdge(ps, c.parent, ps[i].at)
  IN  IF c.scope \in ps[i].scopes THEN [queue |-> Tail(a.queue), packages |-> edged]
      ELSE [queue |-> Enqueue(Tail(a.queue),
                              Children(m, Model(ps[i].at, ps[i].pom.edition), c, i)),
            packages |-> [edged EXCEPT ![i].scopes = @ \cup {c.scope}]]

SelectedState(m, a, c, pom, file) ==
  LET i == Len(a.packages) + 1
      new == [at |-> c.to, pom |-> file, scopes |-> {c.scope}, parent |-> c.parent,
              depth |-> c.depth, edges |-> {}, artifact |-> NoFile, path |-> Pom(c.to)]
  IN  [queue |-> Enqueue(Tail(a.queue), Children(m, pom, c, i)),
       packages |-> AddEdge(Append(a.packages, new), c.parent, c.to)]

Visited(m, a, c, pom, file) ==
  IF MovedAway(c, pom) THEN RelocatedState(a, c, pom)
  ELSE IF Found(a.packages, c) # 0 THEN MergedState(m, a, c)
  ELSE SelectedState(m, a, c, pom, file)

\* The POM of a workspace module, or the one that this process has fetched.
FileOf(c) == IF IsLocal(c) THEN LocalFile ELSE memory[Pom(c)]

After(m, a) ==
  LET c == Head(a.queue)
  IN  IF Excluded(c) THEN [queue |-> Tail(a.queue), packages |-> a.packages]
      ELSE Visited(m, a, c, Model(c.to, FileOf(c.to).edition), FileOf(c.to))

\* The candidate that is visited is there, and its POM is fetched.
MayGoOn(a) ==
  LET c == Head(a.queue)
  IN  /\ a.queue # <<>>
      /\ \/ Excluded(c)
         \/ IsLocal(c.to)
         \/ Pom(c.to) \in Path /\ memory[Pom(c.to)] # NoFile

\* The states s[0], s[1], ..., s[n] that the walk of m has gone through.
Trail(m, n, s) ==
  /\ s[0] = Start(m)
  /\ \A k \in 0..n : k # n => MayGoOn(s[k]) /\ s[k + 1] = After(m, s[k])

\* Packages with their artifacts, as this process has fetched them.
Filled(ps) ==
  [i \in 1..Len(ps) |->
     IF HasArtifact(ps[i].at)
       THEN [ps[i] EXCEPT !.artifact = memory[Jar(ps[i].at)], !.path = Jar(ps[i].at)]
       ELSE ps[i]]

Shows(m, a) ==
  /\ a \in WalkState /\ queue[m] = a.queue
  /\ packages[m] = IF walk[m] = "done" THEN Filled(a.packages) ELSE a.packages

\* The walk of m is at the end of a trail; once it has joined its downloads
\* the queue is empty.
OnTrail(m) ==
  /\ walk[m] # "failed" => \E n \in Nat : \E s : Trail(m, n, s) /\ Shows(m, s[n])
  /\ m \in project.modules /\ walk[m] \in {"joining", "done"} => queue[m] = <<>>

LEMMA SameChildren ==
  ASSUME NEW m, NEW n, project.managed[m] = project.managed[n], NEW pom, NEW c, NEW parent
  PROVE  Children(m, pom, c, parent) = Children(n, pom, c, parent)
<1>1. \A d : Managed(m, d) = Managed(n, d)
  BY DEF Managed
<1>2. \A d : Followed(m, d, c.scope) = Followed(n, d, c.scope)
  BY <1>1 DEF Followed
<1> DEFINE Child(x, d) == Candidate(Managed(x, d), Derived(c.scope, Managed(x, d).scope),
                                    c.below, parent, c.depth + 1)
           deps == pom.deps
<1>3. \A d : Child(m, d) = Child(n, d)
  BY <1>1
<1>4. Children(m, pom, c, parent) =
        KeptOf([k \in 1..Len(deps) |-> Child(m, deps[k])],
               [k \in 1..Len(deps) |-> Followed(m, deps[k], c.scope)])
  BY DEF Children
<1>5. Children(n, pom, c, parent) =
        KeptOf([k \in 1..Len(deps) |-> Child(n, deps[k])],
               [k \in 1..Len(deps) |-> Followed(n, deps[k], c.scope)])
  BY DEF Children
<1> HIDE DEF Child, deps
<1>6. [k \in 1..Len(deps) |-> Child(m, deps[k])] = [k \in 1..Len(deps) |-> Child(n, deps[k])]
  BY <1>3
<1>7. [k \in 1..Len(deps) |-> Followed(m, deps[k], c.scope)]
        = [k \in 1..Len(deps) |-> Followed(n, deps[k], c.scope)]
  BY <1>2
<1> QED BY <1>4, <1>5, <1>6, <1>7

LEMMA SameAfter ==
  ASSUME NEW m, NEW n, project.managed[m] = project.managed[n], NEW a
  PROVE  After(m, a) = After(n, a)
<1>1. ASSUME NEW c PROVE MergedState(m, a, c) = MergedState(n, a, c)
  <2> DEFINE ps == a.packages
             i == Found(ps, c)
             pom == Model(ps[i].at, ps[i].pom.edition)
  <2>1. Children(m, pom, c, i) = Children(n, pom, c, i)
    BY SameChildren
  <2> QED BY <2>1 DEF MergedState
<1>2. ASSUME NEW c, NEW pom, NEW file
      PROVE  SelectedState(m, a, c, pom, file) = SelectedState(n, a, c, pom, file)
  <2>1. Children(m, pom, c, Len(a.packages) + 1) = Children(n, pom, c, Len(a.packages) + 1)
    BY SameChildren
  <2> QED BY <2>1 DEF SelectedState
<1>3. \A c, pom, file : Visited(m, a, c, pom, file) = Visited(n, a, c, pom, file)
  BY <1>1, <1>2 DEF Visited
<1> QED BY <1>3 DEF After

\* Two trails from the same roots under the same management are one.
LEMMA OneTrail ==
  ASSUME NEW m \in Module, NEW n \in Module, project.roots[m] = project.roots[n],
         project.managed[m] = project.managed[n],
         NEW i \in Nat, NEW s, Trail(m, i, s), NEW j \in Nat, NEW t, Trail(n, j, t)
  PROVE  \A k \in Nat : k <= i /\ k <= j => s[k] = t[k]
<1> DEFINE Wrong == {k \in Nat : k <= i /\ k <= j /\ s[k] # t[k]}
<1> SUFFICES ASSUME Wrong # {} PROVE FALSE
  OBVIOUS
<1>1. PICK k \in Wrong : \A l \in Wrong : k <= l
  <2>1. Wrong \in SUBSET Nat
    OBVIOUS
  <2> HIDE DEF Wrong
  <2> QED BY <2>1, Least
<1>2. k # 0
  <2>1. Start(m) = Start(n)
    BY DEF Start, RootCandidates
  <2> QED BY <1>1, <2>1 DEF Trail
<1>3. k - 1 \in Nat /\ k - 1 < i /\ k - 1 < j /\ (k - 1) + 1 = k
  BY <1>1, <1>2
<1>4. s[k - 1] = t[k - 1]
  <2>1. k - 1 \notin Wrong
    BY <1>1, <1>3
  <2> QED BY <1>3, <2>1
<1>5. s[k] = After(m, s[k - 1]) /\ t[k] = After(n, t[k - 1])
  <2>1. k - 1 \in 0..i /\ k - 1 # i /\ k - 1 \in 0..j /\ k - 1 # j
    BY <1>3
  <2> HIDE DEF Wrong
  <2> QED BY <1>3, <2>1 DEF Trail
<1>6. s[k] = t[k]
  BY <1>4, <1>5, SameAfter
<1> QED BY <1>1, <1>6

\* A trail stays one: what has been fetched is remembered.
LEMMA TrailStays ==
  ASSUME NEW m, NEW n \in Nat, NEW s, Trail(m, n, s), MemoryKept, project' = project
  PROVE  Trail(m, n, s)'
<1>1. Start(m)' = Start(m)
  BY DEF Start, RootCandidates
<1>2. ASSUME NEW a, MayGoOn(a) PROVE MayGoOn(a)' /\ After(m, a)' = After(m, a)
  <2> DEFINE c == Head(a.queue)
  <2>1. Excluded(c)' = Excluded(c) /\ IsLocal(c.to)' = IsLocal(c.to)
    BY DEF Excluded, IsLocal
  <2>2. Excluded(c) \/ IsLocal(c.to) \/ (/\ Pom(c.to) \in Path /\ memory[Pom(c.to)] # NoFile
                                         /\ memory'[Pom(c.to)] = memory[Pom(c.to)])
    BY <1>2 DEF MayGoOn, MemoryKept
  <2>3. MayGoOn(a)'
    BY <1>2, <2>2 DEF MayGoOn, IsLocal, Excluded
  <2>4. ~Excluded(c) => FileOf(c.to)' = FileOf(c.to)
    BY <2>1, <2>2 DEF FileOf
  <2>5. \A x, e : Model(x, e)' = Model(x, e)
    BY DEF Model
  <2>6. ASSUME NEW pom, NEW x, NEW i PROVE Children(m, pom, x, i)' = Children(m, pom, x, i)
    <3>1. \A d : Managed(m, d)' = Managed(m, d)
      BY DEF Managed
    <3>2. \A d : Followed(m, d, x.scope)' = Followed(m, d, x.scope)
      BY <3>1 DEF Followed
    <3> DEFINE Child(d) == Candidate(Managed(m, d), Derived(x.scope, Managed(m, d).scope),
                                     x.below, i, x.depth + 1)
               deps == pom.deps
    <3>3. \A d : Child(d)' = Child(d)
      BY <3>1
    <3>4. Children(m, pom, x, i) = KeptOf([k \in 1..Len(deps) |-> Child(deps[k])],
                                          [k \in 1..Len(deps) |-> Followed(m, deps[k], x.scope)])
      BY DEF Children
    <3>5. Children(m, pom, x, i)' = KeptOf([k \in 1..Len(deps) |-> Child(deps[k])'],
                                           [k \in 1..Len(deps) |-> Followed(m, deps[k], x.scope)'])
      BY DEF Children
    <3> HIDE DEF Child, deps
    <3> QED BY <3>2, <3>3, <3>4, <3>5
  <2>7. \A x, pom, file : Visited(m, a, x, pom, file)' = Visited(m, a, x, pom, file)
    <3>1. \A x : MergedState(m, a, x)' = MergedState(m, a, x)
      BY <2>5, <2>6 DEF MergedState
    <3>2. \A x, pom, file : SelectedState(m, a, x, pom, file)' = SelectedState(m, a, x, pom, file)
      BY <2>6 DEF SelectedState
    <3> QED BY <3>1, <3>2 DEF Visited, RelocatedState, MovedAway
  <2>8. After(m, a)' = After(m, a)
    BY <2>1, <2>4, <2>5, <2>7 DEF After
  <2> QED BY <2>3, <2>8
<1> QED BY <1>1, <1>2 DEF Trail

\* One more step makes a longer trail.
LEMMA TrailGrows ==
  ASSUME NEW m, NEW n \in Nat, NEW s, Trail(m, n, s), MayGoOn(s[n]), NEW b, b = After(m, s[n])
  PROVE  \E t : Trail(m, n + 1, t) /\ t[n + 1] = b
<1> DEFINE t == [k \in 0..n + 1 |-> IF k = n + 1 THEN b ELSE s[k]]
<1>1. t[n + 1] = b /\ \A k \in 0..n : t[k] = s[k]
  OBVIOUS
<1> HIDE DEF t
<1>2. t[0] = Start(m)
  BY <1>1 DEF Trail
<1>3. ASSUME NEW k \in 0..n + 1, k # n + 1
      PROVE  MayGoOn(t[k]) /\ t[k + 1] = After(m, t[k])
  <2>1. k \in 0..n /\ t[k] = s[k]
    BY <1>1, <1>3
  <2>2. CASE k = n
    BY <1>1, <2>1, <2>2
  <2>3. CASE k # n
    <3>1. k + 1 \in 0..n
      BY <2>1, <2>3
    <3>2. t[k + 1] = s[k + 1]
      BY <1>1, <3>1
    <3> QED BY <2>1, <2>3, <3>2 DEF Trail
  <2> QED BY <2>2, <2>3
<1>4. Trail(m, n + 1, t)
  BY <1>2, <1>3 DEF Trail
<1> QED BY <1>1, <1>4

LEMMA FilledFacts ==
  ASSUME NEW ps \in Seq(Selections)
  PROVE  /\ Len(Filled(ps)) = Len(ps) /\ Len(ps) \in Nat
         /\ \A i \in 1..Len(ps) : ps[i].at \in Coordinate /\ Filled(ps)[i].at = ps[i].at
<1>1. Len(ps) \in Nat /\ \A i \in 1..Len(ps) : ps[i] \in Selections
  BY LenProperties, ElementOfSeq
<1>2. Len(Filled(ps)) = Len(ps)
  BY <1>1 DEF Filled
<1>3. ASSUME NEW i \in 1..Len(ps) PROVE Filled(ps)[i].at = ps[i].at
  <2>1. ps[i] \in Selections
    BY <1>1
  <2>2. [ps[i] EXCEPT !.artifact = memory[Jar(ps[i].at)], !.path = Jar(ps[i].at)].at = ps[i].at
    BY <2>1 DEF Selections
  <2> QED BY <2>2 DEF Filled
<1>4. \A i \in 1..Len(ps) : ps[i].at \in Coordinate
  BY <1>1 DEF Selections
<1> QED BY <1>1, <1>2, <1>3, <1>4

\* What has been fetched is what it was.
LEMMA FilledStays ==
  ASSUME NEW ps \in Seq(Selections), MemoryKept, project' = project,
         \A i \in 1..Len(ps) : HasArtifact(ps[i].at) => memory[Jar(ps[i].at)] # NoFile
  PROVE  Filled(ps)' = Filled(ps)
<1> DEFINE with(i) == IF HasArtifact(ps[i].at)
             THEN [ps[i] EXCEPT !.artifact = memory[Jar(ps[i].at)], !.path = Jar(ps[i].at)]
             ELSE ps[i]
<1>1. \A i \in 1..Len(ps) : Jar(ps[i].at) \in Path
  BY FilledFacts, Constants
<1>2. \A i \in 1..Len(ps) : HasArtifact(ps[i].at) => memory'[Jar(ps[i].at)] = memory[Jar(ps[i].at)]
  BY <1>1 DEF MemoryKept
<1>3. \A c : HasArtifact(c)' = HasArtifact(c)
  BY DEF HasArtifact, IsLocal
<1>4. \A i \in 1..Len(ps) : with(i)' = with(i)
  BY <1>2, <1>3
<1>5. Filled(ps) = [i \in 1..Len(ps) |-> with(i)]
  BY DEF Filled
<1>6. Filled(ps)' = [i \in 1..Len(ps) |-> with(i)']
  BY DEF Filled
<1> HIDE DEF with
<1> QED BY <1>4, <1>5, <1>6

\* A module of which nothing moves shows the same state.
LEMMA OnTrailStays ==
  ASSUME Inv, NEW m \in Module, OnTrail(m), MemoryKept, project' = project,
         queue'[m] = queue[m], packages'[m] = packages[m], walk'[m] = walk[m]
  PROVE  OnTrail(m)'
<1>1. ASSUME walk[m] # "failed"
      PROVE  \E n \in Nat : \E s : (Trail(m, n, s) /\ Shows(m, s[n]))'
  <2>n. PICK n \in Nat : \E s : Trail(m, n, s) /\ Shows(m, s[n])
    BY <1>1 DEF OnTrail
  <2>1. PICK s : Trail(m, n, s) /\ Shows(m, s[n])
    BY <2>n
  <2> DEFINE ps == s[n].packages
  <2>2. Trail(m, n, s)'
    BY <2>1, TrailStays
  <2>3. CASE walk[m] # "done"
    <3>1. Shows(m, s[n])'
      BY <2>1, <2>3 DEF Shows
    <3> QED BY <2>2, <3>1
  <2>4. CASE walk[m] = "done"
    <3>1. packages[m] = Filled(ps) /\ queue[m] = s[n].queue
      BY <2>1, <2>4 DEF Shows
    <3>2. ps \in Seq(Selections)
      BY <2>1 DEF Shows, WalkState
    <3>3. \A i \in 1..Len(ps) : HasArtifact(ps[i].at) => memory[Jar(ps[i].at)] # NoFile
      <4>1. \A i \in 1..Len(ps) : packages[m][i].at = ps[i].at
        BY <3>1, <3>2, FilledFacts
      <4>2. Len(packages[m]) = Len(ps)
        BY <3>1, <3>2, FilledFacts
      <4>3. \A i \in Downloads(m) : memory[Jar(packages[m][i].at)] # NoFile
        BY <2>4 DEF Inv, WalkOk, Joined
      <4> QED BY <4>1, <4>2, <4>3 DEF Downloads
    <3>4. packages[m] = Filled(ps)'
      BY <3>1, <3>2, <3>3, FilledStays
    <3>5. Shows(m, s[n])'
      BY <2>1, <2>4, <3>1, <3>4 DEF Shows
    <3> QED BY <2>2, <3>5
  <2> QED BY <2>3, <2>4
<1>2. m \in project.modules /\ walk[m] \in {"joining", "done"} => queue[m] = <<>>
  BY DEF OnTrail
<1> QED BY <1>1, <1>2 DEF OnTrail

\* A walk that takes its next candidate is one step further.
LEMMA GoesOn ==
  ASSUME Inv, Inv', NEW m \in Module, OnTrail(m), walk[m] \in {"walking", "loading"},
         walk'[m] = "walking", MemoryKept, project' = project, MayGoOn(StateOf(m)),
         StateOf(m)' = After(m, StateOf(m))
  PROVE  OnTrail(m)'
<1>n. PICK n \in Nat : \E s : Trail(m, n, s) /\ Shows(m, s[n])
  BY DEF OnTrail
<1>1. PICK s : Trail(m, n, s) /\ Shows(m, s[n])
  BY <1>n
<1>2. s[n] = StateOf(m)
  BY <1>1 DEF Shows, WalkState, StateOf
<1> DEFINE b == StateOf(m)'
<1>3. PICK t : Trail(m, n + 1, t) /\ t[n + 1] = b
  BY <1>1, <1>2, TrailGrows
<1>4. Trail(m, n + 1, t)'
  BY <1>3, TrailStays
<1>5. queue'[m] \in Seq(Candidates) /\ packages'[m] \in Seq(Selections)
  BY DEF Inv, ResolverTypes
<1>6. b = [queue |-> queue'[m], packages |-> packages'[m]]
  BY DEF StateOf
<1> HIDE DEF b
<1>7. Shows(m, t[n + 1])'
  BY <1>3, <1>5, <1>6 DEF Shows, WalkState
<1>8. n + 1 \in Nat
  OBVIOUS
<1> QED BY <1>4, <1>7, <1>8 DEF OnTrail

\* A visit does what Visited says, in any of its three ways.
LEMMA VisitAfter ==
  ASSUME ResolverTypes, NEW m \in Module, queue[m] # <<>>, NEW pom, NEW file,
         Visit(m, First(m), pom, file)
  PROVE  /\ StateOf(m)' = Visited(m, StateOf(m), First(m), pom, file)
         /\ walk'[m] = "walking" /\ project' = project /\ memory' = memory
<1> DEFINE c == First(m)
           a == StateOf(m)
           i == IndexOf(m, c)
<1>1. a.queue = queue[m] /\ a.packages = packages[m] /\ Found(a.packages, c) = i
  BY DEF StateOf, Found, IndexOf
<1>2. /\ queue \in [Module -> Seq(Candidates)] /\ packages \in [Module -> Seq(Selections)]
      /\ walk \in [Module -> {"walking", "loading", "joining", "done", "failed"}]
  BY DEF ResolverTypes
<1>3. ASSUME NEW q, Continue(m, q) \/ Skip(m, q)
      PROVE  queue'[m] = q /\ walk'[m] = "walking"
  BY <1>2, <1>3 DEF Continue, Skip
<1>4. StateOf(m)' = [queue |-> queue'[m], packages |-> packages'[m]]
  BY DEF StateOf
<1>5. project' = project /\ memory' = memory
  BY DEF Visit
<1>6. CASE Relocate(m, c, pom)
  <2>1. /\ MovedAway(c, pom) /\ packages' = packages
        /\ Skip(m, <<[c EXCEPT !.to = pom.moved]>> \o Tail(queue[m]))
    BY <1>6 DEF Relocate
  <2>2. /\ queue'[m] = <<[c EXCEPT !.to = pom.moved]>> \o Tail(queue[m])
        /\ walk'[m] = "walking"
    BY <1>3, <2>1
  <2> HIDE DEF a, c
  <2>3. Visited(m, a, c, pom, file) = RelocatedState(a, c, pom)
    BY <2>1 DEF Visited
  <2> QED BY <1>1, <1>4, <1>5, <2>1, <2>2, <2>3 DEF RelocatedState, a, c
<1>7. CASE Merge(m, c, pom)
  <2> DEFINE ps == packages[m]
             edged == AddEdge(ps, c.parent, ps[i].at)
             wider == [edged EXCEPT ![i].scopes = @ \cup {c.scope}]
             longer == Enqueue(Tail(queue[m]),
                               Children(m, Model(ps[i].at, ps[i].pom.edition), c, i))
  <2>1. ~MovedAway(c, pom) /\ i # 0
    BY <1>7 DEF Merge, MergeWith
  <2>2. SelectedPom(m, c) = Model(ps[i].at, ps[i].pom.edition)
    BY DEF SelectedPom
  <2>3. IF c.scope \in ps[i].scopes
          THEN packages' = [packages EXCEPT ![m] = edged] /\ Skip(m, Tail(queue[m]))
          ELSE packages' = [packages EXCEPT ![m] = wider] /\ Continue(m, longer)
    BY <1>7, <2>2 DEF Merge, MergeWith
  <2>4. Visited(m, a, c, pom, file) = MergedState(m, a, c)
    BY <1>1, <2>1 DEF Visited
  <2>5. MergedState(m, a, c) = IF c.scope \in ps[i].scopes
          THEN [queue |-> Tail(queue[m]), packages |-> edged]
          ELSE [queue |-> longer, packages |-> wider]
    BY <1>1 DEF MergedState
  <2> HIDE DEF edged, wider, longer, ps, i, a, c
  <2>6. CASE c.scope \in ps[i].scopes
    BY <1>2, <1>3, <1>4, <1>5, <2>3, <2>4, <2>5, <2>6 DEF a, c
  <2>7. CASE c.scope \notin ps[i].scopes
    BY <1>2, <1>3, <1>4, <1>5, <2>3, <2>4, <2>5, <2>7 DEF a, c
  <2> QED BY <2>6, <2>7
<1>8. CASE Select(m, c, pom, file)
  <2> DEFINE ps == packages[m]
             k == Len(ps) + 1
             new == [at |-> c.to, pom |-> file, scopes |-> {c.scope}, parent |-> c.parent,
                     depth |-> c.depth, edges |-> {}, artifact |-> NoFile, path |-> Pom(c.to)]
             more == AddEdge(Append(ps, new), c.parent, c.to)
             longer == Enqueue(Tail(queue[m]), Children(m, pom, c, k))
  <2>1. ~MovedAway(c, pom) /\ i = 0
    BY <1>8 DEF Select
  <2>2. packages' = [packages EXCEPT ![m] = more] /\ Continue(m, longer)
    BY <1>8 DEF Select
  <2>3. Visited(m, a, c, pom, file) = SelectedState(m, a, c, pom, file)
    BY <1>1, <2>1 DEF Visited
  <2>4. SelectedState(m, a, c, pom, file) = [queue |-> longer, packages |-> more]
    BY <1>1 DEF SelectedState
  <2> HIDE DEF more, longer, new, ps, k, i, a, c
  <2> QED BY <1>2, <1>3, <1>4, <1>5, <2>2, <2>3, <2>4 DEF a, c
<1>9. Relocate(m, c, pom) \/ Merge(m, c, pom) \/ Select(m, c, pom, file)
  BY DEF Visit
<1> QED BY <1>6, <1>7, <1>8, <1>9

\* Every step of a walk is one of its trail, or leaves it where it is.
LEMMA WalkOnTrail ==
  ASSUME Inv, NEW m \in Module, OnTrail(m), WalkStep(m)
  PROVE  OnTrail(m)'
<1>1. Inv' /\ MemoryKept
  BY WalkKeeps
<1>2. ResolverTypes
  BY DEF Inv
<1>3. StateOf(m).queue = queue[m] /\ StateOf(m).packages = packages[m] /\ First(m) = Head(queue[m])
  BY DEF StateOf, First
<1>4. CASE Prefetch(m)
  BY <1>1, <1>4, OnTrailStays DEF Prefetch
<1>5. CASE Load(m)
  <2>1. /\ project' = project /\ queue' = queue /\ packages' = packages /\ walk[m] = "walking"
        /\ walk'[m] = "loading"
    BY <1>2, <1>5 DEF Load, Ready, ResolverTypes
  <2>n. PICK n \in Nat : \E s : Trail(m, n, s) /\ Shows(m, s[n])
    BY <2>1 DEF OnTrail
  <2>2. PICK s : Trail(m, n, s) /\ Shows(m, s[n])
    BY <2>n
  <2>3. Trail(m, n, s)' /\ Shows(m, s[n])'
    BY <1>1, <2>1, <2>2, TrailStays DEF Shows
  <2> QED BY <2>1, <2>3 DEF OnTrail
<1>6. CASE DropExcluded(m)
  <2>1. /\ walk[m] = "walking" /\ queue[m] # <<>> /\ Excluded(First(m))
        /\ Skip(m, Tail(queue[m])) /\ project' = project /\ packages' = packages
    BY <1>6 DEF DropExcluded, Ready
  <2>2. queue'[m] = Tail(queue[m]) /\ walk'[m] = "walking"
    BY <1>2, <2>1 DEF Skip, ResolverTypes
  <2>3. MayGoOn(StateOf(m)) /\ StateOf(m)' = After(m, StateOf(m))
    BY <1>3, <2>1, <2>2 DEF MayGoOn, After, StateOf
  <2> QED BY <1>1, <2>1, <2>2, <2>3, GoesOn
<1>7. CASE VisitLocal(m)
  <2> DEFINE c == First(m)
  <2>1. /\ walk[m] = "walking" /\ queue[m] # <<>> /\ ~Excluded(c) /\ IsLocal(c.to)
        /\ Visit(m, c, Model(c.to, 1), LocalFile)
    BY <1>7 DEF VisitLocal, Ready
  <2>2. FileOf(c.to) = LocalFile /\ LocalFile.edition = 1
    BY <2>1 DEF FileOf, LocalFile
  <2>3. MayGoOn(StateOf(m))
    BY <1>3, <2>1 DEF MayGoOn
  <2>4. After(m, StateOf(m)) = Visited(m, StateOf(m), c, Model(c.to, 1), LocalFile)
    BY <1>3, <2>1, <2>2 DEF After
  <2> HIDE DEF c
  <2>5. /\ StateOf(m)' = After(m, StateOf(m)) /\ walk'[m] = "walking" /\ project' = project
    BY <1>2, <2>1, <2>4, VisitAfter DEF c
  <2> QED BY <1>1, <2>1, <2>3, <2>5, GoesOn
<1>8. CASE VisitLoaded(m)
  <2> DEFINE c == First(m)
             file == fetching[Walker(m)].file
  <2>1. /\ walk[m] = "loading" /\ fetching[Walker(m)].at = "done"
        /\ Visit(m, c, Model(c.to, file.edition), file)
    BY <1>8 DEF VisitLoaded
  <2>2. /\ queue[m] # <<>> /\ ~Excluded(c) /\ ~IsLocal(c.to) /\ Pom(c.to) \in Path
        /\ file = memory[Pom(c.to)] /\ memory[Pom(c.to)] # NoFile
    BY <2>1, LoadedFile
  <2>3. FileOf(c.to) = file
    BY <2>2 DEF FileOf
  <2>4. MayGoOn(StateOf(m))
    BY <1>3, <2>2 DEF MayGoOn
  <2>5. After(m, StateOf(m)) = Visited(m, StateOf(m), c, Model(c.to, file.edition), file)
    BY <1>3, <2>2, <2>3 DEF After
  <2> HIDE DEF c, file
  <2>6. /\ StateOf(m)' = After(m, StateOf(m)) /\ walk'[m] = "walking" /\ project' = project
    BY <1>2, <2>1, <2>2, <2>5, VisitAfter DEF c
  <2> QED BY <1>1, <2>1, <2>4, <2>6, GoesOn
<1>9. CASE AwaitArtifacts(m)
  <2>1. /\ project' = project /\ queue' = queue /\ packages' = packages /\ walk[m] = "walking"
        /\ walk'[m] = "joining" /\ queue[m] = <<>>
    BY <1>2, <1>9 DEF AwaitArtifacts, Ready, ResolverTypes
  <2>n. PICK n \in Nat : \E s : Trail(m, n, s) /\ Shows(m, s[n])
    BY <2>1 DEF OnTrail
  <2>2. PICK s : Trail(m, n, s) /\ Shows(m, s[n])
    BY <2>n
  <2>3. Trail(m, n, s)' /\ Shows(m, s[n])'
    BY <1>1, <2>1, <2>2, TrailStays DEF Shows
  <2> QED BY <2>1, <2>3 DEF OnTrail
<1>10. CASE FinishArtifacts(m)
  <2>1. /\ project' = project /\ queue' = queue /\ walk[m] = "joining" /\ walk'[m] = "done"
        /\ \A i \in Downloads(m) : fetching[<<m, i>>].at = "done"
        /\ packages'[m] = Arrived(m) /\ memory' = memory
    BY <1>2, <1>10 DEF FinishArtifacts, ResolverTypes, clientVars
  <2>n. PICK n \in Nat : \E s : Trail(m, n, s) /\ Shows(m, s[n])
    BY <2>1 DEF OnTrail
  <2>2. PICK s : Trail(m, n, s) /\ Shows(m, s[n])
    BY <2>n
  <2>3. s[n].packages = packages[m]
    BY <2>1, <2>2 DEF Shows
  <2>4. Arrived(m) = Filled(packages[m])
    <3> DEFINE ps == packages[m]
               with(i) == [ps[i] EXCEPT !.artifact = memory[Jar(ps[i].at)], !.path = Jar(ps[i].at)]
    <3>1. Downloads(m) = {i \in 1..Len(ps) : HasArtifact(ps[i].at)}
      BY DEF Downloads
    <3>2. /\ \A i \in Downloads(m) : Arrived(m)[i] = with(i)
          /\ \A i \in 1..Len(ps) : i \notin Downloads(m) => Arrived(m)[i] = ps[i]
      BY <2>1, ArrivedFiles
    <3>3. Arrived(m) = [i \in 1..Len(ps) |-> Arrived(m)[i]]
      BY DEF Arrived
    <3>4. Filled(ps) = [i \in 1..Len(ps) |-> IF HasArtifact(ps[i].at) THEN with(i) ELSE ps[i]]
      BY DEF Filled
    <3> HIDE DEF with
    <3>5. \A i \in 1..Len(ps) : Arrived(m)[i] = IF HasArtifact(ps[i].at) THEN with(i) ELSE ps[i]
      BY <3>1, <3>2
    <3> HIDE DEF ps
    <3> QED BY <3>3, <3>4, <3>5 DEF ps
  <2> DEFINE ps == s[n].packages
  <2>5. ASSUME NEW x PROVE Filled(x)' = Filled(x)
    BY <2>1 DEF Filled, HasArtifact, IsLocal
  <2>6. packages'[m] = Filled(ps)'
    BY <2>1, <2>3, <2>4, <2>5
  <2>7. Trail(m, n, s)' /\ Shows(m, s[n])'
    BY <1>1, <2>1, <2>2, <2>6, TrailStays DEF Shows
  <2>8. queue[m] = <<>> \/ m \notin project.modules
    BY <2>1 DEF OnTrail
  <2> QED BY <2>1, <2>7, <2>8 DEF OnTrail
<1>11. CASE ResolveFails(m)
  <2>1. walk'[m] = "failed"
    BY <1>11 DEF ResolveFails
  <2> QED BY <2>1 DEF OnTrail
<1> QED BY <1>4, <1>5, <1>6, <1>7, <1>8, <1>9, <1>10, <1>11 DEF WalkStep

\* A process that begins is at the start of every trail.
LEMMA BeginningOnTrail == Beginning => \A m \in Module : OnTrail(m)
<1> SUFFICES ASSUME Beginning, NEW m \in Module PROVE OnTrail(m)
  OBVIOUS
<1> DEFINE s == [k \in 0..0 |-> Start(m)]
<1>1. s[0] = Start(m) /\ Trail(m, 0, s)
  BY DEF Trail
<1>2. queue[m] = RootCandidates(m) /\ packages[m] = <<>> /\ walk[m] \in {"walking", "done"}
  BY DEF Beginning, FirstQueue, NoPackages, FirstWalk
<1>3. Filled(<<>>) = <<>>
  BY DEF Filled
<1>4. Start(m) \in WalkState /\ Start(m).queue = RootCandidates(m) /\ Start(m).packages = <<>>
  BY RootsType DEF Beginning, Start, WalkState
<1> HIDE DEF s
<1>5. Shows(m, s[0])
  BY <1>1, <1>2, <1>3, <1>4 DEF Shows
<1>6. m \in project.modules => walk[m] = "walking"
  BY DEF Beginning, FirstWalk
<1> QED BY <1>1, <1>5, <1>6 DEF OnTrail

Walks == Inv /\ \A m \in Module : OnTrail(m)

LEMMA WalksKeep ==
  ASSUME Walks, [Next]_vars
  PROVE  Walks'
<1>1. Inv /\ Inv' /\ \A m \in Module : OnTrail(m)
  BY NextKeeps DEF Walks
<1>2. ASSUME NEW m \in Module, WalkStep(m) PROVE Walks'
  <2>1. MemoryKept /\ OnTrail(m)'
    BY <1>1, <1>2, WalkKeeps, WalkOnTrail
  <2>2. CASE ResolveFails(m)
    <3>1. \A n \in Module : walk'[n] = "failed"
      BY <2>2 DEF ResolveFails
    <3> QED BY <1>1, <3>1 DEF OnTrail, Walks
  <2>3. CASE ~ResolveFails(m)
    <3>1. /\ project' = project
          /\ \A n \in Module \ {m} : /\ queue'[n] = queue[n] /\ packages'[n] = packages[n]
                                     /\ walk'[n] = walk[n]
      <4>1. /\ DOMAIN queue = Module /\ DOMAIN packages = Module /\ DOMAIN walk = Module
        BY <1>1 DEF Inv, ResolverTypes
      <4>2. \A x, y, n : n \in Module \ {x} /\ (Skip(x, y) \/ Continue(x, y)) =>
              queue'[n] = queue[n] /\ walk'[n] = walk[n]
        BY <4>1 DEF Skip, Continue
      <4>3. ASSUME NEW c, NEW pom, NEW file, Visit(m, c, pom, file)
            PROVE  /\ project' = project
                   /\ \A n \in Module \ {m} : /\ queue'[n] = queue[n] /\ walk'[n] = walk[n]
                                              /\ packages'[n] = packages[n]
        <5>1. project' = project
          BY <4>3 DEF Visit
        <5>2. CASE Relocate(m, c, pom)
          BY <4>2, <5>1, <5>2 DEF Relocate
        <5>3. CASE Merge(m, c, pom)
          BY <4>1, <4>2, <5>1, <5>3 DEF Merge, MergeWith
        <5>4. CASE Select(m, c, pom, file)
          BY <4>1, <4>2, <5>1, <5>4 DEF Select
        <5> QED BY <4>3, <5>2, <5>3, <5>4 DEF Visit
      <4>4. CASE VisitLocal(m)
        BY <4>3, <4>4 DEF VisitLocal
      <4>5. CASE VisitLoaded(m)
        BY <4>3, <4>5 DEF VisitLoaded
      <4>6. CASE DropExcluded(m)
        BY <4>2, <4>6 DEF DropExcluded
      <4>7. CASE Prefetch(m)
        BY <4>7 DEF Prefetch
      <4>8. CASE Load(m)
        BY <4>1, <4>8 DEF Load
      <4>9. CASE AwaitArtifacts(m)
        BY <4>1, <4>9 DEF AwaitArtifacts
      <4>10. CASE FinishArtifacts(m)
        BY <4>1, <4>10 DEF FinishArtifacts
      <4> QED BY <1>2, <2>3, <4>4, <4>5, <4>6, <4>7, <4>8, <4>9, <4>10 DEF WalkStep
    <3>2. \A n \in Module \ {m} : OnTrail(n)'
      BY <1>1, <2>1, <3>1, OnTrailStays
    <3> QED BY <1>1, <2>1, <3>2 DEF Walks
  <2> QED BY <2>2, <2>3
<1>3. ASSUME UNCHANGED resolverVars, project' = project, MemoryKept PROVE Walks'
  <2>1. \A m \in Module : OnTrail(m)'
    BY <1>1, <1>3, OnTrailStays DEF resolverVars
  <2> QED BY <1>1, <2>1 DEF Walks
<1>4. ASSUME NEW t \in Tasks, FetchOf(t) PROVE Walks'
  <2>1. MemoryKept /\ UNCHANGED resolverVars /\ project' = project
    BY <1>1, <1>4, TasksStay DEF FetchOf
  <2> QED BY <1>3, <2>1
<1>5. CASE Disturbance
  <2>1. MemoryKept /\ UNCHANGED resolverVars /\ project' = project
    BY <1>1, <1>5, DisturbanceKeeps DEF Disturbance
  <2> QED BY <1>3, <2>1
<1>6. CASE UNCHANGED vars
  <2>1. MemoryKept /\ UNCHANGED resolverVars /\ project' = project
    BY <1>6 DEF vars, MemoryKept, clientVars
  <2> QED BY <1>3, <2>1
<1>7. CASE Restart
  <2>1. Beginning'
    BY <1>1, <1>7, RestartBegins
  <2>2. (\A m \in Module : OnTrail(m))'
    BY <2>1, BeginningOnTrail, PTL
  <2> QED BY <1>1, <2>2 DEF Walks
<1> QED BY <1>2, <1>4, <1>5, <1>6, <1>7, Steps

\* Two modules with the same roots under the same management come out of
\* resolve_in_workspace (graph.rs) with the same packages, editions and depths
\* included, however their threads shared the client and whatever the
\* repositories published in between.
THEOREM SameGraph == Spec => []SameProjectSameGraph
<1>1. Init => Walks
  BY InitBegins, BeginningOk, BeginningOnTrail DEF Walks
<1>2. Walks /\ [Next]_vars => Walks'
  BY WalksKeep
<1>3. Walks => SameProjectSameGraph
  <2> SUFFICES ASSUME Walks, NEW m \in project.modules, NEW n \in project.modules,
                      walk[m] = "done", walk[n] = "done",
                      project.roots[m] = project.roots[n], project.managed[m] = project.managed[n]
               PROVE  packages[m] = packages[n]
    BY DEF SameProjectSameGraph
  <2>1. m \in Module /\ n \in Module /\ OnTrail(m) /\ OnTrail(n)
    BY ProjectType DEF Walks, Inv, ResolverTypes
  <2>i. PICK i \in Nat : \E s : Trail(m, i, s) /\ Shows(m, s[i])
    BY <2>1 DEF OnTrail
  <2>2. PICK s : Trail(m, i, s) /\ Shows(m, s[i])
    BY <2>i
  <2>j. PICK j \in Nat : \E t : Trail(n, j, t) /\ Shows(n, t[j])
    BY <2>1 DEF OnTrail
  <2>3. PICK t : Trail(n, j, t) /\ Shows(n, t[j])
    BY <2>j
  <2>4. s[i].queue = <<>> /\ t[j].queue = <<>>
    BY <2>1, <2>2, <2>3 DEF OnTrail, Shows
  <2>5. \A k \in Nat : k <= i /\ k <= j => s[k] = t[k]
    BY <2>1, <2>2, <2>3, OneTrail
  <2>6. ~(i < j)
    <3> SUFFICES ASSUME i < j PROVE FALSE
      OBVIOUS
    <3>1. s[i] = t[i] /\ i \in 0..j /\ i # j
      BY <2>5
    <3> QED BY <2>3, <2>4, <3>1 DEF Trail, MayGoOn
  <2>7. ~(j < i)
    <3> SUFFICES ASSUME j < i PROVE FALSE
      OBVIOUS
    <3>1. s[j] = t[j] /\ j \in 0..i /\ j # i
      BY <2>5
    <3> QED BY <2>2, <2>4, <3>1 DEF Trail, MayGoOn
  <2>8. i = j
    BY <2>6, <2>7
  <2>9. s[i] = t[j]
    BY <2>5, <2>8
  <2> QED BY <2>2, <2>3, <2>9 DEF Shows
<1> QED BY <1>1, <1>2, <1>3, PTL DEF Spec
=============================================================================
