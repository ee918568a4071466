---------------------------- MODULE Dependencies ----------------------------
(***************************************************************************)
(* DependencyResolver::resolve_in_workspace of jman-resolver, run for the  *)
(* modules of an import at once over one RepositoryClient.                 *)
(*                                                                         *)
(* Each resolution takes candidates from a queue, loads their POM, selects *)
(* the first candidate of a package and puts the dependencies of its POM   *)
(* at the end of the queue.  The artifact of a selected package is         *)
(* downloaded by a task of its own; the resolution ends when they have all *)
(* arrived.  Task <<m, 0>> is the walk of module m, task <<m, i>> the      *)
(* download of its i-th package.                                           *)
(*                                                                         *)
(* A package stands for a group, artifact, type and classifier; a POM is   *)
(* effective (parents, properties and imported management applied).  An    *)
(* exclusion is the set of packages its pattern matches.                   *)
(***************************************************************************)
EXTENDS Naturals, Sequences, FiniteSets, SequencesExt

CONSTANTS Module,        \* the modules that are resolved at once
          Coordinate,    \* the coordinates there are: [name, version]
          Repositories,  \* how many repositories are asked
          Directories,   \* those that are directories, named by a file:// URL
          Projects,      \* the situations to resolve (Init picks one)
          MaxPackages    \* bound: packages of a resolution

VARIABLES project,   \* POMs, root dependencies, workspace modules
          walk,      \* walk[m]: where the resolution of m is
          queue,     \* queue[m]: its candidates
          packages,  \* packages[m]: what it has selected, in order
          asked,     \* prefetched_poms
          todo       \* todo[m]: POMs of the prefetch in progress

VARIABLES offline, remote, disk, stored, memory, holder, fetching, mishaps

Path == Coordinate \X {"pom", "jar"}
INSTANCE RepositoryClient
  WITH Task <- Module \X (0..MaxPackages), Artifact <- Coordinate \X {"jar"}

clientVars == <<offline, remote, disk, stored, memory, holder, fetching, mishaps>>
resolverVars == <<walk, queue, packages, asked, todo>>
vars == <<project, resolverVars, clientVars>>

Pom(c) == <<c, "pom">>
Jar(c) == <<c, "jar">>
Walker(m) == <<m, 0>>
TasksOf(m) == {m} \X (0..MaxPackages)

Scope == {"compile", "runtime", "provided", "test", "processor"}
Nowhere == [name |-> "none", version |-> 0]
IsLocal(c) == c \in project.local
Model(c, edition) == project.poms[c][edition]
LocalFile == [repository |-> 0, edition |-> 1]

Name == {c.name : c \in Coordinate}
Declaration == [to : Coordinate, scope : Scope \cup {"unstated"}, optional : BOOLEAN,
                exclusions : SUBSET Name]
PomModel == [deps : Seq(Declaration), moved : Coordinate \cup {Nowhere}]

\* At least one repository is asked; a situation has both editions of every POM
\* and what every repository and its cache hold of every path.
ASSUME SituationAssumption ==
  /\ Repositories \in Nat \ {0} /\ MaxPackages \in Nat /\ Coordinate # {}
  /\ \A p \in Projects :
       /\ p.modules \subseteq Module /\ p.local \subseteq Coordinate
       /\ p.poms \in [Coordinate -> [Edition -> PomModel]]
       /\ p.roots \in [Module -> Seq(Declaration)]
       /\ p.managed \in [Module -> SUBSET Declaration]
       /\ p.remote \in [Repository -> [Path -> Edition \cup {None}]]
       /\ p.disk \in [Repository -> [Path -> Edition \cup {None}]]

----------------------------------------------------------------------------
(* Candidates. *)

Candidate(d, scope, active, parent, depth) ==
  [to |-> d.to, scope |-> scope, excluded |-> active,
   below |-> active \cup d.exclusions, parent |-> parent, depth |-> depth]

RootCandidate(d) == [Candidate(d, d.scope, {}, 0, 1) EXCEPT !.below = d.exclusions]
RootCandidates(m) == [k \in 1..Len(project.roots[m]) |-> RootCandidate(project.roots[m][k])]

Excluded(c) == c.to.name \in c.excluded

\* apply_root_management: the root's version and exclusions, and its scope
\* when it states one.
Managed(m, d) ==
  LET here == {g \in project.managed[m] : g.to.name = d.to.name}
  IN  IF here = {} THEN d
      ELSE LET g == CHOOSE g \in here : TRUE
           IN  [d EXCEPT !.to = g.to, !.exclusions = @ \cup g.exclusions,
                         !.scope = IF g.scope = "unstated" THEN @ ELSE g.scope]

\* derive_scope: the scope a dependency has under a package of scope `parent`.
Derived(parent, child) ==
  IF child \notin {"compile", "runtime"} THEN "none"
  ELSE IF parent = "compile" THEN child
  ELSE IF parent \in Scope THEN parent ELSE "none"

Followed(m, d, scope) == ~d.optional /\ Derived(scope, Managed(m, d).scope) # "none"

\* The items that are kept, in their order.
KeptOf(items, kept) ==
  LET first[k \in 0..Len(items)] ==
        IF k = 0 THEN <<>>
        ELSE IF kept[k] THEN Append(first[k - 1], items[k]) ELSE first[k - 1]
  IN  first[Len(items)]

\* enqueue_children
Children(m, pom, c, parent) ==
  LET deps == pom.deps
      Child(d) == Candidate(Managed(m, d), Derived(c.scope, Managed(m, d).scope),
                            c.below, parent, c.depth + 1)
  IN  KeptOf([k \in 1..Len(deps) |-> Child(deps[k])],
             [k \in 1..Len(deps) |-> Followed(m, deps[k], c.scope)])

\* A bug: depth first.
EnqueueFirst(q, children) == children \o q

Enqueue(q, children) == q \o children

\* prefetch_candidate_poms: the POMs of the queue not yet asked for.
Wanted(q, before) ==
  LET poms == {q[k].to : k \in {k \in 1..Len(q) : ~Excluded(q[k])}} \ before
  IN  SetToSeq(poms)

----------------------------------------------------------------------------
IndexOf(m, c) ==
  LET here == {i \in 1..Len(packages[m]) : packages[m][i].at.name = c.to.name}
  IN  IF here = {} THEN 0 ELSE CHOOSE i \in here : TRUE

AddEdge(ps, parent, child) ==
  IF parent = 0 THEN ps ELSE [ps EXCEPT ![parent].edges = @ \cup {child}]

\* The next round of the loop: ask for the POMs of queue q in advance.
Continue(m, q) ==
  /\ queue' = [queue EXCEPT ![m] = q]
  /\ todo' = [todo EXCEPT ![m] = Wanted(q, asked[m])]
  /\ asked' = [asked EXCEPT ![m] = @ \cup ToSet(Wanted(q, asked[m]))]
  /\ walk' = [walk EXCEPT ![m] = "walking"]

\* `continue`: nothing is asked for in advance.
Skip(m, q) ==
  /\ queue' = [queue EXCEPT ![m] = q]
  /\ walk' = [walk EXCEPT ![m] = "walking"]
  /\ UNCHANGED <<todo, asked>>

\* A bug: a POM that names its own coordinate is followed as well.
MovedAnywhere(c, pom) == pom.moved # Nowhere

\* A candidate whose POM names another coordinate takes its place.
MovedAway(c, pom) == pom.moved \notin {Nowhere, c.to}

Relocate(m, c, pom) ==
  /\ MovedAway(c, pom)
  /\ Skip(m, <<[c EXCEPT !.to = pom.moved]>> \o Tail(queue[m]))
  /\ UNCHANGED <<packages, fetching>>

\* A package that is selected already gains an edge, and with a new scope the
\* POM `expanded` is expanded.
MergeWith(m, c, pom, expanded) ==
  LET i == IndexOf(m, c)
      edged == AddEdge(packages[m], c.parent, packages[m][i].at)
  IN  /\ ~MovedAway(c, pom)
      /\ i # 0
      /\ IF c.scope \in packages[m][i].scopes
           THEN packages' = [packages EXCEPT ![m] = edged] /\ Skip(m, Tail(queue[m]))
           ELSE /\ packages' = [packages EXCEPT ![m] =
                                  [edged EXCEPT ![i].scopes = @ \cup {c.scope}]]
                /\ Continue(m, Enqueue(Tail(queue[m]), Children(m, expanded, c, i)))
      /\ UNCHANGED fetching

\* The POM of the version that a known package was selected with.
SelectedPom(m, c) ==
  LET p == packages[m][IndexOf(m, c)] IN Model(p.at, p.pom.edition)

\* A bug: the version of the candidate is expanded, not the selected one.
MergeOwn(m, c, pom) == MergeWith(m, c, pom, pom)

Merge(m, c, pom) == MergeWith(m, c, pom, SelectedPom(m, c))

HasArtifact(c) == ~IsLocal(c) /\ c.name \notin project.pomTyped

\* The first candidate of a package is selected; its artifact is downloaded.
Select(m, c, pom, file) ==
  LET i == Len(packages[m]) + 1
      new == [at |-> c.to, pom |-> file, scopes |-> {c.scope}, parent |-> c.parent,
              depth |-> c.depth, edges |-> {}, artifact |-> NoFile, path |-> Pom(c.to)]
  IN  /\ ~MovedAway(c, pom)
      /\ IndexOf(m, c) = 0
      /\ i <= MaxPackages
      /\ packages' = [packages EXCEPT ![m] = AddEdge(Append(@, new), c.parent, c.to)]
      /\ fetching' = IF HasArtifact(c.to) THEN Request(fetching, <<m, i>>, Jar(c.to))
                                          ELSE fetching
      /\ Continue(m, Enqueue(Tail(queue[m]), Children(m, pom, c, i)))

Visit(m, c, pom, file) ==
  /\ Relocate(m, c, pom) \/ Merge(m, c, pom) \/ Select(m, c, pom, file)
  /\ UNCHANGED <<project, offline, remote, disk, stored, memory, holder, mishaps>>

FirstWalk == [m \in Module |-> IF m \in project.modules THEN "walking" ELSE "done"]
FirstQueue == [m \in Module |-> RootCandidates(m)]
FirstTodo == [m \in Module |-> Wanted(RootCandidates(m), {})]
FirstAsked == [m \in Module |-> ToSet(Wanted(RootCandidates(m), {}))]
NoPackages == [m \in Module |-> <<>>]
NothingFetched == [p \in Path |-> NoFile]
NoLocks == [p \in Path |-> Free]
NoTasks == [t \in Module \X (0..MaxPackages) |-> Idle]

----------------------------------------------------------------------------
(* Steps of the walk of module m. *)

Ready(m) == walk[m] = "walking" /\ todo[m] = <<>> /\ Resting(Walker(m))
First(m) == Head(queue[m])

\* The next POM is asked for in advance; an answer that is an error is ignored.
\* The requests of one prefetch run side by side, on different paths.
Prefetch(m) ==
  /\ walk[m] = "walking" /\ todo[m] # <<>> /\ Resting(Walker(m))
  /\ todo' = [todo EXCEPT ![m] = Tail(@)]
  /\ fetching' = Request(fetching, Walker(m), Pom(Head(todo[m])))
  /\ UNCHANGED <<project, walk, queue, packages, asked, offline, remote, disk, stored,
                 memory, holder, mishaps>>

DropExcluded(m) ==
  /\ Ready(m) /\ queue[m] # <<>> /\ Excluded(First(m))
  /\ Skip(m, Tail(queue[m]))
  /\ UNCHANGED <<project, packages, clientVars>>

\* The model of a workspace module is known; any other POM is fetched.
VisitLocal(m) ==
  /\ Ready(m) /\ queue[m] # <<>> /\ ~Excluded(First(m)) /\ IsLocal(First(m).to)
  /\ Visit(m, First(m), Model(First(m).to, 1), LocalFile)

Load(m) ==
  /\ Ready(m) /\ queue[m] # <<>> /\ ~Excluded(First(m)) /\ ~IsLocal(First(m).to)
  /\ walk' = [walk EXCEPT ![m] = "loading"]
  /\ fetching' = Request(fetching, Walker(m), Pom(First(m).to))
  /\ UNCHANGED <<project, queue, packages, asked, todo, offline, remote, disk, stored,
                 memory, holder, mishaps>>

VisitLoaded(m) ==
  LET file == fetching[Walker(m)].file
  IN  /\ walk[m] = "loading" /\ fetching[Walker(m)].at = "done"
      /\ Visit(m, First(m), Model(First(m).to, file.edition), file)

\* The queue is empty: the downloads are awaited, in whatever order they end,
\* and each artifact goes to its own package.
AwaitArtifacts(m) ==
  /\ Ready(m) /\ queue[m] = <<>>
  /\ walk' = [walk EXCEPT ![m] = "joining"]
  /\ UNCHANGED <<project, queue, packages, asked, todo, clientVars>>

Downloads(m) == {i \in 1..Len(packages[m]) : HasArtifact(packages[m][i].at)}

\* A bug: the k-th download goes to the k-th package.
ArrivedInOrder(m) ==
  LET order == SetToSortSeq(Downloads(m), <)
  IN  [i \in 1..Len(packages[m]) |->
         IF i <= Len(order)
           THEN [packages[m][i] EXCEPT !.artifact = fetching[<<m, order[i]>>].file,
                                       !.path = PathOf(<<m, order[i]>>)]
           ELSE packages[m][i]]

Arrived(m) == [i \in 1..Len(packages[m]) |->
  IF i \in Downloads(m)
    THEN [packages[m][i] EXCEPT !.artifact = fetching[<<m, i>>].file,
                                !.path = PathOf(<<m, i>>)]
    ELSE packages[m][i]]

FinishArtifacts(m) ==
  /\ walk[m] = "joining"
  /\ \A i \in Downloads(m) : fetching[<<m, i>>].at = "done"
  /\ packages' = [packages EXCEPT ![m] = Arrived(m)]
  /\ walk' = [walk EXCEPT ![m] = "done"]
  /\ UNCHANGED <<project, queue, asked, todo, clientVars>>

\* An error of a POM that mediation needs, or of a download, ends the import:
\* every task is dropped, with the locks it owns.
ResolveFails(m) ==
  /\ \/ walk[m] = "loading" /\ fetching[Walker(m)].at = "error"
     \/ walk[m] = "joining" /\ \E i \in Downloads(m) : fetching[<<m, i>>].at = "error"
  /\ walk' = [x \in Module |-> "failed"]
  /\ fetching' = NoTasks /\ holder' = NoLocks
  /\ UNCHANGED <<project, queue, packages, asked, todo, offline, remote, disk, stored,
                 memory, mishaps>>

WalkStep(m) ==
  \/ Prefetch(m) \/ DropExcluded(m) \/ VisitLocal(m) \/ Load(m) \/ VisitLoaded(m)
  \/ AwaitArtifacts(m) \/ FinishArtifacts(m) \/ ResolveFails(m)

----------------------------------------------------------------------------
Init ==
  /\ project \in Projects
  /\ offline = project.offline
  /\ remote = project.remote
  /\ disk = project.disk
  /\ stored = {}
  /\ mishaps = 0
  /\ walk = FirstWalk /\ queue = FirstQueue /\ todo = FirstTodo /\ asked = FirstAsked
  /\ packages = NoPackages
  /\ memory = NothingFetched /\ holder = NoLocks /\ fetching = NoTasks

\* The process is killed and the command given again.
Restart ==
  /\ UNCHANGED <<project, offline, remote, disk, stored>>
  /\ walk' = FirstWalk /\ queue' = FirstQueue /\ todo' = FirstTodo /\ asked' = FirstAsked
  /\ packages' = NoPackages
  /\ memory' = NothingFetched /\ holder' = NoLocks /\ fetching' = NoTasks
  /\ mishaps' = mishaps + 1

\* A project names the kinds of mishaps it meets, and how many.
Mishap ==
  /\ mishaps < project.mishaps
  /\ \/ /\ "failure" \in project.kinds
        /\ \E t \in Module \X (0..MaxPackages) : FetchFails(t)
        /\ UNCHANGED <<project, resolverVars>>
     \/ /\ "change" \in project.kinds
        /\ \E r \in Repository, p \in Path : Republish(r, p) \/ Neighbour(r, p)
        /\ UNCHANGED <<project, resolverVars>>
     \/ "kill" \in project.kinds /\ Restart

FetchOf(t) == FetchStep(t) /\ UNCHANGED <<project, resolverVars>>

\* What the future of module m does: its walk, and the tasks it has spawned.
Poll(m) == WalkStep(m) \/ \E t \in TasksOf(m) : FetchOf(t)

Next == (\E m \in Module : Poll(m)) \/ Mishap

Spec == Init /\ [][Next]_vars

\* The runtime polls a future that can go on, as long as there is one.
FairSpec == Spec /\ WF_vars(\E m \in Module : Poll(m))

----------------------------------------------------------------------------
(* What a resolution must have found when its queue is empty. *)

Walked == {m \in project.modules : walk[m] \in {"joining", "done"}}
Selected(m) == 1..Len(packages[m])
PomOf(m, i) == Model(packages[m][i].at, packages[m][i].pom.edition)

\* Where the POM of c, as this process has seen it, sends a candidate.
Target(c) ==
  LET pom == IF IsLocal(c) THEN Model(c, 1) ELSE Model(c, memory[Pom(c)].edition)
  IN  IF ~IsLocal(c) /\ memory[Pom(c)] = NoFile THEN c
      ELSE IF MovedAway([to |-> c], pom) THEN pom.moved ELSE c

\* The packages that no exclusion of the project names.
Exclusions ==
  UNION ({d.exclusions : d \in UNION {ToSet(project.roots[m]) \cup project.managed[m] :
                                         m \in project.modules}}
         \cup {d.exclusions : d \in UNION {ToSet(project.poms[c][e].deps) :
                                              c \in Coordinate, e \in Edition}})

\* What the selected packages declare and must get, as the root manages it.
Binding(m, d) ==
  /\ ~d.optional /\ Managed(m, d).scope \in {"compile", "runtime"}
  /\ {Managed(m, d).to.name, Target(Managed(m, d).to).name} \cap Exclusions = {}

Declared(m) ==
  UNION {{[from |-> j, to |-> Target(Managed(m, d).to), scope |-> Managed(m, d).scope] :
            d \in {d \in ToSet(PomOf(m, j).deps) : Binding(m, d)}} : j \in Selected(m)}

\* The artifact of a resolved package is its own, and a whole copy of its bytes
\* is in the content store, whoever downloaded it, even when the process was
\* killed after the bytes had been cached (repository.rs content_addressed_path,
\* graph.rs finish_artifacts).
ArtifactsAreStored ==
  \A m \in project.modules : walk[m] = "done" =>
    \A i \in Downloads(m) : /\ packages[m][i].path = Jar(packages[m][i].at)
                            /\ <<Jar(packages[m][i].at), packages[m][i].artifact.edition>>
                                 \in stored

\* Modules with the same dependencies get the same packages, checksums, scopes
\* and edges, in the same order, whatever was downloaded first and whatever was
\* published or cached in between (repository.rs fetch, graph.rs).
SameProjectSameGraph ==
  \A m, n \in project.modules :
    (/\ walk[m] = "done" /\ walk[n] = "done"
     /\ project.roots[m] = project.roots[n] /\ project.managed[m] = project.managed[n])
    => packages[m] = packages[n]

\* The selected version is the nearest to the root, and the first declared among
\* equally near ones, through relocations, cycles and packages that gain a scope
\* later (docs/product-contract.md:34, graph.rs resolve_in_workspace).
NearestWins ==
  \A m \in Walked : \A i \in Selected(m) :
    /\ \A x \in Declared(m) : x.to.name = packages[m][i].at.name =>
         \/ packages[m][i].depth < packages[m][x.from].depth + 1
         \/ /\ packages[m][i].depth = packages[m][x.from].depth + 1
            /\ packages[m][i].parent <= x.from
    /\ \A k \in DOMAIN project.roots[m] :
         Target(project.roots[m][k].to).name = packages[m][i].at.name => packages[m][i].depth = 1

\* Whatever a selected package needs in one of its scopes is selected, in the
\* scope derived from it: a classpath that has a package has what it needs,
\* also when the scope came after the package was expanded (graph.rs:281-305).
ScopesClosed ==
  \A m \in Walked : \A x \in Declared(m) : \A s \in packages[m][x.from].scopes :
    \E i \in Selected(m) : /\ packages[m][i].at.name = x.to.name
                           /\ Derived(s, x.scope) \in packages[m][i].scopes

\* Every resolution of an import ends, with a graph or an error, though modules
\* wait for each other's downloads, dependencies form cycles and a POM may name
\* its own coordinate as its new one (graph.rs:246, repository.rs:188-198).
ResolutionEnds == <>(\A m \in Module : walk[m] \in {"done", "failed"})
=============================================================================
