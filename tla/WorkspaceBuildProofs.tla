------------------------ MODULE WorkspaceBuildProofs ------------------------
(***************************************************************************)
(* Proofs about WorkspaceBuild for every module graph, number of jobs and  *)
(* bound: types and scheduling for any set of processes, and the freshness *)
(* properties for the builds of one process at a time over inputs that are *)
(* never put back to an earlier content.  Then proofs about TestRuns:      *)
(* tests are fresh until two commands overlap.                             *)
(***************************************************************************)
EXTENDS TestRuns, TLAPS

------------------------------------------------------------------------------
(* Trees.                                                                  *)

\* The closure of a module is a set of modules that contains the module.
LEMMA ClosureFacts ==
    ASSUME NEW m \in Module
    PROVE  m \in Closure(m) /\ Closure(m) \subseteq Module
BY DEF Closure, Upstream

\* Upstream is the least set that holds the compile dependencies and is
\* closed under them.
LEMMA UpstreamLeast ==
    ASSUME NEW m \in Module, NEW S \in SUBSET Module,
           CompileDeps[m] \subseteq S,
           \A e \in S : CompileDeps[e] \subseteq S
    PROVE  Upstream(m) \subseteq S
BY DEF Upstream

\* The empty tree is a tree of every module.
LEMMA NoTreeType == NoTree \in Tree /\ \A m \in Module : NoTree \in TreeOf(m)
<1>1. 0 \in Version
  BY BoundAssumption DEF Version
<1> QED
  BY <1>1 DEF NoTree, Tree, TreeOf

\* What is fingerprinted for a module, and what javac makes of it, mentions
\* the module's closure only.
LEMMA TreesOfAModule ==
    ASSUME TypeOK, NEW p \in Proc, NEW m \in Module
    PROVE  Fingerprint(p, m) \in TreeOf(m) /\ Compiled(m) \in TreeOf(m)
<1>1. seen[p] \in Tree /\ 0 \in Version
  BY BoundAssumption DEF TypeOK, Version
<1>2. Fingerprint(p, m) \in TreeOf(m)
  BY <1>1 DEF Fingerprint, TreeOf, Tree
<1>3. \A d \in Module : src[d] \in Version /\ classes[d][d] \in Version
  BY DEF TypeOK, Tree, Version
<1>4. Compiled(m) \in Tree
  BY <1>1, <1>3 DEF Compiled, Tree
<1>5. \A d \in Module \ Closure(m) : Compiled(m)[d] = 0
  BY DEF Compiled, Closure
<1> QED
  BY <1>2, <1>4, <1>5 DEF TreeOf

------------------------------------------------------------------------------
(* Type correctness.                                                       *)

LEMMA TypeInit == Init => TypeOK
<1> SUFFICES ASSUME Init PROVE TypeOK
  OBVIOUS
<1>1. 1 \in 1..MaxVersion /\ builds \in 0..MaxBuilds
  BY BoundAssumption DEF Init
<1> QED
  BY <1>1, NoTreeType DEF Init, TypeOK, Stage

\* Leaving a build, in whichever way, keeps the types of what it held.
LEMMA TypeAbandon ==
    ASSUME TypeOK, NEW p \in Proc, NEW outcome \in {"ok", "failed", "killed"},
           Abandon(p, outcome), UNCHANGED <<src, builds, rebuild>>,
           classes' \in [Module -> Tree], state' \in [Module -> Tree],
           \A m \in Module :
               classes'[m] \in TreeOf(m) /\ state'[m] \in TreeOf(m)
    PROVE  TypeOK'
<1> DEFINE empty == [m \in Module |-> NoTree]
<1>1. /\ empty \in [Module -> Tree] /\ NoTree \in Tree
      /\ \A m \in Module : empty[m] \in TreeOf(m)
  BY NoTreeType
<1>2. [m \in Module |-> "waiting"] \in [Module -> Stage]
  BY DEF Stage
<1>3. [m \in Module |-> {}] \in [Module -> SUBSET (1..MaxVersion)]
  OBVIOUS
<1>4. /\ temp' = [temp EXCEPT ![p] = empty] /\ backup' = [backup EXCEPT ![p] = empty]
      /\ seen' = [seen EXCEPT ![p] = NoTree]
  BY DEF Abandon
<1> HIDE DEF empty
<1>5. temp' \in [Proc -> [Module -> Tree]] /\ backup' \in [Proc -> [Module -> Tree]]
  BY <1>1, <1>4 DEF TypeOK
<1>6. \A q \in Proc : \A m \in Module :
          temp'[q][m] \in TreeOf(m) /\ backup'[q][m] \in TreeOf(m)
  BY <1>1, <1>4 DEF TypeOK
<1>7. seen' \in [Proc -> Tree]
  BY <1>1, <1>4 DEF TypeOK
<1>8. /\ status' \in [Proc -> {"idle", "running", "ok", "failed", "killed"}]
      /\ complete' \in [Proc -> SUBSET Module] /\ layer' \in [Proc -> SUBSET Module]
  BY DEF TypeOK, Abandon
<1>9. /\ stage' \in [Proc -> [Module -> Stage]]
      /\ since' \in [Proc -> [Module -> SUBSET (1..MaxVersion)]]
  BY <1>2, <1>3 DEF TypeOK, Abandon
<1> QED
  BY <1>5, <1>6, <1>7, <1>8, <1>9 DEF TypeOK

\* Tearing a state file leaves nothing or what was there.
LEMMA TypeTear ==
    ASSUME TypeOK, NEW p \in Proc, TearState(p)
    PROVE  /\ state' \in [Module -> Tree]
           /\ \A m \in Module : state'[m] \in TreeOf(m)
BY NoTreeType DEF TypeOK, TearState

\* No action of a running module leaves the types.
LEMMA TypeModuleStep ==
    ASSUME TypeOK, NEW p \in Proc, NEW m \in Module, ModuleStep(p, m)
    PROVE  TypeOK'
<1> USE DEF TypeOK, Stage
<1>1. CASE Hash(p, m)
  <2>1. src[m] \in Version
    BY DEF Version
  <2> QED
    BY <1>1, <2>1 DEF Hash, Tree, disk
<1>2. CASE Reuse(p, m)
  BY <1>2 DEF Reuse, disk
<1>3. CASE Compile(p, m)
  <2>1. Compiled(m) \in TreeOf(m) /\ Compiled(m) \in Tree
    BY TreesOfAModule DEF TreeOf
  <2> QED
    BY <1>3, <2>1 DEF Compile, disk
<1>4. CASE Park(p, m)
  BY <1>4, NoTreeType DEF Park
<1>5. CASE Place(p, m)
  BY <1>5, NoTreeType DEF Place
<1>6. CASE WriteState(p, m)
  <2>1. Fingerprint(p, m) \in TreeOf(m) /\ Fingerprint(p, m) \in Tree
    BY TreesOfAModule DEF TreeOf
  <2> QED
    BY <1>6, <2>1 DEF WriteState
<1> QED
  BY <1>1, <1>2, <1>3, <1>4, <1>5, <1>6 DEF ModuleStep

LEMMA TypeFail ==
    ASSUME TypeOK, NEW p \in Proc, NEW m \in Module, Fail(p, m)
    PROVE  TypeOK'
<1>1. /\ classes' \in [Module -> Tree]
      /\ \A k \in Module : classes'[k] \in TreeOf(k)
  BY DEF Fail, TypeOK
<1> QED
  BY <1>1, TypeTear, TypeAbandon DEF Fail

LEMMA TypeNext == TypeOK /\ [Next]_vars => TypeOK'
<1> SUFFICES ASSUME TypeOK, [Next]_vars PROVE TypeOK'
  OBVIOUS
<1>1. ASSUME NEW m \in Module, Edit(m) PROVE TypeOK'
  <2>1. PICK v \in 1..MaxVersion :
            /\ src' = [src EXCEPT ![m] = v]
            /\ since' = [p \in Proc |->
                            IF status[p] = "running"
                            THEN [since[p] EXCEPT ![m] = @ \cup {v}]
                            ELSE since[p]]
            /\ UNCHANGED <<disk, builds, status, rebuild, progress>>
    BY <1>1 DEF Edit
  <2>2. src' \in [Module -> 1..MaxVersion]
    BY <2>1 DEF TypeOK
  <2>3. since' \in [Proc -> [Module -> SUBSET (1..MaxVersion)]]
    BY <2>1 DEF TypeOK
  <2> QED
    BY <2>1, <2>2, <2>3 DEF TypeOK, disk, progress
<1>2. ASSUME NEW p \in Proc, StartBuild(p) PROVE TypeOK'
  <2>1. LayerAfter({}) \in SUBSET Module
    BY DEF LayerAfter
  <2>2. [m \in Module |-> {src[m]}] \in [Module -> SUBSET (1..MaxVersion)]
    BY DEF TypeOK
  <2>3. builds' \in 0..MaxBuilds
    BY <1>2, BoundAssumption DEF StartBuild, TypeOK
  <2>4. rebuild' \in [Proc -> BOOLEAN]
    BY <1>2 DEF StartBuild, TypeOK
  <2> QED
    BY <1>2, <2>1, <2>2, <2>3, <2>4 DEF StartBuild, TypeOK, disk
<1>3. ASSUME NEW p \in Proc, BuildStep(p) PROVE TypeOK'
  <2>1. CASE \E m \in Module : ModuleStep(p, m)
    BY <2>1, TypeModuleStep
  <2>2. CASE NextLayer(p)
    <3>1. LayerAfter(complete[p] \cup layer[p]) \in SUBSET Module
      BY DEF LayerAfter
    <3> QED
      BY <2>2, <3>1 DEF NextLayer, TypeOK, disk
  <2>3. CASE FinishBuild(p)
    BY <2>3, TypeAbandon DEF FinishBuild, TypeOK, disk
  <2> QED
    BY <1>3, <2>1, <2>2, <2>3 DEF BuildStep
<1>4. ASSUME NEW p \in Proc, Kill(p) PROVE TypeOK'
  <2>1. classes' = classes /\ TearState(p)
    BY <1>4 DEF Kill
  <2> QED
    BY <1>4, <2>1, TypeTear, TypeAbandon DEF Kill, TypeOK
<1>5. ASSUME NEW p \in Proc, NEW m \in Module, Fail(p, m) PROVE TypeOK'
  BY <1>5, TypeFail
<1>6. CASE UNCHANGED vars
  BY <1>6 DEF vars, disk, progress, TypeOK
<1> QED
  BY <1>1, <1>2, <1>3, <1>4, <1>5, <1>6 DEF Next

\* Every variable keeps its type, and no output or record of a module ever
\* depends on a module outside its production closure.
THEOREM TypeCorrect == Spec => []TypeOK
<1> QED
  BY TypeInit, TypeNext, PTL DEF Spec

------------------------------------------------------------------------------
(* Scheduling, for any number of processes.                                *)

\* What topological_layers and try_collect keep: finished layers are closed
\* under dependencies and really finished, the current layer depends on them
\* only, and nothing outside of both has begun.
Scheduled ==
    \A p \in Proc :
        /\ status[p] # "running" =>
              complete[p] = {} /\ layer[p] = {}
        /\ \A m \in complete[p] :
              stage[p][m] = "done" /\ Deps[m] \subseteq complete[p]
        /\ \A m \in layer[p] :
              m \notin complete[p] /\ Deps[m] \subseteq complete[p]
        /\ \A m \in Module :
              stage[p][m] # "waiting" => m \in complete[p] \cup layer[p]

\* What is upstream of a module of the current layer has finished.
LEMMA UpstreamComplete ==
    ASSUME TypeOK, Scheduled, NEW p \in Proc, NEW m \in layer[p]
    PROVE  Upstream(m) \subseteq complete[p]
<1>1. m \in Module /\ complete[p] \in SUBSET Module
  BY DEF TypeOK
<1>2. CompileDeps[m] \subseteq complete[p]
  BY <1>1, GraphAssumption DEF Scheduled
<1>3. \A e \in complete[p] : CompileDeps[e] \subseteq complete[p]
  BY <1>1, GraphAssumption DEF Scheduled
<1> QED
  BY <1>1, <1>2, <1>3, UpstreamLeast

LEMMA ScheduledImplies == TypeOK /\ Scheduled => NoLostPredecessor
BY UpstreamComplete DEF NoLostPredecessor, Scheduled

\* A process that leaves its build has nothing scheduled.
LEMMA ScheduledAbandon ==
    ASSUME TypeOK, Scheduled, NEW p \in Proc,
           NEW outcome \in {"ok", "failed", "killed"}, Abandon(p, outcome)
    PROVE  Scheduled'
BY DEF TypeOK, Scheduled, Abandon

\* Moving one module of the layer on to another stage.
LEMMA ScheduledStage ==
    ASSUME TypeOK, Scheduled, NEW p \in Proc, NEW m \in layer[p],
           NEW s \in Stage,
           stage' = [stage EXCEPT ![p][m] = s],
           UNCHANGED <<status, complete, layer>>
    PROVE  Scheduled'
BY DEF TypeOK, Scheduled

\* Only modules of the current layer are between waiting and done.
LEMMA BusyInLayer ==
    ASSUME TypeOK, Scheduled, NEW p \in Proc, NEW m \in Module,
           stage[p][m] \notin {"waiting", "done"}
    PROVE  m \in layer[p]
BY DEF TypeOK, Scheduled

LEMMA ScheduledNext == TypeOK /\ Scheduled /\ [Next]_vars => Scheduled'
<1> SUFFICES ASSUME TypeOK, Scheduled, [Next]_vars PROVE Scheduled'
  OBVIOUS
<1>1. ASSUME NEW m \in Module, Edit(m) PROVE Scheduled'
  BY <1>1 DEF Edit, progress, Scheduled
<1>2. ASSUME NEW p \in Proc, StartBuild(p) PROVE Scheduled'
  BY <1>2 DEF StartBuild, TypeOK, Scheduled, LayerAfter
<1>3. ASSUME NEW p \in Proc, NEW m \in Module, ModuleStep(p, m)
      PROVE  Scheduled'
  <2>1. CASE Hash(p, m)
    BY <2>1, ScheduledStage DEF Hash, Stage
  <2>2. CASE Reuse(p, m)
    BY <2>2, ScheduledStage, BusyInLayer DEF Reuse, Stage
  <2>3. CASE Compile(p, m)
    BY <2>3, ScheduledStage, BusyInLayer DEF Compile, Stage
  <2>4. CASE Park(p, m)
    BY <2>4, ScheduledStage, BusyInLayer DEF Park, Stage
  <2>5. CASE Place(p, m)
    BY <2>5, ScheduledStage, BusyInLayer DEF Place, Stage
  <2>6. CASE WriteState(p, m)
    BY <2>6, ScheduledStage, BusyInLayer DEF WriteState, Stage
  <2> QED
    BY <1>3, <2>1, <2>2, <2>3, <2>4, <2>5, <2>6 DEF ModuleStep
<1>4. ASSUME NEW p \in Proc, NextLayer(p) PROVE Scheduled'
  BY <1>4 DEF NextLayer, TypeOK, Scheduled, LayerAfter
<1>5. ASSUME NEW p \in Proc, FinishBuild(p) PROVE Scheduled'
  BY <1>5, ScheduledAbandon DEF FinishBuild
<1>6. ASSUME NEW p \in Proc, Kill(p) PROVE Scheduled'
  BY <1>6, ScheduledAbandon DEF Kill
<1>7. ASSUME NEW p \in Proc, NEW m \in Module, Fail(p, m) PROVE Scheduled'
  BY <1>7, ScheduledAbandon DEF Fail
<1>8. CASE UNCHANGED vars
  BY <1>8 DEF vars, progress, Scheduled
<1> QED
  BY <1>1, <1>2, <1>3, <1>4, <1>5, <1>6, <1>7, <1>8 DEF Next, BuildStep

LEMMA ScheduledInit == Init => Scheduled
BY DEF Init, Scheduled

\* "module scheduler lost a predecessor result" is unreachable: whatever a
\* process compiles, everything upstream has finished in the same build,
\* for any graph and however many other builds interfere.
THEOREM SchedulerKeepsPredecessors == Spec => []NoLostPredecessor
<1>1. Spec => [](TypeOK /\ Scheduled)
  BY TypeInit, TypeNext, ScheduledInit, ScheduledNext, PTL DEF Spec
<1> QED
  BY <1>1, ScheduledImplies, PTL

------------------------------------------------------------------------------
(* Freshness, for builds of one process at a time over inputs that are     *)
(* never put back to an earlier content.                                   *)

OneProcess == \A p, q \in Proc : p = q

\* Nothing on disk or in memory is newer than the sources.
NotBeyondSources ==
    /\ \A m, d \in Module : classes[m][d] <= src[d] /\ state[m][d] <= src[d]
    /\ \A p \in Proc : \A m, d \in Module :
          /\ seen[p][m] <= src[m]
          /\ temp[p][m][d] <= src[d]
          /\ backup[p][m][d] <= src[d]

\* The tree t could be the output of m: no state file is ahead of it.
Covers(m, t) ==
    t[m] # 0 =>
        /\ \A d \in Closure(m) : state[m][d] <= t[d]
        /\ \A k \in Module : m \in Closure(k) => state[k][m] <= t[m]

\* The outputs on disk, and the backup a failed swap would put back.
OutputsCover ==
    /\ \A m \in Module : Covers(m, classes[m])
    /\ \A p \in Proc : \A m \in Module :
          stage[p][m] = "parked" => Covers(m, backup[p][m])

\* What javac has produced, before it takes the place of the output.
TempCovers ==
    \A p \in Proc : \A m \in Module :
        stage[p][m] \in {"compiled", "parked"} =>
            /\ temp[p][m][m] # 0
            /\ Covers(m, temp[p][m])
            /\ \A d \in Closure(m) : seen[p][d] <= temp[p][m][d]

\* What this build has put in place or found there.
ResultCovers ==
    \A p \in Proc : \A m \in Module :
        stage[p][m] \in {"placed", "done"} =>
            /\ HasClasses(m)
            /\ \A d \in Closure(m) : seen[p][d] <= classes[m][d]

\* A fingerprint in memory is never older than one in a state file.
SeenAfterRecord ==
    \A p \in Proc : \A m, d \in Module :
        stage[p][d] # "waiting" /\ d \in Closure(m) =>
            state[m][d] <= seen[p][d]

\* A module is compiled for a reason.
WhyCompiled ==
    \A p \in Proc : \A m \in Module :
        stage[p][m] \in {"compiled", "parked"} =>
            \/ rebuild[p]
            \/ ~HasClasses(m)
            \/ \E d \in Closure(m) : state[m][d] # seen[p][d]

\* "since" holds every version from the first the build may have read to the
\* present one.
SinceInterval ==
    \A p \in Proc : \A m \in Module :
        /\ IF status[p] = "running" THEN src[m] \in since[p][m]
                                    ELSE since[p][m] = {}
        /\ \A v \in since[p][m] : \A w \in Nat :
              v <= w /\ w <= src[m] => w \in since[p][m]
        /\ stage[p][m] # "waiting" => seen[p][m] \in since[p][m]

FreshInv ==
    /\ NotBeyondSources
    /\ OutputsCover
    /\ TempCovers
    /\ ResultCovers
    /\ SeenAfterRecord
    /\ WhyCompiled
    /\ SinceInterval

\* Versions are numbers, before and after a step.
Numbers ==
    /\ \A m, d \in Module :
          src[m] \in Nat /\ classes[m][d] \in Nat /\ state[m][d] \in Nat
    /\ \A p \in Proc : \A m, d \in Module :
          /\ seen[p][m] \in Nat
          /\ temp[p][m][d] \in Nat
          /\ backup[p][m][d] \in Nat

LEMMA NumbersBefore == TypeOK => Numbers
BY BoundAssumption DEF TypeOK, Tree, Version, Numbers

LEMMA NumbersAfter == TypeOK' => Numbers'
BY BoundAssumption DEF TypeOK, Tree, Version, Numbers

\* Once a module has begun, everything else in its closure is done.
LEMMA RestIsDone ==
    ASSUME TypeOK, Scheduled, NEW p \in Proc, NEW m \in Module,
           stage[p][m] # "waiting" \/ m \in layer[p],
           NEW d \in Closure(m), d # m
    PROVE  d \in Module /\ stage[p][d] = "done"
<1>1. complete[p] \in SUBSET Module
  BY DEF TypeOK
<1>2. CASE m \in layer[p]
  BY <1>1, <1>2, UpstreamComplete DEF Closure, Scheduled
<1>3. CASE m \in complete[p]
  <2>1. CompileDeps[m] \subseteq complete[p]
    BY <1>1, <1>3, GraphAssumption DEF Scheduled
  <2>2. \A e \in complete[p] : CompileDeps[e] \subseteq complete[p]
    BY <1>1, GraphAssumption DEF Scheduled
  <2> QED
    BY <1>1, <2>1, <2>2, UpstreamLeast DEF Closure, Scheduled
<1> QED
  BY <1>2, <1>3 DEF Scheduled

LEMMA FreshInit == OneProcess /\ Init => FreshInv
<1> SUFFICES ASSUME OneProcess, Init PROVE FreshInv
  OBVIOUS
<1>1. \A m, d \in Module :
          src[m] = 1 /\ classes[m][d] = 0 /\ state[m][d] = 0
  BY DEF Init, NoTree
<1>2. \A p \in Proc : \A m, d \in Module :
          /\ seen[p][m] = 0 /\ temp[p][m][d] = 0 /\ backup[p][m][d] = 0
          /\ stage[p][m] = "waiting" /\ since[p][m] = {}
          /\ status[p] = "idle"
  BY DEF Init, NoTree
<1>3. NotBeyondSources
  BY <1>1, <1>2 DEF NotBeyondSources
<1>4. OutputsCover /\ TempCovers /\ ResultCovers
  BY <1>1, <1>2 DEF OutputsCover, TempCovers, ResultCovers, Covers
<1>5. SeenAfterRecord /\ WhyCompiled /\ SinceInterval
  BY <1>1, <1>2 DEF SeenAfterRecord, WhyCompiled, SinceInterval
<1> QED
  BY <1>3, <1>4, <1>5 DEF FreshInv

\* Leaving a build leaves each output and each state file as it was, gone, or
\* put back.
LEMMA FreshAbandon ==
    ASSUME OneProcess, TypeOK, TypeOK', FreshInv, NEW p \in Proc,
           NEW outcome \in {"ok", "failed", "killed"}, Abandon(p, outcome),
           src' = src,
           \A m \in Module : state'[m] = state[m] \/ state'[m] = NoTree,
           \A m \in Module :
               \/ classes'[m] = classes[m]
               \/ stage[p][m] = "parked" /\ classes'[m] = backup[p][m]
    PROVE  FreshInv'
<1>1. \A m, d \in Module : state'[m][d] <= state[m][d]
  BY NumbersBefore DEF NoTree, Numbers
<1>2. \A q \in Proc : \A m, d \in Module :
          /\ q = p
          /\ seen'[q][m] = 0 /\ temp'[q][m][d] = 0 /\ backup'[q][m][d] = 0
          /\ stage'[q][m] = "waiting" /\ since'[q][m] = {}
          /\ status'[q] # "running"
  BY DEF Abandon, NoTree, OneProcess, TypeOK
<1>3. NotBeyondSources'
  <2>1. \A m, d \in Module : classes'[m][d] <= src[d]
    BY DEF FreshInv, NotBeyondSources
  <2>2. \A m, d \in Module : state'[m][d] <= src[d]
    BY <1>1, NumbersBefore, NumbersAfter DEF Numbers, FreshInv, NotBeyondSources
  <2>3. \A m \in Module : 0 <= src[m]
    BY NumbersBefore DEF Numbers
  <2> QED
    BY <1>2, <2>1, <2>2, <2>3 DEF NotBeyondSources
<1>4. OutputsCover'
  <2> SUFFICES ASSUME NEW m \in Module PROVE Covers(m, classes[m])'
    BY <1>2 DEF OutputsCover
  <2>1. Covers(m, classes'[m])
    BY DEF FreshInv, OutputsCover
  <2>2. Closure(m) \subseteq Module /\ m \in Closure(m)
    BY ClosureFacts
  <2> QED
    BY <1>1, <2>1, <2>2, NumbersBefore, NumbersAfter DEF Numbers, Covers
<1>5. (TempCovers /\ ResultCovers /\ SeenAfterRecord /\ WhyCompiled)'
  BY <1>2 DEF TempCovers, ResultCovers, SeenAfterRecord, WhyCompiled
<1>6. SinceInterval'
  BY <1>2 DEF SinceInterval
<1> QED
  BY <1>3, <1>4, <1>5, <1>6 DEF FreshInv

LEMMA FreshHash ==
    ASSUME OneProcess, TypeOK, Scheduled, FreshInv,
           NEW p \in Proc, NEW m \in Module, Hash(p, m)
    PROVE  FreshInv'
<1>1. \A q \in Proc : \A k \in Module :
          /\ q = p
          /\ stage'[q][k] = IF k = m THEN "hashed" ELSE stage[q][k]
          /\ seen'[q][k] = IF k = m THEN src[m] ELSE seen[q][k]
  BY DEF Hash, TypeOK, Tree, OneProcess
<1>2. stage[p][m] = "waiting" /\ status[p] = "running" /\ m \in layer[p]
  BY DEF Hash, Scheduled
<1>3. UNCHANGED <<src, classes, state, rebuild, status, temp, backup, since>>
  BY DEF Hash, disk
<1>4. \A k \in Module : stage[p][k] # "waiting" => m \notin Closure(k)
  BY <1>2, RestIsDone
<1>5. \A k \in Module : Closure(k) \subseteq Module
  BY ClosureFacts
<1>6. NotBeyondSources'
  <2>1. src[m] <= src[m]
    BY NumbersBefore DEF Numbers
  <2> QED
    BY <1>1, <1>3, <2>1 DEF FreshInv, NotBeyondSources
<1>7. OutputsCover'
  BY <1>1, <1>3 DEF FreshInv, OutputsCover, Covers
<1>8. TempCovers' /\ ResultCovers' /\ WhyCompiled'
  <2>1. \A k \in Module : stage'[p][k] \notin {"waiting", "hashed"} =>
            /\ stage'[p][k] = stage[p][k]
            /\ \A d \in Closure(k) : seen'[p][d] = seen[p][d]
    BY <1>1, <1>4, <1>5
  <2>2. TempCovers'
    BY <1>1, <1>3, <2>1 DEF FreshInv, TempCovers, Covers
  <2>3. ResultCovers'
    BY <1>1, <1>3, <2>1 DEF FreshInv, ResultCovers, HasClasses
  <2>4. WhyCompiled'
    BY <1>1, <1>3, <2>1 DEF FreshInv, WhyCompiled, HasClasses
  <2> QED
    BY <2>2, <2>3, <2>4
<1>9. SeenAfterRecord'
  BY <1>1, <1>3 DEF FreshInv, SeenAfterRecord, NotBeyondSources
<1>10. SinceInterval'
  BY <1>1, <1>2, <1>3 DEF FreshInv, SinceInterval
<1> QED
  BY <1>6, <1>7, <1>8, <1>9, <1>10 DEF FreshInv

\* A hit returns classes that cover the record the fingerprint is equal to.
LEMMA FreshReuse ==
    ASSUME OneProcess, TypeOK, Scheduled, FreshInv,
           NEW p \in Proc, NEW m \in Module, Reuse(p, m)
    PROVE  FreshInv'
<1>1. \A q \in Proc : \A k \in Module :
          q = p /\ stage'[q][k] = IF k = m THEN "done" ELSE stage[q][k]
  BY DEF Reuse, TypeOK, OneProcess
<1>2. /\ stage[p][m] = "hashed"
      /\ UNCHANGED <<src, classes, state, rebuild, status, seen, temp, backup,
                     since>>
  BY DEF Reuse, disk
<1>3. HasClasses(m) /\ \A d \in Closure(m) : seen[p][d] <= classes[m][d]
  <2>1. HasClasses(m) /\ state[m] = Fingerprint(p, m)
    BY DEF Reuse, Hit
  <2>2. \A d \in Closure(m) : state[m][d] = seen[p][d]
    BY <2>1, ClosureFacts DEF Fingerprint
  <2>3. Covers(m, classes[m])
    BY DEF FreshInv, OutputsCover
  <2> QED
    BY <2>1, <2>2, <2>3 DEF Covers, HasClasses
<1>4. NotBeyondSources' /\ OutputsCover'
  BY <1>1, <1>2 DEF FreshInv, NotBeyondSources, OutputsCover, Covers
<1>5. TempCovers' /\ WhyCompiled'
  BY <1>1, <1>2 DEF FreshInv, TempCovers, WhyCompiled, Covers, HasClasses
<1>6. ResultCovers'
  BY <1>1, <1>2, <1>3 DEF FreshInv, ResultCovers, HasClasses
<1>7. SeenAfterRecord' /\ SinceInterval'
  BY <1>1, <1>2 DEF FreshInv, SeenAfterRecord, SinceInterval
<1> QED
  BY <1>4, <1>5, <1>6, <1>7 DEF FreshInv

\* javac's output covers every record: its own sources are the newest there
\* are, and everything upstream has been put in place by this build.
LEMMA FreshCompile ==
    ASSUME OneProcess, TypeOK, Scheduled, FreshInv,
           NEW p \in Proc, NEW m \in Module, Compile(p, m)
    PROVE  FreshInv'
<1>1. \A q \in Proc : \A k \in Module :
          /\ q = p
          /\ stage'[q][k] = IF k = m THEN "compiled" ELSE stage[q][k]
          /\ temp'[q][k] = IF k = m THEN Compiled(m) ELSE temp[q][k]
  BY DEF Compile, TypeOK, OneProcess
<1>2. /\ stage[p][m] = "hashed"
      /\ UNCHANGED <<src, classes, state, rebuild, status, seen, backup,
                     since>>
  BY DEF Compile, disk
<1>3. m \in Closure(m) /\ Closure(m) \subseteq Module
  BY ClosureFacts
<1>4. \A d \in Module : Compiled(m)[d] <= src[d] /\ Compiled(m)[d] \in Nat
  BY NumbersBefore DEF Numbers, Compiled, FreshInv, NotBeyondSources
<1>5. \A d \in Closure(m) : d # m =>
          /\ Compiled(m)[d] = classes[d][d]
          /\ stage[p][d] = "done"
          /\ seen[p][d] <= classes[d][d]
  <2> SUFFICES ASSUME NEW d \in Closure(m), d # m
               PROVE  /\ Compiled(m)[d] = classes[d][d]
                      /\ stage[p][d] = "done"
                      /\ seen[p][d] <= classes[d][d]
    OBVIOUS
  <2>1. d \in Module /\ stage[p][d] = "done"
    BY <1>2, RestIsDone
  <2>2. Compiled(m)[d] = classes[d][d]
    BY <2>1 DEF Compiled, Closure
  <2>3. d \in Closure(d)
    BY <2>1, ClosureFacts
  <2> QED
    BY <2>1, <2>2, <2>3 DEF FreshInv, ResultCovers
<1>6. \A d \in Closure(m) : seen[p][d] <= Compiled(m)[d]
  BY <1>3, <1>5 DEF Compiled, FreshInv, NotBeyondSources
<1>7. Covers(m, Compiled(m))
  <2>1. \A d \in Closure(m) : state[m][d] <= Compiled(m)[d]
    <3> SUFFICES ASSUME NEW d \in Closure(m)
                 PROVE  state[m][d] <= Compiled(m)[d]
      OBVIOUS
    <3>1. stage[p][d] # "waiting"
      BY <1>2, <1>5
    <3>2. state[m][d] <= seen[p][d]
      BY <1>3, <3>1 DEF FreshInv, SeenAfterRecord
    <3> QED
      BY <1>3, <1>4, <1>6, <3>2, NumbersBefore DEF Numbers
  <2>2. Compiled(m)[m] = src[m]
    BY DEF Compiled
  <2>3. \A k \in Module : state[k][m] <= src[m]
    BY DEF FreshInv, NotBeyondSources
  <2> QED
    BY <2>1, <2>2, <2>3 DEF Covers
<1>8. Compiled(m)[m] # 0
  BY BoundAssumption DEF Compiled, TypeOK
<1>9. NotBeyondSources'
  BY <1>1, <1>2, <1>4 DEF FreshInv, NotBeyondSources
<1>10. OutputsCover'
  BY <1>1, <1>2 DEF FreshInv, OutputsCover, Covers
<1>11. TempCovers'
  BY <1>1, <1>2, <1>6, <1>7, <1>8 DEF FreshInv, TempCovers, Covers
<1>12. ResultCovers' /\ SeenAfterRecord' /\ SinceInterval'
  BY <1>1, <1>2
     DEF FreshInv, ResultCovers, SeenAfterRecord, SinceInterval, HasClasses
<1>13. WhyCompiled'
  <2>1. \/ rebuild[p] \/ ~HasClasses(m)
        \/ \E d \in Closure(m) : state[m][d] # seen[p][d]
    <3> SUFFICES ASSUME ~rebuild[p], HasClasses(m)
                 PROVE  \E d \in Closure(m) : state[m][d] # seen[p][d]
      OBVIOUS
    <3>1. state[m] # Fingerprint(p, m)
      BY DEF Compile, Hit
    <3>2. state[m] \in TreeOf(m) /\ Fingerprint(p, m) \in TreeOf(m)
      BY TreesOfAModule DEF TypeOK
    <3>3. PICK d \in Module : state[m][d] # Fingerprint(p, m)[d]
      BY <3>1, <3>2 DEF TreeOf, Tree
    <3>4. d \in Closure(m)
      BY <3>2, <3>3 DEF TreeOf
    <3> QED
      BY <3>3, <3>4 DEF Fingerprint
  <2> QED
    BY <1>1, <1>2, <2>1 DEF FreshInv, WhyCompiled, HasClasses
<1> QED
  BY <1>9, <1>10, <1>11, <1>12, <1>13 DEF FreshInv

LEMMA FreshPark ==
    ASSUME OneProcess, TypeOK, Scheduled, FreshInv,
           NEW p \in Proc, NEW m \in Module, Park(p, m)
    PROVE  FreshInv'
<1>1. \A q \in Proc : \A k \in Module :
          /\ q = p
          /\ stage'[q][k] = IF k = m THEN "parked" ELSE stage[q][k]
          /\ backup'[q][k] = IF k = m THEN classes[m] ELSE backup[q][k]
  BY DEF Park, TypeOK, OneProcess
<1>2. \A k, d \in Module :
          /\ classes'[k] = IF k = m THEN NoTree ELSE classes[k]
          /\ NoTree[d] = 0
  BY DEF Park, TypeOK, NoTree
<1>3. /\ stage[p][m] = "compiled"
      /\ UNCHANGED <<src, state, rebuild, status, seen, temp, since>>
  BY DEF Park
<1>4. NotBeyondSources'
  <2>1. \A d \in Module : 0 <= src[d]
    BY NumbersBefore DEF Numbers
  <2> QED
    BY <1>1, <1>2, <1>3, <2>1 DEF FreshInv, NotBeyondSources
<1>5. OutputsCover'
  BY <1>1, <1>2, <1>3 DEF FreshInv, OutputsCover, Covers
<1>6. TempCovers' /\ WhyCompiled'
  BY <1>1, <1>2, <1>3
     DEF FreshInv, TempCovers, WhyCompiled, Covers, HasClasses
<1>7. ResultCovers'
  BY <1>1, <1>2, <1>3 DEF FreshInv, ResultCovers, HasClasses
<1>8. SeenAfterRecord' /\ SinceInterval'
  BY <1>1, <1>3 DEF FreshInv, SeenAfterRecord, SinceInterval
<1> QED
  BY <1>4, <1>5, <1>6, <1>7, <1>8 DEF FreshInv

LEMMA FreshPlace ==
    ASSUME OneProcess, TypeOK, Scheduled, FreshInv,
           NEW p \in Proc, NEW m \in Module, Place(p, m)
    PROVE  FreshInv'
<1>1. \A q \in Proc : \A k \in Module :
          /\ q = p
          /\ stage'[q][k] = IF k = m THEN "placed" ELSE stage[q][k]
          /\ temp'[q][k] = IF k = m THEN NoTree ELSE temp[q][k]
          /\ backup'[q][k] = IF k = m THEN NoTree ELSE backup[q][k]
  BY DEF Place, TypeOK, OneProcess
<1>2. \A k, d \in Module :
          /\ classes'[k] = IF k = m THEN temp[p][m] ELSE classes[k]
          /\ NoTree[d] = 0
  BY DEF Place, TypeOK, NoTree
<1>3. /\ stage[p][m] = "parked"
      /\ UNCHANGED <<src, state, rebuild, status, seen, since>>
  BY DEF Place
<1>4. NotBeyondSources'
  <2>1. \A d \in Module : 0 <= src[d]
    BY NumbersBefore DEF Numbers
  <2> QED
    BY <1>1, <1>2, <1>3, <2>1 DEF FreshInv, NotBeyondSources
<1>5. OutputsCover'
  BY <1>1, <1>2, <1>3 DEF FreshInv, OutputsCover, TempCovers, Covers
<1>6. TempCovers' /\ WhyCompiled'
  BY <1>1, <1>2, <1>3
     DEF FreshInv, TempCovers, WhyCompiled, Covers, HasClasses
<1>7. ResultCovers'
  BY <1>1, <1>2, <1>3 DEF FreshInv, ResultCovers, TempCovers, HasClasses
<1>8. SeenAfterRecord' /\ SinceInterval'
  BY <1>1, <1>3 DEF FreshInv, SeenAfterRecord, SinceInterval
<1> QED
  BY <1>4, <1>5, <1>6, <1>7, <1>8 DEF FreshInv

\* The record a module leaves is covered by what the build has put in place,
\* and concerns no module that is still being compiled.
LEMMA FreshWriteState ==
    ASSUME OneProcess, TypeOK, Scheduled, FreshInv,
           NEW p \in Proc, NEW m \in Module, WriteState(p, m)
    PROVE  FreshInv'
<1>1. \A q \in Proc : \A k \in Module :
          q = p /\ stage'[q][k] = IF k = m THEN "done" ELSE stage[q][k]
  BY DEF WriteState, TypeOK, OneProcess
<1>2. \A k \in Module :
          state'[k] = IF k = m THEN Fingerprint(p, m) ELSE state[k]
  BY DEF WriteState, TypeOK
<1>3. /\ stage[p][m] = "placed"
      /\ UNCHANGED <<src, classes, rebuild, status, seen, temp, backup, since>>
  BY DEF WriteState
<1>4. \A d \in Module :
          Fingerprint(p, m)[d] = IF d \in Closure(m) THEN seen[p][d] ELSE 0
  BY DEF Fingerprint
<1>5. \A d \in Closure(m) : d \in Module /\ stage[p][d] \in {"placed", "done"}
  BY <1>3, RestIsDone
<1>6. \A d \in Closure(m) :
          /\ HasClasses(m) /\ seen[p][d] <= classes[m][d]
          /\ HasClasses(d) /\ seen[p][d] <= classes[d][d]
  BY <1>3, <1>5, ClosureFacts DEF FreshInv, ResultCovers
<1>7. NotBeyondSources'
  <2>1. \A d \in Module : Fingerprint(p, m)[d] <= src[d]
    BY <1>4, NumbersBefore DEF Numbers, FreshInv, NotBeyondSources
  <2> QED
    BY <1>1, <1>2, <1>3, <2>1 DEF FreshInv, NotBeyondSources
<1>8. \A k \in Module, t \in Tree :
          /\ Covers(k, t)
          /\ k = m => \A d \in Closure(m) : seen[p][d] <= t[d]
          /\ k \in Closure(m) => seen[p][k] <= t[k]
          => Covers(k, t)'
  BY <1>2, <1>4, <1>5 DEF Covers
<1>9. OutputsCover'
  <2>1. \A k \in Module : Covers(k, classes[k])'
    BY <1>3, <1>6, <1>8 DEF TypeOK, FreshInv, OutputsCover
  <2>2. \A k \in Module : stage[p][k] = "parked" => Covers(k, backup[p][k])'
    BY <1>3, <1>5, <1>8 DEF TypeOK, FreshInv, OutputsCover
  <2> QED
    BY <1>1, <2>1, <2>2, <1>3 DEF OutputsCover, Covers
<1>10. TempCovers'
  <2>1. \A k \in Module : stage[p][k] \in {"compiled", "parked"} =>
            Covers(k, temp[p][k])'
    BY <1>3, <1>5, <1>8 DEF TypeOK, FreshInv, TempCovers
  <2> QED
    BY <1>1, <1>3, <2>1 DEF FreshInv, TempCovers, Covers
<1>11. ResultCovers' /\ SinceInterval'
  BY <1>1, <1>3 DEF FreshInv, ResultCovers, SinceInterval, HasClasses
<1>12. SeenAfterRecord'
  <2>1. \A d \in Closure(m) : seen[p][d] <= seen[p][d]
    BY <1>5, NumbersBefore DEF Numbers
  <2> QED
    BY <1>1, <1>2, <1>3, <1>4, <2>1 DEF FreshInv, SeenAfterRecord
<1>13. WhyCompiled'
  BY <1>1, <1>2, <1>3 DEF FreshInv, WhyCompiled, HasClasses
<1> QED
  BY <1>7, <1>9, <1>10, <1>11, <1>12, <1>13 DEF FreshInv

\* An edit only makes the sources newer, and tells the running build.
LEMMA FreshEdit ==
    ASSUME ~Revert, TypeOK, FreshInv, NEW m \in Module, Edit(m)
    PROVE  FreshInv'
<1>1. /\ src' = [src EXCEPT ![m] = src[m] + 1]
      /\ since' = [p \in Proc |->
                      IF status[p] = "running"
                      THEN [since[p] EXCEPT ![m] = @ \cup {src[m] + 1}]
                      ELSE since[p]]
  BY DEF Edit
<1>2. UNCHANGED <<classes, state, rebuild, status, stage, seen, temp, backup>>
  BY DEF Edit, disk, progress
<1>3. \A k \in Module : src'[k] = IF k = m THEN src[m] + 1 ELSE src[k]
  BY <1>1 DEF TypeOK
<1>4. \A k \in Module : src[k] \in Nat /\ src[k] <= src'[k]
  BY <1>3, NumbersBefore DEF Numbers
<1>5. NotBeyondSources'
  <2>1. \A k \in Module, n \in Nat : n <= src[k] => n <= src'[k]
    BY <1>3, <1>4
  <2> QED
    BY <1>2, <2>1, NumbersBefore DEF Numbers, FreshInv, NotBeyondSources
<1>6. (OutputsCover /\ TempCovers /\ ResultCovers)'
  BY <1>2 DEF FreshInv, OutputsCover, TempCovers, ResultCovers, Covers,
              HasClasses
<1>7. (SeenAfterRecord /\ WhyCompiled)'
  BY <1>2 DEF FreshInv, SeenAfterRecord, WhyCompiled, HasClasses
<1>8. SinceInterval'
  <2> SUFFICES ASSUME NEW p \in Proc, NEW k \in Module
               PROVE  /\ IF status[p] = "running" THEN src'[k] \in since'[p][k]
                                                  ELSE since'[p][k] = {}
                      /\ \A v \in since'[p][k] : \A w \in Nat :
                            v <= w /\ w <= src'[k] => w \in since'[p][k]
                      /\ stage[p][k] # "waiting" => seen[p][k] \in since'[p][k]
    BY <1>2 DEF SinceInterval
  <2>1. CASE status[p] # "running" \/ k # m
    <3>1. since'[p][k] = since[p][k]
      BY <1>1, <2>1 DEF TypeOK
    <3>2. CASE status[p] # "running"
      BY <3>1, <3>2 DEF FreshInv, SinceInterval
    <3>3. CASE k # m
      BY <1>3, <3>1, <3>3 DEF FreshInv, SinceInterval
    <3> QED
      BY <2>1, <3>2, <3>3
  <2>2. CASE status[p] = "running" /\ k = m
    <3>1. since'[p][m] = since[p][m] \cup {src[m] + 1}
      BY <1>1, <2>2 DEF TypeOK
    <3>2. src'[m] = src[m] + 1 /\ src[m] \in Nat
      BY <1>3, <1>4
    <3>3. \A v \in since[p][m] : v \in Nat
      BY DEF TypeOK
    <3>4. \A v \in since[p][m] : \A w \in Nat :
              v <= w /\ w <= src[m] + 1 => w \in since'[p][m]
      BY <3>1, <3>2, <3>3 DEF FreshInv, SinceInterval
    <3>5. \A w \in Nat :
              src[m] + 1 <= w /\ w <= src[m] + 1 => w \in since'[p][m]
      BY <3>1, <3>2
    <3> QED
      BY <2>2, <3>1, <3>2, <3>4, <3>5 DEF FreshInv, SinceInterval
  <2> QED
    BY <2>1, <2>2
<1> QED
  BY <1>5, <1>6, <1>7, <1>8 DEF FreshInv

LEMMA FreshStart ==
    ASSUME OneProcess, TypeOK, Scheduled, FreshInv,
           NEW p \in Proc, StartBuild(p)
    PROVE  FreshInv'
<1>1. \A q \in Proc : \A k \in Module :
          /\ q = p /\ stage[q][k] = "waiting"
          /\ status'[q] = "running" /\ since'[q][k] = {src[k]}
  <2>1. \A q \in Proc : q = p
    BY DEF OneProcess
  <2>2. \A k \in Module : stage[p][k] = "waiting"
    <3>1. complete[p] = {} /\ layer[p] = {}
      BY DEF StartBuild, Scheduled
    <3> QED
      BY <3>1 DEF Scheduled
  <2>3. status'[p] = "running"
    BY DEF StartBuild, TypeOK
  <2>4. \A k \in Module : since'[p][k] = {src[k]}
    BY DEF StartBuild, TypeOK
  <2> QED
    BY <2>1, <2>2, <2>3, <2>4
<1>2. UNCHANGED <<src, classes, state, stage, seen, temp, backup>>
  BY DEF StartBuild, disk
<1>3. NotBeyondSources' /\ OutputsCover'
  BY <1>2 DEF FreshInv, NotBeyondSources, OutputsCover, Covers
<1>4. (TempCovers /\ ResultCovers /\ SeenAfterRecord /\ WhyCompiled)'
  BY <1>1, <1>2 DEF TempCovers, ResultCovers, SeenAfterRecord, WhyCompiled
<1>5. SinceInterval'
  <2>1. \A k \in Module : src[k] \in Nat
    BY NumbersBefore DEF Numbers
  <2> QED
    BY <1>1, <1>2, <2>1 DEF SinceInterval
<1> QED
  BY <1>3, <1>4, <1>5 DEF FreshInv

LEMMA FreshUnchanged ==
    ASSUME FreshInv, UNCHANGED <<src, classes, state, rebuild, status, stage,
                                 seen, temp, backup, since>>
    PROVE  FreshInv'
BY DEF FreshInv, NotBeyondSources, OutputsCover, TempCovers, ResultCovers,
       SeenAfterRecord, WhyCompiled, SinceInterval, Covers, HasClasses

LEMMA FreshFail ==
    ASSUME OneProcess, TypeOK, TypeOK', FreshInv,
           NEW p \in Proc, NEW m \in Module, Fail(p, m)
    PROVE  FreshInv'
<1>1. \A k \in Module : state'[k] = state[k] \/ state'[k] = NoTree
  BY DEF Fail, TearState
<1>2. \A k \in Module :
          \/ classes'[k] = classes[k]
          \/ stage[p][k] = "parked" /\ classes'[k] = backup[p][k]
  BY DEF Fail, TypeOK
<1> QED
  BY <1>1, <1>2, FreshAbandon DEF Fail

LEMMA FreshNext ==
    ASSUME OneProcess, ~Revert
    PROVE  TypeOK /\ TypeOK' /\ Scheduled /\ FreshInv /\ [Next]_vars
               => FreshInv'
<1> SUFFICES ASSUME TypeOK, TypeOK', Scheduled, FreshInv, [Next]_vars
             PROVE  FreshInv'
  OBVIOUS
<1>1. ASSUME NEW m \in Module, Edit(m) PROVE FreshInv'
  BY <1>1, FreshEdit
<1>2. ASSUME NEW p \in Proc, StartBuild(p) PROVE FreshInv'
  BY <1>2, FreshStart
<1>3. ASSUME NEW p \in Proc, NEW m \in Module, ModuleStep(p, m)
      PROVE  FreshInv'
  BY <1>3, FreshHash, FreshReuse, FreshCompile, FreshPark, FreshPlace,
     FreshWriteState DEF ModuleStep
<1>4. ASSUME NEW p \in Proc, NextLayer(p) PROVE FreshInv'
  BY <1>4, FreshUnchanged DEF NextLayer, disk
<1>5. ASSUME NEW p \in Proc, FinishBuild(p) PROVE FreshInv'
  BY <1>5, FreshAbandon DEF FinishBuild, disk
<1>6. ASSUME NEW p \in Proc, Kill(p) PROVE FreshInv'
  <2>1. \A k \in Module : state'[k] = state[k] \/ state'[k] = NoTree
    BY <1>6 DEF Kill, TearState
  <2> QED
    BY <1>6, <2>1, FreshAbandon DEF Kill
<1>7. ASSUME NEW p \in Proc, NEW m \in Module, Fail(p, m) PROVE FreshInv'
  BY <1>7, FreshFail
<1>8. CASE UNCHANGED vars
  BY <1>8, FreshUnchanged DEF vars, disk, progress
<1> QED
  BY <1>1, <1>2, <1>3, <1>4, <1>5, <1>6, <1>7, <1>8 DEF Next, BuildStep

\* The inductive invariant, and what it means for the properties.
BuildInv == TypeOK /\ Scheduled /\ FreshInv

LEMMA BuildInvariant ==
    ASSUME OneProcess, ~Revert
    PROVE  Spec => []BuildInv
<1>1. Init => BuildInv
  BY TypeInit, ScheduledInit, FreshInit DEF BuildInv
<1>2. BuildInv /\ [Next]_vars => BuildInv'
  BY TypeNext, ScheduledNext, FreshNext DEF BuildInv
<1> QED
  BY <1>1, <1>2, PTL DEF Spec

LEMMA ResultsFromInv == BuildInv => RecordNotAhead /\ ResultsNotStale
<1> SUFFICES ASSUME BuildInv PROVE RecordNotAhead /\ ResultsNotStale
  OBVIOUS
<1>1. \A m \in Module : Closure(m) \subseteq Module /\ m \in Closure(m)
  BY ClosureFacts
<1>2. RecordNotAhead
  BY <1>1 DEF BuildInv, FreshInv, OutputsCover, Covers, RecordNotAhead,
              HasClasses
<1>3. ResultsNotStale
  BY <1>1 DEF BuildInv, FreshInv, ResultCovers, NotBeyondSources,
              ResultsNotStale
<1> QED
  BY <1>2, <1>3

LEMMA NoOpFromInv == BuildInv => NoOpCompilesNothing
<1> SUFFICES ASSUME BuildInv, Settled, NEW p \in Proc, NEW m \in Module,
                    stage[p][m] \in {"compiled", "parked"}, ~rebuild[p]
             PROVE  FALSE
  BY DEF NoOpCompilesNothing, BuildInv, TypeOK
<1>1. PICK d \in Closure(m) : state[m][d] # seen[p][d]
  BY DEF BuildInv, FreshInv, WhyCompiled, Settled
<1>2. d \in Module /\ stage[p][d] # "waiting"
  BY RestIsDone, ClosureFacts DEF BuildInv
<1>3. state[m][d] = src[d]
  BY <1>1, <1>2 DEF Settled
<1>4. state[m][d] <= seen[p][d] /\ seen[p][d] <= src[d]
  BY <1>2 DEF BuildInv, FreshInv, SeenAfterRecord, NotBeyondSources
<1> QED
  BY <1>1, <1>2, <1>3, <1>4, NumbersBefore DEF BuildInv, Numbers

\* Only FinishBuild reports success.
LEMMA SuccessStep ==
    ASSUME TypeOK, Next, NEW p \in Proc,
           status[p] = "running", status'[p] = "ok"
    PROVE  FinishBuild(p)
<1>1. ASSUME NEW m \in Module, Edit(m) PROVE FALSE
  BY <1>1 DEF Edit
<1>2. ASSUME NEW q \in Proc, StartBuild(q) PROVE FALSE
  BY <1>2 DEF StartBuild, TypeOK
<1>3. ASSUME NEW q \in Proc, NEW m \in Module, ModuleStep(q, m) PROVE FALSE
  BY <1>3 DEF ModuleStep, Hash, Reuse, Compile, Park, Place, WriteState
<1>4. ASSUME NEW q \in Proc, NextLayer(q) PROVE FALSE
  BY <1>4 DEF NextLayer
<1>5. ASSUME NEW q \in Proc, FinishBuild(q) PROVE FinishBuild(p)
  BY <1>5 DEF FinishBuild, Abandon, TypeOK
<1>6. ASSUME NEW q \in Proc, Kill(q) PROVE FALSE
  BY <1>6 DEF Kill, Abandon, TypeOK
<1>7. ASSUME NEW q \in Proc, NEW m \in Module, Fail(q, m) PROVE FALSE
  BY <1>7 DEF Fail, Abandon, TypeOK
<1> QED
  BY <1>1, <1>2, <1>3, <1>4, <1>5, <1>6, <1>7 DEF Next, BuildStep

\* When the last layer has returned, everything on disk is as fresh as seen.
LEMMA FreshAtFinish ==
    ASSUME BuildInv, NEW p \in Proc, FinishBuild(p),
           NEW m \in Module, NEW d \in Closure(m)
    PROVE  classes[m][d] \in since[p][d]
<1>1. d \in Module
  BY ClosureFacts
<1>2. \A k \in Module : stage[p][k] = "done"
  BY DEF FinishBuild, BuildInv, Scheduled
<1>3. seen[p][d] <= classes[m][d] /\ classes[m][d] <= src[d]
  BY <1>1, <1>2 DEF BuildInv, FreshInv, ResultCovers, NotBeyondSources
<1>4. seen[p][d] \in since[p][d] /\ classes[m][d] \in Nat
  BY <1>1, <1>2, NumbersBefore DEF BuildInv, FreshInv, SinceInterval, Numbers
<1> QED
  BY <1>1, <1>3, <1>4 DEF BuildInv, FreshInv, SinceInterval

\* A state file never runs ahead of the classes beside it or upstream of it,
\* through every error, dropped future and kill.
THEOREM RecordsNeverAhead ==
    ASSUME OneProcess, ~Revert
    PROVE  Spec => []RecordNotAhead
BY BuildInvariant, ResultsFromInv, PTL

\* What compile_module returns, compiled or cached, is on disk and no older
\* than what it fingerprinted.
THEOREM ResultsNeverStale ==
    ASSUME OneProcess, ~Revert
    PROVE  Spec => []ResultsNotStale
BY BuildInvariant, ResultsFromInv, PTL

\* A workspace that is compiled and recorded is not compiled again.
THEOREM NoOpIsNoOp ==
    ASSUME OneProcess, ~Revert
    PROVE  Spec => []NoOpCompilesNothing
BY BuildInvariant, NoOpFromInv, PTL

\* A build that reports success leaves class directories that were compiled
\* from contents the sources have had since it began.
THEOREM SuccessMeansFresh ==
    ASSUME OneProcess, ~Revert
    PROVE  Spec => SuccessIsFresh
<1>1. BuildInv /\ [Next]_vars =>
          [\A p \in Proc :
              /\ status[p] = "running" /\ status'[p] = "ok"
              /\ \A q \in Proc \ {p} : status[q] # "running"
              => \A m \in Module : \A d \in Closure(m) :
                    classes[m][d] \in since[p][d]]_vars
  BY SuccessStep, FreshAtFinish DEF BuildInv
<1> QED
  BY <1>1, BuildInvariant, PTL DEF Spec, SuccessIsFresh

------------------------------------------------------------------------------
(* Tests, for commands that do not overlap, over inputs that are never put *)
(* back to an earlier content.                                             *)

Versions == [SourceSet -> Nat]
TestTree == [own : Versions, against : [Module -> Tree]]
Selection == [modules : SUBSET Module, sets : SUBSET SourceSet]
Testing == {"ready", "hashed", "compiled", "parked", "placed", "built"}
TestStages == {"waiting", "staged", "cleared", "done"} \cup Testing

BuildTypes ==
    /\ src \in [Module -> 1..MaxVersion]
    /\ classes \in [Module -> Tree] /\ state \in [Module -> Tree]
    /\ \A m \in Module : classes[m] \in TreeOf(m)
    /\ status \in [Proc -> {"idle", "running", "testing", "ok", "failed", "killed"}]
    /\ rebuild \in [Proc -> BOOLEAN]
    /\ complete \in [Proc -> SUBSET Module] /\ layer \in [Proc -> SUBSET Module]
    /\ stage \in [Proc -> [Module -> Stage]]
    /\ seen \in [Proc -> Tree]
    /\ temp \in [Proc -> [Module -> Tree]] /\ backup \in [Proc -> [Module -> Tree]]
    /\ \A p \in Proc, m \in Module : temp[p][m] \in TreeOf(m) /\ backup[p][m] \in TreeOf(m)
TestTypes ==
    /\ testSrc \in [Module -> Versions]
    /\ tests \in [Module -> TestTree] /\ testState \in [Module -> TestTree]
    /\ runner \subseteq Module
    /\ request \in [Proc -> Selection]
    /\ testStage \in [Proc -> [Module -> TestStages]]
    /\ testSeen \in [Proc -> [Module -> TestTree]]
    /\ testTemp \in [Proc -> [Module -> TestTree]]
    /\ away \in [Proc -> [Module -> TestTree]]
    /\ asked \in [Proc -> [main : Tree, tests : [Module -> Versions]]]
    /\ overlapped \in BOOLEAN

\* A command compiles, then tests, and holds nothing else.
Phases ==
    \A p \in Proc, m \in Module :
        /\ stage[p][m] # "waiting" => status[p] = "running"
        /\ testStage[p][m] # "waiting" => status[p] = "testing"
        /\ stage[p][m] # "parked" /\ testStage[p][m] # "parked" => away[p][m] = NoTests

\* Nobody else is at the workspace.
OneCommand == \A p, q \in Proc : InFlight(p) /\ InFlight(q) => p = q

\* Version v of module e is not newer than its sources, than its output, than
\* the one that is about to take its place, and than the one that may come back.
Under(v, e) ==
    /\ v <= src[e]
    /\ HasClasses(e) => v <= classes[e][e]
    /\ \A p \in Proc :
          /\ stage[p][e] \in {"compiled", "parked"} => v <= temp[p][e][e]
          /\ stage[p][e] = "parked" /\ backup[p][e][e] # 0 => v <= backup[p][e][e]
Older(t) == \A e \in Module : Under(t[e], e)

\* What classes were compiled against, and what a record names, is older than
\* what is there.
ClassesOk ==
    \A m \in Module :
        /\ Older(classes[m]) /\ Under(state[m][m], m)
        /\ \A p \in Proc : stage[p][m] = "parked" => Older(backup[p][m])

\* A compilation: at least as new as when the command began, and compiled
\* against what is there.
CompilationOk(p, m) ==
    /\ stage[p][m] # "waiting" => asked[p].main[m] <= seen[p][m] /\ seen[p][m] <= src[m]
    /\ stage[p][m] \in {"compiled", "parked"} =>
          /\ temp[p][m][m] # 0 /\ temp[p][m][m] <= src[m] /\ seen[p][m] <= temp[p][m][m]
          /\ \A d \in Upstream(m) \ {m} : temp[p][m][d] = classes[d][d]
    /\ stage[p][m] \in {"placed", "done"} => HasClasses(m) /\ seen[p][m] <= classes[m][m]
CommandOk(p) ==
    /\ InFlight(p) => \A m \in Module :
          /\ asked[p].main[m] <= src[m]
          /\ \A s \in SourceSet : asked[p].tests[m][s] <= testSrc[m][s]
    /\ status[p] = "testing" => \A m \in Module :
          HasClasses(m) /\ asked[p].main[m] <= classes[m][m]
    /\ \A m \in Module : CompilationOk(p, m)

\* A tree of classes of d that tests were compiled against: the classes that
\* are there, or may come back, are that tree or a newer one.
NotAfter(t, u) == \A e \in Module : t[e] <= u[e]
Past(t, d) ==
    /\ t \in TreeOf(d) /\ Older(t)
    /\ HasClasses(d) => NotAfter(t, classes[d])
    /\ \A p \in Proc : stage[p][d] = "parked" /\ backup[p][d][d] # 0 => NotAfter(t, backup[p][d])
Known(x) == \A d \in Module : Past(x.against[d], d)
KnownTests ==
    \A m \in Module :
        /\ Known(tests[m]) /\ Known(testState[m]) /\ \A p \in Proc : Known(away[p][m])
        /\ \A s \in SourceSet : testState[m].own[s] <= testSrc[m][s]

\* Test classes are not older than their record, set by set and directory by
\* directory, though they need not be of the sets that it names.
Since(m, x, y) ==
    /\ \A s \in SourceSet : y.own[s] # 0 => x.own[s] <= y.own[s]
    /\ \A d \in TestPath(m) : NotAfter(x.against[d], y.against[d])
Recorded(m, x) == x.own # NoVersions => Since(m, testState[m], x)
RecordsOk ==
    \A m \in Module : Recorded(m, tests[m]) /\ \A p \in Proc : Recorded(m, away[p][m])

Against(m, x) == \A d \in TestPath(m) : x.against[d] = classes[d]
Hashed(p, m) == [d \in Module |-> IF d \in TestPath(m) THEN classes[d] ELSE NoTree]
FromAsked(p, m, x) ==
    \A s \in request[p].sets : x.own[s] # 0 => asked[p].tests[m][s] <= x.own[s]

\* run_test_module.
TestOk(p, m) ==
    /\ testStage[p][m] \in Testing \cup {"staged", "cleared"} => Requested(p, m)
    /\ testStage[p][m] \in Testing => m \in runner
    /\ testStage[p][m] \in {"hashed", "compiled", "parked", "placed"} =>
          /\ testSeen[p][m].against = Hashed(p, m)
          /\ \A s \in SourceSet :
                /\ testSeen[p][m].own[s] <= testSrc[m][s]
                /\ s \in request[p].sets => asked[p].tests[m][s] <= testSeen[p][m].own[s]
    /\ testStage[p][m] \in {"compiled", "parked"} =>
          /\ testTemp[p][m].own # NoVersions /\ testTemp[p][m].against = Hashed(p, m)
          /\ Since(m, testSeen[p][m], testTemp[p][m]) /\ Since(m, testState[m], testTemp[p][m])
          /\ FromAsked(p, m, testTemp[p][m])
    /\ testStage[p][m] = "placed" => Since(m, testSeen[p][m], tests[m])
    /\ testStage[p][m] \in {"placed", "built"} =>
          HasTests(m) /\ Against(m, tests[m]) /\ FromAsked(p, m, tests[m])

Calm ==
    /\ OneCommand /\ ClassesOk /\ KnownTests /\ RecordsOk
    /\ \A p \in Proc : CommandOk(p) /\ \A m \in Module : TestOk(p, m)
TestInv == BuildTypes /\ TestTypes /\ Scheduled /\ Phases /\ (~overlapped => Calm)

------------------------------------------------------------------------------
LEMMA NoTestsType ==
    /\ NoTests \in TestTree /\ NoVersions \in Versions
    /\ NoTests.own = NoVersions /\ \A d \in Module : NoTests.against[d] = NoTree
    /\ Compiling \in Selection
<1>1. NoVersions \in Versions
  BY DEF NoVersions, Versions
<1> QED
  BY <1>1, NoTreeType DEF NoTests, TestTree, Compiling, Selection

\* What tests are hashed and compiled from.
LEMMA InputsType ==
    ASSUME BuildTypes, TestTypes, NEW p \in Proc, NEW m \in Module
    PROVE  /\ TestInputs(p, m) \in TestTree
           /\ TestInputs(p, m).against = Hashed(p, m)
           /\ \A s \in SourceSet :
                 TestInputs(p, m).own[s] = IF s \in request[p].sets THEN testSrc[m][s] ELSE 0
<1>1. \A s \in SourceSet : testSrc[m][s] \in Nat
  BY DEF TestTypes, Versions
<1>2. Hashed(p, m) \in [Module -> Tree]
  BY NoTreeType DEF Hashed, BuildTypes
<1>3. TestInputs(p, m).against = Hashed(p, m)
  BY DEF TestInputs, Hashed
<1>4. TestInputs(p, m).own =
        [s \in SourceSet |-> IF s \in request[p].sets THEN testSrc[m][s] ELSE 0]
  BY DEF TestInputs
<1>5. TestInputs(p, m).own \in Versions
  BY <1>1, <1>4 DEF Versions
<1> QED
  BY <1>2, <1>3, <1>4, <1>5 DEF TestInputs, TestTree, Hashed

\* What a compilation fingerprints and makes.
LEMMA BuildTrees ==
    ASSUME BuildTypes, NEW p \in Proc, NEW m \in Module
    PROVE  Fingerprint(p, m) \in Tree /\ Compiled(m) \in TreeOf(m)
<1>1. seen[p] \in Tree /\ 0 \in Version
  BY BoundAssumption DEF BuildTypes, Version
<1>2. Fingerprint(p, m) \in Tree
  BY <1>1 DEF Fingerprint, Tree
<1>3. \A d \in Module : src[d] \in Version /\ classes[d][d] \in Version
  BY DEF BuildTypes, Tree, Version
<1>4. Compiled(m) \in Tree
  BY <1>1, <1>3 DEF Compiled, Tree
<1>5. \A d \in Module \ Closure(m) : Compiled(m)[d] = 0
  BY DEF Compiled, Closure
<1> QED
  BY <1>2, <1>4, <1>5 DEF TreeOf

LEMMA Counted ==
    ASSUME BuildTypes
    PROVE  /\ \A d \in Module : src[d] \in Nat \ {0}
           /\ \A m, d \in Module : classes[m][d] \in Nat /\ state[m][d] \in Nat
           /\ \A p \in Proc, m \in Module : seen[p][m] \in Nat
           /\ \A p \in Proc, m, d \in Module : temp[p][m][d] \in Nat /\ backup[p][m][d] \in Nat
           /\ \A t \in Tree, d \in Module : t[d] \in Nat
BY BoundAssumption DEF BuildTypes, Tree, Version

LEMMA TestsCounted ==
    ASSUME TestTypes
    PROVE  /\ \A m \in Module, s \in SourceSet : testSrc[m][s] \in Nat
           /\ \A x \in TestTree : /\ \A s \in SourceSet : x.own[s] \in Nat
                                  /\ \A d \in Module : x.against[d] \in Tree
           /\ \A m \in Module : tests[m] \in TestTree /\ testState[m] \in TestTree
           /\ \A p \in Proc, m \in Module :
                 /\ testSeen[p][m] \in TestTree /\ testTemp[p][m] \in TestTree
                 /\ away[p][m] \in TestTree
                 /\ asked[p].main[m] \in Version
                 /\ \A s \in SourceSet : asked[p].tests[m][s] \in Nat
BY DEF TestTypes, TestTree, Versions, Tree, Version

------------------------------------------------------------------------------
(* Types.                                                                  *)

LEMMA TestTypesInit == TestInit => BuildTypes /\ TestTypes
<1> SUFFICES ASSUME TestInit PROVE BuildTypes /\ TestTypes
  OBVIOUS
<1>1. BuildTypes
  <2>1. 1 \in 1..MaxVersion
    BY BoundAssumption
  <2> QED
    BY <2>1, NoTreeType DEF TestInit, Init, BuildTypes, Stage
<1>2. InitialTests \in [Module -> Versions]
  BY TestAssumption DEF Versions
<1> QED
  BY <1>1, <1>2, NoTestsType, NoTreeType DEF TestInit, TestTypes, TestStages

\* A command that ends forgets what it held.
LEMMA AbandonTypes ==
    ASSUME BuildTypes, NEW p \in Proc,
           NEW outcome \in {"testing", "ok", "failed", "killed"}, Abandon(p, outcome),
           src' = src, rebuild' = rebuild,
           \A m \in Module : classes'[m] = classes[m] \/ classes'[m] = backup[p][m],
           classes' \in [Module -> Tree], state' \in [Module -> Tree]
    PROVE  BuildTypes'
<1> USE DEF BuildTypes
<1>1. \A m \in Module : classes'[m] \in TreeOf(m)
  OBVIOUS
<1>2. \A q \in Proc, m \in Module : temp'[q][m] \in TreeOf(m) /\ backup'[q][m] \in TreeOf(m)
  BY NoTreeType DEF Abandon
<1>3. /\ status' \in [Proc -> {"idle", "running", "testing", "ok", "failed", "killed"}]
      /\ complete' \in [Proc -> SUBSET Module] /\ layer' \in [Proc -> SUBSET Module]
      /\ stage' \in [Proc -> [Module -> Stage]]
  BY DEF Abandon, Stage
<1>4. /\ seen' \in [Proc -> Tree]
      /\ temp' \in [Proc -> [Module -> Tree]] /\ backup' \in [Proc -> [Module -> Tree]]
  BY NoTreeType DEF Abandon
<1> QED
  BY <1>1, <1>2, <1>3, <1>4 DEF Tree, Version, TreeOf, Closure, Upstream

LEMMA ForgetTypes ==
    ASSUME BuildTypes, TestTypes, NEW p \in Proc, Forget(p),
           testSrc' = testSrc, runner' = runner,
           tests' \in [Module -> TestTree], testState' \in [Module -> TestTree]
    PROVE  TestTypes'
<1>1. InitialTests \in [Module -> Versions]
  BY TestAssumption DEF Versions
<1> QED
  BY <1>1, NoTestsType, NoTreeType DEF TestTypes, Forget, TestStages

LEMMA TearTypes ==
    ASSUME BuildTypes, NEW p \in Proc, TearState(p)
    PROVE  state' \in [Module -> Tree] /\ \A m \in Module : state'[m] \in {state[m], NoTree}
BY NoTreeType DEF BuildTypes, TearState

LEMMA TearTestTypes ==
    ASSUME TestTypes, NEW p \in Proc, TearTestState(p)
    PROVE  /\ testState' \in [Module -> TestTree]
           /\ \A m \in Module : testState'[m] \in {testState[m], NoTests}
BY NoTestsType DEF TestTypes, TearTestState

LEMMA FailTypes ==
    ASSUME BuildTypes, NEW p \in Proc, NEW m \in Module, Fail(p, m)
    PROVE  BuildTypes'
<1>1. /\ classes' \in [Module -> Tree]
      /\ \A k \in Module : classes'[k] = classes[k] \/ classes'[k] = backup[p][k]
  BY DEF Fail, BuildTypes
<1> QED
  BY <1>1, TearTypes, AbandonTypes DEF Fail

LEMMA TestVarsKept == TestTypes /\ UNCHANGED testVars => TestTypes'
BY DEF TestTypes, testVars, testDisk, testProgress, history

LEMMA VarsKept == BuildTypes /\ UNCHANGED vars => BuildTypes'
BY DEF BuildTypes, vars, disk, progress

\* The parts of a compilation.
LEMMA ModuleStepTypes ==
    ASSUME BuildTypes, NEW p \in Proc, NEW m \in Module, ModuleStep(p, m)
    PROVE  BuildTypes'
<1> USE DEF BuildTypes, Stage
<1>1. CASE Hash(p, m)
  <2>1. src[m] \in Version
    BY DEF Version
  <2> QED
    BY <1>1, <2>1 DEF Hash, Tree, disk
<1>2. CASE Reuse(p, m)
  BY <1>2 DEF Reuse, disk
<1>3. CASE Compile(p, m)
  <2>1. Compiled(m) \in TreeOf(m) /\ Compiled(m) \in Tree
    BY BuildTrees DEF TreeOf
  <2> QED
    BY <1>3, <2>1 DEF Compile, disk
<1>4. CASE Park(p, m)
  BY <1>4, NoTreeType DEF Park
<1>5. CASE Place(p, m)
  BY <1>5, NoTreeType DEF Place
<1>6. CASE WriteState(p, m)
  <2>1. Fingerprint(p, m) \in Tree
    BY BuildTrees
  <2> QED
    BY <1>6, <2>1 DEF WriteState
<1> QED
  BY <1>1, <1>2, <1>3, <1>4, <1>5, <1>6 DEF ModuleStep

LEMMA NextLayerTypes ==
    ASSUME BuildTypes, NEW p \in Proc, NextLayer(p)
    PROVE  BuildTypes'
<1>1. LayerAfter(complete[p] \cup layer[p]) \in SUBSET Module
  BY DEF LayerAfter
<1> QED
  BY <1>1 DEF NextLayer, BuildTypes, disk

LEMMA EditTypes ==
    ASSUME BuildTypes, NEW m \in Module, Edit(m)
    PROVE  BuildTypes'
<1>1. PICK v \in 1..MaxVersion :
          src' = [src EXCEPT ![m] = v] /\ UNCHANGED <<disk, builds, status, rebuild, progress>>
  BY DEF Edit
<1> QED
  BY <1>1 DEF BuildTypes, disk, progress

LEMMA StartTypes ==
    ASSUME BuildTypes, TestTypes, NEW p \in Proc, Start(p)
    PROVE  BuildTypes' /\ TestTypes'
<1>1. LayerAfter({}) \in SUBSET Module
  BY DEF LayerAfter
<1>2. BuildTypes'
  <2>1. rebuild' \in [Proc -> BOOLEAN]
    BY DEF Start, StartBuild, BuildTypes
  <2> QED
    BY <1>1, <2>1 DEF Start, StartBuild, BuildTypes, disk
<1>3. [main |-> src, tests |-> testSrc] \in [main : Tree, tests : [Module -> Versions]]
  <2>1. src \in Tree
    BY BoundAssumption DEF BuildTypes, Tree, Version
  <2> QED
    BY <2>1 DEF TestTypes
<1>4. PICK r \in Requests \cup {Compiling} : request' = [request EXCEPT ![p] = r]
  BY DEF Start
<1>5. r \in Selection
  BY NoTestsType, TestAssumption DEF Selection
<1>6. TestTypes'
  BY <1>3, <1>4, <1>5 DEF Start, TestTypes, testDisk, testProgress
<1> QED
  BY <1>2, <1>6

\* What happens to the test classes while a command compiles.
LEMMA ParkOutputTypes ==
    ASSUME TestTypes, NEW p \in Proc, NEW m \in Module, ParkOutput(p, m)
    PROVE  TestTypes'
BY NoTestsType DEF ParkOutput, TestTypes, testProgress, history

LEMMA PlaceOutputTypes ==
    ASSUME TestTypes, NEW p \in Proc, NEW m \in Module, PlaceOutput(p, m)
    PROVE  TestTypes'
BY NoTestsType DEF PlaceOutput, TestTypes, testDisk, testProgress, history

LEMMA FailCompilationTypes ==
    ASSUME BuildTypes, TestTypes, NEW p \in Proc, NEW m \in Module, FailCompilation(p, m)
    PROVE  BuildTypes' /\ TestTypes'
<1>1. tests' \in [Module -> TestTree]
  BY DEF FailCompilation, TestTypes
<1>2. testState' \in [Module -> TestTree]
  BY DEF FailCompilation, TestTypes
<1> QED
  BY <1>1, <1>2, FailTypes, ForgetTypes DEF FailCompilation

\* A command ends, or goes on to its tests.
LEMMA EndTypes ==
    ASSUME BuildTypes, TestTypes, NEW p \in Proc, UNCHANGED testDisk, Forget(p)
    PROVE  TestTypes'
BY ForgetTypes DEF testDisk, TestTypes

LEMMA BlockedTypes ==
    ASSUME BuildTypes, TestTypes, NEW p \in Proc, NEW m \in Module,
           BlockedOutput(p, m) \/ BlockedByTests(p, m)
    PROVE  BuildTypes' /\ TestTypes'
<1>1. CASE BlockedOutput(p, m)
  BY <1>1, FailTypes, EndTypes DEF BlockedOutput
<1>2. CASE BlockedByTests(p, m)
  <2>1. classes' \in [Module -> Tree]
    BY <1>2 DEF BlockedByTests, BuildTypes
  <2> QED
    BY <1>2, <2>1, TearTypes, AbandonTypes, EndTypes DEF BlockedByTests
<1> QED
  BY <1>1, <1>2

LEMMA KillCompilationTypes ==
    ASSUME BuildTypes, TestTypes, NEW p \in Proc, KillCompilation(p)
    PROVE  BuildTypes' /\ TestTypes'
<1>1. classes' \in [Module -> Tree]
  BY DEF KillCompilation, Kill, BuildTypes
<1> QED
  BY <1>1, TearTypes, AbandonTypes, EndTypes DEF KillCompilation, Kill

LEMMA FinishCompilationTypes ==
    ASSUME BuildTypes, TestTypes, NEW p \in Proc, FinishCompilation(p)
    PROVE  BuildTypes' /\ TestTypes'
<1>1. classes' \in [Module -> Tree] /\ state' \in [Module -> Tree]
  BY DEF FinishCompilation, FinishBuild, disk, BuildTypes
<1> QED
  BY <1>1, AbandonTypes, EndTypes DEF FinishCompilation, FinishBuild, disk

LEMMA BeginTestsTypes ==
    ASSUME BuildTypes, TestTypes, NEW p \in Proc, BeginTests(p)
    PROVE  BuildTypes' /\ TestTypes'
<1>1. classes' \in [Module -> Tree] /\ state' \in [Module -> Tree]
  BY DEF BeginTests, disk, BuildTypes
<1> QED
  BY <1>1, AbandonTypes, TestVarsKept DEF BeginTests, disk

LEMMA EditTestsTypes ==
    ASSUME TestTypes, NEW m \in Module, NEW s \in SourceSet, EditTests(m, s)
    PROVE  TestTypes'
BY DEF EditTests, TestTypes, Versions, testProgress, history

\* run_test_module.
LEMMA TestStepTypes ==
    ASSUME BuildTypes, TestTypes, NEW p \in Proc, NEW m \in Module,
           TestStep(p, m), ~BlockedTests(p, m)
    PROVE  UNCHANGED vars /\ TestTypes'
<1> USE NoTestsType, InputsType DEF Advance, TestTypes, TestStages, Testing, history
<1>1. CASE SkipTests(p, m)
  BY <1>1 DEF SkipTests
<1>2. CASE FindRunner(p, m)
  BY <1>2 DEF FindRunner
<1>3. CASE CompileRunner(p, m)
  BY <1>3 DEF CompileRunner
<1>4. CASE DropRunner(p, m)
  BY <1>4 DEF DropRunner
<1>5. CASE PlaceRunner(p, m)
  BY <1>5 DEF PlaceRunner
<1>6. CASE HashTests(p, m)
  BY <1>6 DEF HashTests
<1>7. CASE ReuseTests(p, m)
  BY <1>7 DEF ReuseTests
<1>8. CASE CompileTests(p, m)
  BY <1>8 DEF CompileTests
<1>9. CASE ParkTests(p, m)
  BY <1>9 DEF ParkTests
<1>10. CASE PlaceTests(p, m)
  BY <1>10 DEF PlaceTests
<1>11. CASE RecordTests(p, m)
  BY <1>11 DEF RecordTests
<1>12. CASE RunTests(p, m)
  BY <1>12 DEF RunTests
<1> QED
  BY <1>1, <1>2, <1>3, <1>4, <1>5, <1>6, <1>7, <1>8, <1>9, <1>10, <1>11, <1>12 DEF TestStep

LEMMA EndTestsTypes ==
    ASSUME BuildTypes, TestTypes, NEW p \in Proc,
           NEW outcome \in {"ok", "failed", "killed"}, EndTests(p, outcome),
           tests' \in [Module -> TestTree], testState' \in [Module -> TestTree]
    PROVE  BuildTypes' /\ TestTypes'
<1>1. BuildTypes'
  BY DEF EndTests, BuildTypes, disk, progress
<1> QED
  BY <1>1, ForgetTypes DEF EndTests

LEMMA FailTestsTypes ==
    ASSUME BuildTypes, TestTypes, NEW p \in Proc, NEW m \in Module, FailTests(p, m)
    PROVE  BuildTypes' /\ TestTypes'
<1>1. tests' \in [Module -> TestTree]
  BY DEF FailTests, TestTypes
<1> QED
  BY <1>1, TearTestTypes, EndTestsTypes DEF FailTests

LEMMA TestTypesNext == BuildTypes /\ TestTypes /\ [TestNext]_allVars => BuildTypes' /\ TestTypes'
<1> SUFFICES ASSUME BuildTypes, TestTypes, [TestNext]_allVars
             PROVE  BuildTypes' /\ TestTypes'
  OBVIOUS
<1>1. ASSUME NEW m \in Module, EditMain(m) PROVE BuildTypes' /\ TestTypes'
  BY <1>1, EditTypes, TestVarsKept DEF EditMain
<1>2. ASSUME NEW m \in Module, NEW s \in SourceSet, EditTests(m, s)
      PROVE  BuildTypes' /\ TestTypes'
  BY <1>2, EditTestsTypes, VarsKept DEF EditTests
<1>3. ASSUME NEW p \in Proc, Start(p) PROVE BuildTypes' /\ TestTypes'
  BY <1>3, StartTypes
<1>4. ASSUME NEW p \in Proc, CompileStep(p) PROVE BuildTypes' /\ TestTypes'
  BY <1>4, ModuleStepTypes, NextLayerTypes, TestVarsKept DEF CompileStep, ModuleStep
<1>5. ASSUME NEW p \in Proc, NEW m \in Module, ParkOutput(p, m)
      PROVE  BuildTypes' /\ TestTypes'
  BY <1>5, ModuleStepTypes, ParkOutputTypes DEF ParkOutput, ModuleStep
<1>6. ASSUME NEW p \in Proc, NEW m \in Module, PlaceOutput(p, m)
      PROVE  BuildTypes' /\ TestTypes'
  BY <1>6, ModuleStepTypes, PlaceOutputTypes DEF PlaceOutput, ModuleStep
<1>7. ASSUME NEW p \in Proc, NEW m \in Module, TestStep(p, m)
      PROVE  BuildTypes' /\ TestTypes'
  BY <1>7, TestStepTypes, VarsKept, FailTestsTypes DEF BlockedTests
<1>8. ASSUME NEW p \in Proc, FinishTests(p) PROVE BuildTypes' /\ TestTypes'
  <2>1. tests' \in [Module -> TestTree] /\ testState' \in [Module -> TestTree]
    BY <1>8 DEF FinishTests, TestTypes
  <2> QED
    BY <1>8, <2>1, EndTestsTypes DEF FinishTests
<1>9. ASSUME NEW p \in Proc, KillTests(p) PROVE BuildTypes' /\ TestTypes'
  <2>1. tests' \in [Module -> TestTree]
    BY <1>9 DEF KillTests, TestTypes
  <2> QED
    BY <1>9, <2>1, TearTestTypes, EndTestsTypes DEF KillTests
<1>10. ASSUME NEW p \in Proc, NEW m \in Module, FailCompilation(p, m) \/ FailTests(p, m)
       PROVE  BuildTypes' /\ TestTypes'
  BY <1>10, FailCompilationTypes, FailTestsTypes
<1>11. CASE UNCHANGED allVars
  BY <1>11, VarsKept, TestVarsKept DEF allVars
<1> QED
  BY <1>1, <1>2, <1>3, <1>4, <1>5, <1>6, <1>7, <1>8, <1>9, <1>10, <1>11, BlockedTypes,
     KillCompilationTypes, FinishCompilationTypes, BeginTestsTypes
     DEF TestNext, CommandStep

------------------------------------------------------------------------------
(* Scheduling and phases.                                                  *)

LEMMA PhasesInit == TestInit => Scheduled /\ Phases
BY DEF TestInit, Init, Scheduled, Phases

Moves(p, m, s) ==
    /\ stage' = [stage EXCEPT ![p][m] = s]
    /\ UNCHANGED <<status, complete, layer>>

\* A module of the layer moves on.
LEMMA ScheduledMoves ==
    ASSUME BuildTypes, Scheduled, NEW p \in Proc, NEW m \in layer[p], NEW s \in Stage,
           Moves(p, m, s)
    PROVE  Scheduled'
BY DEF BuildTypes, Scheduled, Moves

LEMMA AtWork ==
    ASSUME BuildTypes, Scheduled, NEW p \in Proc, NEW m \in Module,
           stage[p][m] \notin {"waiting", "done"}
    PROVE  m \in layer[p] /\ status[p] = "running"
BY DEF BuildTypes, Scheduled

LEMMA StepMoves ==
    ASSUME BuildTypes, Scheduled, NEW p \in Proc, NEW m \in Module, ModuleStep(p, m)
    PROVE  m \in layer[p] /\ status[p] = "running" /\ \E s \in Stage : Moves(p, m, s)
<1> USE DEF Moves, Stage
<1>1. CASE Hash(p, m)
  BY <1>1 DEF Hash, Scheduled
<1>2. CASE Reuse(p, m)
  BY <1>2, AtWork DEF Reuse
<1>3. CASE Compile(p, m)
  BY <1>3, AtWork DEF Compile
<1>4. CASE Park(p, m)
  BY <1>4, AtWork DEF Park
<1>5. CASE Place(p, m)
  BY <1>5, AtWork DEF Place
<1>6. CASE WriteState(p, m)
  BY <1>6, AtWork DEF WriteState
<1> QED
  BY <1>1, <1>2, <1>3, <1>4, <1>5, <1>6 DEF ModuleStep

LEMMA ScheduledLeaves ==
    ASSUME BuildTypes, Scheduled, NEW p \in Proc,
           NEW outcome \in {"testing", "ok", "failed", "killed"}, Abandon(p, outcome)
    PROVE  Scheduled' /\ \A m \in Module : stage'[p][m] = "waiting"
BY DEF BuildTypes, Scheduled, Abandon

\* Other processes are where they were.
Aside(p) ==
    \A q \in Proc \ {p}, m \in Module :
        /\ stage'[q][m] = stage[q][m] /\ status'[q] = status[q]
        /\ testStage'[q][m] = testStage[q][m]
        /\ away'[q][m] \in {away[q][m], NoTests}

LEMMA PhasesAside ==
    ASSUME Phases, NEW p \in Proc, Aside(p),
           \A m \in Module :
               /\ stage'[p][m] # "waiting" => status'[p] = "running"
               /\ testStage'[p][m] # "waiting" => status'[p] = "testing"
               /\ stage'[p][m] # "parked" /\ testStage'[p][m] # "parked" => away'[p][m] = NoTests
    PROVE  Phases'
BY DEF Phases, Aside

\* A command that ends.
LEMMA PhasesForget ==
    ASSUME BuildTypes, TestTypes, Phases, NEW p \in Proc, Forget(p),
           \A q \in Proc \ {p} : stage'[q] = stage[q] /\ status'[q] = status[q],
           \A m \in Module : stage'[p][m] = "waiting"
    PROVE  Phases'
<1>1. Aside(p)
  BY DEF Aside, Forget, TestTypes
<1>2. \A m \in Module : testStage'[p][m] = "waiting" /\ away'[p][m] = NoTests
  BY DEF Forget, TestTypes
<1> QED
  BY <1>1, <1>2, PhasesAside

LEMMA AbandonForget ==
    ASSUME BuildTypes, TestTypes, Scheduled, Phases, NEW p \in Proc,
           NEW outcome \in {"ok", "failed", "killed"}, Abandon(p, outcome), Forget(p)
    PROVE  Scheduled' /\ Phases'
<1>1. \A q \in Proc \ {p} : stage'[q] = stage[q] /\ status'[q] = status[q]
  BY DEF Abandon, BuildTypes
<1> QED
  BY <1>1, ScheduledLeaves, PhasesForget

LEMMA EndTestsPhases ==
    ASSUME BuildTypes, TestTypes, Scheduled, Phases, NEW p \in Proc, status[p] = "testing",
           NEW outcome \in {"ok", "failed", "killed"}, EndTests(p, outcome)
    PROVE  Scheduled' /\ Phases'
<1>1. /\ \A q \in Proc \ {p} : stage'[q] = stage[q] /\ status'[q] = status[q]
      /\ status'[p] = outcome
  BY DEF EndTests, BuildTypes, progress
<1>2. \A m \in Module : stage'[p][m] = "waiting"
  BY DEF EndTests, progress, Phases
<1>3. Scheduled'
  BY <1>1 DEF EndTests, progress, Scheduled
<1> QED
  BY <1>1, <1>2, <1>3, PhasesForget DEF EndTests

LEMMA FailTestsPhases ==
    ASSUME BuildTypes, TestTypes, Scheduled, Phases, NEW p \in Proc, NEW m \in Module,
           FailTests(p, m)
    PROVE  status[p] = "testing" /\ Scheduled' /\ Phases'
<1>1. status[p] = "testing"
  BY DEF FailTests, Underway, Phases
<1> QED
  BY <1>1, EndTestsPhases DEF FailTests

\* The steps of a compilation, whatever they do to the test classes.
LEMMA ModuleStepPhases ==
    ASSUME BuildTypes, TestTypes, Scheduled, Phases, NEW p \in Proc, NEW m \in Module,
           ModuleStep(p, m), testStage' = testStage,
           \A q \in Proc, k \in Module :
               \/ away'[q][k] \in {away[q][k], NoTests} /\ (q = p => stage[p][m] # "parked" \/ k # m)
               \/ away'[q][k] = NoTests
               \/ q = p /\ k = m /\ stage'[p][m] = "parked"
    PROVE  Scheduled' /\ Phases'
<1>1. PICK s \in Stage : Moves(p, m, s)
  BY StepMoves
<1>2. m \in layer[p] /\ status[p] = "running"
  BY StepMoves
<1>3. /\ \A k \in Module : stage'[p][k] = IF k = m THEN s ELSE stage[p][k]
      /\ \A q \in Proc \ {p}, k \in Module : stage'[q][k] = stage[q][k]
  BY <1>1 DEF Moves, BuildTypes
<1>4. Scheduled'
  BY <1>1, <1>2, ScheduledMoves
<1>5. Aside(p)
  BY <1>1, <1>3 DEF Moves, Aside
<1>6. \A k \in Module : testStage[p][k] = "waiting"
  BY <1>2 DEF Phases
<1>7. \A k \in Module :
          /\ stage'[p][k] # "waiting" => status'[p] = "running"
          /\ testStage'[p][k] # "waiting" => status'[p] = "testing"
          /\ stage'[p][k] # "parked" /\ testStage'[p][k] # "parked" => away'[p][k] = NoTests
  BY <1>1, <1>2, <1>3, <1>6 DEF Moves, Phases
<1> QED
  BY <1>4, <1>5, <1>7, PhasesAside

LEMMA CompilationPhases ==
    ASSUME BuildTypes, TestTypes, Scheduled, Phases, NEW p \in Proc, NEW m \in Module,
           \/ (Hash(p, m) \/ Reuse(p, m) \/ Compile(p, m) \/ WriteState(p, m)) /\ UNCHANGED testVars
           \/ ParkOutput(p, m)
           \/ PlaceOutput(p, m)
    PROVE  Scheduled' /\ Phases'
<1>1. CASE (Hash(p, m) \/ Reuse(p, m) \/ Compile(p, m) \/ WriteState(p, m)) /\ UNCHANGED testVars
  <2>1. stage[p][m] # "parked"
    BY <1>1 DEF Hash, Reuse, Compile, WriteState
  <2> QED
    BY <1>1, <2>1, ModuleStepPhases DEF ModuleStep, testVars, testProgress
<1>2. CASE ParkOutput(p, m)
  <2>1. stage[p][m] = "compiled" /\ stage'[p][m] = "parked" /\ Park(p, m)
    BY <1>2 DEF ParkOutput, Park, BuildTypes
  <2>2. \A q \in Proc, k \in Module :
            away'[q][k] = IF k # m THEN away[q][k] ELSE IF q = p THEN tests[m] ELSE NoTests
    BY <1>2 DEF ParkOutput, TestTypes
  <2> QED
    BY <1>2, <2>1, <2>2, ModuleStepPhases DEF ParkOutput, ModuleStep, testProgress
<1>3. CASE PlaceOutput(p, m)
  <2>1. \A q \in Proc, k \in Module :
            away'[q][k] = IF q = p /\ k = m THEN NoTests ELSE away[q][k]
    BY <1>3 DEF PlaceOutput, TestTypes
  <2> QED
    BY <1>3, <2>1, ModuleStepPhases DEF PlaceOutput, ModuleStep, testProgress
<1> QED
  BY <1>1, <1>2, <1>3

\* run_test_module moves one module of one command on.
LEMMA TestStepPhases ==
    ASSUME BuildTypes, TestTypes, Scheduled, Phases, NEW p \in Proc, NEW m \in Module,
           TestStep(p, m), ~BlockedTests(p, m)
    PROVE  Scheduled' /\ Phases'
<1>1. /\ status[p] = "testing" /\ UNCHANGED vars
      /\ \E s \in TestStages :
            /\ testStage' = [testStage EXCEPT ![p][m] = s]
            /\ \/ s = "parked" /\ \E x : away' = [away EXCEPT ![p][m] = x]
               \/ testStage[p][m] # "parked" /\ s # "parked" /\ away' = away
               \/ s # "parked" /\ away' = [away EXCEPT ![p][m] = NoTests]
  <2> USE DEF Advance, TestStages, Testing
  <2>1. CASE \/ SkipTests(p, m) \/ FindRunner(p, m) \/ CompileRunner(p, m) \/ DropRunner(p, m)
             \/ PlaceRunner(p, m) \/ HashTests(p, m) \/ ReuseTests(p, m) \/ CompileTests(p, m)
    BY <2>1 DEF SkipTests, FindRunner, CompileRunner, DropRunner, PlaceRunner, HashTests, ReuseTests,
                CompileTests
  <2>2. CASE ParkTests(p, m)
    BY <2>2 DEF ParkTests
  <2>3. CASE PlaceTests(p, m)
    BY <2>3 DEF PlaceTests
  <2>4. CASE RecordTests(p, m) \/ RunTests(p, m)
    BY <2>4 DEF RecordTests, RunTests
  <2> QED
    BY <2>1, <2>2, <2>3, <2>4 DEF TestStep
<1>2. UNCHANGED <<status, complete, layer, stage>>
  BY <1>1 DEF vars, progress
<1>3. Scheduled'
  BY <1>2 DEF Scheduled
<1>4. Aside(p)
  BY <1>1, <1>2 DEF Aside, TestTypes
<1>5. \A k \in Module :
          /\ stage'[p][k] # "waiting" => status'[p] = "running"
          /\ testStage'[p][k] # "waiting" => status'[p] = "testing"
  BY <1>1, <1>2 DEF Phases
<1>6. \A k \in Module : testStage'[p][k] # "parked" => away'[p][k] = NoTests
  <2>1. PICK s \in TestStages :
            /\ testStage' = [testStage EXCEPT ![p][m] = s]
            /\ \/ s = "parked" /\ \E x : away' = [away EXCEPT ![p][m] = x]
               \/ testStage[p][m] # "parked" /\ s # "parked" /\ away' = away
               \/ s # "parked" /\ away' = [away EXCEPT ![p][m] = NoTests]
    BY <1>1
  <2>2. \A k \in Module : stage[p][k] # "parked"
    BY <1>1 DEF Phases
  <2>3. \A k \in Module : testStage'[p][k] = IF k = m THEN s ELSE testStage[p][k]
    BY <2>1 DEF TestTypes
  <2>4. \A k \in Module \ {m} : away'[p][k] = away[p][k]
    BY <2>1 DEF TestTypes
  <2>5. s # "parked" => away'[p][m] = NoTests
    BY <2>1, <2>2 DEF TestTypes, Phases
  <2> QED
    BY <2>2, <2>3, <2>4, <2>5 DEF Phases
<1> QED
  BY <1>3, <1>4, <1>5, <1>6, PhasesAside

LEMMA PhasesUnchanged ==
    ASSUME Scheduled, Phases, UNCHANGED <<status, complete, layer, stage, testStage, away>>
    PROVE  Scheduled' /\ Phases'
BY DEF Scheduled, Phases

LEMMA PhasesNext ==
    BuildTypes /\ TestTypes /\ Scheduled /\ Phases /\ [TestNext]_allVars => Scheduled' /\ Phases'
<1> SUFFICES ASSUME BuildTypes, TestTypes, Scheduled, Phases, [TestNext]_allVars
             PROVE  Scheduled' /\ Phases'
  OBVIOUS
<1>1. ASSUME NEW m \in Module, EditMain(m) PROVE Scheduled' /\ Phases'
  BY <1>1, PhasesUnchanged DEF EditMain, Edit, progress, testVars, testProgress
<1>2. ASSUME NEW m \in Module, NEW s \in SourceSet, EditTests(m, s) PROVE Scheduled' /\ Phases'
  BY <1>2, PhasesUnchanged DEF EditTests, vars, progress, testProgress
<1>3. ASSUME NEW p \in Proc, Start(p) PROVE Scheduled' /\ Phases'
  <2>1. /\ StartBuild(p) /\ ~InFlight(p) /\ testStage' = testStage /\ away' = away
    BY <1>3 DEF Start, testProgress
  <2>2. \A m \in Module : stage[p][m] = "waiting" /\ testStage[p][m] = "waiting"
    BY <2>1 DEF InFlight, Phases
  <2>3. Scheduled'
    BY <2>1 DEF StartBuild, BuildTypes, Scheduled, LayerAfter
  <2>4. stage' = stage /\ status' = [status EXCEPT ![p] = "running"]
    BY <2>1 DEF StartBuild
  <2>5. Phases'
    BY <2>1, <2>2, <2>4 DEF Phases, BuildTypes
  <2> QED
    BY <2>3, <2>5
<1>4. ASSUME NEW p \in Proc, NEW m \in Module, ParkOutput(p, m) \/ PlaceOutput(p, m)
      PROVE  Scheduled' /\ Phases'
  BY <1>4, CompilationPhases
<1>5. ASSUME NEW p \in Proc, CompileStep(p) PROVE Scheduled' /\ Phases'
  <2>1. CASE NextLayer(p) /\ UNCHANGED testVars
    <3>1. Scheduled'
      BY <2>1 DEF NextLayer, BuildTypes, Scheduled, LayerAfter
    <3>2. Phases'
      BY <2>1 DEF NextLayer, Phases, testVars, testProgress
    <3> QED
      BY <3>1, <3>2
  <2> QED
    BY <1>5, <2>1, CompilationPhases DEF CompileStep
<1>6. ASSUME NEW p \in Proc, NEW m \in Module, BlockedOutput(p, m) \/ BlockedByTests(p, m)
      PROVE  Scheduled' /\ Phases'
  BY <1>6, AbandonForget DEF BlockedOutput, BlockedByTests, Fail
<1>7. ASSUME NEW p \in Proc, NEW m \in Module, TestStep(p, m) PROVE Scheduled' /\ Phases'
  BY <1>7, TestStepPhases, FailTestsPhases DEF BlockedTests
<1>8. ASSUME NEW p \in Proc, FinishCompilation(p) PROVE Scheduled' /\ Phases'
  BY <1>8, AbandonForget DEF FinishCompilation, FinishBuild
<1>9. ASSUME NEW p \in Proc, BeginTests(p) PROVE Scheduled' /\ Phases'
  <2>1. Abandon(p, "testing") /\ status[p] = "running"
    BY <1>9 DEF BeginTests
  <2>2. /\ testStage' = testStage /\ away' = away
        /\ \A m \in Module : testStage[p][m] = "waiting"
    BY <1>9, <2>1 DEF BeginTests, testVars, testProgress, Phases
  <2>3. \A m \in Module : stage[p][m] = "done"
    BY <1>9 DEF BeginTests, Scheduled, BuildTypes
  <2>4. \A m \in Module : away[p][m] = NoTests
    BY <2>2, <2>3 DEF Phases
  <2>5. Scheduled' /\ \A m \in Module : stage'[p][m] = "waiting"
    BY <2>1, ScheduledLeaves
  <2>6. Aside(p) /\ status'[p] = "testing"
    BY <2>1, <2>2 DEF Abandon, Aside, BuildTypes
  <2> QED
    BY <2>2, <2>4, <2>5, <2>6, PhasesAside
<1>10. ASSUME NEW p \in Proc, FinishTests(p) \/ KillTests(p) PROVE Scheduled' /\ Phases'
  BY <1>10, EndTestsPhases DEF FinishTests, KillTests
<1>11. ASSUME NEW p \in Proc, KillCompilation(p) PROVE Scheduled' /\ Phases'
  BY <1>11, AbandonForget DEF KillCompilation, Kill
<1>12. ASSUME NEW p \in Proc, NEW m \in Module, FailCompilation(p, m) \/ FailTests(p, m)
       PROVE  Scheduled' /\ Phases'
  BY <1>12, AbandonForget, FailTestsPhases DEF FailCompilation, Fail
<1>13. CASE UNCHANGED allVars
  BY <1>13, PhasesUnchanged DEF allVars, vars, progress, testVars, testProgress
<1> QED
  BY <1>1, <1>2, <1>3, <1>4, <1>5, <1>6, <1>7, <1>8, <1>9, <1>10, <1>11, <1>12, <1>13
     DEF TestNext, CommandStep

------------------------------------------------------------------------------
(* What is there gets newer.                                               *)

\* While one command is at work the others hold nothing.
LEMMA Alone ==
    ASSUME OneCommand, Phases, NEW p \in Proc, InFlight(p), NEW q \in Proc, q # p, NEW m \in Module
    PROVE  stage[q][m] = "waiting" /\ testStage[q][m] = "waiting" /\ away[q][m] = NoTests
BY DEF OneCommand, Phases, InFlight

\* Once a module has begun, everything else upstream of it is done.
LEMMA RestDone ==
    ASSUME BuildTypes, Scheduled, NEW p \in Proc, NEW m \in Module,
           stage[p][m] # "waiting" \/ m \in layer[p],
           NEW d \in Upstream(m), d # m
    PROVE  d \in Module /\ stage[p][d] = "done"
<1>1. complete[p] \in SUBSET Module /\ layer[p] \in SUBSET Module
  BY DEF BuildTypes
<1>2. CompileDeps[m] \subseteq complete[p]
  BY <1>1, GraphAssumption DEF Scheduled
<1>3. \A e \in complete[p] : CompileDeps[e] \subseteq complete[p]
  BY <1>1, GraphAssumption DEF Scheduled
<1>4. Upstream(m) \subseteq complete[p]
  BY <1>1, <1>2, <1>3, UpstreamLeast
<1> QED
  BY <1>1, <1>4 DEF Scheduled

LEMMA TreesStay == \A d : TreeOf(d)' = TreeOf(d)
BY DEF TreeOf, Tree, Version, Closure, Upstream

\* Nothing that was older than what was there becomes newer by a step.
UnderKept == \A e \in Module, v \in Nat : Under(v, e) => Under(v, e)'
PastKept == \A d \in Module : \A t : Past(t, d) => Past(t, d)'

LEMMA OlderKept ==
    ASSUME BuildTypes, UnderKept, NEW t \in Tree, Older(t)
    PROVE  Older(t)'
BY Counted DEF UnderKept, Older

\* What the classes of d are, or are put back to, does not get older either.
OutputKept(d) ==
    \A t \in TreeOf(d) :
        /\ Older(t)
        /\ HasClasses(d) => NotAfter(t, classes[d])
        /\ \A p \in Proc : stage[p][d] = "parked" /\ backup[p][d][d] # 0 => NotAfter(t, backup[p][d])
        => /\ HasClasses(d)' => NotAfter(t, classes'[d])
           /\ \A p \in Proc : stage'[p][d] = "parked" /\ backup'[p][d][d] # 0 =>
                 NotAfter(t, backup'[p][d])

LEMMA PastFromKept ==
    ASSUME BuildTypes, UnderKept, \A d \in Module : OutputKept(d)
    PROVE  PastKept
<1> SUFFICES ASSUME NEW d \in Module, NEW t, Past(t, d) PROVE Past(t, d)'
  BY DEF PastKept
<1>1. t \in TreeOf(d) /\ t \in Tree /\ Older(t)
  BY DEF Past, TreeOf
<1>2. Older(t)'
  BY <1>1, OlderKept
<1>3. /\ HasClasses(d)' => NotAfter(t, classes'[d])
      /\ \A p \in Proc : stage'[p][d] = "parked" /\ backup'[p][d][d] # 0 =>
            NotAfter(t, backup'[p][d])
  BY <1>1 DEF Past, OutputKept
<1> QED
  BY <1>1, <1>2, <1>3, TreesStay DEF Past, NotAfter

\* Steps that move no directory.
LEMMA KeptInPlace ==
    ASSUME BuildTypes, BuildTypes', UNCHANGED <<classes, temp, backup>>,
           \A e \in Module : src[e] <= src'[e],
           \A p \in Proc, e \in Module :
               \/ stage'[p][e] \notin {"compiled", "parked"}
               \/ stage'[p][e] = stage[p][e]
    PROVE  UnderKept /\ PastKept
<1>1. UnderKept
  <2> SUFFICES ASSUME NEW e \in Module, NEW v \in Nat, Under(v, e) PROVE Under(v, e)'
    BY DEF UnderKept
  <2>1. v <= src'[e]
    <3>1. src[e] \in Nat /\ src'[e] \in Nat
      BY DEF BuildTypes
    <3> QED
      BY <3>1 DEF Under
  <2> QED
    BY <2>1 DEF Under, HasClasses
<1>2. \A d \in Module : OutputKept(d)
  BY DEF OutputKept, HasClasses, NotAfter
<1> QED
  BY <1>1, <1>2, PastFromKept

LEMMA KeptByCompile ==
    ASSUME BuildTypes, BuildTypes', NEW p \in Proc, NEW m \in Module, Compile(p, m)
    PROVE  UnderKept /\ PastKept
<1>1. \A q \in Proc, e \in Module :
          /\ stage'[q][e] = IF q = p /\ e = m THEN "compiled" ELSE stage[q][e]
          /\ temp'[q][e] = IF q = p /\ e = m THEN Compiled(m) ELSE temp[q][e]
  BY DEF Compile, BuildTypes
<1>2. UNCHANGED <<src, classes, backup>> /\ Compiled(m)[m] = src[m]
  BY DEF Compile, disk, Compiled
<1>3. UnderKept
  BY <1>1, <1>2 DEF UnderKept, Under, HasClasses
<1>4. \A d \in Module : OutputKept(d)
  BY <1>1, <1>2 DEF OutputKept, HasClasses, NotAfter
<1> QED
  BY <1>3, <1>4, PastFromKept

\* The output is moved to the backup.
LEMMA KeptByPark ==
    ASSUME BuildTypes, BuildTypes', NEW p \in Proc, NEW m \in Module, Park(p, m)
    PROVE  UnderKept /\ PastKept
<1>1. \A q \in Proc, e \in Module :
          /\ stage'[q][e] = IF q = p /\ e = m THEN "parked" ELSE stage[q][e]
          /\ backup'[q][e] = IF q = p /\ e = m THEN classes[m] ELSE backup[q][e]
          /\ classes'[e] = IF e = m THEN NoTree ELSE classes[e]
  BY DEF Park, BuildTypes
<1>2. UNCHANGED <<src, temp>> /\ stage[p][m] = "compiled" /\ NoTree[m] = 0
  BY DEF Park, NoTree
<1>3. UnderKept
  BY <1>1, <1>2 DEF UnderKept, Under, HasClasses
<1>4. \A d \in Module : OutputKept(d)
  BY <1>1, <1>2 DEF OutputKept, HasClasses, NotAfter
<1> QED
  BY <1>3, <1>4, PastFromKept

\* The new output is at least as new as anything: its own sources were the
\* newest, and what is upstream is what it was compiled against.
LEMMA KeptByPlace ==
    ASSUME BuildTypes, BuildTypes', Scheduled, NEW p \in Proc, NEW m \in Module, Place(p, m),
           \A e \in Module : CompilationOk(p, e)
    PROVE  UnderKept /\ PastKept
<1>1. \A q \in Proc, e \in Module :
          /\ stage'[q][e] = IF q = p /\ e = m THEN "placed" ELSE stage[q][e]
          /\ temp'[q][e] = IF q = p /\ e = m THEN NoTree ELSE temp[q][e]
          /\ backup'[q][e] = IF q = p /\ e = m THEN NoTree ELSE backup[q][e]
          /\ classes'[e] = IF e = m THEN temp[p][m] ELSE classes[e]
  BY DEF Place, BuildTypes
<1>2. UNCHANGED src /\ stage[p][m] = "parked" /\ NoTree[m] = 0
  BY DEF Place, NoTree
<1>3. UnderKept
  BY <1>1, <1>2 DEF UnderKept, Under, HasClasses
<1>4. ASSUME NEW t \in TreeOf(m), Older(t)
      PROVE  NotAfter(t, temp[p][m])
  <2> SUFFICES ASSUME NEW e \in Module PROVE t[e] <= temp[p][m][e]
    BY DEF NotAfter
  <2>1. CASE e = m
    BY <1>2, <1>4, <2>1 DEF Older, Under
  <2>2. CASE e \in Upstream(m) \ {m}
    <3>1. stage[p][e] = "done"
      BY <1>2, <2>2, RestDone
    <3>2. HasClasses(e) /\ temp[p][m][e] = classes[e][e]
      BY <1>2, <2>2, <3>1 DEF CompilationOk
    <3> QED
      BY <1>4, <3>2 DEF Older, Under
  <2>3. CASE e \notin Closure(m)
    BY <2>3, Counted DEF TreeOf
  <2> QED
    BY <2>1, <2>2, <2>3 DEF Closure
<1>5. \A d \in Module : OutputKept(d)
  BY <1>1, <1>2, <1>4 DEF OutputKept, HasClasses, NotAfter
<1> QED
  BY <1>3, <1>5, PastFromKept

\* A command that stops leaves each output as it was, or put back.
LEMMA KeptByLeaving ==
    ASSUME BuildTypes, BuildTypes', OneCommand, Phases, NEW p \in Proc, InFlight(p),
           NEW outcome \in {"testing", "ok", "failed", "killed"}, Abandon(p, outcome),
           src' = src,
           \A m \in Module : \/ classes'[m] = classes[m]
                             \/ stage[p][m] = "parked" /\ classes'[m] = backup[p][m]
    PROVE  UnderKept /\ PastKept
<1>1. \A q \in Proc, e \in Module : stage'[q][e] = "waiting"
  BY Alone DEF Abandon, BuildTypes
<1>2. UnderKept
  BY <1>1 DEF UnderKept, Under, HasClasses
<1>3. \A d \in Module : OutputKept(d)
  BY <1>1 DEF OutputKept, HasClasses, NotAfter
<1> QED
  BY <1>2, <1>3, PastFromKept

LEMMA KeptUnchanged ==
    ASSUME UNCHANGED <<src, classes, stage, temp, backup>>
    PROVE  UnderKept /\ PastKept
<1>1. \A d \in Module : \A t : Older(t) => Older(t)'
  BY DEF Older, Under, HasClasses
<1> QED
  BY <1>1, TreesStay DEF UnderKept, PastKept, Under, Past, HasClasses, NotAfter

------------------------------------------------------------------------------
(* Test classes and records that stay, go away or come back.               *)

LEMMA NothingIsPast ==
    ASSUME BuildTypes, NEW d \in Module
    PROVE  Past(NoTree, d)
<1>1. NoTree \in TreeOf(d) /\ \A e \in Module : NoTree[e] = 0
  BY NoTreeType DEF NoTree
<1>2. Older(NoTree)
  BY <1>1, Counted DEF Older, Under
<1> QED
  BY <1>1, <1>2, Counted DEF Past, NotAfter

LEMMA NoTestsKnown == BuildTypes => Known(NoTests)
BY NothingIsPast, NoTestsType DEF Known

LEMMA KnownKept ==
    ASSUME PastKept, NEW x, Known(x)
    PROVE  Known(x)'
BY DEF PastKept, Known

LEMMA KnownThen ==
    ASSUME NEW x, Known(x)', NEW m \in Module
    PROVE  /\ tests'[m] = x => Known(tests[m])'
           /\ testState'[m] = x => Known(testState[m])'
           /\ \A q \in Proc : away'[q][m] = x => Known(away[q][m])'
<1> USE DEF Known, Past, Older, Under, HasClasses, NotAfter
<1>1. ASSUME tests'[m] = x PROVE Known(tests[m])'
  BY <1>1
<1>2. ASSUME testState'[m] = x PROVE Known(testState[m])'
  BY <1>2
<1>3. ASSUME NEW q \in Proc, away'[q][m] = x PROVE Known(away[q][m])'
  BY <1>3
<1> HIDE DEF Known, Past, Older, Under, HasClasses, NotAfter
<1> QED
  BY <1>1, <1>2, <1>3

LEMMA RecordedThen ==
    ASSUME NEW x, NEW m \in Module, Recorded(m, x)'
    PROVE  /\ tests'[m] = x => Recorded(m, tests[m])'
           /\ \A q \in Proc : away'[q][m] = x => Recorded(m, away[q][m])'
BY DEF Recorded, Since, NotAfter, TestPath, TestUpstream

LEMMA TestPathModules == \A m \in Module : TestPath(m) \subseteq Module
BY GraphAssumption DEF TestPath, TestUpstream

\* An empty record is not newer than anything.
LEMMA NothingIsSince ==
    ASSUME NEW m \in Module, NEW x \in TestTree
    PROVE  Since(m, NoTests, x)
<1>1. \A s \in SourceSet : x.own[s] \in Nat /\ NoTests.own[s] = 0
  BY NoTestsType DEF TestTree, Versions, NoVersions
<1>2. \A d, e \in Module : x.against[d][e] \in Nat /\ NoTests.against[d][e] = 0
  BY NoTestsType DEF TestTree, Tree, Version, NoTree
<1> QED
  BY <1>1, <1>2, TestPathModules DEF Since, NotAfter

LEMMA TestsKept ==
    ASSUME BuildTypes, TestTypes, PastKept, KnownTests, RecordsOk,
           \A m \in Module, s \in SourceSet : testSrc[m][s] <= testSrc'[m][s],
           TestTypes',
           \A m \in Module :
               /\ tests'[m] \in {tests[m], NoTests} \cup {away[q][m] : q \in Proc}
               /\ testState'[m] \in {testState[m], NoTests}
               /\ \A q \in Proc : away'[q][m] \in {away[q][m], tests[m], NoTests}
    PROVE  KnownTests' /\ RecordsOk'
<1>1. Known(NoTests)
  BY NoTestsKnown
<1>2. \A m \in Module, s \in SourceSet :
          testSrc[m][s] \in Nat /\ testSrc'[m][s] \in Nat /\ testState[m].own[s] \in Nat
  BY TestsCounted DEF TestTypes, Versions
<1>3. \A s \in SourceSet : NoTests.own[s] = 0
  BY NoTestsType DEF NoVersions
<1>4. ASSUME NEW m \in Module
      PROVE  /\ Known(tests[m])' /\ Known(testState[m])'
             /\ \A q \in Proc : Known(away[q][m])'
             /\ \A s \in SourceSet : testState'[m].own[s] <= testSrc'[m][s]
  <2>1. Known(tests'[m]) /\ Known(testState'[m]) /\ \A q \in Proc : Known(away'[q][m])
    BY <1>1 DEF KnownTests
  <2>2. \A x : Known(x) => Known(x)'
    BY KnownKept
  <2>3. Known(tests[m])' /\ Known(testState[m])' /\ \A q \in Proc : Known(away[q][m])'
    BY <2>1, <2>2, KnownThen
  <2> QED
    BY <1>2, <1>3, <2>3 DEF KnownTests
<1>5. ASSUME NEW m \in Module
      PROVE  Recorded(m, tests[m])' /\ \A q \in Proc : Recorded(m, away[q][m])'
  <2>1. \A x \in TestTree : Recorded(m, x) => Recorded(m, x)'
    <3> SUFFICES ASSUME NEW x \in TestTree, Recorded(m, x) PROVE Recorded(m, x)'
      OBVIOUS
    <3>1. CASE testState'[m] = testState[m]
      BY <3>1 DEF Recorded, Since, NotAfter, TestPath, TestUpstream
    <3>2. CASE testState'[m] = NoTests
      BY <3>2, NothingIsSince DEF Recorded, Since, NotAfter, TestPath, TestUpstream
    <3> QED
      BY <3>1, <3>2
  <2>2. Recorded(m, NoTests)
    BY NoTestsType DEF Recorded
  <2>3. Recorded(m, tests'[m]) /\ \A q \in Proc : Recorded(m, away'[q][m])
    BY <2>2 DEF RecordsOk
  <2>4. tests'[m] \in TestTree /\ \A q \in Proc : away'[q][m] \in TestTree
    BY DEF TestTypes
  <2> QED
    BY <2>1, <2>3, <2>4, RecordedThen
<1> QED
  BY <1>4, <1>5 DEF KnownTests, RecordsOk

LEMMA TestsUntouched ==
    ASSUME BuildTypes, TestTypes, TestTypes', PastKept, KnownTests, RecordsOk,
           UNCHANGED <<testSrc, tests, testState, away>>
    PROVE  KnownTests' /\ RecordsOk'
<1>1. \A m \in Module, s \in SourceSet : testSrc[m][s] <= testSrc'[m][s]
  BY TestsCounted
<1> QED
  BY <1>1, TestsKept

\* Nobody tests.
LEMMA NoneTests ==
    ASSUME Phases', \A q \in Proc : status'[q] # "testing"
    PROVE  \A q \in Proc, m \in Module : TestOk(q, m)'
BY DEF Phases, TestOk, Testing

\* A process without a command.
LEMMA Bystander ==
    ASSUME Phases', NEW q \in Proc, ~InFlight(q)'
    PROVE  CommandOk(q)' /\ \A m \in Module : TestOk(q, m)'
BY DEF Phases, CommandOk, CompilationOk, InFlight, TestOk, Testing

\* No step but Start puts a command in flight.
LEMMA OneCommandKept ==
    ASSUME OneCommand, \A q \in Proc : InFlight(q)' => InFlight(q)
    PROVE  OneCommand'
BY DEF OneCommand

------------------------------------------------------------------------------
(* A compilation.                                                          *)

Steady == OneCommand /\ ClassesOk /\ \A p \in Proc : CommandOk(p)
Base == BuildTypes /\ TestTypes /\ Scheduled /\ Phases

LEMMA SourcesSame == BuildTypes => \A e \in Module : src[e] <= src[e]
BY Counted

LEMMA SteadyHash ==
    ASSUME Base, Base', Steady, NEW p \in Proc, NEW m \in Module, Hash(p, m),
           asked' = asked, testSrc' = testSrc
    PROVE  Steady' /\ PastKept
<1> USE DEF Base
<1>1. \A q \in Proc, k \in Module :
          /\ stage'[q][k] = IF q = p /\ k = m THEN "hashed" ELSE stage[q][k]
          /\ seen'[q][k] = IF q = p /\ k = m THEN src[m] ELSE seen[q][k]
  BY DEF Hash, BuildTypes, Tree
<1>2. UNCHANGED <<src, classes, state, temp, backup, status>> /\ stage[p][m] = "waiting"
  BY DEF Hash, disk
<1>3. UnderKept /\ PastKept
  BY <1>1, <1>2, SourcesSame, KeptInPlace
<1>4. ClassesOk'
  BY <1>1, <1>2 DEF Steady, ClassesOk, Older, Under, HasClasses
<1>5. \A q \in Proc, k \in Module : CompilationOk(q, k)'
  <2>1. asked[p].main[m] <= src[m] /\ src[m] <= src[m]
    <3>1. status[p] = "running"
      BY DEF Hash, Scheduled
    <3> QED
      BY <3>1, SourcesSame DEF Steady, CommandOk, InFlight
  <2> QED
    BY <1>1, <1>2, <2>1 DEF Steady, CommandOk, CompilationOk, HasClasses
<1>6. OneCommand' /\ \A q \in Proc : CommandOk(q)'
  BY <1>2, <1>5 DEF Steady, OneCommand, CommandOk, InFlight, HasClasses
<1> QED
  BY <1>3, <1>4, <1>6 DEF Steady

\* A hit returns classes that are as new as the record, which is as new as the
\* sources were when they were hashed.
LEMMA SteadyReuse ==
    ASSUME Base, Base', Steady, NEW p \in Proc, NEW m \in Module, Reuse(p, m),
           asked' = asked, testSrc' = testSrc
    PROVE  Steady' /\ PastKept
<1> USE DEF Base
<1>1. \A q \in Proc, k \in Module :
          stage'[q][k] = IF q = p /\ k = m THEN "done" ELSE stage[q][k]
  BY DEF Reuse, BuildTypes
<1>2. UNCHANGED <<src, classes, state, seen, temp, backup, status>> /\ stage[p][m] = "hashed"
  BY DEF Reuse, disk
<1>3. UnderKept /\ PastKept
  BY <1>1, <1>2, SourcesSame, KeptInPlace
<1>4. ClassesOk'
  BY <1>1, <1>2 DEF Steady, ClassesOk, Older, Under, HasClasses
<1>5. HasClasses(m) /\ seen[p][m] <= classes[m][m]
  <2>1. HasClasses(m) /\ state[m][m] = seen[p][m]
    BY ClosureFacts DEF Reuse, Hit, Fingerprint
  <2> QED
    BY <2>1 DEF Steady, ClassesOk, Under
<1>6. \A q \in Proc, k \in Module : CompilationOk(q, k)'
  BY <1>1, <1>2, <1>5 DEF Steady, CommandOk, CompilationOk, HasClasses
<1>7. OneCommand' /\ \A q \in Proc : CommandOk(q)'
  BY <1>2, <1>6 DEF Steady, OneCommand, CommandOk, InFlight, HasClasses
<1> QED
  BY <1>3, <1>4, <1>7 DEF Steady

LEMMA SteadyCompile ==
    ASSUME Base, Base', Steady, NEW p \in Proc, NEW m \in Module, Compile(p, m),
           asked' = asked, testSrc' = testSrc
    PROVE  Steady' /\ PastKept
<1> USE DEF Base
<1>1. \A q \in Proc, k \in Module :
          /\ stage'[q][k] = IF q = p /\ k = m THEN "compiled" ELSE stage[q][k]
          /\ temp'[q][k] = IF q = p /\ k = m THEN Compiled(m) ELSE temp[q][k]
  BY DEF Compile, BuildTypes
<1>2. UNCHANGED <<src, classes, state, seen, backup, status>> /\ stage[p][m] = "hashed"
  BY DEF Compile, disk
<1>3. UnderKept /\ PastKept
  BY KeptByCompile
<1>4. ClassesOk'
  <2>1. \A k \in Module : Older(classes[k])' /\ Under(state[k][k], k)'
    <3>1. \A k \in Module : classes[k] \in Tree /\ state[k][k] \in Nat
      BY Counted DEF BuildTypes
    <3>2. \A k \in Module : Older(classes[k]) /\ Under(state[k][k], k)
      BY DEF Steady, ClassesOk
    <3>3. \A k \in Module, t \in Tree : Older(t) => Older(t)'
      BY <1>3, OlderKept
    <3>4. \A k \in Module : \A v \in Nat : Under(v, k) => Under(v, k)'
      BY <1>3 DEF UnderKept
    <3>5. \A k \in Module : classes'[k] = classes[k] /\ state'[k][k] = state[k][k]
      BY <1>2
    <3>6. \A k \in Module : Older(classes[k])'
      BY <3>1, <3>2, <3>3, <3>5 DEF Older, Under, HasClasses
    <3>7. \A k \in Module : Under(state[k][k], k)'
      BY <3>1, <3>2, <3>4, <3>5 DEF Under, HasClasses
    <3> QED
      BY <3>6, <3>7
  <2>2. \A q \in Proc, k \in Module : stage'[q][k] = "parked" => Older(backup[q][k])'
    <3>1. \A q \in Proc, k \in Module : backup[q][k] \in Tree /\ backup' = backup
      BY <1>2 DEF BuildTypes
    <3>2. \A q \in Proc, k \in Module : stage'[q][k] = "parked" => Older(backup[q][k])
      BY <1>1 DEF Steady, ClassesOk
    <3>3. \A t \in Tree : Older(t) => Older(t)'
      BY <1>3, OlderKept
    <3> QED
      BY <3>1, <3>2, <3>3 DEF Older, Under, HasClasses
  <2> QED
    BY <2>1, <2>2 DEF ClassesOk
<1>5. /\ Compiled(m)[m] = src[m]
      /\ \A d \in Upstream(m) \ {m} : d \in Module /\ Compiled(m)[d] = classes[d][d]
  BY DEF Compiled, Upstream
<1>6. \A q \in Proc, k \in Module : CompilationOk(q, k)'
  <2>1. seen[p][m] <= src[m]
    BY <1>2 DEF Steady, CommandOk, CompilationOk
  <2>2. src[m] <= src[m] /\ src[m] # 0
    BY Counted
  <2> QED
    BY <1>1, <1>2, <1>5, <2>1, <2>2 DEF Steady, CommandOk, CompilationOk, HasClasses, Upstream
<1>7. OneCommand' /\ \A q \in Proc : CommandOk(q)'
  BY <1>2, <1>6 DEF Steady, OneCommand, CommandOk, InFlight, HasClasses
<1> QED
  BY <1>3, <1>4, <1>7 DEF Steady

\* Everything that is in place after a step was older than the rest before it.
LEMMA ClassesThen ==
    ASSUME BuildTypes, BuildTypes', UnderKept,
           \A m \in Module : Older(classes'[m]) \/ Older(classes[m])',
           \A m \in Module : Under(state'[m][m], m),
           \A p \in Proc, m \in Module : stage'[p][m] = "parked" => Older(backup'[p][m])
    PROVE  ClassesOk'
<1>1. \A t \in Tree : Older(t) => Older(t)'
  BY OlderKept
<1>2. ASSUME NEW m \in Module PROVE Older(classes[m])' /\ Under(state[m][m], m)'
  <2>1. classes'[m] \in Tree /\ state'[m][m] \in Nat
    BY Counted DEF BuildTypes, Tree, Version
  <2>2. Older(classes'[m]) => Older(classes[m])'
    <3>1. \A t \in Tree : Older(t)' /\ classes'[m] = t => Older(classes[m])'
      BY DEF Older, Under, HasClasses
    <3> QED
      BY <1>1, <2>1, <3>1
  <2>3. Under(state[m][m], m)'
    <3>1. \A v \in Nat : Under(v, m)' /\ state'[m][m] = v => Under(state[m][m], m)'
      BY DEF Under, HasClasses
    <3> QED
      BY <2>1, <3>1 DEF UnderKept
  <2> QED
    BY <2>2, <2>3
<1>3. ASSUME NEW p \in Proc, NEW m \in Module, stage'[p][m] = "parked" PROVE Older(backup[p][m])'
  <2>1. backup'[p][m] \in Tree
    BY DEF BuildTypes, Tree, Version
  <2>2. \A t \in Tree : Older(t)' /\ backup'[p][m] = t => Older(backup[p][m])'
    BY DEF Older, Under, HasClasses
  <2> QED
    BY <1>1, <1>3, <2>1, <2>2
<1> QED
  BY <1>2, <1>3 DEF ClassesOk

\* Moving the output of a module about disturbs no other compilation: those
\* that were compiled against it have not begun.
LEMMA OthersOk ==
    ASSUME Base, Steady, NEW p \in Proc, NEW m \in Module,
           status[p] = "running", stage[p][m] \notin {"waiting", "done"},
           UNCHANGED <<src, seen, asked>>,
           \A q \in Proc, k \in Module : q # p \/ k # m =>
               stage'[q][k] = stage[q][k] /\ temp'[q][k] = temp[q][k],
           \A k \in Module \ {m} : classes'[k] = classes[k],
           NEW q \in Proc, NEW k \in Module, q # p \/ k # m
    PROVE  CompilationOk(q, k)'
<1>1. CASE q # p
  <2>1. stage[q][k] = "waiting"
    BY <1>1, Alone DEF Base, Steady, InFlight
  <2> QED
    BY <1>1, <2>1 DEF CompilationOk
<1>2. CASE q = p /\ k # m
  <2>1. stage[p][k] # "waiting" => m \notin Upstream(k) \ {k}
    BY <1>2, RestDone DEF Base
  <2>2. \A d \in Upstream(k) \ {k} : d \in Module
    BY DEF Upstream
  <2> QED
    BY <1>2, <2>1, <2>2 DEF Steady, CommandOk, CompilationOk, HasClasses
<1> QED
  BY <1>1, <1>2

\* Nobody tests while a command compiles.
LEMMA CompilingOnly ==
    ASSUME OneCommand, NEW p \in Proc, status[p] = "running", status' = status,
           asked' = asked, src' = src, testSrc' = testSrc,
           \A q \in Proc : CommandOk(q), \A q \in Proc, k \in Module : CompilationOk(q, k)'
    PROVE  OneCommand' /\ \A q \in Proc : CommandOk(q)'
<1>1. \A q \in Proc : status[q] # "testing"
  BY DEF OneCommand, InFlight
<1> QED
  BY <1>1 DEF OneCommand, CommandOk, InFlight

LEMMA SteadyPark ==
    ASSUME Base, Base', Steady, NEW p \in Proc, NEW m \in Module, Park(p, m),
           asked' = asked, testSrc' = testSrc
    PROVE  Steady' /\ PastKept
<1> USE DEF Base
<1>1. \A q \in Proc, k \in Module :
          /\ stage'[q][k] = IF q = p /\ k = m THEN "parked" ELSE stage[q][k]
          /\ backup'[q][k] = IF q = p /\ k = m THEN classes[m] ELSE backup[q][k]
          /\ classes'[k] = IF k = m THEN NoTree ELSE classes[k]
  BY DEF Park, BuildTypes
<1>2. UNCHANGED <<src, state, seen, temp, status>> /\ stage[p][m] = "compiled" /\ status[p] = "running"
  BY DEF Park, Phases
<1>3. UnderKept /\ PastKept
  BY KeptByPark
<1>4. ClassesOk'
  <2>1. Older(NoTree)
    BY NothingIsPast DEF Past
  <2> QED
    BY <1>1, <1>2, <1>3, <2>1, ClassesThen DEF Steady, ClassesOk
<1>5. CompilationOk(p, m)'
  <2>1. \A d \in Upstream(m) \ {m} : d \in Module
    BY DEF Upstream
  <2> QED
    BY <1>1, <1>2, <2>1 DEF Steady, CommandOk, CompilationOk, Upstream
<1>6. \A q \in Proc, k \in Module : CompilationOk(q, k)'
  BY <1>1, <1>2, <1>5, OthersOk
<1>7. OneCommand' /\ \A q \in Proc : CommandOk(q)'
  BY <1>2, <1>6, CompilingOnly DEF Steady
<1> QED
  BY <1>3, <1>4, <1>7 DEF Steady

LEMMA SteadyPlace ==
    ASSUME Base, Base', Steady, NEW p \in Proc, NEW m \in Module, Place(p, m),
           asked' = asked, testSrc' = testSrc
    PROVE  Steady' /\ PastKept
<1> USE DEF Base
<1>1. \A q \in Proc, k \in Module :
          /\ stage'[q][k] = IF q = p /\ k = m THEN "placed" ELSE stage[q][k]
          /\ temp'[q][k] = IF q = p /\ k = m THEN NoTree ELSE temp[q][k]
          /\ backup'[q][k] = IF q = p /\ k = m THEN NoTree ELSE backup[q][k]
          /\ classes'[k] = IF k = m THEN temp[p][m] ELSE classes[k]
  BY DEF Place, BuildTypes
<1>2. UNCHANGED <<src, state, seen, status>> /\ stage[p][m] = "parked" /\ status[p] = "running"
  BY DEF Place, Phases
<1>3. UnderKept /\ PastKept
  BY KeptByPlace DEF Steady, CommandOk
<1>4. /\ temp[p][m][m] # 0 /\ temp[p][m][m] <= src[m] /\ seen[p][m] <= temp[p][m][m]
      /\ asked[p].main[m] <= seen[p][m] /\ seen[p][m] <= src[m]
      /\ \A d \in Upstream(m) \ {m} : d \in Module /\ temp[p][m][d] = classes[d][d]
  BY <1>2 DEF Steady, CommandOk, CompilationOk, Upstream
<1>5. \A q \in Proc : stage'[q][m] \notin {"compiled", "parked"}
  BY <1>1, <1>2, Alone DEF Steady, InFlight
<1>6. Older(classes[m])'
  <2> SUFFICES ASSUME NEW e \in Module PROVE Under(classes[m][e], e)'
    BY DEF Older
  <2>1. CASE e = m
    <3>1. temp[p][m][m] <= temp[p][m][m]
      BY Counted
    <3> QED
      BY <1>1, <1>2, <1>4, <1>5, <2>1, <3>1 DEF Under
  <2>2. CASE e \in Upstream(m) \ {m}
    <3>1. stage[p][e] = "done"
      BY <1>2, <2>2, RestDone
    <3>2. \A q \in Proc : stage'[q][e] \notin {"compiled", "parked"}
      BY <1>1, <1>2, <2>2, <3>1, Alone DEF Steady, InFlight
    <3>3. classes[e][e] <= src[e] /\ classes[e][e] <= classes[e][e]
      BY Counted DEF Steady, ClassesOk, Older, Under
    <3> QED
      BY <1>1, <1>2, <1>4, <2>2, <3>2, <3>3 DEF Under
  <2>3. CASE e \notin Closure(m)
    <3>1. temp[p][m][e] = 0
      BY <2>3 DEF BuildTypes, TreeOf
    <3>2. Under(0, e)'
      BY Counted DEF UnderKept, Under, BuildTypes, Tree, Version
    <3> QED
      BY <1>1, <3>1, <3>2 DEF Under, HasClasses
  <2> QED
    BY <2>1, <2>2, <2>3 DEF Closure
<1>7. ClassesOk'
  BY <1>1, <1>2, <1>3, <1>6, ClassesThen DEF Steady, ClassesOk
<1>8. CompilationOk(p, m)'
  BY <1>1, <1>2, <1>4 DEF CompilationOk, HasClasses
<1>9. \A q \in Proc, k \in Module : CompilationOk(q, k)'
  BY <1>1, <1>2, <1>8, OthersOk
<1>10. OneCommand' /\ \A q \in Proc : CommandOk(q)'
  BY <1>2, <1>9, CompilingOnly DEF Steady
<1> QED
  BY <1>3, <1>7, <1>10 DEF Steady

\* The record names what was hashed before the classes were made.
LEMMA SteadyWriteState ==
    ASSUME Base, Base', Steady, NEW p \in Proc, NEW m \in Module, WriteState(p, m),
           asked' = asked, testSrc' = testSrc
    PROVE  Steady' /\ PastKept
<1> USE DEF Base
<1>1. \A q \in Proc, k \in Module :
          /\ stage'[q][k] = IF q = p /\ k = m THEN "done" ELSE stage[q][k]
          /\ state'[k] = IF k = m THEN Fingerprint(p, m) ELSE state[k]
  BY DEF WriteState, BuildTypes
<1>2. /\ UNCHANGED <<src, classes, seen, temp, backup, status>> /\ stage[p][m] = "placed"
      /\ status[p] = "running"
  BY DEF WriteState, Phases
<1>3. UnderKept /\ PastKept
  BY <1>1, <1>2, SourcesSame, KeptInPlace
<1>4. Under(Fingerprint(p, m)[m], m)
  <2>1. Fingerprint(p, m)[m] = seen[p][m]
    BY ClosureFacts DEF Fingerprint
  <2>2. \A q \in Proc : stage[q][m] \notin {"compiled", "parked"}
    BY <1>2, Alone DEF Steady, InFlight
  <2>3. seen[p][m] <= src[m] /\ seen[p][m] <= classes[m][m]
    BY <1>2 DEF Steady, CommandOk, CompilationOk
  <2> QED
    BY <2>1, <2>2, <2>3 DEF Under
<1>5. ClassesOk'
  BY <1>1, <1>2, <1>3, <1>4, ClassesThen DEF Steady, ClassesOk
<1>6. \A q \in Proc, k \in Module : CompilationOk(q, k)'
  BY <1>1, <1>2 DEF Steady, CommandOk, CompilationOk, HasClasses
<1>7. OneCommand' /\ \A q \in Proc : CommandOk(q)'
  BY <1>2, <1>6, CompilingOnly DEF Steady
<1> QED
  BY <1>3, <1>5, <1>7 DEF Steady

\* Steps that change nothing the compilations depend on.
LEMMA SteadyUnchanged ==
    ASSUME Steady, UNCHANGED <<src, classes, state, status, stage, seen, temp, backup, asked>>,
           \A m \in Module, s \in SourceSet : testSrc[m][s] <= testSrc'[m][s],
           TestTypes, TestTypes'
    PROVE  Steady' /\ PastKept
<1>1. OneCommand' /\ ClassesOk'
  BY DEF Steady, OneCommand, InFlight, ClassesOk, Older, Under, HasClasses
<1>2. ASSUME NEW q \in Proc PROVE CommandOk(q)'
  <2>1. \A m \in Module, s \in SourceSet :
            /\ asked[q].tests[m][s] \in Nat /\ testSrc[m][s] \in Nat /\ testSrc'[m][s] \in Nat
    BY TestsCounted DEF TestTypes, Versions
  <2>2. \A m \in Module : CompilationOk(q, m)'
    BY DEF Steady, CommandOk, CompilationOk, HasClasses
  <2> QED
    BY <2>1, <2>2 DEF Steady, CommandOk, InFlight, HasClasses
<1> QED
  BY <1>1, <1>2, KeptUnchanged DEF Steady

\* A command stops, or goes on to its tests.
LEMMA SteadyLeave ==
    ASSUME Base, Base', Steady, NEW p \in Proc, InFlight(p),
           NEW outcome \in {"testing", "ok", "failed", "killed"}, Abandon(p, outcome),
           src' = src, testSrc' = testSrc,
           \A m \in Module : \/ classes'[m] = classes[m]
                             \/ stage[p][m] = "parked" /\ classes'[m] = backup[p][m],
           \A m \in Module : state'[m] \in {state[m], NoTree},
           outcome = "testing" =>
               /\ asked' = asked
               /\ \A m \in Module : HasClasses(m)' /\ asked[p].main[m] <= classes'[m][m]
    PROVE  Steady' /\ PastKept
<1> USE DEF Base
<1>1. \A q \in Proc, m \in Module : stage'[q][m] = "waiting"
  BY Alone DEF Abandon, BuildTypes, Steady
<1>2. \A q \in Proc : status'[q] = IF q = p THEN outcome ELSE status[q]
  BY DEF Abandon, BuildTypes
<1>3. \A q \in Proc \ {p} : ~InFlight(q)'
  BY <1>2 DEF Steady, OneCommand, InFlight
<1>4. UnderKept /\ PastKept
  BY KeptByLeaving DEF Steady
<1>5. ClassesOk'
  <2>1. \A m \in Module : Under(state'[m][m], m)
    <3>1. \A m \in Module : Under(0, m) /\ NoTree[m] = 0
      BY Counted DEF Under, NoTree
    <3> QED
      BY <3>1 DEF Steady, ClassesOk
  <2>2. \A m \in Module : Older(classes'[m])
    BY DEF Steady, ClassesOk
  <2> QED
    BY <1>1, <1>4, <2>1, <2>2, ClassesThen
<1>6. OneCommand'
  BY <1>3 DEF OneCommand
<1>7. CommandOk(p)'
  <2>1. CASE outcome = "testing"
    <3>1. \A m \in Module : CompilationOk(p, m)'
      BY <1>1 DEF CompilationOk
    <3> QED
      BY <1>2, <2>1, <3>1 DEF Steady, CommandOk
  <2>2. CASE outcome # "testing"
    <3>1. ~InFlight(p)'
      BY <1>2, <2>2 DEF InFlight
    <3> QED
      BY <3>1, Bystander
  <2> QED
    BY <2>1, <2>2
<1> QED
  BY <1>3, <1>4, <1>5, <1>6, <1>7, Bystander DEF Steady

------------------------------------------------------------------------------
(* A command that compiles.                                                *)

\* What holds of test classes and records is the concern of the command that
\* tests.
LEMMA CompileCalm ==
    ASSUME Base, Base', Calm, NEW p \in Proc, CompileStep(p)
    PROVE  Calm'
<1> USE DEF Base
<1>1. UNCHANGED testVars /\ asked' = asked /\ testSrc' = testSrc /\ status' = status
  BY DEF CompileStep, testVars, testDisk, history, Hash, Reuse, Compile, WriteState, NextLayer
<1>2. Steady
  BY DEF Calm, Steady
<1>3. Steady' /\ PastKept
  <2>1. CASE NextLayer(p)
    <3>1. UNCHANGED <<src, classes, state, status, stage, seen, temp, backup, asked>>
      BY <1>1, <2>1 DEF NextLayer, disk
    <3>2. \A m \in Module, s \in SourceSet : testSrc[m][s] <= testSrc'[m][s]
      BY <1>1, TestsCounted
    <3> QED
      BY <1>2, <3>1, <3>2, SteadyUnchanged
  <2> QED
    BY <1>1, <1>2, <2>1, SteadyHash, SteadyReuse, SteadyCompile, SteadyWriteState DEF CompileStep
<1>4. KnownTests' /\ RecordsOk'
  BY <1>1, <1>3, TestsUntouched DEF Calm, testVars, testDisk
<1>5. status[p] = "running"
  BY DEF CompileStep, Hash, Reuse, Compile, WriteState, NextLayer, Phases, Scheduled
<1>6. \A q \in Proc : status'[q] # "testing"
  BY <1>1, <1>5 DEF Calm, OneCommand, InFlight
<1> QED
  BY <1>3, <1>4, <1>6, NoneTests DEF Calm, Steady

LEMMA OutputCalm ==
    ASSUME Base, Base', Calm, NEW p \in Proc, NEW m \in Module,
           ParkOutput(p, m) \/ PlaceOutput(p, m)
    PROVE  Calm'
<1> USE DEF Base
<1>1. asked' = asked /\ testSrc' = testSrc /\ status' = status
  BY DEF ParkOutput, PlaceOutput, Park, Place, testDisk, history
<1>2. Steady
  BY DEF Calm, Steady
<1>3. Steady' /\ PastKept
  BY <1>1, <1>2, SteadyPark, SteadyPlace DEF ParkOutput, PlaceOutput
<1>4. \A k \in Module :
          /\ tests'[k] \in {tests[k], NoTests}
          /\ testState'[k] = testState[k]
          /\ \A q \in Proc : away'[q][k] \in {away[q][k], tests[k], NoTests}
  <2>1. CASE ParkOutput(p, m)
    <3>1. \A k \in Module : tests'[k] \in {tests[k], NoTests} /\ testState'[k] = testState[k]
      BY <2>1 DEF ParkOutput, TestTypes
    <3>2. \A q \in Proc, k \in Module :
              away'[q][k] = IF k # m THEN away[q][k] ELSE IF q = p THEN tests[m] ELSE NoTests
      BY <2>1 DEF ParkOutput, TestTypes
    <3> QED
      BY <3>1, <3>2
  <2>2. CASE PlaceOutput(p, m)
    <3>1. \A q \in Proc, k \in Module : away'[q][k] \in {away[q][k], NoTests}
      BY <2>2 DEF PlaceOutput, TestTypes
    <3> QED
      BY <2>2, <3>1 DEF PlaceOutput, testDisk
  <2> QED
    BY <2>1, <2>2
<1>5. KnownTests' /\ RecordsOk'
  <2>1. \A k \in Module, s \in SourceSet : testSrc[k][s] <= testSrc'[k][s]
    BY <1>1, TestsCounted
  <2> QED
    BY <1>3, <1>4, <2>1, TestsKept DEF Calm
<1>6. status[p] = "running"
  BY DEF ParkOutput, PlaceOutput, Park, Place, Phases
<1>7. \A q \in Proc : status'[q] # "testing"
  BY <1>1, <1>6 DEF Calm, OneCommand, InFlight
<1> QED
  BY <1>3, <1>5, <1>7, NoneTests DEF Calm, Steady

\* A compilation that ends: its backup goes back as a whole, or is lost.
LEMMA LeaveCalm ==
    ASSUME Base, Base', Calm, NEW p \in Proc, status[p] = "running",
           NEW outcome \in {"ok", "failed", "killed"}, Abandon(p, outcome), Forget(p),
           UNCHANGED <<src, testSrc, testState>>,
           \A m \in Module : \/ classes'[m] = classes[m]
                             \/ stage[p][m] = "parked" /\ classes'[m] = backup[p][m],
           \A m \in Module : state'[m] \in {state[m], NoTree},
           \A m \in Module : tests'[m] \in {tests[m], away[p][m]}
    PROVE  Calm'
<1> USE DEF Base
<1>1. Steady /\ InFlight(p)
  BY DEF Calm, Steady, InFlight
<1>2. Steady' /\ PastKept
  BY <1>1, SteadyLeave
<1>3. \A m \in Module, q \in Proc : away'[q][m] \in {away[q][m], NoTests}
  BY DEF Forget, TestTypes
<1>4. KnownTests' /\ RecordsOk'
  <2>1. \A m \in Module, s \in SourceSet : testSrc[m][s] <= testSrc'[m][s]
    BY TestsCounted
  <2> QED
    BY <1>2, <1>3, <2>1, TestsKept DEF Calm
<1>5. \A q \in Proc : status'[q] # "testing"
  BY <1>1 DEF Abandon, BuildTypes, Calm, OneCommand, InFlight
<1> QED
  BY <1>2, <1>4, <1>5, NoneTests DEF Calm, Steady

LEMMA EndCompilationCalm ==
    ASSUME Base, Base', Calm, NEW p \in Proc,
           \/ \E m \in Module : FailCompilation(p, m) \/ BlockedOutput(p, m) \/ BlockedByTests(p, m)
           \/ KillCompilation(p) \/ FinishCompilation(p)
    PROVE  Calm'
<1> USE DEF Base
<1>1. ASSUME NEW m \in Module, FailCompilation(p, m) PROVE Calm'
  <2>1. status[p] = "running" /\ Fail(p, m) /\ Forget(p) /\ UNCHANGED <<testSrc, testState, src>>
    BY <1>1 DEF FailCompilation, Fail, Active, Scheduled
  <2>2. \A k \in Module : \/ classes'[k] = classes[k]
                          \/ stage[p][k] = "parked" /\ classes'[k] = backup[p][k]
    BY <2>1 DEF Fail, BuildTypes
  <2>3. \A k \in Module : tests'[k] \in {tests[k], away[p][k]}
    BY <1>1 DEF FailCompilation, TestTypes
  <2> QED
    BY <2>1, <2>2, <2>3, TearTypes, LeaveCalm DEF Fail
<1>2. ASSUME NEW m \in Module, BlockedOutput(p, m) PROVE Calm'
  <2>1. /\ status[p] = "running" /\ Fail(p, m) /\ Forget(p)
        /\ UNCHANGED <<testSrc, testState, tests, src>>
    BY <1>2 DEF BlockedOutput, Fail, Phases, testDisk
  <2>2. \A k \in Module : \/ classes'[k] = classes[k]
                          \/ stage[p][k] = "parked" /\ classes'[k] = backup[p][k]
    BY <2>1 DEF Fail, BuildTypes
  <2> QED
    BY <2>1, <2>2, TearTypes, LeaveCalm DEF Fail
<1>3. ASSUME NEW m \in Module, BlockedByTests(p, m) PROVE Calm'
  <2>1. /\ status[p] = "running" /\ TearState(p) /\ Abandon(p, "failed") /\ Forget(p)
        /\ UNCHANGED <<testSrc, testState, tests, src, classes>>
    BY <1>3 DEF BlockedByTests, Phases, testDisk
  <2> QED
    BY <2>1, TearTypes, LeaveCalm
<1>4. CASE KillCompilation(p)
  <2>1. /\ status[p] = "running" /\ TearState(p) /\ Abandon(p, "killed") /\ Forget(p)
        /\ UNCHANGED <<testSrc, testState, tests, src, classes>>
    BY <1>4 DEF KillCompilation, Kill, testDisk
  <2> QED
    BY <2>1, TearTypes, LeaveCalm
<1>5. CASE FinishCompilation(p)
  <2>1. /\ status[p] = "running" /\ Abandon(p, "ok") /\ Forget(p)
        /\ UNCHANGED <<testSrc, testState, tests, src, classes, state>>
    BY <1>5 DEF FinishCompilation, FinishBuild, testDisk, disk
  <2> QED
    BY <2>1, LeaveCalm
<1> QED
  BY <1>1, <1>2, <1>3, <1>4, <1>5

\* Nothing of a module is tested, or has just been.
LEMMA NotTested ==
    ASSUME NEW q \in Proc, NEW m \in Module, testStage'[q][m] \in {"waiting", "done"}
    PROVE  TestOk(q, m)'
BY DEF TestOk, Testing

\* compile_workspace returned: every module has classes, none older than when
\* the command began.
LEMMA BeginCalm ==
    ASSUME Base, Base', Calm, NEW p \in Proc, BeginTests(p)
    PROVE  Calm'
<1> USE DEF Base
<1>1. /\ status[p] = "running" /\ InFlight(p) /\ Abandon(p, "testing")
      /\ UNCHANGED <<src, classes, state, testSrc, tests, testState, testStage, away, asked>>
  BY DEF BeginTests, InFlight, disk, testVars, testDisk, testProgress, history
<1>2. Steady
  BY DEF Calm, Steady
<1>3. \A m \in Module : stage[p][m] = "done"
  BY DEF BeginTests, Scheduled, BuildTypes
<1>4. \A m \in Module : HasClasses(m) /\ asked[p].main[m] <= classes[m][m]
  <2> SUFFICES ASSUME NEW m \in Module PROVE HasClasses(m) /\ asked[p].main[m] <= classes[m][m]
    OBVIOUS
  <2>1. /\ asked[p].main[m] <= seen[p][m] /\ HasClasses(m) /\ seen[p][m] <= classes[m][m]
    BY <1>2, <1>3 DEF Steady, CommandOk, CompilationOk
  <2>2. asked[p].main[m] \in Nat /\ seen[p][m] \in Nat /\ classes[m][m] \in Nat
    BY Counted, TestsCounted DEF Version
  <2> QED
    BY <2>1, <2>2
<1>5. Steady' /\ PastKept
  <2>1. \A m \in Module : HasClasses(m)' /\ asked[p].main[m] <= classes'[m][m]
    BY <1>1, <1>4 DEF HasClasses
  <2> QED
    BY <1>1, <1>2, <2>1, SteadyLeave
<1>6. KnownTests' /\ RecordsOk'
  BY <1>1, <1>5, TestsUntouched DEF Calm
<1>7. \A q \in Proc, m \in Module : testStage'[q][m] = "waiting"
  BY <1>1, Alone DEF Calm, Phases
<1> QED
  BY <1>5, <1>6, <1>7, NotTested DEF Calm, Steady

------------------------------------------------------------------------------
(* Edits, and a command that starts.                                       *)

LEMMA TestOkKept ==
    ASSUME TestTypes, TestTypes', NEW q \in Proc, NEW m \in Module, TestOk(q, m),
           UNCHANGED <<classes, request, asked>>,
           \A k \in Module, s \in SourceSet : testSrc[k][s] <= testSrc'[k][s],
           testStage'[q][m] = testStage[q][m], testSeen'[q][m] = testSeen[q][m],
           testTemp'[q][m] = testTemp[q][m], tests'[m] = tests[m], testState'[m] = testState[m],
           m \in runner => m \in runner'
    PROVE  TestOk(q, m)'
<1>1. \A s \in SourceSet :
          /\ testSrc[m][s] \in Nat /\ testSrc'[m][s] \in Nat
          /\ testSeen[q][m].own[s] \in Nat
  BY TestsCounted DEF TestTypes, Versions
<1>2. Requested(q, m) => Requested(q, m)'
  <2> SUFFICES ASSUME Requested(q, m) PROVE Requested(q, m)'
    OBVIOUS
  <2>1. PICK s \in SourceSet : TestInputs(q, m).own[s] # 0
    BY DEF Requested, NoVersions, TestInputs
  <2>2. TestInputs(q, m)'.own[s] # 0
    BY <1>1, <2>1 DEF TestInputs
  <2>3. TestInputs(q, m)'.own # NoVersions
    BY <2>2 DEF NoVersions
  <2> QED
    BY <2>3 DEF Requested, NoVersions
<1>3. Hashed(q, m)' = Hashed(q, m)
  BY DEF Hashed, TestPath, TestUpstream
<1>4. Against(m, tests[m])' = Against(m, tests[m])
  BY DEF Against, TestPath, TestUpstream
<1>5. /\ FromAsked(q, m, tests[m])' = FromAsked(q, m, tests[m])
      /\ FromAsked(q, m, testTemp[q][m])' = FromAsked(q, m, testTemp[q][m])
  BY DEF FromAsked
<1>6. /\ Since(m, testSeen[q][m], testTemp[q][m])' = Since(m, testSeen[q][m], testTemp[q][m])
      /\ Since(m, testState[m], testTemp[q][m])' = Since(m, testState[m], testTemp[q][m])
      /\ Since(m, testSeen[q][m], tests[m])' = Since(m, testSeen[q][m], tests[m])
  BY DEF Since, NotAfter, TestPath, TestUpstream
<1>7. \A s \in SourceSet :
          testSeen[q][m].own[s] <= testSrc[m][s] => testSeen[q][m].own[s] <= testSrc'[m][s]
  BY <1>1
<1>8. HasTests(m)' = HasTests(m) /\ NoVersions' = NoVersions
  BY DEF HasTests, NoVersions
<1> QED
  BY <1>2, <1>3, <1>4, <1>5, <1>6, <1>7, <1>8 DEF TestOk

LEMMA EditTestsCalm ==
    ASSUME Base, Base', Calm, NEW m \in Module, NEW s \in SourceSet, EditTests(m, s)
    PROVE  Calm'
<1> USE DEF Base
<1>1. /\ UNCHANGED <<src, classes, state, status, stage, seen, temp, backup, asked, tests, testState,
                     away, request, testStage, testSeen, testTemp, runner>>
  BY DEF EditTests, vars, disk, progress, testProgress, history
<1>2. \A k \in Module, x \in SourceSet : testSrc[k][x] <= testSrc'[k][x]
  <2>1. \A k \in Module, x \in SourceSet :
            testSrc'[k][x] = IF k = m /\ x = s THEN testSrc[m][s] + 1 ELSE testSrc[k][x]
    BY DEF EditTests, TestTypes, Versions
  <2> QED
    BY <2>1, TestsCounted
<1>3. Steady' /\ PastKept
  BY <1>1, <1>2, SteadyUnchanged DEF Calm, Steady
<1>4. KnownTests' /\ RecordsOk'
  BY <1>1, <1>2, <1>3, TestsKept DEF Calm
<1>5. \A q \in Proc, k \in Module : TestOk(q, k)'
  BY <1>1, <1>2, TestOkKept DEF Calm
<1> QED
  BY <1>3, <1>4, <1>5 DEF Calm, Steady

\* Sources are edited at any time, but never put back to an earlier content.
LEMMA EditMainCalm ==
    ASSUME Base, Base', Calm, ~Revert, NEW m \in Module, EditMain(m)
    PROVE  Calm'
<1> USE DEF Base
<1>1. /\ UNCHANGED <<classes, state, status, stage, seen, temp, backup, asked, tests, testState,
                     away, request, testStage, testSeen, testTemp, runner, testSrc>>
  BY DEF EditMain, Edit, disk, progress, testVars, testDisk, testProgress, history
<1>2. \A e \in Module : src[e] <= src'[e] /\ src[e] \in Nat /\ src'[e] \in Nat
  <2>1. src' = [src EXCEPT ![m] = src[m] + 1]
    BY DEF EditMain, Edit
  <2> QED
    BY <2>1, Counted DEF BuildTypes
<1>3. UnderKept /\ PastKept
  BY <1>1, <1>2, KeptInPlace
<1>4. ClassesOk'
  BY <1>1, <1>3, ClassesThen DEF Calm, ClassesOk
<1>5. ASSUME NEW q \in Proc PROVE CommandOk(q)'
  <2>1. \A e \in Module : asked[q].main[e] \in Nat /\ seen[q][e] \in Nat /\ temp[q][e][e] \in Nat
    BY Counted, TestsCounted DEF Version
  <2>2. \A e \in Module : CompilationOk(q, e)'
    BY <1>1, <1>2, <2>1 DEF Calm, CommandOk, CompilationOk, HasClasses
  <2> QED
    BY <1>1, <1>2, <2>1, <2>2 DEF Calm, CommandOk, InFlight, HasClasses
<1>6. KnownTests' /\ RecordsOk'
  BY <1>1, <1>3, TestsUntouched DEF Calm
<1>7. \A q \in Proc, k \in Module : TestOk(q, k)'
  BY <1>1, TestsCounted, TestOkKept DEF Calm
<1>8. OneCommand'
  BY <1>1 DEF Calm, OneCommand, InFlight
<1> QED
  BY <1>4, <1>5, <1>6, <1>7, <1>8 DEF Calm

LEMMA StartCalm ==
    ASSUME Base, Base', Calm, NEW p \in Proc, Start(p), ~overlapped'
    PROVE  Calm'
<1> USE DEF Base
<1>1. \A q \in Proc : ~InFlight(q)
  BY DEF Start
<1>2. \A q \in Proc, m \in Module : stage[q][m] = "waiting" /\ testStage[q][m] = "waiting"
  BY <1>1 DEF Phases, InFlight
<1>3. /\ UNCHANGED <<src, classes, state, stage, seen, temp, backup, tests, testState, away,
                     testStage, testSrc>>
  BY DEF Start, StartBuild, disk, testDisk, testProgress
<1>4. \A q \in Proc : status'[q] = IF q = p THEN "running" ELSE status[q]
  BY DEF Start, StartBuild, BuildTypes
<1>5. UnderKept /\ PastKept
  BY <1>3, KeptUnchanged
<1>6. ClassesOk'
  BY <1>3, <1>5, ClassesThen DEF Calm, ClassesOk
<1>7. OneCommand'
  BY <1>1, <1>4 DEF OneCommand, InFlight
<1>8. CommandOk(p)'
  <2>1. asked'[p] = [main |-> src, tests |-> testSrc]
    BY DEF Start, TestTypes
  <2>2. \A m \in Module : asked'[p].main[m] = src[m] /\ asked'[p].tests[m] = testSrc[m]
    BY <2>1
  <2>3. \A m \in Module : CompilationOk(p, m)'
    BY <1>2, <1>3 DEF CompilationOk
  <2>4. \A m \in Module : src[m] <= src[m] /\ \A s \in SourceSet : testSrc[m][s] <= testSrc[m][s]
    BY Counted, TestsCounted
  <2> QED
    BY <1>3, <1>4, <2>2, <2>3, <2>4 DEF CommandOk
<1>9. \A q \in Proc \ {p} : CommandOk(q)'
  BY <1>1, <1>4, Bystander DEF InFlight
<1>10. KnownTests' /\ RecordsOk'
  BY <1>3, <1>5, TestsUntouched DEF Calm
<1>11. \A q \in Proc, m \in Module : TestOk(q, m)'
  BY <1>2, <1>3, NotTested
<1> QED
  BY <1>6, <1>7, <1>8, <1>9, <1>10, <1>11 DEF Calm

------------------------------------------------------------------------------
(* run_test_module.                                                        *)

\* What a step of one module's tests leaves alone.
Aloof(p, m) ==
    /\ status[p] = "testing"
    /\ UNCHANGED <<vars, testSrc, request, history>>
    /\ \A q \in Proc, k \in Module : q # p \/ k # m =>
          /\ testStage'[q][k] = testStage[q][k] /\ testSeen'[q][k] = testSeen[q][k]
          /\ testTemp'[q][k] = testTemp[q][k] /\ away'[q][k] = away[q][k]
    /\ \A k \in Module \ {m} :
          /\ tests'[k] = tests[k] /\ testState'[k] = testState[k]
          /\ k \in runner => k \in runner'

LEMMA TestStepAloof ==
    ASSUME TestTypes, NEW p \in Proc, NEW m \in Module, TestStep(p, m), ~BlockedTests(p, m)
    PROVE  Aloof(p, m)
<1> USE DEF Advance, TestTypes, Aloof
<1>1. CASE \/ SkipTests(p, m) \/ FindRunner(p, m) \/ CompileRunner(p, m)
           \/ DropRunner(p, m) \/ PlaceRunner(p, m)
  BY <1>1 DEF SkipTests, FindRunner, CompileRunner, DropRunner, PlaceRunner
<1>2. CASE HashTests(p, m) \/ ReuseTests(p, m) \/ RunTests(p, m)
  BY <1>2 DEF HashTests, ReuseTests, RunTests
<1>3. CASE CompileTests(p, m)
  BY <1>3 DEF CompileTests
<1>4. CASE ParkTests(p, m)
  BY <1>4 DEF ParkTests
<1>5. CASE PlaceTests(p, m)
  BY <1>5 DEF PlaceTests
<1>6. CASE RecordTests(p, m)
  BY <1>6 DEF RecordTests
<1> QED
  BY <1>1, <1>2, <1>3, <1>4, <1>5, <1>6 DEF TestStep

LEMMA AloofCalm ==
    ASSUME Base, Base', Calm, NEW p \in Proc, NEW m \in Module, Aloof(p, m),
           KnownTests', RecordsOk', TestOk(p, m)'
    PROVE  Calm'
<1> USE DEF Base
<1>1. /\ UNCHANGED <<src, classes, state, status, stage, seen, temp, backup, asked, testSrc, request>>
      /\ InFlight(p)
  BY DEF Aloof, vars, disk, progress, history, InFlight
<1>2. Steady'
  <2>1. \A k \in Module, s \in SourceSet : testSrc[k][s] <= testSrc'[k][s]
    BY <1>1, TestsCounted
  <2> QED
    BY <1>1, <2>1, SteadyUnchanged DEF Calm, Steady
<1>3. ASSUME NEW q \in Proc, NEW k \in Module PROVE TestOk(q, k)'
  <2>1. CASE q # p
    <3>1. testStage'[q][k] = "waiting"
      BY <1>1, <2>1, Alone DEF Aloof, Calm
    <3> QED
      BY <3>1, NotTested
  <2>2. CASE q = p /\ k # m
    BY <1>1, <2>2, TestsCounted, TestOkKept DEF Aloof, Calm
  <2> QED
    BY <2>1, <2>2
<1> QED
  BY <1>2, <1>3 DEF Calm, Steady

\* Steps that leave test classes and records where they are.
LEMMA AloofRecords ==
    ASSUME Base, Base', Calm, NEW p \in Proc, NEW m \in Module, Aloof(p, m),
           UNCHANGED <<tests, testState, away>>
    PROVE  KnownTests' /\ RecordsOk'
<1>1. PastKept
  BY KeptUnchanged DEF Aloof, vars, disk, progress
<1> QED
  BY <1>1, TestsUntouched DEF Base, Calm, Aloof

\* Nothing that a test step depends on changes with it.
LEMMA SameView ==
    ASSUME NEW p \in Proc, NEW m \in Module, Aloof(p, m)
    PROVE  /\ Requested(p, m)' = Requested(p, m)
           /\ Hashed(p, m)' = Hashed(p, m)
           /\ NoVersions' = NoVersions
           /\ \A x : FromAsked(p, m, x)' = FromAsked(p, m, x)
           /\ \A x : Against(m, x)' = Against(m, x)
           /\ \A x, y : Since(m, x, y)' = Since(m, x, y)
<1>1. UNCHANGED <<classes, asked, testSrc, request>>
  BY DEF Aloof, vars, disk, history
<1>2. Requested(p, m)' = Requested(p, m)
  BY <1>1 DEF Requested, TestInputs, NoVersions, TestPath, TestUpstream
<1> QED
  BY <1>1, <1>2 DEF Hashed, NoVersions, FromAsked, Against, Since, NotAfter, TestPath, TestUpstream

\* The way to the runner.
LEMMA RunnerCalm ==
    ASSUME Base, Base', Calm, NEW p \in Proc, NEW m \in Module,
           \/ SkipTests(p, m) \/ FindRunner(p, m) \/ CompileRunner(p, m)
           \/ DropRunner(p, m) \/ PlaceRunner(p, m) \/ RunTests(p, m)
    PROVE  Calm'
<1> USE DEF Base
<1>1. Aloof(p, m) /\ UNCHANGED <<tests, testState, away>>
  <2>1. TestStep(p, m) /\ testStage[p][m] # "parked"
    BY DEF TestStep, SkipTests, FindRunner, CompileRunner, DropRunner, PlaceRunner, RunTests, Advance
  <2>2. UNCHANGED <<tests, testState, away>>
    BY DEF SkipTests, FindRunner, CompileRunner, DropRunner, PlaceRunner, RunTests
  <2> QED
    BY <2>1, <2>2, TestStepAloof DEF BlockedTests
<1>2. TestOk(p, m)'
  <2>1. CASE SkipTests(p, m) \/ RunTests(p, m)
    <3>1. testStage'[p][m] = "done"
      BY <2>1 DEF SkipTests, RunTests, Advance, TestTypes
    <3> QED
      BY <3>1, NotTested
  <2>2. CASE FindRunner(p, m) \/ CompileRunner(p, m)
    <3>1. Requested(p, m) /\ runner' = runner
      BY <2>2 DEF FindRunner, CompileRunner
    <3>2. \/ testStage'[p][m] = "ready" /\ m \in runner
          \/ testStage'[p][m] = "staged"
      BY <2>2 DEF FindRunner, CompileRunner, Advance, TestTypes
    <3> QED
      BY <1>1, <3>1, <3>2, SameView DEF TestOk, Testing
  <2>3. CASE DropRunner(p, m) \/ PlaceRunner(p, m)
    <3>1. Requested(p, m)
      BY <2>3 DEF DropRunner, PlaceRunner, Advance, Calm, TestOk
    <3>2. \/ testStage'[p][m] = "ready" /\ m \in runner'
          \/ testStage'[p][m] = "cleared"
      BY <2>3 DEF DropRunner, PlaceRunner, Advance, TestTypes
    <3> QED
      BY <1>1, <3>1, <3>2, SameView DEF TestOk, Testing
  <2> QED
    BY <2>1, <2>2, <2>3
<1> QED
  BY <1>1, <1>2, AloofRecords, AloofCalm

\* The fingerprint is taken of what is there.
LEMMA HashTestsCalm ==
    ASSUME Base, Base', Calm, NEW p \in Proc, NEW m \in Module, HashTests(p, m)
    PROVE  Calm'
<1> USE DEF Base
<1>1. /\ Aloof(p, m) /\ UNCHANGED <<tests, testState, away, runner>> /\ status[p] = "testing"
      /\ testStage[p][m] = "ready" /\ testStage'[p][m] = "hashed"
      /\ testSeen'[p][m] = TestInputs(p, m)
  <2>1. TestStep(p, m) /\ testStage[p][m] = "ready" /\ status[p] = "testing"
    BY DEF TestStep, HashTests, Advance
  <2>2. /\ UNCHANGED <<tests, testState, away, runner>> /\ testStage'[p][m] = "hashed"
        /\ testSeen'[p][m] = TestInputs(p, m)
    BY DEF HashTests, Advance, TestTypes
  <2> QED
    BY <2>1, <2>2, TestStepAloof DEF BlockedTests
<1>2. \A s \in SourceSet :
          /\ testSeen'[p][m].own[s] <= testSrc'[m][s]
          /\ s \in request'[p].sets => asked'[p].tests[m][s] <= testSeen'[p][m].own[s]
  <2>1. UNCHANGED <<testSrc, request, asked>>
    BY <1>1 DEF Aloof, history
  <2>2. \A s \in SourceSet : asked[p].tests[m][s] <= testSrc[m][s]
    BY <1>1 DEF Calm, CommandOk, InFlight
  <2> QED
    BY <1>1, <2>1, <2>2, InputsType, TestsCounted
<1>3. Requested(p, m) /\ m \in runner
  BY <1>1 DEF Calm, TestOk, Testing
<1>4. TestOk(p, m)'
  BY <1>1, <1>2, <1>3, SameView, InputsType DEF TestOk
<1> QED
  BY <1>1, <1>4, AloofRecords, AloofCalm

\* While a command tests, every module has classes, and none is on its way.
LEMMA InPlace ==
    ASSUME Base, Calm, NEW p \in Proc, status[p] = "testing", NEW d \in Module
    PROVE  HasClasses(d) /\ \A q \in Proc : stage[q][d] = "waiting"
<1>1. InFlight(p) /\ stage[p][d] = "waiting" /\ HasClasses(d)
  BY DEF InFlight, Base, Phases, Calm, CommandOk
<1> QED
  BY <1>1, Alone DEF Base, Calm

\* What javac is given then is as new as what it is compared with.
LEMMA HashedKnown ==
    ASSUME Base, Calm, NEW p \in Proc, status[p] = "testing", NEW m \in Module, NEW d \in Module
    PROVE  Past(Hashed(p, m)[d], d)
<1> USE DEF Base
<1>1. CASE d \in TestPath(m)
  <2>1. Hashed(p, m)[d] = classes[d] /\ classes[d] \in TreeOf(d) /\ Older(classes[d])
    BY <1>1 DEF Hashed, BuildTypes, Calm, ClassesOk
  <2>2. NotAfter(classes[d], classes[d])
    BY Counted DEF NotAfter
  <2> QED
    BY <2>1, <2>2, InPlace DEF Past
<1>2. CASE d \notin TestPath(m)
  BY <1>2, NothingIsPast DEF Hashed
<1> QED
  BY <1>1, <1>2

\* A hit: the record names the directories as they are, and the test classes
\* are neither older than the record nor newer than the directories.
LEMMA ReuseTestsCalm ==
    ASSUME Base, Base', Calm, NEW p \in Proc, NEW m \in Module, ReuseTests(p, m)
    PROVE  Calm'
<1> USE DEF Base
<1>1. /\ Aloof(p, m) /\ UNCHANGED <<tests, testState, away, runner>> /\ status[p] = "testing"
      /\ testStage[p][m] = "hashed" /\ testStage'[p][m] = "built"
      /\ testState[m] = testSeen[p][m] /\ HasTests(m)
  <2>1. TestStep(p, m) /\ testStage[p][m] = "hashed" /\ status[p] = "testing"
    BY DEF TestStep, ReuseTests, Advance
  <2>2. /\ UNCHANGED <<tests, testState, away, runner>> /\ testStage'[p][m] = "built"
        /\ testState[m] = testSeen[p][m] /\ HasTests(m)
    BY DEF ReuseTests, Advance, TestHit, TestTypes
  <2> QED
    BY <2>1, <2>2, TestStepAloof DEF BlockedTests
<1>2. /\ Requested(p, m) /\ m \in runner /\ testSeen[p][m].against = Hashed(p, m)
      /\ \A s \in SourceSet :
            s \in request[p].sets => asked[p].tests[m][s] <= testSeen[p][m].own[s]
  BY <1>1 DEF Calm, TestOk, Testing
<1>3. Since(m, testSeen[p][m], tests[m])
  BY <1>1 DEF Calm, RecordsOk, Recorded, HasTests
<1>4. Against(m, tests[m])
  <2> SUFFICES ASSUME NEW d \in TestPath(m) PROVE tests[m].against[d] = classes[d]
    BY DEF Against
  <2>1. d \in Module
    BY TestPathModules
  <2>2. NotAfter(classes[d], tests[m].against[d])
    BY <1>2, <1>3, <2>1 DEF Since, Hashed
  <2>3. NotAfter(tests[m].against[d], classes[d])
    BY <1>1, <2>1, InPlace DEF Calm, KnownTests, Known, Past
  <2>4. tests[m].against[d] \in Tree /\ classes[d] \in Tree
    BY <2>1, TestsCounted DEF BuildTypes
  <2>5. \A e \in Module : tests[m].against[d][e] = classes[d][e]
    BY <2>1, <2>2, <2>3, <2>4, Counted DEF NotAfter
  <2> QED
    BY <2>4, <2>5 DEF Tree
<1>5. FromAsked(p, m, tests[m])
  <2> SUFFICES ASSUME NEW s \in request[p].sets, tests[m].own[s] # 0
               PROVE  asked[p].tests[m][s] <= tests[m].own[s]
    BY DEF FromAsked
  <2>1. s \in SourceSet
    BY DEF TestTypes, Selection
  <2>2. testSeen[p][m].own[s] <= tests[m].own[s]
    BY <1>3, <2>1 DEF Since
  <2> QED
    BY <1>2, <2>1, <2>2, TestsCounted
<1>6. TestOk(p, m)'
  <2>1. tests'[m] = tests[m] /\ HasTests(m)'
    BY <1>1, SameView DEF HasTests
  <2> QED
    BY <1>1, <1>2, <1>4, <1>5, <2>1, SameView DEF TestOk, Testing
<1> QED
  BY <1>1, <1>6, AloofRecords, AloofCalm

\* javac is given inputs at least as new as those that were hashed.
LEMMA CompileTestsCalm ==
    ASSUME Base, Base', Calm, NEW p \in Proc, NEW m \in Module, CompileTests(p, m)
    PROVE  Calm'
<1> USE DEF Base
<1>1. /\ Aloof(p, m) /\ UNCHANGED <<tests, testState, away, runner>> /\ status[p] = "testing"
      /\ testStage[p][m] = "hashed" /\ testStage'[p][m] = "compiled"
      /\ testTemp'[p][m] = TestInputs(p, m) /\ testSeen' = testSeen
  <2>1. TestStep(p, m) /\ testStage[p][m] = "hashed" /\ status[p] = "testing"
    BY DEF TestStep, CompileTests, Advance
  <2>2. /\ UNCHANGED <<tests, testState, away, runner, testSeen>> /\ testStage'[p][m] = "compiled"
        /\ testTemp'[p][m] = TestInputs(p, m)
    BY DEF CompileTests, Advance, TestTypes
  <2> QED
    BY <2>1, <2>2, TestStepAloof DEF BlockedTests
<1>2. /\ Requested(p, m) /\ m \in runner /\ testSeen[p][m].against = Hashed(p, m)
      /\ \A s \in SourceSet :
            /\ testSeen[p][m].own[s] <= testSrc[m][s]
            /\ s \in request[p].sets => asked[p].tests[m][s] <= testSeen[p][m].own[s]
  BY <1>1 DEF Calm, TestOk, Testing
<1>3. UNCHANGED <<testSrc, request, asked>>
  BY <1>1 DEF Aloof, history
<1>4. /\ TestInputs(p, m).own # NoVersions /\ TestInputs(p, m).against = Hashed(p, m)
      /\ \A s \in SourceSet :
            TestInputs(p, m).own[s] = IF s \in request[p].sets THEN testSrc[m][s] ELSE 0
  BY <1>2, InputsType DEF Requested
<1>5. \A d \in TestPath(m) : d \in Module /\ Hashed(p, m)[d] = classes[d]
  BY TestPathModules DEF Hashed
<1>6. Since(m, testSeen[p][m], TestInputs(p, m))
  <2>1. \A d \in TestPath(m) : NotAfter(Hashed(p, m)[d], Hashed(p, m)[d])
    BY <1>5, Counted DEF NotAfter
  <2> QED
    BY <1>2, <1>4, <2>1 DEF Since
<1>7. Since(m, testState[m], TestInputs(p, m))
  <2>1. \A d \in TestPath(m) : NotAfter(testState[m].against[d], classes[d])
    BY <1>1, <1>5, InPlace DEF Calm, KnownTests, Known, Past
  <2>2. \A s \in SourceSet : testState[m].own[s] <= testSrc[m][s]
    BY DEF Calm, KnownTests
  <2> QED
    BY <1>4, <1>5, <2>1, <2>2 DEF Since
<1>8. FromAsked(p, m, TestInputs(p, m))
  <2>1. \A s \in SourceSet : asked[p].tests[m][s] <= testSrc[m][s]
    BY <1>1 DEF Calm, CommandOk, InFlight
  <2>2. request[p].sets \subseteq SourceSet
    BY DEF TestTypes, Selection
  <2> QED
    BY <1>4, <2>1, <2>2 DEF FromAsked
<1>9. TestOk(p, m)'
  BY <1>1, <1>2, <1>3, <1>4, <1>6, <1>7, <1>8, SameView DEF TestOk, Testing
<1> QED
  BY <1>1, <1>9, AloofRecords, AloofCalm

LEMMA ParkTestsCalm ==
    ASSUME Base, Base', Calm, NEW p \in Proc, NEW m \in Module, ParkTests(p, m)
    PROVE  Calm'
<1> USE DEF Base
<1>1. /\ status[p] = "testing" /\ testStage[p][m] = "compiled" /\ testStage'[p][m] = "parked"
      /\ UNCHANGED <<testState, runner, testSeen, testTemp>>
      /\ \A k \in Module : tests'[k] \in {tests[k], NoTests}
      /\ \A q \in Proc, k \in Module : away'[q][k] \in {away[q][k], tests[k], NoTests}
  BY DEF ParkTests, Advance, TestTypes
<1>2. Aloof(p, m)
  BY <1>1, TestStepAloof DEF TestStep, BlockedTests
<1>3. UNCHANGED <<testSrc, request, asked>>
  BY <1>2 DEF Aloof, history
<1>4. KnownTests' /\ RecordsOk'
  <2>1. PastKept
    BY <1>2, KeptUnchanged DEF Aloof, vars, disk, progress
  <2>2. \A k \in Module, s \in SourceSet : testSrc[k][s] <= testSrc'[k][s]
    BY <1>3, TestsCounted
  <2> QED
    BY <1>1, <2>1, <2>2, TestsKept DEF Calm
<1>5. TestOk(p, m)'
  <2>1. TestOk(p, m)
    BY DEF Calm
  <2> QED
    BY <1>1, <1>2, <1>3, <2>1, SameView DEF TestOk, Testing
<1> QED
  BY <1>2, <1>4, <1>5, AloofCalm

\* What is put in place was compiled against what is there, and is no older
\* than the record.
LEMMA PlaceTestsCalm ==
    ASSUME Base, Base', Calm, NEW p \in Proc, NEW m \in Module, PlaceTests(p, m)
    PROVE  Calm'
<1> USE DEF Base
<1>1. /\ status[p] = "testing" /\ testStage[p][m] = "parked" /\ testStage'[p][m] = "placed"
      /\ UNCHANGED <<testState, runner, testSeen>>
      /\ \A k \in Module : tests'[k] = IF k = m THEN testTemp[p][m] ELSE tests[k]
      /\ \A q \in Proc, k \in Module : away'[q][k] \in {away[q][k], NoTests}
  BY DEF PlaceTests, Advance, TestTypes
<1>2. Aloof(p, m)
  <2>1. ~BlockedTests(p, m)
    BY DEF PlaceTests, BlockedTests
  <2> QED
    BY <2>1, TestStepAloof DEF TestStep
<1>3. UNCHANGED <<testSrc, request, asked>>
  BY <1>2 DEF Aloof, history
<1>4. /\ Requested(p, m) /\ m \in runner
      /\ testSeen[p][m].against = Hashed(p, m)
      /\ \A s \in SourceSet :
            /\ testSeen[p][m].own[s] <= testSrc[m][s]
            /\ s \in request[p].sets => asked[p].tests[m][s] <= testSeen[p][m].own[s]
      /\ testTemp[p][m].own # NoVersions /\ testTemp[p][m].against = Hashed(p, m)
      /\ Since(m, testSeen[p][m], testTemp[p][m]) /\ Since(m, testState[m], testTemp[p][m])
      /\ FromAsked(p, m, testTemp[p][m])
  BY <1>1 DEF Calm, TestOk, Testing
<1>5. PastKept
  BY <1>2, KeptUnchanged DEF Aloof, vars, disk, progress
<1>6. KnownTests'
  <2> SUFFICES ASSUME NEW k \in Module
               PROVE  /\ Known(tests[k])' /\ Known(testState[k])'
                      /\ \A q \in Proc : Known(away[q][k])'
                      /\ \A s \in SourceSet : testState'[k].own[s] <= testSrc'[k][s]
    BY DEF KnownTests
  <2>1. Known(testTemp[p][m])
    BY <1>1, <1>4, HashedKnown DEF Known
  <2>2. Known(tests'[k]) /\ Known(testState'[k]) /\ \A q \in Proc : Known(away'[q][k])
    BY <1>1, <2>1, NoTestsKnown DEF Calm, KnownTests
  <2>3. \A x : Known(x) => Known(x)'
    BY <1>5, KnownKept
  <2> QED
    BY <1>1, <1>3, <2>2, <2>3, KnownThen DEF Calm, KnownTests
<1>7. RecordsOk'
  <2> SUFFICES ASSUME NEW k \in Module
               PROVE  Recorded(k, tests[k])' /\ \A q \in Proc : Recorded(k, away[q][k])'
    BY DEF RecordsOk
  <2>1. \A x : Recorded(k, x) => Recorded(k, x)'
    BY <1>1 DEF Recorded, Since, NotAfter, NoVersions, TestPath, TestUpstream
  <2>2. Recorded(m, testTemp[p][m]) /\ Recorded(k, NoTests)
    BY <1>4, NoTestsType DEF Recorded
  <2>3. Recorded(k, tests'[k]) /\ \A q \in Proc : Recorded(k, away'[q][k])
    BY <1>1, <2>2 DEF Calm, RecordsOk
  <2> QED
    BY <2>1, <2>3, RecordedThen
<1>8. TestOk(p, m)'
  <2>1. tests'[m] = testTemp[p][m] /\ HasTests(m)'
    BY <1>1, <1>2, <1>4, SameView DEF HasTests
  <2>2. Against(m, testTemp[p][m])
    BY <1>4, TestPathModules DEF Against, Hashed
  <2> QED
    BY <1>1, <1>2, <1>3, <1>4, <2>1, <2>2, SameView DEF TestOk, Testing
<1> QED
  BY <1>2, <1>6, <1>7, <1>8, AloofCalm

\* The record names what was hashed, which the test classes are no older than.
LEMMA RecordTestsCalm ==
    ASSUME Base, Base', Calm, NEW p \in Proc, NEW m \in Module, RecordTests(p, m)
    PROVE  Calm'
<1> USE DEF Base
<1>1. /\ status[p] = "testing" /\ testStage[p][m] = "placed" /\ testStage'[p][m] = "built"
      /\ UNCHANGED <<tests, runner, testSeen, away>>
      /\ \A k \in Module : testState'[k] = IF k = m THEN testSeen[p][m] ELSE testState[k]
  BY DEF RecordTests, Advance, TestTypes
<1>2. Aloof(p, m)
  BY <1>1, TestStepAloof DEF TestStep, BlockedTests
<1>3. UNCHANGED <<testSrc, request, asked>>
  BY <1>2 DEF Aloof, history
<1>4. /\ Requested(p, m) /\ m \in runner
      /\ testSeen[p][m].against = Hashed(p, m)
      /\ \A s \in SourceSet : testSeen[p][m].own[s] <= testSrc[m][s]
      /\ Since(m, testSeen[p][m], tests[m])
      /\ HasTests(m) /\ Against(m, tests[m]) /\ FromAsked(p, m, tests[m])
  BY <1>1 DEF Calm, TestOk, Testing
<1>5. PastKept
  BY <1>2, KeptUnchanged DEF Aloof, vars, disk, progress
<1>6. KnownTests'
  <2> SUFFICES ASSUME NEW k \in Module
               PROVE  /\ Known(tests[k])' /\ Known(testState[k])'
                      /\ \A q \in Proc : Known(away[q][k])'
                      /\ \A s \in SourceSet : testState'[k].own[s] <= testSrc'[k][s]
    BY DEF KnownTests
  <2>1. Known(testSeen[p][m])
    BY <1>1, <1>4, HashedKnown DEF Known
  <2>2. Known(tests'[k]) /\ Known(testState'[k]) /\ \A q \in Proc : Known(away'[q][k])
    BY <1>1, <2>1 DEF Calm, KnownTests
  <2>3. \A x : Known(x) => Known(x)'
    BY <1>5, KnownKept
  <2> QED
    BY <1>1, <1>3, <1>4, <2>2, <2>3, KnownThen DEF Calm, KnownTests
<1>7. RecordsOk'
  <2> SUFFICES ASSUME NEW k \in Module
               PROVE  Recorded(k, tests[k])' /\ \A q \in Proc : Recorded(k, away[q][k])'
    BY DEF RecordsOk
  <2>1. CASE k # m
    <3>1. \A x : Recorded(k, x) => Recorded(k, x)'
      BY <1>1, <2>1 DEF Recorded, Since, NotAfter, NoVersions, TestPath, TestUpstream
    <3>2. Recorded(k, tests'[k]) /\ \A q \in Proc : Recorded(k, away'[q][k])
      BY <1>1 DEF Calm, RecordsOk
    <3> QED
      BY <3>1, <3>2, RecordedThen
  <2>2. CASE k = m
    <3>1. Recorded(m, tests[m])'
      BY <1>1, <1>4 DEF Recorded, Since, NotAfter, TestPath, TestUpstream
    <3>2. \A q \in Proc : away'[q][m] = NoTests
      <4>1. stage[p][m] # "parked" /\ InFlight(p)
        BY <1>1 DEF Phases, InFlight
      <4> QED
        BY <1>1, <4>1, Alone DEF Phases, Calm
    <3>3. Recorded(m, NoTests)'
      BY NoTestsType DEF Recorded, NoVersions, NoTests
    <3> QED
      BY <2>2, <3>1, <3>2, <3>3, RecordedThen
  <2> QED
    BY <2>1, <2>2
<1>8. TestOk(p, m)'
  <2>1. tests'[m] = tests[m] /\ HasTests(m)'
    BY <1>1, <1>2, <1>4, SameView DEF HasTests
  <2> QED
    BY <1>1, <1>2, <1>4, <2>1, SameView DEF TestOk, Testing
<1> QED
  BY <1>2, <1>6, <1>7, <1>8, AloofCalm

\* A test command that ends.
LEMMA EndTestsCalm ==
    ASSUME Base, Base', Calm, NEW p \in Proc, status[p] = "testing",
           NEW outcome \in {"ok", "failed", "killed"}, EndTests(p, outcome),
           \A m \in Module : /\ tests'[m] \in {tests[m], away[p][m]}
                             /\ testState'[m] \in {testState[m], NoTests}
    PROVE  Calm'
<1> USE DEF Base
<1>1. /\ UNCHANGED <<src, classes, state, stage, seen, temp, backup, testSrc>> /\ Forget(p)
      /\ \A q \in Proc : status'[q] = IF q = p THEN outcome ELSE status[q]
  BY DEF EndTests, disk, progress, BuildTypes
<1>2. \A q \in Proc : ~InFlight(q)'
  BY <1>1 DEF Calm, OneCommand, InFlight
<1>3. UnderKept /\ PastKept
  BY <1>1, KeptUnchanged
<1>4. ClassesOk'
  BY <1>1, <1>3, ClassesThen DEF Calm, ClassesOk
<1>5. KnownTests' /\ RecordsOk'
  <2>1. \A m \in Module, s \in SourceSet : testSrc[m][s] <= testSrc'[m][s]
    BY <1>1, TestsCounted
  <2>2. \A m \in Module, q \in Proc : away'[q][m] \in {away[q][m], NoTests}
    BY <1>1 DEF Forget, TestTypes
  <2> QED
    BY <1>3, <2>1, <2>2, TestsKept DEF Calm
<1>6. OneCommand'
  BY <1>2 DEF OneCommand
<1> QED
  BY <1>2, <1>4, <1>5, <1>6, Bystander DEF Calm

LEMMA FailTestsCalm ==
    ASSUME Base, Base', Calm, NEW p \in Proc, NEW m \in Module, FailTests(p, m)
    PROVE  Calm'
<1>1. status[p] = "testing"
  BY DEF FailTests, Underway, Base, Phases
<1>2. \A k \in Module : tests'[k] \in {tests[k], away[p][k]}
  BY DEF FailTests, Base, TestTypes
<1> QED
  BY <1>1, <1>2, TearTestTypes, EndTestsCalm DEF FailTests, Base

------------------------------------------------------------------------------
\* Until commands overlap, every step keeps what is assumed of the next.
LEMMA CalmNext ==
    ASSUME Base, Base', Calm, ~Revert, [TestNext]_allVars, ~overlapped'
    PROVE  Calm'
<1> USE DEF Base
<1>1. ASSUME NEW p \in Proc, NEW m \in Module, TestStep(p, m) PROVE Calm'
  BY <1>1, RunnerCalm, HashTestsCalm, ReuseTestsCalm, CompileTestsCalm, ParkTestsCalm, PlaceTestsCalm,
     RecordTestsCalm, FailTestsCalm DEF TestStep, BlockedTests
<1>2. ASSUME NEW p \in Proc, FinishTests(p) \/ KillTests(p) PROVE Calm'
  BY <1>2, TearTestTypes, EndTestsCalm DEF FinishTests, KillTests
<1>3. ASSUME NEW p \in Proc, CommandStep(p) \/ KillCompilation(p) \/ KillTests(p) PROVE Calm'
  BY <1>1, <1>2, <1>3, CompileCalm, OutputCalm, EndCompilationCalm, BeginCalm DEF CommandStep
<1>4. ASSUME NEW p \in Proc, NEW m \in Module, FailCompilation(p, m) \/ FailTests(p, m) PROVE Calm'
  BY <1>4, EndCompilationCalm, FailTestsCalm
<1>5. CASE UNCHANGED allVars
  <2>1. /\ UNCHANGED <<src, classes, state, status, stage, seen, temp, backup, asked, testSrc, tests,
                       testState, away, request, testStage, testSeen, testTemp, runner>>
    BY <1>5 DEF allVars, vars, disk, progress, testVars, testDisk, testProgress, history
  <2>2. \A m \in Module, s \in SourceSet : testSrc[m][s] <= testSrc'[m][s]
    BY <2>1, TestsCounted
  <2>3. Steady' /\ PastKept
    BY <2>1, <2>2, SteadyUnchanged DEF Calm, Steady
  <2>4. \A q \in Proc, m \in Module : TestOk(q, m)'
    BY <2>1, <2>2, TestOkKept DEF Calm
  <2> QED
    BY <2>1, <2>3, <2>4, TestsUntouched DEF Calm, Steady
<1> QED
  BY <1>3, <1>4, <1>5, EditMainCalm, EditTestsCalm, StartCalm DEF TestNext

LEMMA CalmInit == TestInit => Calm
<1> SUFFICES ASSUME TestInit PROVE Calm
  OBVIOUS
<1>1. BuildTypes /\ TestTypes /\ Scheduled /\ Phases
  BY TestTypesInit, PhasesInit
<1>2. /\ \A p \in Proc : ~InFlight(p)
      /\ \A p \in Proc, m \in Module : stage[p][m] = "waiting" /\ testStage[p][m] = "waiting"
      /\ \A m \in Module : /\ classes[m] = NoTree /\ state[m] = NoTree
                           /\ tests[m] = NoTests /\ testState[m] = NoTests
                           /\ \A p \in Proc : away[p][m] = NoTests
  BY DEF TestInit, Init, InFlight
<1>3. OneCommand /\ \A p \in Proc : CommandOk(p) /\ \A m \in Module : TestOk(p, m)
  BY <1>2 DEF OneCommand, CommandOk, CompilationOk, InFlight, TestOk, Testing
<1>4. ClassesOk
  <2>1. Older(NoTree) /\ \A m \in Module : Under(NoTree[m], m)
    BY <1>1, NothingIsPast DEF Past, Older
  <2> QED
    BY <1>2, <2>1 DEF ClassesOk
<1>5. KnownTests
  <2>1. \A m \in Module, s \in SourceSet : NoTests.own[s] <= testSrc[m][s]
    BY <1>1, TestsCounted, NoTestsType DEF NoVersions
  <2> QED
    BY <1>1, <1>2, <2>1, NoTestsKnown DEF KnownTests
<1>6. RecordsOk
  BY <1>2, NoTestsType DEF RecordsOk, Recorded
<1> QED
  BY <1>3, <1>4, <1>5, <1>6 DEF Calm

\* Once commands have overlapped, they have.
LEMMA OverlapStays == [TestNext]_allVars /\ ~overlapped' => ~overlapped
<1> SUFFICES ASSUME [TestNext]_allVars, ~overlapped' PROVE ~overlapped
  OBVIOUS
<1>1. ASSUME NEW p \in Proc, Forget(p) PROVE ~overlapped
  BY <1>1 DEF Forget
<1>2. ASSUME NEW p \in Proc, NEW m \in Module, TestStep(p, m) PROVE ~overlapped
  BY <1>1, <1>2 DEF TestStep, Advance, history, SkipTests, FindRunner, CompileRunner, DropRunner,
     PlaceRunner, HashTests, ReuseTests, CompileTests, ParkTests, PlaceTests, RecordTests, RunTests,
     BlockedTests, FailTests, EndTests
<1>3. ASSUME NEW p \in Proc, CommandStep(p) PROVE ~overlapped
  <2>1. CASE CompileStep(p) \/ BeginTests(p)
    BY <2>1 DEF CompileStep, BeginTests, testVars, history
  <2>2. ASSUME NEW m \in Module, ParkOutput(p, m) \/ PlaceOutput(p, m) PROVE ~overlapped
    BY <2>2 DEF ParkOutput, PlaceOutput, history
  <2>3. ASSUME NEW m \in Module, BlockedOutput(p, m) \/ BlockedByTests(p, m) PROVE ~overlapped
    BY <1>1, <2>3 DEF BlockedOutput, BlockedByTests
  <2>4. CASE FinishCompilation(p) \/ FinishTests(p)
    BY <1>1, <2>4 DEF FinishCompilation, FinishTests, EndTests
  <2> QED
    BY <1>2, <1>3, <2>1, <2>2, <2>3, <2>4 DEF CommandStep
<1>4. ASSUME NEW p \in Proc, KillCompilation(p) \/ KillTests(p) PROVE ~overlapped
  BY <1>1, <1>4 DEF KillCompilation, KillTests, EndTests
<1>5. ASSUME NEW p \in Proc, NEW m \in Module, FailCompilation(p, m) \/ FailTests(p, m)
      PROVE  ~overlapped
  BY <1>1, <1>5 DEF FailCompilation, FailTests, EndTests
<1>6. ASSUME NEW p \in Proc, Start(p) PROVE ~overlapped
  BY <1>6 DEF Start
<1>7. ASSUME NEW m \in Module, EditMain(m) \/ \E s \in SourceSet : EditTests(m, s)
      PROVE  ~overlapped
  BY <1>7 DEF EditMain, EditTests, testVars, history
<1>8. CASE UNCHANGED allVars
  BY <1>8 DEF allVars, testVars, history
<1> QED
  BY <1>3, <1>4, <1>5, <1>6, <1>7, <1>8 DEF TestNext

\* Types, phases and scheduling of `jman test` beside `jman compile`, and until
\* two commands have overlapped that nothing on disk, in a record or in a
\* backup is newer than what it was made from.
THEOREM TestCorrect ==
    ASSUME ~Revert
    PROVE  TestSpec => []TestInv
<1>1. TestInit => TestInv
  BY TestTypesInit, PhasesInit, CalmInit DEF TestInv
<1>2. TestInv /\ [TestNext]_allVars => TestInv'
  <2> SUFFICES ASSUME TestInv, [TestNext]_allVars PROVE TestInv'
    OBVIOUS
  <2>1. Base /\ Base'
    BY TestTypesNext, PhasesNext DEF TestInv, Base
  <2>2. ~overlapped' => Calm'
    BY <2>1, OverlapStays, CalmNext DEF TestInv
  <2> QED
    BY <2>1, <2>2 DEF TestInv, Base
<1> QED
  BY <1>1, <1>2, PTL DEF TestSpec

\* As long as no two commands have been in flight at once: run_test_module gives
\* a JVM test classes that were compiled from sources no older than when
\* `jman test` began, against the very classes they run with, reused or not.
THEOREM TestsFresh ==
    ASSUME ~Revert
    PROVE  TestSpec => TestsAreFresh
<1>1. ASSUME TestInv, NEW p \in Proc, NEW m \in Module, RunTests(p, m), ~overlapped
      PROVE  /\ m \in runner
             /\ HasTests(m)
             /\ \A s \in request[p].sets :
                   tests[m].own[s] # 0 => tests[m].own[s] >= asked[p].tests[m][s]
             /\ \A d \in TestPath(m) :
                   /\ tests[m].against[d] = classes[d]
                   /\ classes[d][d] >= asked[p].main[d]
  <2>1. status[p] = "testing" /\ testStage[p][m] = "built"
    BY <1>1 DEF RunTests, Advance
  <2>2. BuildTypes /\ TestTypes /\ TestOk(p, m) /\ CommandOk(p)
    BY <1>1 DEF TestInv, Calm
  <2>3. m \in runner /\ HasTests(m) /\ Against(m, tests[m]) /\ FromAsked(p, m, tests[m])
    BY <2>1, <2>2 DEF TestOk, Testing
  <2>4. \A d \in TestPath(m) : d \in Module /\ classes[d][d] >= asked[p].main[d]
    BY <2>1, <2>2, TestPathModules, Counted, TestsCounted DEF CommandOk, Version
  <2>5. \A s \in request[p].sets :
            tests[m].own[s] # 0 => tests[m].own[s] >= asked[p].tests[m][s]
    BY <2>2, <2>3, TestsCounted DEF FromAsked, TestTypes, Selection
  <2> QED
    BY <2>3, <2>4, <2>5 DEF Against
<1>2. TestInv =>
        [\A p \in Proc : \A m \in Module :
            RunTests(p, m) /\ ~overlapped =>
                /\ m \in runner
                /\ HasTests(m)
                /\ \A s \in request[p].sets :
                      tests[m].own[s] # 0 => tests[m].own[s] >= asked[p].tests[m][s]
                /\ \A d \in TestPath(m) :
                      /\ tests[m].against[d] = classes[d]
                      /\ classes[d][d] >= asked[p].main[d]]_allVars
  BY <1>1
<1> QED
  BY <1>2, TestCorrect, PTL DEF TestsAreFresh
=============================================================================
