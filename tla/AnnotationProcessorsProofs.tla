--------------------- MODULE AnnotationProcessorsProofs ---------------------
(***************************************************************************)
(* Theorems about AnnotationProcessors, for any units, servers, edits and  *)
(* mishaps: what a server would take from the disk is of the present       *)
(* inputs.                                                                 *)
(***************************************************************************)
EXTENDS AnnotationProcessors, TLAPS

Publishing == {"cleanGenerated", "moveGenerated", "cleanClasses", "moveClasses"}
Steps == {"off", "idle", "compile", "ok", "error", "eof"} \cup Publishing
Phases == {"idle", "ready", "locked", "process", "waiting"}
Perhaps == Inputs \cup {None}
Disk ==
  [generated : Perhaps, classes : Perhaps, stagedGenerated : Perhaps, stagedClasses : Perhaps,
   state : BOOLEAN, persisted : Perhaps, failed : Perhaps]
Worker == [step : Steps, unit : Unit \cup {None}]

---------------------------------------------------------------------------
(* The inductive invariant. *)

WorldOk ==
  /\ source \in [Unit -> Nat] /\ stamp \in Nat /\ overlap \in BOOLEAN
  /\ time \in [Dir -> Nat] /\ \A x \in Dir : time[x] <= stamp
  /\ tree \in [Unit -> Disk]
ServersOk ==
  /\ phase \in [Server -> Phases]
  /\ cur \in [Server -> Unit \cup {None}]
  /\ fp \in [Server -> Perhaps]
  /\ jvm \in [Server -> Worker]
  /\ \A s \in Server : phase[s] # "idle" => s \in alive

\* Fingerprints are of sources and times that have been.
Past(f, u) ==
  f.own <= source[u] /\ \A x \in Dir : f.at[x] # None => f.at[x] <= stamp

\* A server that waits does so for the worker that is at its unit.
WaitOk(s) ==
  phase[s] = "waiting" =>
    cur[s] \in Unit /\ jvm[s].unit = cur[s] /\ fp[s] \in Inputs /\ Past(fp[s], cur[s])

\* Workers that no lock keeps apart.
Apart ==
  ~overlap => \A s, t \in Server : Busy(s) /\ Busy(t) /\ jvm[s].unit = jvm[t].unit => s = t

\* Classes are of sources that have been, and compile.  Those beside partial ones
\* are of older sources, and nobody is about to publish others.
Compiles(f, u) == f.own <= source[u] /\ <<u, f.own>> \notin Broken
ClassesOk(u) ==
  /\ tree[u].generated # None <=> time[<<u, "generated">>] # 0
  /\ tree[u].stagedClasses # None => Compiles(tree[u].stagedClasses, u)
  /\ tree[u].classes # None => Compiles(tree[u].classes, u)
  /\ ~overlap /\ time[<<u, "partial">>] # 0 =>
       /\ tree[u].classes # None => tree[u].classes.own < source[u]
       /\ \A s \in Server : jvm[s].step \in Publishing => jvm[s].unit # u

\* A fingerprint is valid while its sources are the present ones, and what it names
\* of the dependencies is there as it was: classes of their present sources, with no
\* partial ones beside them.  One that has ceased to be valid is never valid again.
Current(d) == tree[d].classes # None /\ tree[d].classes.own = source[d]
Valid(f, u) ==
  /\ f.own = source[u]
  /\ \A d \in DependsOn[u] :
       /\ Current(d) /\ f.at[<<d, "classes">>] = time[<<d, "classes">>]
       /\ f.at[<<d, "partial">>] \in {None, 0}
       /\ f.at[<<d, "generated">>] \in {None, time[<<d, "generated">>]} \ {0}

\* What was made after f was taken, from directories of the same names, was made
\* from what f stands for, if that is still valid.
Fits(f, g, u) == g # None /\ Valid(f, u) /\ Alike(g, Seen(f, u)) => g = Seen(f, u)
StagedFit(f, u) == Fits(f, tree[u].stagedGenerated, u) /\ Fits(f, tree[u].stagedClasses, u)
GeneratedFit(f, u) == Fits(f, tree[u].generated, u)
ClassesFit(f, u) == Fits(f, tree[u].classes, u)
PersistedOk(u) ==
  tree[u].persisted # None =>
    /\ Past(tree[u].persisted, u)
    /\ ~overlap => /\ StagedFit(tree[u].persisted, u)
                   /\ GeneratedFit(tree[u].persisted, u) /\ ClassesFit(tree[u].persisted, u)
WorkOk(s) ==
  ~overlap /\ phase[s] = "waiting" =>
    /\ jvm[s].step \in Publishing \cup {"ok"} => StagedFit(fp[s], cur[s])
    /\ jvm[s].step \in {"cleanClasses", "moveClasses", "ok"} => GeneratedFit(fp[s], cur[s])
    /\ jvm[s].step = "ok" => ClassesFit(fp[s], cur[s])

Inv ==
  /\ WorldOk /\ ServersOk /\ Apart
  /\ \A s \in Server : WaitOk(s) /\ WorkOk(s)
  /\ \A u \in Unit : ClassesOk(u) /\ PersistedOk(u)

---------------------------------------------------------------------------
(* Fingerprints after a step. *)

\* Of a fingerprint f, which the step does not change.
PastNext(f, u) ==
  f.own <= source'[u] /\ \A x \in Dir : f.at[x] # None => f.at[x] <= stamp'
ValidNext(f, u) ==
  /\ f.own = source'[u]
  /\ \A d \in DependsOn[u] :
       /\ Current(d)' /\ f.at[<<d, "classes">>] = time'[<<d, "classes">>]
       /\ f.at[<<d, "partial">>] \in {None, 0}
       /\ f.at[<<d, "generated">>] \in {None, time'[<<d, "generated">>]} \ {0}
FitsNext(f, g, u) == g # None /\ ValidNext(f, u) /\ Alike(g, Seen(f, u)) => g = Seen(f, u)
StagedNext(f, u) ==
  FitsNext(f, tree'[u].stagedGenerated, u) /\ FitsNext(f, tree'[u].stagedClasses, u)
GeneratedNext(f, u) == FitsNext(f, tree'[u].generated, u)
ClassesNext(f, u) == FitsNext(f, tree'[u].classes, u)

LEMMA PersistedNext ==
  ASSUME NEW u \in Unit,
         tree'[u].persisted # None =>
           /\ PastNext(tree'[u].persisted, u)
           /\ ~overlap' => /\ StagedNext(tree'[u].persisted, u)
                           /\ GeneratedNext(tree'[u].persisted, u)
                           /\ ClassesNext(tree'[u].persisted, u)
  PROVE  PersistedOk(u)'
BY DEF PersistedOk, Past, StagedFit, GeneratedFit, ClassesFit, Fits, Valid, Alike, Named, Seen,
       PastNext, StagedNext, GeneratedNext, ClassesNext, FitsNext, ValidNext

LEMMA WorkNext ==
  ASSUME NEW s \in Server,
         ~overlap' /\ phase'[s] = "waiting" =>
           /\ jvm'[s].step \in Publishing \cup {"ok"} => StagedNext(fp'[s], cur'[s])
           /\ jvm'[s].step \in {"cleanClasses", "moveClasses", "ok"} =>
                GeneratedNext(fp'[s], cur'[s])
           /\ jvm'[s].step = "ok" => ClassesNext(fp'[s], cur'[s])
  PROVE  WorkOk(s)'
BY DEF WorkOk, StagedFit, GeneratedFit, ClassesFit, Fits, Valid, Alike, Named, Seen,
       StagedNext, GeneratedNext, ClassesNext, FitsNext, ValidNext

LEMMA WaitNext ==
  ASSUME NEW s \in Server,
         phase'[s] = "waiting" =>
           /\ cur'[s] \in Unit /\ jvm'[s].unit = cur'[s] /\ fp'[s] \in Inputs
           /\ PastNext(fp'[s], cur'[s])
  PROVE  WaitOk(s)'
BY DEF WaitOk, Past, PastNext

LEMMA Directories ==
  ASSUME NEW u \in Unit
  PROVE  <<u, "generated">> \in Dir /\ <<u, "classes">> \in Dir /\ <<u, "partial">> \in Dir
BY DEF Dir, ClassDir

LEMMA Kinds ==
  ASSUME NEW x \in Dir
  PROVE  /\ x[1] \in Unit
         /\ x = <<x[1], "generated">> \/ x = <<x[1], "classes">> \/ x = <<x[1], "partial">>
BY DEF Dir, ClassDir

\* What a step may do to sources and directories: nothing takes an earlier version
\* or time again.
Later ==
  /\ stamp <= stamp' /\ \A v \in Unit : source[v] <= source'[v]
  /\ \A v \in Unit :
       /\ \/ tree'[v].classes = None
          \/ /\ tree'[v].classes = tree[v].classes
             /\ time'[<<v, "classes">>] = time[<<v, "classes">>]
          \/ time'[<<v, "classes">>] > stamp
       /\ \/ time'[<<v, "generated">>] \in {time[<<v, "generated">>], 0}
          \/ time'[<<v, "generated">>] > stamp

Backward ==
  \A u \in Unit : \A f \in Inputs :
    Past(f, u) => PastNext(f, u) /\ (ValidNext(f, u) => Valid(f, u))

LEMMA NeverAgain ==
  ASSUME WorldOk, WorldOk', \A u \in Unit : ClassesOk(u), Later
  PROVE  Backward
<1> SUFFICES ASSUME NEW u \in Unit, NEW f \in Inputs, Past(f, u)
             PROVE  PastNext(f, u) /\ (ValidNext(f, u) => Valid(f, u))
  BY DEF Backward
<1>1. /\ f.own \in Nat /\ \A x \in Dir : f.at[x] \in Nat \cup {None}
      /\ stamp \in Nat /\ stamp' \in Nat
      /\ \A v \in Unit : source[v] \in Nat /\ source'[v] \in Nat
  BY DEF Inputs, WorldOk
<1>2. PastNext(f, u)
  <2>1. f.own <= source'[u]
    BY <1>1 DEF Past, Later
  <2>2. ASSUME NEW x \in Dir, f.at[x] # None
        PROVE  f.at[x] <= stamp'
    BY <1>1, <2>2 DEF Past, Later
  <2> QED BY <2>1, <2>2 DEF PastNext
<1>3. ASSUME ValidNext(f, u)
      PROVE  Valid(f, u)
  <2>1. f.own = source[u]
    BY <1>1, <1>3 DEF Past, Later, ValidNext
  <2>2. ASSUME NEW d \in DependsOn[u]
        PROVE  /\ Current(d) /\ f.at[<<d, "classes">>] = time[<<d, "classes">>]
               /\ f.at[<<d, "partial">>] \in {None, 0}
               /\ f.at[<<d, "generated">>] \in {None, time[<<d, "generated">>]} \ {0}
    <3>1. d \in Unit
      BY UnitAssumption
    <3>2. /\ tree'[d].classes # None /\ tree'[d].classes.own = source'[d]
          /\ f.at[<<d, "classes">>] = time'[<<d, "classes">>]
          /\ f.at[<<d, "partial">>] \in {None, 0}
          /\ f.at[<<d, "generated">>] \in {None, time'[<<d, "generated">>]} \ {0}
      BY <1>3 DEF ValidNext, Current
    <3>3. /\ time[<<d, "classes">>] \in Nat /\ time'[<<d, "classes">>] \in Nat
          /\ time[<<d, "generated">>] \in Nat /\ time'[<<d, "generated">>] \in Nat
      BY <3>1, Directories DEF WorldOk
    <3>4. f.at[<<d, "classes">>] <= stamp
      BY <3>1, <3>2, <3>3, Directories, NoneAssumption DEF Past
    <3>5. tree'[d].classes = tree[d].classes /\ f.at[<<d, "classes">>] = time[<<d, "classes">>]
      BY <1>1, <3>1, <3>2, <3>3, <3>4 DEF Later
    <3>6. tree[d].classes.own <= source[d] /\ tree[d].classes.own \in Nat
      <4>1. tree[d].classes \in Inputs
        BY <3>1, <3>2, <3>5 DEF WorldOk, Disk, Perhaps
      <4> QED BY <3>1, <3>2, <3>5, <4>1 DEF ClassesOk, Compiles, Inputs
    <3>7. Current(d)
      BY <1>1, <3>1, <3>2, <3>5, <3>6 DEF Later, Current
    <3>8. f.at[<<d, "generated">>] \in {None, time[<<d, "generated">>]} \ {0}
      <4>1. CASE f.at[<<d, "generated">>] = None
        BY <3>2, <4>1
      <4>2. CASE f.at[<<d, "generated">>] # None
        <5>1. f.at[<<d, "generated">>] <= stamp
          BY <3>1, <4>2, Directories DEF Past
        <5> QED BY <1>1, <3>1, <3>2, <3>3, <4>2, <5>1 DEF Later
      <4> QED BY <4>1, <4>2
    <3> QED BY <3>2, <3>5, <3>7, <3>8
  <2> QED BY <2>1, <2>2 DEF Valid
<1> QED BY <1>2, <1>3

---------------------------------------------------------------------------
(* Steps that publish nothing. *)

\* What outputs may lose, to users and to cleared caches.
Fades ==
  /\ stamp' = stamp /\ \A v \in Unit : source[v] <= source'[v]
  /\ \A v \in Unit :
       /\ tree'[v].stagedGenerated \in {tree[v].stagedGenerated, None}
       /\ tree'[v].stagedClasses \in {tree[v].stagedClasses, None}
       /\ tree'[v].classes \in {tree[v].classes, None}
       /\ tree'[v].classes # None => time'[<<v, "classes">>] = time[<<v, "classes">>]
       /\ \/ /\ tree'[v].generated = tree[v].generated
             /\ time'[<<v, "generated">>] = time[<<v, "generated">>]
          \/ tree'[v].generated = None /\ time'[<<v, "generated">>] = 0
       /\ time'[<<v, "partial">>] \in {time[<<v, "partial">>], 0}
Keeps == \A v \in Unit : tree'[v].persisted \in {tree[v].persisted, None}

\* A server that begins nothing: its worker is at the same unit, or free.
Calm(t) ==
  /\ Busy(t)' => Busy(t) /\ jvm'[t].unit = jvm[t].unit
  /\ jvm'[t].step \in Publishing \cup {"ok"} => jvm'[t].step = jvm[t].step
  /\ phase'[t] = "waiting" =>
       /\ phase[t] = "waiting" /\ cur'[t] = cur[t] /\ fp'[t] = fp[t]
       /\ jvm'[t].unit = jvm[t].unit

LEMMA Carry ==
  ASSUME NEW u, NEW f, NEW g, NEW h \in {g, None}, ValidNext(f, u) => Valid(f, u), Fits(f, g, u)
  PROVE  FitsNext(f, h, u)
BY DEF Fits, FitsNext

LEMMA FadingBackward ==
  ASSUME Inv, WorldOk', Fades
  PROVE  Backward
<1>1. stamp <= stamp' /\ \A v \in Unit : source[v] <= source'[v]
  BY DEF Fades, Inv, WorldOk
<1>2. ASSUME NEW v \in Unit
      PROVE  /\ \/ tree'[v].classes = None
                \/ /\ tree'[v].classes = tree[v].classes
                   /\ time'[<<v, "classes">>] = time[<<v, "classes">>]
             /\ time'[<<v, "generated">>] \in {time[<<v, "generated">>], 0}
  BY DEF Fades
<1>3. Later
  BY <1>1, <1>2, Zenon DEF Later
<1> QED BY <1>3, NeverAgain DEF Inv

LEMMA FadingFits ==
  ASSUME Fades, NEW u \in Unit, NEW f, ValidNext(f, u) => Valid(f, u)
  PROVE  /\ StagedFit(f, u) => StagedNext(f, u)
         /\ GeneratedFit(f, u) => GeneratedNext(f, u)
         /\ ClassesFit(f, u) => ClassesNext(f, u)
BY Carry DEF Fades, StagedFit, StagedNext, GeneratedFit, GeneratedNext, ClassesFit, ClassesNext

LEMMA FadingClasses ==
  ASSUME Inv, WorldOk', ServersOk', Fades, ~overlap' => ~overlap, NEW u \in Unit,
         \A t \in Server : jvm'[t].step \in Publishing =>
                             jvm'[t].step = jvm[t].step /\ jvm'[t].unit = jvm[t].unit
  PROVE  ClassesOk(u)'
<1>1. WorldOk /\ ClassesOk(u)
  BY DEF Inv
<1>2. source[u] \in Nat /\ source'[u] \in Nat /\ source[u] <= source'[u]
  BY <1>1 DEF WorldOk, Fades
<1>3. ASSUME NEW g \in Inputs, Compiles(g, u)
      PROVE  Compiles(g, u)'
  <2>1. g.own \in Nat
    BY DEF Inputs
  <2>2. g.own <= source'[u]
    BY <1>2, <1>3, <2>1 DEF Compiles
  <2> QED BY <1>3, <2>2 DEF Compiles
<1>4. /\ tree[u].classes \in Perhaps /\ tree[u].stagedClasses \in Perhaps
  BY <1>1 DEF WorldOk, Disk
<1>5. tree'[u].stagedClasses # None => tree'[u].stagedClasses.own <= source'[u]
                                       /\ <<u, tree'[u].stagedClasses.own>> \notin Broken
  BY <1>1, <1>3, <1>4 DEF Fades, Perhaps, ClassesOk, Compiles
<1>6. tree'[u].classes # None => tree'[u].classes.own <= source'[u]
                                 /\ <<u, tree'[u].classes.own>> \notin Broken
  BY <1>1, <1>3, <1>4 DEF Fades, Perhaps, ClassesOk, Compiles
<1>7. tree'[u].generated # None <=> time'[<<u, "generated">>] # 0
  BY <1>1 DEF Fades, ClassesOk
<1>8. ASSUME ~overlap', time'[<<u, "partial">>] # 0
      PROVE  /\ tree'[u].classes # None => tree'[u].classes.own < source'[u]
             /\ \A s \in Server : jvm'[s].step \in Publishing => jvm'[s].unit # u
  <2>1. ~overlap /\ time[<<u, "partial">>] # 0
    BY <1>8 DEF Fades
  <2>2. /\ tree[u].classes # None => tree[u].classes.own < source[u] /\ tree[u].classes.own \in Nat
        /\ \A s \in Server : jvm[s].step \in Publishing => jvm[s].unit # u
    BY <1>1, <1>4, <2>1 DEF ClassesOk, Perhaps, Inputs
  <2>3. tree'[u].classes # None => tree'[u].classes = tree[u].classes
    BY DEF Fades
  <2>4. tree'[u].classes # None => tree'[u].classes.own < source'[u]
    BY <1>2, <2>2, <2>3
  <2> QED BY <2>2, <2>4
<1> QED BY <1>5, <1>6, <1>7, <1>8 DEF ClassesOk, Compiles

LEMMA FadingPersisted ==
  ASSUME Inv, WorldOk', Fades, Keeps, ~overlap' => ~overlap, NEW u \in Unit
  PROVE  PersistedOk(u)'
<1> SUFFICES ASSUME NEW f, f = tree'[u].persisted, f # None
             PROVE  /\ PastNext(f, u)
                    /\ ~overlap' => StagedNext(f, u) /\ GeneratedNext(f, u) /\ ClassesNext(f, u)
  BY PersistedNext
<1>1. f = tree[u].persisted /\ f \in Inputs
  <2>1. f = tree[u].persisted /\ tree[u].persisted \in Perhaps
    BY DEF Keeps, Inv, WorldOk, Disk
  <2> QED BY <2>1 DEF Perhaps
<1>2. Past(f, u) /\ (~overlap => StagedFit(f, u) /\ GeneratedFit(f, u) /\ ClassesFit(f, u))
  BY <1>1 DEF Inv, PersistedOk
<1>3. PastNext(f, u) /\ (ValidNext(f, u) => Valid(f, u))
  BY <1>1, <1>2, FadingBackward DEF Backward
<1> QED BY <1>2, <1>3, FadingFits

LEMMA CalmKeeps ==
  ASSUME Inv, WorldOk', Fades, ~overlap' => ~overlap, NEW t \in Server, Calm(t)
  PROVE  WaitOk(t)' /\ WorkOk(t)'
<1>1. CASE phase'[t] # "waiting"
  BY <1>1 DEF WaitOk, WorkOk
<1>2. CASE phase'[t] = "waiting"
  <2> DEFINE u == cur[t]
             f == fp[t]
  <2>1. /\ phase[t] = "waiting" /\ cur'[t] = u /\ fp'[t] = f /\ jvm'[t].unit = u
        /\ u \in Unit /\ f \in Inputs /\ Past(f, u) /\ WorkOk(t)
    BY <1>2 DEF Calm, Inv, WaitOk
  <2>2. PastNext(f, u) /\ (ValidNext(f, u) => Valid(f, u))
    BY <2>1, FadingBackward DEF Backward
  <2>3. WaitOk(t)'
    BY <2>1, <2>2, WaitNext
  <2>4. /\ StagedFit(f, u) => StagedNext(f, u)
        /\ GeneratedFit(f, u) => GeneratedNext(f, u)
        /\ ClassesFit(f, u) => ClassesNext(f, u)
    BY <2>1, <2>2, FadingFits
  <2>5. WorkOk(t)'
    <3> HIDE DEF u, f
    <3>1. ~overlap => /\ jvm[t].step \in Publishing \cup {"ok"} => StagedFit(f, u)
                      /\ jvm[t].step \in {"cleanClasses", "moveClasses", "ok"} => GeneratedFit(f, u)
                      /\ jvm[t].step = "ok" => ClassesFit(f, u)
      BY <2>1 DEF WorkOk, u, f
    <3>2. jvm'[t].step \in Publishing \cup {"ok"} => jvm'[t].step = jvm[t].step
      BY DEF Calm
    <3> QED BY <2>1, <2>4, <3>1, <3>2, WorkNext DEF Publishing
  <2> QED BY <2>3, <2>5
<1> QED BY <1>1, <1>2

LEMMA ApartNext ==
  ASSUME Apart, ~overlap' => ~overlap, NEW s \in Server,
         \A t \in Server \ {s} : Busy(t)' => Busy(t) /\ jvm'[t].unit = jvm[t].unit,
         ~overlap' /\ Busy(s)' =>
           \/ Busy(s) /\ jvm'[s].unit = jvm[s].unit
           \/ \A t \in Server \ {s} : Busy(t) => jvm[t].unit # jvm'[s].unit
  PROVE  Apart'
<1> SUFFICES ASSUME ~overlap', NEW r \in Server, NEW t \in Server, Busy(r)', Busy(t)',
                    jvm'[r].unit = jvm'[t].unit
             PROVE  r = t
  BY DEF Apart
<1>1. CASE r # s /\ t # s
  BY <1>1 DEF Apart
<1>2. CASE r = s /\ t # s
  BY <1>2 DEF Apart
<1>3. CASE r # s /\ t = s
  BY <1>3 DEF Apart
<1> QED BY <1>1, <1>2, <1>3

LEMMA FadingKeeps ==
  ASSUME Inv, WorldOk', ServersOk', Fades, Keeps, overlap' = overlap, \A t \in Server : Calm(t)
  PROVE  Inv'
<1>1. \A t \in Server : WaitOk(t)' /\ WorkOk(t)'
  BY CalmKeeps
<1>2. \A u \in Unit : ClassesOk(u)'
  <2>1. \A t \in Server : jvm'[t].step \in Publishing =>
                            jvm'[t].step = jvm[t].step /\ jvm'[t].unit = jvm[t].unit
    BY DEF Calm, Publishing, Busy
  <2> QED BY <2>1, FadingClasses
<1>3. \A u \in Unit : PersistedOk(u)'
  BY FadingPersisted
<1>4. Apart'
  <2>1. ASSUME Server = {}
        PROVE  Apart'
    BY <2>1 DEF Apart
  <2>2. ASSUME NEW s \in Server
        PROVE  Apart'
    BY ApartNext DEF Inv, Calm
  <2> QED BY <2>1, <2>2
<1> QED BY <1>1, <1>2, <1>3, <1>4 DEF Inv

---------------------------------------------------------------------------
(* The server, when it does not send a request, and mishaps. *)

LEMMA SameOutputs ==
  ASSUME WorldOk, UNCHANGED <<source, tree, time, stamp, overlap>>
  PROVE  WorldOk' /\ Fades /\ Keeps
<1>1. WorldOk'
  BY DEF WorldOk
<1>2. \A v \in Unit : source[v] \in Nat
  BY DEF WorldOk
<1> QED BY <1>1, <1>2 DEF Fades, Keeps

LEMMA Marked ==
  ASSUME WorldOk, UNCHANGED <<source, time, stamp, overlap>>, NEW u \in Unit, NEW x \in Disk,
         tree' = [tree EXCEPT ![u] = x],
         x.generated = tree[u].generated, x.classes = tree[u].classes,
         x.stagedGenerated = tree[u].stagedGenerated,
         x.stagedClasses = tree[u].stagedClasses
  PROVE  WorldOk' /\ Fades /\ (x.persisted = tree[u].persisted => Keeps)
<1>1. WorldOk'
  BY DEF WorldOk
<1>2. \A v \in Unit : source[v] \in Nat /\ tree'[v] = IF v = u THEN x ELSE tree[v]
  BY DEF WorldOk
<1>3. ASSUME NEW v \in Unit
      PROVE  /\ tree'[v].stagedGenerated = tree[v].stagedGenerated
             /\ tree'[v].stagedClasses = tree[v].stagedClasses
             /\ tree'[v].generated = tree[v].generated
             /\ tree'[v].classes = tree[v].classes
             /\ x.persisted = tree[u].persisted => tree'[v].persisted = tree[v].persisted
  BY <1>2
<1>4. Fades
  BY <1>2, <1>3 DEF Fades
<1>5. x.persisted = tree[u].persisted => Keeps
  BY <1>3 DEF Keeps
<1> QED BY <1>1, <1>4, <1>5

\* A server goes on, or stops, or loses its worker.
Turns(s, p, c, f, j) ==
  /\ phase' = [phase EXCEPT ![s] = p] /\ cur' = [cur EXCEPT ![s] = c]
  /\ fp' = [fp EXCEPT ![s] = f] /\ jvm' = [jvm EXCEPT ![s] = j]
  /\ p \in Phases \ {"waiting"} /\ c \in Unit \cup {None} /\ f \in Perhaps /\ j \in Worker
  /\ j.step \in {"off", "idle"} \/ j = jvm[s]
  /\ alive' = alive /\ (p = "idle" \/ s \in alive)

LEMMA TurningKeeps ==
  ASSUME ServersOk, NEW s \in Server, NEW p, NEW c, NEW f, NEW j, Turns(s, p, c, f, j)
  PROVE  ServersOk' /\ \A t \in Server : Calm(t)
<1>1. ServersOk'
  BY DEF ServersOk, Turns
<1>2. ASSUME NEW t \in Server
      PROVE  Calm(t)
  <2>1. CASE t = s
    <3>1. phase'[s] # "waiting" /\ (jvm'[s].step \in {"off", "idle"} \/ jvm'[s] = jvm[s])
      BY DEF ServersOk, Turns
    <3> QED BY <2>1, <3>1 DEF Calm, Busy, Publishing
  <2>2. CASE t # s
    BY <2>2 DEF ServersOk, Turns, Calm, Busy
  <2> QED BY <2>1, <2>2
<1> QED BY <1>1, <1>2

LEMMA ServerTypes ==
  ASSUME ServersOk, NEW s \in Server
  PROVE  /\ cur[s] \in Unit \cup {None} /\ fp[s] \in Perhaps /\ jvm[s] \in Worker
         /\ cur = [cur EXCEPT ![s] = cur[s]] /\ fp = [fp EXCEPT ![s] = fp[s]]
         /\ jvm = [jvm EXCEPT ![s] = jvm[s]] /\ phase = [phase EXCEPT ![s] = phase[s]]
         /\ Off \in Worker /\ Off.step = "off" /\ Idle \in Worker /\ Idle.step = "idle"
         /\ None \in Perhaps
BY DEF ServersOk, Off, Idle, Worker, Steps, Perhaps

\* Leaving a unit, with its worker or without.
Leaving(s, u) ==
  \/ Skip(s, u) \/ CannotStart(s, u) \/ Reuse(s, u) \/ CannotSend(s, u)
  \/ SucceedInVain(s, u) \/ FailUnit(s, u)
LeavingWith(s, u, j) ==
  /\ phase[s] \in {"locked", "process", "waiting"} /\ Drop(s, u) /\ jvm' = [jvm EXCEPT ![s] = j]
  /\ j \in Worker /\ (j.step \in {"off", "idle"} \/ j = jvm[s])

LEMMA LeavingTurns ==
  ASSUME ServersOk, NEW s \in Server, NEW u \in Unit, NEW j, LeavingWith(s, u, j)
  PROVE  Turns(s, "ready", None, None, j)
<1>1. s \in alive
  BY DEF ServersOk, LeavingWith
<1> QED BY <1>1, ServerTypes DEF LeavingWith, Drop, Turns, Phases

LEMMA LeavingKeeps ==
  ASSUME Inv, NEW s \in Server, NEW u \in Unit, Leaving(s, u)
  PROVE  Inv'
<1>1. WorldOk /\ ServersOk
  BY DEF Inv
<1>2. \E j : LeavingWith(s, u, j)
  <2>1. CASE Skip(s, u) \/ CannotStart(s, u) \/ Reuse(s, u)
    <3>1. /\ phase[s] \in {"locked", "process", "waiting"}
          /\ Drop(s, u) /\ jvm' = jvm
      BY <2>1 DEF Skip, CannotStart, Reuse, Leave
    <3>2. LeavingWith(s, u, jvm[s])
      BY <1>1, <3>1, ServerTypes DEF LeavingWith
    <3> QED BY <3>2
  <2>2. CASE CannotSend(s, u) \/ SucceedInVain(s, u) \/ FailUnit(s, u)
    <3>1. /\ phase[s] \in {"locked", "process", "waiting"}
          /\ Drop(s, u) /\ jvm' = [jvm EXCEPT ![s] = Off]
      BY <2>2 DEF CannotSend, SucceedInVain, FailUnit, Leave, DropWorker
    <3>2. LeavingWith(s, u, Off)
      BY <1>1, <3>1, ServerTypes DEF LeavingWith
    <3> QED BY <3>2
  <2> QED BY <2>1, <2>2 DEF Leaving
<1>3. ServersOk' /\ \A t \in Server : Calm(t)
  BY <1>1, <1>2, LeavingTurns, TurningKeeps
<1>4. overlap' = overlap
  BY DEF Leaving, Skip, CannotStart, Reuse, CannotSend, SucceedInVain, FailUnit, Happens, history
<1>5. WorldOk' /\ Fades /\ Keeps
  <2>1. CASE Skip(s, u) \/ CannotStart(s, u) \/ Reuse(s, u) \/ CannotSend(s, u)
             \/ SucceedInVain(s, u)
    <3>1. UNCHANGED <<source, tree, time, stamp>>
      BY <2>1 DEF Skip, CannotStart, Reuse, CannotSend, SucceedInVain
    <3> QED BY <1>1, <1>4, <3>1, SameOutputs
  <2>2. CASE FailUnit(s, u)
    <3> DEFINE x == [tree[u] EXCEPT !.failed = IF tree[u].state THEN fp[s] ELSE @]
    <3>1. tree' = [tree EXCEPT ![u] = x] /\ UNCHANGED <<source, time, stamp>>
      BY <2>2 DEF FailUnit
    <3>2. x \in Disk
      BY <1>1, ServerTypes DEF WorldOk, Disk
    <3>3. /\ x.generated = tree[u].generated /\ x.classes = tree[u].classes
          /\ x.stagedGenerated = tree[u].stagedGenerated
          /\ x.stagedClasses = tree[u].stagedClasses /\ x.persisted = tree[u].persisted
      BY <1>1 DEF WorldOk, Disk
    <3> HIDE DEF x
    <3> QED BY <1>1, <1>4, <3>1, <3>2, <3>3, Marked
  <2> QED BY <2>1, <2>2 DEF Leaving
<1> QED BY <1>3, <1>4, <1>5, FadingKeeps

\* Steps of a server that leave the outputs alone.
Going(s) ==
  \/ Begin(s) \/ GiveUp(s) \/ Finish(s) \/ Exit(s) \/ \E u \in Unit : Ask(s, u)

LEMMA GoingKeeps ==
  ASSUME Inv, NEW s \in Server, Going(s)
  PROVE  Inv'
<1>1. WorldOk /\ ServersOk /\ Phases \ {"waiting"} = {"idle", "ready", "locked", "process"}
  BY DEF Inv, Phases
<1>2. UNCHANGED <<source, tree, time, stamp, overlap, cur, fp>>
  BY DEF Going, Begin, GiveUp, Finish, Exit, Ask, DropWorker, Happens, disk, history, server, run
<1>3. \E p, j : Turns(s, p, cur[s], fp[s], j)
  <2>1. CASE Begin(s)
    <3>1. Turns(s, "ready", cur[s], fp[s], jvm[s])
      BY <1>1, <1>2, <2>1, ServerTypes DEF Begin, Turns
    <3> QED BY <3>1
  <2>2. CASE GiveUp(s)
    <3>1. Turns(s, "idle", cur[s], fp[s], jvm[s])
      BY <1>1, <1>2, <2>2, ServerTypes DEF GiveUp, Turns
    <3> QED BY <3>1
  <2>3. CASE Finish(s)
    <3>1. Turns(s, "idle", cur[s], fp[s], Off) \/ Turns(s, "idle", cur[s], fp[s], jvm[s])
      BY <1>1, <1>2, <2>3, ServerTypes DEF Finish, DropWorker, Turns
    <3> QED BY <3>1
  <2>4. CASE Exit(s)
    <3>1. s \notin alive /\ phase' = phase /\ alive' = alive /\ jvm' = [jvm EXCEPT ![s] = Off]
      BY <2>4 DEF Exit, server
    <3>2. phase[s] = "idle"
      BY <1>1, <3>1 DEF ServersOk
    <3>3. Turns(s, "idle", cur[s], fp[s], Off)
      BY <1>1, <1>2, <3>1, <3>2, ServerTypes DEF Turns
    <3> QED BY <3>3
  <2>5. ASSUME NEW u \in Unit, Ask(s, u)
        PROVE  Turns(s, "process", cur[s], fp[s], Idle)
    <3>1. s \in alive
      BY <1>1, <2>5 DEF Ask, ServersOk
    <3> QED BY <1>1, <1>2, <2>5, <3>1, ServerTypes DEF Ask, Turns
  <2> QED BY <2>1, <2>2, <2>3, <2>4, <2>5 DEF Going
<1>4. ServersOk' /\ \A t \in Server : Calm(t)
  BY <1>1, <1>3, TurningKeeps
<1>5. WorldOk' /\ Fades /\ Keeps
  BY <1>1, <1>2, SameOutputs
<1> QED BY <1>2, <1>4, <1>5, FadingKeeps

LEMMA KillKeeps ==
  ASSUME Inv, NEW s \in Server, Kill(s)
  PROVE  Inv'
<1>1. WorldOk /\ ServersOk
  BY DEF Inv
<1>2. UNCHANGED <<source, tree, time, stamp, overlap, fp>>
  BY DEF Kill, Happens
<1>3. \E j \in Worker : jvm' = [jvm EXCEPT ![s] = j] /\ (j.step = "off" \/ j = jvm[s])
  <2>1. jvm' = [jvm EXCEPT ![s] = jvm[s]] \/ jvm' = [jvm EXCEPT ![s] = Off]
    BY DEF Kill
  <2> QED BY <1>1, <2>1, ServerTypes
<1>4. ServersOk'
  BY <1>1, <1>2, <1>3 DEF Kill, ServersOk, Phases
<1>5. ASSUME NEW t \in Server
      PROVE  Calm(t)
  <2>1. CASE t = s
    <3>1. phase'[s] = "idle" /\ (jvm'[s] = jvm[s] \/ jvm'[s].step = "off")
      BY <1>1, <1>3 DEF Kill, ServersOk
    <3> QED BY <2>1, <3>1 DEF Calm, Busy, Publishing
  <2>2. CASE t # s
    <3>1. jvm'[t] = jvm[t] /\ phase'[t] = phase[t] /\ cur'[t] = cur[t] /\ fp'[t] = fp[t]
      BY <1>1, <1>2, <1>3, <2>2 DEF Kill, ServersOk
    <3> QED BY <3>1 DEF Calm, Busy
  <2> QED BY <2>1, <2>2
<1>6. WorldOk' /\ Fades /\ Keeps
  BY <1>1, <1>2, SameOutputs
<1> QED BY <1>2, <1>4, <1>5, <1>6, FadingKeeps

LEMMA WorkerFails ==
  ASSUME Inv, NEW s \in Server, WorkerDies(s) \/ PublishFails(s)
  PROVE  Inv'
<1>1. WorldOk /\ ServersOk
  BY DEF Inv
<1>2. UNCHANGED <<source, tree, time, stamp, overlap, fp, phase, cur, alive>>
  BY DEF WorkerDies, PublishFails, Happens, disk, server, run
<1>3. Busy(s) /\ \E k \in {"error", "eof"} : jvm' = [jvm EXCEPT ![s].step = k]
  BY DEF WorkerDies, PublishFails, Busy
<1>4. /\ jvm' \in [Server -> Worker] /\ jvm'[s].step \in {"error", "eof"}
      /\ jvm'[s].unit = jvm[s].unit /\ \A t \in Server \ {s} : jvm'[t] = jvm[t]
  BY <1>1, <1>3 DEF ServersOk, Worker, Steps
<1>5. ServersOk'
  BY <1>1, <1>2, <1>4 DEF ServersOk
<1>6. ASSUME NEW t \in Server
      PROVE  Calm(t)
  <2>1. CASE t = s
    BY <1>2, <1>3, <1>4, <2>1 DEF Calm, Busy, Publishing
  <2>2. CASE t # s
    BY <1>2, <1>4, <2>2 DEF Calm, Busy
  <2> QED BY <2>1, <2>2
<1>7. WorldOk' /\ Fades /\ Keeps
  BY <1>1, <1>2, SameOutputs
<1> QED BY <1>2, <1>5, <1>6, <1>7, FadingKeeps

\* What happens outside leaves the servers alone.
LEMMA OutsideServers ==
  ASSUME ServersOk, UNCHANGED <<phase, cur, fp, jvm, alive>>
  PROVE  ServersOk' /\ \A t \in Server : Calm(t)
BY DEF ServersOk, Calm, Busy

LEMMA EditKeeps ==
  ASSUME Inv, NEW u \in Unit, Edit(u)
  PROVE  Inv'
<1>1. WorldOk /\ ServersOk
  BY DEF Inv
<1>2. UNCHANGED <<tree, time, stamp, overlap, phase, cur, fp, jvm, alive>>
  BY DEF Edit, Happens, server, run
<1>3. source' \in [Unit -> Nat] /\ \A v \in Unit : source[v] <= source'[v]
  BY <1>1 DEF Edit, WorldOk
<1>4. WorldOk' /\ Fades /\ Keeps
  BY <1>1, <1>2, <1>3 DEF WorldOk, Fades, Keeps
<1> QED BY <1>1, <1>2, <1>4, OutsideServers, FadingKeeps

LEMMA DeleteKeeps ==
  ASSUME Inv, NEW u \in Unit, Delete(u)
  PROVE  Inv'
<1>1. WorldOk /\ ServersOk
  BY DEF Inv
<1>2. UNCHANGED <<source, stamp, overlap, phase, cur, fp, jvm, alive>>
  BY DEF Delete, Happens, server, run
<1>3. /\ tree' = [tree EXCEPT ![u].generated = None]
      /\ time' = [time EXCEPT ![<<u, "generated">>] = 0]
  BY DEF Delete
<1>4. tree' \in [Unit -> Disk]
  BY <1>1, <1>3 DEF WorldOk, Disk, Perhaps
<1>5. /\ time' \in [Dir -> Nat] /\ stamp \in Nat
      /\ \A x \in Dir : time'[x] = IF x = <<u, "generated">> THEN 0 ELSE time[x]
  BY <1>1, <1>3 DEF WorldOk
<1>6. \A x \in Dir : time'[x] <= stamp
  BY <1>1, <1>5 DEF WorldOk
<1>7. WorldOk'
  BY <1>1, <1>2, <1>4, <1>5, <1>6 DEF WorldOk
<1>8. ASSUME NEW v \in Unit
      PROVE  /\ tree'[v].stagedGenerated = tree[v].stagedGenerated
             /\ tree'[v].stagedClasses = tree[v].stagedClasses
             /\ tree'[v].generated = IF v = u THEN None ELSE tree[v].generated
             /\ tree'[v].classes = tree[v].classes /\ tree'[v].persisted = tree[v].persisted
             /\ time'[<<v, "generated">>] = IF v = u THEN 0 ELSE time[<<v, "generated">>]
             /\ time'[<<v, "classes">>] = time[<<v, "classes">>]
             /\ time'[<<v, "partial">>] = time[<<v, "partial">>]
  <2>1. tree'[v] = IF v = u THEN [tree[u] EXCEPT !.generated = None] ELSE tree[v]
    BY <1>1, <1>3 DEF WorldOk
  <2>2. tree[u] \in Disk
    BY <1>1 DEF WorldOk
  <2> QED BY <1>5, <2>1, <2>2, Directories DEF Disk
<1>9. Fades /\ Keeps
  <2>1. \A v \in Unit : source[v] <= source[v]
    BY <1>1 DEF WorldOk
  <2> QED BY <1>2, <1>8, <2>1 DEF Fades, Keeps
<1> QED BY <1>1, <1>2, <1>7, <1>9, OutsideServers, FadingKeeps

LEMMA ClearKeeps ==
  ASSUME Inv, NEW s \in Server, ClearCache(s)
  PROVE  Inv'
<1>1. WorldOk /\ ServersOk
  BY DEF Inv
<1>2. UNCHANGED <<source, stamp, overlap, phase, cur, fp, jvm, alive>>
  BY DEF ClearCache, Happens, server, run
<1>3. /\ tree' = [u \in Unit |-> [NoTree EXCEPT !.generated = tree[u].generated,
                                    !.stagedGenerated = tree[u].stagedGenerated]]
      /\ time' = [x \in Dir |-> IF x \in ClassDir THEN 0 ELSE time[x]]
  BY DEF ClearCache
<1>4. ASSUME NEW v \in Unit
      PROVE  /\ tree'[v] \in Disk
             /\ tree'[v].stagedGenerated = tree[v].stagedGenerated
             /\ tree'[v].stagedClasses = None
             /\ tree'[v].generated = tree[v].generated
             /\ tree'[v].classes = None /\ tree'[v].persisted = None
  <2> DEFINE g == tree[v].generated
             h == tree[v].stagedGenerated
  <2>1. g \in Perhaps /\ h \in Perhaps
    BY <1>1 DEF WorldOk, Disk
  <2>2. tree'[v] = [NoTree EXCEPT !.generated = g, !.stagedGenerated = h]
    BY <1>3
  <2> HIDE DEF g, h
  <2>3. tree'[v] = [generated |-> g, classes |-> None, stagedGenerated |-> h,
                    stagedClasses |-> None, state |-> FALSE, persisted |-> None,
                    failed |-> None]
    BY <2>2 DEF NoTree
  <2>4. tree'[v] \in Disk
    BY <2>1, <2>3 DEF Disk, Perhaps
  <2>5. /\ tree'[v].stagedGenerated = h /\ tree'[v].stagedClasses = None
        /\ tree'[v].generated = g /\ tree'[v].classes = None /\ tree'[v].persisted = None
    BY <2>3
  <2> QED BY <2>4, <2>5 DEF g, h
<1>5. \A x \in Dir : time'[x] = (IF x \in ClassDir THEN 0 ELSE time[x]) /\ time'[x] \in Nat
                     /\ time'[x] <= stamp
  <2> SUFFICES ASSUME NEW x \in Dir
               PROVE  /\ time'[x] = IF x \in ClassDir THEN 0 ELSE time[x]
                      /\ time'[x] \in Nat /\ time'[x] <= stamp
    OBVIOUS
  <2>1. time'[x] = IF x \in ClassDir THEN 0 ELSE time[x]
    BY <1>3
  <2>2. time[x] \in Nat /\ time[x] <= stamp /\ stamp \in Nat
    BY <1>1 DEF WorldOk
  <2> QED BY <2>1, <2>2
<1>6. WorldOk'
  <2>1. tree' \in [Unit -> Disk]
    BY <1>3, <1>4
  <2>2. time' \in [Dir -> Nat]
    BY <1>3, <1>5
  <2> QED BY <1>1, <1>2, <1>5, <2>1, <2>2 DEF WorldOk
<1>7. \A v \in Unit : /\ time'[<<v, "generated">>] = time[<<v, "generated">>]
                      /\ time'[<<v, "partial">>] = 0
  BY <1>5, Directories DEF ClassDir
<1>8. \A v \in Unit : source[v] <= source[v]
  BY <1>1 DEF WorldOk
<1>9. Fades /\ Keeps
  BY <1>2, <1>4, <1>7, <1>8 DEF Fades, Keeps
<1> QED BY <1>1, <1>2, <1>6, <1>9, OutsideServers, FadingKeeps

LEMMA AcquireKeeps ==
  ASSUME Inv, NEW s \in Server, NEW u \in Unit, Acquire(s, u)
  PROVE  Inv'
<1> DEFINE x == [tree[u] EXCEPT !.state = TRUE]
<1>1. WorldOk /\ ServersOk /\ tree[u] \in Disk
  BY DEF Inv, WorldOk
<1>2. /\ x \in Disk /\ x.generated = tree[u].generated /\ x.classes = tree[u].classes
      /\ x.stagedGenerated = tree[u].stagedGenerated /\ x.stagedClasses = tree[u].stagedClasses
      /\ x.persisted = tree[u].persisted
  BY <1>1 DEF Disk
<1>3. /\ tree' = [tree EXCEPT ![u] = x] /\ UNCHANGED <<source, time, stamp, overlap>>
  BY DEF Acquire, history
<1> HIDE DEF x
<1>4. WorldOk' /\ Fades /\ Keeps
  BY <1>1, <1>2, <1>3, Marked
<1>5. Turns(s, "locked", u, fp[s], jvm[s])
  <2>1. s \in alive
    BY <1>1 DEF Acquire, ServersOk
  <2> QED BY <1>1, <2>1, ServerTypes DEF Acquire, Turns, Phases
<1>6. ServersOk' /\ \A t \in Server : Calm(t)
  BY <1>1, <1>5, TurningKeeps
<1> QED BY <1>3, <1>4, <1>6, FadingKeeps

---------------------------------------------------------------------------
(* A request is sent, and a fingerprint recorded. *)

LEMMA FingerprintTypes ==
  ASSUME WorldOk, NEW s \in Server, NEW u \in Unit
  PROVE  /\ Fingerprint(s, u) \in Inputs /\ Fingerprint(s, u) # None
         /\ Past(Fingerprint(s, u), u)
<1>1. source[u] \in Nat /\ \A x \in Dir : time[x] \in Nat /\ time[x] <= stamp
  BY DEF WorldOk
<1>2. \A dirs : /\ Times(dirs) \in [Dir -> Nat \cup {None}]
                /\ \A x \in Dir : Times(dirs)[x] \in {None, time[x]}
  BY <1>1 DEF Times
<1>3. Fingerprint(s, u) \in Inputs
  BY <1>1, <1>2 DEF Fingerprint, Inputs
<1>4. Past(Fingerprint(s, u), u)
  BY <1>1, <1>2 DEF Fingerprint, Past
<1> QED BY <1>3, <1>4, NoneAssumption

LEMMA SendKeeps ==
  ASSUME Inv, NEW s \in Server, NEW u \in Unit, cur[s] = u, Send(s, u)
  PROVE  Inv'
<1> DEFINE f == Fingerprint(s, u)
           j == [step |-> "compile", unit |-> u]
<1>1. WorldOk /\ ServersOk /\ f \in Inputs /\ Past(f, u)
  BY FingerprintTypes DEF Inv
<1>2. /\ UNCHANGED <<source, tree, time, stamp, cur, alive>> /\ (~overlap' => ~overlap)
      /\ overlap' \in BOOLEAN /\ phase[s] = "process"
  BY <1>1 DEF Send, disk, WorldOk
<1>3. /\ fp' = [fp EXCEPT ![s] = f] /\ jvm' = [jvm EXCEPT ![s] = j]
      /\ phase' = [phase EXCEPT ![s] = "waiting"] /\ j \in Worker
  BY DEF Send, Worker, Steps
<1>4. /\ fp'[s] = f /\ jvm'[s] = j /\ phase'[s] = "waiting"
      /\ \A t \in Server \ {s} : fp'[t] = fp[t] /\ jvm'[t] = jvm[t] /\ phase'[t] = phase[t]
  BY <1>1, <1>3 DEF ServersOk
<1>5. PastNext(f, u)
  BY <1>1, <1>2 DEF Past, PastNext
<1> HIDE DEF f
<1>6. ServersOk'
  BY <1>1, <1>2, <1>3 DEF ServersOk, Phases, Perhaps
<1>7. WorldOk' /\ Fades /\ Keeps
  <2>1. WorldOk'
    BY <1>1, <1>2 DEF WorldOk
  <2>2. \A v \in Unit : source[v] \in Nat
    BY <1>1 DEF WorldOk
  <2> QED BY <1>2, <2>1, <2>2 DEF Fades, Keeps
<1>8. \A t \in Server \ {s} : Calm(t)
  BY <1>2, <1>4 DEF Calm, Busy
<1>9. WaitOk(s)'
  BY <1>1, <1>2, <1>4, <1>5, WaitNext
<1>10. WorkOk(s)'
  BY <1>4, WorkNext DEF Publishing
<1>11. \A t \in Server : WaitOk(t)' /\ WorkOk(t)'
  BY <1>2, <1>7, <1>8, <1>9, <1>10, CalmKeeps
<1>12. \A v \in Unit : ClassesOk(v)'
  <2>1. \A t \in Server : jvm'[t].step \in Publishing =>
                            jvm'[t].step = jvm[t].step /\ jvm'[t].unit = jvm[t].unit
    BY <1>4 DEF Publishing
  <2> QED BY <1>2, <1>6, <1>7, <2>1, FadingClasses
<1>13. \A v \in Unit : PersistedOk(v)'
  BY <1>2, <1>7, FadingPersisted
<1>14. Apart'
  <2>1. ~overlap' => \A t \in Server \ {s} : Busy(t) => jvm[t].unit # jvm'[s].unit
    <3>1. overlap' = (overlap \/ \E t \in Server \ {s} : Busy(t) /\ jvm[t].unit = u)
      BY DEF Send
    <3>2. jvm'[s].unit = u
      BY <1>4
    <3> HIDE DEF j
    <3> QED BY <3>1, <3>2, Zenon
  <2>2. \A t \in Server \ {s} : Busy(t)' => Busy(t) /\ jvm'[t].unit = jvm[t].unit
    BY <1>8 DEF Calm
  <2> QED BY <1>2, <2>1, <2>2, ApartNext DEF Inv
<1> QED BY <1>6, <1>7, <1>11, <1>12, <1>13, <1>14 DEF Inv

LEMMA SucceedKeeps ==
  ASSUME Inv, NEW s \in Server, NEW u \in Unit, cur[s] = u, Succeed(s, u)
  PROVE  Inv'
<1> DEFINE f == fp[s]
           x == [tree[u] EXCEPT !.persisted = f, !.failed = None]
<1>1. WorldOk /\ ServersOk /\ tree[u] \in Disk /\ f \in Perhaps
  BY DEF Inv, WorldOk, ServersOk
<1>2. /\ x \in Disk /\ x.generated = tree[u].generated /\ x.classes = tree[u].classes
      /\ x.stagedGenerated = tree[u].stagedGenerated /\ x.stagedClasses = tree[u].stagedClasses
      /\ x.persisted = f
  BY <1>1 DEF Disk, Perhaps
<1>3. /\ tree' = [tree EXCEPT ![u] = x] /\ UNCHANGED <<source, time, stamp, overlap>>
      /\ Drop(s, u) /\ jvm' = [jvm EXCEPT ![s] = Idle]
      /\ phase[s] = "waiting" /\ jvm[s].step = "ok"
  BY DEF Succeed, Leave, history
<1> HIDE DEF x
<1>4. WorldOk' /\ Fades
  BY <1>1, <1>2, <1>3, Marked
<1>5. ServersOk' /\ \A t \in Server : Calm(t)
  <2>1. LeavingWith(s, u, Idle)
    BY <1>1, <1>3, ServerTypes DEF LeavingWith
  <2> QED BY <1>1, <2>1, LeavingTurns, TurningKeeps
<1>6. \A t \in Server : WaitOk(t)' /\ WorkOk(t)'
  BY <1>3, <1>4, <1>5, CalmKeeps
<1>7. \A v \in Unit : ClassesOk(v)'
  <2>1. \A t \in Server : jvm'[t].step \in Publishing =>
                            jvm'[t].step = jvm[t].step /\ jvm'[t].unit = jvm[t].unit
    BY <1>5 DEF Calm, Publishing, Busy
  <2> QED BY <1>3, <1>4, <1>5, <2>1, FadingClasses
<1>8. \A v \in Unit \ {u} : tree'[v] = tree[v]
  BY <1>1, <1>3 DEF WorldOk
<1>9. PersistedOk(u)'
  <2>1. tree'[u].persisted = f
    BY <1>1, <1>2, <1>3 DEF WorldOk
  <2>2. f \in Inputs /\ Past(f, u)
    BY <1>3 DEF Inv, WaitOk
  <2>3. ~overlap => StagedFit(f, u) /\ GeneratedFit(f, u) /\ ClassesFit(f, u)
    BY <1>3 DEF Inv, WorkOk
  <2>4. PastNext(f, u) /\ (ValidNext(f, u) => Valid(f, u))
    BY <1>4, <2>2, FadingBackward DEF Backward
  <2>5. overlap' = overlap
    BY <1>3
  <2> HIDE DEF f
  <2>6. ~overlap' => StagedNext(f, u) /\ GeneratedNext(f, u) /\ ClassesNext(f, u)
    BY <1>4, <2>3, <2>4, <2>5, FadingFits
  <2> QED BY <2>1, <2>4, <2>6, PersistedNext
<1>10. ASSUME NEW v \in Unit \ {u}
       PROVE  PersistedOk(v)'
  <2> DEFINE g == tree[v].persisted
  <2>1. g \in Perhaps /\ tree'[v].persisted = g
    BY <1>1, <1>8 DEF WorldOk, Disk
  <2>2. CASE g = None
    BY <2>1, <2>2, PersistedNext
  <2>3. CASE g # None
    <3>1. /\ g \in Inputs /\ Past(g, v)
          /\ ~overlap => StagedFit(g, v) /\ GeneratedFit(g, v) /\ ClassesFit(g, v)
      BY <2>1, <2>3 DEF Inv, PersistedOk, Perhaps
    <3>2. PastNext(g, v) /\ (ValidNext(g, v) => Valid(g, v))
      BY <1>4, <3>1, FadingBackward DEF Backward
    <3> HIDE DEF g
    <3> QED BY <1>3, <1>4, <2>1, <3>1, <3>2, FadingFits, PersistedNext
  <2> QED BY <2>2, <2>3
<1>11. Apart'
  BY <1>3, <1>5, ApartNext DEF Inv, Calm
<1> QED BY <1>4, <1>5, <1>6, <1>7, <1>9, <1>10, <1>11 DEF Inv

---------------------------------------------------------------------------
(* The worker. *)

\* It makes x of the outputs of u, whose directory y is now of time n.
Effect(s, u, y, n, x, m) ==
  /\ Busy(s) /\ jvm[s].unit = u
  /\ y \in Dir /\ y[1] = u /\ x \in Disk /\ m \in Steps \ {"off", "idle"}
  /\ \/ n = 0 /\ stamp' = stamp
     \/ n = stamp + 1 /\ stamp' = stamp + 1
  /\ tree' = [tree EXCEPT ![u] = x] /\ x.persisted = tree[u].persisted
  /\ time' = [time EXCEPT ![y] = n]
  /\ jvm' = [jvm EXCEPT ![s].step = m]
  /\ UNCHANGED <<source, overlap, phase, cur, fp, alive>>

LEMMA EffectFrame ==
  ASSUME WorldOk, ServersOk, NEW s \in Server, NEW u \in Unit, NEW y, NEW n, NEW x, NEW m,
         Effect(s, u, y, n, x, m)
  PROVE  /\ WorldOk' /\ ServersOk'
         /\ tree'[u] = x /\ \A v \in Unit \ {u} : tree'[v] = tree[v]
         /\ time'[y] = n /\ \A z \in Dir \ {y} : time'[z] = time[z]
         /\ jvm'[s].step = m /\ jvm'[s].unit = u /\ \A t \in Server \ {s} : jvm'[t] = jvm[t]
<1>1. tree' \in [Unit -> Disk] /\ tree'[u] = x /\ \A v \in Unit \ {u} : tree'[v] = tree[v]
  BY DEF WorldOk, Effect
<1>2. stamp \in Nat /\ stamp' \in Nat /\ n \in Nat /\ n <= stamp' /\ stamp <= stamp'
  BY DEF WorldOk, Effect
<1>3. y \in Dir
  BY DEF Effect
<1>4. /\ time' \in [Dir -> Nat] /\ time'[y] = n
      /\ \A z \in Dir \ {y} : time'[z] = time[z]
  BY <1>2, <1>3 DEF WorldOk, Effect
<1>5. ASSUME NEW z \in Dir
      PROVE  time'[z] <= stamp'
  <2>1. time[z] \in Nat /\ time[z] <= stamp
    BY DEF WorldOk
  <2> QED BY <1>2, <1>4, <2>1
<1>6. WorldOk'
  BY <1>1, <1>2, <1>4, <1>5 DEF WorldOk, Effect
<1>7. /\ jvm' \in [Server -> Worker] /\ jvm'[s].step = m /\ jvm'[s].unit = u
      /\ \A t \in Server \ {s} : jvm'[t] = jvm[t]
  BY DEF ServersOk, Worker, Effect
<1>8. ServersOk'
  BY <1>7 DEF ServersOk, Effect
<1> QED BY <1>1, <1>4, <1>6, <1>7, <1>8

\* What a step of the worker must see to.
AllFit(f, u) == StagedFit(f, u) /\ GeneratedFit(f, u) /\ ClassesFit(f, u)
AllNext(f, u) == StagedNext(f, u) /\ GeneratedNext(f, u) /\ ClassesNext(f, u)
Goes(step, f, u) ==
  /\ step \in Publishing \cup {"ok"} => StagedFit(f, u)
  /\ step \in {"cleanClasses", "moveClasses", "ok"} => GeneratedFit(f, u)
  /\ step = "ok" => ClassesFit(f, u)
GoesNext(step, f, u) ==
  /\ step \in Publishing \cup {"ok"} => StagedNext(f, u)
  /\ step \in {"cleanClasses", "moveClasses", "ok"} => GeneratedNext(f, u)
  /\ step = "ok" => ClassesNext(f, u)
SeenTo(s, u, m) ==
  \A f \in Inputs : Past(f, u) /\ ~overlap =>
    /\ AllFit(f, u) => AllNext(f, u)
    /\ Goes(jvm[s].step, f, u) => GoesNext(m, f, u)

LEMMA SameFits ==
  ASSUME NEW u \in Unit, tree'[u] = tree[u], NEW f, ValidNext(f, u) => Valid(f, u)
  PROVE  /\ AllFit(f, u) => AllNext(f, u)
         /\ \A step : Goes(step, f, u) => GoesNext(step, f, u)
<1>1. /\ StagedFit(f, u) => StagedNext(f, u)
      /\ GeneratedFit(f, u) => GeneratedNext(f, u)
      /\ ClassesFit(f, u) => ClassesNext(f, u)
  BY DEF StagedFit, StagedNext, GeneratedFit, GeneratedNext, ClassesFit, ClassesNext,
         Fits, FitsNext
<1> QED BY <1>1 DEF AllFit, AllNext, Goes, GoesNext

LEMMA EffectKeeps ==
  ASSUME Inv, NEW s \in Server, NEW u \in Unit, NEW y, NEW n, NEW x, NEW m,
         Effect(s, u, y, n, x, m), Backward, ClassesOk(u)', SeenTo(s, u, m)
  PROVE  Inv'
<1>1. WorldOk /\ ServersOk /\ UNCHANGED <<source, overlap, phase, cur, fp, alive>>
      /\ Busy(s) /\ jvm[s].unit = u
  BY DEF Inv, Effect
<1>2. /\ WorldOk' /\ ServersOk'
      /\ tree'[u] = x /\ \A v \in Unit \ {u} : tree'[v] = tree[v]
      /\ time'[y] = n /\ \A z \in Dir \ {y} : time'[z] = time[z]
      /\ jvm'[s].step = m /\ jvm'[s].unit = u /\ \A t \in Server \ {s} : jvm'[t] = jvm[t]
  BY <1>1, EffectFrame
<1>3. ASSUME NEW v \in Unit \ {u}
      PROVE  ClassesOk(v)'
  <2>1. /\ time'[<<v, "generated">>] = time[<<v, "generated">>]
        /\ time'[<<v, "partial">>] = time[<<v, "partial">>]
    <3>1. <<v, "generated">> # y /\ <<v, "partial">> # y
      BY DEF Effect
    <3> QED BY <1>2, <3>1, Directories
  <2>2. \A t \in Server : jvm'[t].step \in Publishing =>
                            jvm'[t].unit = u \/ jvm'[t] = jvm[t]
    BY <1>2
  <2>3. ClassesOk(v)
    BY DEF Inv
  <2> QED BY <1>1, <1>2, <2>1, <2>2, <2>3 DEF ClassesOk, Compiles
<1>4. ASSUME NEW t \in Server
      PROVE  WaitOk(t)'
  <2> DEFINE f == fp[t]
             v == cur[t]
  <2>1. phase[t] = "waiting" => v \in Unit /\ jvm[t].unit = v /\ f \in Inputs /\ Past(f, v)
    BY DEF Inv, WaitOk
  <2>2. jvm'[t].unit = jvm[t].unit
    BY <1>1, <1>2
  <2>3. phase[t] = "waiting" => PastNext(f, v)
    BY <2>1 DEF Backward
  <2> HIDE DEF f, v
  <2>4. cur'[t] = v /\ fp'[t] = f
    BY <1>1 DEF f, v
  <2> QED BY <1>1, <2>1, <2>2, <2>3, <2>4, WaitNext
<1>5. ASSUME NEW t \in Server
      PROVE  WorkOk(t)'
  <2>1. CASE overlap \/ phase[t] # "waiting"
    BY <1>1, <2>1 DEF WorkOk
  <2>2. CASE ~overlap /\ phase[t] = "waiting"
    <3> DEFINE f == fp[t]
               v == cur[t]
    <3>1. /\ v \in Unit /\ jvm[t].unit = v /\ f \in Inputs /\ Past(f, v)
          /\ Goes(jvm[t].step, f, v) /\ (ValidNext(f, v) => Valid(f, v))
      BY <2>2 DEF Inv, WaitOk, WorkOk, Goes, Backward
    <3>2. GoesNext(jvm'[t].step, f, v)
      <4>1. CASE t = s
        BY <1>1, <1>2, <2>2, <3>1, <4>1 DEF SeenTo
      <4>2. CASE t # s /\ v # u
        BY <1>2, <3>1, <4>2, SameFits
      <4>3. CASE t # s /\ v = u
        <5>1. ~Busy(t)
          BY <1>1, <2>2, <3>1, <4>3 DEF Inv, Apart
        <5>2. jvm'[t].step \in {"off", "idle"}
          BY <1>2, <4>3, <5>1 DEF Busy
        <5> QED BY <5>2 DEF GoesNext, Publishing
      <4> QED BY <4>1, <4>2, <4>3
    <3>3. cur'[t] = v /\ fp'[t] = f
      BY <1>1
    <3> HIDE DEF f, v
    <3> QED BY <3>2, <3>3, WorkNext DEF GoesNext
  <2> QED BY <2>1, <2>2
<1>6. ASSUME NEW v \in Unit
      PROVE  PersistedOk(v)'
  <2> DEFINE f == tree[v].persisted
  <2>1. tree'[v].persisted = f /\ f \in Perhaps
    <3>1. tree'[v].persisted = f
      BY <1>2 DEF Effect
    <3>2. tree[v] \in Disk
      BY <1>1 DEF WorldOk
    <3> QED BY <3>1, <3>2 DEF Disk
  <2>2. CASE f = None
    BY <2>1, <2>2, PersistedNext
  <2>3. CASE f # None
    <3>1. f \in Inputs /\ Past(f, v) /\ (~overlap => AllFit(f, v))
      BY <2>1, <2>3 DEF Inv, PersistedOk, AllFit, Perhaps
    <3>2. PastNext(f, v) /\ (ValidNext(f, v) => Valid(f, v))
      BY <3>1 DEF Backward
    <3> HIDE DEF f
    <3>3. ~overlap => AllNext(f, v)
      <4>1. CASE v = u
        BY <3>1, <4>1 DEF SeenTo
      <4>2. CASE v # u
        BY <1>2, <3>1, <3>2, <4>2, SameFits
      <4> QED BY <4>1, <4>2
    <3> QED BY <1>1, <2>1, <3>2, <3>3, PersistedNext DEF AllNext
  <2> QED BY <2>2, <2>3
<1>7. Apart'
  BY <1>1, <1>2, ApartNext DEF Inv, Busy
<1> QED BY <1>2, <1>3, <1>4, <1>5, <1>6, <1>7 DEF Inv

\* What is compiled now fits whatever is valid now: dependencies that are compiled
\* have no partial classes.
LEMMA NewFits ==
  ASSUME Inv, ~overlap, NEW u \in Unit, NEW f \in Inputs, NEW dirs, Valid(f, u),
         NEW g, g = Seen([own |-> source[u], at |-> Times(dirs)], u), Alike(g, Seen(f, u))
  PROVE  g = Seen(f, u)
<1> DEFINE h == Seen(f, u)
<1>1. /\ g.own = source[u] /\ h.own = source[u]
      /\ g = [own |-> g.own, at |-> [x \in Dir |-> g.at[x]]]
      /\ h = [own |-> h.own, at |-> [x \in Dir |-> h.at[x]]]
  BY DEF Seen, Valid
<1>2. \A x \in Dir : /\ h.at[x] = IF x[1] \in DependsOn[u] THEN f.at[x] ELSE None
                     /\ x[1] \notin DependsOn[u] => g.at[x] = None
                     /\ g.at[x] \in {None, time[x]}
  BY DEF Seen, Times
<1>3. \A x \in Dir : g.at[x] # None <=> h.at[x] # None
  BY DEF Alike, Named
<1> HIDE DEF h
<1>4. ASSUME NEW x \in Dir
      PROVE  g.at[x] = h.at[x]
  <2>1. CASE h.at[x] = None
    BY <1>3, <2>1
  <2>2. CASE h.at[x] # None
    <3>1. x[1] \in DependsOn[u] /\ h.at[x] = f.at[x] /\ g.at[x] = time[x]
      BY <1>2, <1>3, <2>2
    <3>2. time[<<x[1], "partial">>] = 0
      <4>1. x[1] \in Unit /\ Current(x[1]) /\ ClassesOk(x[1])
        BY <3>1, Kinds DEF Valid, Inv
      <4>2. tree[x[1]].classes.own \in Nat /\ source[x[1]] \in Nat
        BY <4>1 DEF Inv, WorldOk, Disk, Perhaps, Inputs, Current
      <4> QED BY <4>1, <4>2 DEF Current, ClassesOk
    <3>3. f.at[x] = time[x]
      BY <2>2, <3>1, <3>2, Kinds DEF Valid
    <3> QED BY <3>1, <3>3
  <2> QED BY <2>1, <2>2
<1>5. g = h
  BY <1>1, <1>4, Zenon
<1> QED BY <1>5 DEF h

LEMMA EffectBackward ==
  ASSUME Inv, NEW s \in Server, NEW u \in Unit, NEW y, NEW n, NEW x, NEW m,
         Effect(s, u, y, n, x, m),
         \/ x.classes = None
         \/ x.classes = tree[u].classes /\ y # <<u, "classes">>
         \/ y = <<u, "classes">> /\ n = stamp + 1
  PROVE  Backward
<1>1. WorldOk /\ ServersOk
  BY DEF Inv
<1>2. /\ WorldOk' /\ tree'[u] = x /\ \A v \in Unit \ {u} : tree'[v] = tree[v]
      /\ time'[y] = n /\ \A z \in Dir \ {y} : time'[z] = time[z]
  BY <1>1, EffectFrame
<1>3. /\ stamp <= stamp' /\ \A v \in Unit : source[v] <= source'[v]
      /\ stamp \in Nat /\ (n = 0 \/ n = stamp + 1) /\ (n # 0 => n > stamp) /\ y[1] = u
  BY <1>1 DEF WorldOk, Effect
<1>4. ASSUME NEW z \in Dir
      PROVE  time'[z] \in {time[z], 0} \/ time'[z] > stamp
  BY <1>2, <1>3
<1>5. ASSUME NEW v \in Unit
      PROVE  \/ tree'[v].classes = None
             \/ /\ tree'[v].classes = tree[v].classes
                /\ time'[<<v, "classes">>] = time[<<v, "classes">>]
             \/ time'[<<v, "classes">>] > stamp
  <2>1. CASE v # u
    <3>1. <<v, "classes">> # y
      BY <1>3, <2>1
    <3> QED BY <1>2, <2>1, <3>1, Directories
  <2>2. CASE v = u
    <3>1. CASE y = <<u, "classes">> /\ n = stamp + 1
      BY <1>2, <1>3, <2>2, <3>1
    <3>2. CASE x.classes = tree[u].classes /\ y # <<u, "classes">>
      BY <1>2, <2>2, <3>2, Directories
    <3>3. CASE x.classes = None
      BY <1>2, <2>2, <3>3
    <3> QED BY <3>1, <3>2, <3>3
  <2> QED BY <2>1, <2>2
<1>6. Later
  BY <1>3, <1>4, <1>5, Directories DEF Later
<1> QED BY <1>1, <1>2, <1>6, NeverAgain DEF Inv

\* The step of a worker at its unit.
Working(s, u) ==
  /\ jvm[s].unit = u
  /\ Compile(s, u) \/ CleanGenerated(s, u) \/ MoveGenerated(s, u)
     \/ CleanClasses(s, u) \/ MoveClasses(s, u)
  /\ UNCHANGED <<source, lock, server, bounds, history>>

LEMMA WorkingTypes ==
  ASSUME Inv, NEW s \in Server, NEW u \in Unit, Working(s, u)
  PROVE  /\ WorldOk /\ ServersOk /\ tree[u] \in Disk /\ ClassesOk(u)
         /\ source[u] \in Nat /\ stamp \in Nat
         /\ Busy(s) /\ jvm[s].unit = u /\ UNCHANGED <<source, overlap, phase, cur, fp, alive>>
         /\ {"error", "ok", "cleanGenerated", "moveGenerated", "cleanClasses", "moveClasses"}
              \subseteq Steps \ {"off", "idle"}
         /\ tree[u].classes \in Perhaps
         /\ ~overlap => \A t \in Server \ {s} : Busy(t) => jvm[t].unit # u
<1>1. WorldOk /\ ServersOk /\ tree[u] \in Disk /\ ClassesOk(u) /\ Apart
  BY DEF Inv, WorldOk
<1>2. Busy(s) /\ jvm[s].unit = u /\ UNCHANGED <<source, overlap, phase, cur, fp, alive>>
  BY DEF Working, Busy, Compile, CleanGenerated, MoveGenerated, CleanClasses, MoveClasses,
         server, run, history
<1> QED BY <1>1, <1>2 DEF WorldOk, Disk, Apart, Steps, Publishing

LEMMA WorkingTree ==
  ASSUME Inv, NEW u \in Unit
  PROVE  /\ tree[u] \in Disk /\ None \in Perhaps
         /\ tree[u].stagedGenerated \in Perhaps /\ tree[u].stagedClasses \in Perhaps
BY DEF Inv, WorldOk, Disk, Perhaps

\* Sources with errors are newer than the classes that are there.
LEMMA CompileFails ==
  ASSUME Inv, NEW s \in Server, NEW u \in Unit, Working(s, u), Compile(s, u),
         <<u, source[u]>> \in Broken
  PROVE  Inv'
<1> DEFINE x == [tree[u] EXCEPT !.state = TRUE, !.stagedGenerated = None, !.stagedClasses = None]
<1>1. /\ tree' = [tree EXCEPT ![u] = x] /\ stamp' = stamp + 1
      /\ time' = [time EXCEPT ![<<u, "partial">>] = stamp + 1]
      /\ jvm' = [jvm EXCEPT ![s].step = "error"] /\ jvm[s].step = "compile"
  BY DEF Compile
<1>2. /\ x \in Disk /\ x.generated = tree[u].generated /\ x.classes = tree[u].classes
      /\ x.stagedGenerated = None /\ x.stagedClasses = None /\ x.persisted = tree[u].persisted
  BY WorkingTree DEF Disk
<1> HIDE DEF x
<1>3. Effect(s, u, <<u, "partial">>, stamp + 1, x, "error")
  BY <1>1, <1>2, WorkingTypes, Directories DEF Effect
<1>4. Backward
  BY <1>2, <1>3, EffectBackward
<1>5. /\ tree'[u] = x /\ time'[<<u, "generated">>] = time[<<u, "generated">>]
      /\ jvm'[s].step = "error" /\ \A t \in Server \ {s} : jvm'[t] = jvm[t]
  <2>1. WorldOk /\ ServersOk
    BY WorkingTypes
  <2>2. /\ tree'[u] = x /\ time'[<<u, "partial">>] = stamp + 1 /\ \A z \in Dir \ {<<u, "partial">>} : time'[z] = time[z]
         /\ jvm'[s].step = "error" /\ \A t \in Server \ {s} : jvm'[t] = jvm[t]
    BY <1>3, <2>1, EffectFrame
  <2>3. <<u, "generated">> \in Dir \ {<<u, "partial">>}
    BY Directories
  <2> QED BY <2>2, <2>3
<1>6. ClassesOk(u)'
  <2>1. tree[u].classes # None => tree[u].classes.own < source[u]
    <3> SUFFICES ASSUME tree[u].classes # None
                 PROVE  tree[u].classes.own < source[u]
      OBVIOUS
    <3>1. tree[u].classes.own \in Nat /\ Compiles(tree[u].classes, u)
      BY WorkingTypes DEF Perhaps, Inputs, ClassesOk
    <3> QED BY <3>1, WorkingTypes DEF Compiles
  <2>2. ~overlap => \A t \in Server : jvm'[t].step \in Publishing => jvm'[t].unit # u
    BY <1>5, WorkingTypes DEF Publishing, Busy
  <2>3. ClassesOk(u) /\ source' = source /\ overlap' = overlap
    BY WorkingTypes
  <2> QED BY <1>2, <1>5, <2>1, <2>2, <2>3 DEF ClassesOk, Compiles
<1>7. SeenTo(s, u, "error")
  <2> SUFFICES ASSUME NEW f \in Inputs, Past(f, u)
               PROVE  /\ AllFit(f, u) => AllNext(f, u)
                      /\ GoesNext("error", f, u)
    BY DEF SeenTo
  <2>1. ValidNext(f, u) => Valid(f, u)
    BY <1>4 DEF Backward
  <2>2. AllFit(f, u) => AllNext(f, u)
    BY <1>2, <1>5, <2>1 DEF AllFit, AllNext, StagedFit, StagedNext, GeneratedFit, GeneratedNext,
                            ClassesFit, ClassesNext, Fits, FitsNext
  <2> QED BY <2>2 DEF GoesNext, Publishing
<1> QED BY <1>3, <1>4, <1>6, <1>7, EffectKeeps

LEMMA CompileSucceeds ==
  ASSUME Inv, NEW s \in Server, NEW u \in Unit, Working(s, u), Compile(s, u),
         <<u, source[u]>> \notin Broken
  PROVE  Inv'
<1> DEFINE g == Seen([own |-> source[u], at |-> Times(Named(fp[s]))], u)
           x == [tree[u] EXCEPT !.state = TRUE, !.stagedGenerated = g, !.stagedClasses = g]
<1>1. /\ tree' = [tree EXCEPT ![u] = x] /\ stamp' = stamp
      /\ time' = [time EXCEPT ![<<u, "partial">>] = 0]
      /\ jvm' = [jvm EXCEPT ![s].step = "cleanGenerated"] /\ jvm[s].step = "compile"
  BY DEF Compile
<1>2. g \in Inputs /\ g.own = source[u]
  <2>1. \A y \in Dir : Times(Named(fp[s]))[y] \in Nat \cup {None}
    BY WorkingTypes DEF Times, WorldOk
  <2> QED BY <2>1, WorkingTypes DEF Seen, Inputs
<1>3. \A f \in Inputs : ~overlap /\ Valid(f, u) /\ Alike(g, Seen(f, u)) => g = Seen(f, u)
  BY NewFits
<1> HIDE DEF g
<1>4. /\ x \in Disk /\ x.generated = tree[u].generated /\ x.classes = tree[u].classes
      /\ x.stagedGenerated = g /\ x.stagedClasses = g /\ x.persisted = tree[u].persisted
  BY <1>2, WorkingTree DEF Disk, Perhaps
<1> HIDE DEF x
<1>5. Effect(s, u, <<u, "partial">>, 0, x, "cleanGenerated")
  BY <1>1, <1>4, WorkingTypes, Directories DEF Effect
<1>6. Backward
  BY <1>4, <1>5, EffectBackward
<1>7. /\ tree'[u] = x /\ time'[<<u, "generated">>] = time[<<u, "generated">>]
      /\ time'[<<u, "partial">>] = 0
  <2>1. WorldOk /\ ServersOk
    BY WorkingTypes
  <2>2. /\ tree'[u] = x /\ time'[<<u, "partial">>] = 0 /\ \A z \in Dir \ {<<u, "partial">>} : time'[z] = time[z]
    BY <1>5, <2>1, EffectFrame
  <2> QED BY <2>2, Directories
<1>8. ClassesOk(u)'
  <2>1. ClassesOk(u) /\ source' = source /\ overlap' = overlap /\ g.own <= source[u]
    BY <1>2, WorkingTypes
  <2>2. tree'[u].stagedClasses.own = source[u] /\ tree'[u].stagedClasses = g
    BY <1>2, <1>4, <1>7
  <2> QED BY <1>2, <1>4, <1>7, <2>1, <2>2 DEF ClassesOk, Compiles
<1>9. SeenTo(s, u, "cleanGenerated")
  <2> SUFFICES ASSUME NEW f \in Inputs, Past(f, u), ~overlap
               PROVE  /\ AllFit(f, u) => AllNext(f, u)
                      /\ GoesNext("cleanGenerated", f, u)
    BY DEF SeenTo
  <2>1. ValidNext(f, u) => Valid(f, u)
    BY <1>6 DEF Backward
  <2>2. StagedNext(f, u)
    BY <1>3, <1>4, <1>7, <2>1 DEF StagedNext, FitsNext
  <2>3. AllFit(f, u) => AllNext(f, u)
    BY <1>4, <1>7, <2>1, <2>2 DEF AllFit, AllNext, GeneratedFit, GeneratedNext,
                                  ClassesFit, ClassesNext, Fits, FitsNext
  <2> QED BY <2>2, <2>3 DEF GoesNext
<1> QED BY <1>5, <1>6, <1>8, <1>9, EffectKeeps

LEMMA CleanGeneratedKeeps ==
  ASSUME Inv, NEW s \in Server, NEW u \in Unit, Working(s, u), CleanGenerated(s, u)
  PROVE  Inv'
<1> DEFINE x == [tree[u] EXCEPT !.generated = None]
<1>1. /\ tree' = [tree EXCEPT ![u] = x] /\ stamp' = stamp
      /\ time' = [time EXCEPT ![<<u, "generated">>] = 0]
      /\ jvm' = [jvm EXCEPT ![s].step = "moveGenerated"] /\ jvm[s].step = "cleanGenerated"
  BY DEF CleanGenerated
<1>2. /\ x \in Disk /\ x.generated = None /\ x.classes = tree[u].classes
      /\ x.stagedGenerated = tree[u].stagedGenerated /\ x.stagedClasses = tree[u].stagedClasses
      /\ x.persisted = tree[u].persisted
  BY WorkingTree DEF Disk
<1> HIDE DEF x
<1>3. Effect(s, u, <<u, "generated">>, 0, x, "moveGenerated")
  BY <1>1, <1>2, WorkingTypes, Directories DEF Effect
<1>4. Backward
  BY <1>2, <1>3, EffectBackward
<1>5. /\ tree'[u] = x /\ time'[<<u, "partial">>] = time[<<u, "partial">>]
      /\ time'[<<u, "generated">>] = 0
  <2>1. WorldOk /\ ServersOk
    BY WorkingTypes
  <2>2. /\ tree'[u] = x /\ time'[<<u, "generated">>] = 0 /\ \A z \in Dir \ {<<u, "generated">>} : time'[z] = time[z]
    BY <1>3, <2>1, EffectFrame
  <2> QED BY <2>2, Directories
<1>6. ClassesOk(u)'
  <2>1. ~overlap => time[<<u, "partial">>] = 0
    <3>1. jvm[s].step \in Publishing /\ jvm[s].unit = u /\ ClassesOk(u)
      BY <1>1, WorkingTypes DEF Publishing
    <3> QED BY <3>1 DEF ClassesOk
  <2> QED BY <1>2, <1>5, <2>1, WorkingTypes DEF ClassesOk, Compiles
<1>7. SeenTo(s, u, "moveGenerated")
  <2> SUFFICES ASSUME NEW f \in Inputs, Past(f, u)
               PROVE  /\ AllFit(f, u) => AllNext(f, u)
                      /\ StagedFit(f, u) => StagedNext(f, u)
    BY <1>1 DEF SeenTo, Goes, GoesNext, Publishing
  <2>1. ValidNext(f, u) => Valid(f, u)
    BY <1>4 DEF Backward
  <2> QED BY <1>2, <1>5, <2>1 DEF AllFit, AllNext, StagedFit, StagedNext, GeneratedNext,
                                  ClassesFit, ClassesNext, Fits, FitsNext
<1> QED BY <1>3, <1>4, <1>6, <1>7, EffectKeeps

LEMMA CleanClassesKeeps ==
  ASSUME Inv, NEW s \in Server, NEW u \in Unit, Working(s, u), CleanClasses(s, u)
  PROVE  Inv'
<1> DEFINE x == [tree[u] EXCEPT !.classes = None]
<1>1. /\ tree' = [tree EXCEPT ![u] = x] /\ stamp' = stamp
      /\ time' = [time EXCEPT ![<<u, "classes">>] = 0]
      /\ jvm' = [jvm EXCEPT ![s].step = "moveClasses"] /\ jvm[s].step = "cleanClasses"
  BY DEF CleanClasses
<1>2. /\ x \in Disk /\ x.generated = tree[u].generated /\ x.classes = None
      /\ x.stagedGenerated = tree[u].stagedGenerated /\ x.stagedClasses = tree[u].stagedClasses
      /\ x.persisted = tree[u].persisted
  BY WorkingTree DEF Disk
<1> HIDE DEF x
<1>3. Effect(s, u, <<u, "classes">>, 0, x, "moveClasses")
  BY <1>1, <1>2, WorkingTypes, Directories DEF Effect
<1>4. Backward
  BY <1>2, <1>3, EffectBackward
<1>5. /\ tree'[u] = x /\ time'[<<u, "partial">>] = time[<<u, "partial">>]
      /\ time'[<<u, "generated">>] = time[<<u, "generated">>]
  BY <1>3, EffectFrame, WorkingTypes, Directories
<1>6. ClassesOk(u)'
  <2>1. ~overlap => time[<<u, "partial">>] = 0
    <3>1. jvm[s].step \in Publishing /\ jvm[s].unit = u /\ ClassesOk(u)
      BY <1>1, WorkingTypes DEF Publishing
    <3> QED BY <3>1 DEF ClassesOk
  <2> QED BY <1>2, <1>5, <2>1, WorkingTypes DEF ClassesOk, Compiles
<1>7. SeenTo(s, u, "moveClasses")
  <2> SUFFICES ASSUME NEW f \in Inputs, Past(f, u)
               PROVE  /\ AllFit(f, u) => AllNext(f, u)
                      /\ StagedFit(f, u) => StagedNext(f, u)
                      /\ GeneratedFit(f, u) => GeneratedNext(f, u)
    BY <1>1 DEF SeenTo, Goes, GoesNext, Publishing
  <2>1. ValidNext(f, u) => Valid(f, u)
    BY <1>4 DEF Backward
  <2> QED BY <1>2, <1>5, <2>1 DEF AllFit, AllNext, StagedFit, StagedNext, GeneratedFit,
                                  GeneratedNext, ClassesNext, Fits, FitsNext
<1> QED BY <1>3, <1>4, <1>6, <1>7, EffectKeeps

\* A directory cannot be moved.
LEMMA MoveFails ==
  ASSUME Inv, NEW s \in Server, NEW u \in Unit, Working(s, u),
         jvm' = [jvm EXCEPT ![s].step = "error"], UNCHANGED <<tree, time, stamp>>
  PROVE  Inv'
<1>1. /\ jvm' \in [Server -> Worker] /\ jvm'[s].step = "error" /\ jvm'[s].unit = jvm[s].unit
      /\ \A t \in Server \ {s} : jvm'[t] = jvm[t]
  BY WorkingTypes DEF ServersOk, Worker
<1>2. ServersOk'
  BY <1>1, WorkingTypes DEF ServersOk
<1>3. ASSUME NEW t \in Server
      PROVE  Calm(t)
  <2>1. CASE t = s
    BY <1>1, <2>1, WorkingTypes DEF Calm, Busy, Publishing
  <2>2. CASE t # s
    BY <1>1, <2>2, WorkingTypes DEF Calm, Busy
  <2> QED BY <2>1, <2>2
<1>4. WorldOk' /\ Fades /\ Keeps
  BY WorkingTypes, SameOutputs
<1> QED BY <1>2, <1>3, <1>4, WorkingTypes, FadingKeeps

LEMMA MoveGeneratedKeeps ==
  ASSUME Inv, NEW s \in Server, NEW u \in Unit, Working(s, u), MoveGenerated(s, u)
  PROVE  Inv'
<1> DEFINE x == [tree[u] EXCEPT !.generated = tree[u].stagedGenerated, !.stagedGenerated = None]
<1>1. CASE jvm' = [jvm EXCEPT ![s].step = "error"] /\ UNCHANGED <<tree, time, stamp>>
  BY <1>1, MoveFails
<1>2. CASE /\ tree' = [tree EXCEPT ![u] = x] /\ stamp' = stamp + 1
           /\ time' = [time EXCEPT ![<<u, "generated">>] = stamp + 1]
           /\ jvm' = [jvm EXCEPT ![s].step = "cleanClasses"] /\ tree[u].stagedGenerated # None
  <2>1. jvm[s].step = "moveGenerated"
    BY DEF MoveGenerated
  <2>2. /\ x \in Disk /\ x.generated = tree[u].stagedGenerated /\ x.classes = tree[u].classes
        /\ x.stagedGenerated = None /\ x.stagedClasses = tree[u].stagedClasses
        /\ x.persisted = tree[u].persisted
    BY WorkingTree DEF Disk
  <2> HIDE DEF x
  <2>3. Effect(s, u, <<u, "generated">>, stamp + 1, x, "cleanClasses")
    BY <1>2, <2>2, WorkingTypes, Directories DEF Effect
  <2>4. Backward
    BY <2>2, <2>3, EffectBackward
  <2>5. /\ tree'[u] = x /\ time'[<<u, "partial">>] = time[<<u, "partial">>]
        /\ time'[<<u, "generated">>] = stamp + 1
    <3>1. WorldOk /\ ServersOk
      BY WorkingTypes
    <3>2. /\ tree'[u] = x /\ time'[<<u, "generated">>] = stamp + 1 /\ \A z \in Dir \ {<<u, "generated">>} : time'[z] = time[z]
      BY <2>3, <3>1, EffectFrame
    <3> QED BY <3>2, Directories
  <2>6. ClassesOk(u)'
    <3>1. ~overlap => time[<<u, "partial">>] = 0
      <4>1. jvm[s].step \in Publishing /\ jvm[s].unit = u /\ ClassesOk(u)
        BY <2>1, WorkingTypes DEF Publishing
      <4> QED BY <4>1 DEF ClassesOk
    <3>2. stamp + 1 # 0 /\ (tree[u].stagedGenerated # None)
      BY <1>2, WorkingTypes
    <3>3. ClassesOk(u) /\ source' = source /\ overlap' = overlap
      BY WorkingTypes
    <3> QED BY <2>2, <2>5, <3>1, <3>2, <3>3 DEF ClassesOk, Compiles
  <2>7. SeenTo(s, u, "cleanClasses")
    <3> SUFFICES ASSUME NEW f \in Inputs, Past(f, u)
                 PROVE  /\ AllFit(f, u) => AllNext(f, u)
                        /\ StagedFit(f, u) => StagedNext(f, u) /\ GeneratedNext(f, u)
      BY <2>1 DEF SeenTo, Goes, GoesNext, Publishing
    <3>1. ValidNext(f, u) => Valid(f, u)
      BY <2>4 DEF Backward
    <3> QED BY <2>2, <2>5, <3>1 DEF AllFit, AllNext, StagedFit, StagedNext, GeneratedNext,
                                    ClassesFit, ClassesNext, Fits, FitsNext
  <2> QED BY <2>3, <2>4, <2>6, <2>7, EffectKeeps
<1> QED BY <1>1, <1>2 DEF MoveGenerated

LEMMA MoveClassesKeeps ==
  ASSUME Inv, NEW s \in Server, NEW u \in Unit, Working(s, u), MoveClasses(s, u)
  PROVE  Inv'
<1> DEFINE x == [tree[u] EXCEPT !.classes = tree[u].stagedClasses, !.stagedClasses = None,
                                !.state = TRUE]
<1>1. CASE jvm' = [jvm EXCEPT ![s].step = "error"] /\ UNCHANGED <<tree, time, stamp>>
  BY <1>1, MoveFails
<1>2. CASE /\ tree' = [tree EXCEPT ![u] = x] /\ stamp' = stamp + 1
           /\ time' = [time EXCEPT ![<<u, "classes">>] = stamp + 1]
           /\ jvm' = [jvm EXCEPT ![s].step = "ok"]
  <2>1. jvm[s].step = "moveClasses"
    BY DEF MoveClasses
  <2>2. /\ x \in Disk /\ x.generated = tree[u].generated /\ x.classes = tree[u].stagedClasses
        /\ x.stagedGenerated = tree[u].stagedGenerated /\ x.stagedClasses = None
        /\ x.persisted = tree[u].persisted
    BY WorkingTree DEF Disk
  <2> HIDE DEF x
  <2>3. Effect(s, u, <<u, "classes">>, stamp + 1, x, "ok")
    BY <1>2, <2>2, WorkingTypes, Directories DEF Effect
  <2>4. Backward
    BY <2>2, <2>3, EffectBackward
  <2>5. /\ tree'[u] = x /\ time'[<<u, "partial">>] = time[<<u, "partial">>]
        /\ time'[<<u, "generated">>] = time[<<u, "generated">>]
    BY <2>3, EffectFrame, WorkingTypes, Directories
  <2>6. ClassesOk(u)'
    <3>1. ~overlap => time[<<u, "partial">>] = 0
      <4>1. jvm[s].step \in Publishing /\ jvm[s].unit = u /\ ClassesOk(u)
        BY <2>1, WorkingTypes DEF Publishing
      <4> QED BY <4>1 DEF ClassesOk
    <3> QED BY <2>2, <2>5, <3>1, WorkingTypes DEF ClassesOk, Compiles
  <2>7. SeenTo(s, u, "ok")
    <3> SUFFICES ASSUME NEW f \in Inputs, Past(f, u)
                 PROVE  /\ AllFit(f, u) => AllNext(f, u)
                        /\ StagedFit(f, u) => StagedNext(f, u) /\ ClassesNext(f, u)
                        /\ GeneratedFit(f, u) => GeneratedNext(f, u)
      BY <2>1 DEF SeenTo, Goes, GoesNext, Publishing
    <3>1. ValidNext(f, u) => Valid(f, u)
      BY <2>4 DEF Backward
    <3> QED BY <2>2, <2>5, <3>1 DEF AllFit, AllNext, StagedFit, StagedNext, GeneratedFit,
                                    GeneratedNext, ClassesNext, Fits, FitsNext
  <2> QED BY <2>3, <2>4, <2>6, <2>7, EffectKeeps
<1> QED BY <1>1, <1>2 DEF MoveClasses

---------------------------------------------------------------------------
(* The whole invariant. *)

LEMMA InvInit ==
  ASSUME Init
  PROVE  Inv
<1>1. \A u \in Unit : tree[u] = NoTree
  BY DEF Init
<1>2. NoTree \in Disk
  BY DEF NoTree, Disk, Perhaps
<1>3. \A u \in Unit : /\ tree[u].generated = None /\ tree[u].classes = None
                      /\ tree[u].stagedClasses = None /\ tree[u].persisted = None
                      /\ time[<<u, "partial">>] = 0 /\ time[<<u, "generated">>] = 0
  BY <1>1, Directories DEF Init, NoTree
<1>4. WorldOk
  <2>1. tree \in [Unit -> Disk]
    BY <1>1, <1>2 DEF Init
  <2>2. time = [x \in Dir |-> 0] /\ stamp = 0
    BY DEF Init
  <2>3. time \in [Dir -> Nat] /\ \A x \in Dir : time[x] <= stamp
    BY <2>2
  <2>4. source \in [Unit -> Nat] /\ overlap \in BOOLEAN
    BY DEF Init
  <2> QED BY <2>1, <2>2, <2>3, <2>4 DEF WorldOk
<1>5. ServersOk
  <2>1. Off \in Worker
    BY DEF Off, Worker, Steps
  <2> QED BY <2>1 DEF Init, ServersOk, Phases, Perhaps
<1>6. \A s \in Server : phase[s] = "idle" /\ ~Busy(s)
  BY DEF Init, Busy, Off
<1>7. \A u \in Unit : ClassesOk(u) /\ PersistedOk(u)
  BY <1>3 DEF ClassesOk, PersistedOk
<1> QED BY <1>4, <1>5, <1>6, <1>7 DEF Inv, Apart, WaitOk, WorkOk

LEMMA InvStutter ==
  ASSUME Inv, UNCHANGED vars
  PROVE  Inv'
<1>1. UNCHANGED <<source, tree, time, stamp, overlap, phase, cur, fp, jvm, alive>>
  BY DEF vars, disk, server, run, history
<1>2. WorldOk' /\ Fades /\ Keeps
  BY <1>1, SameOutputs DEF Inv
<1> QED BY <1>1, <1>2, OutsideServers, FadingKeeps DEF Inv

LEMMA InvNext ==
  ASSUME Inv, Next
  PROVE  Inv'
<1>1. ASSUME NEW u \in Unit, Edit(u) \/ Delete(u)
      PROVE  Inv'
  BY <1>1, EditKeeps, DeleteKeeps
<1>2. ASSUME NEW s \in Server, ClearCache(s) \/ Kill(s) \/ WorkerDies(s) \/ PublishFails(s)
      PROVE  Inv'
  BY <1>2, ClearKeeps, KillKeeps, WorkerFails
<1>3. ASSUME NEW s \in Server, Going(s)
      PROVE  Inv'
  BY <1>3, GoingKeeps
<1>4. ASSUME NEW s \in Server, NEW u \in Unit, cur[s] = u, Leaving(s, u)
      PROVE  Inv'
  BY <1>4, LeavingKeeps
<1>5. ASSUME NEW s \in Server, ServerStep(s)
      PROVE  Inv'
  <2>1. ASSUME NEW u \in Unit, Acquire(s, u)
        PROVE  Inv'
    BY <2>1, AcquireKeeps
  <2>2. ASSUME NEW u \in Unit, cur[s] = u, Send(s, u) \/ Succeed(s, u)
        PROVE  Inv'
    BY <2>2, SendKeeps, SucceedKeeps
  <2> QED BY <1>3, <1>4, <1>5, <2>1, <2>2 DEF ServerStep, Going, Leaving
<1>6. ASSUME NEW s \in Server, WorkerStep(s)
      PROVE  Inv'
  <2>1. PICK u \in Unit : Working(s, u)
    BY <1>6 DEF WorkerStep, Working
  <2> QED BY <2>1, CompileFails, CompileSucceeds, CleanGeneratedKeeps, MoveGeneratedKeeps,
             CleanClassesKeeps, MoveClassesKeeps DEF Working
<1> QED BY <1>1, <1>2, <1>3, <1>4, <1>5, <1>6 DEF Next, Going, Leaving

\* The whole invariant: one worker is at a unit, unless two have met there; times and
\* versions never return; classes that stand beside those of a failed run are of older
\* sources; and what was made after a fingerprint was taken was made from what the
\* fingerprint stands for, as long as it is valid (native_backend.rs,
\* processor_worker.rs, and the publication of the annotation processor worker).
THEOREM ProcessorsInvariant == Spec => []Inv
BY InvInit, InvStutter, InvNext, PTL DEF Spec

\* What a server would take from the disk was made from the present inputs: the
\* fingerprint is persisted after the classes are published, under what was read
\* before the worker compiled (processor_worker.rs:79-136).
THEOREM ReuseIsFresh == Spec => []FreshReuse
<1>1. Inv => FreshReuse
  <2> SUFFICES ASSUME Inv, ~overlap, NEW s \in Server, NEW u \in Unit, Remembered(s, u),
                      Ready(s, u)
               PROVE  /\ Alike(tree[u].generated, Present(s, u)) => Made(s, u)
                      /\ tree[u].classes # None /\ Alike(tree[u].classes, Present(s, u))
                         => Compiled(s, u)
    BY DEF FreshReuse
  <2> DEFINE f == Fingerprint(s, u)
  <2>1. WorldOk /\ f \in Inputs /\ f # None /\ f = tree[u].persisted /\ f.own = source[u]
    BY FingerprintTypes DEF Inv, Remembered, Fingerprint
  <2>2. ASSUME NEW d \in DependsOn[u]
        PROVE  /\ Current(d) /\ f.at[<<d, "classes">>] = time[<<d, "classes">>]
               /\ f.at[<<d, "partial">>] \in {None, 0}
               /\ f.at[<<d, "generated">>] \in {None, time[<<d, "generated">>]} \ {0}
    <3>1. d \in Unit /\ ClassesOk(d) /\ Current(d) /\ time[<<d, "generated">>] # 0
      BY UnitAssumption DEF Inv, Ready, ClassesOk, Current
    <3>2. time[<<d, "partial">>] = 0
      <4>1. tree[d].classes.own \in Nat /\ source[d] \in Nat
        BY <2>1, <3>1 DEF WorldOk, Disk, Perhaps, Inputs, Current
      <4> QED BY <3>1, <4>1 DEF Current, ClassesOk
    <3>3. \A x \in Dir : f.at[x] \in {None, time[x]}
      BY DEF Fingerprint, Times
    <3>4. f.at[<<d, "classes">>] = time[<<d, "classes">>]
      BY <3>1, Directories DEF Ready, Fingerprint, Times
    <3>5. None # 0
      BY NoneAssumption
    <3> QED BY <3>1, <3>2, <3>3, <3>4, <3>5, Directories
  <2>3. Valid(f, u)
    BY <2>1, <2>2 DEF Valid
  <2>4. GeneratedFit(f, u) /\ ClassesFit(f, u)
    BY <2>1 DEF Inv, PersistedOk
  <2>5. tree[u].generated # None
    BY DEF Inv, Remembered, Exists, ClassesOk
  <2> QED BY <2>3, <2>4, <2>5 DEF GeneratedFit, ClassesFit, Fits, Made, Compiled, Present
<1> QED BY <1>1, ProcessorsInvariant, PTL

=============================================================================
