---------------------------- MODULE ReleaseProofs ----------------------------
(***************************************************************************)
(* Theorems about Packages and Release, for any modules, processes, edits, *)
(* commands, errors and kills.                                             *)
(***************************************************************************)
EXTENDS Release, TLAPS

Packaging == {"lock", "look", "record"}
Delivery == {"deliver", "rename", "bundle", "upload", "poll"}
Publishing == {"reset", "stage", "sign", "sum"} \cup Delivery
Steps == {"idle", "build"} \cup Packaging \cup Publishing

Content == Input \cup ({"manifest"} \X Module)
Made == UNION {[I -> Nat] : I \in SUBSET Content}
Tree == [File -> Made \cup {None}]

Command ==
  [step : Steps, target : Targets \cup {"none"}, kinds : Seq(Kinds), rebuild : BOOLEAN, sign : BOOLEAN,
   automatic : BOOLEAN, since : [Module -> SUBSET Nat], manifest : [Module -> Nat],
   todo : SUBSET Artifact, task : Artifact \cup {None}, key : Made \cup {None},
   made : Made \cup {None}, report : Tree, rest : SUBSET File, file : File \cup {None},
   deployment : Nat]

CacheRecord == [key : Made \cup {None}, checksum : Made \cup {None}]
Deployment == [files : Tree \cup {None}, automatic : BOOLEAN,
               state : {"PENDING", "VALIDATED", "FAILED", "PUBLISHED"}]

TypeInv ==
  /\ src \in [Module -> Nat]
  /\ built \in [Trees -> Nat]
  /\ artifact \in [Artifact -> Made \cup {None}]
  /\ record \in [Artifact -> CacheRecord \cup {None}]
  /\ run \in [Proc -> Command]
  /\ overlapped \in BOOLEAN
  /\ staging \in Tree
  /\ bundle \in Tree \cup {None}
  /\ deployments \in Seq(Deployment)

\* All of it was made from what the workspace has held since p's command began.
Fresh(p, c) == \A i \in DOMAIN c : c[i] \in run[p].since[i[2]]

OneAtATime == ~overlapped => \A p, q \in Proc : Running(p) /\ Running(q) => p = q

\* What p can read is what it has seen.
SinceOf(p) ==
  /\ Running(p) => \A m \in Module : /\ src[m] \in run[p].since[m]
                                     /\ run[p].manifest[m] \in run[p].since[m]
  /\ ~overlapped /\ run[p].step \notin {"idle", "build"} =>
       \A t \in Trees : built[t] \in run[p].since[t[2]]
  /\ run[p].target # "none" => run[p].kinds = Published
  /\ run[p].step \in Publishing => run[p].target # "none" /\ run[p].todo = {}

\* Between the two keys sources only grow, and what is built stays.
KeyOf(p) ==
  /\ run[p].step \in {"look", "record"} =>
       /\ run[p].task \in Artifact
       /\ run[p].key \in [Reads(run[p].task) -> Nat]
       /\ \A i \in Reads(run[p].task) :
            /\ i \notin Trees => run[p].key[i] <= src[i[2]]
            /\ i \in Trees /\ ~overlapped => run[p].key[i] = built[i]
       /\ ~overlapped => Fresh(p, run[p].key)
  /\ run[p].step = "record" =>
       /\ run[p].made \in [Reads(run[p].task) -> Nat]
       /\ \A i \in Reads(run[p].task) :
            /\ i \notin Trees => run[p].key[i] <= run[p].made[i] /\ run[p].made[i] <= src[i[2]]
            /\ i \in Trees /\ ~overlapped => run[p].made[i] = built[i]
       /\ ~overlapped => /\ Fresh(p, run[p].made)
                         /\ artifact[run[p].task] = run[p].made

RecordInv ==
  \A a \in Artifact :
    ~overlapped /\ record[a] # None => record[a].key = record[a].checksum

\* What has been packaged is fresh, and so is what is made of it.
DoneOf(p) ==
  ~overlapped /\ run[p].step \in Packaging \cup {"reset", "stage"} =>
    \A a \in Tasks(run[p].kinds) \ run[p].todo :
      artifact[a] \in Made /\ Fresh(p, artifact[a])

StagingOf(p) ==
  ~overlapped =>
    /\ run[p].step = "stage" => staging = Empty
    /\ run[p].step \in {"sign", "sum"} =>
         \A f \in File : staging[f] # None => Fresh(p, staging[f])

ReportOf(p) ==
  ~overlapped /\ run[p].step \in Delivery =>
    \A f \in File : run[p].report[f] # None => Fresh(p, run[p].report[f])

ProcInv(p) == SinceOf(p) /\ KeyOf(p) /\ DoneOf(p) /\ StagingOf(p) /\ ReportOf(p)

IInv == TypeInv /\ OneAtATime /\ RecordInv /\ \A p \in Proc : ProcInv(p)
------------------------------------------------------------------------------
(* Types.                                                                  *)

LEMMA StepOf ==
  ASSUME NEW c \in Command, NEW step \in Steps
  PROVE  [c EXCEPT !.step = step] \in Command
BY DEF Command

LEMMA SeenOf ==
  ASSUME NEW c \in Command, NEW since \in [Module -> SUBSET Nat], NEW manifest \in [Module -> Nat]
  PROVE  [c EXCEPT !.since = since, !.manifest = manifest] \in Command
BY DEF Command

USE DEF Artifact, Running, At, Task

LEMMA ReadsInputs ==
  ASSUME NEW a \in Artifact
  PROVE  /\ Reads(a) \subseteq Input /\ Reads(a) \in SUBSET Content
         /\ \A i \in Reads(a) : i[2] \in Module
<1>1. Reads(a) \subseteq Input
  BY PackagesAssumption DEF Reads, Kinds, Input
<1> QED BY <1>1 DEF Content, Input

LEMMA MadeOf ==
  ASSUME NEW I \in SUBSET Content, NEW c \in [I -> Nat]
  PROVE  c \in Made
BY DEF Made

LEMMA ContentsType ==
  ASSUME TypeInv, NEW a \in Artifact
  PROVE  Contents(a) \in [Reads(a) -> Nat] /\ Contents(a) \in Made
<1>1. Contents(a) \in [Reads(a) -> Nat]
  BY ReadsInputs DEF Contents, TypeInv
<1> QED BY <1>1, ReadsInputs, MadeOf

LEMMA StepNames ==
  /\ "lock" \in Steps /\ "look" \in Steps /\ "record" \in Steps
  /\ "sign" \in Steps /\ "sum" \in Steps /\ "reset" \in Steps /\ "stage" \in Steps
  /\ "deliver" \in Steps /\ "rename" \in Steps /\ "bundle" \in Steps
  /\ "upload" \in Steps /\ "poll" \in Steps
BY DEF Steps, Packaging, Publishing, Delivery

LEMMA IdleType == Idle \in Command
<1>1. Empty \in Tree
  BY DEF Empty, Tree
<1>2. <<>> \in Seq(Kinds)
  OBVIOUS
<1>3. [m \in Module |-> {}] \in [Module -> SUBSET Nat] /\ [m \in Module |-> 0] \in [Module -> Nat]
  OBVIOUS
<1> QED BY <1>1, <1>2, <1>3 DEF Idle, Command, Steps

LEMMA InitInv == Init => IInv
<1> SUFFICES ASSUME Init PROVE IInv
  OBVIOUS
<1>1. TypeInv
  <2>1. run \in [Proc -> Command]
    BY IdleType DEF Init
  <2>2. Empty \in Tree
    BY DEF Empty, Tree
  <2>3. src \in [Module -> Nat] /\ built \in [Trees -> Nat]
    BY DEF Init, PackagesInit
  <2>4. /\ artifact \in [Artifact -> Made \cup {None}]
        /\ record \in [Artifact -> CacheRecord \cup {None}]
    BY DEF Init, PackagesInit
  <2>5. overlapped \in BOOLEAN
    BY DEF Init, PackagesInit
  <2>7. deployments \in Seq(Deployment)
    <3>1. <<>> \in Seq(Deployment)
      OBVIOUS
    <3> QED BY <3>1, Zenon DEF Init
  <2>6. staging \in Tree /\ bundle \in Tree \cup {None}
    BY <2>2 DEF Init
  <2> QED BY <2>1, <2>3, <2>4, <2>5, <2>6, <2>7 DEF TypeInv
<1>2. \A p \in Proc : run[p].step = "idle" /\ run[p].target = "none"
  BY DEF Init, Idle
<1>3. \A a \in Artifact : record[a] = None
  BY DEF Init, PackagesInit
<1>4. ASSUME NEW p \in Proc PROVE ProcInv(p)
  BY <1>2 DEF ProcInv, SinceOf, KeyOf, DoneOf, StagingOf, ReportOf, Packaging, Publishing, Delivery
<1> QED BY <1>1, <1>2, <1>3, <1>4 DEF IInv, OneAtATime, RecordInv
------------------------------------------------------------------------------
(* One process moves: the others, idle if processes never overlap, keep    *)
(* their part of the invariant.                                            *)

LEMMA OthersKeep ==
  ASSUME IInv, NEW p \in Proc, Running(p), NEW q \in Proc \ {p}, run'[q] = run[q],
         src' = src, overlapped' = overlapped
  PROVE  ProcInv(q)'
<1>1. ProcInv(q) /\ (~overlapped => run[q].step = "idle")
  BY DEF IInv, OneAtATime
<1>2. SinceOf(q)'
  BY <1>1 DEF ProcInv, SinceOf, Publishing, Delivery
<1>3. KeyOf(q)'
  BY <1>1 DEF ProcInv, KeyOf
<1> QED BY <1>1, <1>2, <1>3 DEF ProcInv, DoneOf, StagingOf, ReportOf, Packaging, Delivery

LEMMA Moves ==
  ASSUME IInv, TypeInv', NEW p \in Proc, Running(p), NEW r, run' = [run EXCEPT ![p] = r],
         src' = src, overlapped' = overlapped, RecordInv', run'[p] = r => ProcInv(p)'
  PROVE  IInv'
<1>1. run'[p] = r /\ \A q \in Proc \ {p} : run'[q] = run[q]
  BY DEF IInv, TypeInv
<1>2. OneAtATime'
  BY <1>1 DEF IInv, OneAtATime
<1>3. \A q \in Proc \ {p} : ProcInv(q)'
  BY <1>1, OthersKeep
<1> QED BY <1>1, <1>2, <1>3 DEF IInv
------------------------------------------------------------------------------
(* Steps that leave the cache and the staging directory alone.             *)

Untouched ==
  /\ src' = src /\ built' = built /\ artifact' = artifact /\ record' = record
  /\ overlapped' = overlapped /\ staging' = staging
  /\ bundle' \in Tree \cup {None} /\ deployments' \in Seq(Deployment)

LEMMA TypesKept ==
  ASSUME TypeInv, Untouched, run' \in [Proc -> Command]
  PROVE  TypeInv'
BY DEF TypeInv, Untouched

\* A command ends.
LEMMA BecomesIdle ==
  ASSUME IInv, Untouched, NEW p \in Proc, Running(p), run' = [run EXCEPT ![p] = Idle]
  PROVE  IInv'
<1>1. TypeInv' /\ RecordInv'
  BY IdleType, TypesKept DEF IInv, TypeInv, RecordInv, Untouched
<1>2. ASSUME run'[p] = Idle PROVE ProcInv(p)'
  BY <1>2 DEF Idle, ProcInv, SinceOf, KeyOf, DoneOf, StagingOf, ReportOf, Packaging, Publishing,
             Delivery
<1> QED BY <1>1, <1>2, Moves DEF Untouched

\* A delivery goes on.
LEMMA GoesOn ==
  ASSUME IInv, Untouched, NEW p \in Proc, NEW r \in Command,
         run' = [run EXCEPT ![p] = r], run[p].step \in Delivery, r.step \in Delivery,
         r.target = run[p].target, r.kinds = run[p].kinds, r.since = run[p].since,
         r.manifest = run[p].manifest, r.todo = run[p].todo, r.report = run[p].report
  PROVE  IInv'
<1>1. TypeInv' /\ RecordInv'
  BY TypesKept DEF IInv, TypeInv, RecordInv, Untouched
<1>2. ASSUME run'[p] = r PROVE ProcInv(p)'
  <2>1. ProcInv(p)
    BY DEF IInv
  <2>2. SinceOf(p)' /\ ReportOf(p)'
    BY <1>2, <2>1 DEF Untouched, ProcInv, SinceOf, ReportOf, Fresh, Publishing, Delivery
  <2>3. KeyOf(p)' /\ DoneOf(p)' /\ StagingOf(p)'
    BY <1>2 DEF KeyOf, DoneOf, StagingOf, Packaging, Delivery
  <2> QED BY <2>2, <2>3 DEF ProcInv
<1>3. Running(p)
  BY DEF Delivery
<1> QED BY <1>1, <1>2, <1>3, Moves DEF Untouched

\* The world outside the workspace changes, or nothing.
LEMMA NobodyMoves ==
  ASSUME IInv, Untouched, run' = run
  PROVE  IInv'
<1>1. TypeInv' /\ OneAtATime' /\ RecordInv'
  BY TypesKept DEF IInv, TypeInv, OneAtATime, RecordInv, Untouched
<1>2. ASSUME NEW p \in Proc PROVE ProcInv(p)'
  <2>1. ProcInv(p)
    BY DEF IInv
  <2>2. KeyOf(p)'
    BY <2>1 DEF ProcInv, KeyOf, Fresh, Untouched
  <2>3. DoneOf(p)'
    BY <2>1 DEF ProcInv, DoneOf, Fresh, Untouched
  <2> QED BY <2>1, <2>2, <2>3 DEF ProcInv, SinceOf, StagingOf, ReportOf, Fresh, Untouched
<1> QED BY <1>1, <1>2 DEF IInv

LEMMA Appended ==
  ASSUME TypeInv, NEW p \in Proc, Deploy(p)
  PROVE  deployments' \in Seq(Deployment) /\ Len(deployments) + 1 \in Nat
<1>1. [files |-> bundle, automatic |-> run[p].automatic, state |-> "PENDING"] \in Deployment
  BY DEF TypeInv, Deployment, Command
<1>2. deployments \in Seq(Deployment)
  BY DEF TypeInv
<1> QED BY <1>1, <1>2 DEF Deploy

LEMMA EndsStep ==
  ASSUME IInv, NEW p \in Proc, NEW f,
         \/ Packaged(p) /\ run[p].target = "none"
         \/ Stop(p) \/ DryRun(p) \/ Delivered(p) \/ PollTerminal(p) \/ GiveUp(p)
         \/ UploadUnanswered(p, f) \/ UploadBundleUnanswered(p)
  PROVE  IInv'
<1>1. run' = [run EXCEPT ![p] = Idle]
  BY DEF Packaged, Stop, DryRun, Delivered, PollTerminal, GiveUp, UploadUnanswered,
         UploadBundleUnanswered, Succeed
<1>2. UNCHANGED <<workspace, artifact, record, overlapped, staging, bundle>>
  BY DEF Packaged, Stop, DryRun, Delivered, PollTerminal, GiveUp, UploadUnanswered,
         UploadBundleUnanswered, cache, publication, outside
<1>3. deployments' \in Seq(Deployment)
  BY Appended DEF Packaged, Stop, DryRun, Delivered, PollTerminal, GiveUp, UploadUnanswered,
         UploadBundleUnanswered, publication, outside, IInv, TypeInv
<1>4. Untouched
  BY <1>2, <1>3 DEF Untouched, workspace, IInv, TypeInv
<1>5. Running(p)
  BY DEF Packaged, Stop, DryRun, Delivered, PollTerminal, GiveUp, UploadUnanswered, Accept,
         Delivering, UploadBundleUnanswered
<1> QED BY <1>1, <1>4, <1>5, BecomesIdle

LEMMA DeliveryStep ==
  ASSUME IInv, NEW p \in Proc, NEW f,
         \/ Unlink(p, f) \/ Upload(p, f) \/ Rename(p) \/ CreateBundle(p) \/ UploadBundle(p)
  PROVE  IInv'
<1> USE DEF Delivery
<1>0. TypeInv /\ run[p] \in Command /\ run \in [Proc -> Command]
  BY DEF IInv, TypeInv
<1>1. CASE Unlink(p, f)
  <2> DEFINE r == [run[p] EXCEPT !.step = "rename", !.file = f, !.made = staging[f]]
  <2>0. f \in File
    BY <1>0, <1>1 DEF Unlink, NextFile, Command
  <2>1. r \in Command
    <3>1. staging[f] \in Made \cup {None}
      BY <1>0, <2>0 DEF TypeInv, Tree
    <3> QED BY <1>0, <2>0, <3>1, StepNames DEF Command
  <2>2. run' = [run EXCEPT ![p] = r]
    BY <1>0, <1>1 DEF Unlink
  <2>3. Untouched
    BY <1>0, <1>1 DEF Unlink, Untouched, workspace, cache, TypeInv
  <2>4. run[p].step \in Delivery
    BY <1>1 DEF Unlink, Delivering
  <2> QED BY <1>0, <2>1, <2>2, <2>3, <2>4, GoesOn DEF Command
<1>2. CASE Upload(p, f)
  <2> DEFINE r == [run[p] EXCEPT !.rest = @ \ {f}]
  <2>1. r \in Command
    BY <1>0 DEF Command
  <2>2. run' = [run EXCEPT ![p] = r]
    BY <1>0, <1>2 DEF Upload
  <2>3. Untouched
    BY <1>0, <1>2 DEF Upload, Untouched, workspace, cache, TypeInv
  <2>4. run[p].step \in Delivery
    BY <1>2 DEF Upload, Accept, Delivering
  <2> QED BY <1>0, <2>1, <2>2, <2>3, <2>4, GoesOn DEF Command
<1>3. CASE Rename(p)
  <2> DEFINE r == [run[p] EXCEPT !.step = "deliver", !.rest = @ \ {run[p].file}]
  <2>1. r \in Command
    BY <1>0, StepNames DEF Command
  <2>2. run' = [run EXCEPT ![p] = r]
    BY <1>0, <1>3 DEF Rename
  <2>3. Untouched
    BY <1>0, <1>3 DEF Rename, Untouched, workspace, cache, TypeInv
  <2>4. run[p].step \in Delivery
    BY <1>3 DEF Rename
  <2> QED BY <1>0, <2>1, <2>2, <2>3, <2>4, GoesOn DEF Command
<1>4. CASE CreateBundle(p)
  <2> DEFINE r == [run[p] EXCEPT !.step = "upload"]
  <2>1. r \in Command
    BY <1>0, StepNames DEF Command
  <2>2. run' = [run EXCEPT ![p] = r]
    BY <1>0, <1>4 DEF CreateBundle, Goto
  <2>3. Untouched
    BY <1>0, <1>4 DEF CreateBundle, Untouched, workspace, cache, TypeInv
  <2>4. run[p].step \in Delivery
    BY <1>4 DEF CreateBundle
  <2> QED BY <1>0, <2>1, <2>2, <2>3, <2>4, GoesOn DEF Command
<1>5. CASE UploadBundle(p)
  <2> DEFINE r == [run[p] EXCEPT !.step = "poll", !.deployment = Len(deployments) + 1]
  <2>0. Deploy(p)
    BY <1>5 DEF UploadBundle
  <2>a. deployments' \in Seq(Deployment) /\ Len(deployments) + 1 \in Nat
    BY <1>0, <2>0, Appended
  <2>1. r \in Command
    <3>1. ASSUME NEW c \in Command, NEW n \in Nat
          PROVE  [c EXCEPT !.step = "poll", !.deployment = n] \in Command
      BY StepNames DEF Command
    <3> HIDE DEF Delivery
    <3> QED BY <3>1, <2>a, <1>0
  <2>2. run' = [run EXCEPT ![p] = r]
    <3>1. run' = [run EXCEPT ![p].step = "poll", ![p].deployment = Len(deployments) + 1]
      BY <1>5 DEF UploadBundle
    <3> QED BY <3>1, <1>0, Zenon
  <2>3. Untouched
    <3>1. /\ src' = src /\ built' = built /\ artifact' = artifact /\ record' = record
          /\ overlapped' = overlapped /\ staging' = staging /\ bundle' = bundle
      BY <1>5 DEF UploadBundle, workspace, cache
    <3>2. bundle \in Tree \cup {None}
      BY <1>0 DEF TypeInv
    <3> QED BY <3>1, <3>2, <2>a DEF Untouched
  <2>4. run[p].step \in Delivery
    BY <1>5 DEF UploadBundle
  <2> QED BY <1>0, <2>1, <2>2, <2>3, <2>4, GoesOn DEF Command
<1> QED BY <1>1, <1>2, <1>3, <1>4, <1>5

LEMMA CentralStep ==
  ASSUME IInv, NEW i \in DOMAIN deployments, Validate(i) \/ GoPublic(i)
  PROVE  IInv'
<1>1. TypeInv
  BY DEF IInv
<1>2. deployments' \in Seq(Deployment)
  <2>1. PICK verdict \in {"VALIDATED", "FAILED", "PUBLISHED"} :
          deployments' = [deployments EXCEPT ![i].state = verdict]
    BY DEF Validate, GoPublic
  <2>2. deployments \in Seq(Deployment) /\ deployments[i] \in Deployment
    BY <1>1 DEF TypeInv
  <2> DEFINE d == [deployments[i] EXCEPT !.state = verdict]
  <2>3. d \in Deployment
    BY <2>2 DEF Deployment
  <2>4. deployments' = [deployments EXCEPT ![i] = d]
    BY <2>1
  <2> HIDE DEF d
  <2> QED BY <2>2, <2>3, <2>4
<1>3. Untouched /\ run' = run
  BY <1>1, <1>2 DEF Validate, GoPublic, TypeInv, Untouched, workspace, cache
<1> QED BY <1>3, NobodyMoves
------------------------------------------------------------------------------
(* Commands begin, sources change, builds run.                             *)

LEMMA Starts ==
  ASSUME IInv, NEW p \in Proc, NEW c \in Command, c.target # "none" => c.kinds = Published,
         Start(p, c)
  PROVE  IInv'
<1> DEFINE r == [c EXCEPT !.step = "build", !.since = [m \in Module |-> {src[m]}], !.manifest = src]
<1>1. TypeInv /\ run' = [run EXCEPT ![p] = r]
  BY DEF Start, IInv
<1>2. UNCHANGED <<workspace, cache, staging, outside>> /\ overlapped' = (overlapped \/ ~Alone(p))
  BY DEF Start
<1>3. r \in Command
  <2>1. [m \in Module |-> {src[m]}] \in [Module -> SUBSET Nat] /\ src \in [Module -> Nat]
    BY <1>1 DEF TypeInv
  <2>2. "build" \in Steps
    BY DEF Steps
  <2>3. [c EXCEPT !.step = "build"] \in Command
    BY <2>2, StepOf
  <2>4. r = [[c EXCEPT !.step = "build"] EXCEPT !.since = [m \in Module |-> {src[m]}], !.manifest = src]
    BY DEF Command
  <2> QED BY <2>1, <2>3, <2>4, SeenOf
<1>4. TypeInv'
  BY <1>1, <1>2, <1>3 DEF TypeInv, workspace, cache, outside
<1>5. run'[p] = r /\ \A q \in Proc \ {p} : run'[q] = run[q]
  BY <1>1 DEF TypeInv
<1>6. OneAtATime'
  <2>1. ~overlapped' => Alone(p)
    BY <1>2
  <2> QED BY <1>5, <2>1 DEF OneAtATime, Alone
<1>7. RecordInv'
  BY <1>2 DEF IInv, RecordInv, cache
<1>8. ASSUME NEW q \in Proc \ {p} PROVE ProcInv(q)'
  <2>1. ProcInv(q) /\ run'[q] = run[q] /\ (~overlapped' => ~overlapped)
    BY <1>2, <1>5 DEF IInv
  <2>2. SinceOf(q)'
    BY <1>2, <2>1 DEF ProcInv, SinceOf, workspace
  <2>3. KeyOf(q)'
    BY <1>2, <2>1 DEF ProcInv, KeyOf, Fresh, workspace, cache
  <2>4. DoneOf(q)'
    BY <1>2, <2>1 DEF ProcInv, DoneOf, Fresh, workspace, cache
  <2> QED BY <1>2, <2>1, <2>2, <2>3, <2>4 DEF ProcInv, StagingOf, ReportOf, Fresh
<1>9. ProcInv(p)'
  <2>1. /\ run'[p].step = "build" /\ run'[p].manifest = src /\ run'[p].target = c.target
        /\ run'[p].kinds = c.kinds /\ run'[p].since = [m \in Module |-> {src[m]}]
    BY <1>5 DEF Command
  <2>2. SinceOf(p)'
    BY <1>2, <2>1 DEF SinceOf, workspace, Publishing, Delivery
  <2> QED BY <2>1, <2>2 DEF ProcInv, KeyOf, DoneOf, StagingOf, ReportOf, Packaging, Delivery
<1> QED BY <1>4, <1>6, <1>7, <1>8, <1>9 DEF IInv

\* What the two commands ask for, as a command that has not begun.
LEMMA AskedToBuild ==
  ASSUME NEW i \in Command, NEW kinds \in Seq(Kinds), NEW rebuild \in BOOLEAN
  PROVE  LET c == [i EXCEPT !.kinds = kinds, !.rebuild = rebuild]
         IN c \in Command /\ c.target = i.target
<1> DEFINE c == [i EXCEPT !.kinds = kinds, !.rebuild = rebuild]
<1>1. c \in Command
  BY DEF Command
<1>2. c.target = i.target
  BY DEF Command
<1> QED BY <1>1, <1>2

ToPublish(i, kinds, target, sign, automatic) ==
  [i EXCEPT !.kinds = kinds, !.target = target, !.sign = sign, !.automatic = automatic]

LEMMA AskedToPublish ==
  ASSUME NEW i \in Command, NEW kinds \in Seq(Kinds), NEW target \in Targets,
         NEW sign \in BOOLEAN, NEW automatic \in BOOLEAN
  PROVE  /\ ToPublish(i, kinds, target, sign, automatic) \in Command
         /\ ToPublish(i, kinds, target, sign, automatic).kinds = kinds
<1>1. ToPublish(i, kinds, target, sign, automatic) \in Command
  <2> DEFINE j == [i EXCEPT !.kinds = kinds, !.target = target]
  <2>1. j \in Command
    BY DEF Command
  <2>2. ToPublish(i, kinds, target, sign, automatic)
          = [j EXCEPT !.sign = sign, !.automatic = automatic]
    BY DEF ToPublish
  <2> HIDE DEF j
  <2> QED BY <2>1, <2>2 DEF Command
<1>2. "kinds" \in DOMAIN i
  BY DEF Command
<1>3. ToPublish(i, kinds, target, sign, automatic).kinds = kinds
  BY <1>2 DEF ToPublish
<1> QED BY <1>1, <1>3

LEMMA StartStep ==
  ASSUME IInv, NEW p \in Proc, StartBuild(p) \/ StartPublish(p)
  PROVE  IInv'
<1>1. CASE StartBuild(p)
  <2>1. PICK kinds \in Builds, rebuild \in BOOLEAN :
          Start(p, [Idle EXCEPT !.kinds = kinds, !.rebuild = rebuild])
    BY <1>1 DEF StartBuild
  <2> DEFINE c == [Idle EXCEPT !.kinds = kinds, !.rebuild = rebuild]
  <2>2. c \in Command /\ c.target = "none"
    <3>1. kinds \in Seq(Kinds)
      BY ReleaseAssumption
    <3>2. Idle.target = "none"
      BY DEF Idle
    <3> QED BY <3>1, <3>2, IdleType, AskedToBuild
  <2> HIDE DEF c
  <2> QED BY <2>1, <2>2, Starts DEF c
<1>2. CASE StartPublish(p)
  <2>1. PICK target \in Targets, sign \in BOOLEAN, automatic \in BOOLEAN :
          Start(p, ToPublish(Idle, Published, target, sign, automatic))
    BY <1>2 DEF StartPublish, ToPublish
  <2> DEFINE c == ToPublish(Idle, Published, target, sign, automatic)
  <2>2. Published \in Seq(Kinds)
    BY ReleaseAssumption
  <2>3. c \in Command /\ c.kinds = Published
    BY <2>2, IdleType, AskedToPublish
  <2> HIDE DEF c
  <2> QED BY <2>1, <2>3, Starts DEF c
<1> QED BY <1>1, <1>2

LEMMA EditStep ==
  ASSUME IInv, NEW m \in Module, Edit(m)
  PROVE  IInv'
<1>1. TypeInv /\ UNCHANGED <<built, cache, overlapped, staging, outside>>
  BY DEF Edit, IInv, publication
<1>2. src' = [src EXCEPT ![m] = @ + 1]
  BY DEF Edit
<1>3. src' \in [Module -> Nat] /\ \A n \in Module : src[n] <= src'[n]
  BY <1>1, <1>2 DEF TypeInv
<1>4. ASSUME NEW p \in Proc
      PROVE  run'[p] = IF Running(p) THEN [run[p] EXCEPT !.since[m] = @ \cup {src[m] + 1}]
                       ELSE run[p]
  BY DEF Edit
<1>5. ASSUME NEW p \in Proc
      PROVE  run'[p] \in Command /\ \A n \in Module : run[p].since[n] \subseteq run'[p].since[n]
  <2>1. run[p] \in Command
    BY <1>1 DEF TypeInv
  <2>2. src[m] + 1 \in Nat
    BY <1>1 DEF TypeInv
  <2>3. [run[p].since EXCEPT ![m] = @ \cup {src[m] + 1}] \in [Module -> SUBSET Nat]
    BY <2>1, <2>2 DEF Command
  <2>4. [run[p] EXCEPT !.since[m] = @ \cup {src[m] + 1}] \in Command
    BY <2>1, <2>3 DEF Command
  <2>5. run'[p] \in Command
    BY <1>4, <2>1, <2>4
  <2>6. run'[p].since \in {run[p].since, [run[p].since EXCEPT ![m] = @ \cup {src[m] + 1}]}
    BY <1>4, <2>1 DEF Command
  <2>7. run[p].since \in [Module -> SUBSET Nat]
    BY <2>1 DEF Command
  <2>8. ASSUME NEW n \in Module
        PROVE  run[p].since[n] \subseteq [run[p].since EXCEPT ![m] = @ \cup {src[m] + 1}][n]
    <3>1. CASE n = m
      BY <2>7, <3>1
    <3>2. CASE n # m
      BY <2>7, <3>2
    <3> QED BY <3>1, <3>2
  <2> QED BY <2>5, <2>6, <2>8, Zenon
<1>6. ASSUME NEW p \in Proc
      PROVE  /\ run'[p].step = run[p].step /\ run'[p].target = run[p].target
             /\ run'[p].kinds = run[p].kinds /\ run'[p].todo = run[p].todo
             /\ run'[p].task = run[p].task /\ run'[p].key = run[p].key
             /\ run'[p].made = run[p].made /\ run'[p].report = run[p].report
             /\ run'[p].manifest = run[p].manifest
  <2>1. run[p] \in Command
    BY <1>1 DEF TypeInv
  <2> DEFINE since == [run[p].since EXCEPT ![m] = @ \cup {src[m] + 1}]
             c == [run[p] EXCEPT !.since = since]
  <2>2. run'[p] \in {run[p], c}
    BY <1>4, <2>1 DEF Command
  <2> HIDE DEF since
  <2>3. /\ c.step = run[p].step /\ c.target = run[p].target
        /\ c.kinds = run[p].kinds /\ c.todo = run[p].todo
        /\ c.task = run[p].task /\ c.key = run[p].key
        /\ c.made = run[p].made /\ c.report = run[p].report
        /\ c.manifest = run[p].manifest
    BY <2>1, Zenon DEF Command
  <2> HIDE DEF c
  <2> QED BY <2>2, <2>3
<1>7. TypeInv'
  <2>1. run' \in [Proc -> Command]
    BY <1>5 DEF Edit
  <2> QED BY <1>1, <1>3, <2>1 DEF TypeInv, cache, outside
<1>8. OneAtATime' /\ RecordInv'
  BY <1>1, <1>6 DEF IInv, OneAtATime, RecordInv, cache
<1>9. ASSUME NEW p \in Proc, NEW c \in Made, Fresh(p, c)
      PROVE  Fresh(p, c)'
  <2>1. \A i \in DOMAIN c : i[2] \in Module
    BY DEF Made, Content, Input
  <2> QED BY <1>5, <1>9, <2>1 DEF Fresh
<1>10. ASSUME NEW p \in Proc PROVE ProcInv(p)'
  <2>1. ProcInv(p)
    BY DEF IInv
  <2>2. SinceOf(p)'
    <3>1. ASSUME Running(p)', NEW n \in Module
          PROVE  src'[n] \in run'[p].since[n] /\ run'[p].manifest[n] \in run'[p].since[n]
      <4>1. run'[p] = [run[p] EXCEPT !.since[m] = @ \cup {src[m] + 1}]
        BY <1>4, <1>6, <3>1
      <4>2. run[p] \in Command /\ src \in [Module -> Nat]
        BY <1>1 DEF TypeInv
      <4>3. run'[p].since[m] = run[p].since[m] \cup {src[m] + 1}
        BY <4>1, <4>2 DEF Command
      <4>4. src'[n] \in run'[p].since[n]
        BY <1>2, <1>5, <1>6, <2>1, <3>1, <4>2, <4>3 DEF ProcInv, SinceOf
      <4> QED BY <1>5, <1>6, <2>1, <3>1, <4>4 DEF ProcInv, SinceOf
    <3>2. \A t \in Trees : t[2] \in Module
      BY DEF Trees
    <3>3. ~overlapped' /\ run'[p].step \notin {"idle", "build"} =>
            \A t \in Trees : built'[t] \in run'[p].since[t[2]]
      BY <1>1, <1>5, <1>6, <2>1, <3>2 DEF ProcInv, SinceOf
    <3> QED BY <1>6, <2>1, <3>1, <3>3 DEF ProcInv, SinceOf
  <2>3. KeyOf(p)'
    <3>1. CASE run[p].step \in {"look", "record"}
      <4>1. /\ run[p].task \in Artifact /\ Reads(run[p].task) \in SUBSET Content
            /\ \A i \in Reads(run[p].task) : i[2] \in Module
        BY <2>1, <3>1, ReadsInputs DEF ProcInv, KeyOf
      <4>2. run[p].key \in Made /\ (run[p].step = "record" => run[p].made \in Made)
        BY <2>1, <3>1, <4>1, MadeOf DEF ProcInv, KeyOf
      <4>3. /\ Fresh(p, run[p].key) => Fresh(p, run[p].key)'
            /\ run[p].step = "record" /\ Fresh(p, run[p].made) => Fresh(p, run[p].made)'
        BY <1>6, <1>9, <4>2
      <4>4. run[p].key \in [Reads(run[p].task) -> Nat]
        BY <2>1, <3>1 DEF ProcInv, KeyOf
      <4>5. run[p].step = "record" => run[p].made \in [Reads(run[p].task) -> Nat]
        BY <2>1, <3>1 DEF ProcInv, KeyOf
      <4>6. \A i \in Reads(run[p].task), k \in Nat : k <= src[i[2]] => k <= src'[i[2]]
        BY <1>1, <1>3, <4>1 DEF TypeInv
      <4>7. run'[p].task = run[p].task /\ run'[p].key = run[p].key /\ run'[p].step = run[p].step
            /\ run'[p].made = run[p].made /\ artifact' = artifact /\ built' = built
            /\ overlapped' = overlapped
        BY <1>1, <1>6 DEF cache
      <4>8. \A i \in Reads(run[p].task) :
              i \notin Trees => run[p].key[i] <= src'[i[2]]
        BY <2>1, <3>1, <4>4, <4>6 DEF ProcInv, KeyOf
      <4>9. \A i \in Reads(run[p].task) :
              i \notin Trees /\ run[p].step = "record" => run[p].made[i] <= src'[i[2]]
        BY <2>1, <3>1, <4>5, <4>6 DEF ProcInv, KeyOf
      <4>10. \A a \in Artifact : Reads(a)' = Reads(a)
        BY DEF Reads
      <4> HIDE DEF Artifact, Task
      <4> QED BY <2>1, <3>1, <4>1, <4>3, <4>4, <4>5, <4>7, <4>8, <4>9, <4>10 DEF ProcInv, KeyOf
    <3> QED BY <1>6, <3>1 DEF KeyOf
  <2>4. DoneOf(p)'
    BY <1>1, <1>6, <1>9, <2>1 DEF ProcInv, DoneOf, cache
  <2>5. StagingOf(p)'
    BY <1>1, <1>6, <1>9, <2>1 DEF ProcInv, StagingOf, TypeInv, Tree
  <2>6. ReportOf(p)'
    <3>1. run[p].report \in Tree
      BY <1>1 DEF TypeInv, Command
    <3> QED BY <1>1, <1>6, <1>9, <2>1, <3>1 DEF ProcInv, ReportOf, Tree
  <2> QED BY <2>2, <2>3, <2>4, <2>5, <2>6 DEF ProcInv
<1> QED BY <1>7, <1>8, <1>10 DEF IInv

LEMMA SwapStep ==
  ASSUME IInv, NEW p \in Proc, NEW t \in Trees, Swap(p, t), UNCHANGED publication
  PROVE  IInv'
<1>1. /\ TypeInv /\ run[p].step = "build" /\ built' = [built EXCEPT ![t] = 0]
      /\ UNCHANGED <<src, cache, run, overlapped, staging, outside>>
  BY DEF IInv, Swap, publication
<1>2. TypeInv' /\ RecordInv'
  BY <1>1 DEF TypeInv, IInv, RecordInv, cache, outside
<1>3. run' = [run EXCEPT ![p] = run[p]]
  BY <1>1 DEF TypeInv
<1>4. ProcInv(p)'
  <2>1. SinceOf(p)'
    BY <1>1 DEF IInv, ProcInv, SinceOf
  <2> QED BY <1>1, <2>1 DEF ProcInv, KeyOf, DoneOf, StagingOf, ReportOf, Packaging, Delivery
<1> QED BY <1>1, <1>2, <1>3, <1>4, Moves

LEMMA TasksType ==
  ASSUME NEW kinds \in Seq(Kinds)
  PROVE  Tasks(kinds) \subseteq Artifact
BY DEF Tasks

LEMMA CompileStep ==
  ASSUME IInv, NEW p \in Proc, Compile(p), UNCHANGED publication
  PROVE  IInv'
<1> DEFINE r == [run[p] EXCEPT !.step = "lock", !.todo = Tasks(run[p].kinds)]
<1>1. /\ TypeInv /\ run[p].step = "build" /\ run[p] \in Command
      /\ UNCHANGED <<src, cache, overlapped, staging, outside>>
  BY DEF IInv, TypeInv, Compile, publication
<1>2. run' = [run EXCEPT ![p] = r]
  BY <1>1 DEF Compile, TypeInv
<1>3. built' \in [Trees -> Nat]
  BY PackagesAssumption DEF Compile
<1>4. r \in Command
  <2>1. Tasks(run[p].kinds) \in SUBSET Artifact
    BY <1>1, TasksType DEF Command
  <2> QED BY <1>1, <2>1, StepNames DEF Command
<1>5. TypeInv' /\ RecordInv'
  BY <1>1, <1>2, <1>3, <1>4 DEF TypeInv, IInv, RecordInv, cache, outside
<1>6. ~overlapped => \A t \in Trees : built'[t] \in run[p].since[t[2]]
  <2>1. ~overlapped => Alone(p)
    BY <1>1 DEF IInv, OneAtATime, Alone
  <2> QED BY <2>1 DEF Compile
<1>7. ASSUME run'[p] = r PROVE ProcInv(p)'
  <2>1. /\ run'[p].step = "lock" /\ run'[p].kinds = run[p].kinds /\ run'[p].since = run[p].since
        /\ run'[p].todo = Tasks(run[p].kinds) /\ run'[p].target = run[p].target
        /\ run'[p].manifest = run[p].manifest
    BY <1>1, <1>7 DEF Command
  <2>2. SinceOf(p)'
    BY <1>1, <1>6, <2>1 DEF IInv, ProcInv, SinceOf, Publishing, Delivery
  <2> QED BY <2>1, <2>2 DEF ProcInv, KeyOf, DoneOf, StagingOf, ReportOf, Delivery
<1> QED BY <1>1, <1>2, <1>5, <1>7, Moves
------------------------------------------------------------------------------
(* Packaging.                                                              *)

\* What p reads after its build is fresh.
LEMMA ContentsFresh ==
  ASSUME IInv, NEW p \in Proc, ~overlapped, run[p].step \notin {"idle", "build"},
         NEW a \in Artifact
  PROVE  Fresh(p, Contents(a))
<1>1. /\ \A m \in Module : src[m] \in run[p].since[m]
      /\ \A t \in Trees : built[t] \in run[p].since[t[2]]
  BY DEF IInv, ProcInv, SinceOf
<1> QED BY <1>1, ReadsInputs DEF Fresh, Contents

LEMMA LockStep ==
  ASSUME IInv, NEW p \in Proc, Lock(p), UNCHANGED publication
  PROVE  IInv'
<1>1. PICK a \in run[p].todo :
        run' = [run EXCEPT ![p].step = "look", ![p].task = a, ![p].key = Contents(a)]
  BY DEF Lock
<1> DEFINE r == [run[p] EXCEPT !.step = "look", !.task = a, !.key = Contents(a)]
<1>2. /\ TypeInv /\ run[p].step = "lock" /\ run[p] \in Command
      /\ UNCHANGED <<src, built, artifact, record, overlapped, staging, outside>>
  BY DEF IInv, TypeInv, Lock, publication, workspace
<1>3. a \in Artifact
  BY <1>2 DEF Command
<1>4. Contents(a) \in [Reads(a) -> Nat] /\ Contents(a) \in Made
  BY <1>2, <1>3, ContentsType
<1>5. run' = [run EXCEPT ![p] = r]
  BY <1>1, <1>2 DEF TypeInv
<1>6. r \in Command
  <2>1. ASSUME NEW c \in Made PROVE [run[p] EXCEPT !.step = "look", !.task = a, !.key = c] \in Command
    BY <1>2, <1>3, StepNames DEF Command
  <2> QED BY <1>4, <2>1
<1>7. TypeInv' /\ RecordInv'
  <2>1. run' \in [Proc -> Command]
    BY <1>2, <1>5, <1>6 DEF TypeInv
  <2> QED BY <1>2, <2>1 DEF TypeInv, IInv, RecordInv, outside
<1>8. ASSUME run'[p] = r PROVE ProcInv(p)'
  <2>1. /\ run'[p].step = "look" /\ run'[p].task = a /\ run'[p].key = Contents(a)
        /\ run'[p].kinds = run[p].kinds /\ run'[p].since = run[p].since
        /\ run'[p].todo = run[p].todo /\ run'[p].target = run[p].target
        /\ run'[p].manifest = run[p].manifest
    BY <1>2, <1>8 DEF Command
  <2>2. SinceOf(p)'
    BY <1>2, <2>1 DEF IInv, ProcInv, SinceOf, Publishing, Delivery
  <2>3. DoneOf(p)'
    BY <1>2, <2>1 DEF IInv, ProcInv, DoneOf, Fresh, Packaging
  <2>4. KeyOf(p)'
    <3>1. ~overlapped => Fresh(p, Contents(a))
      BY <1>2, <1>3, ContentsFresh
    <3>2. \A i \in Reads(a) :
            /\ i \notin Trees => Contents(a)[i] <= src[i[2]]
            /\ i \in Trees => Contents(a)[i] = built[i]
      BY <1>2, <1>3, ReadsInputs DEF Contents, TypeInv
    <3>3. (~overlapped => Fresh(p, Contents(a)))'
      BY <1>2, <2>1, <3>1 DEF Fresh, Contents, Reads
    <3>4. Reads(a)' = Reads(a) /\ Contents(a)' = Contents(a)
      BY <1>2 DEF Reads, Contents
    <3> QED BY <1>2, <1>3, <1>4, <2>1, <3>2, <3>3, <3>4 DEF KeyOf
  <2> QED BY <2>1, <2>2, <2>3, <2>4 DEF ProcInv, StagingOf, ReportOf, Delivery
<1> QED BY <1>2, <1>5, <1>7, <1>8, Moves

LEMMA ArchiveStep ==
  ASSUME IInv, NEW p \in Proc, Archive(p), UNCHANGED publication
  PROVE  IInv'
<1> DEFINE t == run[p].task
           made == Contents(t)
           r == [run[p] EXCEPT !.step = "record", !.made = made]
<1>1. /\ TypeInv /\ run[p].step = "look" /\ run[p] \in Command
      /\ UNCHANGED <<src, built, record, overlapped, staging, outside>>
  BY DEF IInv, TypeInv, Archive, publication, workspace
<1>2. artifact' = [artifact EXCEPT ![t] = made]
  BY DEF Archive
<1>3. ProcInv(p) /\ t \in Artifact
  BY <1>1 DEF IInv, ProcInv, KeyOf
<1>4. made \in [Reads(t) -> Nat] /\ made \in Made
  BY <1>1, <1>3, ContentsType
<1>5. run' = [run EXCEPT ![p] = r]
  BY <1>1 DEF TypeInv, Archive
<1>6. r \in Command
  <2>1. ASSUME NEW c \in Made PROVE [run[p] EXCEPT !.step = "record", !.made = c] \in Command
    BY <1>1, StepNames DEF Command
  <2> QED BY <1>4, <2>1
<1>7. TypeInv' /\ RecordInv'
  <2>1. run' \in [Proc -> Command]
    BY <1>1, <1>5, <1>6 DEF TypeInv
  <2>2. artifact' \in [Artifact -> Made \cup {None}]
    BY <1>1, <1>2, <1>4 DEF TypeInv
  <2> QED BY <1>1, <2>1, <2>2 DEF TypeInv, IInv, RecordInv, outside
<1>8. ASSUME run'[p] = r PROVE ProcInv(p)'
  <2>1. /\ run'[p].step = "record" /\ run'[p].task = t /\ run'[p].key = run[p].key
        /\ run'[p].made = made /\ run'[p].kinds = run[p].kinds /\ run'[p].since = run[p].since
        /\ run'[p].todo = run[p].todo /\ run'[p].target = run[p].target
        /\ run'[p].manifest = run[p].manifest
    BY <1>1, <1>8 DEF Command
  <2>2. SinceOf(p)'
    BY <1>1, <1>3, <2>1 DEF ProcInv, SinceOf, Publishing, Delivery
  <2>3. ~overlapped => Fresh(p, made)
    BY <1>1, <1>3, ContentsFresh
  <2>4. (~overlapped => Fresh(p, made))'
    BY <1>1, <2>1, <2>3 DEF Fresh, Contents, Reads
  <2>5. made' = made /\ Reads(t)' = Reads(t)
    BY <1>1, <2>1 DEF Contents, Reads
  <2>6. DoneOf(p)'
    <3>1. SUFFICES ASSUME ~overlapped, NEW a \in Tasks(run[p].kinds) \ run[p].todo
                   PROVE  artifact'[a] \in Made /\ Fresh(p, artifact[a])'
      BY <1>1, <2>1 DEF DoneOf
    <3>2. a \in Artifact
      BY <1>1, TasksType DEF Command
    <3>3. CASE a = t
      <4>1. artifact'[a] = made
        BY <1>1, <1>2, <3>2, <3>3 DEF TypeInv
      <4>2. Fresh(p, made)
        BY <2>3, <3>1
      <4> QED BY <1>4, <2>1, <4>1, <4>2 DEF Fresh
    <3>4. CASE a # t
      BY <1>1, <1>2, <1>3, <2>1, <3>1, <3>2, <3>4 DEF TypeInv, ProcInv, DoneOf, Packaging, Fresh
    <3> QED BY <3>3, <3>4
  <2>7. KeyOf(p)'
    <3>1. /\ run[p].key \in [Reads(t) -> Nat]
          /\ \A i \in Reads(t) : /\ i \notin Trees => run[p].key[i] <= src[i[2]]
                                 /\ i \in Trees /\ ~overlapped => run[p].key[i] = built[i]
          /\ ~overlapped => Fresh(p, run[p].key)
      BY <1>1, <1>3 DEF ProcInv, KeyOf
    <3>2. \A i \in Reads(t) : /\ i \notin Trees => made[i] = src[i[2]]
                              /\ i \in Trees => made[i] = built[i]
      BY <1>1, <1>3, ReadsInputs DEF Contents, TypeInv
    <3>3. \A i \in Reads(t) : i \notin Trees => run[p].key[i] <= made[i] /\ made[i] <= src[i[2]]
      BY <1>3, <1>4, <3>1, <3>2
    <3>4. artifact'[t] = made
      BY <1>1, <1>2, <1>3 DEF TypeInv
    <3>5. (~overlapped => Fresh(p, run[p].key))'
      BY <1>1, <2>1, <3>1 DEF Fresh
    <3> HIDE DEF made
    <3> QED BY <1>1, <1>3, <1>4, <2>1, <2>4, <2>5, <3>1, <3>2, <3>3, <3>4, <3>5 DEF KeyOf
  <2> QED BY <2>1, <2>2, <2>6, <2>7 DEF ProcInv, StagingOf, ReportOf, Delivery
<1> QED BY <1>1, <1>5, <1>7, <1>8, Moves

\* An archive is done with.
LEMMA NextTaskKeeps ==
  ASSUME IInv, NEW p \in Proc, NextTask(p), run[p].step \in {"look", "record"},
         UNCHANGED <<src, built, artifact, overlapped, staging, outside>>,
         TypeInv => record' \in [Artifact -> CacheRecord \cup {None}],
         RecordInv',
         ~overlapped => artifact[run[p].task] \in Made /\ Fresh(p, artifact[run[p].task])
  PROVE  IInv'
<1> DEFINE r == [run[p] EXCEPT !.step = "lock", !.todo = @ \ {run[p].task}]
<1>1. TypeInv /\ run[p] \in Command /\ ProcInv(p)
  BY DEF IInv, TypeInv
<1>2. run' = [run EXCEPT ![p] = r]
  BY <1>1 DEF TypeInv, NextTask
<1>3. r \in Command
  BY <1>1, StepNames DEF Command
<1>4. TypeInv'
  <2>1. run' \in [Proc -> Command]
    BY <1>1, <1>2, <1>3 DEF TypeInv
  <2> QED BY <1>1, <2>1 DEF TypeInv, outside
<1>5. ASSUME run'[p] = r PROVE ProcInv(p)'
  <2>1. /\ run'[p].step = "lock" /\ run'[p].kinds = run[p].kinds /\ run'[p].since = run[p].since
        /\ run'[p].todo = run[p].todo \ {run[p].task} /\ run'[p].target = run[p].target
        /\ run'[p].manifest = run[p].manifest
    BY <1>1, <1>5 DEF Command
  <2>2. SinceOf(p)'
    BY <1>1, <2>1 DEF ProcInv, SinceOf, Publishing, Delivery
  <2>3. DoneOf(p)'
    BY <1>1, <2>1 DEF ProcInv, DoneOf, Packaging, Fresh
  <2> QED BY <2>1, <2>2, <2>3 DEF ProcInv, KeyOf, StagingOf, ReportOf, Delivery
<1> QED BY <1>2, <1>4, <1>5, Moves

LEMMA ReuseStep ==
  ASSUME IInv, NEW p \in Proc, Reuse(p), UNCHANGED publication
  PROVE  IInv'
<1>1. /\ TypeInv /\ run[p].step = "look" /\ ProcInv(p) /\ NextTask(p)
      /\ UNCHANGED <<src, built, artifact, record, overlapped, staging, outside>>
  BY DEF IInv, Reuse, publication, workspace
<1>2. RecordInv'
  BY <1>1 DEF IInv, RecordInv
<1>3. ASSUME ~overlapped
      PROVE  artifact[run[p].task] \in Made /\ Fresh(p, artifact[run[p].task])
  <2>1. /\ run[p].task \in Artifact /\ Fresh(p, run[p].key)
        /\ run[p].key \in [Reads(run[p].task) -> Nat]
    BY <1>1, <1>3 DEF ProcInv, KeyOf
  <2>2. artifact[run[p].task] = run[p].key
    BY <1>3, <2>1 DEF Reuse, Reusable, IInv, RecordInv
  <2>3. run[p].key \in Made
    BY <2>1, ReadsInputs, MadeOf
  <2> QED BY <2>1, <2>2, <2>3
<1> QED BY <1>1, <1>2, <1>3, NextTaskKeeps DEF TypeInv

\* Equal keys: nothing that was read has changed between them.
LEMMA RecordStep ==
  ASSUME IInv, NEW p \in Proc, Record(p) \/ LeaveUnrecorded(p), UNCHANGED publication
  PROVE  IInv'
<1> DEFINE t == run[p].task
           made == run[p].made
           key == run[p].key
<1>1. /\ TypeInv /\ run[p].step = "record" /\ ProcInv(p) /\ NextTask(p)
      /\ UNCHANGED <<src, built, artifact, overlapped, staging, outside>>
  BY DEF IInv, Record, LeaveUnrecorded, publication, workspace
<1>2. /\ t \in Artifact /\ key \in [Reads(t) -> Nat] /\ made \in [Reads(t) -> Nat]
      /\ \A i \in Reads(t) :
           /\ i \notin Trees => key[i] <= made[i] /\ made[i] <= src[i[2]]
           /\ i \in Trees /\ ~overlapped => made[i] = built[i]
      /\ ~overlapped => Fresh(p, made) /\ artifact[t] = made
  BY <1>1 DEF ProcInv, KeyOf
<1>3. key \in Made /\ made \in Made
  BY <1>2, ReadsInputs, MadeOf
<1>4. record' = record \/ record' = [record EXCEPT ![t] = [key |-> key, checksum |-> made]]
  BY DEF Record, LeaveUnrecorded
<1>5. record' \in [Artifact -> CacheRecord \cup {None}]
  <2>1. [key |-> key, checksum |-> made] \in CacheRecord
    BY <1>3 DEF CacheRecord
  <2> QED BY <1>1, <1>4, <2>1 DEF TypeInv
<1>6. ASSUME Record(p), ~overlapped
      PROVE  key = made
  <2>1. \A i \in Reads(t) : key[i] = IF i \in Trees THEN built[i] ELSE src[i[2]]
    BY <1>6 DEF Record, Contents
  <2>2. ASSUME NEW i \in Reads(t) PROVE key[i] = made[i]
    <3>1. CASE i \in Trees
      BY <1>2, <1>6, <2>1, <3>1
    <3>2. CASE i \notin Trees
      <4>1. key[i] = src[i[2]] /\ key[i] <= made[i] /\ made[i] <= src[i[2]]
        BY <1>2, <2>1, <3>2
      <4>2. key[i] \in Nat /\ made[i] \in Nat
        BY <1>2
      <4> QED BY <4>1, <4>2
    <3> QED BY <3>1, <3>2
  <2> QED BY <1>2, <2>2
<1>7. RecordInv'
  <2>1. CASE Record(p)
    <3>1. record' = [record EXCEPT ![t] = [key |-> key, checksum |-> made]]
      BY <2>1 DEF Record
    <3>2. record' \in [Artifact -> CacheRecord \cup {None}]
      BY <1>5
    <3>3. ASSUME NEW a \in Artifact, ~overlapped, record'[a] # None
          PROVE  record'[a].key = record'[a].checksum
      <4>1. CASE a = t
        BY <1>1, <1>2, <1>6, <2>1, <3>1, <3>3, <4>1 DEF TypeInv
      <4>2. CASE a # t
        BY <1>1, <3>1, <3>3, <4>2 DEF TypeInv, IInv, RecordInv
      <4> QED BY <4>1, <4>2
    <3> QED BY <1>1, <3>3 DEF RecordInv
  <2>2. CASE LeaveUnrecorded(p)
    BY <1>1, <2>2 DEF LeaveUnrecorded, IInv, RecordInv
  <2> QED BY <2>1, <2>2
<1> QED BY <1>1, <1>2, <1>3, <1>5, <1>7, NextTaskKeeps
------------------------------------------------------------------------------
(* Staging.                                                                *)

USE DEF Delivery

\* A publication goes on before its delivery: only its step changes.
LEMMA GoesTo ==
  ASSUME IInv, NEW p \in Proc, NEW step \in Publishing \ Delivery, Goto(p, step),
         run[p].target # "none" /\ run[p].todo = {}, run[p].step \notin {"idle", "build"},
         UNCHANGED <<src, built, artifact, record, overlapped, outside>>,
         staging' \in Tree,
         ~overlapped /\ step \in {"reset", "stage"} => run[p].step \in Packaging \cup {"reset", "stage"},
         ~overlapped /\ step = "stage" => staging' = Empty,
         ~overlapped /\ step \in {"sign", "sum"} =>
           \A f \in File : staging'[f] # None => Fresh(p, staging'[f])
  PROVE  IInv'
<1> DEFINE r == [run[p] EXCEPT !.step = step]
<1>1. TypeInv /\ run[p] \in Command /\ ProcInv(p)
  BY DEF IInv, TypeInv
<1>2. run' = [run EXCEPT ![p] = r]
  BY <1>1 DEF TypeInv, Goto
<1>3. r \in Command
  <2>1. step \in Steps
    BY DEF Steps, Publishing
  <2> QED BY <1>1, <2>1 DEF Command
<1>4. TypeInv' /\ RecordInv'
  <2>1. run' \in [Proc -> Command]
    BY <1>1, <1>2, <1>3 DEF TypeInv
  <2> QED BY <1>1, <2>1 DEF TypeInv, IInv, RecordInv, outside
<1>5. ASSUME run'[p] = r PROVE ProcInv(p)'
  <2>1. /\ run'[p].step = step /\ run'[p].kinds = run[p].kinds /\ run'[p].since = run[p].since
        /\ run'[p].todo = run[p].todo /\ run'[p].target = run[p].target
        /\ run'[p].manifest = run[p].manifest
    BY <1>1, <1>5 DEF Command
  <2>2. SinceOf(p)'
    BY <1>1, <2>1 DEF ProcInv, SinceOf, Publishing
  <2>3. DoneOf(p)'
    BY <1>1, <2>1 DEF ProcInv, DoneOf, Packaging, Publishing, Fresh
  <2>4. StagingOf(p)'
    BY <2>1 DEF StagingOf, Fresh
  <2> QED BY <2>1, <2>2, <2>3, <2>4 DEF ProcInv, KeyOf, ReportOf, Publishing
<1> QED BY <1>2, <1>4, <1>5, Moves

LEMMA InStaging ==
  ASSUME IInv, NEW p \in Proc, run[p].step \in {"reset", "stage", "sign", "sum"}
  PROVE  /\ run[p].target # "none" /\ run[p].todo = {} /\ run[p].kinds = Published
         /\ \A m \in Module : run[p].manifest[m] \in run[p].since[m]
BY DEF IInv, ProcInv, SinceOf, Publishing

\* The archives that are published.
LEMMA PrimariesFresh ==
  ASSUME IInv, NEW p \in Proc, run[p].step = "stage", NEW f \in Primary
  PROVE  /\ Primaries(p)[f] \in Made \cup {None}
         /\ ~overlapped => Fresh(p, Primaries(p)[f])
<1>1. TypeInv /\ run[p] \in Command /\ ProcInv(p)
  BY DEF IInv, TypeInv
<1>2. f[1] \in Module /\ f \in File
  BY DEF Primary, File
<1>3. CASE f[2] = "pom"
  <2> DEFINE c == [i \in {<<"manifest", f[1]>>} |-> run[p].manifest[f[1]]]
  <2>1. Primaries(p)[f] = c
    BY <1>3 DEF Primaries
  <2>2. run[p].manifest[f[1]] \in Nat
    BY <1>1, <1>2 DEF Command
  <2>3. {<<"manifest", f[1]>>} \in SUBSET Content
    BY <1>2 DEF Content
  <2>4. c \in [{<<"manifest", f[1]>>} -> Nat]
    BY <2>2
  <2>5. c \in Made
    BY <2>3, <2>4, MadeOf
  <2>6. Fresh(p, c)
    BY <1>2, InStaging DEF Fresh
  <2> QED BY <2>1, <2>5, <2>6
<1>4. CASE f[2] # "pom"
  <2> DEFINE a == <<f[1], f[2]>>
  <2>1. Primaries(p)[f] = artifact[a]
    BY <1>4 DEF Primaries
  <2>2. Published \in Seq(Kinds \ {"fat"})
    BY ReleaseAssumption
  <2>3. f[2] \in InSeq(Published)
    BY <1>2, <1>4 DEF File
  <2>4. PICK i \in DOMAIN Published : f[2] = Published[i]
    BY <2>3 DEF InSeq
  <2>5. f[2] \in Kinds \ {"fat"}
    BY <2>2, <2>4
  <2>6. a \in Artifact /\ a \in Tasks(Published)
    BY <1>2, <2>4, <2>5 DEF Tasks
  <2>7. artifact[a] \in Made \cup {None}
    BY <1>1, <2>6 DEF TypeInv
  <2>8. ~overlapped => Fresh(p, artifact[a])
    BY <1>1, <2>6, InStaging DEF ProcInv, DoneOf
  <2> QED BY <2>1, <2>7, <2>8
<1> QED BY <1>3, <1>4

LEMMA StagingStep ==
  ASSUME IInv, NEW p \in Proc,
         \/ Packaged(p) /\ run[p].target # "none"
         \/ ResetDirectory(p) \/ StageModules(p) \/ SignFiles(p)
  PROVE  IInv'
<1>1. TypeInv /\ run[p] \in Command /\ ProcInv(p) /\ staging \in Tree
  BY DEF IInv, TypeInv
<1>2. CASE Packaged(p) /\ run[p].target # "none"
  <2>1. /\ Goto(p, "reset") /\ run[p].step = "lock" /\ run[p].todo = {} /\ staging' = staging
        /\ UNCHANGED <<src, built, artifact, record, overlapped, outside>>
    BY <1>2 DEF Packaged, workspace, cache, publication
  <2> QED BY <1>1, <1>2, <2>1, GoesTo DEF Publishing, Packaging
<1>3. CASE ResetDirectory(p)
  <2>1. /\ Goto(p, "stage") /\ run[p].step = "reset" /\ staging' = Empty
        /\ UNCHANGED <<src, built, artifact, record, overlapped, outside>>
    BY <1>3 DEF ResetDirectory, workspace, cache
  <2>2. Empty \in Tree
    BY DEF Empty, Tree
  <2> QED BY <1>1, <2>1, <2>2, InStaging, GoesTo DEF Publishing, Packaging
<1>4. CASE StageModules(p)
  <2>1. /\ Goto(p, "sign") \/ Goto(p, "sum")
        /\ run[p].step = "stage"
        /\ staging' = [f \in File |-> IF f \in Primary THEN Primaries(p)[f] ELSE staging[f]]
        /\ UNCHANGED <<src, built, artifact, record, overlapped, outside>>
    BY <1>4 DEF StageModules, workspace, cache
  <2>2. staging' \in Tree
    BY <1>1, <2>1, PrimariesFresh DEF Tree
  <2>3. ~overlapped => \A f \in File : staging'[f] # None => Fresh(p, staging'[f])
    <3>1. ~overlapped => staging = Empty
      BY <1>1, <2>1 DEF ProcInv, StagingOf
    <3>2. \A f \in File : Empty[f] = None
      BY DEF Empty
    <3> QED BY <2>1, <3>1, <3>2, PrimariesFresh
  <2> QED BY <1>1, <2>1, <2>2, <2>3, InStaging, GoesTo DEF Publishing
<1>5. CASE SignFiles(p)
  <2>1. /\ Goto(p, "sum") /\ run[p].step = "sign" /\ Vouch("asc")
        /\ UNCHANGED <<src, built, artifact, record, overlapped, outside>>
    BY <1>5 DEF SignFiles, workspace, cache
  <2>2. \A f \in File : staging'[f] \in {staging[f], staging[Beside(f, "file")]}
    BY <2>1 DEF Vouch
  <2>3. \A f \in File : Beside(f, "file") \in File
    BY DEF Beside, File, InSeq, Parts
  <2>4. staging' \in Tree
    BY <1>1, <2>1, <2>3 DEF Vouch, Tree
  <2>5. ~overlapped => \A f \in File : staging'[f] # None => Fresh(p, staging'[f])
    BY <1>1, <2>1, <2>2, <2>3 DEF ProcInv, StagingOf
  <2> QED BY <1>1, <2>1, <2>4, <2>5, InStaging, GoesTo DEF Publishing
<1> QED BY <1>2, <1>3, <1>4, <1>5

LEMMA ChecksumStep ==
  ASSUME IInv, NEW p \in Proc, WriteChecksums(p)
  PROVE  IInv'
<1>1. TypeInv /\ run[p] \in Command /\ ProcInv(p) /\ staging \in Tree
  BY DEF IInv, TypeInv
<1>2. /\ run[p].step = "sum" /\ Vouch("sum")
      /\ UNCHANGED <<src, built, artifact, record, overlapped, outside>>
  BY DEF WriteChecksums, workspace, cache
<1>3. \A f \in File : staging'[f] \in {staging[f], staging[Beside(f, "file")]}
  BY <1>2 DEF Vouch
<1>4. \A f \in File : Beside(f, "file") \in File
  BY DEF Beside, File, InSeq, Parts
<1>5. staging' \in Tree
  BY <1>1, <1>2, <1>4 DEF Vouch, Tree
<1>6. ~overlapped => \A f \in File : staging'[f] # None => Fresh(p, staging'[f])
  BY <1>1, <1>2, <1>3, <1>4 DEF ProcInv, StagingOf
<1> DEFINE step == IF run[p].target = "central" THEN "bundle" ELSE "deliver"
           r == [run[p] EXCEPT !.report = staging', !.rest = Present(staging'), !.step = step]
<1>7. run' = [run EXCEPT ![p] = r]
  BY <1>1 DEF TypeInv, WriteChecksums
<1>8. r \in Command
  <2>1. Present(staging') \in SUBSET File
    BY DEF Present
  <2>2. ASSUME NEW c \in Command, NEW tree \in Tree, NEW rest \in SUBSET File,
               NEW s \in {"bundle", "deliver"}
        PROVE  [c EXCEPT !.report = tree, !.rest = rest, !.step = s] \in Command
    BY StepNames DEF Command
  <2>3. step \in {"bundle", "deliver"}
    OBVIOUS
  <2> QED BY <1>1, <1>5, <2>1, <2>2, <2>3
<1>9. TypeInv' /\ RecordInv'
  <2>1. run' \in [Proc -> Command]
    BY <1>1, <1>7, <1>8 DEF TypeInv
  <2> QED BY <1>1, <1>2, <1>5, <2>1 DEF TypeInv, IInv, RecordInv, outside
<1>10. ASSUME run'[p] = r PROVE ProcInv(p)'
  <2>1. /\ run'[p].step = step /\ run'[p].report = staging' /\ run'[p].since = run[p].since
        /\ run'[p].kinds = run[p].kinds /\ run'[p].todo = run[p].todo
        /\ run'[p].target = run[p].target /\ run'[p].manifest = run[p].manifest
    BY <1>1, <1>10 DEF Command
  <2>2. SinceOf(p)'
    BY <1>1, <1>2, <2>1 DEF ProcInv, SinceOf, Publishing
  <2>3. ReportOf(p)'
    BY <1>2, <1>6, <2>1 DEF ReportOf, Fresh
  <2> QED BY <2>1, <2>2, <2>3 DEF ProcInv, KeyOf, DoneOf, StagingOf, Packaging
<1> QED BY <1>2, <1>7, <1>9, <1>10, Moves
------------------------------------------------------------------------------
(* Delivery: what a publication has done so far.  One publication at a     *)
(* time has the staging directory.                                         *)

OnePublisher == \A p, q \in Proc : run[p].target # "none" /\ run[q].target # "none" => p = q

\* Every file vouches for the one beside it, nothing but a signature is missing.
Whole(tree) ==
  /\ \A f \in Present(tree) : tree[f] = tree[Beside(f, "file")]
  /\ \A f \in Primary : {f, Beside(f, "sum")} \subseteq Present(tree)

\* StageModules has been here: archives and POMs, and at most signatures.
Staged ==
  /\ \A f \in Primary : staging[f] # None
  /\ \A f \in File : f[3] = "asc" => staging[f] \in {None, staging[Beside(f, "file")]}

Reported(p) == run[p].report = staging /\ Whole(staging)

StagedOf(p) ==
  /\ run[p].step = "stage" => staging = Empty
  /\ run[p].step \in {"sign", "sum"} => Staged
  /\ run[p].step \in Delivery => Reported(p)
  /\ run[p].step \in {"deliver", "rename"} => run[p].target # "central"
  /\ run[p].step \in {"bundle", "upload", "poll"} => run[p].target = "central"

\* What is not left to deliver has arrived.
SentOf(p) ==
  /\ run[p].step \in {"deliver", "rename"} =>
       \A f \in Present(staging) \ run[p].rest : store[run[p].target][f] = staging[f]
  /\ run[p].step = "rename" => /\ run[p].target = "local"
                               /\ run[p].file \in File /\ run[p].made = staging[run[p].file]
  /\ run[p].step = "upload" => bundle = staging
  /\ run[p].step = "poll" => /\ run[p].deployment \in DOMAIN deployments
                             /\ deployments[run[p].deployment].files = staging
                             /\ deployments[run[p].deployment].automatic = run[p].automatic

\* Central serves what was published first.
CentralInv ==
  \A i \in DOMAIN deployments :
    /\ "central" \in Targets
    /\ deployments[i].files \in Tree /\ Whole(deployments[i].files)
    /\ deployments[i].state = "PUBLISHED" => store["central"] = deployments[i].files

DInv ==
  /\ store \in [Targets -> Tree]
  /\ OnePublisher /\ CentralInv /\ PomMeansArtifacts
  /\ \A p \in Proc : StagedOf(p) /\ SentOf(p)

LEMMA FilesOf ==
  ASSUME NEW f \in File
  PROVE  /\ f = <<f[1], f[2], f[3]>> /\ f[1] \in Module /\ f[2] \in {"pom", "thin", "sources", "javadoc"}
         /\ f[3] \in {"file", "asc", "sum"}
         /\ Beside(f, "file") \in Primary /\ Beside(f, "sum") \in File
         /\ f[3] = "file" => f \in Primary /\ Beside(f, "file") = f
<1>1. InSeq(Parts) = {"file", "asc", "sum"}
  BY DEF InSeq, Parts
<1>2. InSeq(Published) \subseteq {"thin", "sources", "javadoc"}
  BY ReleaseAssumption DEF InSeq, Kinds
<1> QED BY <1>1, <1>2 DEF File, Primary, Beside

LEMMA BesideTwice ==
  ASSUME NEW f, NEW part
  PROVE  Beside(Beside(f, part), "file") = Beside(f, "file") /\ Beside(f, part)[3] = part
BY DEF Beside

\* In the order of the paths a POM comes after the archives of its module.
LEMMA PomComesLast ==
  ASSUME NEW m \in Module, NEW f \in File, f[1] = m, f[2] # "pom", <<m, "pom", "file">> \in File
  PROVE  ~(Rank[<<m, "pom", "file">>] <= Rank[f])
<1>1. \A s, x : Place(s, x) = CHOOSE i \in DOMAIN s : s[i] = x
  BY DEF Place
<1>2. Place(Names, "pom") = 4
  BY <1>1 DEF Names
<1>3. Place(Names, f[2]) \in 1..3
  <2>1. f[2] \in {"thin", "sources", "javadoc"}
    BY FilesOf
  <2>2. \E i \in DOMAIN Names : Names[i] = f[2]
    BY <2>1 DEF Names
  <2>3. Place(Names, f[2]) \in DOMAIN Names /\ Names[Place(Names, f[2])] = f[2]
    BY <2>2, <1>1, Zenon
  <2> QED BY <2>1, <2>3 DEF Names
<1>4. Place(Parts, "file") = 1
  BY <1>1 DEF Parts
<1>5. Place(Parts, f[3]) \in 1..3
  <2>1. \E i \in DOMAIN Parts : Parts[i] = f[3]
    BY FilesOf DEF Parts
  <2>2. Place(Parts, f[3]) \in DOMAIN Parts
    BY <2>1, <1>1, Zenon
  <2> QED BY <2>2 DEF Parts
<1>6. Place(ByPath, m) \in Nat
  <2>1. \E i \in DOMAIN ByPath : ByPath[i] = m
    BY ReleaseAssumption
  <2>2. Place(ByPath, m) \in DOMAIN ByPath
    BY <2>1, <1>1, Zenon
  <2> QED BY <2>2, ReleaseAssumption
<1>7. /\ Rank[f] = (Place(ByPath, m) * 4 + Place(Names, f[2])) * 3 + Place(Parts, f[3])
      /\ Rank[<<m, "pom", "file">>] = (Place(ByPath, m) * 4 + 4) * 3 + 1
  BY <1>2, <1>4 DEF Rank
<1> HIDE DEF Rank
<1> QED BY <1>3, <1>5, <1>6, <1>7
LEMMA InitDelivery == Init => DInv
<1> SUFFICES ASSUME Init PROVE DInv
  OBVIOUS
<1>1. \A p \in Proc : run[p].step = "idle" /\ run[p].target = "none"
  BY DEF Init, Idle
<1>2. store = [t \in Targets |-> Empty] /\ deployments = <<>>
  BY DEF Init
<1>3. Empty \in Tree /\ \A f \in File : Empty[f] = None
  BY DEF Empty, Tree
<1>4. store \in [Targets -> Tree]
  BY <1>2, <1>3
<1>5. OnePublisher /\ \A p \in Proc : StagedOf(p) /\ SentOf(p)
  BY <1>1 DEF OnePublisher, StagedOf, SentOf
<1>6. CentralInv
  BY <1>2 DEF CentralInv
<1>7. PomMeansArtifacts
  <2> SUFFICES ASSUME "repository" \in Targets, NEW m \in Module,
                      store["repository"][<<m, "pom", "file">>] # None
               PROVE  FALSE
    BY DEF PomMeansArtifacts
  <2>1. <<m, "pom", "file">> \in File
    BY DEF File, InSeq, Parts
  <2> QED BY <1>2, <1>3, <2>1
<1> QED BY <1>4, <1>5, <1>6, <1>7 DEF DInv

\* The publication itself moves: nobody else is at a step that says anything.
LEMMA PublisherMoves ==
  ASSUME IInv, IInv', DInv, NEW p \in Proc, run[p].target # "none",
         NEW r, run' = [run EXCEPT ![p] = r], r.target \in {run[p].target, "none"},
         store' \in [Targets -> Tree], CentralInv', PomMeansArtifacts',
         run'[p] = r => StagedOf(p)' /\ SentOf(p)'
  PROVE  DInv'
<1>1. run'[p] = r /\ \A q \in Proc \ {p} : run'[q] = run[q]
  BY DEF IInv, TypeInv
<1>2. \A q \in Proc \ {p} : run[q].target = "none"
  BY DEF DInv, OnePublisher
<1>3. OnePublisher'
  BY <1>1, <1>2 DEF OnePublisher
<1>4. ASSUME NEW q \in Proc \ {p} PROVE StagedOf(q)' /\ SentOf(q)'
  <2>1. run'[q].target = "none"
    BY <1>1, <1>2
  <2>2. run'[q].step \notin Publishing
    BY <2>1 DEF IInv, ProcInv, SinceOf
  <2> QED BY <2>2 DEF StagedOf, SentOf, Publishing
<1> QED BY <1>1, <1>3, <1>4 DEF DInv

SameDelivery == staging' = staging /\ bundle' = bundle /\ store' = store /\ deployments' = deployments

\* What q has staged and sent is as it was, or q says nothing of it.
SameOf(q) ==
  \/ run'[q].step \notin Publishing \ {"reset"}
  \/ /\ run'[q].step = run[q].step /\ run'[q].target = run[q].target
     /\ run'[q].report = run[q].report /\ run'[q].rest = run[q].rest
     /\ run'[q].file = run[q].file /\ run'[q].made = run[q].made
     /\ run'[q].deployment = run[q].deployment /\ run'[q].automatic = run[q].automatic

\* Everything delivered stays.
LEMMA DeliveryRests ==
  ASSUME DInv, SameDelivery, OnePublisher', \A q \in Proc : SameOf(q)
  PROVE  DInv'
<1>1. ASSUME NEW q \in Proc PROVE StagedOf(q)' /\ SentOf(q)'
  <2>1. StagedOf(q) /\ SentOf(q) /\ SameOf(q)
    BY DEF DInv
  <2>2. CASE run'[q].step \notin Publishing \ {"reset"}
    BY <2>2 DEF StagedOf, SentOf, Publishing
  <2>3. CASE run'[q].step \in Publishing \ {"reset"}
    <3>1. StagedOf(q)'
      BY <2>1, <2>3 DEF SameOf, SameDelivery, StagedOf, Staged, Reported, Whole, Present
    <3>2. SentOf(q)'
      BY <2>1, <2>3 DEF SameOf, SameDelivery, SentOf, Present
    <3> QED BY <3>1, <3>2
  <2> QED BY <2>2, <2>3
<1>2. CentralInv' /\ PomMeansArtifacts' /\ store' \in [Targets -> Tree]
  BY DEF DInv, SameDelivery, CentralInv, PomMeansArtifacts, Whole, Present
<1> QED BY <1>1, <1>2 DEF DInv

\* ... when only p moves, and stays or gives up the publisher.
LEMMA OneRests ==
  ASSUME IInv, DInv, SameDelivery, NEW p \in Proc, NEW r, run' = [run EXCEPT ![p] = r],
         r.target \in {run[p].target, "none"}, r.step \notin Publishing \ {"reset"}
  PROVE  DInv'
<1>1. run'[p] = r /\ \A q \in Proc \ {p} : run'[q] = run[q]
  BY DEF IInv, TypeInv
<1>2. OnePublisher'
  <2>1. \A q \in Proc : run'[q].target \in {run[q].target, "none"}
    BY <1>1
  <2> QED BY <2>1 DEF DInv, OnePublisher
<1>3. \A q \in Proc : SameOf(q)
  BY <1>1 DEF SameOf
<1> QED BY <1>2, <1>3, DeliveryRests

LEMMA WorkKeepsDelivery ==
  ASSUME IInv, DInv, NEW p \in Proc, UNCHANGED publication,
         PackageStep(p) \/ \E t \in Trees : Swap(p, t)
  PROVE  DInv'
<1>1. SameDelivery /\ run \in [Proc -> Command]
  BY DEF publication, outside, SameDelivery, IInv, TypeInv
<1>2. CASE \E t \in Trees : Swap(p, t)
  <2>1. run' = run
    BY <1>2 DEF Swap
  <2>2. OnePublisher' /\ \A q \in Proc : SameOf(q)
    BY <2>1 DEF DInv, OnePublisher, SameOf
  <2> QED BY <1>1, <2>2, DeliveryRests
<1>3. CASE PackageStep(p)
  <2>1. PICK r : /\ run' = [run EXCEPT ![p] = r] /\ r.target = run[p].target
                 /\ r.step \in {"lock", "look", "record"}
    <3>1. run[p] \in Command
      BY <1>1
    <3>2. CASE Compile(p)
      <4> DEFINE r == [run[p] EXCEPT !.step = "lock", !.todo = Tasks(run[p].kinds)]
      <4>1. run' = [run EXCEPT ![p] = r]
        BY <1>1, <3>1, <3>2 DEF Compile, Command
      <4>2. r.target = run[p].target /\ r.step = "lock"
        BY <3>1 DEF Command
      <4> HIDE DEF r
      <4> QED BY <4>1, <4>2
    <3>3. CASE Lock(p)
      <4>1. PICK a \in run[p].todo :
              run' = [run EXCEPT ![p].step = "look", ![p].task = a, ![p].key = Contents(a)]
        BY <3>3 DEF Lock
      <4> DEFINE r == [run[p] EXCEPT !.step = "look", !.task = a, !.key = Contents(a)]
      <4>2. run' = [run EXCEPT ![p] = r]
        BY <1>1, <3>1, <4>1 DEF Command
      <4>3. r.target = run[p].target /\ r.step = "look"
        BY <3>1 DEF Command
      <4> HIDE DEF r
      <4> QED BY <4>2, <4>3
    <3>4. CASE Archive(p)
      <4> DEFINE r == [run[p] EXCEPT !.step = "record", !.made = Contents(Task(p))]
      <4>1. run' = [run EXCEPT ![p] = r]
        BY <1>1, <3>1, <3>4 DEF Archive, Command
      <4>2. r.target = run[p].target /\ r.step = "record"
        BY <3>1 DEF Command
      <4> HIDE DEF r
      <4> QED BY <4>1, <4>2
    <3>5. CASE Reuse(p) \/ Record(p) \/ LeaveUnrecorded(p)
      <4> DEFINE r == [run[p] EXCEPT !.step = "lock", !.todo = @ \ {Task(p)}]
      <4>1. run' = [run EXCEPT ![p] = r]
        BY <1>1, <3>1, <3>5 DEF Reuse, Record, LeaveUnrecorded, NextTask, Command
      <4>2. r.target = run[p].target /\ r.step = "lock"
        BY <3>1 DEF Command
      <4> HIDE DEF r
      <4> QED BY <4>1, <4>2
    <3> QED BY <1>3, <3>2, <3>3, <3>4, <3>5 DEF PackageStep
  <2>2. r.step \notin Publishing \ {"reset"}
    BY <2>1 DEF Publishing
  <2> QED BY <1>1, <2>1, <2>2, OneRests
<1> QED BY <1>2, <1>3

LEMMA CommandsKeepDelivery ==
  ASSUME IInv, IInv', DInv, NEW p \in Proc,
         \/ StartBuild(p) \/ StartPublish(p) \/ Stop(p) \/ Packaged(p) \/ Delivered(p) \/ DryRun(p)
         \/ PollTerminal(p) \/ GiveUp(p)
  PROVE  DInv'
<1>0. run \in [Proc -> Command] /\ run[p] \in Command
  BY DEF IInv, TypeInv
<1>1. SameDelivery
  BY DEF StartBuild, StartPublish, Start, Stop, Packaged, Delivered, DryRun, PollTerminal, GiveUp,
         publication, outside, SameDelivery
<1>2. CASE StartBuild(p) \/ StartPublish(p)
  <2>1. PICK r : /\ run' = [run EXCEPT ![p] = r] /\ r.step = "build"
                 /\ r.target # "none" => \A q \in Proc : run[q].target = "none"
    <3>1. PICK c \in Command :
            Start(p, c) /\ (c.target # "none" => \A q \in Proc : run[q].target = "none")
      <4>1. CASE StartBuild(p)
        <5>1. PICK kinds \in Builds, rebuild \in BOOLEAN :
                Start(p, [Idle EXCEPT !.kinds = kinds, !.rebuild = rebuild])
          BY <4>1 DEF StartBuild
        <5>2. [Idle EXCEPT !.kinds = kinds, !.rebuild = rebuild] \in Command
          BY IdleType, ReleaseAssumption DEF Command
        <5>3. [Idle EXCEPT !.kinds = kinds, !.rebuild = rebuild].target = "none"
          BY DEF Idle
        <5> QED BY <5>1, <5>2, <5>3
      <4>2. CASE StartPublish(p)
        <5>1. PICK target \in Targets, sign \in BOOLEAN, automatic \in BOOLEAN :
                Start(p, ToPublish(Idle, Published, target, sign, automatic))
          BY <4>2 DEF StartPublish, ToPublish
        <5>2. Published \in Seq(Kinds)
          BY ReleaseAssumption
        <5>3. ToPublish(Idle, Published, target, sign, automatic) \in Command
          BY <5>2, IdleType, AskedToPublish
        <5>4. \A q \in Proc : run[q].target = "none"
          BY <4>2 DEF StartPublish
        <5> QED BY <5>1, <5>3, <5>4
      <4> QED BY <1>2, <4>1, <4>2
    <3> DEFINE r == [c EXCEPT !.step = "build", !.since = [m \in Module |-> {src[m]}],
                              !.manifest = src]
    <3>2. r.step = "build" /\ r.target = c.target
      BY DEF Command
    <3>3. run' = [run EXCEPT ![p] = r]
      BY <3>1 DEF Start
    <3> HIDE DEF r
    <3> QED BY <3>1, <3>2, <3>3
  <2>2. run'[p] = r /\ \A q \in Proc \ {p} : run'[q] = run[q]
    BY <1>0, <2>1
  <2>3. OnePublisher'
    BY <2>1, <2>2 DEF DInv, OnePublisher
  <2>4. \A q \in Proc : SameOf(q)
    BY <2>1, <2>2 DEF SameOf, Publishing
  <2> QED BY <1>1, <2>3, <2>4, DeliveryRests
<1>3. CASE \/ Stop(p) \/ Delivered(p) \/ DryRun(p) \/ PollTerminal(p) \/ GiveUp(p)
           \/ Packaged(p) /\ run[p].target = "none"
  <2>1. run' = [run EXCEPT ![p] = Idle]
    BY <1>3 DEF Stop, Delivered, DryRun, PollTerminal, GiveUp, Packaged, Succeed
  <2>2. Idle.step \notin Publishing /\ Idle.target = "none"
    BY DEF Idle, Publishing
  <2> QED BY <1>1, <2>1, <2>2, OneRests
<1>4. CASE Packaged(p) /\ run[p].target # "none"
  <2> DEFINE r == [run[p] EXCEPT !.step = "reset"]
  <2>1. run' = [run EXCEPT ![p] = r]
    BY <1>0, <1>4 DEF Packaged, Goto
  <2>2. r.step = "reset" /\ r.target = run[p].target
    BY <1>0 DEF Command
  <2> HIDE DEF r
  <2> QED BY <1>1, <2>1, <2>2, OneRests
<1> QED BY <1>2, <1>3, <1>4

LEMMA EditKeepsDelivery ==
  ASSUME IInv, DInv, NEW m \in Module, Edit(m)
  PROVE  DInv'
<1>1. SameDelivery
  BY DEF Edit, publication, outside, SameDelivery
<1>2. ASSUME NEW p \in Proc
      PROVE  /\ run'[p].step = run[p].step /\ run'[p].target = run[p].target
             /\ run'[p].report = run[p].report /\ run'[p].rest = run[p].rest
             /\ run'[p].file = run[p].file /\ run'[p].made = run[p].made
             /\ run'[p].deployment = run[p].deployment /\ run'[p].automatic = run[p].automatic
  <2>1. run[p] \in Command
    BY DEF IInv, TypeInv
  <2>2. run'[p] = IF Running(p) THEN [run[p] EXCEPT !.since[m] = @ \cup {src[m] + 1}] ELSE run[p]
    BY DEF Edit
  <2> QED BY <2>1, <2>2 DEF Command
<1>3. OnePublisher' /\ \A q \in Proc : SameOf(q)
  BY <1>2 DEF DInv, OnePublisher, SameOf
<1> QED BY <1>1, <1>3, DeliveryRests

\* Up to the report nothing leaves the workspace.
Inside == bundle' = bundle /\ store' = store /\ deployments' = deployments

LEMMA OutsideKept ==
  ASSUME DInv, Inside
  PROVE  store' \in [Targets -> Tree] /\ CentralInv' /\ PomMeansArtifacts'
BY DEF DInv, Inside, CentralInv, PomMeansArtifacts, Whole, Present

LEMMA StagingKeepsDelivery ==
  ASSUME IInv, IInv', DInv, NEW p \in Proc,
         ResetDirectory(p) \/ StageModules(p) \/ SignFiles(p) \/ WriteChecksums(p)
  PROVE  DInv'
<1>1. /\ run \in [Proc -> Command] /\ run[p] \in Command /\ staging \in Tree
      /\ StagedOf(p) /\ run[p].target # "none"
  BY DEF IInv, TypeInv, DInv, ProcInv, SinceOf, Publishing, ResetDirectory, StageModules, SignFiles,
         WriteChecksums
<1>2. store' \in [Targets -> Tree] /\ CentralInv' /\ PomMeansArtifacts'
  BY OutsideKept DEF Inside, ResetDirectory, StageModules, SignFiles, WriteChecksums, outside
<1>3. CASE ResetDirectory(p) \/ StageModules(p) \/ SignFiles(p)
  <2>1. PICK step \in {"stage", "sign", "sum"} :
          /\ Goto(p, step)
          /\ step = "stage" => staging' = Empty
          /\ step # "stage" => Staged'
    <3>1. CASE ResetDirectory(p)
      BY <3>1 DEF ResetDirectory
    <3>2. CASE StageModules(p)
      <4>1. /\ \A f \in Primary : Primaries(p)[f] # None
            /\ staging' = [f \in File |-> IF f \in Primary THEN Primaries(p)[f] ELSE staging[f]]
            /\ staging = Empty
        BY <1>1, <3>2 DEF StageModules, StagedOf
      <4>2. \A f \in File : staging'[f] = IF f \in Primary THEN Primaries(p)[f] ELSE None
        BY <4>1 DEF Empty
      <4>3. \A f \in Primary : f \in File /\ f[3] = "file"
        BY DEF Primary
      <4>4. Staged'
        BY <4>1, <4>2, <4>3 DEF Staged
      <4> QED BY <3>2, <4>4 DEF StageModules
    <3>3. CASE SignFiles(p)
      <4>1. /\ Staged /\ Goto(p, "sum")
            /\ staging' = [f \in File |-> IF f[3] = "asc" THEN staging[Beside(f, "file")] ELSE staging[f]]
        BY <1>1, <3>3 DEF SignFiles, Vouch, StagedOf
      <4>2. \A f \in Primary : f \in File /\ f[3] = "file" /\ staging'[f] = staging[f]
        BY <4>1 DEF Primary
      <4>3. Staged'
        BY <4>1, <4>2, FilesOf DEF Staged
      <4> QED BY <4>1, <4>3
    <3> QED BY <1>3, <3>1, <3>2, <3>3
  <2> DEFINE r == [run[p] EXCEPT !.step = step]
  <2>2. run' = [run EXCEPT ![p] = r]
    BY <1>1, <2>1 DEF Goto
  <2>3. r.step = step /\ r.target = run[p].target
    BY <1>1 DEF Command
  <2>4. run'[p] = r => StagedOf(p)' /\ SentOf(p)'
    BY <2>1, <2>3 DEF StagedOf, SentOf
  <2> HIDE DEF r
  <2> QED BY <1>1, <1>2, <2>2, <2>3, <2>4, PublisherMoves
<1>4. CASE WriteChecksums(p)
  <2> DEFINE step == IF run[p].target = "central" THEN "bundle" ELSE "deliver"
             r == [run[p] EXCEPT !.report = staging', !.rest = Present(staging'), !.step = step]
  <2>1. run' = [run EXCEPT ![p] = r]
    BY <1>1, <1>4 DEF WriteChecksums
  <2>2. /\ r.step = step /\ r.target = run[p].target /\ r.report = staging'
        /\ r.rest = Present(staging')
    BY <1>1 DEF Command
  <2>3. /\ Staged
        /\ \A f \in File : staging'[f] = IF f[3] = "sum" THEN staging[Beside(f, "file")] ELSE staging[f]
    BY <1>1, <1>4 DEF WriteChecksums, Vouch, StagedOf
  <2>4. \A f \in Primary : f \in File /\ f[3] = "file"
    BY DEF Primary
  <2>5. Whole(staging')
    <3>1. ASSUME NEW f \in Present(staging')
          PROVE  staging'[f] = staging'[Beside(f, "file")]
      <4>1. f \in File /\ staging'[f] # None
        BY DEF Present
      <4>2. staging'[Beside(f, "file")] = staging[Beside(f, "file")]
        BY <2>3, <2>4, <4>1, FilesOf
      <4>3. f[3] = "file" => staging'[f] = staging'[Beside(f, "file")]
        BY <4>1, FilesOf
      <4>4. f[3] = "asc" => staging'[f] = staging[Beside(f, "file")]
        BY <2>3, <4>1 DEF Staged
      <4> QED BY <2>3, <4>1, <4>2, <4>3, <4>4, FilesOf
    <3>2. ASSUME NEW f \in Primary
          PROVE  f \in Present(staging') /\ Beside(f, "sum") \in Present(staging')
      <4>1. f \in File /\ Beside(f, "sum") \in File /\ Beside(f, "file") = f
        BY <2>4, FilesOf
      <4>2. staging'[f] = staging[f] /\ staging[f] # None
        BY <2>3, <2>4 DEF Staged
      <4>3. staging'[Beside(f, "sum")] = staging[f]
        BY <2>3, <4>1, BesideTwice
      <4> QED BY <4>1, <4>2, <4>3 DEF Present
    <3> QED BY <3>1, <3>2 DEF Whole
  <2>6. ASSUME run'[p] = r PROVE StagedOf(p)' /\ SentOf(p)'
    <3> HIDE DEF r
    <3>1. StagedOf(p)'
      BY <2>2, <2>5, <2>6 DEF StagedOf, Reported, Whole, Present
    <3>2. SentOf(p)'
      BY <2>2, <2>6 DEF SentOf, Present
    <3> QED BY <3>1, <3>2
  <2> HIDE DEF r
  <2> QED BY <1>1, <1>2, <2>1, <2>2, <2>6, PublisherMoves
<1> QED BY <1>3, <1>4

\* One target gets one file, or loses it for a moment.
\* One file of one target is now c, and nothing else has changed.
OnlyFile(t, f, c) ==
  /\ store' \in [Targets -> Tree]
  /\ \A u \in Targets \ {t} : store'[u] = store[u]
  /\ store'[t][f] = c /\ \A g \in File \ {f} : store'[t][g] = store[t][g]

LEMMA OneFile ==
  ASSUME DInv, NEW t, NEW f, NEW c, t \in Targets, f \in File, c \in Made \cup {None},
         store' = [store EXCEPT ![t][f] = c]
  PROVE  OnlyFile(t, f, c)
<1> DEFINE tree == [store[t] EXCEPT ![f] = c]
<1>1. store \in [Targets -> Tree] /\ store[t] \in Tree
  BY DEF DInv
<1>2. tree \in Tree /\ \A g \in File : tree[g] = IF g = f THEN c ELSE store[t][g]
  BY <1>1 DEF Tree
<1>3. store' = [store EXCEPT ![t] = tree]
  OBVIOUS
<1> HIDE DEF tree
<1> QED BY <1>1, <1>2, <1>3 DEF OnlyFile

LEMMA LocalKeepsDelivery ==
  ASSUME IInv, IInv', DInv, NEW p \in Proc, Rename(p) \/ \E f \in File : Unlink(p, f)
  PROVE  DInv'
<1>1. /\ run \in [Proc -> Command] /\ run[p] \in Command /\ staging \in Tree
      /\ StagedOf(p) /\ SentOf(p) /\ run[p].step \in {"deliver", "rename"}
      /\ run[p].target = "local" /\ "local" \in Targets
  <2>1. run \in [Proc -> Command] /\ staging \in Tree /\ StagedOf(p) /\ SentOf(p)
    BY DEF IInv, TypeInv, DInv
  <2>2. run[p] \in Command /\ run[p].step \in {"deliver", "rename"} /\ run[p].target = "local"
    BY <2>1 DEF SentOf, Rename, Unlink, Delivering
  <2> QED BY <2>1, <2>2 DEF Command
<1>2. staging' = staging /\ bundle' = bundle /\ deployments' = deployments
  BY DEF Rename, Unlink
<1>3. PICK f \in File, r \in Command :
        /\ run' = [run EXCEPT ![p] = r] /\ r.target = "local" /\ r.report = run[p].report
        /\ \/ /\ store' = [store EXCEPT !["local"][f] = None]
              /\ f \in run[p].rest /\ r.rest = run[p].rest /\ r.step = "rename"
              /\ r.file = f /\ r.made = staging[f]
           \/ /\ store' = [store EXCEPT !["local"][f] = staging[f]]
              /\ r.rest = run[p].rest \ {f} /\ r.step = "deliver"
  <2>1. CASE Rename(p)
    <3> DEFINE f == run[p].file
               r == [run[p] EXCEPT !.step = "deliver", !.rest = @ \ {f}]
    <3>1. f \in File /\ run[p].made = staging[f]
      BY <1>1, <2>1 DEF SentOf, Rename
    <3>2. run' = [run EXCEPT ![p] = r] /\ store' = [store EXCEPT !["local"][f] = staging[f]]
      BY <1>1, <2>1, <3>1 DEF Rename
    <3>3. r.target = "local" /\ r.report = run[p].report /\ r.rest = run[p].rest \ {f}
          /\ r.step = "deliver"
      BY <1>1 DEF Command
    <3> HIDE DEF r
    <3>4. r \in Command
      BY <1>1, <3>2 DEF IInv, TypeInv
    <3> QED BY <3>1, <3>2, <3>3, <3>4
  <2>2. CASE \E f \in File : Unlink(p, f)
    <3>1. PICK f \in File : Unlink(p, f)
      BY <2>2
    <3> DEFINE r == [run[p] EXCEPT !.step = "rename", !.file = f, !.made = staging[f]]
    <3>2. /\ run' = [run EXCEPT ![p] = r] /\ store' = [store EXCEPT !["local"][f] = None]
          /\ f \in run[p].rest
      BY <1>1, <3>1 DEF Unlink, NextFile
    <3>3. /\ r.target = "local" /\ r.report = run[p].report /\ r.rest = run[p].rest
          /\ r.step = "rename" /\ r.file = f /\ r.made = staging[f]
      BY <1>1 DEF Command
    <3> HIDE DEF r
    <3>4. r \in Command
      BY <1>1, <3>2 DEF IInv, TypeInv
    <3> QED BY <3>2, <3>3, <3>4
  <2> QED BY <2>1, <2>2
<1>4. PICK c :
        /\ store' = [store EXCEPT !["local"][f] = c]
        /\ \/ c = None /\ f \in run[p].rest /\ r.rest = run[p].rest
           \/ c = staging[f] /\ r.rest = run[p].rest \ {f}
  BY <1>3
<1>5. c \in Made \cup {None}
  BY <1>1, <1>4 DEF Tree
<1>6. /\ store' \in [Targets -> Tree]
      /\ \A u \in Targets \ {"local"} : store'[u] = store[u]
      /\ store'["local"][f] = c /\ \A g \in File \ {f} : store'["local"][g] = store["local"][g]
  <2>1. "local" \in Targets /\ store' = [store EXCEPT !["local"][f] = c]
    BY <1>1, <1>4
  <2>2. OnlyFile("local", f, c)
    BY <1>5, <2>1, OneFile
  <2> QED BY <2>2 DEF OnlyFile
<1>7. CentralInv' /\ PomMeansArtifacts'
  <2>1. "central" \in Targets => store'["central"] = store["central"]
    BY <1>6
  <2>2. "repository" \in Targets => store'["repository"] = store["repository"]
    BY <1>6
  <2> QED BY <1>2, <2>1, <2>2 DEF DInv, CentralInv, PomMeansArtifacts, Whole, Present
<1>8. ASSUME run'[p] = r PROVE StagedOf(p)' /\ SentOf(p)'
  <2>1. StagedOf(p)'
    BY <1>1, <1>2, <1>3, <1>8 DEF StagedOf, Reported, Whole, Present
  <2>2. \A g \in Present(staging) \ run[p].rest : store["local"][g] = staging[g]
    BY <1>1 DEF SentOf
  <2>3. ASSUME NEW g \in Present(staging) \ r.rest
        PROVE  store'["local"][g] = staging[g]
    <3>1. g \in File /\ staging[g] # None
      BY DEF Present
    <3>2. CASE g = f
      BY <1>4, <1>6, <2>3, <3>1, <3>2
    <3>3. CASE g # f
      BY <1>4, <1>6, <2>2, <2>3, <3>1, <3>3
    <3> QED BY <3>2, <3>3
  <2>4. Present(staging)' = Present(staging)
    BY <1>2 DEF Present
  <2>5. SentOf(p)'
    BY <1>2, <1>3, <1>8, <2>3, <2>4 DEF SentOf
  <2> QED BY <2>1, <2>5
<1> QED BY <1>1, <1>3, <1>6, <1>7, <1>8, PublisherMoves

LEMMA UploadKeepsDelivery ==
  ASSUME IInv, IInv', DInv, NEW p \in Proc, NEW f \in File,
         Upload(p, f) \/ UploadUnanswered(p, f)
  PROVE  DInv'
<1>1. /\ run \in [Proc -> Command] /\ run[p] \in Command /\ staging \in Tree
      /\ StagedOf(p) /\ SentOf(p) /\ run[p].step = "deliver"
      /\ run[p].target = "repository" /\ "repository" \in Targets
      /\ NextFile(p, f) /\ staging[f] # None
      /\ store' = [store EXCEPT !["repository"][f] = staging[f]]
      /\ staging' = staging /\ bundle' = bundle /\ deployments' = deployments
  BY DEF IInv, TypeInv, DInv, Command, Upload, UploadUnanswered, Accept, Delivering
<1>2. /\ store' \in [Targets -> Tree]
      /\ \A u \in Targets \ {"repository"} : store'[u] = store[u]
      /\ store'["repository"][f] = staging[f]
      /\ \A g \in File \ {f} : store'["repository"][g] = store["repository"][g]
  <2>1. staging[f] \in Made \cup {None}
    BY <1>1 DEF Tree
  <2>2. OnlyFile("repository", f, staging[f])
    BY <1>1, <2>1, OneFile
  <2> QED BY <2>2 DEF OnlyFile
<1>3. \A g \in Present(staging) \ run[p].rest : store["repository"][g] = staging[g]
  BY <1>1 DEF SentOf
<1>4. CentralInv'
  <2>1. "central" \in Targets => store'["central"] = store["central"]
    BY <1>2
  <2> QED BY <1>1, <2>1 DEF DInv, CentralInv, Whole, Present
<1>5. PomMeansArtifacts'
  <2> SUFFICES ASSUME NEW m \in Module, store'["repository"][<<m, "pom", "file">>] # None,
                      NEW g \in File, g[1] = m /\ g[2] # "pom" /\ g[3] # "asc"
               PROVE  store'["repository"][g] # None
    BY DEF PomMeansArtifacts
  <2>0. <<m, "pom", "file">> \in File
    BY DEF File, InSeq, Parts
  <2>1. CASE store["repository"][<<m, "pom", "file">>] # None
    <3>1. store["repository"][g] # None
      BY <1>1, <2>1 DEF DInv, PomMeansArtifacts
    <3> QED BY <1>1, <1>2, <3>1
  <2>2. CASE store["repository"][<<m, "pom", "file">>] = None
    <3>1. f = <<m, "pom", "file">>
      BY <1>2, <2>0, <2>2
    <3>2. ~(Rank[f] <= Rank[g])
      BY <2>0, <3>1, PomComesLast
    <3>3. g \notin run[p].rest
      BY <1>1, <3>2 DEF NextFile
    <3>4. g \in Present(staging)
      <4>1. Whole(staging)
        BY <1>1 DEF StagedOf, Reported
      <4>2. {Beside(g, "file"), Beside(Beside(g, "file"), "sum")} \subseteq Present(staging)
        BY <4>1, FilesOf DEF Whole
      <4>3. g = Beside(g, "file") \/ g = Beside(Beside(g, "file"), "sum")
        BY FilesOf DEF Beside
      <4> QED BY <4>2, <4>3
    <3>5. store["repository"][g] # None
      BY <1>3, <3>3, <3>4 DEF Present
    <3> QED BY <1>1, <1>2, <3>5
  <2> QED BY <2>1, <2>2
<1>6. CASE Upload(p, f)
  <2> DEFINE r == [run[p] EXCEPT !.rest = @ \ {f}]
  <2>1. run' = [run EXCEPT ![p] = r]
    BY <1>1, <1>6 DEF Upload
  <2>2. /\ r.step = "deliver" /\ r.target = "repository" /\ r.report = run[p].report
        /\ r.rest = run[p].rest \ {f}
    BY <1>1 DEF Command
  <2> HIDE DEF r
  <2>3. ASSUME run'[p] = r PROVE StagedOf(p)' /\ SentOf(p)'
    <3>1. StagedOf(p)'
      BY <1>1, <2>2, <2>3 DEF StagedOf, Reported, Whole, Present
    <3>2. \A g \in Present(staging) \ r.rest : g \in File /\ store'["repository"][g] = staging[g]
      BY <1>2, <1>3, <2>2 DEF Present
    <3>3. Present(staging)' = Present(staging)
      BY <1>1 DEF Present
    <3>4. SentOf(p)'
      BY <1>1, <2>2, <2>3, <3>2, <3>3 DEF SentOf
    <3> QED BY <3>1, <3>4
  <2> QED BY <1>1, <1>2, <1>4, <1>5, <2>1, <2>2, <2>3, PublisherMoves
<1>7. CASE UploadUnanswered(p, f)
  <2>1. run' = [run EXCEPT ![p] = Idle]
    BY <1>7 DEF UploadUnanswered
  <2>2. Idle.step = "idle" /\ Idle.target = "none"
    BY DEF Idle
  <2>3. run'[p] = Idle => StagedOf(p)' /\ SentOf(p)'
    BY <2>2 DEF StagedOf, SentOf
  <2> QED BY <1>1, <1>2, <1>4, <1>5, <2>1, <2>2, <2>3, PublisherMoves
<1> QED BY <1>6, <1>7

\* A deployment joins the list: it is the staged bundle, not yet public.
LEMMA Deployed ==
  ASSUME IInv, DInv, NEW p \in Proc, run[p].step = "upload", Deploy(p), store' = store
  PROVE  /\ CentralInv'
         /\ Len(deployments) + 1 \in DOMAIN deployments'
         /\ deployments'[Len(deployments) + 1].files = staging
         /\ deployments'[Len(deployments) + 1].automatic = run[p].automatic
<1>1. StagedOf(p) /\ SentOf(p) /\ CentralInv /\ staging \in Tree /\ deployments \in Seq(Deployment)
      /\ run[p] \in Command
  BY DEF DInv, IInv, TypeInv
<1>2. bundle = staging /\ Whole(staging) /\ run[p].target = "central" /\ "central" \in Targets
  BY <1>1 DEF StagedOf, SentOf, Reported, Command
<1> DEFINE d == [files |-> bundle, automatic |-> run[p].automatic, state |-> "PENDING"]
           n == Len(deployments) + 1
<1>3. d.files = staging /\ d.automatic = run[p].automatic /\ d.state # "PUBLISHED"
  BY <1>2
<1>4. deployments' = Append(deployments, d)
  BY DEF Deploy
<1> HIDE DEF d
<1>5. /\ DOMAIN deployments' = 1..n /\ n \in Nat /\ DOMAIN deployments = 1..(n - 1)
      /\ \A i \in 1..n : deployments'[i] = IF i = n THEN d ELSE deployments[i]
  BY <1>1, <1>4
<1>6. ASSUME NEW i \in 1..n
      PROVE  /\ deployments'[i].files \in Tree /\ Whole(deployments'[i].files)
             /\ deployments'[i].state = "PUBLISHED" => store["central"] = deployments'[i].files
  <2>1. CASE i = n
    BY <1>1, <1>2, <1>3, <1>5, <2>1
  <2>2. CASE i # n
    <3>1. i \in DOMAIN deployments /\ deployments'[i] = deployments[i]
      BY <1>5, <2>2
    <3> QED BY <1>1, <3>1 DEF CentralInv
  <2> QED BY <2>1, <2>2
<1>7. CentralInv'
  BY <1>2, <1>5, <1>6 DEF CentralInv
<1> QED BY <1>3, <1>5, <1>7

LEMMA BundleKeepsDelivery ==
  ASSUME IInv, IInv', DInv, NEW p \in Proc,
         CreateBundle(p) \/ UploadBundle(p) \/ UploadBundleUnanswered(p)
  PROVE  DInv'
<1>1. /\ run \in [Proc -> Command] /\ run[p] \in Command /\ StagedOf(p) /\ SentOf(p)
      /\ run[p].step \in {"bundle", "upload"}
  BY DEF DInv, IInv, TypeInv, CreateBundle, UploadBundle, UploadBundleUnanswered
<1>2. run[p].target = "central" /\ Reported(p)
  BY <1>1 DEF StagedOf
<1>3. staging' = staging /\ store' = store
  BY DEF CreateBundle, UploadBundle, UploadBundleUnanswered
<1>4. store' \in [Targets -> Tree] /\ PomMeansArtifacts'
  BY <1>3 DEF DInv, PomMeansArtifacts
<1>5. CASE CreateBundle(p)
  <2> DEFINE r == [run[p] EXCEPT !.step = "upload"]
  <2>1. run' = [run EXCEPT ![p] = r] /\ bundle' = staging /\ deployments' = deployments
    BY <1>1, <1>5 DEF CreateBundle, Goto
  <2>2. r.step = "upload" /\ r.target = "central" /\ r.report = run[p].report
    BY <1>1, <1>2 DEF Command
  <2> HIDE DEF r
  <2>3. CentralInv'
    BY <1>3, <2>1 DEF DInv, CentralInv, Whole, Present
  <2>4. ASSUME run'[p] = r PROVE StagedOf(p)' /\ SentOf(p)'
    BY <1>2, <1>3, <2>1, <2>2, <2>4 DEF StagedOf, SentOf, Reported, Whole, Present
  <2> QED BY <1>2, <1>4, <2>1, <2>2, <2>3, <2>4, PublisherMoves
<1>6. CASE UploadBundle(p)
  <2> DEFINE n == Len(deployments) + 1
             r == [run[p] EXCEPT !.step = "poll", !.deployment = n]
  <2>1. /\ run[p].step = "upload" /\ Deploy(p) /\ bundle' = bundle
        /\ run' = [run EXCEPT ![p].step = "poll", ![p].deployment = n]
    BY <1>6 DEF UploadBundle
  <2>2. /\ CentralInv' /\ n \in DOMAIN deployments' /\ deployments'[n].files = staging
        /\ deployments'[n].automatic = run[p].automatic
    BY <1>3, <2>1, Deployed
  <2> HIDE DEF n
  <2>3. run' = [run EXCEPT ![p] = r]
    BY <1>1, <2>1
  <2>4. /\ r.step = "poll" /\ r.target = "central" /\ r.report = run[p].report
        /\ r.deployment = n /\ r.automatic = run[p].automatic
    BY <1>1, <1>2 DEF Command
  <2> HIDE DEF r
  <2>5. ASSUME run'[p] = r PROVE StagedOf(p)' /\ SentOf(p)'
    BY <1>2, <1>3, <2>2, <2>4, <2>5 DEF StagedOf, SentOf, Reported, Whole, Present
  <2> QED BY <1>2, <1>4, <2>2, <2>3, <2>4, <2>5, PublisherMoves
<1>7. CASE UploadBundleUnanswered(p)
  <2>1. run[p].step = "upload" /\ Deploy(p) /\ run' = [run EXCEPT ![p] = Idle]
    BY <1>7 DEF UploadBundleUnanswered
  <2>2. CentralInv'
    BY <1>3, <2>1, Deployed
  <2>3. Idle.step = "idle" /\ Idle.target = "none"
    BY DEF Idle
  <2>4. run'[p] = Idle => StagedOf(p)' /\ SentOf(p)'
    BY <2>3 DEF StagedOf, SentOf
  <2> QED BY <1>2, <1>4, <2>1, <2>2, <2>3, <2>4, PublisherMoves
<1> QED BY <1>5, <1>6, <1>7

\* Nothing whole is empty, unless nothing can be published.
LEMMA WholeOrNothing ==
  ASSUME NEW tree \in Tree, NEW other \in Tree, Whole(tree), Present(tree) = {}
  PROVE  tree = other
<1>1. Primary = {}
  BY DEF Whole
<1>2. File = {}
  BY <1>1, FilesOf
<1> QED BY <1>2 DEF Tree

LEMMA CentralKeepsDelivery ==
  ASSUME IInv, DInv, NEW i \in DOMAIN deployments, Validate(i) \/ GoPublic(i)
  PROVE  DInv'
<1>1. /\ CentralInv /\ PomMeansArtifacts /\ store \in [Targets -> Tree] /\ OnePublisher
      /\ \A p \in Proc : StagedOf(p) /\ SentOf(p)
      /\ deployments \in Seq(Deployment)
  BY DEF DInv, IInv, TypeInv
<1>2. run' = run /\ staging' = staging /\ bundle' = bundle
  BY DEF Validate, GoPublic
<1>3. "central" \in Targets /\ deployments[i].files \in Tree
  BY <1>1 DEF CentralInv
<1>4. PICK state \in {"VALIDATED", "FAILED", "PUBLISHED"} :
        /\ deployments' = [deployments EXCEPT ![i].state = state]
        /\ IF state = "PUBLISHED"
           THEN /\ store' = [store EXCEPT !["central"] = deployments[i].files]
                /\ Present(store["central"]) = {}
           ELSE store' = store
  BY DEF Validate, GoPublic
<1>5. /\ DOMAIN deployments' = DOMAIN deployments
      /\ \A j \in DOMAIN deployments :
           /\ deployments'[j].files = deployments[j].files
           /\ deployments'[j].automatic = deployments[j].automatic
           /\ deployments'[j].state = IF j = i THEN state ELSE deployments[j].state
  <2>1. \A j \in DOMAIN deployments : deployments[j] \in Deployment
    BY <1>1
  <2>2. \A j \in DOMAIN deployments :
          deployments'[j] = IF j = i THEN [deployments[i] EXCEPT !.state = state] ELSE deployments[j]
    BY <1>4
  <2>3. DOMAIN deployments' = DOMAIN deployments
    BY <1>4
  <2> QED BY <2>1, <2>2, <2>3 DEF Deployment
<1>6. /\ store' \in [Targets -> Tree]
      /\ \A t \in Targets \ {"central"} : store'[t] = store[t]
      /\ store'["central"] = IF state = "PUBLISHED" THEN deployments[i].files ELSE store["central"]
  BY <1>1, <1>3, <1>4
<1>7. CentralInv'
  <2>1. ASSUME NEW j \in DOMAIN deployments, deployments'[j].state = "PUBLISHED"
        PROVE  store'["central"] = deployments[j].files
    <3>1. CASE j = i
      BY <1>5, <1>6, <2>1, <3>1
    <3>2. CASE j # i
      <4>1. store["central"] = deployments[j].files /\ Whole(deployments[j].files)
            /\ deployments[j].files \in Tree
        BY <1>1, <1>5, <2>1, <3>2 DEF CentralInv
      <4>2. state = "PUBLISHED" => Present(store["central"]) = {}
        BY <1>4
      <4>3. state = "PUBLISHED" => deployments[j].files = deployments[i].files
        BY <1>3, <4>1, <4>2, WholeOrNothing
      <4> QED BY <1>6, <4>1, <4>3
    <3> QED BY <3>1, <3>2
  <2>2. \A j \in DOMAIN deployments : Whole(deployments[j].files) /\ deployments[j].files \in Tree
    BY <1>1 DEF CentralInv
  <2> QED BY <1>3, <1>5, <2>1, <2>2 DEF CentralInv
<1>8. PomMeansArtifacts'
  BY <1>1, <1>6 DEF PomMeansArtifacts
<1>9. ASSUME NEW p \in Proc PROVE StagedOf(p)' /\ SentOf(p)'
  <2>1. StagedOf(p) /\ SentOf(p) /\ run[p] \in Command
    BY <1>1 DEF IInv, TypeInv
  <2>2. StagedOf(p)'
    BY <1>2, <2>1 DEF StagedOf, Staged, Reported, Whole, Present
  <2>3. run[p].step \in {"deliver", "rename"} => run[p].target \in Targets \ {"central"}
    BY <2>1 DEF StagedOf, IInv, ProcInv, SinceOf, Publishing, Command
  <2>4. Present(staging)' = Present(staging)
    BY <1>2 DEF Present
  <2>5. SentOf(p)'
    BY <1>2, <1>5, <1>6, <2>1, <2>3, <2>4 DEF SentOf
  <2> QED BY <2>2, <2>5
<1>10. OnePublisher'
  BY <1>1, <1>2 DEF OnePublisher
<1> QED BY <1>6, <1>7, <1>8, <1>9, <1>10 DEF DInv
------------------------------------------------------------------------------
(* Theorems.                                                               *)

LEMMA StepInv == IInv /\ [Next]_vars => IInv'
<1> SUFFICES ASSUME IInv, [Next]_vars PROVE IInv'
  OBVIOUS
<1>1. ASSUME NEW p \in Proc, StartBuild(p) \/ StartPublish(p) PROVE IInv'
  BY <1>1, StartStep
<1>2. ASSUME NEW p \in Proc, PackageStep(p), UNCHANGED publication PROVE IInv'
  BY <1>2, CompileStep, LockStep, ReuseStep, ArchiveStep, RecordStep DEF PackageStep
<1>3. ASSUME NEW p \in Proc, PublishStep(p) PROVE IInv'
  <2>1. CASE Packaged(p) \/ DryRun(p) \/ Delivered(p) \/ PollTerminal(p) \/ GiveUp(p)
    BY <2>1, EndsStep, StagingStep
  <2>2. CASE ResetDirectory(p) \/ StageModules(p) \/ SignFiles(p) \/ WriteChecksums(p)
    BY <2>2, StagingStep, ChecksumStep
  <2>3. CASE \/ \E f \in File : Unlink(p, f) \/ Upload(p, f)
             \/ Rename(p) \/ CreateBundle(p) \/ UploadBundle(p)
    BY <2>3, DeliveryStep
  <2> QED BY <1>3, <2>1, <2>2, <2>3 DEF PublishStep
<1>4. ASSUME NEW p \in Proc, Stop(p) PROVE IInv'
  BY <1>4, EndsStep
<1>5. ASSUME NEW p \in Proc, NEW t \in Trees, Swap(p, t), UNCHANGED publication PROVE IInv'
  BY <1>5, SwapStep
<1>6. ASSUME NEW p \in Proc, NEW f \in File, UploadUnanswered(p, f) PROVE IInv'
  BY <1>6, EndsStep
<1>7. ASSUME NEW p \in Proc, UploadBundleUnanswered(p) PROVE IInv'
  BY <1>7, EndsStep
<1>8. ASSUME NEW m \in Module, Edit(m) PROVE IInv'
  BY <1>8, EditStep
<1>9. ASSUME NEW i \in DOMAIN deployments, Validate(i) \/ GoPublic(i) PROVE IInv'
  BY <1>9, CentralStep
<1>10. CASE UNCHANGED vars
  <2>1. Untouched
    BY <1>10 DEF vars, workspace, cache, publication, outside, Untouched, IInv, TypeInv
  <2> QED BY <1>10, <2>1, NobodyMoves DEF vars
<1> QED BY <1>1, <1>2, <1>3, <1>4, <1>5, <1>6, <1>7, <1>8, <1>9, <1>10 DEF Next, Step

LEMMA StepDelivery == IInv /\ IInv' /\ DInv /\ [Next]_vars => DInv'
<1> SUFFICES ASSUME IInv, IInv', DInv, [Next]_vars PROVE DInv'
  OBVIOUS
<1>1. ASSUME NEW p \in Proc, StartBuild(p) \/ StartPublish(p) \/ Stop(p) PROVE DInv'
  BY <1>1, CommandsKeepDelivery
<1>2. ASSUME NEW p \in Proc, PackageStep(p), UNCHANGED publication PROVE DInv'
  BY <1>2, WorkKeepsDelivery
<1>3. ASSUME NEW p \in Proc, NEW t \in Trees, Swap(p, t), UNCHANGED publication PROVE DInv'
  BY <1>3, WorkKeepsDelivery
<1>4. ASSUME NEW p \in Proc, PublishStep(p) PROVE DInv'
  <2>1. CASE Packaged(p) \/ DryRun(p) \/ Delivered(p) \/ PollTerminal(p) \/ GiveUp(p)
    BY <2>1, CommandsKeepDelivery
  <2>2. CASE ResetDirectory(p) \/ StageModules(p) \/ SignFiles(p) \/ WriteChecksums(p)
    BY <2>2, StagingKeepsDelivery
  <2>3. CASE Rename(p) \/ \E f \in File : Unlink(p, f)
    BY <2>3, LocalKeepsDelivery
  <2>4. CASE \E f \in File : Upload(p, f)
    BY <2>4, UploadKeepsDelivery
  <2>5. CASE CreateBundle(p) \/ UploadBundle(p)
    BY <2>5, BundleKeepsDelivery
  <2> QED BY <1>4, <2>1, <2>2, <2>3, <2>4, <2>5 DEF PublishStep
<1>5. ASSUME NEW p \in Proc, NEW f \in File, UploadUnanswered(p, f) PROVE DInv'
  BY <1>5, UploadKeepsDelivery
<1>6. ASSUME NEW p \in Proc, UploadBundleUnanswered(p) PROVE DInv'
  BY <1>6, BundleKeepsDelivery
<1>7. ASSUME NEW m \in Module, Edit(m) PROVE DInv'
  BY <1>7, EditKeepsDelivery
<1>8. ASSUME NEW i \in DOMAIN deployments, Validate(i) \/ GoPublic(i) PROVE DInv'
  BY <1>8, CentralKeepsDelivery
<1>9. CASE UNCHANGED vars
  <2>1. SameDelivery /\ run' = run
    BY <1>9 DEF vars, publication, outside, SameDelivery
  <2>2. OnePublisher' /\ \A q \in Proc : SameOf(q)
    BY <2>1 DEF DInv, OnePublisher, SameOf
  <2> QED BY <2>1, <2>2, DeliveryRests
<1> QED BY <1>1, <1>2, <1>3, <1>4, <1>5, <1>6, <1>7, <1>8, <1>9 DEF Next, Step

\* What IInv says holds of every run, whatever is edited, killed, retried or
\* left unanswered by a server.
THEOREM ReleaseInvariant == Spec => []IInv
<1>1. Init => IInv
  BY InitInv
<1>2. IInv /\ [Next]_vars => IInv'
  BY StepInv
<1> QED BY <1>1, <1>2, PTL DEF Spec

\* An archive that a record offers for reuse was made from the inputs the
\* record's key names (package_cached_with_rebuild), as long as no two commands
\* have been at work at once: between the two keys sources only grow and the
\* trees stay, so that equal keys enclose what the archive has read.
THEOREM RecordsAreTruthful == Spec => []RecordTruthful
<1>1. IInv => RecordTruthful
  BY DEF IInv, RecordInv, RecordTruthful, Reusable
<1> QED BY <1>1, ReleaseInvariant, PTL

\* What a successful publication has reported (publish_project) was made from
\* contents that the workspace has had since the command began: packaging has
\* made or checked every archive of the command before its staging directory,
\* emptied, takes it over.
THEOREM PublishedFromFresh == Spec => PublishedIsFresh
<1> DEFINE FreshStep ==
      \A p \in Proc : Publishes(p) /\ ~overlapped =>
        \A f \in Present(run[p].report) : \A i \in DOMAIN run[p].report[f] :
          run[p].report[f][i] \in run[p].since[i[2]]
<1>1. IInv => FreshStep
  <2> SUFFICES ASSUME IInv, NEW p \in Proc, Publishes(p), ~overlapped
               PROVE  \A f \in Present(run[p].report) : \A i \in DOMAIN run[p].report[f] :
                        run[p].report[f][i] \in run[p].since[i[2]]
    OBVIOUS
  <2>1. run[p].step \in Delivery
    BY DEF Publishes, Delivered, PollTerminal
  <2>2. \A f \in File : run[p].report[f] # None => Fresh(p, run[p].report[f])
    BY <2>1 DEF IInv, ProcInv, ReportOf
  <2> QED BY <2>2 DEF Present, Fresh
<1>2. PublishedIsFresh <=> [][FreshStep]_vars
  BY DEF PublishedIsFresh
<1> QED BY <1>1, <1>2, ReleaseInvariant, PTL

\* Between the staging directory and what the targets serve nothing gets lost
\* or mixed up (publish_project up to its report), whatever earlier
\* publications have left on either side.
THEOREM DeliveryInvariant == Spec => []DInv
<1>1. Init => IInv /\ DInv
  BY InitInv, InitDelivery
<1>2. IInv /\ DInv /\ [Next]_vars => (IInv /\ DInv)'
  BY StepInv, StepDelivery
<1>3. Spec => [](IInv /\ DInv)
  BY <1>1, <1>2, PTL DEF Spec
<1> QED BY <1>3, PTL

\* A publication that reports success (publish_project) has put every file of
\* its report where it was to go, and each checksum and signature vouches for
\* the file beside it: a target has what is not left to deliver, a deployment
\* is the bundle that was uploaded, and Central serves at most one of them.
THEOREM PublishedWhole == Spec => PublishedIsWhole
<1> DEFINE WholeStep ==
      \A p \in Proc : Publishes(p) =>
        LET report == run[p].report  target == store[run[p].target] IN
        /\ \A f \in Present(report) : target[f] = report[f]
        /\ \A f \in Present(report) : target[f] = target[Beside(f, "file")]
        /\ \A f \in Primary : {f, Beside(f, "sum")} \subseteq Present(report)
<1>1. IInv /\ DInv => WholeStep
  <2> SUFFICES ASSUME IInv, DInv, NEW p \in Proc, Publishes(p)
               PROVE  /\ \A f \in Present(run[p].report) :
                           store[run[p].target][f] = run[p].report[f]
                      /\ \A f \in Present(run[p].report) :
                           store[run[p].target][f] = store[run[p].target][Beside(f, "file")]
                      /\ \A f \in Primary : {f, Beside(f, "sum")} \subseteq Present(run[p].report)
    OBVIOUS
  <2>1. StagedOf(p) /\ SentOf(p) /\ run[p].step \in {"deliver", "poll"}
    BY DEF DInv, Publishes, Delivered, PollTerminal
  <2>2. run[p].report = staging /\ Whole(staging)
    BY <2>1 DEF StagedOf, Reported
  <2>3. \A f \in Present(staging) : store[run[p].target][f] = staging[f]
    <3>1. CASE Delivered(p)
      BY <2>1, <3>1 DEF Delivered, SentOf
    <3>2. CASE PollTerminal(p) /\ run[p].automatic
      <4>1. /\ run[p].step = "poll" /\ deployments[run[p].deployment].state = "PUBLISHED"
            /\ run[p].target = "central"
        BY <2>1, <3>2 DEF PollTerminal, Terminal, StagedOf
      <4>2. /\ run[p].deployment \in DOMAIN deployments
            /\ deployments[run[p].deployment].files = staging
        BY <2>1, <4>1 DEF SentOf
      <4>3. store["central"] = staging
        BY <4>1, <4>2 DEF DInv, CentralInv
      <4> QED BY <4>1, <4>3
    <3> QED BY <3>1, <3>2 DEF Publishes
  <2>4. ASSUME NEW f \in Present(staging)
        PROVE  store[run[p].target][f] = store[run[p].target][Beside(f, "file")]
    <3>1. f \in File /\ staging[f] # None /\ staging[f] = staging[Beside(f, "file")]
      BY <2>2 DEF Present, Whole
    <3>2. Beside(f, "file") \in Present(staging)
      BY <2>2, <3>1, FilesOf DEF Whole
    <3> QED BY <2>3, <3>1, <3>2
  <2>5. \A f \in Primary : {f, Beside(f, "sum")} \subseteq Present(staging)
    BY <2>2 DEF Whole
  <2> QED BY <2>2, <2>3, <2>4, <2>5
<1>2. PublishedIsWhole <=> [][WholeStep]_vars
  BY DEF PublishedIsWhole
<1> QED BY <1>1, <1>2, ReleaseInvariant, DeliveryInvariant, PTL

\* A repository server that has a module's POM has its archives and their
\* checksums (upload_repository): their paths sort before the POM's, and the
\* files are sent in that order.
THEOREM PomsComeLast == Spec => []PomMeansArtifacts
<1>1. DInv => PomMeansArtifacts
  BY DEF DInv
<1> QED BY <1>1, DeliveryInvariant, PTL
==============================================================================
