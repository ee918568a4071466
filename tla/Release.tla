------------------------------- MODULE Release -------------------------------
(***************************************************************************)
(* `jman build` and `jman publish` (crates/jman-publish/src/lib.rs): the   *)
(* archives of Packages are copied with generated POMs into a staging      *)
(* repository in the workspace, signed, summed, and delivered to the local *)
(* Maven repository, to a repository server file by file, or to Maven      *)
(* Central as one bundle, which Central validates in its own time.         *)
(*                                                                         *)
(* The version of the project does not change, so that every publication   *)
(* names the same paths.  A signature or checksum file is the content it   *)
(* vouches for.                                                            *)
(***************************************************************************)
EXTENDS Packages

CONSTANTS
  Published, \* the kinds that are published: thin, sources and javadoc
  ByPath,    \* the modules as their repository paths sort
  Builds,    \* what `jman build` may be asked for: sequences of kinds
  Targets,   \* what may be published to
  Budgets,   \* bounds on the commands of each process
  EditsAlone \* bound: sources are edited only when one process has commands left

ASSUME ReleaseAssumption ==
  /\ ByPath \in Seq(Module) /\ \A m \in Module : \E i \in DOMAIN ByPath : ByPath[i] = m
  /\ Published \in Seq(Kinds \ {"fat"}) /\ Builds \subseteq Seq(Kinds)
  /\ Targets \subseteq {"local", "repository", "central"}
  /\ Budgets \subseteq [Proc -> [build : Nat, publish : Nat]]
  /\ EditsAlone \in BOOLEAN

VARIABLES
  staging,      \* .jman/publications/repository
  bundle,       \* .jman/publications/central-bundle.zip
  store,        \* what each target serves
  deployments,  \* the deployments Central has accepted, in their order
  left          \* the commands that each process may still run

outside == <<bundle, store, deployments>>
publication == <<staging, outside, left>>
vars == <<workspace, cache, run, overlapped, publication>>

\* A module's files in the order of their names: x-javadoc.jar, x-sources.jar,
\* x.jar, x.pom, each followed by its .asc, .md5, .sha1, ...
Names == <<"javadoc", "sources", "thin", "pom">>
Parts == <<"file", "asc", "sum">>
InSeq(s) == {s[i] : i \in DOMAIN s}
File == Module \X ({"pom"} \cup InSeq(Published)) \X InSeq(Parts)
Primary == {f \in File : f[3] = "file"}
Beside(f, part) == <<f[1], f[2], part>>
Empty == [f \in File |-> None]
Present(tree) == {f \in File : tree[f] # None}

Rank ==
  [f \in File |-> (Place(ByPath, f[1]) * 4 + Place(Names, f[2])) * 3 + Place(Parts, f[3])]

Idle == [step |-> "idle", target |-> "none", kinds |-> <<>>, rebuild |-> FALSE,
         sign |-> FALSE, automatic |-> FALSE, since |-> [m \in Module |-> {}],
         manifest |-> [m \in Module |-> 0], todo |-> {}, task |-> None, key |-> None, made |-> None,
         report |-> Empty, rest |-> {}, file |-> None, deployment |-> 0]

Goto(p, step) == run' = [run EXCEPT ![p].step = step]

------------------------------------------------------------------------------
Init ==
  /\ PackagesInit
  /\ run = [p \in Proc |-> Idle]
  /\ staging = Empty /\ bundle = None
  /\ store = [t \in Targets |-> Empty]
  /\ deployments = <<>>
  /\ left \in Budgets

Finished(p) == ~Running(p) /\ left[p] = [build |-> 0, publish |-> 0]
MayEdit == EditsAlone => \E p \in Proc : \A q \in Proc \ {p} : Finished(q)

\* The user saves sources or the manifest of a module.
Edit(m) ==
  /\ MayEdit
  /\ src[m] < MaxVersion
  /\ src' = [src EXCEPT ![m] = @ + 1]
  /\ run' = [p \in Proc |-> IF Running(p) THEN [run[p] EXCEPT !.since[m] = @ \cup {src[m] + 1}]
                            ELSE run[p]]
  /\ UNCHANGED <<built, cache, overlapped, publication>>

\* The manifests are read and validated before anything is built.
Start(p, command) ==
  /\ ~Running(p)
  /\ overlapped' = (overlapped \/ ~Alone(p))
  /\ run' = [run EXCEPT ![p] = [command EXCEPT
       !.step = "build", !.since = [m \in Module |-> {src[m]}], !.manifest = src]]
  /\ UNCHANGED <<workspace, cache, staging, outside>>

StartBuild(p) ==
  /\ left[p].build > 0 /\ left' = [left EXCEPT ![p].build = @ - 1]
  /\ \E kinds \in Builds, rebuild \in BOOLEAN :
       Start(p, [Idle EXCEPT !.kinds = kinds, !.rebuild = rebuild])

\* Central always requires signatures.  Publications share the staging directory
\* without a lock: the model keeps them apart, since nothing could be said of two.
StartPublish(p) ==
  /\ left[p].publish > 0 /\ left' = [left EXCEPT ![p].publish = @ - 1]
  /\ \A q \in Proc : run[q].target = "none"
  /\ \E target \in Targets, sign, automatic \in BOOLEAN :
       /\ target = "central" => sign
       /\ automatic => target = "central"
       /\ Start(p, [Idle EXCEPT !.kinds = Published, !.target = target, !.sign = sign,
                                !.automatic = automatic])

\* An error, at whatever point, or a kill: nothing is undone, the operating
\* system gives the locks back.  So ends, too, a command that refuses a dirty
\* worktree or whose upload is rejected.
Stop(p) ==
  /\ Running(p)
  /\ run' = [run EXCEPT ![p] = Idle]
  /\ locked' = [a \in Artifact |-> IF locked[a] = p THEN None ELSE locked[a]]
  /\ UNCHANGED <<workspace, artifact, record, overlapped, publication>>

Succeed(p) == run' = [run EXCEPT ![p] = Idle]

\* Everything is packaged.
Packaged(p) ==
  /\ At(p, "lock") /\ run[p].todo = {}
  /\ IF run[p].target = "none" THEN Succeed(p) ELSE Goto(p, "reset")
  /\ UNCHANGED <<workspace, cache, overlapped, publication>>

------------------------------------------------------------------------------
(* Staging.                                                                *)

\* reset_directory
ResetDirectory(p) ==
  /\ At(p, "reset")
  /\ staging' = Empty
  /\ Goto(p, "stage")
  /\ UNCHANGED <<workspace, cache, overlapped, outside, left>>

\* The POM is made from the manifest read at the start, archives are copied
\* from where packaging has left them.
Primaries(p) ==
  [f \in Primary |->
     IF f[2] = "pom" THEN [i \in {<<"manifest", f[1]>>} |-> run[p].manifest[f[1]]]
     ELSE artifact[<<f[1], f[2]>>]]

\* stage_modules
StageModules(p) ==
  /\ At(p, "stage")
  /\ \A f \in Primary : Primaries(p)[f] # None
  /\ staging' = [f \in File |-> IF f \in Primary THEN Primaries(p)[f] ELSE staging[f]]
  /\ Goto(p, IF run[p].sign THEN "sign" ELSE "sum")
  /\ UNCHANGED <<workspace, cache, overlapped, outside, left>>

Vouch(part) ==
  staging' = [f \in File |-> IF f[3] = part THEN staging[Beside(f, "file")] ELSE staging[f]]

\* sign_files
SignFiles(p) ==
  /\ At(p, "sign")
  /\ Vouch("asc")
  /\ Goto(p, "sum")
  /\ UNCHANGED <<workspace, cache, overlapped, outside, left>>

\* write_checksums, describe_files, and the list of files to deliver.
WriteChecksums(p) ==
  /\ At(p, "sum")
  /\ Vouch("sum")
  /\ run' = [run EXCEPT ![p].report = staging', ![p].rest = Present(staging'), ![p].step =
               IF run[p].target = "central" THEN "bundle" ELSE "deliver"]
  /\ UNCHANGED <<workspace, cache, overlapped, outside, left>>

NextFileUnsorted(p, f) == f \in run[p].rest

\* upload_repository sends the files in the order of their paths.  install_local
\* takes them as read_dir lists them, which the model takes to be the same order:
\* nothing is said below of a local repository between two files.
NextFile(p, f) == f \in run[p].rest /\ \A g \in run[p].rest : Rank[f] <= Rank[g]

------------------------------------------------------------------------------
(* Delivery.                                                               *)

Delivering(p, target) == At(p, "deliver") /\ run[p].target = target

\* install_local, one file: it is copied beside its destination, the destination
\* is removed, ...
Unlink(p, f) ==
  /\ Delivering(p, "local")
  /\ NextFile(p, f) /\ staging[f] # None
  /\ store' = [store EXCEPT !["local"][f] = None]
  /\ run' = [run EXCEPT ![p].step = "rename", ![p].file = f, ![p].made = staging[f]]
  /\ UNCHANGED <<workspace, cache, overlapped, staging, bundle, deployments, left>>

\* ... and the copy is renamed.
Rename(p) ==
  /\ At(p, "rename")
  /\ store' = [store EXCEPT !["local"][run[p].file] = run[p].made]
  /\ run' = [run EXCEPT ![p].step = "deliver", ![p].rest = @ \ {run[p].file}]
  /\ UNCHANGED <<workspace, cache, overlapped, staging, bundle, deployments, left>>

Accept(p, f) ==
  /\ Delivering(p, "repository")
  /\ NextFile(p, f) /\ staging[f] # None
  /\ store' = [store EXCEPT !["repository"][f] = staging[f]]

SkipRejected(p, f) ==
  /\ Delivering(p, "repository")
  /\ NextFile(p, f) /\ staging[f] # None
  /\ \/ store' = [store EXCEPT !["repository"][f] = staging[f]]
     \/ store' = store
  /\ run' = [run EXCEPT ![p].rest = @ \ {f}]
  /\ UNCHANGED <<workspace, cache, overlapped, staging, bundle, deployments, left>>

Upload(p, f) ==
  /\ Accept(p, f)
  /\ run' = [run EXCEPT ![p].rest = @ \ {f}]
  /\ UNCHANGED <<workspace, cache, overlapped, staging, bundle, deployments, left>>

\* The server has stored the file, its answer does not arrive.
UploadUnanswered(p, f) ==
  /\ Accept(p, f)
  /\ run' = [run EXCEPT ![p] = Idle]
  /\ UNCHANGED <<workspace, cache, overlapped, staging, bundle, deployments, left>>

Delivered(p) ==
  /\ At(p, "deliver")
  /\ run[p].rest = {}
  /\ Succeed(p)
  /\ UNCHANGED <<workspace, cache, overlapped, publication>>

\* --dry-run ends before anything leaves the workspace; up to here it makes no
\* difference.
DryRun(p) ==
  /\ \/ At(p, "deliver") /\ run[p].rest = Present(run[p].report)
     \/ At(p, "upload")
  /\ Succeed(p)
  /\ UNCHANGED <<workspace, cache, overlapped, publication>>

\* create_bundle
CreateBundle(p) ==
  /\ At(p, "bundle")
  /\ bundle' = staging
  /\ Goto(p, "upload")
  /\ UNCHANGED <<workspace, cache, overlapped, staging, store, deployments, left>>

Deploy(p) ==
  deployments' = Append(deployments,
    [files |-> bundle, automatic |-> run[p].automatic, state |-> "PENDING"])

\* upload_central up to the deployment id.
UploadBundle(p) ==
  /\ At(p, "upload")
  /\ Deploy(p)
  /\ run' = [run EXCEPT ![p].step = "poll", ![p].deployment = Len(deployments) + 1]
  /\ UNCHANGED <<workspace, cache, overlapped, staging, bundle, store, left>>

UploadBundleUnanswered(p) ==
  /\ At(p, "upload")
  /\ Deploy(p)
  /\ run' = [run EXCEPT ![p] = Idle]
  /\ UNCHANGED <<workspace, cache, overlapped, staging, bundle, store, left>>

Terminal(p) == IF run[p].automatic THEN "PUBLISHED" ELSE "VALIDATED"

\* The status that upload_central asks for every two seconds.
PollTerminal(p) ==
  /\ At(p, "poll")
  /\ deployments[run[p].deployment].state = Terminal(p)
  /\ Succeed(p)
  /\ UNCHANGED <<workspace, cache, overlapped, publication>>

\* It fails when the deployment has failed, or the time is up: also when the
\* deployment has gone past the state that is waited for.
GiveUp(p) ==
  /\ At(p, "poll")
  /\ run' = [run EXCEPT ![p] = Idle]
  /\ UNCHANGED <<workspace, cache, overlapped, publication>>

\* Central checks a deployment, and refuses files it has published before.
Validate(i) ==
  /\ deployments[i].state = "PENDING"
  /\ \E verdict \in {"VALIDATED", "FAILED"} :
       /\ verdict = "VALIDATED" => Present(store["central"]) = {}
       /\ deployments' = [deployments EXCEPT ![i].state = verdict]
  /\ UNCHANGED <<workspace, cache, run, overlapped, staging, bundle, store, left>>

\* It is published by Central itself, or by the user in the portal.
GoPublic(i) ==
  /\ deployments[i].state = "VALIDATED" /\ Present(store["central"]) = {}
  /\ deployments' = [deployments EXCEPT ![i].state = "PUBLISHED"]
  /\ store' = [store EXCEPT !["central"] = deployments[i].files]
  /\ UNCHANGED <<workspace, cache, run, overlapped, staging, bundle, left>>

------------------------------------------------------------------------------
PublishStep(p) ==
  \/ Packaged(p) \/ ResetDirectory(p) \/ StageModules(p) \/ SignFiles(p)
  \/ WriteChecksums(p) \/ DryRun(p)
  \/ \E f \in File : Unlink(p, f) \/ Upload(p, f)
  \/ Rename(p) \/ Delivered(p)
  \/ CreateBundle(p) \/ UploadBundle(p) \/ PollTerminal(p) \/ GiveUp(p)

Step(p) == (PackageStep(p) /\ UNCHANGED publication) \/ PublishStep(p)

Next ==
  \/ \E p \in Proc : StartBuild(p) \/ StartPublish(p) \/ Step(p) \/ Stop(p)
  \/ \E p \in Proc, t \in Trees : Swap(p, t) /\ UNCHANGED publication
  \/ \E p \in Proc, f \in File : UploadUnanswered(p, f)
  \/ \E p \in Proc : UploadBundleUnanswered(p)
  \/ \E m \in Module : Edit(m)
  \/ \E i \in DOMAIN deployments : Validate(i) \/ GoPublic(i)

Spec == Init /\ [][Next]_vars
------------------------------------------------------------------------------
Publishes(p) ==
  \/ Delivered(p)
  \/ PollTerminal(p) /\ run[p].automatic

\* A publication that reports success has put every file of its report where it
\* was to go, and each checksum and signature vouches for the file beside it,
\* whatever earlier publications of the same version, rejected, killed or left
\* unanswered half-way, have put there.
PublishedIsWhole ==
  [][\A p \in Proc : Publishes(p) =>
       LET report == run[p].report  target == store[run[p].target] IN
       /\ \A f \in Present(report) : target[f] = report[f]
       /\ \A f \in Present(report) : target[f] = target[Beside(f, "file")]
       /\ \A f \in Primary : {f, Beside(f, "sum")} \subseteq Present(report)]_vars

\* ... and everything in it was made from contents that the sources and manifests
\* have had since the command began: no archive that an earlier run
\* left in the cache or in the staging directory is published by mistake.
PublishedIsFresh ==
  [][\A p \in Proc : Publishes(p) /\ ~overlapped =>
       \A f \in Present(run[p].report) : \A i \in DOMAIN run[p].report[f] :
         run[p].report[f][i] \in run[p].since[i[2]]]_vars

\* A repository server that has a module's POM has its archives and their
\* checksums: an upload that stops half-way shows no module that cannot be used.
PomMeansArtifacts ==
  "repository" \in Targets =>
    \A m \in Module : store["repository"][<<m, "pom", "file">>] # None =>
      \A f \in File : f[1] = m /\ f[2] # "pom" /\ f[3] # "asc" => store["repository"][f] # None
=============================================================================
