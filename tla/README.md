# A TLA+ model of jman

jman is a build tool for Java workspaces (`jman.toml`, `jman.lock`) written in
Rust, with a Java language server. This directory models the parts of it in
which several actors share files or state: compilation into cached class
directories, test runs, source generators, archives and their publication, manifests and
lockfiles, dependency resolution over a shared repository cache, the store of
JDKs, and the language server with the caches that editors share. TLC checks
the models on small instances; TLAPS proves the central properties of all but
one of them (`EffectivePoms`) for every value of the constants.

```
tlc -config WorkspaceBuild_sequential.cfg MCWorkspaceBuild
tlapm WorkspaceBuildProofs.tla
```

PROJECT.json lists every component, run, theorem and hazard, and maps each
definition to the source lines it stands for.

## The system

| Component (crate) | State it keeps | Operations | What is hard | What makes it correct | Module |
|---|---|---|---|---|---|
| Workspace compilation (`jman-build`) | `.jman/output`, `.jman/check.sha256` per module | compile a layer of modules, reuse, swap, record | layers compiled concurrently, siblings dropped at an error, kills between the swap and the record, edits during a build, several processes without a lock | a record never promises more than the classes hold; success means fresh classes; a no-op is a no-op | `WorkspaceBuild` |
| Tests (`jman-build`) | `.jman/output/test-classes`, `.jman/test.sha256`, runners in the cache | compile the workspace, prepare a runner, compile and run the tests of a module | test classes lie inside a directory that compilations move away, their record does not; selections of source sets share both | what runs is fresh, is what was asked for, and the command returns | `TestRuns` |
| Source generators (`jman-build`) | `.jman/generated/NAME`, `.jman/generator-state/NAME.json` and `.lock` | lock, key, reuse, run, verify, swap, record | edits while a command runs, tampering, `jman clean` underneath, failures between swap and record | truthful records, downstream keys include upstream state, failures keep outputs, lock waits end | `GeneratorCache` |
| Archives (`jman-build`) | `.jman/artifacts`, their cache records and locks | package four kinds of archive | the key is computed before and after the work, the archive replaced in between | an archive is reused only for its key and checksum | `Packages` |
| Publishing (`jman-publish`) | staging tree, Central bundle, what the targets serve | stage, sign, sum, install, upload, deploy and poll | uploads that stop half-way or whose answer is lost, Central's own pace, edits meanwhile | a reported publication is whole and fresh; a POM means its archives | `Release` |
| JDK store (`jman-build/toolchain`) | installed JDKs, metadata, install locks, downloads | find, install, remove | rename before metadata, rollback of staged removals, requests for a major and for a release | what is found is whole; removal is exact; installations never replace | `Toolchains`, `JdkStore` |
| Resolver (`jman-resolver`) | effective POMs, queue, selected packages, prefetched POMs | effective models of a reactor, breadth-first selection, relocation, downloads | four sources of management and properties, nearest wins with scopes and exclusions, concurrent downloads | inheritance is nearest first; terminating; closed scopes; equal projects get equal graphs | `EffectivePoms`, `Dependencies` |
| Repository client (`jman-resolver`) | memory cache, locks per path, disk cache, content store | fetch | single flight, other processes, repositories that change | one import sees one file per path, artifacts are stored whole | `RepositoryClient` |
| Manifest commands (`jman-cli`) | `jman.toml`, `jman.lock` of every module | add, remove, update, import, sync | several files, rollback, edits meanwhile | all files or none; a lock is current only for its manifests | `Manifests` |
| Language server dispatcher (`jman-java-lsp`) | documents, analyses, result ids, synchronization state | LSP messages, reload, rebuildIndex, settings | one dispatcher over threads whose results come later | answers belong to the text and the model asked about | `LanguageServer` |
| Language server worker (`jman-java-lsp`) | model, session, index, jobs | initialize, refine, reload, save, rebuild, clear | cancellation and deferred work | pending indexing is done in the end; one model in use | `NativeWorker` |
| Build model cache (`jman-java-lsp`) | imported models, lock files | acquire, import, publish, load, clear | stale lock files, several servers | the lock excludes, models do not go back | `FileLock`, `ModelCache` |
| Annotation processors (`jman-java-lsp`, a JVM worker) | fingerprints in memory and in files, staging, generated sources, classes | process a unit, reuse, publish | two directories published one after the other, workers that die or outlive their server, other servers | what is reused was made from the present inputs; a run that nothing disturbs processes every unit it goes through | `AnnotationProcessors` |
| Storage commands (`jman-cli`) | every cache above | clean, clear, prune, status | running users of what they remove | nothing in use is lost for good | `Clean` of `GeneratorCache`, `ClearProjectCache` of `ModelCache` |
| Audit (`jman-audit`), JDK catalogs | caches with a time to live | query, fall back to a stale result | the clock | an answer is as old as it says | not modelled |
| Configuration, versions, Java frontend, editors, UI | (none, or in memory) | parsing, comparing, presenting | | | not modelled |

How they interact: a build runs the generators of each module before it
fingerprints the module; a module is compiled against the class directories of
the modules upstream, and its fingerprint contains theirs. A test command
compiles the workspace in the same process and then its tests into the class
directories of the modules. `jman clean` removes
`.jman` below all of this. Packaging follows a compilation in the same process,
and a publication copies what packaging returned. `sync` resolves dependencies
and writes the lockfiles that builds read; an import runs one resolution per
module over one repository client. Builds look for a JDK without a lock while
`jman java` installs and removes them. Language servers import Maven and Gradle
builds into a cache directory that every server on the machine shares, under a
lock file; their dispatcher hands requests to one thread per workspace root.

## Modules

| Module | Models | Source |
|---|---|---|
| `WorkspaceBuild` | one workspace, its editors, and the jman processes that compile it | `crates/jman-build/src/lib.rs`: `compile_workspace_with_rebuild`, `compile_module`, `module_fingerprint`, `topological_layers`, `transitive_dependencies`, `replace_directory` |
| `MCWorkspaceBuild` | a graph of three modules for TLC | |
| `WorkspaceBuildProofs` | theorems about `WorkspaceBuild` and `TestRuns` | |
| `TestRuns` | extends `WorkspaceBuild` with `jman test` | `crates/jman-build/src/lib.rs`: `test_workspace`, `run_test_module`, `ensure_test_runner`, `compile_test_sources`; `jman-cli/src/main.rs`: `test_project` |
| `MCTestRuns` | an application, the library its tests use, and a base that this library needs | |
| `FileLock` | the lock-file protocol, as actions without a specification of its own | `crates/jman-java-lsp/src/cache.rs` |
| `ModelCache` | composes `FileLock` with the shared build model | `crates/jman-java-lsp/src/project.rs`: `load_project`, `import_project`; `native_backend.rs`: `clear_project_cache` |
| `GeneratorCache` | the generators of one module and the processes that run them | `crates/jman-build/src/lib.rs`: `generate_workspace`, `run_module_generators`, `run_generator`, `generator_key`, `replace_file` |
| `MCGeneratorCache` | two dependent generators for TLC | |
| `GeneratorCacheProofs` | theorems about `GeneratorCache` | |
| `Packages` | the archives of a workspace and their cache, as actions that `Release` composes | `crates/jman-build/src/lib.rs`: `package_workspace`, `package_cached_with_rebuild`, `package_input_key` |
| `Release` | extends `Packages` with `jman build`, `jman publish`, the repositories and Maven Central | `crates/jman-publish/src/lib.rs`: `publish` and what it calls |
| `MCRelease` | one module, two processes for TLC | |
| `ReleaseProofs` | theorems about `Packages` and `Release` | |
| `Manifests` | manifests, lockfiles and the commands that write them | `crates/jman-cli/src/main.rs`: `sync_one`, `add_dependency`, `remove_dependency`, `update_*`, `import_maven` and their helpers |
| `MCManifests` | a root and a module it depends on | |
| `ManifestsProofs` | theorems about `Manifests` | |
| `RepositoryClient` | the tasks that fetch repository files, as actions | `crates/jman-resolver/src/repository.rs`: `fetch` |
| `Dependencies` | composes it with the resolutions of an import | `crates/jman-resolver/src/graph.rs`: `resolve_in_workspace` |
| `DependenciesProofs` | theorems about both | |
| `EffectivePoms` | how POM files become effective models, as a function | `crates/jman-resolver/src/effective.rs`; `pom.rs`: `parse_project`; `graph.rs`: `import_workspace` |
| `MCEffectivePoms` | reactors, published POMs and a definition of inheritance to compare with | |
| `MCDependencies` | the universes of packages for TLC | |
| `JdkStore` | what the store of JDKs promises to commands that take no lock | |
| `Toolchains` | installations and removals of JDKs; implements `JdkStore` | `crates/jman-build/src/toolchain.rs` |
| `ToolchainsProofs` | theorems about `Toolchains`, the refinement among them | |
| `NativeWorker` | the thread behind a workspace root, as actions | `crates/jman-java-lsp/src/async_native_backend.rs`, `native_backend.rs` |
| `LanguageServer` | composes the threads with the dispatcher, the editor and the world | `crates/jman-java-lsp/src/server.rs`, `documents.rs`, `workspace_backend.rs` |
| `MCLanguageServer` | one or two roots for TLC | |
| `LanguageServerProofs` | theorems about `LanguageServer` and `NativeWorker`, and about `ModelCache` and `FileLock` | |
| `AnnotationProcessors` | annotation processing in servers and their JVM workers | `crates/jman-java-lsp/src/native_backend.rs`: `run_annotation_processors`; `processor_worker.rs`; `tools/annotation-processor-worker`: `ProcessorWorker.java` |
| `MCAnnotationProcessors` | two units, one compiled against the other | |
| `AnnotationProcessorsProofs` | theorems about `AnnotationProcessors` | |

Definitions whose comment is missing and that stand directly before the
definition they vary (`HitWithoutOutput` before `Hit`, `SkipVerify` before
`Verify`, ...) are variants a mistake in the code would produce. No
specification uses them; each is listed in PROJECT.json with the property that
fails when it takes the place of the real one.

### WorkspaceBuild

Content is a version number per module: sources, resources, manifest and
generator outputs of a module together are `src[m]`. A *tree* maps each module
to the version of it that something was made from. `classes[m]` is the tree
under `.jman/output`, `state[m]` the tree the fingerprint in
`check.sha256` stands for; hashing is taken to be injective. The component of
`m` itself being 0 means there is no such file or directory.

Each process keeps the finished layers (`complete`), the current `layer`, and
for each module its `stage` in `compile_module`, the version it fingerprinted
(`seen`), and the temporary and backup trees. The stages follow the await
points of the code: `Hash` (generators, inputs, fingerprint), `Reuse` or
`Compile` (javac reads the sources and the upstream class directories *as they
are then*), `Park` and `Place` (the two renames of `replace_directory`),
`WriteState`. `Fail` is an error of one module; `try_collect` then drops every
sibling where it stands, and only the failing module restores a backup.
`Kill` can come anywhere. Both may leave a half-written state file.

Abstractions: the list of files is taken with their hashes, javac succeeds or
fails as a whole, a missing upstream class directory makes javac fail or
compile against nothing (it ignores missing class path entries), `Deps` and
`CompileDeps` do not change while processes run, and lock files, dependency
artifacts and the JDK are part of the version.

### TestRuns

A command is a compilation (`request[p] = Compiling`) or a test command with its
modules and source sets; `test_project` compiles the workspace once before it
calls `test_workspace`, which is a build of its own here. The steps of
`WorkspaceBuild` are conjoined with what they do to the test classes: `Park`
takes `tests[m]` away with the rest of `.jman/output`, and an error may put them
back. When the compilation has returned, the command is "testing", and
`testStage[p][m]` follows `run_test_module`: the runner (`FindRunner`, or
`CompileRunner`, `DropRunner`, `PlaceRunner`), then `compile_test_sources`
(`HashTests`, `ReuseTests` or `CompileTests`, `ParkTests`, `PlaceTests`,
`RecordTests`), then the JVM (`RunTests`). What is hashed and what javac is
given are both `TestInputs`, read at two instants. `shell[m]` is a
`.jman/output` that holds nothing but the directory for generated test sources,
which `CompileTests` creates when another process has just moved the output
away. `asked` and `overlapped` are history.

`TestUpstream` follows dependencies of every scope at every level, as
`transitive_dependencies` does for `DependencyUsage::Test`: the tests of a module
are compiled and run against what the tests of its libraries need, too.

Abstractions: a module has its source sets or not from the start; test
resources, name patterns, coverage and the reports are left out, and so are
generators of test sources; a JVM reads the classes at one instant; a `shell`
that is moved to a backup does not come back.

### FileLock and ModelCache

`file` is the lock file: nothing, or who created it and whether it already
names its owner (creation and writing the process id are two steps; the write
may fail and the code ignores that). A client in `acquire` is at `create`,
`check` or `remove`; judging a file stale and removing the path are two steps.
`tries` counts the attempts. `Release` removes whatever file the path names.
`raced` is a history variable: a waiter removed a file that is not the one it
judged, or a running client's file was discarded.

`ModelCache` adds what is done under the lock: `Import` (minutes of Maven or
Gradle), `PublishModel` (rename), `ImportFails` (fall back to the last good model),
`ImportUnusable`, `Load`. `ClearProjectCache` is `jman.java.clearWorkspaceCache` in
another editor: it removes the whole directory, lock file included.

Abstractions: process ids are not reused while a lock file names them; a live
owner without a process id in its file is not an hour old; a model is the
version of the build files it was made from. After `ClearProjectCache` the directory
may be missing, so that `create_new` fails (`CannotLock`); whether somebody has
created it again is not tracked.

### GeneratorCache

`input[g]` is everything a key hashes of the generator itself; an output
records which version of its own inputs and of each direct dependency's output
it was made from. A record is a key and an output. The key contains the
*records* of the dependencies (the code hashes their state files), not their
outputs. A process runs generators in dependency order; the steps of
`run_generator` are `Lock`, `ComputeKey`, `Reuse` or `Generate`, `Verify` (the
second key), `Park`, `Place`, `Record`. `Clean` removes everything, unlinks
locks that are held and takes temporary trees away. `torn` and `overlapped`
are history: outputs taken away by the user or by a kill between the two
renames, and whether two processes ever generated at once.

Abstractions: `jman clean` is one step, users tamper with outputs only while
nothing generates, a module has one level of `depends-on` per edge, and the
two generations of one key are equal only if inputs are (the code, too,
compares keys; an input changed and changed back between them is not seen).

### Packages and Release

An input is a module's sources (with its manifest) or one of the trees that a
compilation replaces: `.jman/output`, with the classes and the sources that
annotation processors have generated, and `.jman/generated`, with those of
generators. Each has a version; a key and an archive are the inputs they were
made from. A tree that is missing has version 0 and reads as an empty one.
`Compile` is the whole of `compile_workspace_with_rebuild` as its proved theorem
describes it (`SuccessMeansFresh`; for generated sources, `GeneratorCache`):
afterwards the trees are made from contents the sources have had since the
command began. When processes have overlapped nothing is known of them, and
`Swap` takes a tree away under a process that packages.
`package_cached_with_rebuild` is `Lock` (and the first key), `Reuse` or
`Archive`, then `Record` or `LeaveUnrecorded` according to the second key.

A publication goes on with `ResetDirectory`, `StageModules`, `SignFiles`,
`WriteChecksums`, and then delivers: `Unlink` and `Rename` per file to a local
repository, `Upload` per file to a server, `CreateBundle`, `UploadBundle` and
polls to Central. `Stop` is any error or a kill at any step: nothing is undone.
`UploadUnanswered` and `UploadBundleUnanswered` are requests that are carried
out and whose answer is lost. A checksum or signature file is the content it
vouches for, so that a mixture of two publications is visible in `store`.

Abstractions: hashing and zipping are injective; an archive's inputs are read at
one instant, though they may change between key, archive and key; the
version of the project stays, so that all publications name the same paths (a
server that refuses to replace files is a rejected upload); the report is the
list of staged files; a signed publication followed by an unsigned one leaves
the old `.asc` files at the target (they are not in the report, and nothing is
said of them). `install_local` takes files as `read_dir` lists them; the model
orders them by path. The replacement of files on Windows, which removes first,
is left out.

### Manifests

`manifest[m]` is what `jman.toml` of `m` declares of one external dependency, or
that it only pins a JDK, or that there is none. `lock[m]` is the manifest and
workspace hashes a lockfile was written with and the contents it was resolved
from. A process runs one command: its `stage` follows the reads and writes of
`sync_one` (its own manifest, the hashes, the tree it resolves from, the
lockfile), module by module, and around that the manifest written by `add` and
`remove` with its restoration, the snapshot and restoration of `update`, and
the staged renames and deletions of `import`. `Mishap` fails or kills a command
at any step; other processes and the user write in between. `interfered` and
`moved` are history: somebody else has written files since the command began,
or while `sync_one` read.

Abstractions: one external dependency in two versions stands for all, a
resolution is the contents of the manifests it used, and a file is replaced at
one instant (the code renames).

### RepositoryClient and Dependencies

Bytes of a file are its *edition*; a repository that publishes a path again has
another. `memory`, `disk` and `stored` are the process's cache, the cache per
repository that processes share, and the content store. Some repositories are
directories (`file://`), which are read offline too (`Reached`). A task goes through
`lookup`, `wait` for the lock of its path, `disk` (ask repository after
repository, each first in its cache), `write` and `place`. `Republish` and
`Neighbour` change the world; `Restart` kills the process and runs the command
again.

`Dependencies` adds, per module of an import, the queue of candidates, the
packages selected so far and the prefetch of POMs. `Visit` is the body of the
loop of `resolve_in_workspace`: exclusion, relocation, selection or merging of a
candidate with the package already selected, management, derived scopes and new
candidates. Artifacts are downloaded by tasks that end in any order
(`FinishArtifacts`). `Init` picks the whole situation (POMs, root dependencies,
repository contents), so one run covers thousands of small universes.

`EffectivePoms` is sequential in the code (imported POMs are loaded at once and
sorted again) and therefore a function: `ImportWorkspace` takes the files of a
reactor from the root POM on (`Discover`), and each becomes an effective model
by `Build`: parent, properties, profiles, imported and own management,
dependencies. `memo` is the builder's cache, which later projects of the reactor
find earlier ones in. `MCEffectivePoms` defines the same declaratively: the
nearest POM of the lineage that says something about an artifact is right.

Abstractions: in `Dependencies` POMs are effective ones with two editions each,
and what `EffectivePoms` yields is not fed to it; a coordinate of
`EffectivePoms` is a name and a version, a value a string or a reference; an
exclusion is the set of packages it matches, the prefetch of a walk loads one
POM after the other, three attempts at a request are one, and classpaths are
not built.

### Toolchains and JdkStore

`home[v]` is the set of parts of a release's directory: its compiler, the rest,
and the metadata, which is written last. A command finds a release that has
metadata and compiler. An installation goes through its lock, a second look,
download, verification, extraction, the rename and the metadata; a removal
through its lock, its choice, one rename per target into `.remove-PID-INDEX`,
one deletion per target, or the renames back. Deletions are not atomic and may
stop anywhere; so may processes. `lock` is empty of a process that has died
(the system releases it). `damaged` is history: releases that a rollback has
put back after their deletion had failed half-way.

`JdkStore` has two variables: what a command finds, and what a removal has set
aside. `Toolchains` implements it with `managed <- Listed` and `taken <-` the
union of what running removals hold; the run checks it, `StoreImplemented`
proves it.

### NativeWorker and LanguageServer

`worker[r]` is a root's thread: its model, session and index, the job that runs
(an initialization, a resumed parse or a refinement) and what is deferred.
Commands with a reply are one step each, since the dispatcher waits for them
and nothing interrupts them; jobs run in the background and stop when the
cancellation generation moves (the flag `stale` of the job). `published[r]` is
the index and revision that the dispatcher reads.

`LanguageServer` is the dispatcher: a message of the editor becomes an `agenda`
of requests to threads and of steps of its own, in the order of the handler;
`Ask` sends the request at its head, the matching action is the reply. An error
ends the handler (`Abandon`). `held` is what diagnostics the editor has, with
their result id. `kept`, `failed` and `cut` are history: `cut` is the roots that
a command had moved before it stopped at another one. The world edits sources and
build files (`EditSource`, `EditBuildFile`).

Abstractions: a source text is a value; a build file is the model it imports
to, or broken; a root has one compile unit; reads of this state (navigation,
completion, tokens) are left out, and so are folders that come and go, rename,
the semantic-token and completion-resolve caches, external sources, symbol
tables and shutdown; annotation processing is a module of its own.

### AnnotationProcessors

`tree[u]` is what a compile unit has on disk: generated sources and classes
(described by the inputs they were made from), the staging directories, and the
two fingerprint files; `time` is the modification time of each directory:
generated sources, the classes of the last complete run (`classes`) and those of
a failed one (`partial`). A fingerprint is the version of the unit's sources and
the times of the directories that its request names: class directories
(`ClassPath`) and, for units in `Shown`, whose models name them, directories of
generated sources (`SourcePath`). `listing` is the class directories that a run
has found so far. `Finish` inserts them into `models`, where later runs of the
same server find them: on the class paths of dependents, and, the partial ones, on
that of the unit itself. `Begin` keeps the models (a save), loads new ones (an
initialization or a rebuild), or loads them and takes the old ones back when the
run fails (a reload); it leaves out units whose model lists a directory that is
gone (`Available`). `CannotStart` goes on without listing the unit's directories.

A server's `phase` follows the loop of `run_annotation_processors` (`Acquire` the unit's lock file,
`Skip`, `Ask`, and in `process` `Reuse`, `Send`, `Succeed`, `FailUnit`); `jvm` is
its worker, which compiles into staging and publishes with four steps
(`CleanGenerated`, `MoveGenerated`, `CleanClasses`, `MoveClasses`). `memory` is
the worker's map of fingerprints. `Kill` frees the lock file, which waiters find
stale, and leaves a busy worker behind. `overlap`, `quiet`, `cleared` and `asked`
are history.

Abstractions: one JDK for all units; the lock is held by one server (`FileLock`
has its protocol and its race); javac reads everything at one instant; a unit
with compile errors leaves partial classes; the models that are loaded list no
class directory of a worker, and when a run is given up its reload takes the old
models back (a save has none to take back, and `undo` is what it has). The inputs of a unit that have no
processors of their own are not in the model: a source directory on the source
path enters the code's fingerprint with its own time only, which an edit of a
file inside it does not change (processor_worker.rs:172).

## Properties

| Property | Run | Says |
|---|---|---|
| `NoLostPredecessor` | build_sequential | what is compiled has everything upstream returned in this build |
| `RecordNotAhead` | build_sequential | a fingerprint on disk names nothing newer than the classes beside it or upstream |
| `ResultsNotStale` | build_sequential | a returned module's classes are there and at least as new as what was fingerprinted |
| `NoOpCompilesNothing` | build_sequential | a settled workspace is never compiled without `--rebuild` |
| `SuccessIsFresh` | build_sequential | a successful build leaves classes made from contents the inputs had since it began |
| `TestsAreFresh` | test_commands | tests run from sources and against classes at least as new as when the command began, until commands overlap |
| `CommandsEnd` | test_commands | every compilation and test command returns, whatever others do to the same directories |
| `RunsRequestedSets` | test_source_sets | the test classes scanned are those of the requested source sets |
| `ExclusiveUnlessRaced`, `LoadsOwnImport`, `NeverRegresses` | model_shared | the lock excludes, loads read their own import, models do not get older, until `raced` |
| `AbandonedLockRecovered` | model_shared | a dead owner's file does not outlive a waiter's attempts |
| `MutualExclusion` | model_race | the lock excludes, without reservation |
| `RecordTruthful` | generators_shared | a recorded output was made from the inputs its key names |
| `DependencyHonoured` | generators_shared | a record that may be reused was made from the dependency output it names |
| `FailurePreservesOutput` | generators_shared | only the user, or a kill in the middle of a swap, takes a recorded output away |
| `RunsEnd` | generators_shared | waits for generator locks end |
| `CurrentLockIsTruthful` | manifests_commands | a lockfile that counts as current was resolved from what the manifests say |
| `SuccessMeansLocked` | manifests_commands | a command that succeeds leaves a current lockfile for each of its modules |
| `UpdateRestoresEverything`, `FailedImportLeavesNothing` | manifests_commands | what a failed update or import leaves |
| `AnalysesMatchSource` | language_server | answers are from an analysis of the text positions are converted with |
| `UnchangedIsTruthful` | language_server | an "unchanged" diagnostics report is true |
| `OneModel` | language_server | sessions, index and the analyses of edited documents come from the model in use, except after a failed rebuild or in a root that a command cut short had moved |
| `SyncedMeansCurrent` | language_server | "synchronized" means every root has the model of its build files |
| `FailedSyncPreserves` | language_server | a failed synchronization keeps the model that was in use, in each root it had not reloaded yet |
| `IndexedEventually` | language_server | a root is indexed in the end, or has reported why not |
| `ListedAreWhole` | toolchains | a JDK that a command finds has all its parts |
| `RemovalIsExact` | toolchains | a removal takes what it chose; one that fails before deleting takes nothing |
| `ImplementsStore` | toolchains | the store looks like `JdkStore` to commands without the lock |
| `ArtifactsAreStored` | dependencies | a package has its own artifact, whole, in the content store |
| `SameProjectSameGraph` | dependencies | equal projects of one import get equal graphs, whatever came first |
| `NearestWins`, `ScopesClosed` | dependencies | mediation is nearest first; what a package needs is selected in the derived scope |
| `EffectiveIsNearest` | dependencies | an imported project has the management and the dependencies of the nearest POM of its lineage |
| `ResolutionEnds` | dependencies | a resolution ends, through cycles and POMs that name themselves |
| `RecordTruthful` | release | an archive that would be reused was made from what its key names, until commands overlap |
| `PublishedIsWhole` | release | a reported publication is at its target, with checksums and signatures that fit |
| `PublishedIsFresh` | release | ... and was made from contents the workspace has had since the command began |
| `PomMeansArtifacts` | release | a server that has a POM has its archives |
| `FreshReuse` | processors_shared | generated sources and classes that a run would reuse were made from the present inputs |
| `RunsProcessEverything` | processors_shared | after a run that nothing disturbed every unit it has gone through is processed, unless it, or one that it is compiled against, has failed with its present inputs |

### Bounds

* Builds: three modules. `app` compiles against `base` and only tests against
  `side`, so that a layer has two concurrent modules and a test edge orders
  without contributing. Two versions, three builds, `--jobs 2`: a build that
  records, one that fails or is killed anywhere, one that sees what is left.
  What the run checks is proved without these bounds.
* Tests: a module with both source sets, a library that only its tests use, and a
  module that the library needs when it runs, two steps of scopes that no
  production code follows. Three commands one after another with one edit, or two
  commands at once without one (edits do not block anybody): one that records, one
  that stops anywhere, one that meets what is left. 212 882 distinct states, with
  termination. `TestsAreFresh` also holds on the 1 368 803 states of four commands
  of one process and two edits.
* Lock: three clients (an owner, two waiters: the race needs both), two
  attempts, one crash, one edit (none where only the lock is looked at).
* Generators: two dependent generators, two processes, two versions, three runs
  (one establishes records, two overlap).
* Manifests: a root and a module it depends on (the order of locking and the
  workspace hash matter), one process that runs every command and one that
  synchronizes, two commands, one edit: a command meets what another, killed or
  failed, has left, or runs beside it.
* Dependencies: 6 336 situations of one module over five coordinates of three
  packages (a conflict, a cycle, relocations, exclusions, management, each scope)
  without mishaps, and four imports of two modules with repositories that
  change, fail, are offline or kill the process; two repositories. 3 456
  reactors of a root and two modules over four published POMs (an earlier release
  of one of the modules among them), with two properties, two artifacts,
  profiles, imports, a chain of three parents and both orders of the modules.
  One of the two repositories is a directory. 522 686 distinct states from 9 797
  initial ones.
* Toolchains: two releases, so that the request for the major is ambiguous and a
  removal has two targets; two processes, five commands, three mishaps;
  1 040 418 distinct states. The theorems have no such bounds.
* Language server: one root with one source, two texts, two models (one of them
  modular, which defers refinement), three messages and two mishaps: enough to
  interrupt a job, fail its successor and meet the published revision late.
* Release: one module with three archives, three targets, two versions; either one
  process that builds and publishes twice, or a publication beside a build, in
  which case sources are edited when one of the two is over (`EditsAlone`; the
  theorems do without it). 3 599 476 distinct states. Several modules (`ByPath`, `Upstream`, fat
  archives) are in the modules and not in this instance.
* Annotation processors: two units, the second compiled against the first, each
  with a version that does not compile; two servers, three runs, two mishaps: a
  run that is killed or fails, an edit or another server's run beside it, and
  one that finds what is left. 2 978 497 distinct states, one of each pair that
  differs by the names of the servers. The models are those that name no directory
  for generated sources (`Shown = {}`), since reuse is possible with these: a
  directory that a request names is replaced by the unit's own publication, which
  makes the fingerprint outdated (see below). `RunsProcessEverything` also holds on
  the 1 630 385 states of one server whose models name them, with four runs and
  three mishaps; theorem `ReuseIsFresh` is about any `Shown`.

Deadlock checking is off: builds, edits and runs are bounded, and a system with
nothing left to do may stop.

### Fairness

`TestRuns!FairTestSpec` is weak fairness of each command's own steps: tokio polls
a task that can run, javac and the file system answer, and the JVMs of tests
return. Errors, kills, edits and the start of commands are outside it. A rename
that finds a directory in its way is a certain error and therefore inside
(`BlockedOutput`, `BlockedByTests`, `BlockedTests`).
`ModelCache!FairCacheSpec` is weak fairness of each running client's steps: the loop
of `acquire` sleeps and goes on, importers end. Nobody has to die, and the hour
after which an unnamed file is stale need not pass.
`GeneratorCache!FairSpec` is weak fairness of each process, which includes being
given a lock that stays free; with boundedly many runs nothing stronger is
needed.
`LanguageServer!FairSpec` is weak fairness of the dispatcher and of each root's
background jobs: threads run, and every command gets its reply. The editor sends
nothing it does not want to, and mishaps need not happen.
`Dependencies!FairSpec` is weak fairness of the futures together: the runtime
polls some future that can go on. `Release`, `Manifests`, `Toolchains`
and `AnnotationProcessors` are checked for safety only; a terminal command that
waits forever is visible.

## Where code and documents disagree

1. *Source sets* (run `test_source_sets`, docs/guides/testing.md:10 and 16).
   `compile_test_sources` puts the test classes of one selection of source sets
   in place (lib.rs:2188) before it writes their fingerprint (2189). When the
   command ends in between, the record of the last other selection stays, and
   the next command of that selection is a hit on the wrong classes: `jman test`
   silently runs the unit tests alone, or `--source-set unit` runs all.
2. *Process-safe lock files* (run `model_race`, docs/jman-java.md:61). Two
   waiters that find the same abandoned file can both get the lock.
   `clear_project_cache` has the same effect when one editor clears the cache
   while another imports (`Clearing = TRUE` in the same run shows it in five
   steps).

Known and described, without a run of their own.

Annotation processors:

* Unchanged output is processed again (docs/jman-java.md:124 "reuses unchanged
  output"). The fingerprint of a unit has the time of its own directory of
  generated sources, if its model names it (processor_worker.rs:172,
  project.rs:82-91), and the publication that follows replaces that directory. So
  the fingerprint kept for a success is never that of the next run: the unit is
  processed by every save and every start. With `Shown = Unit` TLC finds two runs
  in a row that do.
* Stable failures are processed again (docs/jman-java.md:232-235 "stable failures
  are fingerprinted separately"). A server that runs on has the partial classes of
  a failed unit on the unit's own class path (native_backend.rs:504-517; 411
  filters only the complete ones). Each further run fails under a fingerprint that
  the next one does not have, because it makes the partial classes anew. The unit
  is processed at every save, and a server started later does not know the failure
  that was recorded last either. `RunsProcessEverything` therefore speaks of a unit
  that has failed with its present inputs, whatever its own partial classes were
  (`FailedBefore`), and not of one whose failure is recognised.
* A repaired unit is left out (docs/jman-java.md:137 "Saving an owned Java source
  triggers fingerprinted regeneration"). Its partial classes are deleted, but stay
  in the model: the next save finds an entry missing that lies in no dependency's
  project (native_backend.rs:1364) and leaves the unit out, until the models are
  loaded again. TLC finds it with one unit and two edits; `RunsProcessEverything`
  is about the units that a run goes through.
* `clear_project_cache` (native_backend.rs:2683) leaves the workers with their
  fingerprints in memory; the rebuild gets cache hits for classes that are gone,
  until a source changes or the server restarts. docs/reference/storage.md:122
  says that the index is rebuilt. `RunsProcessEverything` leaves runs after a
  deletion out (`cleared`).
* A hit in the worker's memory does not look at the disk
  (processor_worker.rs:79-86), and a directory that is missing has no time, which
  is a fingerprint that can come back: one server processes a unit while a
  directory is missing, another one publishes the directory and processes the unit
  against it, then the directory is missing again (a publication that fails, or a
  killed server), and the first server takes what is on disk for its own.
  `RunsProcessEverything` therefore speaks of units none of whose dependencies has
  failed, and whose directories of generated sources are there (`Generated`).
* A request that names other directories processes a unit anew, but the fingerprint
  on disk, and those that other servers have in memory, stay until it has
  succeeded. When it is stopped between its two publications, or published by a
  server that knows of fewer directories (one that has just been started lists
  none), an old fingerprint may come true beside output that was not made under
  it. `FreshReuse` compares outputs made from directories of the same names
  (`Alike`), `RunsProcessEverything` is about units that have been asked for with
  one class path (`Uniform`).
* A publication deletes before it moves, twice (ProcessorWorker.java:154); a
  failure in between leaves neither the old nor the new directory, where
  docs/jman-java.md:144 says that failed runs retain the last good tree.
* A worker that dies is remembered as a failure of the inputs
  (processor_worker.rs:125), where docs/jman-java.md:233 speaks of stable
  failures.

Builds and archives:

* *Atomic failure recovery* (PLAN.md:281). A module's error drops its siblings; one
  that stands between its two renames loses its output directory, since only a
  failed rename is rolled back (lib.rs:734, 4737-4743).
* *No-op rebuilds* (PLAN.md:267, lib.rs:3328). `compile_module` computes its
  fingerprint once. Edit a file after it was hashed, let javac read the edit,
  put the file back: the classes are those of the edit, the record is that of
  the restored file, and every later build is a hit. `Revert = TRUE` in
  WorkspaceBuild_sequential.cfg makes TLC show it. Without restored contents
  (`Revert = FALSE`) it cannot happen, which is theorem `SuccessMeansFresh`.
* With two *overlapping* processes and `--rebuild`, a client generator may read
  its dependency's output while the other process is swapping it, and be
  recorded as up to date (`DependencyHonoured` is stated for runs that have not
  overlapped); two builds at once in one workspace do not keep freshness either.
* "An input changed while packaging must never be recorded under its old key"
  (lib.rs:3475). The keys before and after are compared, but in between the
  compilation of another command may move `.jman/output` or a generator's output
  away and put an equal tree back: the archive made meanwhile, of whatever kind,
  lacks what was away, and is recorded under the key with it, since a missing root
  reads as an empty one (lib.rs:4679-4683). TLC finds it when `RecordTruthful` is
  stated without `overlapped`. Inputs that a user changes and changes back have
  the same effect; they are not in the model.
* `compile_test_sources` (lib.rs:2074) records its fingerprint as
  `compile_module` does, with the same consequence. Compiler arguments of a
  manifest that is edited between discovery and the compilation reach javac in
  one of the two only. Nothing is promised for commands that overlap; the
  directory of a runner, which all processes share, is deleted and replaced
  (lib.rs:1934) although another command's JVM may be about to load it.

Publishing:

* `install_local` removes a file before it renames the new one into its place;
  docs/publishing.md:56 says that files are copied atomically.
* Two publications of one workspace share the staging directory without a lock.
  `StartPublish` keeps them apart: nothing could be said of two.
* The worktree is checked before the build, so what is edited during the build
  is published. After a timeout a repeated publication can be refused although
  the first one has gone through. A user-managed deployment that is published in
  the portal before it is polled ends in the timeout.

Manifests:

* `MutationIsAtomic` does not hold: PLAN.md:222 asks for atomic manifest and lock
  updates, and a failed `jman add` restores `jman.toml` while a module's lockfile
  written before the failure stays (main.rs:4838).
* A failed import deletes a `jman.toml` that only pinned a JDK and existed before
  (main.rs:4761-4770; PLAN.md:145-146).

Language server:

* `RefinedEventually` (docs/jman-java.md:213) does not hold: a refinement that is
  interrupted is not taken up again (async_native_backend.rs:117).
* The promise of docs/jman-java.md:22, that a failed synchronization preserves the
  last working model, does not hold for all of several roots: the fan-out stops
  at the first error, and earlier roots stay changed (workspace_backend.rs:221).
  `FailedSyncPreserves` leaves them out; in an instance of one root, as in the
  run, there are none. Reloads, rebuilds and configuration changes that stop this
  way do not reach the step that analyzes open documents again, so that those of
  the roots they had moved keep analyses of the old model until they are edited
  or a later command succeeds (`cut` in `OneModel`).
* `OpenBuffersWin` (docs/jman-java.md:218) does not hold: a workspace scan
  analyzes what is on disk, open documents included (server.rs:894-909).
* A first load that fails leaves the thread without a root, and neither reload
  nor rebuild brings it back (native_backend.rs:2577); a successful rebuildIndex
  does not clear the recorded initialization error.
* rebuildIndex and clearWorkspaceCache leave open documents without an analysis
  until they are edited (server.rs:2994-2998). A rebuild that fails when it
  deletes files keeps a session of the old model (native_backend.rs:2655), which
  `OneModel` leaves out. A document that is closed and opened again with the
  same version number gets the same result id (server.rs:2691).

JDKs:

* A `list` without the lock fails when a removal renames a directory between its
  test and its read. A `.remove-PID-INDEX` left by a killed removal is never
  cleaned, and blocks a later removal by a process with the same id.
* A deletion that fails half-way is rolled back, and what is left of the JDK is
  found again if compiler and metadata are among it (`damaged`).

Resolver:

* A reactor's parent that is listed after its child is asked for in the
  repositories (graph.rs:93-116), where PLAN.md:133 wants reactor POMs consulted
  first; the import of such a reactor fails, or takes a published parent.
* `manifest_from_maven` keeps dependencies in a map per scope (main.rs:6638), and
  `effective_from_manifest` reads them in the order of scope and name, so that a
  later `sync` breaks ties in another order than the import did;
  docs/product-contract.md:34 says declaration order. Two dependencies on one
  artifact that differ in type or classifier become one.
* Management and properties are applied at the POM that declares a dependency, not
  at the one that inherits it (effective.rs:230): a child that overrides a
  property or a managed version does not change what its parent declared.
  `EffectiveIsNearest` is stated accordingly.
* Relocations that lead back to one another through different coordinates do not
  end (graph.rs:274); root management is not applied again after a relocation.
* A file cached once is used without asking again, also for snapshots
  (repository.rs:213). An error of an earlier repository fails the fetch, where
  a missing file would ask the next one.

## Proofs

`WorkspaceBuildProofs` (assumptions: `GraphAssumption`, `AcyclicAssumption`,
`BoundAssumption`):

* `TypeCorrect`, `SchedulerKeepsPredecessors`: any number of processes. The
  scheduler's invariant `Scheduled` says that the finished layers are closed
  under `Deps` and that all their modules are done.
* `RecordsNeverAhead`, `ResultsNeverStale`, `NoOpIsNoOp`, `SuccessMeansFresh`:
  under `OneProcess` (at most one process builds) and `~Revert`. The invariants
  are not inductive alone. `FreshInv` adds what holds in the middle of a
  module: nothing is newer than the sources; an output is at least as new as
  its record; so is a temporary tree, and a returned result, compared with what
  was fingerprinted; what was fingerprinted is not older than the record; a
  module is in javac because its record or its output did not match; and `since`
  spans from the version at the start to the present one. The step from
  `TempCovers` to `OutputsCover` at `Place`, and the one that upstream classes
  cannot go back under a compiling module because their own build has returned
  (`Scheduled`), carry the argument.

The same module proves `TestCorrect` and `TestsFresh` of `TestRuns` (with
`TestAssumption` besides), under `~Revert`; the property itself is about
histories in which no two commands have overlapped, by any number of processes.
A reuse of test classes has to conclude from a record that names the class
directories as they are that the test classes were compiled against just these,
though record and classes are written apart and either may be torn, moved away
or put back alone. The invariant `TestInv` gets there by order. Class directories
only get newer: `Under` and `Older` say of a version or a tree that neither the
sources nor what lies in, or may still come to, an output directory is older, and
`UnderKept` and `PastKept` that no step undoes that. What test classes were
compiled against is never newer than the directories (`Known`), and never older
than their record (`Since`, in `Recorded`). A hit means that the record names the
directories themselves, so that the test classes lie between them and them.
`CompilationOk` and `CommandOk` carry the versions at the start of a command
through its compilation to the moment at which every module has classes; `TestOk`
takes them through `run_test_module`. The order is by directory, and so does not
say that test classes are of the source sets that their record names:
`RunsRequestedSets` fails there. TLC checked the invariant on the 1 368 803 states
of the larger instance.

`GeneratorCacheProofs` (assumptions: `DependsAssumption`, `NoneAssumption`,
`LimitAssumption`; any generators and processes, edits, tampering, cleanups,
errors and kills):

* `RecordsAreTruthful`, under `~Revert`. `TruthInv` adds that the first key is
  never newer than the inputs and that the tree made after it lies between the
  key and the inputs; the second key, when it is the first, closes the interval.
  With restored contents the two keys may agree around an output of a third
  version.
* `FailuresPreserveOutputs`. `CoverInv` says that an output that counts, because
  it is recorded or has been placed to be recorded, is on disk or is the
  non-empty backup of a process in the middle of a swap, unless it is `torn`.
  The backup is what `FailurePreservesOutput` leaves out and the induction needs:
  a process that fails while parked may have parked nothing, and then another
  one has the output.
* `DependenciesAreHonoured`. `DependencyInv` holds until two processes overlap:
  what a process has finished is as its state file says or has been cleaned away,
  the tree agrees with the state files that the dependencies had, and with the
  key once it is verified.

The first two do not use the lock at all, nor could they: `jman clean` may have
removed the file it is on.

`ToolchainsProofs` (assumption: `Bounds`; any releases, processes, commands and
mishaps): `TypeCorrect`, `OneCommandAtATime`, `FoundJdksAreWhole`,
`RemovalsAreExact`, and `StoreImplemented`, the refinement of `JdkStore`. The
inductive invariant `IInv` has four parts besides types and the positions of a
removal in its list: at most one process is past the lock (`Locked`); what an installation
has found missing, downloaded and extracted stays so (`TargetInv`), since nobody
else changes the store meanwhile; `RemovalInv` accounts for a removal: which
targets are aside and still have to be put back, that they are found again when
they are, and that the list is what it was without them; and `ListedAreWhole`
itself. The refinement has one step per action: most leave `Listed` alone, and
those that do not are an `Install`, `Take`, `PutBack` or `GiveUp`.

`ReleaseProofs` (assumptions: `PackagesAssumption`, `ReleaseAssumption`; any
modules with any order and upstream, processes, edits, commands, errors, kills
and answers of servers): `RecordsAreTruthful` and `PublishedFromFresh`. What
`IInv` adds follows a command through its steps. `SinceOf`: the sources, the
manifests read and, after the build, the classes are among what the command has
seen. `KeyOf`: from the first key to the second one sources only grow, so that
equal keys enclose what the archive has read; `RecordInv` is what comes of it.
`DoneOf`: an archive that the command is done with is fresh, made by it or
reused for a fresh key. From there freshness moves to the emptied staging
directory (`StagingOf`) and to the report (`ReportOf`). What is built may go back
or away, and another process may replace an archive, once processes overlap; up
to then at most one process runs (`OneAtATime`), and neither archives nor their
records are claimed to be anything after. That the trees which a build returns
are of what the sources have held is not proved here: it is how `Compile` takes
theorem `SuccessMeansFresh` of `WorkspaceBuildProofs`.

The same module proves `PublishedWhole` and `PomsComeLast`, from an invariant of
its own about delivery (`DInv`), which does not need freshness. One publication
runs at a time (`OnePublisher`), so that the staging directory is its own: first
emptied, then archives and POMs, then signatures, then checksums and the report,
which is the staged files (`StagedOf`). Whatever is not left to deliver has
arrived (`SentOf`); a deployment is whole, whoever made it, and one that is
published is what Central serves (`CentralInv`). Files are uploaded in the order
of their paths, in which a module's archives and their checksums come before its
POM: when the POM is next they are no longer among what is left, and so have
arrived.

`LanguageServerProofs` (assumptions: `Constants`, `NoDocument`; any roots,
documents, texts, models, messages and mishaps): `AnalysesMatch`, `Unchanged`,
`ModelIsOne`, `ReadyMeansCurrent` and `FailurePreserves`, all from one
invariant. The properties are about the server between two messages; the
invariant has to hold after each step of a handler, so it says what the handler
still owes. `AgendaInv` is the shape of an agenda: a scan and analyses, then at
most one message, or requests to distinct roots and what ends them. `DocsInv`:
the analysis of a document is of its text, or a request to analyze it is due,
with that text. `HeldInv`: an editor that holds diagnostics under the present id
holds the present diagnostics, and before they change the revisions have moved.
`ModelsInv`: an edited document's analysis is of its root's model, or the command
that has moved the root is still to analyze it (`Served`). `SyncInv`: a root
whose model is not that of its build file has a change that is not announced,
announced and pending, or about to be reloaded. Of the threads (`ThreadsInv`) it
suffices that each works with one model until a rebuild fails.

The second half of the same module is about the build models that such servers
share (`ModelCache`; assumptions: `ClientAssumption`, `TriesAssumption`,
`EditsAssumption`): `CacheTypeCorrect`, `LockExcludes`, `LoadReturnsImport`,
`PublishedNeverRegresses`, any number of clients, attempts, crashes and edits.
`LockInv` says that a file is judged stale, or is old, only when its creator is
dead, and that until `raced` the lock file is every holder's own; `UseInv`
says that only holders are inside and orders what they imported with what is
published.

`DependenciesProofs` (assumption: `SituationAssumption`, the shape of a
situation; any modules, coordinates, repositories, projects, failures and kills):
`Invariant`, `Stored` and `SameGraph`. `ClientInv` is about the tasks in `fetch`:
the lock of a path is its owner's, no other task is at work on that path, while
it is owned the path is not remembered, and what is remembered is an edition
that, if an artifact, is in the content store. `WalkOk` ties the tasks to the
walks: a POM that is loaded is that of the first candidate, and the i-th task
of a module downloads the artifact of its i-th package.
That gives `Stored`. `SameGraph` compares two walks that go on at their own pace
while repositories publish anew, so that no step relates them. Each walk is at the end
of a `Trail`, a sequence of queues and packages in which every one follows from
the one before it, the management of the root and files that are remembered;
what is remembered stays (`MemoryKept`), so that a trail stays one
(`TrailStays`). Two trails from the same roots agree as far as the shorter one
goes (`OneTrail`), and a trail does not go on from an empty queue, at which both
walks have ended. The induction over a trail, and the one over a list of
dependencies (`KeptOf`), are by the least counterexample (`Least`), which needs
no theorem with an operator as its parameter. TLC checked `Inv` but for the types
on the 522 686 states of the run; that a trail exists is out of its reach, the property itself
is not.

`ManifestsProofs` (assumptions: `OrderAssumption`, `UsesAssumption`, and
`NoLockAssumption`, which says that the value for a missing lockfile is not a
lockfile; any modules, processes and commands): `LocksAreTruthful`,
`SuccessLocks`, `UpdateRestores` and `FailedImportLeaves`. `LocksOk` is about
every lockfile, current or not: one that was not resolved while others wrote was
resolved from the contents whose hash it carries, and so were those in a
snapshot, which an update may bring back (`SavedOk`). `HashedOk` carries that
through a synchronization. The rest is about a process that nobody has interfered
with: what it has synchronized stays current until it is done (`SyncOk`), what it
has restored is as it was saved (`RestoreOk`), and every file that is not among
those an import has committed is still missing (`ImportOk`). TLC checked the
invariant on the 911 293 states of the run.

`AnnotationProcessorsProofs` (assumptions: `UnitAssumption`, `NoneAssumption`; any
units, dependencies, `Shown`, servers, runs and mishaps): `ReuseIsFresh`, from the
invariant of `ProcessorsInvariant`. `WaitOk` and `Apart` say who is at which unit;
`Past`, that a fingerprint is of versions and times that have been. Call a
fingerprint valid when its sources are the present ones and what it names of the
dependencies is there as it was: classes of their present sources, generated
sources, and no partial classes (`Valid`). The argument rests on lemma
`NeverAgain`: one that is not valid never becomes so again, since an edit or a
publication has a time of its own. Two facts of `ClassesOk` are needed for that:
classes are of sources that compile, and those beside partial ones are of older
sources, so that a class directory that comes back (a repaired unit, whose partial
classes the worker deletes) does not make an old fingerprint valid. What is on
disk then has to be followed for valid fingerprints only (`Fits`): through staging
and the two publications (`WorkOk`) to the record (`PersistedOk`), output of the
same directories was made from just what the fingerprint stands for. A publication
under another class path may lie beside the record meanwhile, which is why `Fits`
compares outputs that are `Alike`. Which directories a server's models list does
not matter to it: the theorem holds whatever `Begin` and `Finish` do to them. TLC
checked the invariant on the states of the run, and on those of the instance with
`Shown = Unit`.

Only model-checked:

* the liveness properties: fairness and ENABLED are out of the prover's reach;
* `NearestWins` and `ScopesClosed` of `Dependencies`. `Target`, which says where
  a declaration leads, follows one relocation. In the situations of the run a
  second one stays with the package it has reached (`b` to `c` 1 to `c` 2), and
  the properties compare packages; the theorems allow any chain. For chains the
  properties would have to be about their ends, and so about a recursive
  definition;
* `EffectiveIsNearest`: `EffectivePoms` is written with RECURSIVE operators;
* `RunsProcessEverything`: what it leaves out (`Uniform`, `Generated`) is about all
  the requests there have been, and an invariant would have to relate every
  fingerprint on disk and in memory to them;
* the properties with a violation.

Each inductive invariant was first checked by TLC on the instances above, except
for the trails.

## Plan

1. Done, with proofs: `WorkspaceBuild`, `TestRuns`, `FileLock`, `ModelCache`,
   `GeneratorCache`, `Toolchains`, `Packages` and `Release`, `Manifests`,
   `NativeWorker` and `LanguageServer`, `AnnotationProcessors`,
   `RepositoryClient` and `Dependencies`.
2. Done, model-checked: `EffectivePoms`.
3. Theorems next: `NearestWins` for walks in which nothing has moved, from the
   order of depths in a queue.
4. Modules next: cache clear and prune with their idle check, composed with
   `ModelCache`; the caches with a time to live (audit, JDK catalogs); folders
   that come and go in `LanguageServer`.
5. An abstract content cache (a reuse hands out what was made from the inputs
   named) that `WorkspaceBuild` without reverts, `GeneratorCache` and `Packages`
   implement.

## Not modelled

Classpath building, the reading of Maven's own effective model and version
ordering are pure functions, covered by table tests. The TTL caches replace one
file as a whole. The choice of a JDK for Gradle is a decision over the environment. Parsing and
printing of configuration, the Java frontend behind its bindings, terminal
output, editor clients, installer and build scripts keep no state that several
actors share, or none in this repository. These, and the large parts of
`main.rs`, `server.rs` and `native_backend.rs` that present results or convert
between representations, are most of the source that no definition maps.
