----------------------------- MODULE ModelCache -----------------------------
(***************************************************************************)
(* The imported build model of a Maven or Gradle project, shared by every  *)
(* language server that has the project open: load_project and             *)
(* import_project of crates/jman-java-lsp/src/project.rs.  Under the       *)
(* FileLock a load runs the importer into a file of its own, publishes the *)
(* result with a rename and reads the published model back; when the       *)
(* importer fails, the last published model is used.  A model is the       *)
(* version of the build files it was imported from, 0 is no model.  The    *)
(* lock protects nothing else: the structural and semantic caches are      *)
(* published the same way, with what their writer holds in memory.         *)
(***************************************************************************)
EXTENDS FileLock

CONSTANTS
    Clearing,   \* does a user clear the project's cache?
    MaxEdits    \* bound: edits of the build files

ASSUME EditsAssumption == Clearing \in BOOLEAN /\ MaxEdits \in Nat

VARIABLES
    build,      \* the version of the build files
    cacheModel, \* the model in the project's cache directory
    use,        \* how far each client has come inside the lock
    imported,   \* the model each client's importer has written
    got         \* the model each client's load has returned

modelVars == <<build, cacheModel, use, imported, got>>
cacheVars == <<lockVars, modelVars>>

Model == 0..(MaxEdits + 1)
Uses == {"none", "importing", "published", "kept", "loaded", "failed"}

CacheInit ==
    /\ LockInit
    /\ build = 1
    /\ cacheModel = 0
    /\ use = [c \in Client |-> "none"]
    /\ imported = [c \in Client |-> 0]
    /\ got = [c \in Client |-> 0]

EditBuild ==
    /\ build <= MaxEdits
    /\ build' = build + 1
    /\ UNCHANGED <<lockVars, cacheModel, use, imported, got>>

\* The importer evaluates the build; it can take minutes.
Import(c) ==
    /\ c \in alive
    /\ pc[c] = "hold"
    /\ use[c] = "none"
    /\ imported' = [imported EXCEPT ![c] = build]
    /\ use' = [use EXCEPT ![c] = "importing"]
    /\ UNCHANGED <<lockVars, build, cacheModel, got>>

\* The importer succeeded: its validated output, if it is still there, replaces
\* the model.
PublishModel(c) ==
    /\ c \in alive
    /\ use[c] = "importing"
    /\ imported[c] # 0
    /\ cacheModel' = imported[c]
    /\ use' = [use EXCEPT ![c] = "published"]
    /\ UNCHANGED <<lockVars, build, imported, got>>

\* The importer failed: the last good model counts, if there is one.
ImportFails(c) ==
    /\ c \in alive
    /\ use[c] = "importing"
    /\ use' = [use EXCEPT ![c] = IF cacheModel # 0 THEN "kept" ELSE "failed"]
    /\ imported' = [imported EXCEPT ![c] = 0]
    /\ UNCHANGED <<lockVars, build, cacheModel, got>>

\* The importer succeeded with an output that is no model, or that cannot be
\* put in place: an error, whatever model was published before.
ImportUnusable(c) ==
    /\ c \in alive
    /\ use[c] = "importing"
    /\ use' = [use EXCEPT ![c] = "failed"]
    /\ imported' = [imported EXCEPT ![c] = 0]
    /\ UNCHANGED <<lockVars, build, cacheModel, got>>

\* load_project reads the published model back, if there still is one.
Load(c) ==
    /\ c \in alive
    /\ use[c] \in {"published", "kept"}
    /\ got' = [got EXCEPT ![c] = cacheModel]
    /\ use' = [use EXCEPT ![c] = IF cacheModel # 0 THEN "loaded" ELSE "failed"]
    /\ UNCHANGED <<lockVars, build, cacheModel, imported>>

\* Both ways out of load_project drop the lock.
Leave(c) ==
    /\ use[c] \in {"loaded", "failed"}
    /\ Release(c)
    /\ use' = [use EXCEPT ![c] = "none"]
    /\ imported' = [imported EXCEPT ![c] = 0]
    /\ got' = [got EXCEPT ![c] = 0]
    /\ UNCHANGED <<build, cacheModel>>

\* clear_project_cache removes the project's cache directory with everything in
\* it, the lock file and the temporary models of other editors included.
ClearProjectCache(c) ==
    /\ Clearing
    /\ c \in alive
    /\ pc[c] = "idle"
    /\ Discard
    /\ cacheModel' = 0
    /\ imported' = [d \in Client |->
                        IF use[d] = "importing" THEN 0 ELSE imported[d]]
    /\ UNCHANGED <<build, use, got>>

Acquire(c) ==
    /\ \/ Create(c)
       \/ WritePid(c)
       \/ Check(c)
       \/ RemoveFile(c)
       \/ Timeout(c)
    /\ UNCHANGED modelVars

Progress(c) ==
    \/ Acquire(c)
    \/ Import(c)
    \/ PublishModel(c)
    \/ ImportFails(c)
    \/ ImportUnusable(c)
    \/ Load(c)
    \/ Leave(c)

Environment ==
    \/ EditBuild
    \/ \E c \in Client : ClearProjectCache(c)
    \/ \E c \in Client :
          (Enter(c) \/ CannotLock(c) \/ Crash(c)) /\ UNCHANGED modelVars
    \/ Age /\ UNCHANGED modelVars

CacheNext == Environment \/ \E c \in Client : Progress(c)

CacheSpec == CacheInit /\ [][CacheNext]_cacheVars

\* A client that runs keeps going; nobody has to open the project, die or
\* edit a build file.
FairCacheSpec == CacheSpec /\ \A c \in Client : WF_cacheVars(Progress(c))
------------------------------------------------------------------------------
(* Properties.                                                             *)

TypeOK ==
    /\ file \in Files
    /\ aged \in BOOLEAN
    /\ alive \in SUBSET Client
    /\ pc \in [Client -> Steps]
    /\ tries \in [Client -> 0..MaxTries]
    /\ judged \in [Client -> Files]
    /\ raced \in BOOLEAN
    /\ build \in Model
    /\ cacheModel \in Model
    /\ use \in [Client -> Uses]
    /\ imported \in [Client -> Model]
    /\ got \in [Client -> Model]

\* At most one running client believes it owns the lock, as long as no waiter
\* has removed a file other than the one it had found stale and nobody has
\* cleared the cache under a running client: crashes alone, also between
\* creating the file and naming its owner, do not break the lock.
ExclusiveUnlessRaced == ~raced => \A c, d \in Holders : c = d

\* What a load returns is the model its own import has published.
LoadsOwnImport ==
    \A c \in alive :
        ~raced /\ use[c] = "loaded" /\ imported[c] # 0 => got[c] = imported[c]

\* Editors that share the cache never replace a model by an older one.
NeverRegresses == [][raced \/ cacheModel' = 0 \/ cacheModel' >= cacheModel]_cacheVars

\* A lock file that names a client which has died.
Abandoned == file.pid /\ file.by \notin alive

\* The lock file of a client that died after it wrote its process id does not
\* outlive a wait for it (the tests of cache.rs call this recovery).
AbandonedLockRecovered ==
    \A c \in Client : Polling(c) /\ Abandoned ~> ~Abandoned \/ c \notin alive

\* "Process-safe lock files and atomic publication allow multiple editor
\* instances to share the same project cache" (docs/jman-java.md:61): no two
\* running clients ever own the lock at once.
MutualExclusion == \A c, d \in Holders : c = d
=============================================================================
