---------------------------- MODULE NativeWorker ----------------------------
(***************************************************************************)
(* The thread behind each workspace root of the Java language server       *)
(* (async_native_backend.rs, native_backend.rs).  It owns the imported     *)
(* build model, the javac session and the index of the root's sources, and *)
(* takes its commands from one queue.  Initialization, the retry of an     *)
(* interrupted parse (after 100 ms without a command) and the refinement   *)
(* of the index (at once, or after 30 s without a command when a model has *)
(* a module-info) run while the dispatcher goes on; they stop when the     *)
(* dispatcher moves the cancellation generation.  A command that waits for *)
(* a reply keeps the dispatcher waiting, so nothing interrupts it.         *)
(*                                                                         *)
(* A source text is a value, a build file is the model it imports to or    *)
(* Broken, and a root has one compile unit, hence at most one session.     *)
(* The generation counter is kept as the job's flag "stale": it has moved  *)
(* since the job read it.                                                  *)
(***************************************************************************)
EXTENDS Naturals, Sequences, FiniteSets

CONSTANTS Roots,         \* the workspace folders
          Uris, RootOf,  \* the Java sources, and the folder of each
          Texts,         \* what a source may say
          Models,        \* what a build file may be imported to
          Modular,       \* the models with a module-info.java
          Broken,        \* a build file that cannot be imported
          None,          \* nothing: no text, no model, no job, no document
          MaxMishaps     \* bound: I/O errors, failing analyses, and changes
                         \* made outside the editor

ASSUME Constants == /\ RootOf \in [Uris -> Roots] /\ Modular \subseteq Models
                    /\ Broken \notin Models /\ None \notin Models \cup Texts \cup Roots \cup Uris
                    /\ IsFiniteSet(Roots) /\ IsFiniteSet(Uris) /\ Texts # {}
                    /\ MaxMishaps \in Nat

VARIABLES disk,       \* the text of each source
          buildFile,  \* what each root's build files import to
          worker,     \* the state of each root's thread
          published,  \* the index and revision each thread shares with the dispatcher
          left        \* how many mishaps may still happen

workerVars == <<disk, buildFile, worker, published, left>>

Owned(r) == {u \in Uris : RootOf[u] = r}

\* An index is [model, docs], with the text of each source of the root and how
\* far it got: "parsed" or "attributed".  A job is [kind, stale, index]: an
\* initialization, a resumed parse or a refinement, the index it works towards,
\* and whether newer input has interrupted it.

\* Every command is refused until the first project load has succeeded: only
\* then does the backend have a root.
HasRoot(r) == worker[r].model # None

WorkerInit ==
  /\ disk = [u \in Uris |-> CHOOSE t \in Texts : TRUE]  \* texts are interchangeable
  /\ buildFile \in [Roots -> Models \cup {Broken}]
  /\ worker = [r \in Roots |->
       [started |-> FALSE, model |-> None, session |-> None, index |-> None, error |-> FALSE,
        retry |-> FALSE, refine |-> FALSE, replaced |-> FALSE, job |-> None]]
  /\ published = [r \in Roots |-> [index |-> None, revision |-> 0]]
  /\ left = MaxMishaps

---------------------------------------------------------------------------
Mishap == left > 0 /\ left' = left - 1
Fault == Mishap
NoFault == UNCHANGED left

\* rebuild_structural_index: the sources as they are on disk, parsed.
Parsed(r, m) == [model |-> m,
                 docs  |-> [u \in Owned(r) |-> [text |-> disk[u], level |-> "parsed"]]]

\* refine_semantic_index: the sources of the parsed index, attributed, except
\* in modular units, and whatever the disk says by now.
Refined(index) ==
  IF index = None \/ index.model \in Modular THEN index
  ELSE [index EXCEPT !.docs = [u \in DOMAIN @ |-> [@[u] EXCEPT !.level = "attributed"]]]

Job(kind, index) == [kind |-> kind, stale |-> FALSE, index |-> index]
Defers(m) == m \in Modular
Becomes(r, w) == worker' = [worker EXCEPT ![r] = w]
Publish(r, index) ==
  published' = [published EXCEPT ![r] = [index |-> index, revision |-> @.revision + 1]]

\* What follows a successful structural index, in the background: a
\* refinement now, or once the editor has been silent.
ThenRefine(w) ==
  IF Defers(w.model) THEN [w EXCEPT !.refine = TRUE, !.job = None]
  ELSE [w EXCEPT !.job = Job("refine", w.index)]

---------------------------------------------------------------------------
(* In the background. *)

\* Command::Initialize, to the start of the parse: the model is installed even
\* if the parse will be interrupted, but the root is only known if the build
\* files could be imported.
StartInitialize(r) ==
  /\ ~worker[r].started
  /\ Becomes(r, IF buildFile[r] = Broken THEN [worker[r] EXCEPT !.started = TRUE, !.error = TRUE]
                ELSE [worker[r] EXCEPT !.started = TRUE, !.model = buildFile[r],
                        !.job = Job("initialize", Parsed(r, buildFile[r]))])
  /\ UNCHANGED <<disk, buildFile, published, left>>

Running(r, kinds) == worker[r].job # None /\ worker[r].job.kind \in kinds

DropIndex(r) ==
  /\ Running(r, {"initialize", "resume"}) /\ worker[r].job.stale
  /\ Becomes(r, [worker[r] EXCEPT !.job = None])
  /\ UNCHANGED <<disk, buildFile, published, left>>

\* An interrupted parse is not an error: it is tried again.
InterruptIndex(r) ==
  /\ Running(r, {"initialize", "resume"}) /\ worker[r].job.stale
  /\ Becomes(r, [worker[r] EXCEPT !.job = None, !.retry = TRUE])
  /\ UNCHANGED <<disk, buildFile, published, left>>

FailIndex(r) ==
  /\ Running(r, {"initialize", "resume"}) /\ ~worker[r].job.stale
  /\ Fault
  /\ Becomes(r, [worker[r] EXCEPT !.job = None, !.retry = FALSE, !.error = TRUE])
  /\ UNCHANGED <<disk, buildFile, published>>

FinishIndex(r) ==
  /\ Running(r, {"initialize", "resume"}) /\ ~worker[r].job.stale
  /\ LET index == worker[r].job.index
     IN  /\ Becomes(r, ThenRefine([worker[r] EXCEPT !.index = index, !.error = FALSE,
                                                    !.retry = FALSE]))
         /\ Publish(r, index)
  /\ UNCHANGED <<disk, buildFile, left>>

\* A refinement that is interrupted, or fails, is only reported.
StopRefine(r) ==
  /\ Running(r, {"refine"})
  /\ (worker[r].job.stale /\ NoFault) \/ Fault
  /\ Becomes(r, [worker[r] EXCEPT !.job = None])
  /\ UNCHANGED <<disk, buildFile, published>>

FinishRefine(r) ==
  /\ Running(r, {"refine"}) /\ ~worker[r].job.stale
  /\ LET index == Refined(worker[r].job.index)
     IN  /\ Becomes(r, [worker[r] EXCEPT !.index = index, !.job = None])
         /\ Publish(r, index)
  /\ UNCHANGED <<disk, buildFile, left>>

\* No command for 100 ms: the interrupted parse starts over, from the disk as
\* it is now.
Resume(r) ==
  /\ worker[r].retry /\ worker[r].job = None
  /\ Becomes(r, [worker[r] EXCEPT !.job = Job("resume", Parsed(r, worker[r].model))])
  /\ UNCHANGED <<disk, buildFile, published, left>>

\* No command for 30 s.
RefineWhenIdle(r) ==
  /\ worker[r].refine /\ ~worker[r].retry /\ worker[r].job = None
  /\ Becomes(r, [worker[r] EXCEPT !.refine = FALSE, !.job = Job("refine", worker[r].index)])
  /\ UNCHANGED <<disk, buildFile, published, left>>

---------------------------------------------------------------------------
(* Commands with a reply: each is one step of the thread, when no job runs. *)

Free(r) == worker[r].started /\ worker[r].job = None
CanLoad(r) == HasRoot(r) /\ buildFile[r] # Broken

EverySession(w, m) == w.session

\* A changed model drops its session; another is made on demand.
KeptSession(w, m) == IF w.model = m THEN w.session ELSE None

NotRolledBack(w, m) == [w EXCEPT !.model = m]

\* reload restores the models, index and runtime when a later step fails.
RolledBack(w, m) == w

\* A command that could not load the project, or failed in a later step, and
\* left the thread as it was.
Refused(r) ==
  /\ \/ ~CanLoad(r) /\ NoFault /\ UNCHANGED worker
     \/ CanLoad(r) /\ Fault /\ Becomes(r, RolledBack(worker[r], buildFile[r]))
  /\ UNCHANGED <<disk, buildFile, published>>

\* NativeBackend::reload that succeeds.  After a rebuild that failed it sees
\* no change, and keeps a session of the model before.
Reloaded(r) ==
  LET session == KeptSession(worker[r], buildFile[r])
  IN  [worker[r] EXCEPT !.model = buildFile[r], !.index = Parsed(r, buildFile[r]),
                        !.session = session, !.replaced = @ /\ session \notin {None, buildFile[r]}]

\* The index is published, and a refinement follows in the same command unless
\* it is deferred; when that fails, the parsed index stays.
PublishAndRefine(r, w) ==
  /\ \/ NoFault /\ Becomes(r, [w EXCEPT !.index = Refined(@), !.refine = @ \/ Defers(w.model)])
     \/ Fault /\ ~Defers(w.model) /\ Becomes(r, w)
  /\ Publish(r, worker'[r].index)
  /\ UNCHANGED <<disk, buildFile>>

\* Command::Reload: the only command that ends a failed initialization.
Reload(r) == CanLoad(r) /\ PublishAndRefine(r, [Reloaded(r) EXCEPT !.error = FALSE])

\* Command::SourceSaved: the generators and the parse run again, on the disk.
SourceIgnored(r) == ~HasRoot(r) /\ UNCHANGED workerVars
SourceSaved(r) ==
  /\ HasRoot(r)
  /\ PublishAndRefine(r, [worker[r] EXCEPT !.session = None,
                                           !.index = Parsed(r, worker[r].model)])
SourceSavedFails(r) ==
  /\ HasRoot(r) /\ Fault
  /\ \E session \in {worker[r].session, None} : Becomes(r, [worker[r] EXCEPT !.session = session])
  /\ UNCHANGED <<disk, buildFile, published>>

\* Command::RebuildIndex refines in any case, publishes once, and does not end
\* a failed initialization.
Rebuild(r) ==
  /\ CanLoad(r)
  /\ LET index == Refined(Parsed(r, buildFile[r]))
     IN  /\ Becomes(r, [worker[r] EXCEPT !.model = buildFile[r], !.session = None,
                                         !.index = index, !.replaced = FALSE])
         /\ Publish(r, index)
  /\ UNCHANGED <<disk, buildFile, left>>

\* Unlike reload, it has replaced the models before the steps that may fail:
\* removing the caches, parsing, refining.  "replaced" remembers it.
RebuildFails(r) ==
  \/ ~CanLoad(r) /\ UNCHANGED workerVars
  \/ /\ CanLoad(r) /\ Fault
     /\ \E w \in {worker[r], [worker[r] EXCEPT !.session = None],
                  [worker[r] EXCEPT !.session = None, !.index = Parsed(r, buildFile[r])]} :
          Becomes(r, [w EXCEPT !.model = buildFile[r], !.replaced = TRUE])
     /\ UNCHANGED <<disk, buildFile, published>>

\* Command::ClearProjectCache forgets the index and does not publish that.
ClearCache(r) ==
  /\ HasRoot(r)
  /\ Becomes(r, [worker[r] EXCEPT !.session = None, !.index = None])
  /\ UNCHANGED <<disk, buildFile, published, left>>
ClearCacheFails(r) ==
  /\ IF HasRoot(r) THEN Fault ELSE NoFault
  /\ UNCHANGED <<disk, buildFile, worker, published>>

\* Command::UpdateConfiguration: a new buildSystem preference reloads; in any
\* case what the thread has, even nothing, is published.
SameConfiguration(r) ==
  Publish(r, worker[r].index) /\ UNCHANGED <<disk, buildFile, worker, left>>
NewConfiguration(r) ==
  /\ CanLoad(r)
  /\ Becomes(r, Reloaded(r))
  /\ Publish(r, Reloaded(r).index)
  /\ UNCHANGED <<disk, buildFile, left>>

\* Command::Analyze, in the session of the model.
CanAnalyze(r) == ~worker[r].error /\ HasRoot(r)
SessionModel(r) == IF worker[r].session = None THEN worker[r].model ELSE worker[r].session
Analyze(r) ==
  /\ CanAnalyze(r)
  /\ Becomes(r, [worker[r] EXCEPT !.session = SessionModel(r)])
  /\ UNCHANGED <<disk, buildFile, published, left>>
AnalyzeFails(r) ==
  /\ IF CanAnalyze(r) THEN Fault ELSE NoFault
  /\ UNCHANGED <<disk, buildFile, worker, published>>

\* The cancellation generation moves: a job that has read it will notice.
Interrupted(w) == IF w.job = None THEN w ELSE [w EXCEPT !.job.stale = TRUE]
=============================================================================
