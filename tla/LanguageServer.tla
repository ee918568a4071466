--------------------------- MODULE LanguageServer ---------------------------
(***************************************************************************)
(* The dispatcher of the Java language server (server.rs, documents.rs,    *)
(* workspace_backend.rs) above the threads of NativeWorker.  It handles    *)
(* one message of the editor at a time, and waits for every request it     *)
(* makes of a thread.  Before each message it looks at the revisions of    *)
(* the published indexes, and takes them over when one has changed.        *)
(*                                                                         *)
(* What a message makes the dispatcher do is its agenda: a sequence of     *)
(* requests to threads and of steps of its own.  "asked" tells whether the *)
(* request at its head has been sent; sending it may interrupt a job.      *)
(*                                                                         *)
(* The answers that only read this state (navigation, completion, tokens)  *)
(* are left out, and so are folders that come and go.                      *)
(***************************************************************************)
EXTENDS NativeWorker, SequencesExt

CONSTANTS Kinds,        \* the messages the editor may send
          Modes,        \* the build-sync modes the editor may have set
          JmanRoots,    \* roots whose build files the interruption does not know
          MaxMessages   \* bound: messages sent

ASSUME NoDocument == None \notin [version : Nat, text : Texts]

VARIABLES docs,        \* the open documents
          index,       \* indexed_sources
          analyses,    \* the last analysis of each document
          failed,      \* history: documents whose last analysis failed
          seen,        \* structural_revision: the revisions last taken over
          sync,        \* build_sync_state
          pending,     \* pending_build_changes, by root
          kept,        \* history: the models when the synchronization began
          cut,         \* history: roots that a command had moved before it stopped
                       \* at another one, until all documents are analyzed again
          unnotified,  \* roots whose build file changed and was not announced
          held,        \* the diagnostics the editor holds, and their result id
          sent,        \* messages sent
          agenda, asked

docVars == <<docs, held>>
indexVars == <<index, analyses, failed, seen>>
buildVars == <<sync, pending, kept, unnotified>>
syncVars == <<buildVars, cut>>
serverVars == <<docVars, indexVars, syncVars>>
vars == <<workerVars, serverVars, sent, agenda, asked>>

\* An analysis is [text, level, model, by], where "by" says what asked for it:
\* the "index", the "editor", a "close" or a "scan".
Revisions == [r \in Roots |-> published[r].revision]
IsOpen(u) == docs[u] # None
SourceText(u) == IF IsOpen(u) THEN docs[u].text ELSE index[u]

Init ==
  /\ WorkerInit
  /\ docs = [u \in Uris |-> None] /\ index = [u \in Uris |-> None]
  /\ analyses = [u \in Uris |-> None] /\ held = [u \in Uris |-> None]
  /\ failed = {} /\ seen = [r \in Roots |-> 0] /\ sync = "ready" /\ pending = {}
  /\ kept = [r \in Roots |-> None] /\ unnotified = {} /\ cut = {}
  /\ sent = 0 /\ agenda = <<>> /\ asked = FALSE

---------------------------------------------------------------------------
(* The agenda. *)

Message(op, u, t, r) == [op |-> op, uri |-> u, text |-> t, root |-> r, by |-> None]
Request(op, r) == Message(op, None, None, r)
AnalysisOf(u, text, by) ==
  [op |-> "analyze", uri |-> u, text |-> text, root |-> RootOf[u], by |-> by]

ForRoots(op, roots) == [i \in 1..Cardinality(roots) |-> Request(op, SetToSeq(roots)[i])]
ForUris(uris, text, by) ==
  [i \in 1..Cardinality(uris) |-> LET u == SetToSeq(uris)[i] IN AnalysisOf(u, text[u], by)]

Todo == Head(agenda)
At(op) == agenda # <<>> /\ Todo.op = op
Then(items) == agenda' = items \o Tail(agenda) /\ asked' = FALSE
Done == Then(<<>>)

\* An error ends the handler: what it still had to do is not done.
Abandon == agenda' = <<>> /\ asked' = FALSE

\* ... and of the roots that it was to ask some have done as asked.
Waiting(op) == {r \in Roots : \E i \in DOMAIN agenda : agenda[i] = Request(op, r)}
CutShort(roots) == Abandon /\ cut' = cut \cup (roots \ Waiting(Todo.op))

Threads == {"analyze", "reload", "saved", "rebuild", "clear", "configure", "reconfigure"}
\* The requests that move the cancellation generation of their root.  That of
\* a reload does so for the build files of other tools, or none at all.
Interrupts == {"analyze", "saved"}
MovesGeneration(item) ==
  \/ item.op \in Interrupts
  \/ item.op = "reload" /\ (item.root \notin JmanRoots \/ pending = {})

Ask ==
  /\ agenda # <<>> /\ ~asked /\ Todo.op \in Threads
  /\ asked' = TRUE
  /\ worker' = IF MovesGeneration(Todo)
               THEN [worker EXCEPT ![Todo.root] = Interrupted(@)] ELSE worker
  /\ UNCHANGED <<disk, buildFile, published, left, serverVars, sent, agenda>>

\* The reply of the thread, once it is free.
Reply(op) == asked /\ At(op) /\ Free(Todo.root) /\ UNCHANGED sent
\* A step of the dispatcher itself.
Own(op) == At(op) /\ UNCHANGED sent

---------------------------------------------------------------------------
(* Taking over the published indexes. *)

Indexed(u) == published[RootOf[u]].index # None
NothingPublished == \A u \in Uris : ~Indexed(u)
IndexPending == \E r \in Roots : published[r].revision = 0
PublishedDoc(u) == published[RootOf[u]].index.docs[u]

TakenOverAlways(an, u) ==
  IF Indexed(u)
  THEN [text |-> PublishedDoc(u).text, level |-> PublishedDoc(u).level,
        model |-> published[RootOf[u]].index.model, by |-> "index"]
  ELSE None

\* The analyses of open documents are left alone, those of other documents
\* replaced, or removed when they are not indexed.
TakenOver(an, u) ==
  IF IsOpen(u) THEN an[u]
  ELSE IF Indexed(u)
       THEN [text |-> PublishedDoc(u).text, level |-> PublishedDoc(u).level,
             model |-> published[RootOf[u]].index.model, by |-> "index"]
       ELSE None

\* index_workspace, from the sources and analyses given; "rest" remains to be
\* done.  If every index is empty but none is pending, the server scans the
\* sources itself.
IndexWorkspace(idx, an, rest) ==
  /\ IF NothingPublished
     THEN /\ index' = idx /\ analyses' = an /\ UNCHANGED failed
          /\ agenda' = (IF IndexPending THEN <<>> ELSE <<Request("sources", None)>>) \o rest
     ELSE /\ index' = [u \in Uris |-> IF Indexed(u) THEN PublishedDoc(u).text ELSE None]
          /\ analyses' = [u \in Uris |-> TakenOver(an, u)]
          /\ failed' = {u \in failed : IsOpen(u)}
          /\ agenda' = rest
  /\ asked' = FALSE

Nowhere == [u \in Uris |-> None]
OpenUris == {u \in Uris : IsOpen(u)}
OpenTexts == [u \in Uris |-> SourceText(u)]

\* reindex_open_documents, and the same steps in synchronize_project.
Reindex ==
  /\ Own("reindex")
  /\ IndexWorkspace(Nowhere, Nowhere, ForUris(OpenUris, OpenTexts, "editor") \o Tail(agenda))
  /\ cut' = {}
  /\ UNCHANGED <<workerVars, docVars, seen, buildVars>>

\* The rebuildIndex and clearWorkspaceCache commands analyze no document.
Reset ==
  /\ Own("reset")
  /\ IndexWorkspace(Nowhere, Nowhere, Tail(agenda))
  /\ cut' = {}
  /\ UNCHANGED <<workerVars, docVars, seen, buildVars>>

\* The scan analyzes what is on disk, open documents included.
ScanSources ==
  LET scanned == {u \in Uris : HasRoot(RootOf[u])}
  IN  /\ Own("sources") /\ \A r \in Roots : Free(r)
      /\ index' = [u \in Uris |-> IF u \in scanned THEN disk[u] ELSE index[u]]
      /\ Then(ForUris(scanned, disk, "scan"))
      /\ UNCHANGED <<workerVars, docVars, analyses, failed, seen, syncVars>>

---------------------------------------------------------------------------
(* Analyses: analyze_document and update_index. *)

Analyzed ==
  /\ Reply("analyze") /\ Done
  /\ Analyze(Todo.root)
  /\ analyses' = [analyses EXCEPT ![Todo.uri] =
       [text |-> Todo.text, level |-> "attributed", model |-> SessionModel(Todo.root), by |-> Todo.by]]
  /\ failed' = failed \ {Todo.uri}
  /\ UNCHANGED <<docVars, index, seen, syncVars>>

\* The earlier analysis stays.
AnalysisFails ==
  /\ Reply("analyze") /\ Done
  /\ AnalyzeFails(Todo.root)
  /\ failed' = failed \cup {Todo.uri}
  /\ UNCHANGED <<docVars, index, analyses, seen, syncVars>>

---------------------------------------------------------------------------
(* Documents. *)

DidOpen ==
  /\ Own("open")
  /\ docs' = [docs EXCEPT ![Todo.uri] = [version |-> 1, text |-> Todo.text]]
  /\ Then(<<AnalysisOf(Todo.uri, Todo.text, "editor")>>)
  /\ UNCHANGED <<workerVars, held, indexVars, syncVars>>

DidChange ==
  /\ Own("change")
  /\ docs' = [docs EXCEPT ![Todo.uri] = [version |-> @.version + 1, text |-> Todo.text]]
  /\ Then(<<AnalysisOf(Todo.uri, Todo.text, "editor")>>)
  /\ UNCHANGED <<workerVars, held, indexVars, syncVars>>

\* A closed document is analyzed again as the index has it, or forgotten.
\* The editor forgets the diagnostics it held for it.
DidClose ==
  LET u == Todo.uri
  IN  /\ Own("close")
      /\ docs' = [docs EXCEPT ![u] = None]
      /\ held' = [held EXCEPT ![u] = None]
      /\ \/ /\ index[u] # None
            /\ Then(<<AnalysisOf(u, index[u], "close")>>)
            /\ UNCHANGED analyses
         \/ /\ index[u] = None
            /\ analyses' = [analyses EXCEPT ![u] = None]
            /\ Done
      /\ UNCHANGED <<workerVars, index, failed, seen, syncVars>>

\* Saving an owned source regenerates and parses; then everything open is
\* analyzed again.
Saved ==
  /\ Reply("saved")
  /\ \/ SourceSaved(Todo.root) /\ Then(<<Request("reindex", None)>>)
     \/ SourceIgnored(Todo.root) /\ Done
     \/ SourceSavedFails(Todo.root) /\ Abandon
  /\ UNCHANGED serverVars

RevisionOnly(u) == <<seen>>

\* textDocument/diagnostic: "unchanged" if the id of the editor's diagnostics
\* is the id of this moment, the revisions taken over and the version.
ResultId(u) == <<seen, docs[u].version>>

Items(u) == IF analyses[u] = None THEN None
            ELSE <<analyses[u].text, analyses[u].level, analyses[u].model, SourceText(u)>>
Holds(u) == held[u] # None /\ held[u].id = ResultId(u)
PullDiagnostics ==
  LET u == Todo.uri
  IN  /\ Own("pull") /\ Done
      /\ held' = IF Holds(u) THEN held
                 ELSE [held EXCEPT ![u] = [id |-> ResultId(u), items |-> Items(u)]]
      /\ UNCHANGED <<workerVars, docs, indexVars, syncVars>>

---------------------------------------------------------------------------
(* Build synchronization. *)

\* synchronize_project asks the roots with pending changes, in order, or all
\* of them if there are none.
Reloadable == IF pending = {} THEN Roots ELSE pending

BeginSync ==
  /\ Own("sync")
  /\ sync' = "syncing"
  /\ kept' = [r \in Roots |-> worker[r].model]
  /\ Then(ForRoots("reload", Reloadable) \o <<Request("synced", None)>>)
  /\ UNCHANGED <<workerVars, docVars, indexVars, pending, unnotified, cut>>

WatchedFiles ==
  /\ Own("watched")
  /\ pending' = pending \cup {Todo.root}
  /\ sync' = "required"
  /\ \/ "automatic" \in Modes /\ Then(<<Request("sync", None)>>)
     \/ "manual" \in Modes /\ Done
  /\ UNCHANGED <<workerVars, docVars, indexVars, kept, unnotified, cut>>

SyncRootAnyway ==
  /\ Reply("reload") /\ Done
  /\ Reload(Todo.root) \/ Refused(Todo.root)
  /\ UNCHANGED <<docVars, indexVars, syncVars>>

SyncRoot ==
  /\ Reply("reload")
  /\ \/ Reload(Todo.root) /\ Done /\ UNCHANGED <<sync, cut>>
     \/ Refused(Todo.root) /\ CutShort(Reloadable) /\ sync' = "failed"
  /\ UNCHANGED <<docVars, indexVars, pending, kept, unnotified>>

Synced ==
  /\ Own("synced")
  /\ sync' = "ready"
  /\ pending' = {}
  /\ Then(<<Request("reindex", None)>>)
  /\ UNCHANGED <<workerVars, docVars, indexVars, kept, unnotified, cut>>

---------------------------------------------------------------------------
(* Configuration, file operations and commands: see Agenda. *)

Configured ==
  /\ \/ Reply("configure") /\ SameConfiguration(Todo.root) /\ Done /\ UNCHANGED cut
     \/ Reply("reconfigure") /\ \/ NewConfiguration(Todo.root) /\ Done /\ UNCHANGED cut
                                \/ Refused(Todo.root) /\ CutShort(Roots)
  /\ UNCHANGED <<docVars, indexVars, buildVars>>

Rebuilt ==
  /\ Reply("rebuild")
  /\ \/ Rebuild(Todo.root) /\ Done /\ UNCHANGED cut
     \/ RebuildFails(Todo.root) /\ CutShort(Roots)
  /\ UNCHANGED <<docVars, indexVars, buildVars>>

Cleared ==
  /\ Reply("clear")
  /\ \/ ClearCache(Todo.root) /\ Done
     \/ ClearCacheFails(Todo.root) /\ Abandon
  /\ UNCHANGED serverVars

\* $/cancelRequest interrupts whatever runs, in every root.
CancelRequest ==
  /\ Own("cancel") /\ Done
  /\ worker' = [r \in Roots |-> Interrupted(worker[r])]
  /\ UNCHANGED <<disk, buildFile, published, left, serverVars>>

---------------------------------------------------------------------------
(* The editor, the threads, and the world outside. *)

\* Messages that make sense to the editor: it opens what is closed, changes,
\* saves and closes what is open, and announces a build file that changed.
Messages ==
  {Message("open", u, t, None) : u \in Uris \ OpenUris, t \in Texts}
    \cup {Message("change", u, t, None) : u \in OpenUris, t \in Texts}
    \cup {Message(op, u, None, None) : op \in {"close", "save", "pull"}, u \in OpenUris}
    \cup {Message("watched", None, None, r) : r \in unnotified}
    \cup {Request(op, None) : op \in {"sync", "settings", "otherSettings", "files",
                                      "rebuildIndex", "clearWorkspaceCache", "cancel"}}

\* What the handlers that only make requests put on the agenda.
Agenda(m) ==
  CASE m.op = "save" -> <<Request("saved", RootOf[m.uri])>>
    [] m.op = "settings" -> ForRoots("configure", Roots) \o <<Request("reindex", None)>>
    [] m.op = "otherSettings" -> ForRoots("reconfigure", Roots) \o <<Request("reindex", None)>>
    [] m.op = "files" -> ForRoots("rebuild", Roots) \o <<Request("reindex", None)>>
    [] m.op = "rebuildIndex" -> ForRoots("rebuild", Roots) \o <<Request("reset", None)>>
    [] m.op = "clearWorkspaceCache" ->
         ForRoots("clear", Roots) \o ForRoots("rebuild", Roots) \o <<Request("reset", None)>>
    [] OTHER -> <<m>>

\* refresh_structural_workspace precedes every message.
Receive(m) ==
  /\ agenda = <<>> /\ sent < MaxMessages /\ m.op \in Kinds
  /\ sent' = sent + 1
  /\ \/ seen = Revisions /\ agenda' = Agenda(m) /\ UNCHANGED <<indexVars, asked>>
     \/ seen # Revisions /\ seen' = Revisions /\ IndexWorkspace(index, analyses, Agenda(m))
  /\ disk' = IF m.op = "save" THEN [disk EXCEPT ![m.uri] = docs[m.uri].text] ELSE disk
  /\ unnotified' = unnotified \ {m.root}
  /\ UNCHANGED <<buildFile, worker, published, left, docVars, sync, pending, kept, cut>>

EditBuildFile(r) ==
  /\ Mishap
  /\ \E b \in (Models \cup {Broken}) \ {buildFile[r]} : buildFile' = [buildFile EXCEPT ![r] = b]
  /\ unnotified' = unnotified \cup {r}
  /\ UNCHANGED <<disk, worker, published, docVars, indexVars, sync, pending, kept, cut,
                 sent, agenda, asked>>
EditSource(u) ==
  /\ Mishap
  /\ \E t \in Texts \ {disk[u]} : disk' = [disk EXCEPT ![u] = t]
  /\ UNCHANGED <<buildFile, worker, published, serverVars, sent, agenda, asked>>

Dispatch ==
  \/ Ask \/ Reindex \/ Reset \/ ScanSources \/ Analyzed \/ AnalysisFails
  \/ DidOpen \/ DidChange \/ DidClose \/ Saved \/ PullDiagnostics
  \/ BeginSync \/ WatchedFiles \/ SyncRoot \/ Synced
  \/ Configured \/ Rebuilt \/ Cleared \/ CancelRequest

\* The idle jobs start when no command waits.
Idle(r) == ~(asked /\ Todo.root = r)
Background(r) ==
  /\ \/ StartInitialize(r) \/ InterruptIndex(r) \/ FailIndex(r) \/ FinishIndex(r)
     \/ StopRefine(r) \/ FinishRefine(r)
     \/ Idle(r) /\ (Resume(r) \/ RefineWhenIdle(r))
  /\ UNCHANGED <<serverVars, sent, agenda, asked>>

Next ==
  \/ Dispatch
  \/ \E r \in Roots : Background(r) \/ EditBuildFile(r)
  \/ \E u \in Uris : EditSource(u)
  \/ \E m \in Messages : Receive(m)

Spec == Init /\ [][Next]_vars

\* The threads run and the dispatcher goes on; nothing makes the editor or
\* anyone else do anything.
FairSpec == Spec /\ WF_vars(Dispatch) /\ \A r \in Roots : WF_vars(Background(r))

---------------------------------------------------------------------------
(* Properties. *)

AtRest == agenda = <<>>
Trusted(u) == analyses[u] # None /\ u \notin failed

(* Between messages, the analysis from which the server answers for a
   document is one of the text it converts positions with: the open buffer,
   or else the indexed source.  A document whose last analysis failed keeps
   an old one (the editor was told), and the analyses of a scan are the
   subject of OpenBuffersWin. *)
AnalysesMatchSource ==
  AtRest => \A u \in Uris : (Trusted(u) /\ SourceText(u) # None /\ analyses[u].by # "scan")
                              => analyses[u].text = SourceText(u)

(* "Open buffers override cached locations" (docs/jman-java.md:218): the
   answers for an open buffer are never those for the file on disk.  The scan
   of a workspace without an index reads open documents from disk as well, so
   this does not hold (see the README). *)
OpenBuffersWin ==
  AtRest => \A u \in OpenUris : Trusted(u) => analyses[u].text = docs[u].text

(* While a document stays open, an "unchanged" answer to a diagnostics pull
   is true: the diagnostics are those that the editor got with that id,
   whatever was analyzed, reloaded or indexed again in between. *)
UnchangedIsTruthful ==
  (AtRest /\ seen = Revisions) =>
    \A u \in OpenUris : Holds(u) => held[u].items = Items(u)

(* The sessions, the index and the analyses of open documents come from the
   model in use, unless a rebuild failed after it had replaced the model, the
   analysis failed, or the root is among those that a command had moved before
   it stopped at another one. *)
OneModel ==
  \A r \in Roots : ~worker[r].replaced =>
    /\ worker[r].session \in {None, worker[r].model}
    /\ (worker[r].job = None /\ worker[r].index # None) => worker[r].index.model = worker[r].model
    /\ (AtRest /\ r \notin cut) =>
         \A u \in OpenUris \cap Owned(r) :
           (Trusted(u) /\ analyses[u].by = "editor") => analyses[u].model = worker[r].model

(* When the server reports the build synchronized, every root that could be
   imported at all uses the model of its build files, up to changes that the
   editor has not announced: a failed synchronization loses no change. *)
SyncedMeansCurrent ==
  (AtRest /\ sync = "ready") =>
    \A r \in Roots \ unnotified : HasRoot(r) => worker[r].model = buildFile[r]

(* "Failed synchronization preserves the last working model, sessions,
   indexes, and diagnostics" (docs/jman-java.md:22): when it fails, every
   root that had a model when it began still has that model, except those
   that it had reloaded before it came to the one that failed. *)
FailedSyncPreserves ==
  [][(sync = "syncing" /\ sync' = "failed")
       => \A r \in Roots \ (Reloadable \ Waiting("reload")) :
              kept[r] \in {None, worker'[r].model}]_vars

(* Every root is indexed in the end, or has reported why not, whatever
   interrupts the first parse (the comment on Command::Initialize). *)
IndexedEventually == \A r \in Roots : <>(published[r].index # None \/ worker[r].error)

(* "A second, versioned workspace index refines the fast structural snapshot
   with javac-attributed canonical symbols for every owned source file"
   (docs/jman-java.md:213): unless the build is broken or modular, the index
   is refined in the end.  A refinement that is interrupted is not taken up
   again, so this does not hold (see the README). *)
RefinedEventually ==
  \A r \in Roots : <>(\/ published[r].index # None
                         /\ \A u \in Owned(r) : published[r].index.docs[u].level = "attributed"
                      \/ worker[r].model \in Modular \/ worker[r].error)
=============================================================================
