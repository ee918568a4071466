------------------------ MODULE LanguageServerProofs ------------------------
(***************************************************************************)
(* Theorems about the language server, in two parts.  First about          *)
(* LanguageServer and its NativeWorker, for any roots, sources, models,    *)
(* messages and mishaps; then about ModelCache and its FileLock, which the *)
(* processes of several such servers share, for any set of clients and     *)
(* any number of attempts, crashes and edits.                              *)
(***************************************************************************)
EXTENDS LanguageServer, ModelCache, FiniteSetTheorems, SequenceTheorems, TLAPS

(* What the agenda may hold. *)

Fanned == {"reload", "reconfigure", "rebuild", "configure", "clear"}
Movers == {"reload", "reconfigure", "rebuild"}
Publishers == {"reload", "reconfigure", "rebuild", "configure"}
Enders == {"reindex", "reset", "synced"}
Singles == {"open", "change", "close", "pull", "watched", "sync", "cancel", "saved"}

Item ==
  [op : {"analyze"}, uri : Uris, text : Texts \cup {None}, root : Roots, by : {"editor", "close", "scan"}]
    \cup [op : Fanned \cup {"saved", "watched"}, uri : {None}, text : {None}, root : Roots, by : {None}]
    \cup [op : Enders \cup {"sources", "sync", "cancel"}, uri : {None}, text : {None}, root : {None},
          by : {None}]
    \cup [op : {"open", "change"}, uri : Uris, text : Texts, root : {None}, by : {None}]
    \cup [op : {"close", "pull"}, uri : Uris, text : {None}, root : {None}, by : {None}]

\* A scan and analyses come first, then at most one message, or requests to
\* several roots and what ends them.
MayPrecede(x, y) ==
  /\ x.op \notin Enders \cup Singles
  /\ y.op # "sources"
  /\ y.op \in {"analyze"} \cup Singles => x.op \in {"analyze", "sources"}
  /\ y.op \in {"reload", "synced"} <=> x.op = "reload"
  /\ y.op = "clear" => x.op \notin Movers
  /\ x.op \in Movers /\ y.op \in Movers => x.root # y.root

Ordered(a) ==
  /\ a \in Seq(Item)
  /\ \A i, j \in DOMAIN a : i < j => MayPrecede(a[i], a[j])
Ended(a) == \A i \in DOMAIN a : a[i].op \in Fanned => a[Len(a)].op \in Enders

Entries(a) == {a[i] : i \in DOMAIN a}
Pending(op) == {x \in Entries(agenda) : x.op = op}

---------------------------------------------------------------------------
(* Lemmas about agendas. *)

LEMMA Emptied ==
  ASSUME NEW a, Ordered(a)
  PROVE  (a = <<>>) <=> (Entries(a) = {})
BY DEF Ordered, Entries

LEMMA Elements ==
  ASSUME NEW a, Ordered(a)
  PROVE  Entries(a) \subseteq Item
BY DEF Ordered, Entries

LEMMA Nothing == Ordered(<<>>) /\ Ended(<<>>) /\ Entries(<<>>) = {}
BY DEF Ordered, Ended, Entries

LEMMA Alone ==
  ASSUME NEW x \in Item
  PROVE  /\ Ordered(<<x>>) /\ Entries(<<x>>) = {x}
         /\ x.op \notin Fanned => Ended(<<x>>)
BY DEF Ordered, Ended, Entries

LEMMA TakenOff ==
  ASSUME NEW a, Ordered(a), Ended(a), a # <<>>
  PROVE  /\ Ordered(Tail(a)) /\ Ended(Tail(a))
         /\ Head(a) \in Item
         /\ Entries(a) = {Head(a)} \cup Entries(Tail(a))
         /\ \A y \in Entries(Tail(a)) : MayPrecede(Head(a), y)
<1> USE HeadTailProperties DEF Ordered
<1>1. a \in Seq(Item) /\ Len(a) \in Nat \ {0} /\ DOMAIN a = 1..Len(a)
  BY EmptySeq, LenProperties
<1>2. /\ Tail(a) \in Seq(Item) /\ DOMAIN Tail(a) = 1..(Len(a) - 1)
      /\ Len(Tail(a)) = Len(a) - 1
      /\ \A i \in DOMAIN Tail(a) : i + 1 \in DOMAIN a /\ Tail(a)[i] = a[i + 1]
  BY <1>1, LenProperties
<1>3. Head(a) = a[1] /\ 1 \in DOMAIN a
  BY <1>1
<1>4. \A i, j \in DOMAIN Tail(a) : i < j => MayPrecede(Tail(a)[i], Tail(a)[j])
  BY <1>1, <1>2
<1>5. Ended(Tail(a))
  BY <1>1, <1>2 DEF Ended
<1>6. \A i \in DOMAIN a : i = 1 \/ (i - 1 \in DOMAIN Tail(a) /\ a[i] = Tail(a)[i - 1])
  BY <1>1, <1>2
<1>7. Entries(a) = {Head(a)} \cup Entries(Tail(a))
  <2>1. \A i \in DOMAIN a : a[i] = Head(a) \/ \E j \in DOMAIN Tail(a) : a[i] = Tail(a)[j]
    BY <1>3, <1>6
  <2>2. {Head(a)} \cup Entries(Tail(a)) \subseteq Entries(a)
    BY <1>2, <1>3 DEF Entries
  <2>3. Entries(a) \subseteq {Head(a)} \cup Entries(Tail(a))
    BY ONLY <2>1 DEF Entries
  <2> QED BY ONLY <2>2, <2>3
<1>8. \A y \in Entries(Tail(a)) : MayPrecede(Head(a), y)
  <2> SUFFICES ASSUME NEW i \in DOMAIN Tail(a)
               PROVE  MayPrecede(a[1], Tail(a)[i])
    BY <1>3 DEF Entries
  <2> QED BY <1>1, <1>2, <1>3
<1> QED BY <1>2, <1>4, <1>5, <1>7, <1>8

LEMMA Joined ==
  ASSUME NEW s, NEW t, Ordered(s), Ordered(t),
         \A x \in Entries(s), y \in Entries(t) : MayPrecede(x, y)
  PROVE  /\ Ordered(s \o t)
         /\ Entries(s \o t) = Entries(s) \cup Entries(t)
         /\ Ended(t) /\ (t = <<>> => Ended(s))
              /\ (\A x \in Entries(s) : x.op \in Fanned => t # <<>> /\ t[Len(t)].op \in Enders)
            => Ended(s \o t)
<1>1. /\ s \in Seq(Item) /\ t \in Seq(Item) /\ s \o t \in Seq(Item)
      /\ Len(s) \in Nat /\ Len(t) \in Nat /\ Len(s \o t) = Len(s) + Len(t)
      /\ DOMAIN s = 1..Len(s) /\ DOMAIN t = 1..Len(t) /\ DOMAIN (s \o t) = 1..(Len(s) + Len(t))
  BY LenProperties, ConcatProperties DEF Ordered
<1>2. \A i \in DOMAIN s : i \in DOMAIN (s \o t) /\ (s \o t)[i] = s[i]
  BY <1>1, ConcatProperties
<1>3. \A i \in DOMAIN t : i + Len(s) \in DOMAIN (s \o t) /\ (s \o t)[i + Len(s)] = t[i]
  BY <1>1, ConcatProperties
<1>4. \A i \in DOMAIN (s \o t) : i \in DOMAIN s \/ (i - Len(s) \in DOMAIN t /\ (s \o t)[i] = t[i - Len(s)])
  BY <1>1, ConcatProperties
<1>5. Entries(s \o t) = Entries(s) \cup Entries(t)
  <2>1. Entries(s \o t) \subseteq Entries(s) \cup Entries(t)
    BY <1>2, <1>4 DEF Entries
  <2>2. Entries(s) \cup Entries(t) \subseteq Entries(s \o t)
    BY <1>2, <1>3 DEF Entries
  <2> QED BY <2>1, <2>2
<1>6. \A i, j \in DOMAIN (s \o t) : i < j => MayPrecede((s \o t)[i], (s \o t)[j])
  <2> SUFFICES ASSUME NEW i \in DOMAIN (s \o t), NEW j \in DOMAIN (s \o t), i < j
               PROVE  MayPrecede((s \o t)[i], (s \o t)[j])
    OBVIOUS
  <2>1. CASE j \in DOMAIN s
    BY <1>1, <1>2, <2>1 DEF Ordered
  <2>2. CASE j \notin DOMAIN s /\ i \in DOMAIN s
    BY <1>2, <1>4, <2>2 DEF Entries
  <2>3. CASE i \notin DOMAIN s
    <3>1. /\ j \notin DOMAIN s /\ i - Len(s) \in DOMAIN t /\ j - Len(s) \in DOMAIN t
          /\ i - Len(s) < j - Len(s)
      BY <1>1, <1>4, <2>3
    <3> QED BY <1>4, <2>3, <3>1 DEF Ordered
  <2> QED BY <2>1, <2>2, <2>3
<1>7. ASSUME Ended(t), t = <<>> => Ended(s),
             \A x \in Entries(s) : x.op \in Fanned => t # <<>> /\ t[Len(t)].op \in Enders
      PROVE  Ended(s \o t)
  <2> SUFFICES ASSUME NEW i \in DOMAIN (s \o t), (s \o t)[i].op \in Fanned
               PROVE  (s \o t)[Len(s \o t)].op \in Enders
    BY DEF Ended
  <2>1. t # <<>> /\ t[Len(t)].op \in Enders
    <3>1. CASE i \in DOMAIN s
      BY <1>2, <1>7, <3>1 DEF Entries
    <3>2. CASE i \notin DOMAIN s
      BY <1>1, <1>4, <1>7, <3>2 DEF Ended
    <3> QED BY <3>1, <3>2
  <2>2. Len(t) \in DOMAIN t
    BY <1>1, <2>1, EmptySeq
  <2> QED BY <1>1, <1>3, <2>1, <2>2
<1> QED BY <1>1, <1>5, <1>6, <1>7 DEF Ordered

\* A set of requests, or of analyses, as a sequence.
LEMMA Enumerated ==
  ASSUME NEW S, IsFiniteSet(S)
  PROVE  /\ Cardinality(S) \in Nat
         /\ SetToSeq(S) \in [1..Cardinality(S) -> S]
         /\ \A i, j \in 1..Cardinality(S) : i # j => SetToSeq(S)[i] # SetToSeq(S)[j]
         /\ \A x \in S : \E i \in 1..Cardinality(S) : SetToSeq(S)[i] = x
<1> DEFINE n == Cardinality(S)
           f == SetToSeq(S)
<1>1. n \in Nat /\ IsFiniteSet(1..n) /\ Cardinality(1..n) = n
  BY FS_CardinalityType, FS_Interval
<1>2. ExistsBijection(1..n, S)
  BY <1>1, FS_SameCardinalityBij
<1>3. \E g \in [1..n -> S] : IsInjective(g)
  BY <1>2 DEF ExistsBijection, Bijection, Injection
<1>4. f \in [1..n -> S] /\ IsInjective(f)
  BY <1>3 DEF SetToSeq
<1>5. f \in Injection(1..n, S)
  BY <1>4 DEF Injection
<1>6. f \in Surjection(1..n, S)
  BY <1>1, <1>5, FS_Injection
<1> QED BY <1>1, <1>4, <1>6 DEF IsInjective, Surjection

LEMMA FannedOut ==
  ASSUME NEW roots \in SUBSET Roots, NEW op \in Fanned
  PROVE  /\ Ordered(ForRoots(op, roots))
         /\ Entries(ForRoots(op, roots)) = {Request(op, r) : r \in roots}
<1> DEFINE n == Cardinality(roots)
           f == SetToSeq(roots)
           s == [i \in 1..n |-> Request(op, f[i])]
<1>1. IsFiniteSet(roots)
  BY Constants, FS_Subset
<1>2. /\ n \in Nat /\ f \in [1..n -> roots]
      /\ \A i, j \in 1..n : i # j => f[i] # f[j]
      /\ \A r \in roots : \E i \in 1..n : f[i] = r
  BY <1>1, Enumerated
<1> HIDE DEF n, f
<1>3. \A r \in Roots : Request(op, r) \in Item /\ Request(op, r).op = op /\ Request(op, r).root = r
  BY DEF Request, Message, Item
<1>4. s \in Seq(Item) /\ DOMAIN s = 1..n
  BY <1>2, <1>3
<1>5. \A i, j \in 1..n : i < j => MayPrecede(s[i], s[j])
  BY <1>2, <1>3 DEF MayPrecede, Fanned, Enders, Singles, Movers
<1>6. Entries(s) = {Request(op, r) : r \in roots}
  <2>1. \A i \in 1..n : s[i] = Request(op, f[i]) /\ f[i] \in roots
    BY <1>2
  <2>2. Entries(s) \subseteq {Request(op, r) : r \in roots}
    BY <1>4, <2>1 DEF Entries
  <2>3. {Request(op, r) : r \in roots} \subseteq Entries(s)
    BY <1>2, <1>4, <2>1 DEF Entries
  <2> QED BY <2>2, <2>3
<1>7. ForRoots(op, roots) = s
  BY DEF ForRoots, n, f
<1> QED BY <1>4, <1>5, <1>6, <1>7 DEF Ordered

LEMMA AllAnalyzed ==
  ASSUME NEW uris \in SUBSET Uris, NEW text, \A u \in uris : text[u] \in Texts \cup {None},
         NEW by \in {"editor", "close", "scan"}
  PROVE  /\ Ordered(ForUris(uris, text, by)) /\ Ended(ForUris(uris, text, by))
         /\ Entries(ForUris(uris, text, by)) = {AnalysisOf(u, text[u], by) : u \in uris}
<1> DEFINE n == Cardinality(uris)
           f == SetToSeq(uris)
           s == [i \in 1..n |-> AnalysisOf(f[i], text[f[i]], by)]
<1>1. IsFiniteSet(uris)
  BY Constants, FS_Subset
<1>2. /\ n \in Nat /\ f \in [1..n -> uris]
      /\ \A u \in uris : \E i \in 1..n : f[i] = u
  BY <1>1, Enumerated
<1> HIDE DEF n, f
<1>3. \A u \in uris : /\ AnalysisOf(u, text[u], by) \in Item
                      /\ AnalysisOf(u, text[u], by).op = "analyze"
  BY Constants DEF AnalysisOf, Item
<1>4. s \in Seq(Item) /\ DOMAIN s = 1..n
  BY <1>2, <1>3
<1>5. \A i \in 1..n : s[i].op = "analyze"
  BY <1>2, <1>3
<1>6. Ordered(s) /\ Ended(s)
  BY <1>4, <1>5 DEF Ordered, Ended, MayPrecede, Fanned, Enders, Singles, Movers
<1>7. Entries(s) = {AnalysisOf(u, text[u], by) : u \in uris}
  <2>1. \A i \in 1..n : s[i] \in {AnalysisOf(u, text[u], by) : u \in uris}
    BY <1>2
  <2>2. ASSUME NEW u \in uris
        PROVE  AnalysisOf(u, text[u], by) \in Entries(s)
    <3>1. PICK i \in 1..n : f[i] = u
      BY <1>2
    <3> QED BY <1>4, <3>1, Zenon DEF Entries
  <2>3. Entries(s) = {s[i] : i \in 1..n}
    BY <1>4, Zenon DEF Entries
  <2> HIDE DEF s
  <2> QED BY <2>1, <2>2, <2>3
<1>8. ForUris(uris, text, by) = s
  BY DEF ForUris, n, f
<1> QED BY <1>6, <1>7, <1>8

---------------------------------------------------------------------------
(* The inductive invariant. *)

Doc == [text : Texts, level : {"parsed", "attributed"}]
Index(r) == [model : Models, docs : [Owned(r) -> Doc]]
Thread(r) ==
  [started : BOOLEAN, model : Models \cup {None}, session : Models \cup {None},
   index : Index(r) \cup {None}, error : BOOLEAN, retry : BOOLEAN, refine : BOOLEAN,
   replaced : BOOLEAN,
   job : [kind : {"initialize", "resume", "refine"}, stale : BOOLEAN, index : Index(r) \cup {None}]
           \cup {None}]
Publication(r) == [index : Index(r) \cup {None}, revision : Nat]

\* A thread works with one model, unless a rebuild has failed.
WorkerOk(w) ==
  /\ ~w.started => w.model = None /\ w.session = None /\ w.index = None /\ ~w.retry /\ w.job = None
                   /\ ~w.refine /\ ~w.replaced
  /\ w.job # None \/ w.retry \/ w.refine => w.model # None
  /\ ~w.replaced => /\ w.session \in {None, w.model}
                    /\ w.index # None => w.index.model = w.model
                    /\ w.job # None /\ w.job.index # None => w.job.index.model = w.model

ThreadsInv ==
  /\ buildFile \in [Roots -> Models \cup {Broken}]
  /\ disk \in [Uris -> Texts]
  /\ worker = [r \in Roots |-> worker[r]]
  /\ \A r \in Roots : worker[r] \in Thread(r) /\ WorkerOk(worker[r])
  /\ published = [r \in Roots |-> published[r]]
  /\ \A r \in Roots : published[r] \in Publication(r)

ServerTypes ==
  /\ docs \in [Uris -> [version : Nat, text : Texts] \cup {None}]
  /\ index \in [Uris -> Texts \cup {None}]
  /\ analyses = [u \in Uris |-> analyses[u]]
  /\ held = [u \in Uris |-> held[u]]
  /\ seen \in [Roots -> Nat]
  /\ pending \subseteq Roots /\ unnotified \subseteq Roots

AgendaInv ==
  /\ Ordered(agenda) /\ Ended(agenda)
  /\ Pending("clear") # {} => Waiting("rebuild") = Roots

\* What is going to be analyzed, and every analysis that is not, has the text
\* of its document.
AnalysisOk(x) ==
  x.op = "analyze" =>
    /\ x.root = RootOf[x.uri]
    /\ x.by = "editor" => IsOpen(x.uri) /\ x.text = docs[x.uri].text
    /\ x.by = "close" => ~IsOpen(x.uri) /\ x.text = index[x.uri] /\ Pending("sources") = {}
DocumentOk(x) ==
  /\ x.op = "open" => ~IsOpen(x.uri)
  /\ x.op \in {"change", "close", "pull"} => IsOpen(x.uri)
Match(u) ==
  Trusted(u) /\ SourceText(u) # None /\ analyses[u].by # "scan" => analyses[u].text = SourceText(u)
Due(u) == \E x \in Pending("analyze") : x.uri = u
DocsInv ==
  /\ \A x \in Entries(agenda) : AnalysisOk(x) /\ DocumentOk(x)
  /\ \A u \in Uris : Match(u) \/ Due(u)

\* Diagnostics of an open document change only with its version or the
\* revisions.
HeldOk(u) ==
  held[u] # None => /\ IsOpen(u) /\ held[u].id \in [Roots -> Nat] \X Nat
                    /\ \A r \in Roots : held[u].id[1][r] <= seen[r]
                    /\ held[u].id[2] <= docs[u].version
Unheld(u) == Holds(u) => seen # Revisions
HeldInv ==
  /\ \A r \in Roots : seen[r] <= published[r].revision
  /\ \A u \in Uris : HeldOk(u) /\ (Holds(u) /\ seen = Revisions => held[u].items = Items(u))
  /\ \A u \in Uris : IsOpen(u) /\ (Due(u) \/ Pending("sources") # {}) => Unheld(u)
  /\ \A x \in Entries(agenda) : x.op \in Enders /\ Uris # {} =>
       seen # Revisions \/ \E y \in Entries(agenda) : y.op \in Publishers

\* The command under way has moved r, and what ends it is still to come.
Served(r) ==
  /\ \E x \in Entries(agenda) : x.op \in Enders
  /\ \A x \in Entries(agenda) : x.op \in Movers => x.root # r
  /\ sync = "syncing" => r \in Reloadable
ModelOf(u) == worker[RootOf[u]].model
Edited(u) == analyses[u] # None /\ analyses[u].by = "editor"
ModelsInv ==
  \A u \in Uris : 
    /\ analyses[u] # None /\ analyses[u].by # "index" => ModelOf(u) # None
    /\ Edited(u) /\ ~worker[RootOf[u]].replaced /\ RootOf[u] \notin cut =>
         analyses[u].model = ModelOf(u) \/ Served(RootOf[u])

\* No change of a build file gets lost between the editor and the thread.
Dirty(r) == HasRoot(r) /\ worker[r].model # buildFile[r]
SyncInv ==
  /\ Pending("reload") \cup Pending("synced") # {} => sync = "syncing"
  /\ sync = "syncing" => /\ Pending("synced") # {} /\ Waiting("reload") \subseteq Reloadable
                         /\ \A r \in Roots : Dirty(r) => r \in unnotified \/ r \in Waiting("reload")
                         /\ \A r \in Roots \ (Reloadable \ Waiting("reload")) :
                              kept[r] \in {None, worker[r].model}
  /\ \A r \in Roots : Dirty(r) =>
       \/ r \in unnotified \/ \E x \in Pending("watched") : x.root = r
       \/ r \in pending /\ sync # "ready"

Inv == ThreadsInv /\ ServerTypes /\ AgendaInv /\ DocsInv /\ HeldInv /\ ModelsInv /\ SyncInv

---------------------------------------------------------------------------
(* What the threads do. *)

\* A step of the thread of r, its effect on the model in use, and on what is
\* published.
Works(r) ==
  /\ ThreadsInv'
  /\ \A q \in Roots \ {r} : worker'[q] = worker[q]
  /\ UNCHANGED <<disk, buildFile>>
SameModel(r) == worker'[r].model = worker[r].model /\ worker'[r].replaced = worker[r].replaced
NewModel(r) == worker'[r].model = buildFile[r] /\ buildFile[r] \in Models
Announces(r) ==
  /\ published'[r].revision = published[r].revision + 1
  /\ \A q \in Roots \ {r} : published'[q] = published[q]

LEMMA ParsedIndex ==
  ASSUME ThreadsInv, NEW r \in Roots, NEW m \in Models
  PROVE  Parsed(r, m) \in Index(r) /\ Parsed(r, m).model = m
BY DEF ThreadsInv, Parsed, Index, Doc, Owned

LEMMA RefinedIndex ==
  ASSUME NEW r \in Roots, NEW i \in Index(r) \cup {None}
  PROVE  /\ Refined(i) \in Index(r) \cup {None}
         /\ Refined(i) # None => i # None /\ Refined(i).model = i.model
<1>1. CASE i = None \/ i.model \in Modular
  BY <1>1 DEF Refined
<1>2. CASE i # None /\ i.model \notin Modular
  <2> DEFINE d == [u \in Owned(r) |-> [i.docs[u] EXCEPT !.level = "attributed"]]
  <2>1. i \in Index(r) /\ i.model \in Models /\ i.docs \in [Owned(r) -> Doc]
    BY <1>2 DEF Index
  <2>2. d \in [Owned(r) -> Doc]
    BY <2>1 DEF Doc
  <2>3. Refined(i) = [i EXCEPT !.docs = d]
    BY <1>2, <2>1 DEF Refined
  <2> HIDE DEF d
  <2> QED BY <1>2, <2>1, <2>2, <2>3 DEF Index
<1> QED BY <1>1, <1>2

LEMMA Worked ==
  ASSUME ThreadsInv, NEW r \in Roots, NEW w \in Thread(r), WorkerOk(w),
         Becomes(r, w) \/ (UNCHANGED worker /\ w = worker[r]),
         UNCHANGED <<disk, buildFile>>,
         UNCHANGED published \/ \E i \in Index(r) \cup {None} : Publish(r, i)
  PROVE  Works(r) /\ worker'[r] = w /\ (UNCHANGED published \/ Announces(r))
<1>1. worker' = [q \in Roots |-> worker'[q]] /\ worker'[r] = w
      /\ \A q \in Roots \ {r} : worker'[q] = worker[q]
  BY DEF ThreadsInv, Becomes
<1>2. \A q \in Roots : worker'[q] \in Thread(q) /\ WorkerOk(worker'[q])
  <2> SUFFICES ASSUME NEW q \in Roots
               PROVE  worker'[q] \in Thread(q) /\ WorkerOk(worker'[q])
    OBVIOUS
  <2>1. CASE q = r
    BY <1>1, <2>1
  <2>2. CASE q # r
    BY <1>1, <2>2, Zenon DEF ThreadsInv
  <2> QED BY <2>1, <2>2
<1>3. /\ published' = [q \in Roots |-> published'[q]]
      /\ \A q \in Roots : published'[q] \in Publication(q)
      /\ UNCHANGED published \/ Announces(r)
  <2>1. CASE UNCHANGED published
    BY <2>1 DEF ThreadsInv
  <2>2. ASSUME NEW i \in Index(r) \cup {None}, Publish(r, i)
        PROVE  <1>3
    <3>1. published[r].revision \in Nat
      BY DEF ThreadsInv, Publication
    <3>2. /\ published' = [q \in Roots |-> published'[q]]
          /\ published'[r] = [index |-> i, revision |-> published[r].revision + 1]
          /\ \A q \in Roots \ {r} : published'[q] = published[q]
      BY <2>2 DEF ThreadsInv, Publish
    <3>3. published'[r] \in Publication(r)
      BY <3>1, <3>2 DEF Publication
    <3>4. \A q \in Roots \ {r} : published'[q] \in Publication(q)
      BY <3>2, Zenon DEF ThreadsInv
    <3> QED BY <3>2, <3>3, <3>4 DEF Announces
  <2> QED BY <2>1, <2>2
<1>4. buildFile' \in [Roots -> Models \cup {Broken}] /\ disk' \in [Uris -> Texts]
  BY DEF ThreadsInv
<1> QED BY <1>1, <1>2, <1>3, <1>4 DEF Works, ThreadsInv

LEMMA Announced ==
  ASSUME ThreadsInv, NEW r \in Roots, NEW i, Publish(r, i)
  PROVE  Announces(r)
BY DEF ThreadsInv, Publish, Announces

\* What WorkerOk asks of a thread between two commands.
LEMMA AnOkWorker ==
  ASSUME NEW r \in Roots, NEW w \in Thread(r), w.started, w.job = None,
         w.retry \/ w.refine => w.model # None,
         w.replaced \/ (w.session \in {None, w.model} /\ (w.index # None => w.index.model = w.model))
  PROVE  WorkerOk(w)
BY DEF WorkerOk

LEMMA BackgroundWorks ==
  ASSUME ThreadsInv, NEW r \in Roots, Background(r)
  PROVE  /\ Works(r) /\ UNCHANGED serverVars /\ UNCHANGED agenda
         /\ UNCHANGED published \/ Announces(r)
         /\ SameModel(r) \/ (NewModel(r) /\ worker[r].model = None)
<1> DEFINE v == worker[r]
<1>0. UNCHANGED serverVars /\ UNCHANGED agenda
  BY DEF Background
<1>1. v \in Thread(r) /\ WorkerOk(v)
  BY DEF ThreadsInv
<1> DEFINE Sound(w) == w \in Thread(r) /\ WorkerOk(w)
           Keeps(w) == w.model = v.model /\ w.replaced = v.replaced
           Loads(w) == w.model = buildFile[r] /\ buildFile[r] \in Models /\ v.model = None
           Outside == /\ UNCHANGED <<disk, buildFile>>
                      /\ UNCHANGED published \/ \E i \in Index(r) \cup {None} : Publish(r, i)
           Goal == /\ Works(r) /\ (UNCHANGED published \/ Announces(r))
                   /\ SameModel(r) \/ (NewModel(r) /\ worker[r].model = None)
<1>2. ASSUME Outside, NEW w, Sound(w), Keeps(w) \/ Loads(w), Becomes(r, w)
      PROVE  Goal
  <2>1. /\ Works(r) /\ worker'[r] = w /\ (UNCHANGED published \/ Announces(r))
    BY <1>2, Worked
  <2> QED BY <1>2, <2>1 DEF SameModel, NewModel
<1> SUFFICES Goal
  BY <1>0
<1> HIDE DEF v, Sound, Keeps, Loads, Outside, Goal
<1>3. CASE StartInitialize(r)
  <2>1. CASE buildFile[r] = Broken
    <3> DEFINE w == [v EXCEPT !.started = TRUE, !.error = TRUE]
    <3>1. Sound(w) /\ Keeps(w)
      BY <1>1, <1>3, <2>1 DEF Sound, Keeps, Thread, WorkerOk, StartInitialize, v
    <3>2. Becomes(r, w) /\ Outside
      BY <1>3, <2>1 DEF StartInitialize, Outside, v
    <3> QED BY <1>2, <3>1, <3>2, Zenon
  <2>2. CASE buildFile[r] # Broken
    <3> DEFINE m == buildFile[r]
               w == [v EXCEPT !.started = TRUE, !.model = m, !.job = Job("initialize", Parsed(r, m))]
    <3>1. m \in Models /\ m # None
      BY <2>2, Constants DEF ThreadsInv
    <3>2. Parsed(r, m) \in Index(r) /\ Parsed(r, m).model = m
      BY <3>1, ParsedIndex
    <3>3. Becomes(r, w) /\ Outside /\ ~v.started
      BY <1>3, <2>2 DEF StartInitialize, Outside, v
    <3> HIDE DEF m
    <3>4. w \in Thread(r) /\ w.model = m
      BY <1>1, <3>1, <3>2 DEF Thread, Job
    <3>5. v.model = None /\ WorkerOk(w)
      BY <1>1, <3>1, <3>2, <3>3 DEF Sound, Keeps, Thread, WorkerOk, Job
    <3>6. Sound(w) /\ Loads(w)
      BY <3>1, <3>4, <3>5 DEF Sound, Loads, m
    <3> QED BY <1>2, <3>3, <3>6, Zenon
  <2> QED BY <2>1, <2>2
<1>4. CASE InterruptIndex(r) \/ FailIndex(r) \/ StopRefine(r)
  <2> DEFINE w1 == [v EXCEPT !.job = None]
             w2 == [v EXCEPT !.job = None, !.retry = TRUE]
             w3 == [v EXCEPT !.job = None, !.retry = FALSE, !.error = TRUE]
  <2>1. v.job # None /\ Outside
    BY <1>4 DEF InterruptIndex, FailIndex, StopRefine, Running, Outside, v
  <2>2. Becomes(r, w1) \/ Becomes(r, w2) \/ Becomes(r, w3)
    BY <1>4 DEF InterruptIndex, FailIndex, StopRefine, v
  <2>3. Sound(w1) /\ Keeps(w1)
    BY <1>1, <2>1 DEF Sound, Keeps, Thread, WorkerOk
  <2>4. Sound(w2) /\ Keeps(w2)
    BY <1>1, <2>1 DEF Sound, Keeps, Thread, WorkerOk
  <2>5. Sound(w3) /\ Keeps(w3)
    BY <1>1, <2>1 DEF Sound, Keeps, Thread, WorkerOk
  <2> HIDE DEF w1, w2, w3
  <2> QED BY <1>2, <2>1, <2>2, <2>3, <2>4, <2>5, Zenon
<1>5. CASE FinishIndex(r) \/ FinishRefine(r)
  <2> DEFINE i == v.job.index
             w1 == [v EXCEPT !.index = i, !.error = FALSE, !.retry = FALSE]
             w2 == [w1 EXCEPT !.refine = TRUE, !.job = None]
             w3 == [w1 EXCEPT !.job = Job("refine", i)]
             w4 == [v EXCEPT !.index = Refined(i), !.job = None]
  <2>1. v.job # None /\ UNCHANGED <<disk, buildFile>>
    BY <1>5 DEF FinishIndex, FinishRefine, Running, v
  <2>2. i \in Index(r) \cup {None} /\ v.model # None
    BY <1>1, <2>1 DEF Thread, WorkerOk
  <2>3. Refined(i) \in Index(r) \cup {None} /\ (Refined(i) # None => i # None /\ Refined(i).model = i.model)
    BY <2>2, RefinedIndex
  <2>4. \E w \in {w2, w3, w4} : Becomes(r, w)
    BY <1>1, <1>5 DEF FinishIndex, FinishRefine, ThenRefine, Thread, v
  <2>5. \E k \in Index(r) \cup {None} : Publish(r, k)
    BY <1>5, <2>2, <2>3 DEF FinishIndex, FinishRefine, v
  <2> HIDE DEF i
  <2>6. ASSUME NEW w \in {w2, w3, w4}
        PROVE  Sound(w) /\ Keeps(w)
    <3>1. v.started /\ ~v.replaced => v.session \in {None, v.model} /\ (i # None => i.model = v.model)
      BY <1>1, <2>1 DEF WorkerOk, i
    <3>2. v.started
      BY <1>1, <2>1 DEF WorkerOk
    <3>3. CASE w = w2
      BY <1>1, <2>2, <3>1, <3>2, <3>3 DEF Sound, Keeps, Thread, WorkerOk
    <3>4. CASE w = w3
      BY <1>1, <2>2, <3>1, <3>2, <3>4 DEF Sound, Keeps, Thread, WorkerOk, Job
    <3>5. CASE w = w4
      BY <1>1, <2>2, <2>3, <3>1, <3>2, <3>5 DEF Sound, Keeps, Thread, WorkerOk
    <3> QED BY <3>3, <3>4, <3>5
  <2>7. Outside
    BY <2>1, <2>5 DEF Outside
  <2> HIDE DEF w1, w2, w3, w4
  <2> QED BY <1>2, <2>4, <2>6, <2>7, Zenon
<1>6. CASE Resume(r) \/ RefineWhenIdle(r)
  <2> DEFINE w1 == [v EXCEPT !.job = Job("resume", Parsed(r, v.model))]
             w2 == [v EXCEPT !.refine = FALSE, !.job = Job("refine", v.index)]
  <2>1. /\ (v.retry /\ Becomes(r, w1)) \/ (v.refine /\ Becomes(r, w2))
        /\ v.job = None /\ Outside
    BY <1>6 DEF Resume, RefineWhenIdle, Outside, v
  <2>2. ASSUME v.retry
        PROVE  Sound(w1) /\ Keeps(w1)
    <3>1. v.model \in Models
      BY <1>1, <2>2 DEF Thread, WorkerOk
    <3>2. Parsed(r, v.model) \in Index(r) /\ Parsed(r, v.model).model = v.model
      BY <3>1, ParsedIndex
    <3> QED BY <1>1, <2>1, <2>2, <3>1, <3>2 DEF Sound, Keeps, Thread, WorkerOk, Job
  <2>3. ASSUME v.refine
        PROVE  Sound(w2) /\ Keeps(w2)
    BY <1>1, <2>1, <2>3 DEF Sound, Keeps, Thread, WorkerOk, Job
  <2> HIDE DEF w1, w2
  <2> QED BY <1>2, <2>1, <2>2, <2>3, Zenon
<1> QED BY <1>3, <1>4, <1>5, <1>6 DEF Background

\* The index after PublishAndRefine is the parsed or the refined one.
LEMMA Refinement ==
  ASSUME ThreadsInv, NEW r \in Roots, NEW w \in Thread(r), w.started, w.job = None,
         w.model # None, w.index # None => w.index.model = w.model,
         w.replaced \/ w.session \in {None, w.model},
         PublishAndRefine(r, w)
  PROVE  /\ Works(r) /\ Announces(r)
         /\ worker'[r].model = w.model /\ worker'[r].replaced = w.replaced
<1> DEFINE w2 == [w EXCEPT !.index = Refined(@), !.refine = @ \/ Defers(w.model)]
           Goal == /\ Works(r) /\ Announces(r)
                   /\ worker'[r].model = w.model /\ worker'[r].replaced = w.replaced
<1>1. w.index \in Index(r) \cup {None} /\ w.model \in Models
  BY DEF Thread
<1>2. Refined(w.index) \in Index(r) \cup {None}
      /\ (Refined(w.index) # None => w.index # None /\ Refined(w.index).model = w.index.model)
  BY <1>1, RefinedIndex
<1>3. w \in Thread(r) /\ WorkerOk(w)
  BY AnOkWorker
<1>4. w2 \in Thread(r) /\ WorkerOk(w2) /\ w2.model = w.model /\ w2.replaced = w.replaced
  <2>1. (w.refine \/ Defers(w.model)) \in BOOLEAN
    BY DEF Defers, Thread
  <2> QED BY <1>1, <1>2, <2>1 DEF Thread, WorkerOk
<1>5. (Becomes(r, w) \/ Becomes(r, w2)) /\ UNCHANGED <<disk, buildFile>>
      /\ Publish(r, worker'[r].index)
  BY DEF PublishAndRefine
<1> HIDE DEF w2
<1>6. ASSUME NEW x, x \in Thread(r), WorkerOk(x), Becomes(r, x), x.model = w.model,
             x.replaced = w.replaced
      PROVE  Goal
  <2>1. worker'[r] = x
    BY <1>6 DEF Becomes, ThreadsInv
  <2>2. worker'[r].index \in Index(r) \cup {None}
    BY <1>6, <2>1 DEF Thread
  <2>3. Works(r)
    BY <1>5, <1>6, <2>2, Worked
  <2> QED BY <1>5, <1>6, <2>1, <2>3, Announced
<1> SUFFICES Goal
  OBVIOUS
<1> HIDE DEF Goal
<1> QED BY <1>3, <1>4, <1>5, <1>6, Zenon

LEMMA ReloadedThread ==
  ASSUME ThreadsInv, NEW r \in Roots, Free(r), CanLoad(r)
  PROVE  LET w == Reloaded(r)
         IN  /\ w \in Thread(r) /\ w.started /\ w.job = None
             /\ w.model = buildFile[r] /\ w.model # None /\ buildFile[r] \in Models
             /\ w.index # None => w.index.model = w.model
             /\ w.replaced \/ w.session \in {None, w.model}
             /\ w.index \in Index(r)
<1> DEFINE v == worker[r]
           m == buildFile[r]
           session == KeptSession(v, m)
<1>1. v \in Thread(r) /\ WorkerOk(v) /\ v.started /\ v.job = None
  BY DEF ThreadsInv, Free
<1>2. m \in Models /\ m # None
  BY Constants DEF ThreadsInv, CanLoad
<1>3. Parsed(r, m) \in Index(r) /\ Parsed(r, m).model = m
  BY <1>2, ParsedIndex
<1>4. session \in Models \cup {None} /\ (~v.replaced => session \in {None, m})
  BY <1>1, <1>2 DEF KeptSession, Thread, WorkerOk
<1>5. (v.replaced /\ session \notin {None, m}) \in BOOLEAN
  OBVIOUS
<1>6. Reloaded(r) = [v EXCEPT !.model = m, !.index = Parsed(r, m), !.session = session,
                              !.replaced = v.replaced /\ session \notin {None, m}]
  BY <1>1 DEF Reloaded, Thread
<1> HIDE DEF m, session
<1> DEFINE w == Reloaded(r)
<1>7. /\ w.model = m /\ w.index = Parsed(r, m) /\ w.session = session
      /\ w.replaced = (v.replaced /\ session \notin {None, m})
      /\ w.started = v.started /\ w.job = v.job
  BY <1>1, <1>6, Zenon DEF Thread
<1>8. w \in Thread(r)
  <2>1. ASSUME NEW i \in Index(r), NEW b \in BOOLEAN
        PROVE  [v EXCEPT !.model = m, !.index = i, !.session = session, !.replaced = b]
                 \in Thread(r)
    <3> HIDE DEF v
    <3> QED BY <1>1, <1>2, <1>4 DEF Thread
  <2> HIDE DEF v, w
  <2>2. w = [v EXCEPT !.model = m, !.index = Parsed(r, m), !.session = session,
                      !.replaced = v.replaced /\ session \notin {None, m}]
    BY <1>6 DEF w
  <2> QED BY <1>3, <1>5, <2>1, <2>2
<1>9. w.replaced \/ w.session \in {None, w.model}
  BY <1>4, <1>7
<1> HIDE DEF w
<1>10. m = buildFile[r]
  BY DEF m
<1> QED BY <1>1, <1>2, <1>3, <1>7, <1>8, <1>9, <1>10 DEF w

LEMMA LoadingWorks ==
  ASSUME ThreadsInv, NEW r \in Roots, Free(r),
         Reload(r) \/ NewConfiguration(r) \/ Rebuild(r)
  PROVE  Works(r) /\ Announces(r) /\ NewModel(r)
<1>1. CanLoad(r)
  BY DEF Reload, NewConfiguration, Rebuild
<1> DEFINE w == Reloaded(r)
<1>2. /\ w \in Thread(r) /\ w.started /\ w.job = None
      /\ w.model = buildFile[r] /\ w.model # None /\ buildFile[r] \in Models
      /\ w.index # None => w.index.model = w.model
      /\ w.replaced \/ w.session \in {None, w.model}
      /\ w.index \in Index(r)
  BY <1>1, ReloadedThread
<1> HIDE DEF w
<1>3. CASE Reload(r)
  <2> DEFINE x == [w EXCEPT !.error = FALSE]
  <2>1. /\ x \in Thread(r) /\ x.started /\ x.job = None
        /\ x.model = buildFile[r] /\ x.model # None
        /\ x.index # None => x.index.model = x.model
        /\ x.replaced \/ x.session \in {None, x.model}
    BY <1>2 DEF Thread
  <2>2. PublishAndRefine(r, x)
    BY <1>3 DEF Reload, w
  <2> HIDE DEF x
  <2> QED BY <1>2, <2>1, <2>2, Refinement DEF NewModel
<1>4. CASE NewConfiguration(r)
  <2>1. Becomes(r, w) /\ Publish(r, w.index) /\ UNCHANGED <<disk, buildFile>>
    BY <1>4 DEF NewConfiguration, w
  <2>2. WorkerOk(w)
    BY <1>2, AnOkWorker
  <2>3. Works(r) /\ worker'[r] = w
    BY <1>2, <2>1, <2>2, Worked
  <2> QED BY <1>2, <2>1, <2>3, Announced DEF NewModel
<1>5. CASE Rebuild(r)
  <2> DEFINE v == worker[r]
             m == buildFile[r]
             i == Refined(Parsed(r, m))
             x == [v EXCEPT !.model = m, !.session = None, !.index = i, !.replaced = FALSE]
  <2>1. v \in Thread(r) /\ WorkerOk(v) /\ v.started /\ v.job = None
    BY DEF ThreadsInv, Free
  <2>2. m \in Models /\ m # None
    BY <1>2
  <2>3. i \in Index(r) \cup {None} /\ (i # None => i.model = m)
    BY <2>2, ParsedIndex, RefinedIndex
  <2>4. Becomes(r, x) /\ Publish(r, i) /\ UNCHANGED <<disk, buildFile>>
    BY <1>5 DEF Rebuild
  <2> HIDE DEF v, m, i
  <2>5. x \in Thread(r) /\ WorkerOk(x) /\ x.model = m
    BY <2>1, <2>2, <2>3 DEF Thread, WorkerOk
  <2> HIDE DEF x
  <2>6. Works(r) /\ worker'[r] = x
    BY <2>3, <2>4, <2>5, Worked
  <2> QED BY <1>2, <2>4, <2>5, <2>6, Announced DEF NewModel, m
<1> QED BY <1>3, <1>4, <1>5

LEMMA AnnouncingWorks ==
  ASSUME ThreadsInv, NEW r \in Roots, Free(r), SourceSaved(r) \/ SameConfiguration(r)
  PROVE  Works(r) /\ Announces(r) /\ SameModel(r)
<1> DEFINE v == worker[r]
<1>1. v \in Thread(r) /\ WorkerOk(v) /\ v.started /\ v.job = None
  BY DEF ThreadsInv, Free
<1>2. CASE SourceSaved(r)
  <2> DEFINE x == [v EXCEPT !.session = None, !.index = Parsed(r, v.model)]
  <2>1. PublishAndRefine(r, x) /\ v.model # None
    BY <1>2 DEF SourceSaved, HasRoot
  <2>2. v.model \in Models
    BY <1>1, <2>1 DEF Thread
  <2>3. Parsed(r, v.model) \in Index(r) /\ Parsed(r, v.model).model = v.model
    BY <2>2, ParsedIndex
  <2> HIDE DEF v
  <2>4. /\ x \in Thread(r) /\ x.started /\ x.job = None
        /\ x.model = v.model /\ x.model # None /\ x.replaced = v.replaced
        /\ x.index # None => x.index.model = x.model
        /\ x.replaced \/ x.session \in {None, x.model}
    BY <1>1, <2>1, <2>2, <2>3 DEF Thread
  <2> HIDE DEF x
  <2> QED BY <2>1, <2>4, Refinement DEF SameModel, v
<1>3. CASE SameConfiguration(r)
  <2>1. /\ Publish(r, v.index) /\ v.index \in Index(r) \cup {None}
        /\ UNCHANGED worker /\ UNCHANGED <<disk, buildFile>>
    BY <1>1, <1>3 DEF SameConfiguration, Thread
  <2>2. Works(r) /\ worker'[r] = v
    BY <1>1, <2>1, Worked
  <2> QED BY <2>1, <2>2, Announced DEF SameModel
<1> QED BY <1>2, <1>3

LEMMA QuietWorks ==
  ASSUME ThreadsInv, NEW r \in Roots, Free(r),
         \/ Refused(r) \/ SourceSavedFails(r) \/ SourceIgnored(r)
         \/ ClearCache(r) \/ ClearCacheFails(r) \/ Analyze(r) \/ AnalyzeFails(r)
  PROVE  Works(r) /\ UNCHANGED published /\ SameModel(r)
<1> DEFINE v == worker[r]
           w1 == [v EXCEPT !.session = None]
           w2 == [v EXCEPT !.session = None, !.index = None]
           w3 == [v EXCEPT !.session = SessionModel(r)]
           Sound(w) == /\ w \in Thread(r) /\ WorkerOk(w)
                       /\ w.model = v.model /\ w.replaced = v.replaced
           Goal == Works(r) /\ UNCHANGED published /\ SameModel(r)
<1>1. v \in Thread(r) /\ WorkerOk(v) /\ v.started /\ v.job = None
  BY DEF ThreadsInv, Free
<1>2. UNCHANGED <<disk, buildFile>> /\ UNCHANGED published
  BY DEF Refused, SourceSavedFails, SourceIgnored, ClearCache, ClearCacheFails, Analyze,
         AnalyzeFails, workerVars
<1>3. v = [v EXCEPT !.session = v.session]
  BY <1>1 DEF Thread
<1>4. UNCHANGED worker \/ \E w \in {v, w1, w2, w3} : Becomes(r, w)
  BY <1>3 DEF Refused, RolledBack, SourceSavedFails, SourceIgnored, ClearCache, ClearCacheFails, Analyze,
         AnalyzeFails, workerVars
<1>5. ASSUME NEW w \in {v, w1, w2, w3}
      PROVE  Sound(w)
  <2>1. SessionModel(r) = IF v.session = None THEN v.model ELSE v.session
    BY DEF SessionModel
  <2> HIDE DEF v
  <2>2. Sound(v)
    BY <1>1
  <2>3. Sound(w1)
    BY <1>1 DEF Thread, WorkerOk
  <2>4. Sound(w2)
    BY <1>1 DEF Thread, WorkerOk
  <2>5. Sound(w3)
    BY <1>1, <2>1 DEF Thread, WorkerOk
  <2> HIDE DEF Sound, w1, w2, w3
  <2> QED BY <1>5, <2>2, <2>3, <2>4, <2>5
<1>6. ASSUME NEW w, Sound(w), Becomes(r, w) \/ (UNCHANGED worker /\ w = v)
      PROVE  Goal
  <2>1. Works(r) /\ worker'[r] = w
    BY <1>2, <1>6, Worked
  <2> QED BY <1>2, <1>6, <2>1 DEF SameModel
<1> SUFFICES Goal
  OBVIOUS
<1> HIDE DEF Sound, Goal, v, w1, w2, w3
<1> QED BY <1>4, <1>5, <1>6, Zenon

\* A rebuild that fails may have moved to the new model, and is marked.
LEMMA FailingWorks ==
  ASSUME ThreadsInv, NEW r \in Roots, Free(r), RebuildFails(r)
  PROVE  /\ Works(r) /\ UNCHANGED published
         /\ SameModel(r) \/ (NewModel(r) /\ worker'[r].replaced)
<1> DEFINE v == worker[r]
           m == buildFile[r]
           Goal == /\ Works(r) /\ UNCHANGED published
                   /\ SameModel(r) \/ (NewModel(r) /\ worker'[r].replaced)
<1>1. v \in Thread(r) /\ WorkerOk(v) /\ v.started /\ v.job = None
  BY DEF ThreadsInv, Free
<1>2. CASE UNCHANGED workerVars
  <2>1. UNCHANGED worker /\ UNCHANGED <<disk, buildFile>> /\ UNCHANGED published
    BY <1>2 DEF workerVars
  <2>2. Works(r) /\ worker'[r] = v
    BY <1>1, <2>1, Worked
  <2> QED BY <2>1, <2>2 DEF SameModel
<1>3. CASE ~UNCHANGED workerVars
  <2> DEFINE Left(w) == [w EXCEPT !.model = m, !.replaced = TRUE]
             w1 == [v EXCEPT !.session = None]
             w2 == [v EXCEPT !.session = None, !.index = Parsed(r, m)]
  <2>1. CanLoad(r) /\ UNCHANGED <<disk, buildFile>> /\ UNCHANGED published
    BY <1>3 DEF RebuildFails
  <2>2. \E w \in {v, w1, w2} : Becomes(r, Left(w))
    BY <1>3 DEF RebuildFails
  <2>3. m \in Models /\ m # None
    BY <2>1, Constants DEF ThreadsInv, CanLoad
  <2>4. Parsed(r, m) \in Index(r)
    BY <2>3, ParsedIndex
  <2> HIDE DEF m, v
  <2>5. ASSUME NEW w \in {v, w1, w2}
        PROVE  /\ Left(w) \in Thread(r) /\ WorkerOk(Left(w))
               /\ Left(w).model = m /\ Left(w).replaced
    <3>1. ASSUME NEW x \in Thread(r), x.started, x.job = None
          PROVE  /\ Left(x) \in Thread(r) /\ WorkerOk(Left(x))
                 /\ Left(x).model = m /\ Left(x).replaced
      BY <2>3, <3>1 DEF Thread, WorkerOk
    <3>2. w1 \in Thread(r) /\ w1.started /\ w1.job = None
      BY <1>1 DEF Thread
    <3>3. w2 \in Thread(r) /\ w2.started /\ w2.job = None
      BY <1>1, <2>4 DEF Thread
    <3> HIDE DEF Left, w1, w2
    <3> QED BY <1>1, <2>5, <3>1, <3>2, <3>3
  <2>6. ASSUME NEW w, Becomes(r, w), w \in Thread(r), WorkerOk(w), w.model = m, w.replaced
        PROVE  Goal
    <3>1. Works(r) /\ worker'[r] = w
      BY <2>1, <2>6, Worked
    <3> QED BY <2>1, <2>3, <2>6, <3>1 DEF NewModel, m
  <2> SUFFICES Goal
    OBVIOUS
  <2> HIDE DEF Left, Goal, w1, w2
  <2> QED BY <2>2, <2>5, <2>6, Zenon
<1> QED BY <1>2, <1>3

LEMMA Interruption ==
  ASSUME ThreadsInv, NEW roots \in SUBSET Roots,
         worker' = [r \in Roots |-> IF r \in roots THEN Interrupted(worker[r]) ELSE worker[r]],
         UNCHANGED <<disk, buildFile>>, UNCHANGED published
  PROVE  ThreadsInv' /\ \A r \in Roots : SameModel(r)
<1>1. ASSUME NEW r \in Roots, NEW v \in Thread(r), WorkerOk(v)
      PROVE  /\ Interrupted(v) \in Thread(r) /\ WorkerOk(Interrupted(v))
             /\ Interrupted(v).model = v.model /\ Interrupted(v).replaced = v.replaced
  <2>1. CASE v.job = None
    BY <1>1, <2>1 DEF Interrupted
  <2>2. CASE v.job # None
    <3> DEFINE j == [v.job EXCEPT !.stale = TRUE]
               w == [v EXCEPT !.job = j]
    <3>1. v.job \in [kind : {"initialize", "resume", "refine"}, stale : BOOLEAN,
                     index : Index(r) \cup {None}]
      BY <1>1, <2>2 DEF Thread
    <3>2. /\ j \in [kind : {"initialize", "resume", "refine"}, stale : BOOLEAN,
                    index : Index(r) \cup {None}]
          /\ j.index = v.job.index
      BY <3>1
    <3>3. Interrupted(v) = w
      BY <2>2 DEF Interrupted
    <3> HIDE DEF j
    <3>4. /\ w.job = j /\ w.started = v.started /\ w.model = v.model /\ w.session = v.session
          /\ w.index = v.index /\ w.retry = v.retry /\ w.refine = v.refine
          /\ w.replaced = v.replaced
      BY <1>1 DEF Thread
    <3>5. w \in Thread(r)
      BY <1>1, <3>2 DEF Thread
    <3> HIDE DEF w
    <3>6. WorkerOk(w)
      BY <1>1, <2>2, <3>2, <3>4 DEF WorkerOk
    <3> QED BY <3>3, <3>4, <3>5, <3>6
  <2> QED BY <2>1, <2>2
<1>2. ASSUME NEW r \in Roots
      PROVE  worker'[r] \in Thread(r) /\ WorkerOk(worker'[r]) /\ SameModel(r)
  <2>1. worker[r] \in Thread(r) /\ WorkerOk(worker[r])
    BY DEF ThreadsInv
  <2> DEFINE v == worker[r]
  <2>2. /\ Interrupted(v) \in Thread(r) /\ WorkerOk(Interrupted(v))
        /\ Interrupted(v).model = v.model /\ Interrupted(v).replaced = v.replaced
    BY <1>1, <2>1
  <2>3. worker'[r] = Interrupted(v) \/ worker'[r] = v
    OBVIOUS
  <2> QED BY <2>1, <2>2, <2>3 DEF SameModel
<1>3. worker' = [r \in Roots |-> worker'[r]]
  OBVIOUS
<1>4. \A r \in Roots : worker'[r] \in Thread(r) /\ WorkerOk(worker'[r])
  BY <1>2
<1>5. /\ published' = [r \in Roots |-> published'[r]]
      /\ \A r \in Roots : published'[r] \in Publication(r)
      /\ buildFile' \in [Roots -> Models \cup {Broken}] /\ disk' \in [Uris -> Texts]
  BY DEF ThreadsInv
<1> QED BY <1>2, <1>3, <1>4, <1>5 DEF ThreadsInv

---------------------------------------------------------------------------
(* How the agenda changes. *)

Rest == Entries(Tail(agenda))

\* Who waits for a request, by the entries of the agenda.
LEMMA Waits ==
  ASSUME NEW a, Ordered(a), NEW op \in Fanned, NEW r \in Roots
  PROVE  (\E i \in DOMAIN a : a[i] = Request(op, r))
           <=> \E x \in Entries(a) : x.op = op /\ x.root = r
<1>1. ASSUME NEW i \in DOMAIN a, a[i] = Request(op, r)
      PROVE  \E x \in Entries(a) : x.op = op /\ x.root = r
  BY <1>1 DEF Entries, Request, Message
<1>2. ASSUME NEW i \in DOMAIN a, a[i].op = op, a[i].root = r
      PROVE  a[i] = Request(op, r)
  <2>1. a[i] \in Item
    BY Elements DEF Entries
  <2>2. a[i] \in [op : Fanned \cup {"saved", "watched"}, uri : {None}, text : {None}, root : Roots,
                  by : {None}]
    BY <1>2, <2>1 DEF Item, Fanned, Enders
  <2> QED BY <1>2, <2>2 DEF Request, Message
<1> QED BY <1>1, <1>2 DEF Entries

\* The invariant of the agenda, by its entries.
LEMMA AgendaEntries ==
  ASSUME NEW a, Ordered(a)
  PROVE  (\E x \in Entries(a) : x.op = "clear") =>
           ({r \in Roots : \E i \in DOMAIN a : a[i] = Request("rebuild", r)} = Roots
              <=> \A r \in Roots : \E x \in Entries(a) : x.op = "rebuild" /\ x.root = r)
<1>1. "rebuild" \in Fanned
  BY DEF Fanned
<1> QED BY <1>1, Waits

LEMMA Agended ==
  AgendaInv <=> /\ Ordered(agenda) /\ Ended(agenda)
                /\ (\E x \in Entries(agenda) : x.op = "clear") =>
                     \A r \in Roots : \E x \in Entries(agenda) : x.op = "rebuild" /\ x.root = r
BY AgendaEntries DEF AgendaInv, Pending, Waiting

LEMMA AgendedNext ==
  AgendaInv' <=> /\ Ordered(agenda') /\ Ended(agenda')
                 /\ (\E x \in Entries(agenda') : x.op = "clear") =>
                      \A r \in Roots : \E x \in Entries(agenda') : x.op = "rebuild" /\ x.root = r
BY AgendaEntries DEF AgendaInv, Pending, Waiting

LEMMA First ==
  ASSUME AgendaInv, agenda # <<>>
  PROVE  /\ Todo \in Item /\ Todo \in Entries(agenda) /\ Entries(agenda) = {Todo} \cup Rest
         /\ Rest \subseteq Item /\ \A y \in Rest : MayPrecede(Todo, y)
         /\ Ordered(Tail(agenda)) /\ Ended(Tail(agenda))
         /\ Todo.op \in Enders \cup Singles => Tail(agenda) = <<>> /\ Rest = {}
         /\ Todo.op \in Fanned => \E y \in Rest : y.op \in Enders
<1>1. /\ Todo \in Item /\ Entries(agenda) = {Todo} \cup Rest
      /\ \A y \in Rest : MayPrecede(Todo, y)
      /\ Ordered(Tail(agenda)) /\ Ended(Tail(agenda))
  BY TakenOff DEF AgendaInv, Todo, Rest
<1>2. Rest \subseteq Item /\ (Rest = {} => Tail(agenda) = <<>>)
  BY <1>1, Elements, Emptied DEF Rest
<1>3. Todo.op \in Enders \cup Singles => Rest = {}
  BY <1>1 DEF MayPrecede
<1>4. ASSUME Todo.op \in Fanned
      PROVE  \E y \in Rest : y.op \in Enders
  <2>1. /\ agenda \in Seq(Item) /\ DOMAIN agenda = 1..Len(agenda) /\ Len(agenda) \in Nat \ {0}
        /\ Todo = agenda[1]
    BY LenProperties, EmptySeq DEF AgendaInv, Ordered, Todo
  <2>2. agenda[Len(agenda)].op \in Enders /\ agenda[Len(agenda)] \in Entries(agenda)
    BY <1>4, <2>1 DEF AgendaInv, Ended, Entries
  <2>3. agenda[Len(agenda)] # Todo
    BY <1>4, <2>2 DEF Fanned, Enders
  <2> QED BY <1>1, <2>2, <2>3
<1> QED BY <1>1, <1>2, <1>3, <1>4

LEMMA AfterDone ==
  ASSUME AgendaInv, agenda # <<>>, Done
  PROVE  AgendaInv' /\ Entries(agenda') = Rest
<1>1. /\ Entries(agenda) = {Todo} \cup Rest /\ \A y \in Rest : MayPrecede(Todo, y)
      /\ Ordered(Tail(agenda)) /\ Ended(Tail(agenda))
  BY First
<1>2. agenda' = Tail(agenda)
  BY <1>1, ConcatEmptySeq DEF Done, Then, Ordered
<1>3. ASSUME NEW y \in Rest, y.op = "clear", NEW r \in Roots
      PROVE  \E x \in Rest : x.op = "rebuild" /\ x.root = r
  <2>1. \E x \in {Todo} \cup Rest : x.op = "rebuild" /\ x.root = r
    BY <1>1, <1>3, Agended
  <2>2. Todo.op # "rebuild"
    BY <1>1, <1>3 DEF MayPrecede, Movers
  <2> QED BY <2>1, <2>2
<1> QED BY <1>1, <1>2, <1>3, AgendedNext DEF Rest

LEMMA AfterAbandon ==
  ASSUME Abandon
  PROVE  AgendaInv' /\ Entries(agenda') = {}
<1>1. agenda' = <<>>
  BY DEF Abandon
<1> QED BY <1>1, Nothing, AgendedNext

\* The only entry gives way to others.
LEMMA AfterLast ==
  ASSUME AgendaInv, agenda # <<>>, Todo.op \in Enders \cup Singles,
         NEW items, Ordered(items), Ended(items), \A x \in Entries(items) : x.op # "clear",
         Then(items)
  PROVE  AgendaInv' /\ Entries(agenda') = Entries(items) /\ Entries(agenda) = {Todo}
<1>1. Tail(agenda) = <<>> /\ Rest = {} /\ Entries(agenda) = {Todo} \cup Rest
  BY First
<1>2. agenda' = items
  BY <1>1, ConcatEmptySeq DEF Then, Ordered
<1> QED BY <1>1, <1>2, AgendedNext

\* The scan that IndexWorkspace may put before what remains to be done.
LEMMA ScanFirst ==
  ASSUME NEW rest, Ordered(rest), Ended(rest),
         \A y \in Entries(rest) : y.op \notin {"sources", "reload", "synced"},
         NEW a, a = <<Request("sources", None)>> \o rest
  PROVE  /\ Ordered(a) /\ Ended(a)
         /\ Entries(a) = {Request("sources", None)} \cup Entries(rest)
<1> DEFINE x == Request("sources", None)
<1>1. x \in Item /\ x.op = "sources" /\ x.op \notin Fanned
  BY DEF Request, Message, Item, Fanned
<1>2. Ordered(<<x>>) /\ Ended(<<x>>) /\ Entries(<<x>>) = {x}
  BY <1>1, Alone
<1>3. \A y \in Entries(rest) : MayPrecede(x, y)
  BY <1>1 DEF MayPrecede, Enders, Singles, Movers
<1> HIDE DEF x
<1>4. /\ Ordered(<<x>> \o rest) /\ Ended(<<x>> \o rest)
      /\ Entries(<<x>> \o rest) = {x} \cup Entries(rest)
  BY <1>1, <1>2, <1>3, Joined
<1> QED BY <1>4 DEF x

\* Requests to all roots, and what ends them.
LEMMA AllAsked ==
  ASSUME NEW op \in Fanned, NEW roots \in SUBSET Roots, NEW end \in Enders,
         op = "reload" <=> end = "synced"
  PROVE  LET a == ForRoots(op, roots) \o <<Request(end, None)>>
         IN  /\ Ordered(a) /\ Ended(a)
             /\ Entries(a) = {Request(op, r) : r \in roots} \cup {Request(end, None)}
<1> DEFINE s == ForRoots(op, roots)
           t == <<Request(end, None)>>
<1>1. Request(end, None) \in Item /\ Request(end, None).op = end
      /\ \A r \in roots : Request(op, r).op = op
  BY DEF Request, Message, Item
<1>2. Ordered(s) /\ Entries(s) = {Request(op, r) : r \in roots}
  BY FannedOut
<1>3. Ordered(t) /\ Ended(t) /\ Entries(t) = {Request(end, None)}
  BY <1>1, Alone DEF Fanned, Enders
<1>4. t # <<>> /\ t[Len(t)] = Request(end, None)
  OBVIOUS
<1>5. \A x \in Entries(s), y \in Entries(t) : MayPrecede(x, y)
  BY <1>1, <1>2, <1>3 DEF MayPrecede, Fanned, Enders, Singles, Movers
<1> HIDE DEF s, t
<1>6. Ordered(s \o t) /\ Entries(s \o t) = Entries(s) \cup Entries(t) /\ Ended(s \o t)
  BY <1>1, <1>2, <1>3, <1>4, <1>5, Joined
<1> QED BY <1>2, <1>3, <1>6 DEF s, t

LEMMA Sendable ==
  ASSUME NEW m \in Messages
  PROVE  \/ \E u \in Uris \ OpenUris, t \in Texts : m = Message("open", u, t, None)
         \/ \E u \in OpenUris, t \in Texts : m = Message("change", u, t, None)
         \/ \E op \in {"close", "save", "pull"}, u \in OpenUris : m = Message(op, u, None, None)
         \/ \E r \in unnotified : m = Message("watched", None, None, r)
         \/ \E op \in {"sync", "settings", "otherSettings", "files", "rebuildIndex",
                       "clearWorkspaceCache", "cancel"} : m = Message(op, None, None, None)
BY SMT DEF Messages, Request

\* What a message puts on the agenda.
MessageAgenda(m, a) ==
  /\ Ordered(a) /\ Ended(a)
  /\ \A x \in Entries(a) :
       /\ x.op \notin {"analyze", "sources", "reload", "synced"}
       /\ DocumentOk(x)
       /\ x.op = "clear" => \A r \in Roots : \E y \in Entries(a) : y.op = "rebuild" /\ y.root = r
       /\ x.op \in Enders /\ Uris # {} => \E y \in Entries(a) : y.op \in Publishers
  /\ m.root # None => \E x \in Entries(a) : x.op = "watched" /\ x.root = m.root

LEMMA Agendas ==
  ASSUME ServerTypes, NEW m \in Messages
  PROVE  MessageAgenda(m, Agenda(m))
<1> DEFINE a == Agenda(m)
<1>1. Uris # {} => Roots # {}
  BY Constants
<1> DEFINE General == {"settings", "otherSettings", "files", "rebuildIndex", "clearWorkspaceCache"}
<1>0. /\ m.op \in General \cup {"save"} \cup (Singles \ {"saved"})
      /\ m.op # "watched" => m.root = None
      /\ m.op = "save" => m.uri \in Uris
      /\ m.op \in Singles \ {"saved"} => m \in Item /\ DocumentOk(m)
  <2>1. CASE \E u \in Uris \ OpenUris, t \in Texts : m = Message("open", u, t, None)
    BY <2>1 DEF Message, Item, DocumentOk, OpenUris, Singles
  <2>2. CASE \E u \in OpenUris, t \in Texts : m = Message("change", u, t, None)
    BY <2>2 DEF Message, Item, DocumentOk, OpenUris, Singles
  <2>3. CASE \E op \in {"close", "save", "pull"}, u \in OpenUris : m = Message(op, u, None, None)
    <3>1. PICK op \in {"close", "save", "pull"}, u \in OpenUris : m = Message(op, u, None, None)
      BY <2>3
    <3>2. CASE op = "save"
      BY <3>1, <3>2 DEF Message, OpenUris, Singles
    <3>3. CASE op \in {"close", "pull"}
      <4>1. m.op = op /\ m.uri = u /\ m.root = None /\ u \in Uris /\ IsOpen(u)
        BY <3>1 DEF Message, OpenUris
      <4>2. m \in [op : {"close", "pull"}, uri : Uris, text : {None}, root : {None}, by : {None}]
        BY <3>1, <3>3, <4>1 DEF Message
      <4> QED BY <3>3, <4>1, <4>2 DEF Item, DocumentOk, Singles
    <3> QED BY <3>2, <3>3
  <2>4. CASE \E r \in unnotified : m = Message("watched", None, None, r)
    BY <2>4 DEF Message, Item, DocumentOk, ServerTypes, Singles
  <2>5. CASE \E op \in {"sync", "settings", "otherSettings", "files", "rebuildIndex",
                         "clearWorkspaceCache", "cancel"} : m = Message(op, None, None, None)
    <3>1. PICK op \in General \cup {"sync", "cancel"} : m = Message(op, None, None, None)
      BY <2>5
    <3>2. CASE op \in General
      BY <3>1, <3>2 DEF Message, Singles
    <3>3. CASE op \in {"sync", "cancel"}
      BY <3>1, <3>3 DEF Message, Item, DocumentOk, Singles
    <3> QED BY <3>1, <3>2, <3>3
  <2> QED BY <2>1, <2>2, <2>3, <2>4, <2>5, Sendable
<1>2. ASSUME NEW op \in {"configure", "reconfigure", "rebuild"}, NEW end \in {"reindex", "reset"},
             m.root = None
      PROVE  MessageAgenda(m, ForRoots(op, Roots) \o <<Request(end, None)>>)
  <2> DEFINE b == ForRoots(op, Roots) \o <<Request(end, None)>>
  <2>1. /\ Ordered(b) /\ Ended(b)
        /\ Entries(b) = {Request(op, r) : r \in Roots} \cup {Request(end, None)}
    BY AllAsked DEF Fanned, Enders
  <2>2. \A r : /\ Request(op, r).op = op /\ Request(op, r).root = r
               /\ Request(end, r).op = end
    BY DEF Request, Message
  <2>3. \A x \in Entries(b) : x.op = op \/ x.op = end
    BY <2>1, <2>2
  <2>4. Uris # {} => \E y \in Entries(b) : y.op \in Publishers
    BY <1>1, <2>1, <2>2 DEF Publishers
  <2> HIDE DEF b
  <2> QED BY <1>2, <2>1, <2>3, <2>4 DEF MessageAgenda, DocumentOk, b
<1>3. ASSUME NEW x \in Item, x.op \in Singles, DocumentOk(x), m.root # None => x = m /\ x.op = "watched"
      PROVE  MessageAgenda(m, <<x>>)
  <2>1. Ordered(<<x>>) /\ Ended(<<x>>) /\ Entries(<<x>>) = {x}
    BY <1>3, Alone DEF Fanned, Singles
  <2> QED BY <1>3, <2>1 DEF MessageAgenda, Singles, Enders
<1>4. CASE m.op \in {"settings", "otherSettings", "files", "rebuildIndex"}
  <2>1. m.root = None
    BY <1>0, <1>4
  <2>2. \/ a = ForRoots("configure", Roots) \o <<Request("reindex", None)>>
        \/ a = ForRoots("reconfigure", Roots) \o <<Request("reindex", None)>>
        \/ a = ForRoots("rebuild", Roots) \o <<Request("reindex", None)>>
        \/ a = ForRoots("rebuild", Roots) \o <<Request("reset", None)>>
    BY <1>4 DEF Agenda
  <2> HIDE DEF a
  <2> QED BY <1>2, <2>1, <2>2 DEF a
<1>5. CASE m.op = "clearWorkspaceCache"
  <2> DEFINE s == ForRoots("clear", Roots)
             t == ForRoots("rebuild", Roots)
             e == <<Request("reset", None)>>
             end == Request("reset", None)
  <2>1. m.root = None /\ a = (s \o t) \o e
    BY <1>0, <1>5 DEF Agenda
  <2>2. /\ \A r : Request("clear", r).op = "clear" /\ Request("rebuild", r).op = "rebuild"
                  /\ Request("rebuild", r).root = r
        /\ end.op = "reset" /\ end \in Item
    BY DEF Request, Message, Item, Enders
  <2>3. /\ Ordered(s) /\ Entries(s) = {Request("clear", r) : r \in Roots}
        /\ Ordered(t) /\ Entries(t) = {Request("rebuild", r) : r \in Roots}
    BY FannedOut DEF Fanned
  <2>4. Ordered(e) /\ Ended(e) /\ Entries(e) = {end} /\ e # <<>> /\ e[Len(e)] = end
    BY <2>2, Alone DEF Fanned
  <2> HIDE DEF a, s, t, e, end
  <2>5. \A x \in Entries(s), y \in Entries(t) : MayPrecede(x, y)
    BY <2>2, <2>3 DEF MayPrecede, Enders, Singles, Movers
  <2>6. Ordered(s \o t) /\ Entries(s \o t) = Entries(s) \cup Entries(t)
    BY <2>3, <2>5, Joined
  <2>7. \A x \in Entries(s \o t), y \in Entries(e) : MayPrecede(x, y)
    BY <2>2, <2>3, <2>4, <2>6 DEF MayPrecede, Enders, Singles, Movers
  <2>8. /\ Ordered(a) /\ Ended(a)
        /\ Entries(a) = Entries(s) \cup Entries(t) \cup {end}
    BY <2>1, <2>2, <2>4, <2>6, <2>7, Joined DEF Enders
  <2>9. /\ \A x \in Entries(a) : x.op \in {"clear", "rebuild", "reset"}
        /\ \A r \in Roots : \E y \in Entries(a) : y.op = "rebuild" /\ y.root = r
    BY <2>2, <2>3, <2>8
  <2> QED BY <1>1, <2>1, <2>8, <2>9 DEF MessageAgenda, DocumentOk, Publishers, a
<1>6. CASE m.op = "save"
  <2> DEFINE x == Request("saved", RootOf[m.uri])
  <2>1. m.uri \in Uris /\ m.root = None /\ a = <<x>>
    BY <1>0, <1>6 DEF Agenda
  <2>2. x \in Item /\ x.op = "saved"
    BY <2>1, Constants DEF Request, Message, Item
  <2> HIDE DEF x
  <2> QED BY <1>3, <2>1, <2>2 DEF DocumentOk, Singles
<1>7. CASE m.op \in Singles \ {"saved"}
  <2>1. a = <<m>>
    BY <1>7 DEF Agenda, Singles
  <2> QED BY <1>0, <1>3, <1>7, <2>1
<1> QED BY <1>0, <1>4, <1>5, <1>6, <1>7

---------------------------------------------------------------------------
(* What steps that leave a part of the state alone preserve. *)

Messaging == {"open", "change", "close", "pull"}

LEMMA DocsRest ==
  ASSUME DocsInv, UNCHANGED <<docs, index, analyses, failed>>,
         \A x \in Entries(agenda') :
           x \in Entries(agenda) \/ x.op \notin {"analyze", "sources"} \cup Messaging,
         \A x \in Entries(agenda) : x.op = "analyze" => x \in Entries(agenda')
  PROVE  DocsInv'
<1>1. ASSUME NEW u \in Uris
      PROVE  (IsOpen(u)' <=> IsOpen(u)) /\ SourceText(u)' = SourceText(u)
             /\ (Match(u)' <=> Match(u)) /\ (Due(u) => Due(u)')
  BY DEF IsOpen, SourceText, Match, Trusted, Due, Pending
<1>2. ASSUME NEW x \in Entries(agenda')
      PROVE  AnalysisOk(x)' /\ DocumentOk(x)'
  <2>1. CASE x \in Entries(agenda)
    <3>1. AnalysisOk(x) /\ DocumentOk(x)
      BY <2>1 DEF DocsInv
    <3>2. Pending("sources") = {} => Pending("sources")' = {}
      BY DEF Pending
    <3> QED BY <3>1, <3>2 DEF AnalysisOk, DocumentOk, IsOpen
  <2>2. CASE x \notin Entries(agenda)
    BY <2>2 DEF AnalysisOk, DocumentOk, Messaging
  <2> QED BY <2>1, <2>2
<1> QED BY <1>1, <1>2 DEF DocsInv

LEMMA HeldRests ==
  ASSUME HeldInv, UNCHANGED <<docs, index, analyses, held, seen>>, UNCHANGED published,
         \A x \in Entries(agenda') : x \in Entries(agenda) \/ x.op \notin {"analyze", "sources"},
         \A x \in Entries(agenda') : x.op \in Enders /\ Uris # {} =>
           seen # Revisions \/ \E y \in Entries(agenda') : y.op \in Publishers
  PROVE  HeldInv'
<1>1. UNCHANGED Revisions
  BY DEF Revisions
<1>2. ASSUME NEW u \in Uris
      PROVE  /\ HeldOk(u)' /\ (Holds(u) /\ seen = Revisions => held[u].items = Items(u))'
             /\ IsOpen(u)' /\ (Due(u)' \/ Pending("sources")' # {}) => Unheld(u)'
  <2>1. (Holds(u)' <=> Holds(u)) /\ Items(u)' = Items(u) /\ (IsOpen(u)' <=> IsOpen(u))
    BY DEF Holds, ResultId, Items, SourceText, IsOpen
  <2>2. HeldOk(u)' <=> HeldOk(u)
    BY DEF HeldOk, IsOpen
  <2>3. (Due(u)' \/ Pending("sources")' # {}) => Due(u) \/ Pending("sources") # {}
    BY DEF Due, Pending
  <2> QED BY <1>1, <2>1, <2>2, <2>3 DEF HeldInv, Unheld
<1>3. \A r \in Roots : seen'[r] <= published'[r].revision
  BY DEF HeldInv
<1> QED BY <1>1, <1>2, <1>3 DEF HeldInv

\* A new revision makes every result id obsolete that the editor may hold.
LEMMA HeldAnnounced ==
  ASSUME HeldInv, ThreadsInv, ServerTypes, UNCHANGED <<docs, held, seen>>, NEW r \in Roots, Announces(r)
  PROVE  HeldInv'
<1>1. \A q \in Roots : published[q].revision \in Nat /\ seen[q] \in Nat
                       /\ seen[q] <= published[q].revision
  BY DEF ThreadsInv, Publication, ServerTypes, HeldInv
<1>2. \A q \in Roots : published[q].revision <= published'[q].revision
                       /\ published'[q].revision \in Nat
  BY <1>1 DEF Announces
<1>3. seen # Revisions'
  <2>1. seen[r] # Revisions'[r]
    BY <1>1 DEF Announces, Revisions
  <2> QED BY <2>1
<1>4. \A u \in Uris : HeldOk(u)'
  BY DEF HeldInv, HeldOk, IsOpen
<1>5. \A q \in Roots : seen'[q] <= published'[q].revision
  BY <1>1, <1>2
<1> QED BY <1>3, <1>4, <1>5 DEF HeldInv, Unheld

LEMMA ModelsRest ==
  ASSUME ModelsInv, UNCHANGED analyses, cut \subseteq cut',
         \A r \in Roots :
           \/ SameModel(r) /\ (Served(r) /\ r \notin cut' => Served(r)')
           \/ /\ worker'[r].model # None
              /\ Served(r)' \/ worker'[r].replaced \/ worker[r].model = None
  PROVE  ModelsInv'
<1> SUFFICES ASSUME NEW u \in Uris
             PROVE  /\ (analyses[u] # None /\ analyses[u].by # "index" => ModelOf(u) # None)'
                    /\ (Edited(u) /\ ~worker[RootOf[u]].replaced /\ RootOf[u] \notin cut =>
                          analyses[u].model = ModelOf(u) \/ Served(RootOf[u]))'
  BY DEF ModelsInv
<1>1. RootOf[u] \in Roots
  BY Constants
<1> QED BY <1>1 DEF ModelsInv, ModelOf, Edited, SameModel

Building == {"reload", "synced", "watched"}

LEMMA SyncRests ==
  ASSUME SyncInv, AgendaInv, AgendaInv',
         UNCHANGED buildVars, UNCHANGED buildFile,
         \A x : x.op \in Building => (x \in Entries(agenda') <=> x \in Entries(agenda)),
         \A r \in Roots : \/ worker'[r].model = worker[r].model
                          \/ /\ worker'[r].model = buildFile[r]
                             /\ sync # "syncing" \/ worker[r].model = None
  PROVE  SyncInv'
<1>1. \A r \in Roots : Dirty(r)' => Dirty(r)
  BY DEF Dirty, HasRoot
<1>2. \A op \in Building : Pending(op)' = Pending(op)
  BY DEF Pending
<1>3. Waiting("reload")' = Waiting("reload")
  <2>1. "reload" \in Fanned /\ Ordered(agenda) /\ Ordered(agenda')
    BY DEF Fanned, AgendaInv
  <2>2. Waiting("reload") = {r \in Roots : \E x \in Entries(agenda) : x.op = "reload" /\ x.root = r}
    BY <2>1, Waits DEF Waiting
  <2>3. Waiting("reload")' = {r \in Roots : \E x \in Entries(agenda') : x.op = "reload" /\ x.root = r}
    BY <2>1, Waits DEF Waiting
  <2>4. \A r \in Roots : (\E x \in Entries(agenda) : x.op = "reload" /\ x.root = r)
                         <=> (\E x \in Entries(agenda') : x.op = "reload" /\ x.root = r)
    BY DEF Building
  <2> QED BY ONLY <2>2, <2>3, <2>4
<1>4. UNCHANGED <<sync, pending, kept, unnotified>> /\ Reloadable' = Reloadable
  BY DEF buildVars, Reloadable
<1>5. \A r \in Roots : kept[r] \in {None, worker[r].model} /\ sync = "syncing" =>
                         kept[r] \in {None, worker'[r].model}
  OBVIOUS
<1>6. Pending("reload")' = Pending("reload") /\ Pending("synced")' = Pending("synced")
      /\ Pending("watched")' = Pending("watched")
  BY <1>2 DEF Building
<1> QED BY <1>1, <1>3, <1>4, <1>5, <1>6 DEF SyncInv

\* What comes after the head of the agenda.
LEMMA DoneKeeps ==
  ASSUME AgendaInv, agenda # <<>>, Done
  PROVE  /\ AgendaInv' /\ Entries(agenda') \subseteq Entries(agenda)
         /\ \A x \in Entries(agenda) : x.op # Todo.op => x \in Entries(agenda')
         /\ Todo.op \notin Enders /\ UNCHANGED <<sync, pending>> =>
              \A r \in Roots : Served(r) => Served(r)'
<1>1. /\ AgendaInv' /\ Entries(agenda') = Rest /\ Entries(agenda) = {Todo} \cup Rest
  BY First, AfterDone
<1>2. ASSUME Todo.op \notin Enders, UNCHANGED <<sync, pending>>, NEW r \in Roots, Served(r)
      PROVE  Served(r)'
  <2>1. Reloadable' = Reloadable
    BY <1>2 DEF Reloadable
  <2> QED BY <1>1, <1>2, <2>1 DEF Served
<1> QED BY <1>1, <1>2

---------------------------------------------------------------------------
(* Every step keeps the invariant. *)

LEMMA InitInv == Init => Inv
<1> SUFFICES ASSUME Init
             PROVE  Inv
  OBVIOUS
<1>1. agenda = <<>> /\ Entries(agenda) = {} /\ \A op : Pending(op) = {}
  BY Nothing DEF Init, Pending
<1>2. ThreadsInv
  <2>1. disk \in [Uris -> Texts] /\ buildFile \in [Roots -> Models \cup {Broken}]
    BY Constants DEF Init, WorkerInit
  <2>2. worker = [r \in Roots |-> worker[r]] /\ published = [r \in Roots |-> published[r]]
    BY DEF Init, WorkerInit
  <2>3. \A r \in Roots : worker[r] \in Thread(r) /\ WorkerOk(worker[r]) /\ published[r] \in Publication(r)
    BY DEF Init, WorkerInit, Thread, WorkerOk, Publication
  <2> QED BY <2>1, <2>2, <2>3 DEF ThreadsInv
<1>3. ServerTypes
  BY DEF Init, ServerTypes
<1>4. AgendaInv
  BY <1>1, Nothing, Agended DEF Init
<1>5. DocsInv
  BY <1>1 DEF Init, DocsInv, Match, Trusted
<1>6. HeldInv
  BY <1>1 DEF Init, WorkerInit, HeldInv, HeldOk, Holds, IsOpen
<1>7. ModelsInv
  BY DEF Init, ModelsInv, Edited
<1>8. SyncInv
  <2>1. \A r \in Roots : ~HasRoot(r)
    BY DEF Init, WorkerInit, HasRoot
  <2> QED BY <1>1, <2>1 DEF Init, SyncInv, Dirty
<1> QED BY <1>2, <1>3, <1>4, <1>5, <1>6, <1>7, <1>8 DEF Inv

LEMMA AgendaRests ==
  ASSUME AgendaInv, UNCHANGED agenda
  PROVE  /\ AgendaInv'
         /\ UNCHANGED <<sync, pending>> => \A r \in Roots : Served(r) => Served(r)'
BY Agended, AgendedNext DEF Served, Reloadable

LEMMA BackgroundKeeps ==
  ASSUME Inv, NEW r \in Roots, Background(r)
  PROVE  Inv'
<1> USE DEF Inv
<1>1. /\ Works(r) /\ UNCHANGED serverVars /\ UNCHANGED agenda
      /\ UNCHANGED published \/ Announces(r)
      /\ SameModel(r) \/ (NewModel(r) /\ worker[r].model = None)
  BY BackgroundWorks
<1>2. /\ UNCHANGED <<docs, held>> /\ UNCHANGED <<index, analyses, failed, seen>>
      /\ UNCHANGED <<sync, pending, kept, unnotified>> /\ UNCHANGED cut
  BY <1>1 DEF serverVars, docVars, indexVars, syncVars, buildVars
<1>3. ThreadsInv' /\ (\A q \in Roots \ {r} : SameModel(q)) /\ UNCHANGED buildFile
  BY <1>1 DEF Works, SameModel
<1>4. ServerTypes'
  BY <1>2 DEF ServerTypes
<1>5. AgendaInv' /\ \A q \in Roots : Served(q) => Served(q)'
  BY <1>1, <1>2, AgendaRests
<1>6. DocsInv'
  BY <1>1, <1>2, DocsRest
<1>7. HeldInv'
  BY <1>1, <1>2, HeldRests, HeldAnnounced DEF HeldInv
<1>8. ModelsInv'
  <2>1. NewModel(r) => worker'[r].model # None
    BY Constants DEF NewModel
  <2> QED BY <1>1, <1>2, <1>3, <1>5, <2>1, ModelsRest
<1>9. SyncInv'
  <2>1. \A q \in Roots : worker'[q].model = worker[q].model
                         \/ (worker'[q].model = buildFile[q] /\ worker[q].model = None)
    BY <1>1, <1>3 DEF SameModel, NewModel
  <2> QED BY <1>1, <1>2, <1>3, <1>5, <2>1, SyncRests DEF buildVars
<1> QED BY <1>3, <1>4, <1>5, <1>6, <1>7, <1>8, <1>9

LEMMA AskKeeps ==
  ASSUME Inv, Ask
  PROVE  Inv'
<1> USE DEF Inv
<1>1. /\ UNCHANGED <<docs, held>> /\ UNCHANGED <<index, analyses, failed, seen>>
      /\ UNCHANGED <<sync, pending, kept, unnotified>> /\ UNCHANGED cut
      /\ UNCHANGED <<disk, buildFile>> /\ UNCHANGED published /\ UNCHANGED agenda
  BY DEF Ask, serverVars, docVars, indexVars, syncVars, buildVars
<1>2. PICK roots \in SUBSET Roots :
        worker' = [r \in Roots |-> IF r \in roots THEN Interrupted(worker[r]) ELSE worker[r]]
  <2>1. CASE MovesGeneration(Todo)
    <3>1. worker' = [worker EXCEPT ![Todo.root] = Interrupted(@)]
      BY <2>1 DEF Ask
    <3>2. worker' = [r \in Roots |-> IF r \in {Todo.root} \cap Roots THEN Interrupted(worker[r])
                                                                  ELSE worker[r]]
      BY <3>1 DEF ThreadsInv
    <3> QED BY <3>2
  <2>2. CASE ~MovesGeneration(Todo)
    <3>1. worker' = worker
      BY <2>2 DEF Ask
    <3>2. worker' = [r \in Roots |-> IF r \in {} THEN Interrupted(worker[r]) ELSE worker[r]]
      BY <3>1 DEF ThreadsInv
    <3> WITNESS {} \in SUBSET Roots
    <3> QED BY <3>2
  <2> QED BY <2>1, <2>2
<1>3. ThreadsInv' /\ \A r \in Roots : SameModel(r)
  BY <1>1, <1>2, Interruption
<1>4. ServerTypes'
  BY <1>1 DEF ServerTypes
<1>5. AgendaInv' /\ \A q \in Roots : Served(q) => Served(q)'
  BY <1>1, AgendaRests
<1>6. DocsInv'
  BY <1>1, DocsRest
<1>7. HeldInv'
  BY <1>1, HeldRests DEF HeldInv
<1>8. ModelsInv'
  BY <1>1, <1>3, <1>5, ModelsRest
<1>9. SyncInv'
  BY <1>1, <1>3, <1>5, SyncRests DEF buildVars, SameModel
<1> QED BY <1>3, <1>4, <1>5, <1>6, <1>7, <1>8, <1>9

LEMMA EditKeeps ==
  ASSUME Inv, (\E r \in Roots : EditBuildFile(r)) \/ (\E u \in Uris : EditSource(u))
  PROVE  Inv'
<1> USE DEF Inv
<1>1. /\ UNCHANGED <<docs, held>> /\ UNCHANGED <<index, analyses, failed, seen>>
      /\ UNCHANGED <<sync, pending, kept>> /\ UNCHANGED cut
      /\ UNCHANGED <<worker, published>> /\ UNCHANGED agenda
  BY DEF EditBuildFile, EditSource, serverVars, docVars, indexVars, syncVars, buildVars
<1>2. /\ buildFile' \in [Roots -> Models \cup {Broken}] /\ disk' \in [Uris -> Texts]
      /\ unnotified \subseteq unnotified' /\ unnotified' \subseteq Roots
      /\ \A r \in Roots : buildFile'[r] = buildFile[r] \/ r \in unnotified'
  <2>1. ASSUME NEW r \in Roots, EditBuildFile(r)
        PROVE  <1>2
    BY <2>1 DEF EditBuildFile, ThreadsInv, ServerTypes
  <2>2. ASSUME NEW u \in Uris, EditSource(u)
        PROVE  <1>2
    BY <2>2 DEF EditSource, ThreadsInv, ServerTypes, serverVars, syncVars, buildVars
  <2> QED BY <2>1, <2>2
<1>3. ThreadsInv'
  BY <1>1, <1>2 DEF ThreadsInv
<1>4. ServerTypes'
  BY <1>1, <1>2 DEF ServerTypes
<1>5. AgendaInv' /\ \A q \in Roots : Served(q) => Served(q)'
  BY <1>1, AgendaRests
<1>6. DocsInv'
  BY <1>1, DocsRest
<1>7. HeldInv'
  BY <1>1, HeldRests DEF HeldInv
<1>8. ModelsInv'
  BY <1>1, <1>5, ModelsRest DEF SameModel
<1>9. SyncInv'
  <2>1. \A r \in Roots : Dirty(r)' => Dirty(r) \/ r \in unnotified'
    BY <1>1, <1>2 DEF Dirty, HasRoot
  <2>2. /\ \A op : Pending(op)' = Pending(op)
        /\ Reloadable' = Reloadable /\ Waiting("reload")' = Waiting("reload")
    BY <1>1 DEF Pending, Reloadable, Waiting
  <2> QED BY <1>1, <1>2, <2>1, <2>2 DEF SyncInv
<1> QED BY <1>3, <1>4, <1>5, <1>6, <1>7, <1>8, <1>9

\* Requests to several roots.
LEMMA Asking ==
  ASSUME AgendaInv, agenda # <<>>, Todo.op \in Fanned
  PROVE  /\ Todo.root \in Roots
         /\ Todo.op # "reload" => \A x \in Entries(agenda) : x.op \notin Building
         /\ \A x \in Entries(agenda) : x.op \notin {"analyze", "sources", "watched"}
<1>1. /\ Todo \in Item /\ Entries(agenda) = {Todo} \cup Rest
      /\ \A y \in Rest : MayPrecede(Todo, y)
  BY First
<1>2. Todo.root \in Roots
  BY <1>1 DEF Item, Fanned, Enders
<1>3. \A y \in Rest : y.op \notin {"analyze", "sources", "watched"}
  BY <1>1 DEF MayPrecede, Fanned, Singles
<1>4. Todo.op # "reload" => \A y \in Rest : y.op \notin {"reload", "synced"}
  BY <1>1 DEF MayPrecede
<1> QED BY <1>1, <1>2, <1>3, <1>4 DEF Fanned, Building

LEMMA NotSyncing ==
  ASSUME AgendaInv, SyncInv, agenda = <<>> \/ Todo.op \notin {"reload", "synced"}
  PROVE  sync # "syncing"
<1> SUFFICES Pending("synced") = {}
  BY DEF SyncInv
<1>1. CASE agenda = <<>>
  BY <1>1, Nothing DEF Pending
<1>2. CASE agenda # <<>>
  <2>1. Entries(agenda) = {Todo} \cup Rest /\ \A y \in Rest : MayPrecede(Todo, y)
    BY <1>2, First
  <2>2. \A y \in Rest : y.op # "synced"
    BY <1>2, <2>1 DEF MayPrecede
  <2> QED BY <1>2, <2>1, <2>2 DEF Pending
<1> QED BY <1>1, <1>2

\* A root has done as asked, and the next is asked.
LEMMA PassedOn ==
  ASSUME Inv, agenda # <<>>, Todo.op \in {"configure", "reconfigure", "rebuild"}, Done,
         Works(Todo.root), Announces(Todo.root), UNCHANGED <<docVars, indexVars, buildVars, cut>>,
         SameModel(Todo.root) \/ (NewModel(Todo.root) /\ Todo.op \in Movers)
  PROVE  Inv'
<1> USE DEF Inv
<1>0. PICK r \in Roots : r = Todo.root
  BY Asking DEF Fanned
<1>1. /\ UNCHANGED <<docs, held>> /\ UNCHANGED <<index, analyses, failed, seen>>
      /\ UNCHANGED <<sync, pending, kept, unnotified>> /\ UNCHANGED cut
  BY DEF docVars, indexVars, buildVars
<1>2. \A x \in Entries(agenda) : x.op \notin Building \cup {"analyze", "sources"}
  BY Asking DEF Fanned
<1>3. sync # "syncing"
  BY NotSyncing
<1>4. /\ Entries(agenda) = {Todo} \cup Rest /\ \A y \in Rest : MayPrecede(Todo, y)
      /\ \E y \in Rest : y.op \in Enders
  BY First DEF Fanned
<1>5. AgendaInv' /\ Entries(agenda') = Rest
  BY AfterDone
<1>6. \A q \in Roots : Served(q) => Served(q)'
  BY <1>1, DoneKeeps DEF Enders
<1>7. ThreadsInv' /\ (\A q \in Roots \ {r} : SameModel(q)) /\ UNCHANGED buildFile
  BY <1>0 DEF Works, SameModel
<1>8. ServerTypes'
  BY <1>1 DEF ServerTypes
<1>9. DocsInv'
  BY <1>1, <1>2, <1>4, <1>5, DocsRest
<1>10. HeldInv'
  BY <1>0, <1>1, <1>2, HeldAnnounced
<1>11. ModelsInv'
  <2>1. ASSUME NewModel(r), Todo.op \in Movers
        PROVE  worker'[r].model # None /\ Served(r)'
    <3>1. worker'[r].model # None
      BY <2>1, Constants DEF NewModel
    <3>2. \A y \in Rest : y.op \in Movers => y.root # r
      BY <1>0, <1>4, <2>1 DEF MayPrecede
    <3> QED BY <1>1, <1>3, <1>4, <1>5, <3>1, <3>2 DEF Served
  <2> QED BY <1>0, <1>1, <1>6, <1>7, <2>1, ModelsRest
<1>12. SyncInv'
  <2>1. \A x : x.op \in Building => (x \in Entries(agenda') <=> x \in Entries(agenda))
    BY <1>2, <1>4, <1>5
  <2>2. \A q \in Roots : worker'[q].model = worker[q].model \/ worker'[q].model = buildFile[q]
    BY <1>0, <1>7 DEF SameModel, NewModel
  <2> QED BY <1>1, <1>3, <1>5, <1>7, <2>1, <2>2, SyncRests DEF buildVars
<1> QED BY <1>5, <1>7, <1>8, <1>9, <1>10, <1>11, <1>12

\* A root has not done as asked, and the others are not asked.
LEMMA StoppedAt ==
  ASSUME Inv, agenda # <<>>, Todo.op \in {"reconfigure", "rebuild"}, CutShort(Roots),
         Works(Todo.root), UNCHANGED published, UNCHANGED <<docVars, indexVars, buildVars>>,
         SameModel(Todo.root) \/ (NewModel(Todo.root) /\ worker'[Todo.root].replaced)
  PROVE  Inv'
<1> DEFINE r == Todo.root
<1> USE DEF Inv
<1>1. /\ UNCHANGED <<docs, held>> /\ UNCHANGED <<index, analyses, failed, seen>>
      /\ UNCHANGED <<sync, pending, kept, unnotified>>
  BY DEF docVars, indexVars, buildVars
<1>2. /\ r \in Roots
      /\ \A x \in Entries(agenda) : x.op \notin Building \cup {"analyze", "sources"}
  BY Asking DEF Fanned
<1>3. sync # "syncing"
  BY NotSyncing
<1>4. AgendaInv' /\ Entries(agenda') = {}
  BY AfterAbandon DEF CutShort
<1>5. ThreadsInv' /\ (\A q \in Roots \ {r} : SameModel(q)) /\ UNCHANGED buildFile
  BY DEF Works, SameModel
<1>6. ServerTypes'
  BY <1>1 DEF ServerTypes
<1>7. DocsInv'
  BY <1>1, <1>2, <1>4, DocsRest
<1>8. HeldInv'
  BY <1>1, <1>4, HeldRests
<1>9. ModelsInv'
  <2>1. cut \subseteq cut'
    BY DEF CutShort
  <2>2. ASSUME NEW q \in Roots, Served(q)
        PROVE  q \in cut'
    <3>1. \A x \in Entries(agenda) : x.op = Todo.op => x.root # q
      BY <2>2 DEF Served, Movers
    <3>2. q \notin Waiting(Todo.op)
      BY <3>1, Waits DEF Waiting, AgendaInv, Fanned
    <3> QED BY <3>2 DEF CutShort
  <2>3. NewModel(r) => worker'[r].model # None
    BY Constants DEF NewModel
  <2> QED BY <1>1, <1>2, <1>5, <2>1, <2>2, <2>3, ModelsRest
<1>10. SyncInv'
  <2>1. \A x : x.op \in Building => (x \in Entries(agenda') <=> x \in Entries(agenda))
    BY <1>2, <1>4
  <2>2. \A q \in Roots : worker'[q].model = worker[q].model \/ worker'[q].model = buildFile[q]
    BY <1>2, <1>5 DEF SameModel, NewModel
  <2> QED BY <1>1, <1>3, <1>4, <1>5, <2>1, <2>2, SyncRests DEF buildVars
<1> QED BY <1>4, <1>5, <1>6, <1>7, <1>8, <1>9, <1>10

LEMMA ConfiguredKeeps ==
  ASSUME Inv, Configured \/ Rebuilt
  PROVE  Inv'
<1> DEFINE r == Todo.root
<1>1. agenda # <<>> /\ Todo.op \in {"configure", "reconfigure", "rebuild"} /\ Free(r)
      /\ UNCHANGED <<docVars, indexVars, buildVars>>
  BY DEF Configured, Rebuilt, Reply, At
<1>2. r \in Roots /\ ThreadsInv
  BY <1>1, Asking DEF Inv, Fanned
<1>3. CASE /\ Todo.op = "configure" /\ SameConfiguration(r)
           /\ Done /\ UNCHANGED cut
  <2>1. Works(r) /\ Announces(r) /\ SameModel(r)
    BY <1>1, <1>2, <1>3, AnnouncingWorks
  <2> QED BY <1>1, <1>3, <2>1, PassedOn
<1>4. CASE /\ Todo.op \in {"reconfigure", "rebuild"} /\ (NewConfiguration(r) \/ Rebuild(r))
           /\ Done /\ UNCHANGED cut
  <2>1. Works(r) /\ Announces(r) /\ NewModel(r)
    BY <1>1, <1>2, <1>4, LoadingWorks
  <2> QED BY <1>1, <1>4, <2>1, PassedOn DEF Movers
<1>5. CASE Todo.op = "reconfigure" /\ Refused(r) /\ CutShort(Roots)
  <2>1. Works(r) /\ UNCHANGED published /\ SameModel(r)
    BY <1>1, <1>2, <1>5, QuietWorks
  <2> QED BY <1>1, <1>5, <2>1, StoppedAt
<1>6. CASE Todo.op = "rebuild" /\ RebuildFails(r) /\ CutShort(Roots)
  <2>1. Works(r) /\ UNCHANGED published
        /\ (SameModel(r) \/ (NewModel(r) /\ worker'[r].replaced))
    BY <1>1, <1>2, <1>6, FailingWorks
  <2> QED BY <1>1, <1>6, <2>1, StoppedAt
<1> QED BY <1>3, <1>4, <1>5, <1>6 DEF Configured, Rebuilt, Reply, At

\* A thread has answered, with nothing new for the dispatcher, which goes on
\* with the rest of its agenda or drops it.
LEMMA QuietKeeps ==
  ASSUME Inv, agenda # <<>>, UNCHANGED serverVars, UNCHANGED published, UNCHANGED buildFile,
         ThreadsInv', \A r \in Roots : SameModel(r), AgendaInv',
         Todo.op \notin {"analyze"} \cup Building \cup Publishers \cup Enders,
         \/ Entries(agenda') = Rest
         \/ /\ Entries(agenda') = {} /\ \A x \in Rest : x.op \notin {"analyze"} \cup Building
            /\ \A r \in Roots : ~Served(r)
  PROVE  Inv'
<1> USE DEF Inv
<1>1. /\ UNCHANGED <<docs, held>> /\ UNCHANGED <<index, analyses, failed, seen>>
      /\ UNCHANGED <<sync, pending, kept, unnotified>> /\ UNCHANGED cut
  BY DEF serverVars, docVars, indexVars, syncVars, buildVars
<1>2. Entries(agenda) = {Todo} \cup Rest
  BY First
<1>3. ServerTypes'
  BY <1>1 DEF ServerTypes
<1>4. DocsInv'
  BY <1>1, <1>2, DocsRest
<1>5. HeldInv'
  BY <1>1, <1>2, HeldRests DEF HeldInv
<1>6. ModelsInv'
  <2>1. ASSUME NEW r \in Roots, Served(r)
        PROVE  Served(r)'
    <3>1. Entries(agenda') = Rest /\ Reloadable' = Reloadable
      BY <1>1, <2>1 DEF Reloadable
    <3> QED BY <1>1, <1>2, <2>1, <3>1 DEF Served
  <2> QED BY <1>1, <2>1, ModelsRest
<1>7. SyncInv'
  BY <1>1, <1>2, SyncRests DEF buildVars, SameModel
<1> QED BY <1>3, <1>4, <1>5, <1>6, <1>7

LEMMA ClearedKeeps ==
  ASSUME Inv, Cleared
  PROVE  Inv'
<1> USE DEF Inv
<1>1. /\ agenda # <<>> /\ Todo.op = "clear" /\ Free(Todo.root) /\ UNCHANGED serverVars
      /\ ClearCache(Todo.root) \/ (ClearCacheFails(Todo.root) /\ (Done \/ Abandon))
  BY DEF Cleared, Reply, At
<1>2. PICK r \in Roots : r = Todo.root
  BY <1>1, Asking DEF Fanned
<1>3. Works(r) /\ UNCHANGED published /\ SameModel(r)
  BY <1>1, <1>2, QuietWorks
<1>4. ThreadsInv' /\ UNCHANGED buildFile /\ \A q \in Roots : SameModel(q)
  BY <1>3 DEF Works, SameModel
<1>5. Todo.op \notin {"analyze"} \cup Building \cup Publishers \cup Enders
  BY <1>1 DEF Building, Publishers, Enders
<1>6. CASE Done
  BY <1>1, <1>3, <1>4, <1>5, <1>6, AfterDone, QuietKeeps
<1>7. CASE Abandon
  <2>1. AgendaInv' /\ Entries(agenda') = {}
    BY <1>7, AfterAbandon
  <2>2. Entries(agenda) = {Todo} \cup Rest
    BY <1>1, First
  <2>3. \A x \in Rest : x.op \notin {"analyze"} \cup Building
    BY <1>1, <2>2, Asking DEF Fanned
  <2>4. \A q \in Roots : \E x \in Entries(agenda) : x.op = "rebuild" /\ x.root = q
    BY <1>1, <2>2, Agended
  <2>5. \A q \in Roots : ~Served(q)
    BY <2>4 DEF Served, Movers
  <2> QED BY <1>1, <1>3, <1>4, <1>5, <2>1, <2>3, <2>5, QuietKeeps
<1> QED BY <1>6, <1>7 DEF Cleared

LEMMA SavedKeeps ==
  ASSUME Inv, Saved
  PROVE  Inv'
<1> USE DEF Inv
<1>1. agenda # <<>> /\ Todo.op = "saved" /\ Free(Todo.root) /\ UNCHANGED serverVars
  BY DEF Saved, Reply, At
<1>2. Todo \in Item /\ Entries(agenda) = {Todo} /\ Rest = {} /\ Tail(agenda) = <<>>
  BY <1>1, First DEF Singles
<1>3. PICK r \in Roots : r = Todo.root
  BY <1>1, <1>2 DEF Item, Fanned, Enders
<1>4. CASE (SourceIgnored(r) /\ Done) \/ (SourceSavedFails(r) /\ Abandon)
  <2>1. Works(r) /\ UNCHANGED published /\ SameModel(r)
    BY <1>1, <1>3, <1>4, QuietWorks
  <2>2. ThreadsInv' /\ UNCHANGED buildFile /\ \A q \in Roots : SameModel(q)
    BY <2>1 DEF Works, SameModel
  <2>3. Todo.op \notin {"analyze"} \cup Building \cup Publishers \cup Enders
    BY <1>1 DEF Building, Publishers, Enders
  <2>4. AgendaInv' /\ Entries(agenda') = Rest
    BY <1>1, <1>2, <1>4, AfterDone, AfterAbandon
  <2> QED BY <1>1, <2>1, <2>2, <2>3, <2>4, QuietKeeps
<1>5. CASE SourceSaved(r) /\ Then(<<Request("reindex", None)>>)
  <2> DEFINE x == Request("reindex", None)
  <2>1. x \in Item /\ x.op = "reindex" /\ x.root = None
    BY DEF Request, Message, Item, Enders
  <2>2. Ordered(<<x>>) /\ Ended(<<x>>) /\ Entries(<<x>>) = {x}
    BY <2>1, Alone DEF Fanned
  <2>3. AgendaInv' /\ Entries(agenda') = {x}
    BY <1>1, <1>5, <2>1, <2>2, AfterLast DEF Singles
  <2> HIDE DEF x
  <2>4. Works(r) /\ Announces(r) /\ SameModel(r)
    BY <1>1, <1>3, <1>5, AnnouncingWorks
  <2>5. ThreadsInv' /\ UNCHANGED buildFile /\ \A q \in Roots : SameModel(q)
    BY <2>4 DEF Works, SameModel
  <2>6. /\ UNCHANGED <<docs, held>> /\ UNCHANGED <<index, analyses, failed, seen>>
        /\ UNCHANGED <<sync, pending, kept, unnotified>> /\ UNCHANGED cut
    BY <1>1 DEF serverVars, docVars, indexVars, syncVars, buildVars
  <2>7. ServerTypes'
    BY <2>6 DEF ServerTypes
  <2>8. DocsInv'
    BY <1>1, <1>2, <2>1, <2>3, <2>6, DocsRest DEF Messaging
  <2>9. HeldInv'
    BY <2>4, <2>6, HeldAnnounced
  <2>10. ModelsInv'
    <3>1. \A q \in Roots : ~Served(q)
      BY <1>1, <1>2 DEF Served, Enders
    <3> QED BY <2>5, <2>6, <3>1, ModelsRest
  <2>11. SyncInv'
    BY <1>1, <1>2, <2>1, <2>3, <2>5, <2>6, SyncRests DEF buildVars, SameModel, Building
  <2> QED BY <2>3, <2>5, <2>7, <2>8, <2>9, <2>10, <2>11
<1> QED BY <1>3, <1>4, <1>5 DEF Saved

LEMMA CancelKeeps ==
  ASSUME Inv, CancelRequest
  PROVE  Inv'
<1> USE DEF Inv
<1>1. /\ agenda # <<>> /\ Todo.op = "cancel" /\ Done /\ UNCHANGED serverVars
      /\ UNCHANGED <<disk, buildFile>> /\ UNCHANGED published
      /\ worker' = [r \in Roots |-> Interrupted(worker[r])]
  BY DEF CancelRequest, Own, At
<1>2. worker' = [r \in Roots |-> IF r \in Roots THEN Interrupted(worker[r]) ELSE worker[r]]
  BY <1>1
<1>3. ThreadsInv' /\ \A r \in Roots : SameModel(r)
  BY <1>1, <1>2, Interruption
<1>4. AgendaInv' /\ Entries(agenda') = Rest
  BY <1>1, AfterDone
<1>5. Todo.op \notin {"analyze"} \cup Building \cup Publishers \cup Enders
  BY <1>1 DEF Building, Publishers, Enders
<1> QED BY <1>1, <1>3, <1>4, <1>5, QuietKeeps

\* The roots that wait, in this state and in the next.
LEMMA WaitingRoots ==
  ASSUME NEW op \in Fanned
  PROVE  /\ AgendaInv => Waiting(op) = {r \in Roots : \E x \in Entries(agenda) : x.op = op /\ x.root = r}
         /\ AgendaInv' => Waiting(op)' = {r \in Roots : \E x \in Entries(agenda') : x.op = op /\ x.root = r}
BY Waits DEF Waiting, AgendaInv

LEMMA SyncRootKeeps ==
  ASSUME Inv, SyncRoot
  PROVE  Inv'
<1> USE DEF Inv
<1>1. agenda # <<>> /\ Todo.op = "reload" /\ Free(Todo.root)
      /\ UNCHANGED <<docVars, indexVars, pending, kept, unnotified>>
  BY DEF SyncRoot, Reply, At
<1>2. /\ UNCHANGED <<docs, held>> /\ UNCHANGED <<index, analyses, failed, seen>>
      /\ UNCHANGED <<pending, kept, unnotified>> /\ Reloadable' = Reloadable
  BY <1>1 DEF docVars, indexVars, Reloadable
<1>3. PICK r \in Roots : r = Todo.root
  BY <1>1, Asking DEF Fanned
<1>4. /\ Entries(agenda) = {Todo} \cup Rest /\ \A y \in Rest : MayPrecede(Todo, y)
      /\ \E y \in Rest : y.op \in Enders
  BY <1>1, First DEF Fanned
<1>5. \A x \in Entries(agenda) : x.op \notin {"analyze", "sources", "watched"}
  BY <1>1, Asking DEF Fanned
<1>6. sync = "syncing" /\ Waiting("reload") \subseteq Reloadable /\ Pending("synced") # {}
  BY <1>1, <1>4 DEF SyncInv, Pending
<1>7. Waiting("reload") = {q \in Roots : \E x \in Entries(agenda) : x.op = "reload" /\ x.root = q}
      /\ (AgendaInv' => Waiting("reload")' = {q \in Roots : \E x \in Entries(agenda') :
                                                             x.op = "reload" /\ x.root = q})
  BY WaitingRoots DEF Fanned
<1>8. ServerTypes'
  BY <1>2 DEF ServerTypes
<1>9. CASE Reload(r) /\ Done /\ UNCHANGED <<sync, cut>>
  <2>1. Works(r) /\ Announces(r) /\ NewModel(r)
    BY <1>1, <1>3, <1>9, LoadingWorks
  <2>2. ThreadsInv' /\ (\A q \in Roots \ {r} : worker'[q] = worker[q]) /\ UNCHANGED buildFile
        /\ worker'[r].model # None /\ worker'[r].model = buildFile[r]
    BY <2>1, Constants DEF Works, NewModel
  <2>3. AgendaInv' /\ Entries(agenda') = Rest
    BY <1>1, <1>9, AfterDone
  <2>4. \A q \in Roots : Served(q) => Served(q)'
    BY <1>1, <1>2, <1>9, DoneKeeps DEF Enders
  <2>5. \A y \in Rest : y.op = "reload" => y.root # r
    BY <1>1, <1>3, <1>4 DEF MayPrecede, Movers
  <2>6. r \in Reloadable
    BY <1>1, <1>3, <1>4, <1>6, <1>7
  <2>7. DocsInv'
    BY <1>2, <1>4, <1>5, <2>3, DocsRest
  <2>8. HeldInv'
    BY <1>2, <2>1, HeldAnnounced
  <2>9. ModelsInv'
    <3>1. Served(r)'
      <4>1. \A y \in Rest : y.op \in Movers => y.root # r
        BY <1>1, <1>3, <1>4 DEF MayPrecede, Movers
      <4> QED BY <1>2, <1>4, <2>3, <2>6, <4>1 DEF Served
    <3>2. \A q \in Roots \ {r} : SameModel(q)
      BY <2>2 DEF SameModel
    <3> QED BY <1>2, <1>9, <2>2, <2>4, <3>1, <3>2, ModelsRest
  <2>10. SyncInv'
    <3>1. \A q \in Roots : Dirty(q)' => Dirty(q) /\ q # r
      BY <2>2 DEF Dirty, HasRoot
    <3>2. Waiting("reload")' = Waiting("reload") \ {r}
      <4>1. Waiting("reload")' = {q \in Roots : \E x \in Rest : x.op = "reload" /\ x.root = q}
        BY <1>7, <2>3
      <4> QED BY <1>1, <1>3, <1>4, <1>7, <2>5, <4>1
    <3>3. Pending("synced")' = Pending("synced") /\ Pending("watched")' = {} /\ Pending("watched") = {}
      BY <1>1, <1>4, <1>5, <2>3 DEF Pending
    <3>4. \A q \in Roots \ (Reloadable \ Waiting("reload")') :
            /\ q # r /\ q \in Roots \ (Reloadable \ Waiting("reload"))
            /\ worker'[q].model = worker[q].model
      BY <2>2, <2>6, <3>2
    <3>5. \A q \in Roots \ (Reloadable \ Waiting("reload")) : kept[q] \in {None, worker[q].model}
      BY <1>6 DEF SyncInv
    <3>6. \A q \in Roots : Dirty(q) => (q \in unnotified \/ q \in Waiting("reload"))
                                       /\ (q \in unnotified \/ (q \in pending /\ sync # "ready"))
      BY <1>6, <3>3 DEF SyncInv
    <3> QED BY <1>2, <1>6, <1>9, <3>1, <3>2, <3>3, <3>4, <3>5, <3>6 DEF SyncInv
  <2> QED BY <1>8, <2>2, <2>3, <2>7, <2>8, <2>9, <2>10
<1>10. CASE Refused(r) /\ CutShort(Reloadable) /\ sync' = "failed"
  <2>1. Works(r) /\ UNCHANGED published /\ SameModel(r)
    BY <1>1, <1>3, <1>10, QuietWorks
  <2>2. ThreadsInv' /\ UNCHANGED buildFile /\ \A q \in Roots : SameModel(q)
    BY <2>1 DEF Works, SameModel
  <2>3. AgendaInv' /\ Entries(agenda') = {}
    BY <1>10, AfterAbandon DEF CutShort
  <2>4. DocsInv'
    BY <1>2, <1>5, <2>3, DocsRest
  <2>5. HeldInv'
    BY <1>2, <2>1, <2>3, HeldRests
  <2>6. ModelsInv'
    <3>1. cut \subseteq cut'
      BY <1>10 DEF CutShort
    <3>2. ASSUME NEW q \in Roots, Served(q)
          PROVE  q \in cut'
      <4>1. q \in Reloadable \ Waiting("reload")
        BY <1>6, <1>7, <3>2 DEF Served, Movers
      <4> QED BY <1>1, <1>10, <4>1 DEF CutShort
    <3> QED BY <1>2, <2>2, <3>1, <3>2, ModelsRest
  <2>7. SyncInv'
    <3>1. \A q \in Roots : Dirty(q)' => Dirty(q)
      BY <2>2 DEF Dirty, HasRoot, SameModel
    <3>2. \A op : Pending(op)' = {}
      BY <2>3 DEF Pending
    <3>3. Pending("watched") = {}
      BY <1>5 DEF Pending
    <3> QED BY <1>2, <1>10, <3>1, <3>2, <3>3 DEF SyncInv
  <2> QED BY <1>8, <2>2, <2>3, <2>4, <2>5, <2>6, <2>7
<1> QED BY <1>3, <1>9, <1>10 DEF SyncRoot

\* A message that leads to requests only.
LEMMA LeadsOn ==
  ASSUME Inv, agenda # <<>>, Todo.op \in {"sync", "watched", "synced"}, Entries(agenda) = {Todo},
         UNCHANGED <<workerVars, docVars, indexVars, cut>>,
         \A x \in Entries(agenda') : x.op \notin {"analyze", "sources"} \cup Messaging,
         \A x \in Entries(agenda') : x.op \in Enders /\ Uris # {} =>
           seen # Revisions \/ \E y \in Entries(agenda') : y.op \in Publishers,
         Todo.op = "synced" => sync' # "syncing"
                               /\ \E x \in Entries(agenda') : x.op \in Enders
                               /\ \A y \in Entries(agenda') : y.op \notin Movers
  PROVE  ThreadsInv' /\ DocsInv' /\ HeldInv' /\ ModelsInv'
<1> USE DEF Inv
<1>1. /\ UNCHANGED <<docs, held>> /\ UNCHANGED <<index, analyses, failed, seen>> /\ UNCHANGED cut
      /\ UNCHANGED <<disk, buildFile, worker>> /\ UNCHANGED published
  BY DEF workerVars, docVars, indexVars
<1>2. ThreadsInv'
  BY <1>1 DEF ThreadsInv
<1>3. DocsInv'
  BY <1>1, DocsRest
<1>4. HeldInv'
  BY <1>1, HeldRests
<1>5. ModelsInv'
  <2>1. ASSUME NEW r \in Roots, Served(r)
        PROVE  Served(r)'
    <3>1. Todo.op = "synced"
      BY <2>1 DEF Served, Enders
    <3> QED BY <3>1 DEF Served
  <2> QED BY <1>1, <2>1, ModelsRest DEF SameModel
<1> QED BY <1>2, <1>3, <1>4, <1>5

LEMMA WatchedKeeps ==
  ASSUME Inv, WatchedFiles
  PROVE  Inv'
<1> USE DEF Inv
<1>1. /\ agenda # <<>> /\ Todo.op = "watched" /\ pending' = pending \cup {Todo.root}
      /\ sync' = "required" /\ UNCHANGED <<workerVars, docVars, indexVars, kept, unnotified, cut>>
  BY DEF WatchedFiles, Own, At
<1>2. Todo \in Item /\ Entries(agenda) = {Todo} /\ Rest = {}
  BY <1>1, First DEF Singles
<1>3. Todo.root \in Roots
  BY <1>1, <1>2 DEF Item, Fanned, Enders
<1>4. AgendaInv' /\ \A x \in Entries(agenda') : x.op = "sync"
  <2>1. CASE Done
    BY <1>1, <1>2, <2>1, AfterDone
  <2>2. CASE Then(<<Request("sync", None)>>)
    <3> DEFINE x == Request("sync", None)
    <3>1. x \in Item /\ x.op = "sync"
      BY DEF Request, Message, Item
    <3>2. Ordered(<<x>>) /\ Ended(<<x>>) /\ Entries(<<x>>) = {x}
      BY <3>1, Alone DEF Fanned
    <3>3. AgendaInv' /\ Entries(agenda') = {x}
      BY <1>1, <2>2, <3>1, <3>2, AfterLast DEF Singles
    <3> QED BY <3>1, <3>3
  <2> QED BY <2>1, <2>2 DEF WatchedFiles
<1>5. ThreadsInv' /\ DocsInv' /\ HeldInv' /\ ModelsInv'
  BY <1>1, <1>2, <1>4, LeadsOn DEF Messaging, Enders
<1>6. ServerTypes'
  BY <1>1, <1>3 DEF ServerTypes, docVars, indexVars
<1>7. SyncInv'
  <2>1. \A r \in Roots : Dirty(r)' => Dirty(r)
    BY <1>1 DEF Dirty, HasRoot, workerVars
  <2>2. Pending("reload")' = {} /\ Pending("synced")' = {}
    BY <1>4 DEF Pending
  <2>3. \A r \in Roots : Dirty(r) => r \in unnotified \/ r \in pending'
    BY <1>1, <1>2 DEF SyncInv, Pending
  <2>4. unnotified' = unnotified
    BY <1>1
  <2> QED BY <1>1, <2>1, <2>2, <2>3, <2>4 DEF SyncInv
<1> QED BY <1>4, <1>5, <1>6, <1>7

LEMMA BeginSyncKeeps ==
  ASSUME Inv, BeginSync
  PROVE  Inv'
<1> USE DEF Inv
<1>1. /\ agenda # <<>> /\ Todo.op = "sync" /\ sync' = "syncing"
      /\ kept' = [r \in Roots |-> worker[r].model]
      /\ Then(ForRoots("reload", Reloadable) \o <<Request("synced", None)>>)
      /\ UNCHANGED <<workerVars, docVars, indexVars, pending, unnotified, cut>>
  BY DEF BeginSync, Own, At
<1>2. Entries(agenda) = {Todo}
  BY <1>1, First DEF Singles
<1> DEFINE b == ForRoots("reload", Reloadable) \o <<Request("synced", None)>>
<1>3. Reloadable \in SUBSET Roots /\ Reloadable' = Reloadable
  BY <1>1 DEF Reloadable, ServerTypes
<1>4. /\ Ordered(b) /\ Ended(b)
      /\ Entries(b) = {Request("reload", r) : r \in Reloadable} \cup {Request("synced", None)}
  BY <1>3, AllAsked DEF Fanned, Enders
<1>5. /\ \A r : Request("reload", r).op = "reload" /\ Request("reload", r).root = r
      /\ Request("synced", None).op = "synced"
  BY DEF Request, Message
<1>6. AgendaInv' /\ Entries(agenda') = Entries(b)
  <2>1. \A x \in Entries(b) : x.op # "clear"
    BY <1>4, <1>5
  <2> HIDE DEF b
  <2> QED BY <1>1, <1>4, <2>1, AfterLast DEF Singles, b
<1> HIDE DEF b
<1>7. /\ \A x \in Entries(agenda') : x.op \in {"reload", "synced"}
      /\ \E x \in Entries(agenda') : x.op = "synced"
      /\ \A r \in Roots : (\E x \in Entries(agenda') : x.op = "reload" /\ x.root = r) <=> r \in Reloadable
  BY <1>3, <1>4, <1>5, <1>6
<1>8. ThreadsInv' /\ DocsInv' /\ HeldInv' /\ ModelsInv'
  <2>1. Uris # {} => Reloadable # {}
    BY Constants DEF Reloadable
  <2>2. Uris # {} => \E y \in Entries(agenda') : y.op \in Publishers
    BY <1>3, <1>7, <2>1 DEF Publishers
  <2> QED BY <1>1, <1>2, <1>7, <2>2, LeadsOn DEF Messaging
<1>9. ServerTypes'
  BY <1>1 DEF ServerTypes, docVars, indexVars
<1>10. SyncInv'
  <2>1. \A r \in Roots : Dirty(r)' => Dirty(r)
    BY <1>1 DEF Dirty, HasRoot, workerVars
  <2>2. Waiting("reload")' = Reloadable
    <3>1. Waiting("reload")' = {r \in Roots : \E x \in Entries(agenda') : x.op = "reload" /\ x.root = r}
      BY <1>6, WaitingRoots DEF Fanned
    <3> QED BY ONLY <1>3, <1>7, <3>1
  <2>3. Pending("synced")' # {}
    BY <1>7 DEF Pending
  <2>4. \A r \in Roots : Dirty(r) => r \in unnotified \/ r \in pending
    BY <1>1, <1>2 DEF SyncInv, Pending
  <2>5. pending \subseteq Reloadable
    BY DEF Reloadable
  <2>6. \A r \in Roots : kept'[r] = worker'[r].model
    BY <1>1 DEF workerVars
  <2>7. unnotified' = unnotified /\ pending' = pending
    BY <1>1
  <2> QED BY <1>1, <1>3, <2>1, <2>2, <2>3, <2>4, <2>5, <2>6, <2>7 DEF SyncInv
<1> QED BY <1>6, <1>8, <1>9, <1>10

LEMMA SyncedKeeps ==
  ASSUME Inv, Synced
  PROVE  Inv'
<1> USE DEF Inv
<1> DEFINE x == Request("reindex", None)
<1>1. /\ agenda # <<>> /\ Todo.op = "synced" /\ sync' = "ready" /\ pending' = {} /\ Then(<<x>>)
      /\ UNCHANGED <<workerVars, docVars, indexVars, kept, unnotified, cut>>
  BY DEF Synced, Own, At
<1>2. Entries(agenda) = {Todo}
  BY <1>1, First DEF Enders
<1>3. x \in Item /\ x.op = "reindex"
  BY DEF Request, Message, Item, Enders
<1>4. AgendaInv' /\ Entries(agenda') = {x}
  <2>1. Ordered(<<x>>) /\ Ended(<<x>>) /\ Entries(<<x>>) = {x}
    BY <1>3, Alone DEF Fanned
  <2> QED BY <1>1, <1>3, <2>1, AfterLast DEF Enders
<1> HIDE DEF x
<1>5. ThreadsInv' /\ DocsInv' /\ HeldInv' /\ ModelsInv'
  <2>1. Uris # {} => seen # Revisions
    BY <1>1, <1>2 DEF HeldInv, Enders, Publishers
  <2> QED BY <1>1, <1>2, <1>3, <1>4, <2>1, LeadsOn DEF Messaging, Enders, Movers
<1>6. ServerTypes'
  BY <1>1 DEF ServerTypes, docVars, indexVars
<1>7. SyncInv'
  <2>1. \A r \in Roots : Dirty(r)' => Dirty(r)
    BY <1>1 DEF Dirty, HasRoot, workerVars
  <2>2. Pending("reload")' = {} /\ Pending("synced")' = {}
    BY <1>3, <1>4 DEF Pending
  <2>3. Waiting("reload") = {}
    BY <1>1, <1>2, WaitingRoots DEF Fanned
  <2>4. \A r \in Roots : Dirty(r) => r \in unnotified
    BY <1>1, <1>2, <2>3 DEF SyncInv, Pending
  <2>5. unnotified' = unnotified
    BY <1>1
  <2> QED BY <1>1, <2>1, <2>2, <2>4, <2>5 DEF SyncInv
<1> QED BY <1>4, <1>5, <1>6, <1>7

---------------------------------------------------------------------------
(* Analyses, documents and the index. *)

LEMMA AnalyzedKeeps ==
  ASSUME Inv, Analyzed \/ AnalysisFails
  PROVE  Inv'
<1> USE DEF Inv
<1>1. /\ agenda # <<>> /\ Todo.op = "analyze" /\ Free(Todo.root) /\ Done
      /\ UNCHANGED <<docVars, index, seen, syncVars>>
  BY DEF Analyzed, AnalysisFails, Reply, At
<1>2. /\ UNCHANGED <<docs, held>> /\ UNCHANGED <<index, seen>>
      /\ UNCHANGED <<sync, pending, kept, unnotified>> /\ UNCHANGED cut
  BY <1>1 DEF docVars, syncVars, buildVars
<1>3. /\ Todo \in Item /\ Entries(agenda) = {Todo} \cup Rest /\ \A y \in Rest : MayPrecede(Todo, y)
  BY <1>1, First
<1>4. PICK u \in Uris : u = Todo.uri
  BY <1>1, <1>3 DEF Item, Fanned, Enders
<1>5. PICK r \in Roots : r = Todo.root /\ r = RootOf[u]
  <2>1. Todo.root = RootOf[Todo.uri]
    BY <1>1, <1>3 DEF DocsInv, AnalysisOk
  <2> QED BY <1>4, <2>1, Constants
<1>6. PICK text, by : text = Todo.text /\ by = Todo.by /\ by \in {"editor", "close", "scan"}
  BY <1>1, <1>3 DEF Item, Fanned, Enders
<1>7. /\ by = "editor" => IsOpen(u) /\ text = docs[u].text
      /\ by = "close" => ~IsOpen(u) /\ text = index[u]
  BY <1>1, <1>3, <1>4, <1>6 DEF DocsInv, AnalysisOk
<1>8. Analyze(r) \/ AnalyzeFails(r)
  BY <1>5 DEF Analyzed, AnalysisFails
<1>9. Works(r) /\ UNCHANGED published /\ SameModel(r)
  BY <1>1, <1>5, <1>8, QuietWorks
<1>10. ThreadsInv' /\ UNCHANGED buildFile /\ \A q \in Roots : SameModel(q)
  BY <1>9 DEF Works, SameModel
<1>11. AgendaInv' /\ Entries(agenda') = Rest
  BY <1>1, AfterDone
<1>12. \A q \in Roots : Served(q) => Served(q)'
  BY <1>1, <1>2, DoneKeeps DEF Enders
<1>13. \/ /\ analyses' = analyses /\ failed' = failed \cup {u}
       \/ /\ CanAnalyze(r) /\ failed' = failed \ {u}
          /\ analyses' = [analyses EXCEPT ![u] = [text |-> text, level |-> "attributed",
                                                  model |-> SessionModel(r), by |-> by]]
  BY <1>4, <1>5, <1>6 DEF Analyzed, AnalysisFails, Analyze
<1>14. /\ analyses' = [v \in Uris |-> analyses'[v]]
       /\ \A v \in Uris \ {u} : analyses'[v] = analyses[v] /\ (v \in failed' <=> v \in failed)
       /\ \/ analyses' = analyses /\ u \in failed'
          \/ /\ CanAnalyze(r)
             /\ analyses'[u].text = text /\ analyses'[u].by = by
             /\ analyses'[u].model = SessionModel(r)
  BY <1>13 DEF ServerTypes
<1>15. ServerTypes'
  BY <1>2, <1>14 DEF ServerTypes
<1>16. DocsInv'
  <2>1. \A v \in Uris : SourceText(v)' = SourceText(v) /\ (IsOpen(v)' <=> IsOpen(v))
    BY <1>2 DEF SourceText, IsOpen
  <2>2. ASSUME NEW v \in Uris \ {u}
        PROVE  Match(v)' \/ Due(v)'
    <3>1. Match(v)' <=> Match(v)
      BY <1>14, <2>1, <2>2 DEF Match, Trusted
    <3>2. Due(v) => Due(v)'
      BY <1>3, <1>4, <1>11, <2>2 DEF Due, Pending
    <3> QED BY <3>1, <3>2 DEF DocsInv
  <2>3. Match(u)'
    BY <1>6, <1>7, <1>14, <2>1 DEF Match, Trusted, SourceText
  <2>4. ASSUME NEW x \in Entries(agenda')
        PROVE  AnalysisOk(x)' /\ DocumentOk(x)'
    <3>1. AnalysisOk(x) /\ DocumentOk(x)
      BY <1>3, <1>11, <2>4 DEF DocsInv
    <3>2. Pending("sources") = {} => Pending("sources")' = {}
      BY <1>3, <1>11 DEF Pending
    <3> QED BY <1>2, <3>1, <3>2 DEF AnalysisOk, DocumentOk, IsOpen
  <2> QED BY <2>2, <2>3, <2>4 DEF DocsInv
<1>17. HeldInv'
  <2>1. UNCHANGED Revisions
    BY <1>9 DEF Revisions
  <2>2. \A v \in Uris : (Holds(v)' <=> Holds(v)) /\ (HeldOk(v)' <=> HeldOk(v))
                        /\ (IsOpen(v)' <=> IsOpen(v)) /\ SourceText(v)' = SourceText(v)
    BY <1>2 DEF Holds, ResultId, HeldOk, IsOpen, SourceText
  <2>3. \A v \in Uris \ {u} : Items(v)' = Items(v)
    BY <1>14, <2>2 DEF Items
  <2>4. Holds(u) => seen # Revisions
    <3>1. Due(u)
      BY <1>1, <1>3, <1>4 DEF Due, Pending
    <3>2. Holds(u) => IsOpen(u)
      BY DEF Holds, HeldInv, HeldOk
    <3> QED BY <3>1, <3>2 DEF HeldInv, Unheld
  <2>5. \A v \in Uris : (Due(v)' \/ Pending("sources")' # {}) => (Due(v) \/ Pending("sources") # {})
    BY <1>3, <1>11 DEF Due, Pending
  <2>6. \A x \in Entries(agenda') : x.op \in Enders /\ Uris # {} =>
          seen # Revisions \/ \E y \in Entries(agenda') : y.op \in Publishers
    BY <1>1, <1>3, <1>11 DEF HeldInv, Publishers
  <2>7. \A v \in Uris : /\ HeldOk(v)'
                        /\ (Holds(v) /\ seen = Revisions => held[v].items = Items(v))'
    BY <1>2, <2>1, <2>2, <2>3, <2>4 DEF HeldInv
  <2>8. \A v \in Uris : (IsOpen(v) /\ (Due(v) \/ Pending("sources") # {}) => Unheld(v))'
    BY <1>2, <2>1, <2>2, <2>5 DEF HeldInv, Unheld
  <2>9. \A q \in Roots : seen'[q] <= published'[q].revision
    BY <1>2, <1>9 DEF HeldInv
  <2> QED BY <1>2, <2>1, <2>6, <2>7, <2>8, <2>9 DEF HeldInv
<1>18. ModelsInv'
  <2>1. ASSUME NEW v \in Uris \ {u}
        PROVE  /\ (analyses[v] # None /\ analyses[v].by # "index" => ModelOf(v) # None)'
               /\ (Edited(v) /\ ~worker[RootOf[v]].replaced /\ RootOf[v] \notin cut =>
                     analyses[v].model = ModelOf(v) \/ Served(RootOf[v]))'
    <3>1. RootOf[v] \in Roots /\ SameModel(RootOf[v])
      BY <1>10, <2>1, Constants
    <3> QED BY <1>2, <1>12, <1>14, <2>1, <3>1 DEF ModelsInv, ModelOf, Edited, SameModel
  <2>2. CASE analyses' = analyses
    <3>1. SameModel(r)
      BY <1>9
    <3> QED BY <1>2, <1>5, <1>12, <2>1, <2>2, <3>1 DEF ModelsInv, ModelOf, Edited, SameModel
  <2>3. CASE CanAnalyze(r) /\ analyses'[u].by = by /\ analyses'[u].model = SessionModel(r)
    <3>1. worker'[r].model = worker[r].model /\ worker'[r].replaced = worker[r].replaced
          /\ worker[r].model # None
      BY <1>9, <2>3 DEF SameModel, CanAnalyze, HasRoot
    <3>2. ~worker[r].replaced => SessionModel(r) = worker[r].model
      BY DEF SessionModel, ThreadsInv, WorkerOk
    <3> QED BY <1>5, <2>1, <2>3, <3>1, <3>2 DEF ModelsInv, ModelOf, Edited
  <2> QED BY <1>14, <2>2, <2>3
<1>19. SyncInv'
  <2>1. \A x : x.op \in Building => (x \in Entries(agenda') <=> x \in Entries(agenda))
    BY <1>1, <1>3, <1>11 DEF Building
  <2> QED BY <1>2, <1>10, <1>11, <2>1, SyncRests DEF buildVars, SameModel
<1> QED BY <1>10, <1>11, <1>15, <1>16, <1>17, <1>18, <1>19

\* Of a document that is opened, changed or closed, at most an analysis is due.
LEMMA DocumentKeeps ==
  ASSUME Inv, agenda # <<>>, Entries(agenda) = {Todo}, Todo.op \in Messaging, NEW u \in Uris,
         UNCHANGED <<workerVars, index, failed, seen, syncVars>>, AgendaInv',
         NEW x, x.op = "analyze", x.uri = u, x.root = RootOf[u],
         docs' \in [Uris -> [version : Nat, text : Texts] \cup {None}],
         \A v \in Uris \ {u} : docs'[v] = docs[v] /\ held'[v] = held[v],
         held' = [v \in Uris |-> held'[v]],
         \/ held'[u] = None
         \/ /\ held'[u] = held[u] /\ docs[u] # None /\ docs'[u] # None
            /\ docs'[u].version = docs[u].version + 1,
         \/ /\ analyses' = analyses /\ Entries(agenda') = {x}
            /\ \/ x.by = "editor" /\ docs'[u] # None /\ x.text = docs'[u].text
               \/ x.by = "close" /\ docs'[u] = None /\ x.text = index[u]
         \/ analyses' = [analyses EXCEPT ![u] = None] /\ Entries(agenda') = {}
  PROVE  Inv'
<1> USE DEF Inv
<1>1. /\ UNCHANGED <<index, failed, seen>> /\ UNCHANGED <<sync, pending, kept, unnotified>>
      /\ UNCHANGED cut /\ UNCHANGED <<disk, buildFile, worker>> /\ UNCHANGED published
  BY DEF workerVars, syncVars, buildVars
<1>2. /\ analyses' = [v \in Uris |-> analyses'[v]]
      /\ \A v \in Uris \ {u} : analyses'[v] = analyses[v]
      /\ analyses'[u] = analyses[u] \/ (analyses'[u] = None /\ Entries(agenda') = {})
  BY DEF ServerTypes
<1>3. ThreadsInv'
  BY <1>1 DEF ThreadsInv
<1>4. ServerTypes'
  BY <1>1, <1>2 DEF ServerTypes
<1>5. Pending("sources")' = {} /\ \A v \in Uris \ {u} : ~Due(v) /\ ~Due(v)'
  BY DEF Pending, Due, Messaging
<1>6. DocsInv'
  <2>1. ASSUME NEW v \in Uris \ {u}
        PROVE  Match(v)'
    <3>1. Match(v)
      BY <1>5, <2>1 DEF DocsInv
    <3> QED BY <1>1, <1>2, <2>1, <3>1 DEF Match, Trusted, SourceText, IsOpen
  <2>2. Match(u)' \/ Due(u)'
    <3>1. CASE Entries(agenda') = {x}
      BY <3>1 DEF Due, Pending
    <3>2. CASE analyses'[u] = None
      BY <3>2 DEF Match, Trusted
    <3> QED BY <1>2, <3>1, <3>2
  <2>3. \A y \in Entries(agenda') : AnalysisOk(y)' /\ DocumentOk(y)'
    BY <1>1, <1>5 DEF AnalysisOk, DocumentOk, IsOpen
  <2> QED BY <2>1, <2>2, <2>3 DEF DocsInv
<1>7. HeldInv'
  <2>1. UNCHANGED Revisions
    BY <1>1 DEF Revisions
  <2>2. ASSUME NEW v \in Uris \ {u}
        PROVE  /\ HeldOk(v)'
               /\ (Holds(v) /\ seen = Revisions => held[v].items = Items(v))'
    <3>1. (Holds(v)' <=> Holds(v)) /\ (HeldOk(v)' <=> HeldOk(v))
      BY <1>1, <2>2 DEF Holds, ResultId, HeldOk, IsOpen
    <3>2. Items(v)' = Items(v)
      BY <1>1, <1>2, <2>2 DEF Items, SourceText, IsOpen
    <3> QED BY <1>1, <2>1, <2>2, <3>1, <3>2 DEF HeldInv
  <2>3. HeldOk(u)' /\ ~Holds(u)'
    <3>1. CASE held'[u] = None
      BY <3>1 DEF HeldOk, Holds
    <3>2. CASE /\ held'[u] = held[u] /\ docs[u] # None /\ docs'[u] # None
               /\ docs'[u].version = docs[u].version + 1 /\ held[u] # None
      <4>1. docs[u].version \in Nat
        BY <3>2 DEF ServerTypes
      <4>2. /\ held[u].id \in [Roots -> Nat] \X Nat /\ held[u].id[2] \in Nat
            /\ \A r \in Roots : held[u].id[1][r] <= seen[r]
            /\ held[u].id[2] <= docs[u].version
        BY <3>2 DEF HeldInv, HeldOk
      <4>3. HeldOk(u)'
        <5>1. held[u].id[2] <= docs[u].version + 1
          BY <4>1, <4>2
        <5> QED BY <1>1, <3>2, <4>2, <5>1 DEF HeldOk, IsOpen
      <4>4. ~Holds(u)'
        <5>1. SUFFICES ASSUME Holds(u)' PROVE FALSE
          OBVIOUS
        <5>2. held[u].id[2] = docs[u].version + 1
          BY <3>2, <5>1 DEF Holds, ResultId
        <5> QED BY <4>1, <4>2, <5>2
      <4> QED BY <4>3, <4>4
    <3> QED BY <3>1, <3>2
  <2>4. \A v \in Uris : (IsOpen(v) /\ (Due(v) \/ Pending("sources") # {}) => Unheld(v))'
    BY <1>5, <2>3 DEF Unheld
  <2>5. \A y \in Entries(agenda') : y.op \notin Enders
    BY DEF Enders
  <2>6. \A r \in Roots : seen'[r] <= published'[r].revision
    BY <1>1 DEF HeldInv
  <2> QED BY <2>2, <2>3, <2>4, <2>5, <2>6 DEF HeldInv
<1>8. ModelsInv'
  <2>1. \A r \in Roots : ~Served(r)
    BY DEF Served, Messaging, Enders
  <2>2. \A v \in Uris : analyses'[v] = analyses[v] \/ analyses'[v] = None
    BY <1>2
  <2>3. ASSUME NEW v \in Uris
        PROVE  /\ (analyses[v] # None /\ analyses[v].by # "index" => ModelOf(v) # None)'
               /\ (Edited(v) /\ ~worker[RootOf[v]].replaced /\ RootOf[v] \notin cut =>
                     analyses[v].model = ModelOf(v) \/ Served(RootOf[v]))'
    <3>1. RootOf[v] \in Roots
      BY Constants
    <3>2. /\ analyses[v] # None /\ analyses[v].by # "index" => ModelOf(v) # None
          /\ Edited(v) /\ ~worker[RootOf[v]].replaced /\ RootOf[v] \notin cut =>
               analyses[v].model = ModelOf(v) \/ Served(RootOf[v])
      BY DEF ModelsInv
    <3> QED BY <1>1, <2>1, <2>2, <3>1, <3>2 DEF ModelOf, Edited
  <2> QED BY <2>3 DEF ModelsInv
<1>9. SyncInv'
  <2>1. \A y : y.op \in Building => (y \in Entries(agenda') <=> y \in Entries(agenda))
    BY DEF Building, Messaging
  <2> QED BY <1>1, <2>1, SyncRests DEF buildVars
<1> QED BY <1>3, <1>4, <1>6, <1>7, <1>8, <1>9

\* A document's message, and the analysis it leads to.
LEMMA OneAnalysis ==
  ASSUME Inv, agenda # <<>>, Todo.op \in Messaging, NEW u \in Uris, NEW text \in Texts \cup {None},
         NEW by \in {"editor", "close"}, NEW x, x = AnalysisOf(u, text, by)
  PROVE  /\ x.op = "analyze" /\ x.uri = u /\ x.root = RootOf[u] /\ x.text = text /\ x.by = by
         /\ Then(<<x>>) => AgendaInv' /\ Entries(agenda') = {x}
         /\ Entries(agenda) = {Todo}
         /\ Done => AgendaInv' /\ Entries(agenda') = {}
<1> USE DEF Inv
<1>1. /\ x.op = "analyze" /\ x.uri = u /\ x.root = RootOf[u] /\ x.text = text /\ x.by = by
      /\ x \in Item
  BY Constants DEF AnalysisOf, Item
<1>2. Ordered(<<x>>) /\ Ended(<<x>>) /\ Entries(<<x>>) = {x}
  BY <1>1, Alone DEF Fanned
<1>3. Todo.op \in Singles
  BY DEF Messaging, Singles
<1>4. Then(<<x>>) => AgendaInv' /\ Entries(agenda') = {x}
  BY <1>1, <1>2, <1>3, AfterLast
<1>5. Entries(agenda) = {Todo} /\ Rest = {}
  BY <1>3, First
<1>6. Done => AgendaInv' /\ Entries(agenda') = {}
  BY <1>5, AfterDone
<1> QED BY <1>1, <1>4, <1>5, <1>6

LEMMA DocumentsKeep ==
  ASSUME Inv, DidOpen \/ DidChange \/ DidClose
  PROVE  Inv'
<1> USE DEF Inv
<1>1. agenda # <<>> /\ Todo.op \in Messaging /\ UNCHANGED <<workerVars, index, failed, seen, syncVars>>
  BY DEF DidOpen, DidChange, DidClose, Own, At, Messaging, indexVars
<1>2. Todo \in Item /\ Entries(agenda) = {Todo}
  BY <1>1, First DEF Messaging, Singles
<1>3. /\ Todo.uri \in Uris
      /\ Todo.op \in {"open", "change"} => Todo.text \in Texts
  BY <1>1, <1>2 DEF Item, Messaging, Fanned, Enders
<1>4. PICK u \in Uris : u = Todo.uri
  BY <1>3
<1>5. /\ Todo.op = "open" => ~IsOpen(u)
      /\ Todo.op \in {"change", "close"} => IsOpen(u)
  BY <1>2, <1>4 DEF DocsInv, DocumentOk
<1>6. CASE DidOpen \/ DidChange
  <2>1. PICK t \in Texts : t = Todo.text
    BY <1>3, <1>6 DEF DidOpen, DidChange, Own, At
  <2> DEFINE by == "editor"
             x == AnalysisOf(u, t, by)
  <2>2. /\ Then(<<x>>) /\ UNCHANGED held /\ UNCHANGED analyses
    BY <1>4, <1>6, <2>1 DEF DidOpen, DidChange, indexVars
  <2>21. /\ x = AnalysisOf(u, t, by)
         /\ by \in {"editor", "close"} /\ by = "editor" /\ t \in Texts \cup {None}
    OBVIOUS
  <2> HIDE DEF x, by
  <2>3. /\ x.op = "analyze" /\ x.uri = u /\ x.root = RootOf[u] /\ x.text = t /\ x.by = "editor"
        /\ AgendaInv' /\ Entries(agenda') = {x}
    BY <1>1, <2>2, <2>21, OneAnalysis
  <2>4. /\ docs' \in [Uris -> [version : Nat, text : Texts] \cup {None}]
        /\ \A v \in Uris \ {u} : docs'[v] = docs[v]
        /\ docs'[u] # None /\ docs'[u].text = t
        /\ held'[u] = None \/ /\ held'[u] = held[u] /\ docs[u] # None
                              /\ docs'[u].version = docs[u].version + 1
    <3>1. CASE DidOpen
      <4> DEFINE d == [version |-> 1, text |-> t]
      <4>1. docs' = [docs EXCEPT ![u] = d]
        BY <1>4, <2>1, <3>1 DEF DidOpen
      <4>2. d \in [version : Nat, text : Texts] /\ d # None /\ d.text = t
        BY NoDocument
      <4>3. held[u] = None
        BY <1>5, <3>1 DEF DidOpen, Own, At, HeldInv, HeldOk
      <4> HIDE DEF d
      <4> QED BY <2>2, <4>1, <4>2, <4>3 DEF ServerTypes
    <3>2. CASE DidChange
      <4> DEFINE d == [version |-> docs[u].version + 1, text |-> t]
      <4>1. docs' = [docs EXCEPT ![u] = d]
        BY <1>4, <2>1, <3>2 DEF DidChange, ServerTypes
      <4>2. docs[u] # None /\ docs[u].version \in Nat
        BY <1>5, <3>2 DEF DidChange, Own, At, IsOpen, ServerTypes
      <4>3. d \in [version : Nat, text : Texts] /\ d # None /\ d.text = t
            /\ d.version = docs[u].version + 1
        BY <4>2, NoDocument
      <4> HIDE DEF d
      <4> QED BY <2>2, <4>1, <4>2, <4>3 DEF ServerTypes
    <3> QED BY <1>6, <3>1, <3>2
  <2>5. held' = [v \in Uris |-> held'[v]] /\ \A v \in Uris : held'[v] = held[v]
    BY <2>2 DEF ServerTypes
  <2> QED BY <1>1, <1>2, <2>2, <2>3, <2>4, <2>5, DocumentKeeps
<1>7. CASE DidClose
  <2> DEFINE by == "close"
             x == AnalysisOf(u, index[u], by)
  <2>1. /\ docs' = [docs EXCEPT ![u] = None] /\ held' = [held EXCEPT ![u] = None]
        /\ \/ Then(<<x>>) /\ UNCHANGED analyses
           \/ analyses' = [analyses EXCEPT ![u] = None] /\ Done
    BY <1>4, <1>7 DEF DidClose
  <2>2. index[u] \in Texts \cup {None}
    BY DEF ServerTypes
  <2>21. x = AnalysisOf(u, index[u], by) /\ by \in {"editor", "close"} /\ by = "close"
    OBVIOUS
  <2> HIDE DEF x, by
  <2>3. /\ x.op = "analyze" /\ x.uri = u /\ x.root = RootOf[u] /\ x.text = index[u] /\ x.by = "close"
        /\ Then(<<x>>) => AgendaInv' /\ Entries(agenda') = {x}
        /\ Done => AgendaInv' /\ Entries(agenda') = {}
    BY <1>1, <2>2, <2>21, OneAnalysis
  <2>4. /\ docs' \in [Uris -> [version : Nat, text : Texts] \cup {None}] /\ docs'[u] = None
        /\ held' = [v \in Uris |-> held'[v]] /\ held'[u] = None
        /\ \A v \in Uris \ {u} : docs'[v] = docs[v] /\ held'[v] = held[v]
    BY <2>1 DEF ServerTypes
  <2>5. CASE Then(<<x>>) /\ UNCHANGED analyses
    BY <1>1, <1>2, <2>3, <2>4, <2>5, DocumentKeeps
  <2>6. CASE analyses' = [analyses EXCEPT ![u] = None] /\ Done
    BY <1>1, <1>2, <2>3, <2>4, <2>6, DocumentKeeps
  <2> QED BY <2>1, <2>5, <2>6
<1> QED BY <1>6, <1>7

LEMMA PullKeeps ==
  ASSUME Inv, PullDiagnostics
  PROVE  Inv'
<1> USE DEF Inv
<1>1. /\ agenda # <<>> /\ Todo.op = "pull" /\ Done
      /\ UNCHANGED <<workerVars, docs, indexVars, syncVars>>
  BY DEF PullDiagnostics, Own, At
<1>2. /\ UNCHANGED <<docs, index, analyses, failed>> /\ UNCHANGED seen
      /\ UNCHANGED <<sync, pending, kept, unnotified>> /\ UNCHANGED cut
      /\ UNCHANGED <<disk, buildFile, worker>> /\ UNCHANGED published
  BY <1>1 DEF workerVars, indexVars, syncVars, buildVars
<1>3. Todo \in Item /\ Entries(agenda) = {Todo} /\ Rest = {}
  BY <1>1, First DEF Singles
<1>4. PICK u \in Uris : u = Todo.uri
  BY <1>1, <1>3 DEF Item, Fanned, Enders
<1>5. IsOpen(u)
  BY <1>1, <1>3, <1>4 DEF DocsInv, DocumentOk
<1>6. AgendaInv' /\ Entries(agenda') = {}
  BY <1>1, <1>3, AfterDone
<1> DEFINE h == [id |-> ResultId(u), items |-> Items(u)]
<1>7. /\ held' = [v \in Uris |-> held'[v]]
      /\ \A v \in Uris \ {u} : held'[v] = held[v]
      /\ held'[u] = held[u] \/ held'[u] = h
  BY <1>4 DEF PullDiagnostics, ServerTypes
<1>8. ThreadsInv'
  BY <1>2 DEF ThreadsInv
<1>9. ServerTypes'
  BY <1>2, <1>7 DEF ServerTypes
<1>10. DocsInv'
  BY <1>1, <1>2, <1>3, <1>6, DocsRest
<1>11. HeldInv'
  <2>1. UNCHANGED Revisions
    BY <1>2 DEF Revisions
  <2>2. \A v \in Uris : ResultId(v)' = ResultId(v) /\ Items(v)' = Items(v) /\ (IsOpen(v)' <=> IsOpen(v))
    BY <1>2 DEF ResultId, Items, SourceText, IsOpen
  <2>3. ASSUME NEW v \in Uris, held'[v] = held[v]
        PROVE  HeldOk(v)' /\ (Holds(v) /\ seen = Revisions => held[v].items = Items(v))'
    BY <1>2, <2>1, <2>2, <2>3 DEF HeldInv, HeldOk, Holds
  <2>4. ASSUME held'[u] = h
        PROVE  HeldOk(u)' /\ (Holds(u) /\ seen = Revisions => held[u].items = Items(u))'
    <3>1. docs[u].version \in Nat /\ seen \in [Roots -> Nat]
      BY <1>5 DEF IsOpen, ServerTypes
    <3>2. h.id = <<seen, docs[u].version>> /\ h.items = Items(u)
      BY DEF ResultId
    <3> HIDE DEF h
    <3> QED BY <1>2, <1>5, <2>2, <2>4, <3>1, <3>2 DEF HeldOk, IsOpen
  <2>5. \A r \in Roots : seen'[r] <= published'[r].revision
    BY <1>2 DEF HeldInv
  <2>6. \A v \in Uris : ~Due(v)' /\ Pending("sources")' = {}
    BY <1>6 DEF Due, Pending
  <2> QED BY <1>6, <1>7, <2>3, <2>4, <2>5, <2>6 DEF HeldInv
<1>12. ModelsInv'
  <2>1. \A r \in Roots : ~Served(r)
    BY <1>1, <1>3 DEF Served, Enders
  <2> QED BY <1>2, <2>1, ModelsRest DEF SameModel
<1>13. SyncInv'
  BY <1>1, <1>2, <1>3, <1>6, SyncRests DEF buildVars, Building
<1> QED BY <1>6, <1>8, <1>9, <1>10, <1>11, <1>12, <1>13

---------------------------------------------------------------------------
(* Taking over the published indexes. *)

\* The index and the analyses after index_workspace: the ones given, or those
\* that the threads have published.
LEMMA Indexing ==
  ASSUME ThreadsInv, NEW idx \in [Uris -> Texts \cup {None}], NEW an, an = [u \in Uris |-> an[u]],
         NEW rest, Ordered(rest), Ended(rest),
         \A y \in Entries(rest) : y.op \notin {"sources", "reload", "synced"},
         IndexWorkspace(idx, an, rest)
  PROVE  /\ Ordered(agenda') /\ Ended(agenda')
         /\ \/ Entries(agenda') = Entries(rest)
            \/ Entries(agenda') = {Request("sources", None)} \cup Entries(rest)
         /\ index' \in [Uris -> Texts \cup {None}]
         /\ analyses' = [u \in Uris |-> analyses'[u]]
         /\ \/ index' = idx /\ analyses' = an /\ failed' = failed
            \/ \A u \in Uris :
                 IF IsOpen(u) THEN analyses'[u] = an[u] /\ (u \in failed' <=> u \in failed)
                 ELSE analyses'[u] = None
                      \/ (analyses'[u].by = "index" /\ analyses'[u].text = index'[u])
<1>1. CASE NothingPublished
  <2>1. index' = idx /\ analyses' = an /\ failed' = failed
    BY <1>1 DEF IndexWorkspace
  <2>2. agenda' = (IF IndexPending THEN <<>> ELSE <<Request("sources", None)>>) \o rest
    BY <1>1 DEF IndexWorkspace
  <2>3. CASE IndexPending
    <3>1. agenda' = <<>> \o rest
      BY <2>2, <2>3
    <3>2. agenda' = rest
      BY <3>1, ConcatEmptySeq DEF Ordered
    <3> QED BY <2>1, <3>2
  <2>4. CASE ~IndexPending
    <3>1. agenda' = <<Request("sources", None)>> \o rest
      BY <2>2, <2>4
    <3> QED BY <2>1, <3>1, ScanFirst
  <2> QED BY <2>3, <2>4
<1>2. CASE ~NothingPublished
  <2>1. /\ index' = [u \in Uris |-> IF Indexed(u) THEN PublishedDoc(u).text ELSE None]
        /\ analyses' = [u \in Uris |-> TakenOver(an, u)]
        /\ failed' = {u \in failed : IsOpen(u)}
        /\ agenda' = rest
    BY <1>2 DEF IndexWorkspace
  <2>2. \A u \in Uris : Indexed(u) => PublishedDoc(u).text \in Texts
    <3> SUFFICES ASSUME NEW u \in Uris, Indexed(u)
                 PROVE  PublishedDoc(u).text \in Texts
      OBVIOUS
    <3>1. PICK r \in Roots : r = RootOf[u]
      BY Constants
    <3>2. u \in Owned(r) /\ published[r].index \in Index(r)
      BY <3>1 DEF ThreadsInv, Publication, Indexed, Owned
    <3>3. published[r].index.docs[u] \in Doc
      BY <3>2 DEF Index
    <3> QED BY <3>1, <3>3 DEF PublishedDoc, Doc
  <2>3. index' \in [Uris -> Texts \cup {None}]
    BY <2>1, <2>2
  <2>4. analyses' = [u \in Uris |-> analyses'[u]]
    BY <2>1
  <2>5. ASSUME NEW u \in Uris
        PROVE  IF IsOpen(u) THEN analyses'[u] = an[u] /\ (u \in failed' <=> u \in failed)
               ELSE analyses'[u] = None
                    \/ (analyses'[u].by = "index" /\ analyses'[u].text = index'[u])
    <3>1. analyses'[u] = TakenOver(an, u)
          /\ index'[u] = IF Indexed(u) THEN PublishedDoc(u).text ELSE None
      BY <2>1
    <3> QED BY <2>1, <3>1 DEF TakenOver
  <2> QED BY <2>1, <2>3, <2>4, <2>5
<1> QED BY <1>1, <1>2

\* The editor's document is analyzed as it is in the editor.
FromEditor(x) ==
  /\ x.op = "analyze" /\ x.uri \in Uris /\ x.root = RootOf[x.uri] /\ x.by = "editor"
  /\ IsOpen(x.uri) /\ x.text = docs[x.uri].text

LEMMA ReplacedKeeps ==
  ASSUME Inv, agenda # <<>>, Todo.op \in {"reindex", "reset"},
         NEW rest, Ordered(rest), Ended(rest), \A x \in Entries(rest) : FromEditor(x),
         IndexWorkspace(Nowhere, Nowhere, rest), cut' = {},
         UNCHANGED <<workerVars, docVars, seen, buildVars>>
  PROVE  Inv'
<1> USE DEF Inv
<1>1. /\ UNCHANGED <<docs, held>> /\ UNCHANGED seen
      /\ UNCHANGED <<sync, pending, kept, unnotified>>
      /\ UNCHANGED <<disk, buildFile, worker>> /\ UNCHANGED published
  BY DEF workerVars, docVars, buildVars
<1>2. Entries(agenda) = {Todo} /\ Todo.op \in Enders
  BY First DEF Enders
<1>3. Nowhere \in [Uris -> Texts \cup {None}] /\ Nowhere = [u \in Uris |-> Nowhere[u]]
      /\ \A u \in Uris : Nowhere[u] = None
  BY DEF Nowhere
<1>4. \A y \in Entries(rest) : y.op = "analyze"
  BY DEF FromEditor
<1> DEFINE scan == Request("sources", None)
<1>5. scan.op = "sources"
  BY DEF Request, Message
<1>6. /\ Ordered(agenda') /\ Ended(agenda')
      /\ Entries(agenda') = Entries(rest) \/ Entries(agenda') = {scan} \cup Entries(rest)
      /\ index' \in [Uris -> Texts \cup {None}]
      /\ analyses' = [u \in Uris |-> analyses'[u]]
      /\ \/ index' = Nowhere /\ analyses' = Nowhere /\ failed' = failed
         \/ \A u \in Uris :
              IF IsOpen(u) THEN analyses'[u] = Nowhere[u] /\ (u \in failed' <=> u \in failed)
              ELSE analyses'[u] = None
                   \/ (analyses'[u].by = "index" /\ analyses'[u].text = index'[u])
  BY <1>3, <1>4, Indexing
<1> HIDE DEF scan
<1>7. \A u \in Uris : \/ analyses'[u] = None
                      \/ /\ ~IsOpen(u) /\ analyses'[u].by = "index"
                         /\ analyses'[u].text = index'[u]
  BY <1>3, <1>6
<1>8. \A x \in Entries(agenda') : x.op \in {"analyze", "sources"} /\ (x.op = "analyze" => FromEditor(x))
  BY <1>4, <1>5, <1>6
<1>9. ThreadsInv'
  BY <1>1 DEF ThreadsInv
<1>10. ServerTypes'
  BY <1>1, <1>6 DEF ServerTypes
<1>11. AgendaInv'
  BY <1>6, <1>8, AgendedNext
<1>12. DocsInv'
  <2>1. \A u \in Uris : Match(u)'
    BY <1>1, <1>7 DEF Match, Trusted, SourceText, IsOpen
  <2>2. \A x \in Entries(agenda') : AnalysisOk(x)' /\ DocumentOk(x)'
    BY <1>1, <1>8 DEF AnalysisOk, DocumentOk, FromEditor, IsOpen
  <2> QED BY <2>1, <2>2 DEF DocsInv
<1>13. HeldInv'
  <2>1. UNCHANGED Revisions
    BY <1>1 DEF Revisions
  <2>2. Uris # {} => seen # Revisions
    BY <1>2 DEF HeldInv, Enders, Publishers
  <2>3. \A u \in Uris : HeldOk(u)' <=> HeldOk(u)
    BY <1>1 DEF HeldOk, IsOpen
  <2>4. \A r \in Roots : seen'[r] <= published'[r].revision
    BY <1>1 DEF HeldInv
  <2>5. \A x \in Entries(agenda') : x.op \notin Enders
    BY <1>8 DEF Enders
  <2>6. \A u \in Uris : seen' # Revisions'
    BY <1>1, <2>1, <2>2
  <2> QED BY <2>3, <2>4, <2>5, <2>6 DEF HeldInv, Unheld
<1>14. ModelsInv'
  BY <1>7 DEF ModelsInv, Edited
<1>15. SyncInv'
  <2>1. \A x : x.op \in Building => (x \in Entries(agenda') <=> x \in Entries(agenda))
    BY <1>2, <1>8 DEF Building, Enders
  <2>2. SyncInv /\ AgendaInv /\ UNCHANGED buildVars
    BY <1>1 DEF buildVars
  <2> QED BY <1>1, <1>11, <2>1, <2>2, SyncRests
<1> QED BY <1>9, <1>10, <1>11, <1>12, <1>13, <1>14, <1>15

LEMMA ReindexKeeps ==
  ASSUME Inv, Reindex \/ Reset
  PROVE  Inv'
<1> USE DEF Inv
<1>1. agenda # <<>> /\ Todo.op \in {"reindex", "reset"}
  BY DEF Reindex, Reset, Own, At
<1>2. Tail(agenda) = <<>>
  BY <1>1, First DEF Enders
<1>3. cut' = {} /\ UNCHANGED <<workerVars, docVars, seen, buildVars>>
  BY DEF Reindex, Reset
<1>4. CASE Reset
  <2>1. IndexWorkspace(Nowhere, Nowhere, <<>>)
    BY <1>2, <1>4 DEF Reset
  <2>2. Ordered(<<>>) /\ Ended(<<>>) /\ \A x \in Entries(<<>>) : FromEditor(x)
    BY Nothing
  <2> QED BY <1>1, <1>3, <2>1, <2>2, ReplacedKeeps
<1>5. CASE Reindex
  <2> DEFINE by == "editor"
             s == ForUris(OpenUris, OpenTexts, by)
  <2>1. by \in {"editor", "close", "scan"} /\ by = "editor"
    OBVIOUS
  <2>2. IndexWorkspace(Nowhere, Nowhere, s \o <<>>)
    BY <1>2, <1>5 DEF Reindex
  <2>3. s = ForUris(OpenUris, OpenTexts, by)
    OBVIOUS
  <2> HIDE DEF by, s
  <2>4. OpenUris \in SUBSET Uris /\ \A u \in OpenUris : OpenTexts[u] \in Texts \cup {None}
        /\ OpenTexts[u] = docs[u].text
    BY DEF OpenUris, OpenTexts, SourceText, IsOpen, ServerTypes
  <2>5. Ordered(s) /\ Ended(s) /\ Entries(s) = {AnalysisOf(u, OpenTexts[u], by) : u \in OpenUris}
    BY <2>1, <2>3, <2>4, AllAnalyzed
  <2>6. \A x \in Entries(s) : FromEditor(x)
    BY <2>1, <2>4, <2>5 DEF AnalysisOf, FromEditor, OpenUris
  <2>7. \A x \in Entries(s) : x.op \notin Fanned
    BY <2>6 DEF FromEditor, Fanned
  <2>8. Ordered(s \o <<>>) /\ Ended(s \o <<>>) /\ Entries(s \o <<>>) = Entries(s)
    BY <2>5, <2>7, Nothing, Joined
  <2> QED BY <1>1, <1>3, <2>2, <2>6, <2>8, ReplacedKeeps
<1> QED BY <1>4, <1>5

\* The scan puts its analyses before what remains to be done.
LEMMA ScanKeeps ==
  ASSUME Inv, ScanSources
  PROVE  Inv'
<1> USE DEF Inv
<1> DEFINE scanned == {u \in Uris : HasRoot(RootOf[u])}
           by == "scan"
           s == ForUris(scanned, disk, by)
<1>1. /\ agenda # <<>> /\ Todo.op = "sources"
      /\ index' = [u \in Uris |-> IF u \in scanned THEN disk[u] ELSE index[u]]
      /\ agenda' = s \o Tail(agenda)
      /\ UNCHANGED <<workerVars, docVars, analyses, failed, seen, syncVars>>
  BY DEF ScanSources, Own, At, Then
<1>2. /\ UNCHANGED <<docs, held>> /\ UNCHANGED <<analyses, failed, seen>>
      /\ UNCHANGED <<sync, pending, kept, unnotified>> /\ UNCHANGED cut
      /\ UNCHANGED <<disk, buildFile, worker>> /\ UNCHANGED published
  BY <1>1 DEF workerVars, docVars, syncVars, buildVars
<1>3. s = ForUris(scanned, disk, by) /\ by = "scan" /\ by \in {"editor", "close", "scan"}
      /\ scanned \in SUBSET Uris
  OBVIOUS
<1> HIDE DEF scanned, by, s
<1>4. /\ Entries(agenda) = {Todo} \cup Rest /\ \A y \in Rest : MayPrecede(Todo, y)
      /\ Ordered(Tail(agenda)) /\ Ended(Tail(agenda)) /\ Todo \in Entries(agenda)
  BY <1>1, First
<1>5. \A u \in scanned : disk[u] \in Texts \cup {None}
  BY <1>3 DEF ThreadsInv
<1>6. Ordered(s) /\ Ended(s) /\ Entries(s) = {AnalysisOf(u, disk[u], by) : u \in scanned}
  BY <1>3, <1>5, AllAnalyzed
<1>7. \A x \in Entries(s) : /\ x.op = "analyze" /\ x.uri \in Uris /\ x.root = RootOf[x.uri]
                            /\ x.by = "scan"
  BY <1>3, <1>6 DEF AnalysisOf
<1>8. \A y \in Rest : y.op \notin {"sources", "reload", "synced"}
  BY <1>1, <1>4 DEF MayPrecede
<1>9. \A x \in Entries(s), y \in Entries(Tail(agenda)) : MayPrecede(x, y)
  <2> SUFFICES ASSUME NEW x \in Entries(s), NEW y \in Rest
               PROVE  MayPrecede(x, y)
    BY DEF Rest
  <2>1. x.op = "analyze" /\ y.op \notin {"sources", "reload", "synced"}
    BY <1>7, <1>8
  <2> QED BY <2>1 DEF MayPrecede, Enders, Singles, Movers
<1>10. Ordered(agenda') /\ Ended(agenda') /\ Entries(agenda') = Entries(s) \cup Rest
  <2>1. \A x \in Entries(s) : x.op \notin Fanned
    BY <1>7 DEF Fanned
  <2>2. /\ Ordered(s \o Tail(agenda)) /\ Ended(s \o Tail(agenda))
        /\ Entries(s \o Tail(agenda)) = Entries(s) \cup Entries(Tail(agenda))
    BY <1>4, <1>6, <1>9, <2>1, Joined
  <2> QED BY <1>1, <2>2 DEF Rest
<1>11. \A x : x.op \notin {"analyze", "sources"} => (x \in Entries(agenda') <=> x \in Entries(agenda))
  BY <1>1, <1>4, <1>7, <1>10
<1>12. AgendaInv'
  <2>1. (\E x \in Entries(agenda) : x.op = "clear") =>
          \A r \in Roots : \E x \in Entries(agenda) : x.op = "rebuild" /\ x.root = r
    BY Agended
  <2>2. (\E x \in Entries(agenda') : x.op = "clear") =>
          \A r \in Roots : \E x \in Entries(agenda') : x.op = "rebuild" /\ x.root = r
    BY <1>11, <2>1
  <2> QED BY <1>10, <2>2, AgendedNext
<1>13. ThreadsInv'
  BY <1>2 DEF ThreadsInv
<1>14. ServerTypes'
  <2>1. index' \in [Uris -> Texts \cup {None}]
    BY <1>1, <1>5 DEF ServerTypes
  <2> QED BY <1>2, <2>1 DEF ServerTypes
<1>15. \A u \in Uris : (IsOpen(u)' <=> IsOpen(u)) /\ (IsOpen(u) => SourceText(u)' = SourceText(u))
  BY <1>2 DEF IsOpen, SourceText
<1>16. DocsInv'
  <2>1. ASSUME NEW x \in Entries(agenda')
        PROVE  AnalysisOk(x)' /\ DocumentOk(x)'
    <3>1. CASE x \in Entries(s)
      BY <1>7, <3>1 DEF AnalysisOk, DocumentOk
    <3>2. CASE x \in Rest
      <4>1. AnalysisOk(x) /\ DocumentOk(x) /\ Pending("sources") # {}
        BY <1>1, <1>4, <3>2 DEF DocsInv, Pending
      <4> QED BY <1>2, <4>1 DEF AnalysisOk, DocumentOk, IsOpen
    <3> QED BY <1>10, <2>1, <3>1, <3>2
  <2>2. ASSUME NEW u \in Uris
        PROVE  Match(u)' \/ Due(u)'
    <3>1. CASE u \in scanned
      <4>1. PICK x \in Entries(s) : x = AnalysisOf(u, disk[u], by)
        BY <1>6, <3>1
      <4>2. x.op = "analyze" /\ x.uri = u /\ x \in Entries(agenda')
        BY <1>10, <4>1 DEF AnalysisOf
      <4> QED BY <4>2 DEF Due, Pending
    <3>2. CASE u \notin scanned
      <4>1. index'[u] = index[u]
        BY <1>1, <3>2
      <4>2. Match(u)' <=> Match(u)
        BY <1>2, <4>1 DEF Match, Trusted, SourceText, IsOpen
      <4>3. Due(u) => Due(u)'
        BY <1>1, <1>4, <1>10 DEF Due, Pending
      <4> QED BY <4>2, <4>3 DEF DocsInv
    <3> QED BY <3>1, <3>2
  <2> QED BY <2>1, <2>2 DEF DocsInv
<1>17. HeldInv'
  <2>1. UNCHANGED Revisions
    BY <1>2 DEF Revisions
  <2>2. \A u \in Uris : (Holds(u)' <=> Holds(u)) /\ (HeldOk(u)' <=> HeldOk(u))
    BY <1>2 DEF Holds, ResultId, HeldOk, IsOpen
  <2>3. \A u \in Uris : Holds(u) => IsOpen(u)
    BY DEF Holds, HeldInv, HeldOk
  <2>4. \A u \in Uris : IsOpen(u) => Items(u)' = Items(u)
    BY <1>2, <1>15 DEF Items
  <2>5. \A u \in Uris : IsOpen(u) => Unheld(u)
    BY <1>1, <1>4 DEF HeldInv, Pending
  <2>6. \A u \in Uris : /\ HeldOk(u)'
                        /\ (Holds(u) /\ seen = Revisions => held[u].items = Items(u))'
    BY <1>2, <2>1, <2>2, <2>3, <2>4 DEF HeldInv
  <2>7. \A u \in Uris : (IsOpen(u) /\ (Due(u) \/ Pending("sources") # {}) => Unheld(u))'
    BY <1>2, <1>15, <2>1, <2>2, <2>5 DEF Unheld
  <2>8. \A x \in Entries(agenda') : x.op \in Enders /\ Uris # {} =>
          seen # Revisions \/ \E y \in Entries(agenda') : y.op \in Publishers
    BY <1>11 DEF HeldInv, Enders, Publishers
  <2>9. \A r \in Roots : seen'[r] <= published'[r].revision
    BY <1>2 DEF HeldInv
  <2> QED BY <1>2, <2>1, <2>6, <2>7, <2>8, <2>9 DEF HeldInv
<1>18. ModelsInv'
  <2>1. \A r \in Roots : Served(r) => Served(r)'
    BY <1>2, <1>11 DEF Served, Enders, Movers, Reloadable
  <2> QED BY <1>2, <2>1, ModelsRest DEF SameModel
<1>19. SyncInv'
  <2>1. \A x : x.op \in Building => (x \in Entries(agenda') <=> x \in Entries(agenda))
    BY <1>11 DEF Building
  <2> QED BY <1>2, <1>12, <2>1, SyncRests DEF buildVars
<1> QED BY <1>12, <1>13, <1>14, <1>16, <1>17, <1>18, <1>19

\* A message arrives: first the dispatcher takes over what the threads have
\* published since, and with the revisions every result id changes.
LEMMA ReceiveKeeps ==
  ASSUME Inv, NEW m \in Messages, Receive(m)
  PROVE  Inv'
<1> USE DEF Inv
<1> DEFINE a == Agenda(m)
           scan == Request("sources", None)
<1>1. /\ agenda = <<>> /\ unnotified' = unnotified \ {m.root}
      /\ UNCHANGED <<docs, held>> /\ UNCHANGED <<sync, pending, kept>> /\ UNCHANGED cut
      /\ UNCHANGED <<buildFile, worker>> /\ UNCHANGED published
      /\ disk' = IF m.op = "save" THEN [disk EXCEPT ![m.uri] = docs[m.uri].text] ELSE disk
      /\ \/ seen = Revisions /\ agenda' = a /\ UNCHANGED indexVars
         \/ seen # Revisions /\ seen' = Revisions /\ IndexWorkspace(index, analyses, a)
  BY DEF Receive, docVars
<1>2. MessageAgenda(m, a)
  BY Agendas
<1>3. a = Agenda(m) /\ scan = Request("sources", None) /\ scan.op = "sources"
  BY DEF Request, Message
<1> HIDE DEF a, scan
<1>4. /\ Ordered(a) /\ Ended(a)
      /\ \A y \in Entries(a) : y.op \notin {"analyze", "sources", "reload", "synced"} /\ DocumentOk(y)
  BY <1>2 DEF MessageAgenda
<1>5. Entries(agenda) = {} /\ \A op : Pending(op) = {}
  BY <1>1, Nothing DEF Pending
<1>6. index \in [Uris -> Texts \cup {None}] /\ analyses = [u \in Uris |-> analyses[u]]
  BY DEF ServerTypes
<1>7. /\ Ordered(agenda') /\ Ended(agenda')
      /\ Entries(agenda') = Entries(a) \/ (seen # Revisions /\ Entries(agenda') = {scan} \cup Entries(a))
      /\ index' \in [Uris -> Texts \cup {None}]
      /\ analyses' = [u \in Uris |-> analyses'[u]]
      /\ \/ index' = index /\ analyses' = analyses /\ failed' = failed
         \/ \A u \in Uris :
              IF IsOpen(u) THEN analyses'[u] = analyses[u] /\ (u \in failed' <=> u \in failed)
              ELSE analyses'[u] = None
                   \/ (analyses'[u].by = "index" /\ analyses'[u].text = index'[u])
  <2>1. CASE seen = Revisions /\ agenda' = a /\ UNCHANGED indexVars
    BY <1>4, <1>6, <2>1 DEF indexVars
  <2>2. CASE seen # Revisions /\ IndexWorkspace(index, analyses, a)
    <3>1. \A y \in Entries(a) : y.op \notin {"sources", "reload", "synced"}
      BY <1>4
    <3> QED BY <1>3, <1>4, <1>6, <2>2, <3>1, Indexing
  <2> QED BY <1>1, <2>1, <2>2
<1>8. \A x \in Entries(agenda') : x.op \notin {"analyze", "reload", "synced"} /\ DocumentOk(x)
  BY <1>3, <1>4, <1>7 DEF DocumentOk
<1>9. disk' \in [Uris -> Texts]
  <2>1. CASE m.op = "save"
    <3>1. m.uri \in OpenUris
      BY <2>1, Sendable DEF Message
    <3>2. docs[m.uri].text \in Texts
      BY <3>1 DEF OpenUris, IsOpen, ServerTypes
    <3> QED BY <1>1, <2>1, <3>2 DEF ThreadsInv
  <2> QED BY <1>1, <2>1 DEF ThreadsInv
<1>10. ThreadsInv'
  BY <1>1, <1>9 DEF ThreadsInv
<1>11. UNCHANGED Revisions /\ Revisions \in [Roots -> Nat]
  BY <1>1 DEF Revisions, ThreadsInv, Publication
<1>12. seen' = seen \/ seen' = Revisions
  BY <1>1 DEF indexVars
<1>13. ServerTypes'
  <2>1. seen' \in [Roots -> Nat]
    BY <1>11, <1>12 DEF ServerTypes
  <2>2. unnotified' \subseteq Roots
    BY <1>1 DEF ServerTypes
  <2> QED BY <1>1, <1>7, <2>1, <2>2 DEF ServerTypes
<1>14. AgendaInv'
  <2>1. \A x \in Entries(agenda') : x.op = "clear" =>
          \A r \in Roots : \E y \in Entries(agenda') : y.op = "rebuild" /\ y.root = r
    BY <1>2, <1>3, <1>7 DEF MessageAgenda
  <2> QED BY <1>7, <2>1, AgendedNext
<1>15. \A u \in Uris : Match(u) /\ ~Due(u)
  BY <1>5 DEF DocsInv, Due
<1>16. DocsInv'
  <2>1. \A u \in Uris : IsOpen(u)' <=> IsOpen(u)
    BY <1>1 DEF IsOpen
  <2>2. ASSUME NEW u \in Uris
        PROVE  Match(u)'
    BY <1>1, <1>7, <1>15, <2>1, <2>2 DEF Match, Trusted, SourceText, IsOpen
  <2>3. \A x \in Entries(agenda') : AnalysisOk(x)' /\ DocumentOk(x)'
    BY <1>1, <1>8 DEF AnalysisOk, DocumentOk, IsOpen
  <2> QED BY <2>2, <2>3 DEF DocsInv
<1>17. HeldInv'
  <2>1. \A r \in Roots : seen[r] \in Nat /\ Revisions[r] \in Nat /\ seen[r] <= Revisions[r]
    BY <1>11 DEF HeldInv, Revisions, ServerTypes
  <2>2. \A r \in Roots : seen'[r] <= published'[r].revision /\ seen[r] <= seen'[r]
    <3>1. \A r \in Roots : published'[r].revision = Revisions[r]
      BY <1>1 DEF Revisions
    <3> QED BY <1>12, <2>1, <3>1
  <2>3. \A u \in Uris : IsOpen(u)' <=> IsOpen(u)
    BY <1>1 DEF IsOpen
  <2>4. ASSUME NEW u \in Uris
        PROVE  HeldOk(u)'
    <3>1. CASE held[u] = None
      BY <1>1, <3>1 DEF HeldOk
    <3>2. CASE held[u] # None
      <4>1. /\ IsOpen(u) /\ held[u].id \in [Roots -> Nat] \X Nat
            /\ \A r \in Roots : held[u].id[1][r] <= seen[r]
            /\ held[u].id[2] <= docs[u].version
        BY <3>2 DEF HeldInv, HeldOk
      <4>2. \A r \in Roots : held[u].id[1][r] \in Nat /\ seen'[r] \in Nat
        BY <1>13, <4>1 DEF ServerTypes
      <4>3. \A r \in Roots : held[u].id[1][r] <= seen'[r]
        BY <2>1, <2>2, <4>1, <4>2
      <4> QED BY <1>1, <2>3, <4>1, <4>3 DEF HeldOk
    <3> QED BY <3>1, <3>2
  <2>5. ASSUME seen # Revisions, NEW u \in Uris, seen' = Revisions, Holds(u)'
        PROVE  FALSE
    <3>1. held[u] # None /\ held[u].id[1] = Revisions
      BY <1>1, <2>5 DEF Holds, ResultId
    <3>2. \A r \in Roots : Revisions[r] <= seen[r]
      BY <3>1 DEF HeldInv, HeldOk
    <3>3. \A r \in Roots : Revisions[r] = seen[r]
      BY <2>1, <3>2
    <3>4. Revisions = seen
      BY <1>11, <3>3 DEF ServerTypes
    <3> QED BY <2>5, <3>4
  <2>6. seen = Revisions => /\ UNCHANGED <<index, analyses, failed, seen>>
                            /\ Entries(agenda') = Entries(a)
    BY <1>1, <1>7 DEF indexVars
  <2>7. ASSUME NEW u \in Uris
        PROVE  (Holds(u) /\ seen = Revisions => held[u].items = Items(u))'
    <3>1. CASE seen = Revisions
      <4>1. (Holds(u)' <=> Holds(u)) /\ Items(u)' = Items(u)
        BY <1>1, <2>6, <3>1 DEF Holds, ResultId, Items, SourceText, IsOpen
      <4> QED BY <1>1, <3>1, <4>1 DEF HeldInv
    <3>2. CASE seen # Revisions
      BY <1>1, <2>5, <3>2
    <3> QED BY <3>1, <3>2
  <2>8. \A u \in Uris : (IsOpen(u) /\ (Due(u) \/ Pending("sources") # {}) => Unheld(u))'
    <3>1. \A u \in Uris : ~Due(u)'
      BY <1>8 DEF Due, Pending
    <3>2. CASE seen = Revisions
      <4>1. Pending("sources")' = {}
        BY <1>4, <2>6, <3>2 DEF Pending
      <4> QED BY <3>1, <4>1
    <3>3. CASE seen # Revisions
      BY <1>1, <2>5, <3>3 DEF Unheld
    <3> QED BY <3>2, <3>3
  <2>9. \A x \in Entries(agenda') : x.op \in Enders /\ Uris # {} =>
          \E y \in Entries(agenda') : y.op \in Publishers
    BY <1>2, <1>3, <1>7 DEF MessageAgenda, Enders
  <2> QED BY <2>2, <2>4, <2>7, <2>8, <2>9 DEF HeldInv
<1>18. ModelsInv'
  <2>1. \A r \in Roots : ~Served(r)
    BY <1>5 DEF Served
  <2>2. \A u \in Uris : \/ analyses'[u] = analyses[u]
                        \/ analyses'[u] = None \/ analyses'[u].by = "index"
    BY <1>7
  <2>3. ASSUME NEW v \in Uris
        PROVE  /\ (analyses[v] # None /\ analyses[v].by # "index" => ModelOf(v) # None)'
               /\ (Edited(v) /\ ~worker[RootOf[v]].replaced /\ RootOf[v] \notin cut =>
                     analyses[v].model = ModelOf(v) \/ Served(RootOf[v]))'
    <3>1. RootOf[v] \in Roots
      BY Constants
    <3> QED BY <1>1, <2>1, <2>2, <3>1 DEF ModelsInv, ModelOf, Edited
  <2> QED BY <2>3 DEF ModelsInv
<1>19. SyncInv'
  <2>1. sync # "syncing"
    BY <1>1, NotSyncing
  <2>2. Pending("reload")' = {} /\ Pending("synced")' = {}
    BY <1>8 DEF Pending
  <2>3. ASSUME NEW r \in Roots, Dirty(r)'
        PROVE  \/ r \in unnotified' \/ \E x \in Pending("watched")' : x.root = r
               \/ r \in pending' /\ sync' # "ready"
    <3>1. Dirty(r)
      BY <1>1, <2>3 DEF Dirty, HasRoot
    <3>2. r \in unnotified \/ (r \in pending /\ sync # "ready")
      BY <1>5, <3>1 DEF SyncInv
    <3>3. CASE r = m.root
      <4>1. m.root # None
        BY <3>3, Constants
      <4>2. \E x \in Entries(a) : x.op = "watched" /\ x.root = r
        BY <1>2, <3>3, <4>1 DEF MessageAgenda
      <4> QED BY <1>7, <4>2 DEF Pending
    <3>4. CASE r # m.root
      BY <1>1, <3>2, <3>4
    <3> QED BY <3>3, <3>4
  <2> QED BY <1>1, <2>1, <2>2, <2>3 DEF SyncInv
<1> QED BY <1>10, <1>13, <1>14, <1>16, <1>17, <1>18, <1>19

LEMMA StutterKeeps ==
  ASSUME Inv, UNCHANGED vars
  PROVE  Inv'
<1> USE DEF Inv
<1>1. /\ UNCHANGED <<docs, held>> /\ UNCHANGED <<index, analyses, failed, seen>>
      /\ UNCHANGED <<sync, pending, kept, unnotified>> /\ UNCHANGED cut
      /\ UNCHANGED <<disk, buildFile, worker>> /\ UNCHANGED published /\ UNCHANGED agenda
  BY DEF vars, workerVars, serverVars, docVars, indexVars, syncVars, buildVars
<1>2. ThreadsInv' /\ ServerTypes'
  BY <1>1 DEF ThreadsInv, ServerTypes
<1>3. AgendaInv' /\ \A q \in Roots : Served(q) => Served(q)'
  BY <1>1, AgendaRests
<1>4. DocsInv'
  BY <1>1, DocsRest
<1>5. HeldInv'
  BY <1>1, HeldRests DEF HeldInv
<1>6. ModelsInv'
  BY <1>1, <1>3, ModelsRest DEF SameModel
<1>7. SyncInv'
  BY <1>1, <1>3, SyncRests DEF buildVars
<1> QED BY <1>2, <1>3, <1>4, <1>5, <1>6, <1>7

LEMMA StepKeeps ==
  ASSUME Inv, [Next]_vars
  PROVE  Inv'
<1>1. CASE UNCHANGED vars
  BY <1>1, StutterKeeps
<1>2. CASE Dispatch
  BY <1>2, AskKeeps, ReindexKeeps, ScanKeeps, AnalyzedKeeps, DocumentsKeep, SavedKeeps, PullKeeps,
     BeginSyncKeeps, WatchedKeeps, SyncRootKeeps, SyncedKeeps, ConfiguredKeeps, ClearedKeeps,
     CancelKeeps
  DEF Dispatch
<1>3. CASE \E r \in Roots : Background(r) \/ EditBuildFile(r)
  BY <1>3, BackgroundKeeps, EditKeeps
<1>4. CASE \E u \in Uris : EditSource(u)
  BY <1>4, EditKeeps
<1>5. CASE \E m \in Messages : Receive(m)
  BY <1>5, ReceiveKeeps
<1> QED BY <1>1, <1>2, <1>3, <1>4, <1>5 DEF Next

---------------------------------------------------------------------------
(* Theorems. *)

(* Whatever the editor sends, and whatever the threads do meanwhile: the
   agenda keeps its shape, every document is either analyzed as it is or about
   to be, no diagnostics change under a result id, every model that is moved
   is answered for, and no announced change of a build file is lost. *)
THEOREM ServerInvariant == Spec => []Inv
<1>1. Init => Inv
  BY InitInv
<1>2. Inv /\ [Next]_vars => Inv'
  BY StepKeeps
<1> QED BY <1>1, <1>2, PTL DEF Spec

(* Between messages, the dispatcher answers from an analysis of the text that
   it converts positions with (documents.rs and the index of server.rs), for
   every document whose last analysis succeeded and that no scan analyzed. *)
THEOREM AnalysesMatch == Spec => []AnalysesMatchSource
<1>1. Inv => AnalysesMatchSource
  <2> SUFFICES ASSUME Inv, agenda = <<>>
               PROVE  \A u \in Uris : Match(u)
    BY DEF AnalysesMatchSource, AtRest, Match
  <2>1. \A u \in Uris : ~Due(u)
    BY Nothing DEF Due, Pending
  <2> QED BY <2>1 DEF Inv, DocsInv
<1> QED BY <1>1, ServerInvariant, PTL

(* A diagnostics pull answers "unchanged" only when the diagnostics are those
   that the editor got with the id it holds. *)
THEOREM Unchanged == Spec => []UnchangedIsTruthful
<1>1. Inv => UnchangedIsTruthful
  BY DEF Inv, HeldInv, UnchangedIsTruthful, OpenUris
<1> QED BY <1>1, ServerInvariant, PTL

(* The session, the index and the analyses behind the answers for a root come
   from one model, unless a command failed after it had moved it. *)
THEOREM ModelIsOne == Spec => []OneModel
<1>1. Inv => OneModel
  <2> SUFFICES ASSUME Inv, NEW r \in Roots, ~worker[r].replaced
               PROVE  /\ worker[r].session \in {None, worker[r].model}
                      /\ worker[r].job = None /\ worker[r].index # None =>
                           worker[r].index.model = worker[r].model
                      /\ AtRest /\ r \notin cut =>
                           \A u \in OpenUris \cap Owned(r) :
                             Trusted(u) /\ analyses[u].by = "editor" => analyses[u].model = worker[r].model
    BY DEF OneModel
  <2>1. WorkerOk(worker[r])
    BY DEF Inv, ThreadsInv
  <2>2. ASSUME AtRest, r \notin cut, NEW u \in OpenUris \cap Owned(r), Trusted(u),
               analyses[u].by = "editor"
        PROVE  analyses[u].model = worker[r].model
    <3>1. ~Served(r)
      BY <2>2, Nothing DEF AtRest, Served
    <3>2. u \in Uris /\ RootOf[u] = r /\ Edited(u)
      BY <2>2 DEF Owned, Trusted, Edited
    <3> QED BY <2>2, <3>1, <3>2 DEF Inv, ModelsInv, ModelOf
  <2> QED BY <2>1, <2>2 DEF WorkerOk
<1> QED BY <1>1, ServerInvariant, PTL

(* A synchronization that is reported as complete has lost no change that the
   editor announced, whichever roots failed before. *)
THEOREM ReadyMeansCurrent == Spec => []SyncedMeansCurrent
<1>1. Inv => SyncedMeansCurrent
  <2> SUFFICES ASSUME Inv, agenda = <<>>, sync = "ready", NEW r \in Roots \ unnotified, HasRoot(r)
               PROVE  worker[r].model = buildFile[r]
    BY DEF SyncedMeansCurrent, AtRest
  <2>1. Pending("watched") = {}
    BY Nothing DEF Pending
  <2> QED BY <2>1 DEF Inv, SyncInv, Dirty
<1> QED BY <1>1, ServerInvariant, PTL

(* A synchronization that fails leaves the model of every root that it had not
   reloaded before as it was when it began. *)
THEOREM FailurePreserves == Spec => FailedSyncPreserves
<1> DEFINE Step == sync = "syncing" /\ sync' = "failed"
                     => \A r \in Roots \ (Reloadable \ Waiting("reload")) :
                          kept[r] \in {None, worker'[r].model}
<1>1. ASSUME Inv, [Next]_vars
      PROVE  Step
  <2> SUFFICES ASSUME sync = "syncing", sync' = "failed",
                      NEW r \in Roots \ (Reloadable \ Waiting("reload"))
               PROVE  kept[r] \in {None, worker'[r].model}
    OBVIOUS
  <2>1. kept[r] \in {None, worker[r].model}
    BY <1>1 DEF Inv, SyncInv
  <2>2. SyncRoot
    <3>1. CASE UNCHANGED vars
      BY <3>1 DEF vars, serverVars, syncVars, buildVars
    <3>2. CASE Dispatch
      BY <3>2 DEF Dispatch, Ask, Reindex, Reset, ScanSources, Analyzed, AnalysisFails, DidOpen,
                  DidChange, DidClose, Saved, PullDiagnostics, BeginSync, WatchedFiles, Synced,
                  Configured, Rebuilt, Cleared, CancelRequest, serverVars, syncVars, buildVars
    <3>3. CASE ~Dispatch /\ Next
      BY <3>3 DEF Next, Background, EditBuildFile, EditSource, Receive, serverVars, syncVars, buildVars
    <3> QED BY <1>1, <3>1, <3>2, <3>3
  <2>3. Refused(Todo.root) /\ agenda # <<>> /\ Todo.op = "reload" /\ Free(Todo.root)
    BY <2>2 DEF SyncRoot, Reply, At
  <2>4. PICK q \in Roots : q = Todo.root
    BY <1>1, <2>3, First DEF Inv, Item, Fanned, Enders
  <2>5. Works(q) /\ SameModel(q)
    BY <1>1, <2>3, <2>4, QuietWorks DEF Inv
  <2>6. worker'[r].model = worker[r].model
    BY <2>5 DEF Works, SameModel
  <2> QED BY <2>1, <2>6
<1>2. FailedSyncPreserves <=> [][Step]_vars
  BY DEF FailedSyncPreserves
<1> HIDE DEF Step
<1>3. Inv /\ [Next]_vars => [Step]_vars
  BY <1>1
<1> QED BY <1>2, <1>3, ServerInvariant, PTL DEF Spec

------------------------------------------------------------------------------
(* Of ModelCache and FileLock: types of the lock and the shared model.     *)

\* A client inside an attempt has not used up its attempts.
AttemptsLeft ==
    \A c \in Client : pc[c] \in {"check", "remove"} => tries[c] < MaxTries

LEMMA TypeInit == CacheInit => TypeOK /\ AttemptsLeft
<1>1. NoFile \in Files /\ 0 \in 0..MaxTries /\ 0 \in Model /\ 1 \in Model
  BY TriesAssumption, EditsAssumption DEF Files, Model
<1>2. CacheInit => AttemptsLeft
  BY DEF CacheInit, LockInit, AttemptsLeft
<1>3. ASSUME CacheInit
      PROVE  /\ file \in Files /\ aged \in BOOLEAN /\ alive \in SUBSET Client
             /\ pc \in [Client -> Steps] /\ tries \in [Client -> 0..MaxTries]
             /\ judged \in [Client -> Files] /\ raced \in BOOLEAN
  <2>1. file \in Files /\ aged \in BOOLEAN /\ alive \in SUBSET Client /\ raced \in BOOLEAN
    BY <1>1, <1>3 DEF CacheInit, LockInit
  <2>2. pc \in [Client -> Steps]
    BY <1>3 DEF CacheInit, LockInit, Steps
  <2>3. tries \in [Client -> 0..MaxTries]
    BY <1>1, <1>3 DEF CacheInit, LockInit
  <2>4. judged \in [Client -> Files]
    BY <1>1, <1>3 DEF CacheInit, LockInit
  <2> QED BY <2>1, <2>2, <2>3, <2>4
<1>4. CacheInit => /\ build \in Model /\ cacheModel \in Model
                   /\ use \in [Client -> Uses]
                   /\ imported \in [Client -> Model] /\ got \in [Client -> Model]
  BY <1>1 DEF CacheInit, Uses
<1> QED
  BY <1>2, <1>3, <1>4 DEF TypeOK

LEMMA TypeLock ==
    ASSUME TypeOK, AttemptsLeft, NEW c \in Client,
           \/ Enter(c) \/ Create(c) \/ WritePid(c) \/ Check(c) \/ RemoveFile(c)
           \/ Timeout(c) \/ Release(c) \/ Crash(c) \/ Age
           \/ CannotLock(c) \/ Discard
    PROVE  /\ file' \in Files /\ aged' \in BOOLEAN /\ alive' \in SUBSET Client
           /\ pc' \in [Client -> Steps] /\ tries' \in [Client -> 0..MaxTries]
           /\ judged' \in [Client -> Files] /\ raced' \in BOOLEAN
           /\ AttemptsLeft'
<1> USE TriesAssumption DEF TypeOK, AttemptsLeft, Steps
<1>1. CASE Enter(c)
  BY <1>1 DEF Enter
<1>2. CASE Create(c)
  <2>1. [by |-> c, pid |-> FALSE] \in Files
    BY DEF Files
  <2>2. CASE file = NoFile
    <3>1. /\ file' = [by |-> c, pid |-> FALSE] /\ aged' = FALSE
          /\ pc' = [pc EXCEPT ![c] = "write"] /\ tries' = [tries EXCEPT ![c] = 0]
          /\ UNCHANGED <<alive, judged, raced>>
      BY <1>2, <2>2 DEF Create
    <3>2. pc' \in [Client -> Steps] /\ tries' \in [Client -> 0..MaxTries]
      BY <3>1
    <3>3. AttemptsLeft'
      BY <3>1
    <3>4. file' \in Files /\ aged' \in BOOLEAN
      BY <2>1, <3>1
    <3>5. /\ alive' \in SUBSET Client /\ judged' \in [Client -> Files]
          /\ raced' \in BOOLEAN
      BY <3>1
    <3> QED
      BY <3>2, <3>3, <3>4, <3>5
  <2>3. CASE file # NoFile
    <3>1. /\ pc[c] = "create" /\ tries[c] < MaxTries
          /\ pc' = [pc EXCEPT ![c] = "check"]
          /\ UNCHANGED <<file, aged, tries, alive, judged, raced>>
      BY <1>2, <2>3 DEF Create
    <3> QED
      BY <3>1
  <2> QED
    BY <2>2, <2>3
<1>3. CASE WritePid(c)
  <2>1. file' \in Files
    BY <1>3 DEF WritePid, Files, NoFile
  <2> QED
    BY <1>3, <2>1 DEF WritePid
<1>4. CASE Check(c)
  <2>1. CASE Stale
    BY <1>4, <2>1 DEF Check
  <2>2. CASE ~Stale
    BY <1>4, <2>2 DEF Check
  <2> QED
    BY <2>1, <2>2
<1>5. CASE RemoveFile(c)
  <2>1. NoFile \in Files
    BY DEF Files
  <2> QED
    <3>1. tries[c] + 1 \in 0..MaxTries
      BY <1>5 DEF RemoveFile
    <3>2. tries' \in [Client -> 0..MaxTries] /\ pc' \in [Client -> Steps]
      BY <1>5, <3>1 DEF RemoveFile
    <3>3. AttemptsLeft'
      BY <1>5 DEF RemoveFile
    <3>4. judged' \in [Client -> Files] /\ raced' \in BOOLEAN
      BY <1>5, <2>1 DEF RemoveFile
    <3> QED
      BY <1>5, <2>1, <3>2, <3>3, <3>4 DEF RemoveFile
<1>6. CASE Timeout(c)
  BY <1>6 DEF Timeout
<1>7. CASE Release(c)
  BY <1>7 DEF Release, Files
<1>8. CASE Crash(c)
  BY <1>8 DEF Crash
<1>9. CASE Age
  BY <1>9 DEF Age
<1>10. CASE CannotLock(c)
  BY <1>10 DEF CannotLock
<1>11. CASE Discard
  BY <1>11 DEF Discard, Files
<1> QED
  BY <1>1, <1>2, <1>3, <1>4, <1>5, <1>6, <1>7, <1>8, <1>9, <1>10, <1>11

LEMMA TypeNext ==
    TypeOK /\ AttemptsLeft /\ [CacheNext]_cacheVars => (TypeOK /\ AttemptsLeft)'
<1> SUFFICES ASSUME TypeOK, AttemptsLeft, [CacheNext]_cacheVars
             PROVE  (TypeOK /\ AttemptsLeft)'
  OBVIOUS
<1>1. CASE EditBuild
  BY <1>1, EditsAssumption
     DEF EditBuild, lockVars, TypeOK, AttemptsLeft, Model
<1>2. ASSUME NEW c \in Client, Enter(c) \/ CannotLock(c) \/ Crash(c),
             UNCHANGED modelVars
      PROVE  (TypeOK /\ AttemptsLeft)'
  BY <1>2, TypeLock DEF modelVars, TypeOK
<1>3. ASSUME Age, UNCHANGED modelVars PROVE (TypeOK /\ AttemptsLeft)'
  BY <1>3 DEF Age, modelVars, TypeOK, AttemptsLeft
<1>4. ASSUME NEW c \in Client, Acquire(c) PROVE (TypeOK /\ AttemptsLeft)'
  BY <1>4, TypeLock DEF Acquire, modelVars, TypeOK
<1>5. ASSUME NEW c \in Client, Leave(c) PROVE (TypeOK /\ AttemptsLeft)'
  <2>1. 0 \in Model
    BY EditsAssumption DEF Model
  <2> QED
    BY <1>5, <2>1, TypeLock DEF Leave, TypeOK, Uses
<1>6. ASSUME NEW c \in Client,
             \/ Import(c) \/ PublishModel(c) \/ ImportFails(c) \/ ImportUnusable(c)
             \/ Load(c)
      PROVE  (TypeOK /\ AttemptsLeft)'
  <2>1. 0 \in Model
    BY EditsAssumption DEF Model
  <2> QED
    BY <1>6, <2>1
       DEF Import, PublishModel, ImportFails, ImportUnusable, Load, lockVars,
           TypeOK, AttemptsLeft, Uses
<1>7. ASSUME NEW c \in Client, ClearProjectCache(c) PROVE (TypeOK /\ AttemptsLeft)'
  <2>1. 0 \in Model
    BY EditsAssumption DEF Model
  <2> QED
    BY <1>7, <2>1, TypeLock DEF ClearProjectCache, TypeOK
<1>8. CASE UNCHANGED cacheVars
  BY <1>8 DEF cacheVars, lockVars, modelVars, TypeOK, AttemptsLeft
<1> QED
  BY <1>1, <1>2, <1>3, <1>4, <1>5, <1>6, <1>7, <1>8 DEF CacheNext, Environment, Progress

\* Every variable of the lock and of the shared model keeps its type.
THEOREM CacheTypeCorrect == CacheSpec => []TypeOK
<1> QED
  BY TypeInit, TypeNext, PTL DEF CacheSpec

------------------------------------------------------------------------------
(* The lock.                                                               *)

\* A file is only judged stale, and only grows old, when its creator is dead;
\* until the race, the lock file is the holder's own.
LockInv ==
    /\ \A c \in Client : pc[c] = "remove" =>
          judged[c] # NoFile /\ judged[c].by \notin alive
    /\ aged => file # NoFile /\ file.by \notin alive
    /\ ~raced => \A c \in Holders : file.by = c

LEMMA HolderIsAlive ==
    ASSUME TypeOK, NEW c \in Holders
    PROVE  c \in Client /\ c \in alive /\ pc[c] \in {"write", "hold"}
BY DEF TypeOK, Holders

LEMMA LockExclusive == LockInv => ExclusiveUnlessRaced
BY DEF LockInv, ExclusiveUnlessRaced

LEMMA LockInvInit == CacheInit => LockInv
BY DEF CacheInit, LockInit, LockInv, Holders

LEMMA LockInvStep ==
    ASSUME TypeOK, LockInv, NEW c \in Client,
           \/ Enter(c) \/ Create(c) \/ WritePid(c) \/ Check(c) \/ RemoveFile(c)
           \/ Timeout(c) \/ Release(c) \/ Crash(c) \/ Age
           \/ CannotLock(c) \/ Discard
    PROVE  LockInv'
<1> USE DEF LockInv, Holders, TypeOK
<1>1. CASE Enter(c)
  BY <1>1 DEF Enter
<1>2. CASE Create(c)
  <2>1. CASE file = NoFile
    <3>1. ~raced => Holders = {}
      BY <2>1, HolderIsAlive, ClientAssumption DEF NoFile
    <3>2. /\ file' = [by |-> c, pid |-> FALSE] /\ aged' = FALSE
          /\ pc' = [pc EXCEPT ![c] = "write"]
          /\ UNCHANGED <<alive, judged, raced>>
      BY <1>2, <2>1 DEF Create
    <3> QED
      BY <3>1, <3>2
  <2>2. CASE file # NoFile
    BY <1>2, <2>2 DEF Create
  <2> QED
    BY <2>1, <2>2
<1>3. CASE WritePid(c)
  <2>1. file'.by = file.by
    BY <1>3 DEF WritePid, Files, NoFile
  <2>2. file # NoFile => file' # NoFile
    <3> SUFFICES ASSUME file # NoFile PROVE file' # NoFile
      OBVIOUS
    <3>1. file.by \in Client
      BY DEF Files
    <3> QED
      BY <2>1, <3>1, ClientAssumption DEF NoFile
  <2> QED
    BY <1>3, <2>1, <2>2 DEF WritePid
<1>4. CASE Check(c)
  <2>1. CASE Stale
    <3>1. file # NoFile /\ file.by \notin alive
      BY <2>1 DEF Stale
    <3> QED
      BY <1>4, <2>1, <3>1 DEF Check
  <2>2. CASE ~Stale
    BY <1>4, <2>2 DEF Check
  <2> QED
    BY <2>1, <2>2
<1>5. CASE RemoveFile(c)
  <2>1. ASSUME ~raced' PROVE Holders = {}
    <3>1. ~raced /\ (file = judged[c] \/ file = NoFile)
      BY <1>5, <2>1 DEF RemoveFile
    <3>2. file.by \notin alive \/ file = NoFile
      BY <1>5, <3>1 DEF RemoveFile
    <3> QED
      BY <3>1, <3>2, HolderIsAlive, ClientAssumption DEF NoFile
  <2>2. Holders' \subseteq Holders
    BY <1>5 DEF RemoveFile
  <2>3. \A d \in Client : pc'[d] = "remove" =>
            judged'[d] # NoFile /\ judged'[d].by \notin alive'
    BY <1>5 DEF RemoveFile
  <2> QED
    BY <1>5, <2>1, <2>2, <2>3 DEF RemoveFile
<1>6. CASE Timeout(c)
  BY <1>6 DEF Timeout
<1>7. CASE Release(c)
  <2>1. ~raced => Holders' = {}
    BY <1>7 DEF Release
  <2> QED
    BY <1>7, <2>1 DEF Release
<1>8. CASE Crash(c)
  BY <1>8 DEF Crash
<1>9. CASE Age
  BY <1>9 DEF Age
<1>10. CASE CannotLock(c)
  BY <1>10 DEF CannotLock
<1>11. CASE Discard
  <2>1. ASSUME ~raced' PROVE Holders' = {}
    <3>1. ~raced /\ file.by \notin alive
      BY <1>11, <2>1 DEF Discard
    <3>2. Holders = {}
      BY <3>1, HolderIsAlive
    <3> QED
      BY <1>11, <3>2 DEF Discard
  <2> QED
    BY <1>11, <2>1 DEF Discard
<1> QED
  BY <1>1, <1>2, <1>3, <1>4, <1>5, <1>6, <1>7, <1>8, <1>9, <1>10, <1>11

LEMMA LockInvNext == TypeOK /\ LockInv /\ [CacheNext]_cacheVars => LockInv'
<1> SUFFICES ASSUME TypeOK, LockInv, [CacheNext]_cacheVars PROVE LockInv'
  OBVIOUS
<1>1. ASSUME UNCHANGED lockVars PROVE LockInv'
  BY <1>1 DEF lockVars, LockInv, Holders
<1>2. ASSUME Age PROVE LockInv'
  BY <1>2 DEF Age, LockInv, Holders
<1>3. ASSUME NEW c \in Client,
             \/ Enter(c) \/ CannotLock(c) \/ Crash(c) \/ Acquire(c) \/ Leave(c)
             \/ ClearProjectCache(c)
      PROVE  LockInv'
  BY <1>3, LockInvStep DEF Acquire, Leave, ClearProjectCache
<1>4. ASSUME NEW c \in Client,
             \/ Import(c) \/ PublishModel(c) \/ ImportFails(c) \/ ImportUnusable(c)
             \/ Load(c)
      PROVE  LockInv'
  BY <1>1, <1>4 DEF Import, PublishModel, ImportFails, ImportUnusable, Load
<1>5. CASE EditBuild \/ UNCHANGED cacheVars
  BY <1>1, <1>5 DEF EditBuild, cacheVars
<1> QED
  BY <1>2, <1>3, <1>4, <1>5 DEF CacheNext, Environment, Progress

\* The lock excludes, for any number of clients, crashes and recoveries, until
\* a waiter removes a file other than the one it found stale.
THEOREM LockExcludes == CacheSpec => []ExclusiveUnlessRaced
<1> QED
  BY TypeInit, TypeNext, LockInvInit, LockInvNext, LockExclusive, PTL DEF CacheSpec

------------------------------------------------------------------------------
(* The shared model.                                                       *)

\* Only a holder is inside, and until the race what it has imported is at
\* least as new as what is published, then is what is published.
UseInv ==
    /\ cacheModel <= build
    /\ \A c \in alive :
          /\ use[c] # "none" => pc[c] = "hold"
          /\ use[c] = "importing" => imported[c] <= build
          /\ use[c] = "kept" => imported[c] = 0
    /\ ~raced => \A c \in alive :
          /\ use[c] = "importing" => cacheModel <= imported[c]
          /\ use[c] = "published" => cacheModel = imported[c]
          /\ use[c] = "loaded" /\ imported[c] # 0 => got[c] = imported[c]

LEMMA UseInvInit == CacheInit => UseInv
BY DEF CacheInit, LockInit, UseInv

\* Until the race, nobody else is inside with a client that is.
LEMMA AloneInside ==
    ASSUME TypeOK, LockInv, UseInv, ~raced,
           NEW c \in alive, use[c] # "none",
           NEW d \in alive, use[d] # "none"
    PROVE  c = d
BY DEF LockInv, UseInv, Holders

\* A step of the lock leaves what is inside alone.
LEMMA UseInvLock ==
    ASSUME TypeOK, UseInv, NEW c \in Client, UNCHANGED modelVars,
           Enter(c) \/ CannotLock(c) \/ Crash(c) \/ Acquire(c) \/ Age
    PROVE  UseInv'
<1>1. alive' \subseteq alive /\ (~raced' => ~raced)
  <2>1. CASE RemoveFile(c)
    BY <2>1 DEF RemoveFile
  <2>2. CASE \/ Enter(c) \/ Create(c) \/ WritePid(c) \/ Check(c)
             \/ Timeout(c) \/ CannotLock(c) \/ Age
    BY <2>2 DEF Enter, Create, WritePid, Check, Timeout, CannotLock, Age
  <2>3. CASE Crash(c)
    BY <2>3 DEF Crash
  <2> QED
    BY <2>1, <2>2, <2>3 DEF Acquire
<1>2. \A d \in alive : pc[d] = "hold" => pc'[d] = "hold"
  <2>1. CASE Enter(c) \/ CannotLock(c) \/ Crash(c) \/ Age
    BY <2>1 DEF Enter, CannotLock, Crash, Age, TypeOK
  <2>2. CASE Create(c) \/ WritePid(c) \/ Timeout(c)
    BY <2>2 DEF Create, WritePid, Timeout, TypeOK
  <2>3. CASE Check(c) \/ RemoveFile(c)
    BY <2>3 DEF Check, RemoveFile, TypeOK
  <2> QED
    BY <2>1, <2>2, <2>3 DEF Acquire
<1> QED
  BY <1>1, <1>2 DEF modelVars, UseInv

LEMMA UseInvNext == TypeOK /\ LockInv /\ UseInv /\ [CacheNext]_cacheVars => UseInv'
<1> SUFFICES ASSUME TypeOK, LockInv, UseInv, [CacheNext]_cacheVars PROVE UseInv'
  OBVIOUS
<1>1. /\ build \in Nat /\ cacheModel \in Nat
      /\ \A c \in alive : c \in Client /\ imported[c] \in Nat
  BY EditsAssumption DEF TypeOK, Model
<1>2. CASE EditBuild
  BY <1>1, <1>2 DEF EditBuild, lockVars, UseInv
<1>3. ASSUME NEW c \in Client,
             Enter(c) \/ CannotLock(c) \/ Crash(c) \/ Acquire(c) \/ Age,
             UNCHANGED modelVars
      PROVE  UseInv'
  BY <1>3, UseInvLock
<1>4. ASSUME Age, UNCHANGED modelVars PROVE UseInv'
  BY <1>4 DEF Age, modelVars, UseInv
<1>5. ASSUME NEW c \in Client, Import(c) PROVE UseInv'
  <2>1. /\ c \in alive /\ pc[c] = "hold"
        /\ imported' = [imported EXCEPT ![c] = build]
        /\ use' = [use EXCEPT ![c] = "importing"]
        /\ UNCHANGED <<file, aged, alive, pc, tries, judged, raced>>
        /\ UNCHANGED <<build, cacheModel, got>>
    BY <1>5 DEF Import, lockVars
  <2>2. \A d \in alive :
            /\ use'[d] = IF d = c THEN "importing" ELSE use[d]
            /\ imported'[d] = IF d = c THEN build ELSE imported[d]
    BY <1>1, <2>1 DEF TypeOK
  <2> QED
    BY <1>1, <2>1, <2>2 DEF UseInv
<1>6. ASSUME NEW c \in Client, PublishModel(c) PROVE UseInv'
  <2>1. /\ c \in alive /\ use[c] = "importing" /\ cacheModel' = imported[c]
        /\ UNCHANGED <<file, aged, alive, pc, tries, judged, raced>>
        /\ UNCHANGED <<build, imported, got>>
    BY <1>6 DEF PublishModel, lockVars
  <2>2. \A d \in alive : use'[d] = IF d = c THEN "published" ELSE use[d]
    BY <1>1, <1>6 DEF PublishModel, TypeOK
  <2>3. ~raced => \A d \in alive : use[d] # "none" => d = c
    BY <2>1, AloneInside
  <2> QED
    BY <1>1, <2>1, <2>2, <2>3 DEF UseInv
<1>7. ASSUME NEW c \in Client, ImportFails(c) \/ ImportUnusable(c)
      PROVE  UseInv'
  <2>1. /\ c \in alive /\ use[c] = "importing"
        /\ UNCHANGED <<file, aged, alive, pc, tries, judged, raced>>
        /\ UNCHANGED <<build, cacheModel, got>>
    BY <1>7 DEF ImportFails, ImportUnusable, lockVars
  <2>2. \A d \in alive :
            /\ IF d = c THEN use'[d] \in {"kept", "failed"}
                        ELSE use'[d] = use[d]
            /\ imported'[d] = IF d = c THEN 0 ELSE imported[d]
    BY <1>1, <1>7 DEF ImportFails, ImportUnusable, TypeOK
  <2> QED
    BY <1>1, <2>1, <2>2 DEF UseInv
<1>8. ASSUME NEW c \in Client, Load(c) PROVE UseInv'
  <2>1. /\ c \in alive /\ use[c] \in {"published", "kept"}
        /\ UNCHANGED <<file, aged, alive, pc, tries, judged, raced>>
        /\ UNCHANGED <<build, cacheModel, imported>>
    BY <1>8 DEF Load, lockVars
  <2>2. \A d \in alive :
            /\ IF d = c THEN use'[d] \in {"loaded", "failed"}
                        ELSE use'[d] = use[d]
            /\ got'[d] = IF d = c THEN cacheModel ELSE got[d]
    BY <1>1, <1>8 DEF Load, TypeOK
  <2> QED
    BY <1>1, <2>1, <2>2 DEF UseInv
<1>9. ASSUME NEW c \in Client, Leave(c) PROVE UseInv'
  <2>1. /\ c \in alive
        /\ UNCHANGED <<alive, raced, build, cacheModel>>
    BY <1>9 DEF Leave, Release
  <2>2. \A d \in alive :
            /\ use'[d] = IF d = c THEN "none" ELSE use[d]
            /\ d # c => /\ pc'[d] = pc[d] /\ got'[d] = got[d]
                        /\ imported'[d] = imported[d]
    BY <1>1, <1>9 DEF Leave, Release, TypeOK
  <2> QED
    BY <1>1, <2>1, <2>2 DEF UseInv
<1>10. ASSUME NEW c \in Client, ClearProjectCache(c) PROVE UseInv'
  <2>1. /\ cacheModel' = 0
        /\ UNCHANGED <<alive, pc, build, use, got>>
        /\ raced' = (raced \/ file.by \in alive)
    BY <1>10 DEF ClearProjectCache, Discard
  <2>2. \A d \in alive :
            imported'[d] = IF use[d] = "importing" THEN 0 ELSE imported[d]
    BY <1>1, <1>10 DEF ClearProjectCache, TypeOK
  <2>3. ~raced' => \A d \in alive : use[d] = "none"
    BY <2>1 DEF LockInv, UseInv, Holders
  <2> QED
    BY <1>1, <2>1, <2>2, <2>3 DEF UseInv
<1>11. CASE UNCHANGED cacheVars
  BY <1>11 DEF cacheVars, lockVars, modelVars, UseInv
<1> QED
  BY <1>2, <1>3, <1>4, <1>5, <1>6, <1>7, <1>8, <1>9, <1>10, <1>11
     DEF CacheNext, Environment, Progress, Acquire

CacheInv == TypeOK /\ AttemptsLeft /\ LockInv /\ UseInv

LEMMA CacheInvariant == CacheSpec => []CacheInv
<1>1. CacheInit => CacheInv
  BY TypeInit, LockInvInit, UseInvInit DEF CacheInv
<1>2. CacheInv /\ [CacheNext]_cacheVars => CacheInv'
  BY TypeNext, LockInvNext, UseInvNext DEF CacheInv
<1> QED
  BY <1>1, <1>2, PTL DEF CacheSpec

\* A successful import is what the load returns, until the race.
THEOREM LoadReturnsImport == CacheSpec => []LoadsOwnImport
<1>1. CacheInv => LoadsOwnImport
  BY DEF CacheInv, UseInv, LoadsOwnImport
<1> QED
  BY <1>1, CacheInvariant, PTL

\* The published model never gets older, until the race.
THEOREM PublishedNeverRegresses == CacheSpec => NeverRegresses
<1>1. CacheInv /\ [CacheNext]_cacheVars => [raced \/ cacheModel' = 0 \/ cacheModel' >= cacheModel]_cacheVars
  <2> SUFFICES ASSUME CacheInv, CacheNext, ~raced
               PROVE  cacheModel' = 0 \/ cacheModel' >= cacheModel
    OBVIOUS
  <2>1. cacheModel \in Nat
    BY EditsAssumption DEF CacheInv, TypeOK, Model
  <2>2. ASSUME NEW c \in Client, PublishModel(c) PROVE cacheModel' >= cacheModel
    <3>1. /\ c \in alive /\ use[c] = "importing" /\ cacheModel' = imported[c]
          /\ imported[c] \in Nat
      BY <2>2, EditsAssumption DEF PublishModel, CacheInv, TypeOK, Model
    <3> QED
      BY <2>1, <3>1 DEF CacheInv, UseInv
  <2>3. ASSUME NEW c \in Client,
               \/ Acquire(c) \/ Import(c) \/ ImportFails(c) \/ ImportUnusable(c)
               \/ Load(c) \/ Leave(c)
        PROVE  cacheModel' = cacheModel
    BY <2>3 DEF Acquire, Import, ImportFails, ImportUnusable, Load, Leave,
                modelVars
  <2>4. Environment => cacheModel' \in {0, cacheModel}
    BY DEF Environment, EditBuild, ClearProjectCache, modelVars
  <2> QED
    BY <2>1, <2>2, <2>3, <2>4 DEF CacheNext, Progress
<1> QED
  BY <1>1, CacheInvariant, PTL DEF CacheSpec, NeverRegresses
=============================================================================
