-------------------------- MODULE ToolchainsProofs --------------------------
(***************************************************************************)
(* Proofs about Toolchains, for any releases, processes and bounds.  The   *)
(* lock excludes, so that a command may rely on what it has seen when it   *)
(* took it: an installation that its request finds nothing, a removal that *)
(* nobody else changes the list.                                           *)
(***************************************************************************)
EXTENDS Toolchains, TLAPS, FiniteSetTheorems

---------------------------------------------------------------------------
(* The inductive invariant. *)

Holding(p) == run[p].pc \notin {"idle", "lock"}
Removing(p) == run[p].pc \in {"stage", "delete", "undo"}
Placing(p) == run[p].pc \in {"download", "receive", "extract", "place", "record"}

Positions ==
  \A p \in Proc : /\ run[p].from >= 1
                  /\ run[p].pc # "undo" => run[p].at >= 1
                  /\ run[p].pc = "undo" => run[p].at <= Len(run[p].chosen)

TypeInv == TypeOK /\ Positions

Locked ==
  /\ \A p \in Proc : Holding(p) <=> \E l \in lock : l.by = p
  /\ \A l \in lock : l.name = Newest
  /\ \A l, m \in lock : l = m

\* What an installation has found, downloaded and extracted stays true.
TargetOK(p) ==
  /\ Placing(p) => run[p].version \in Versions \ Listed
  /\ run[p].pc = "extract" => archive[run[p].version] = "verified"
  /\ run[p].pc = "place" => run[p].unpacked = Unpacked
  /\ run[p].pc = "record" => home[run[p].version] = Unpacked

\* The candidates that are set aside and may still have to be put back.
Due(p) ==
  CASE run[p].pc = "stage" -> 1 .. run[p].at - 1
    [] run[p].pc = "delete" -> run[p].at .. Len(run[p].chosen)
    [] OTHER -> run[p].from .. run[p].at

\* The command can still take everything back.
Reversible(p) == run[p].pc = "stage" \/ (run[p].pc = "undo" /\ ~run[p].failed)

Unstarted(p) == run[p].at = 1 /\ run[p].from = 1 /\ run[p].aside = {}

ChosenOK(p) ==
  /\ \A i, j \in 1 .. Len(run[p].chosen) : i < j => run[p].chosen[i] < run[p].chosen[j]
  /\ ToSet(run[p].chosen) \subseteq run[p].before
  /\ run[p].at <= Len(run[p].chosen) + 1

AsideOK(p) == \A i \in Due(p) : run[p].chosen[i] \in run[p].aside

DeletingOK(p) == run[p].pc = "delete" => Listed = run[p].before \ ToSet(run[p].chosen)

ReversibleOK(p) ==
  /\ run[p].from = 1
  /\ Listed = run[p].before \ {run[p].chosen[i] : i \in Due(p)}
  /\ \A i \in Due(p) : \E s \in staged :
       s.by = p /\ s.index = i /\ {"metadata", "javac"} \subseteq s.parts

RemovalOK(p) ==
  /\ ~Removing(p) => Unstarted(p)
  /\ Removing(p) => ChosenOK(p) /\ AsideOK(p) /\ DeletingOK(p)
  /\ Reversible(p) => ReversibleOK(p)

TargetInv == \A p \in Proc : TargetOK(p)
RemovalInv == \A p \in Proc : RemovalOK(p)

IInv == TypeInv /\ Locked /\ TargetInv /\ RemovalInv /\ ListedAreWhole

---------------------------------------------------------------------------
(* Types. *)

LEMMA InitTypes == Init => TypeInv
  BY Bounds DEF Init, TypeInv, TypeOK, Positions, Idle, Runs, Steps, Requests, Versions,
                Newest, Whole, Unpacked, Absent

LEMMA IdleIsARun == Idle \in Runs /\ Idle.from = 1 /\ Idle.at = 1 /\ Idle.pc = "idle"
  BY DEF Idle, Runs, Steps, Requests, Newest

\* A change of one field at a time keeps a command's record well-typed.
LEMMA FieldTypes ==
  \A r \in Runs :
    /\ \A x \in Steps : [r EXCEPT !.pc = x] \in Runs
    /\ \A x \in BOOLEAN : /\ [r EXCEPT !.removes = x] \in Runs
                          /\ [r EXCEPT !.all = x] \in Runs
                          /\ [r EXCEPT !.failed = x] \in Runs
    /\ \A x \in Requests : /\ [r EXCEPT !.request = x] \in Runs
                           /\ [r EXCEPT !.version = x] \in Runs
    /\ \A x \in SUBSET Unpacked : [r EXCEPT !.unpacked = x] \in Runs
    /\ \A x \in Seq(Versions) : [r EXCEPT !.chosen = x] \in Runs
    /\ \A x \in Nat : [r EXCEPT !.at = x] \in Runs /\ [r EXCEPT !.from = x] \in Runs
    /\ \A x \in SUBSET Versions : /\ [r EXCEPT !.aside = x] \in Runs
                                  /\ [r EXCEPT !.before = x] \in Runs
<1> SUFFICES ASSUME NEW r \in Runs
             PROVE  /\ \A x \in Steps : [r EXCEPT !.pc = x] \in Runs
                    /\ \A x \in BOOLEAN : /\ [r EXCEPT !.removes = x] \in Runs
                                          /\ [r EXCEPT !.all = x] \in Runs
                                          /\ [r EXCEPT !.failed = x] \in Runs
                    /\ \A x \in Requests : /\ [r EXCEPT !.request = x] \in Runs
                                           /\ [r EXCEPT !.version = x] \in Runs
                    /\ \A x \in SUBSET Unpacked : [r EXCEPT !.unpacked = x] \in Runs
                    /\ \A x \in Seq(Versions) : [r EXCEPT !.chosen = x] \in Runs
                    /\ \A x \in Nat : /\ [r EXCEPT !.at = x] \in Runs
                                      /\ [r EXCEPT !.from = x] \in Runs
                    /\ \A x \in SUBSET Versions : /\ [r EXCEPT !.aside = x] \in Runs
                                                  /\ [r EXCEPT !.before = x] \in Runs
  OBVIOUS
<1>1. \A x \in Steps : [r EXCEPT !.pc = x] \in Runs
  BY DEF Runs
<1>2. \A x \in BOOLEAN : [r EXCEPT !.removes = x] \in Runs
  BY DEF Runs
<1>3. \A x \in BOOLEAN : [r EXCEPT !.all = x] \in Runs
  BY DEF Runs
<1>4. \A x \in BOOLEAN : [r EXCEPT !.failed = x] \in Runs
  BY DEF Runs
<1>5. \A x \in Requests : [r EXCEPT !.request = x] \in Runs
  BY DEF Runs
<1>6. \A x \in Requests : [r EXCEPT !.version = x] \in Runs
  BY DEF Runs
<1>7. \A x \in SUBSET Unpacked : [r EXCEPT !.unpacked = x] \in Runs
  BY DEF Runs
<1>8. \A x \in Seq(Versions) : [r EXCEPT !.chosen = x] \in Runs
  BY DEF Runs
<1>9. \A x \in Nat : [r EXCEPT !.at = x] \in Runs
  BY DEF Runs
<1>10. \A x \in Nat : [r EXCEPT !.from = x] \in Runs
  BY DEF Runs
<1>11. \A x \in SUBSET Versions : [r EXCEPT !.aside = x] \in Runs
  BY DEF Runs
<1>12. \A x \in SUBSET Versions : [r EXCEPT !.before = x] \in Runs
  BY DEF Runs
<1> QED
  BY <1>1, <1>2, <1>3, <1>4, <1>5, <1>6, <1>7, <1>8, <1>9, <1>10, <1>11, <1>12

\* The command of one process changes: positions stay positive with it.
Becomes(p, r) ==
  /\ run' = [run EXCEPT ![p] = r]
  /\ r \in Runs /\ r.from >= 1
  /\ r.pc # "undo" => r.at >= 1
  /\ r.pc = "undo" => r.at <= Len(r.chosen)

LEMMA BecomesTypes ==
  ASSUME TypeInv, NEW p \in Proc, NEW r, Becomes(p, r)
  PROVE  /\ run' \in [Proc -> Runs] /\ Positions'
         /\ run'[p] = r /\ \A q \in Proc \ {p} : run'[q] = run[q]
  BY DEF Becomes, TypeInv, TypeOK, Positions

LEMMA EndTypes ==
  ASSUME TypeInv, NEW p \in Proc, End(p)
  PROVE  /\ run' \in [Proc -> Runs] /\ lock' \subseteq [by : Proc, name : Requests]
         /\ Positions'
<1>1. Becomes(p, Idle)
  BY IdleIsARun DEF End, Becomes
<1> QED
  BY <1>1, BecomesTypes DEF End, TypeInv, TypeOK

LEMMA GotoTypes ==
  ASSUME TypeInv, NEW p \in Proc, NEW step \in Steps, Goto(p, step),
         step # "undo", run[p].pc # "undo"
  PROVE  run' \in [Proc -> Runs] /\ Positions'
<1> DEFINE r == [run[p] EXCEPT !.pc = step]
<1>1. run[p] \in Runs /\ r \in Runs
  BY FieldTypes DEF TypeInv, TypeOK
<1>2. r.from = run[p].from /\ r.at = run[p].at /\ r.pc = step
  BY <1>1 DEF Runs
<1>3. Becomes(p, r)
  BY <1>1, <1>2 DEF Goto, Becomes, TypeInv, Positions
<1> QED
  BY <1>3, BecomesTypes

LEMMA AcquireTypes ==
  ASSUME TypeInv, NEW p \in Proc, Acquire(p)
  PROVE  lock' \subseteq [by : Proc, name : Requests]
  BY DEF TypeInv, TypeOK, Acquire, LockName, Requests

LEMMA OldestFirstTypes ==
  ASSUME NEW S \in SUBSET Versions, NEW order \in OldestFirst(S)
  PROVE  /\ order \in Seq(Versions) /\ ToSet(order) \subseteq S
         /\ \A i, j \in 1 .. Len(order) : i < j => order[i] < order[j]
<1>1. IsFiniteSet(Versions)
  BY Bounds, FS_Interval DEF Versions
<1>2. Cardinality(S) \in Nat
  BY <1>1, FS_Subset, FS_CardinalityType
<1>3. order \in [1 .. Cardinality(S) -> S]
  BY DEF OldestFirst
<1>4. order \in Seq(S) /\ Len(order) = Cardinality(S)
  BY <1>2, <1>3
<1>5. ToSet(order) \subseteq S
  BY <1>3 DEF ToSet
<1>6. \A i, j \in 1 .. Len(order) : i < j => order[i] < order[j]
  BY <1>3, <1>4 DEF OldestFirst
<1>7. order \in Seq(Versions)
  BY <1>4
<1> QED
  BY <1>5, <1>6, <1>7

LEMMA InstallTypes ==
  ASSUME TypeInv, NEW p \in Proc, InstallStep(p)
  PROVE  TypeInv'
<1>r. run[p] \in Runs /\ run[p].from >= 1
  BY DEF TypeInv, TypeOK, Positions
<1>1. ASSUME NEW request \in Requests, StartInstall(p, request)
      PROVE  TypeInv'
  <2> DEFINE r == [[Idle EXCEPT !.pc = "lock"] EXCEPT !.request = request]
  <2>1. r \in Runs
    BY IdleIsARun, FieldTypes DEF Steps
  <2>2. r.from = 1 /\ r.at = 1 /\ r.pc = "lock"
    BY IdleIsARun DEF Runs
  <2>3. Becomes(p, r)
    BY <1>1, <2>1, <2>2 DEF StartInstall, Becomes
  <2> QED
    BY <1>1, <2>3, BecomesTypes DEF StartInstall, TypeInv, TypeOK
<1>2. CASE LockToInstall(p)
  BY <1>2, GotoTypes, AcquireTypes DEF LockToInstall, At, Steps, TypeInv, TypeOK
<1>3. CASE FindAgain(p)
  <2>1. CASE End(p)
    BY <1>3, <2>1, EndTypes DEF FindAgain, TypeInv, TypeOK
  <2>2. ASSUME NEW v \in Versions, UNCHANGED lock,
               run' = [run EXCEPT ![p].pc = "download", ![p].version = v]
        PROVE  TypeInv'
    <3> DEFINE r == [[run[p] EXCEPT !.pc = "download"] EXCEPT !.version = v]
    <3>1. r \in Runs
      BY <1>r, FieldTypes DEF Steps, Requests
    <3>2. r.from = run[p].from /\ r.at = run[p].at /\ r.pc = "download"
      BY <1>r DEF Runs
    <3>3. Becomes(p, r)
      BY <1>3, <2>2, <3>1, <3>2 DEF FindAgain, At, Becomes, TypeInv, Positions
    <3> QED
      BY <1>3, <2>2, <3>3, BecomesTypes DEF FindAgain, TypeInv, TypeOK
  <2> QED
    BY <1>3, <2>1, <2>2 DEF FindAgain, Resolved
<1>4. CASE Download(p)
  BY <1>4, GotoTypes DEF Download, At, Steps, TypeInv, TypeOK
<1>5. CASE Receive(p)
  BY <1>5, GotoTypes DEF Receive, At, Steps, TypeInv, TypeOK
<1>6. CASE Extract(p)
  <2>1. PICK parts \in SUBSET Unpacked :
          run' = [run EXCEPT ![p].pc = "place", ![p].unpacked = parts]
    BY <1>6 DEF Extract
  <2> DEFINE r == [[run[p] EXCEPT !.pc = "place"] EXCEPT !.unpacked = parts]
  <2>2. r \in Runs
    BY <1>r, FieldTypes DEF Steps
  <2>3. r.from = run[p].from /\ r.at = run[p].at /\ r.pc = "place"
    BY <1>r DEF Runs
  <2>4. Becomes(p, r)
    BY <1>6, <2>1, <2>2, <2>3 DEF Extract, At, Becomes, TypeInv, Positions
  <2> QED
    BY <1>6, <2>4, BecomesTypes DEF Extract, TypeInv, TypeOK
<1>7. CASE Clear(p)
  BY <1>7 DEF Clear, Absent, TypeInv, TypeOK, Positions
<1>8. CASE Place(p)
  <2>1. run[p].unpacked \in SUBSET Whole
    BY <1>r DEF Runs, Whole
  <2>2. run' \in [Proc -> Runs] /\ Positions'
    BY <1>8, GotoTypes DEF Place, At, Steps
  <2> QED
    BY <1>8, <2>1, <2>2 DEF Place, TypeInv, TypeOK
<1>9. CASE Record(p)
  BY <1>9, EndTypes DEF Record, Whole, TypeInv, TypeOK
<1> QED
  BY <1>1, <1>2, <1>3, <1>4, <1>5, <1>6, <1>7, <1>8, <1>9 DEF InstallStep

LEMMA RemainsTypes ==
  ASSUME TypeInv, NEW p \in Proc, Remains(p)
  PROVE  /\ staged' \subseteq [by : Proc, index : Nat, parts : SUBSET Whole]
         /\ \A s, t \in staged' : s.by = t.by /\ s.index = t.index => s = t
  BY DEF TypeInv, TypeOK, Remains, Aside, Runs

LEMMA UndoneTypes ==
  ASSUME TypeInv, NEW p \in Proc, NEW first \in Nat, NEW last \in Nat, first >= 1,
         last <= Len(run[p].chosen), NEW failed \in BOOLEAN, Undone(p, first, last, failed)
  PROVE  run' \in [Proc -> Runs] /\ Positions'
<1> DEFINE r == [[[[run[p] EXCEPT !.pc = "undo"] EXCEPT !.from = first]
                   EXCEPT !.at = last] EXCEPT !.failed = failed]
<1>1. run[p] \in Runs
  BY DEF TypeInv, TypeOK
<1>2. r \in Runs
  BY <1>1, FieldTypes DEF Steps
<1>3. r.pc = "undo" /\ r.from = first /\ r.at = last /\ r.chosen = run[p].chosen
  BY <1>1 DEF Runs
<1>4. Becomes(p, r)
  BY <1>2, <1>3 DEF Undone, Becomes
<1> QED
  BY <1>4, BecomesTypes

LEMMA RemoveTypes ==
  ASSUME TypeInv, NEW p \in Proc, RemoveStep(p)
  PROVE  TypeInv'
<1>r. /\ run[p] \in Runs /\ run[p].at \in Nat /\ run[p].from \in Nat /\ run[p].from >= 1
      /\ Len(run[p].chosen) \in Nat /\ run[p].aside \in SUBSET Versions
      /\ \A i \in 1 .. Len(run[p].chosen) : run[p].chosen[i] \in Versions
  BY DEF TypeInv, TypeOK, Positions, Runs
<1>1. ASSUME NEW request \in Requests, NEW all \in BOOLEAN, StartRemove(p, request, all)
      PROVE  TypeInv'
  <2> DEFINE r == [[[[Idle EXCEPT !.pc = "lock"] EXCEPT !.removes = TRUE]
                     EXCEPT !.request = request] EXCEPT !.all = all]
  <2>1. r \in Runs
    BY IdleIsARun, FieldTypes DEF Steps
  <2>2. r.from = 1 /\ r.at = 1 /\ r.pc = "lock"
    BY IdleIsARun DEF Runs
  <2>3. Becomes(p, r)
    BY <1>1, <2>1, <2>2 DEF StartRemove, Becomes
  <2> QED
    BY <1>1, <2>3, BecomesTypes DEF StartRemove, TypeInv, TypeOK
<1>2. CASE LockToRemove(p)
  BY <1>2, GotoTypes, AcquireTypes DEF LockToRemove, At, Steps, TypeInv, TypeOK
<1>3. CASE Select(p)
  <2>1. CASE End(p)
    BY <1>3, <2>1, EndTypes DEF Select, TypeInv, TypeOK
  <2>2. CASE ~End(p)
    <3>1. PICK order \in OldestFirst(Candidates(p)) :
            run' = [run EXCEPT ![p].pc = "stage", ![p].before = Listed, ![p].chosen = order]
      BY <1>3, <2>2 DEF Select
    <3>2. Listed \subseteq Versions /\ Candidates(p) \subseteq Versions
      BY DEF Listed, Candidates, Found
    <3>3. order \in Seq(Versions)
      BY <3>1, <3>2, OldestFirstTypes
    <3> DEFINE r == [[[run[p] EXCEPT !.pc = "stage"] EXCEPT !.before = Listed]
                      EXCEPT !.chosen = order]
    <3>4. r \in Runs
      BY <1>r, <3>2, <3>3, FieldTypes DEF Steps
    <3>5. r.from = run[p].from /\ r.at = run[p].at /\ r.pc = "stage"
      BY <1>r DEF Runs
    <3>6. Becomes(p, r)
      BY <1>3, <3>1, <3>4, <3>5 DEF Select, At, Becomes, TypeInv, Positions
    <3> QED
      BY <1>3, <2>2, <3>6, BecomesTypes DEF Select, TypeInv, TypeOK
  <2> QED
    BY <2>1, <2>2
<1>4. CASE Stage(p)
  <2>1. run[p].pc = "stage" /\ run[p].at >= 1 /\ run[p].at <= Len(run[p].chosen)
    BY <1>4 DEF Stage, At, More, TypeInv, Positions
  <2>2. Next1(p) \in Versions
    BY <1>r, <2>1 DEF Next1
  <2> DEFINE r == [[run[p] EXCEPT !.at = run[p].at + 1]
                    EXCEPT !.aside = run[p].aside \cup {Next1(p)}]
  <2>3. r \in Runs
    <3>1. run[p].at + 1 \in Nat /\ run[p].aside \cup {Next1(p)} \in SUBSET Versions
      BY <1>r, <2>2
    <3> QED
      BY <1>r, <3>1, FieldTypes
  <2>4. r.from = run[p].from /\ r.at = run[p].at + 1 /\ r.pc = "stage"
    BY <1>r, <2>1 DEF Runs
  <2>5. run' = [run EXCEPT ![p] = r]
    BY <1>4, <1>r DEF Stage, Runs, TypeInv, TypeOK
  <2>6. Becomes(p, r)
    BY <1>r, <2>1, <2>3, <2>4, <2>5 DEF Becomes
  <2>7. run' \in [Proc -> Runs] /\ Positions'
    BY <2>6, BecomesTypes
  <2>8. home[Next1(p)] \in SUBSET Whole
    BY <2>2 DEF TypeInv, TypeOK
  <2>9. staged' \subseteq [by : Proc, index : Nat, parts : SUBSET Whole]
    BY <1>4, <1>r, <2>8 DEF Stage, TypeInv, TypeOK
  <2>10. \A s, t \in staged' : s.by = t.by /\ s.index = t.index => s = t
    BY <1>4 DEF Stage, Aside, TypeInv, TypeOK
  <2>11. home' \in [Versions -> SUBSET Whole]
    BY <1>4 DEF Stage, Absent, TypeInv, TypeOK
  <2> QED
    BY <1>4, <2>7, <2>9, <2>10, <2>11 DEF Stage, TypeInv, TypeOK
<1>5. CASE StageFails(p)
  <2>1. /\ run[p].at - 1 \in Nat /\ run[p].at - 1 <= Len(run[p].chosen)
        /\ 1 \in Nat /\ 1 >= 1
    BY <1>5, <1>r DEF StageFails, At, More, TypeInv, Positions
  <2>2. Undone(p, 1, run[p].at - 1, FALSE)
    BY <1>5 DEF StageFails
  <2>3. run' \in [Proc -> Runs] /\ Positions'
    BY <2>1, <2>2, UndoneTypes, Zenon
  <2> QED
    BY <1>5, <2>3 DEF StageFails, Fault, TypeInv, TypeOK
<1>6. CASE AllStaged(p)
  <2> DEFINE r == [[run[p] EXCEPT !.pc = "delete"] EXCEPT !.at = 1]
  <2>1. r \in Runs
    BY <1>r, FieldTypes DEF Steps
  <2>2. r.from = run[p].from /\ r.at = 1 /\ r.pc = "delete"
    BY <1>r DEF Runs
  <2>3. run' = [run EXCEPT ![p] = r]
    BY <1>6, <1>r DEF AllStaged, Runs, TypeInv, TypeOK
  <2>4. Becomes(p, r)
    BY <1>r, <2>1, <2>2, <2>3 DEF Becomes
  <2> QED
    BY <1>6, <2>4, BecomesTypes DEF AllStaged, TypeInv, TypeOK
<1>7. CASE Delete(p)
  <2> DEFINE r == [[run[p] EXCEPT !.at = run[p].at + 1]
                    EXCEPT !.aside = run[p].aside \ {Next1(p)}]
  <2>1. r \in Runs
    <3>1. run[p].at + 1 \in Nat /\ run[p].aside \ {Next1(p)} \in SUBSET Versions
      BY <1>r
    <3> QED
      BY <1>r, <3>1, FieldTypes
  <2>2. r.from = run[p].from /\ r.at = run[p].at + 1 /\ r.pc = "delete"
    BY <1>7, <1>r DEF Delete, At, Runs
  <2>3. run' = [run EXCEPT ![p] = r]
    BY <1>7, <1>r DEF Delete, Runs, TypeInv, TypeOK
  <2>4. Becomes(p, r)
    BY <1>r, <2>1, <2>2, <2>3 DEF Becomes
  <2> QED
    BY <1>7, <2>4, BecomesTypes DEF Delete, TypeInv, TypeOK
<1>8. CASE DeleteFails(p)
  <2>1. run[p].at >= 1 /\ Len(run[p].chosen) <= Len(run[p].chosen)
    BY <1>8, <1>r DEF DeleteFails, At, TypeInv, Positions
  <2>2. Undone(p, run[p].at, Len(run[p].chosen), TRUE)
    BY <1>8 DEF DeleteFails
  <2>3. run' \in [Proc -> Runs] /\ Positions'
    BY <1>r, <2>1, <2>2, UndoneTypes, Zenon
  <2> QED
    BY <1>8, <2>3, RemainsTypes DEF DeleteFails, Fault, TypeInv, TypeOK
<1>9. CASE FinishRemove(p) \/ FinishUndo(p)
  BY <1>9, EndTypes DEF FinishRemove, FinishUndo, TypeInv, TypeOK
<1>10. ASSUME NEW s \in staged, PutBack(p, s)
       PROVE  TypeInv'
  <2>1. /\ run[p].pc = "undo" /\ run[p].at - 1 \in Nat
        /\ run[p].at \in 1 .. Len(run[p].chosen)
    BY <1>10, <1>r DEF PutBack, At, TypeInv, Positions
  <2> DEFINE r == [[run[p] EXCEPT !.at = run[p].at - 1]
                    EXCEPT !.aside = run[p].aside \ {Next1(p)}]
  <2>2. r \in Runs
    BY <1>r, <2>1, FieldTypes
  <2>3. /\ r.from = run[p].from /\ r.pc = "undo" /\ r.at = run[p].at - 1
        /\ r.chosen = run[p].chosen
    BY <1>r, <2>1 DEF Runs
  <2>4. run' = [run EXCEPT ![p] = r]
    BY <1>10, <1>r DEF PutBack, Runs, TypeInv, TypeOK
  <2>5. Becomes(p, r)
    BY <1>r, <2>1, <2>2, <2>3, <2>4 DEF Becomes
  <2>6. run' \in [Proc -> Runs] /\ Positions'
    BY <2>5, BecomesTypes
  <2>7. s.parts \in SUBSET Whole
    BY DEF TypeInv, TypeOK
  <2>8. home' \in [Versions -> SUBSET Whole]
    BY <1>10, <2>7 DEF PutBack, TypeInv, TypeOK
  <2>9. damaged' \subseteq Versions
    <3>1. Next1(p) \in Versions
      BY <1>r, <2>1 DEF Next1
    <3> QED
      BY <1>10, <3>1 DEF PutBack, TypeInv, TypeOK
  <2> QED
    BY <1>10, <2>6, <2>8, <2>9 DEF PutBack, TypeInv, TypeOK
<1>11. CASE NotPutBack(p)
  <2>1. /\ run[p].pc = "undo" /\ run[p].at - 1 \in Nat
        /\ run[p].at <= Len(run[p].chosen)
    BY <1>11, <1>r DEF NotPutBack, At, TypeInv, Positions
  <2> DEFINE r == [[run[p] EXCEPT !.at = run[p].at - 1] EXCEPT !.failed = TRUE]
  <2>2. r \in Runs
    BY <1>r, <2>1, FieldTypes
  <2>3. /\ r.from = run[p].from /\ r.pc = "undo" /\ r.at = run[p].at - 1
        /\ r.chosen = run[p].chosen
    BY <1>r, <2>1 DEF Runs
  <2>4. run' = [run EXCEPT ![p] = r]
    BY <1>11, <1>r DEF NotPutBack, Runs, TypeInv, TypeOK
  <2>5. Becomes(p, r)
    BY <1>r, <2>1, <2>2, <2>3, <2>4 DEF Becomes
  <2> QED
    BY <1>11, <2>5, BecomesTypes DEF NotPutBack, Fault, TypeInv, TypeOK
<1> QED
  BY <1>1, <1>2, <1>3, <1>4, <1>5, <1>6, <1>7, <1>8, <1>9, <1>10, <1>11 DEF RemoveStep

LEMMA StopTypes ==
  ASSUME TypeInv, NEW p \in Proc, Stop(p)
  PROVE  TypeInv'
<1>1. run' \in [Proc -> Runs] /\ lock' \subseteq [by : Proc, name : Requests] /\ Positions'
  BY EndTypes DEF Stop
<1>2. home' \in [Versions -> SUBSET Whole]
  BY DEF Stop, TypeInv, TypeOK
<1>3. /\ staged' \subseteq [by : Proc, index : Nat, parts : SUBSET Whole]
      /\ \A s, t \in staged' : s.by = t.by /\ s.index = t.index => s = t
  BY RemainsTypes DEF Stop, TypeInv, TypeOK
<1> QED
  BY <1>1, <1>2, <1>3 DEF Stop, Fault, TypeInv, TypeOK

LEMMA NextTypes == TypeInv /\ [Next]_vars => TypeInv'
<1> SUFFICES ASSUME TypeInv, [Next]_vars PROVE TypeInv'
  OBVIOUS
<1>1. CASE UNCHANGED vars
  BY <1>1 DEF vars, TypeInv, TypeOK, Positions
<1>2. CASE Next
  BY <1>2, InstallTypes, RemoveTypes, StopTypes DEF Next
<1> QED
  BY <1>1, <1>2

(* Every variable keeps its type, whatever is interrupted (toolchain.rs). *)
THEOREM TypeCorrect == Spec => []TypeOK
<1>1. Spec => []TypeInv
  BY InitTypes, NextTypes, PTL DEF Spec
<1>2. TypeInv => TypeOK
  BY DEF TypeInv
<1> QED
  BY <1>1, <1>2, PTL

---------------------------------------------------------------------------
(* The lock, and what a step of its holder may rely on. *)

LEMMA Alone ==
  ASSUME Locked, NEW p \in Proc, NEW q \in Proc, Holding(p), Holding(q)
  PROVE  p = q
  BY DEF Locked

LEMMA ListedAfter ==
  ASSUME TypeInv, NEW v \in Versions, NEW parts, home' = [home EXCEPT ![v] = parts]
  PROVE  Listed' = IF {"metadata", "javac"} \subseteq parts THEN Listed \cup {v}
                                                            ELSE Listed \ {v}
  BY DEF TypeInv, TypeOK, Listed

\* A command begins, takes the lock, goes on under it, or ends.
Begins(p) ==
  /\ run[p].pc = "idle" /\ run'[p].pc = "lock"
  /\ run'[p].at = 1 /\ run'[p].from = 1 /\ run'[p].aside = {}
  /\ UNCHANGED <<home, staged, archive, lock, damaged>>

Locks(p) ==
  /\ run[p].pc = "lock" /\ run'[p].pc \in {"find", "select"} /\ Acquire(p)
  /\ run'[p].at = run[p].at /\ run'[p].from = run[p].from /\ run'[p].aside = run[p].aside
  /\ UNCHANGED <<home, staged, archive, damaged>>

GoesOn(p) == Holding(p) /\ Holding(p)' /\ lock' = lock

LEMMA LockedNext ==
  ASSUME TypeInv, Locked, NEW p \in Proc, \A q \in Proc \ {p} : run'[q] = run[q],
         Begins(p) \/ Locks(p) \/ GoesOn(p) \/ (End(p) /\ run'[p].pc = "idle")
  PROVE  Locked'
<1>1. \A q \in Proc \ {p} : Holding(q)' <=> Holding(q)
  BY DEF Holding
<1>2. CASE Begins(p)
  <2>1. ~Holding(p) /\ ~Holding(p)' /\ lock' = lock
    BY <1>2 DEF Begins, Holding
  <2> QED
    BY <1>1, <2>1 DEF Locked
<1>3. CASE Locks(p)
  <2>1. lock = {} /\ lock' = {[by |-> p, name |-> Newest]}
    BY <1>3 DEF Locks, Acquire, LockName, Locked
  <2>2. Holding(p)'
    BY <1>3 DEF Locks, Holding
  <2> QED
    BY <1>1, <2>1, <2>2 DEF Locked
<1>4. CASE GoesOn(p)
  BY <1>1, <1>4 DEF GoesOn, Locked
<1>5. CASE End(p) /\ run'[p].pc = "idle"
  <2>1. lock' = {l \in lock : l.by # p}
    BY <1>5 DEF End
  <2>2. ~Holding(p)'
    BY <1>5 DEF Holding
  <2> QED
    BY <1>1, <2>1, <2>2 DEF Locked
<1> QED
  BY <1>2, <1>3, <1>4, <1>5

\* What the other processes rely on: they hold no lock, or nothing changes.
LEMMA OthersOK ==
  ASSUME IInv, NEW p \in Proc, NEW q \in Proc \ {p}, run'[q] = run[q],
         Holding(p) \/ UNCHANGED <<home, staged, archive>>
  PROVE  TargetOK(q)' /\ RemovalOK(q)'
<1>1. TargetOK(q) /\ RemovalOK(q)
  BY DEF IInv, TargetInv, RemovalInv
<1>2. CASE UNCHANGED <<home, staged, archive>>
  <2>1. Listed' = Listed /\ Due(q)' = Due(q)
    BY <1>2 DEF Listed, Due
  <2>2. TargetOK(q)'
    BY <1>1, <1>2, <2>1 DEF TargetOK, Placing
  <2>3. RemovalOK(q)'
    BY <1>1, <1>2, <2>1 DEF RemovalOK, Removing, Reversible, Unstarted, ChosenOK, AsideOK,
                            DeletingOK, ReversibleOK
  <2> QED
    BY <2>2, <2>3
<1>3. CASE Holding(p)
  <2>1. ~Holding(q)
    BY <1>3, Alone DEF IInv
  <2>2. run'[q].pc \in {"idle", "lock"}
    BY <2>1 DEF Holding
  <2>3. TargetOK(q)'
    BY <2>2 DEF TargetOK, Placing
  <2>4. RemovalOK(q)'
    BY <1>1, <2>1, <2>2 DEF RemovalOK, Removing, Reversible, Unstarted, Holding
  <2> QED
    BY <2>3, <2>4
<1> QED
  BY <1>2, <1>3

LEMMA IdleOK ==
  ASSUME NEW p \in Proc, run'[p].pc \in {"idle", "lock", "find", "select"},
         run'[p].at = 1, run'[p].from = 1, run'[p].aside = {}
  PROVE  TargetOK(p)' /\ RemovalOK(p)'
  BY DEF TargetOK, Placing, RemovalOK, Removing, Reversible, Unstarted

---------------------------------------------------------------------------
(* Every step keeps the invariant; the steps of an installation first.      *)

Kept(p) == Locked' /\ TargetOK(p)' /\ RemovalOK(p)' /\ ListedAreWhole'

LEMMA RunFacts ==
  ASSUME TypeInv, NEW p \in Proc
  PROVE  /\ run[p] \in Runs /\ run[p].at \in Nat /\ run[p].from \in Nat /\ run[p].from >= 1
         /\ run[p].chosen \in Seq(Versions) /\ Len(run[p].chosen) \in Nat
         /\ DOMAIN run[p].chosen = 1 .. Len(run[p].chosen)
         /\ run[p].aside \in SUBSET Versions /\ run[p].before \in SUBSET Versions
         /\ \A i \in 1 .. Len(run[p].chosen) : run[p].chosen[i] \in Versions
  BY DEF TypeInv, TypeOK, Positions, Runs

LEMMA EndKept ==
  ASSUME IInv, NEW p \in Proc, End(p)
  PROVE  /\ Locked' /\ TargetOK(p)' /\ RemovalOK(p)'
         /\ \A q \in Proc \ {p} : run'[q] = run[q]
         /\ run'[p].aside = {}
<1>1. run'[p] = Idle /\ \A q \in Proc \ {p} : run'[q] = run[q]
  BY DEF End, IInv, TypeInv, TypeOK
<1>2. /\ run'[p].pc = "idle" /\ run'[p].at = 1 /\ run'[p].from = 1 /\ run'[p].aside = {}
  BY <1>1 DEF Idle
<1>3. Locked'
  BY <1>1, <1>2, LockedNext DEF IInv
<1> QED
  BY <1>1, <1>2, <1>3, IdleOK

LEMMA StartKept ==
  ASSUME IInv, NEW p \in Proc,
         \/ \E request \in Requests : StartInstall(p, request)
         \/ \E request \in Requests, all \in BOOLEAN : StartRemove(p, request, all)
  PROVE  /\ Kept(p) /\ \A q \in Proc \ {p} : run'[q] = run[q]
         /\ UNCHANGED <<home, staged, archive>> /\ run'[p].aside = {} /\ run[p].aside = {}
<1> DEFINE Started ==
      /\ run[p].pc = "idle" /\ UNCHANGED <<home, staged, archive, lock, damaged>>
      /\ \A q \in Proc \ {p} : run'[q] = run[q]
      /\ run'[p].pc = "lock" /\ run'[p].at = 1 /\ run'[p].from = 1 /\ run'[p].aside = {}
<1>1. Started
  <2>1. ASSUME NEW request \in Requests, StartInstall(p, request)
        PROVE  Started
    BY <2>1, IdleIsARun DEF StartInstall, At, Idle, IInv, TypeInv, TypeOK
  <2>2. ASSUME NEW request \in Requests, NEW all \in BOOLEAN, StartRemove(p, request, all)
        PROVE  Started
    BY <2>2, IdleIsARun DEF StartRemove, At, Idle, IInv, TypeInv, TypeOK
  <2> QED
    BY <2>1, <2>2
<1>2. Begins(p)
  BY <1>1 DEF Begins
<1>3. Locked'
  BY <1>1, <1>2, LockedNext DEF IInv
<1>4. ListedAreWhole'
  BY <1>1 DEF IInv, ListedAreWhole, Listed
<1>5. run[p].aside = {}
  BY <1>1 DEF IInv, RemovalInv, RemovalOK, Removing, Unstarted
<1> QED
  BY <1>1, <1>3, <1>4, <1>5, IdleOK DEF Kept

LEMMA LockKept ==
  ASSUME IInv, NEW p \in Proc, LockToInstall(p) \/ LockToRemove(p)
  PROVE  /\ Kept(p) /\ \A q \in Proc \ {p} : run'[q] = run[q]
         /\ UNCHANGED <<home, staged, archive>> /\ run'[p].aside = run[p].aside
<1>1. run[p] \in Runs
  BY RunFacts DEF IInv
<1>2. /\ run[p].pc = "lock" /\ UNCHANGED <<home, staged, archive, damaged>> /\ Acquire(p)
      /\ \A q \in Proc \ {p} : run'[q] = run[q]
      /\ run'[p].pc \in {"find", "select"} /\ run'[p].at = run[p].at
      /\ run'[p].from = run[p].from /\ run'[p].aside = run[p].aside
  BY <1>1 DEF LockToInstall, LockToRemove, At, Goto, Runs, IInv, TypeInv, TypeOK
<1>3. Locks(p)
  BY <1>2 DEF Locks
<1>4. Locked'
  BY <1>2, <1>3, LockedNext DEF IInv
<1>5. ListedAreWhole'
  BY <1>2 DEF IInv, ListedAreWhole, Listed
<1>6. run[p].at = 1 /\ run[p].from = 1 /\ run[p].aside = {}
  BY <1>2 DEF IInv, RemovalInv, RemovalOK, Removing, Unstarted
<1> QED
  BY <1>2, <1>4, <1>5, <1>6, IdleOK DEF Kept

LEMMA GoesOnKept ==
  ASSUME IInv, NEW p \in Proc, GoesOn(p), \A q \in Proc \ {p} : run'[q] = run[q]
  PROVE  Locked'
  BY LockedNext DEF IInv

\* A step of an installation changes nothing a removal relies on.
LEMMA UnstartedKept ==
  ASSUME IInv, NEW p \in Proc, run[p].pc \notin {"stage", "delete", "undo"},
         run'[p].pc \notin {"stage", "delete", "undo"},
         run'[p].at = run[p].at, run'[p].from = run[p].from, run'[p].aside = run[p].aside
  PROVE  RemovalOK(p)'
  BY DEF IInv, RemovalInv, RemovalOK, Removing, Reversible, Unstarted

InstallFrame(p) ==
  /\ Holding(p) /\ Kept(p) /\ \A q \in Proc \ {p} : run'[q] = run[q]
  /\ run'[p].aside = run[p].aside

LEMMA FindAgainKept ==
  ASSUME IInv, NEW p \in Proc, FindAgain(p)
  PROVE  InstallFrame(p) /\ Listed' = Listed
<1>1. Holding(p) /\ Listed' = Listed /\ ListedAreWhole'
  BY DEF FindAgain, At, Holding, IInv, ListedAreWhole, Listed
<1>2. run[p].aside = {}
  BY DEF FindAgain, At, IInv, RemovalInv, RemovalOK, Removing, Unstarted
<1>3. CASE End(p)
  BY <1>1, <1>2, <1>3, EndKept DEF InstallFrame, Kept
<1>4. CASE ~End(p)
  <2>1. PICK v \in Versions : /\ run[p].request \in {Newest, v}
                              /\ run' = [run EXCEPT ![p].pc = "download", ![p].version = v]
    BY <1>4 DEF FindAgain, Resolved
  <2>2. Found(run[p].request) = {} /\ lock' = lock /\ run[p].pc = "find"
    BY <1>4 DEF FindAgain, At
  <2>3. run[p] \in Runs
    BY RunFacts DEF IInv
  <2>4. /\ \A q \in Proc \ {p} : run'[q] = run[q]
        /\ run'[p].pc = "download" /\ run'[p].version = v
        /\ run'[p].at = run[p].at /\ run'[p].from = run[p].from /\ run'[p].aside = run[p].aside
    BY <2>1, <2>3 DEF Runs, IInv, TypeInv, TypeOK
  <2>5. v \notin Listed
    BY <2>1, <2>2 DEF Found
  <2>6. TargetOK(p)'
    BY <1>1, <2>4, <2>5 DEF TargetOK, Placing, Versions
  <2>7. GoesOn(p)
    BY <2>2, <2>4 DEF GoesOn, Holding
  <2> QED
    BY <1>1, <2>2, <2>4, <2>6, <2>7, GoesOnKept, UnstartedKept DEF InstallFrame, Kept
<1> QED
  BY <1>3, <1>4

LEMMA DownloadKept ==
  ASSUME IInv, NEW p \in Proc, Download(p) \/ Receive(p) \/ Extract(p)
  PROVE  InstallFrame(p) /\ Listed' = Listed
<1>1. run[p] \in Runs
  BY RunFacts DEF IInv
<1>2. /\ run[p].pc \in {"download", "receive", "extract"}
      /\ run'[p].pc \in {"receive", "extract", "place"}
      /\ UNCHANGED <<home, staged, lock, damaged>>
      /\ run'[p].version = run[p].version /\ run'[p].at = run[p].at
      /\ run'[p].from = run[p].from /\ run'[p].aside = run[p].aside
      /\ \A q \in Proc \ {p} : run'[q] = run[q]
  BY <1>1 DEF Download, Receive, Extract, Goto, At, Runs, IInv, TypeInv, TypeOK
<1>3. Listed' = Listed /\ ListedAreWhole'
  BY <1>2 DEF IInv, ListedAreWhole, Listed
<1>4. run[p].version \in Versions \ Listed
  BY <1>2 DEF IInv, TargetInv, TargetOK, Placing
<1>5. run'[p].pc = "extract" => archive'[run[p].version] = "verified"
  BY <1>1, <1>4 DEF Download, Receive, Extract, Goto, Runs, IInv, TypeInv, TypeOK
<1>6. run'[p].pc = "place" => run'[p].unpacked = Unpacked
  <2>1. CASE Extract(p)
    <3>1. archive[run[p].version] = "verified"
      BY <2>1 DEF Extract, At, IInv, TargetInv, TargetOK
    <3>2. run' = [run EXCEPT ![p].pc = "place", ![p].unpacked = Unpacked]
      BY <2>1, <3>1 DEF Extract
    <3>3. run \in [Proc -> Runs]
      BY DEF IInv, TypeInv, TypeOK
    <3> QED
      BY <3>2, <3>3 DEF Runs
  <2>2. CASE Download(p) \/ Receive(p)
    BY <1>1, <2>2 DEF Download, Receive, Goto, Runs, IInv, TypeInv, TypeOK
  <2> QED
    BY <2>1, <2>2
<1>7. TargetOK(p)'
  BY <1>2, <1>3, <1>4, <1>5, <1>6 DEF TargetOK, Placing, Versions
<1>8. GoesOn(p)
  BY <1>2 DEF GoesOn, Holding
<1> QED
  BY <1>2, <1>3, <1>7, <1>8, GoesOnKept, UnstartedKept DEF InstallFrame, Kept, GoesOn

LEMMA PlaceKept ==
  ASSUME IInv, NEW p \in Proc, Clear(p) \/ Place(p)
  PROVE  InstallFrame(p) /\ Listed' = Listed
<1> DEFINE v == run[p].version
<1>1. run[p] \in Runs
  BY RunFacts DEF IInv
<1>2. /\ run[p].pc = "place" /\ run'[p].pc \in {"place", "record"} /\ lock' = lock
      /\ run'[p].version = v /\ run'[p].unpacked = run[p].unpacked /\ run'[p].at = run[p].at
      /\ run'[p].from = run[p].from /\ run'[p].aside = run[p].aside
      /\ \A q \in Proc \ {p} : run'[q] = run[q]
  BY <1>1 DEF Clear, Place, Goto, At, Runs, IInv, TypeInv, TypeOK
<1>3. v \in Versions \ Listed /\ run[p].unpacked = Unpacked
  BY <1>2 DEF IInv, TargetInv, TargetOK, Placing
<1>4. /\ Listed' = Listed /\ ListedAreWhole'
      /\ run'[p].pc = "record" => home'[v] = Unpacked
  <2>1. CASE Clear(p)
    <3>1. home' = [home EXCEPT ![v] = Absent] /\ damaged' = damaged /\ run'[p].pc = "place"
      BY <1>2, <2>1 DEF Clear
    <3>2. Listed' = IF {"metadata", "javac"} \subseteq Absent THEN Listed \cup {v}
                                                             ELSE Listed \ {v}
      BY <1>3, <3>1, ListedAfter DEF IInv
    <3>3. Listed' = Listed
      BY <1>3, <3>2 DEF Absent
    <3> QED
      BY <1>3, <3>1, <3>3 DEF ListedAreWhole, IInv, TypeInv, TypeOK
  <2>2. CASE Place(p)
    <3>1. home' = [home EXCEPT ![v] = Unpacked] /\ damaged' = damaged \ {v}
      BY <1>3, <2>2 DEF Place
    <3>2. Listed' = IF {"metadata", "javac"} \subseteq Unpacked THEN Listed \cup {v}
                                                               ELSE Listed \ {v}
      <4>1. v \in Versions /\ TypeInv
        BY <1>3 DEF IInv
      <4> HIDE DEF v
      <4> QED
        BY <4>1, <3>1, ListedAfter
    <3>3. Listed' = Listed
      BY <1>3, <3>2 DEF Unpacked
    <3> QED
      BY <1>3, <3>1, <3>3 DEF ListedAreWhole, IInv, TypeInv, TypeOK
  <2> QED
    BY <2>1, <2>2
<1>5. TargetOK(p)'
  BY <1>2, <1>3, <1>4 DEF TargetOK, Placing, Versions
<1>6. GoesOn(p)
  BY <1>2 DEF GoesOn, Holding
<1> QED
  BY <1>2, <1>4, <1>5, <1>6, GoesOnKept, UnstartedKept DEF InstallFrame, Kept, GoesOn

LEMMA RecordKept ==
  ASSUME IInv, NEW p \in Proc, Record(p)
  PROVE  /\ InstallFrame(p)
         /\ run[p].version \in Versions \ Listed /\ Listed' = Listed \cup {run[p].version}
<1> DEFINE v == run[p].version
<1>1. run[p].pc = "record" /\ End(p) /\ damaged' = damaged
  BY DEF Record, At
<1>2. v \in Versions \ Listed /\ home[v] = Unpacked
  BY <1>1 DEF IInv, TargetInv, TargetOK, Placing
<1>3. home' = [home EXCEPT ![v] = Whole]
  BY <1>2 DEF Record, Whole, IInv, TypeInv, TypeOK
<1>4. Listed' = Listed \cup {v}
  <2>1. Listed' = IF {"metadata", "javac"} \subseteq Whole THEN Listed \cup {v}
                                                          ELSE Listed \ {v}
    BY <1>2, <1>3, ListedAfter DEF IInv
  <2> QED
    BY <2>1 DEF Whole, Unpacked
<1>5. ListedAreWhole'
  BY <1>1, <1>2, <1>3, <1>4 DEF ListedAreWhole, IInv, TypeInv, TypeOK
<1>6. run[p].aside = {}
  BY <1>1 DEF IInv, RemovalInv, RemovalOK, Removing, Unstarted
<1>7. Holding(p)
  BY <1>1 DEF Holding
<1> QED
  BY <1>1, <1>2, <1>4, <1>5, <1>6, <1>7, EndKept DEF InstallFrame, Kept

---------------------------------------------------------------------------
(* The steps of a removal. *)

LEMMA SelectKept ==
  ASSUME IInv, NEW p \in Proc, Select(p)
  PROVE  InstallFrame(p) /\ Listed' = Listed
<1>1. Holding(p) /\ Listed' = Listed /\ ListedAreWhole'
  BY DEF Select, At, Holding, IInv, ListedAreWhole, Listed
<1>2. run[p].pc = "select" /\ run[p].at = 1 /\ run[p].from = 1 /\ run[p].aside = {}
  BY DEF Select, At, IInv, RemovalInv, RemovalOK, Removing, Unstarted
<1>3. CASE End(p)
  BY <1>1, <1>2, <1>3, EndKept DEF InstallFrame, Kept
<1>4. CASE ~End(p)
  <2>1. PICK order \in OldestFirst(Candidates(p)) :
          run' = [run EXCEPT ![p].pc = "stage", ![p].before = Listed, ![p].chosen = order]
    BY <1>4 DEF Select
  <2>2. Candidates(p) \subseteq Listed /\ Listed \subseteq Versions
    BY DEF Candidates, Found, Listed
  <2>3. /\ order \in Seq(Versions) /\ ToSet(order) \subseteq Listed
        /\ \A i, j \in 1 .. Len(order) : i < j => order[i] < order[j]
    BY <2>1, <2>2, OldestFirstTypes
  <2>4. run[p] \in Runs
    BY RunFacts DEF IInv
  <2>5. /\ \A q \in Proc \ {p} : run'[q] = run[q]
        /\ run'[p].pc = "stage" /\ run'[p].chosen = order /\ run'[p].before = Listed
        /\ run'[p].at = 1 /\ run'[p].from = 1 /\ run'[p].aside = run[p].aside
    BY <1>2, <2>1, <2>4 DEF Runs, IInv, TypeInv, TypeOK
  <2>6. Due(p)' = {}
    BY <2>5 DEF Due
  <2>7. ChosenOK(p)'
    <3>1. 1 <= Len(order) + 1
      BY <2>3
    <3> QED
      BY <2>3, <2>5, <3>1 DEF ChosenOK
  <2>8. AsideOK(p)' /\ DeletingOK(p)' /\ ReversibleOK(p)'
    BY <1>1, <2>5, <2>6 DEF AsideOK, DeletingOK, ReversibleOK
  <2>9. RemovalOK(p)' /\ TargetOK(p)'
    BY <2>5, <2>7, <2>8 DEF RemovalOK, Removing, TargetOK, Placing
  <2>10. GoesOn(p)
    BY <1>2, <1>4, <2>5 DEF GoesOn, Holding, Select
  <2> QED
    BY <1>1, <2>5, <2>9, <2>10, GoesOnKept DEF InstallFrame, Kept
<1> QED
  BY <1>3, <1>4

\* What a removal under way may rely on, spelled out.
LEMMA RemovalFacts ==
  ASSUME IInv, NEW p \in Proc, Removing(p)
  PROVE  /\ ChosenOK(p) /\ AsideOK(p) /\ DeletingOK(p)
         /\ Reversible(p) => ReversibleOK(p)
         /\ \A i, j \in 1 .. Len(run[p].chosen) : i # j => run[p].chosen[i] # run[p].chosen[j]
         /\ \A i \in 1 .. Len(run[p].chosen) : run[p].chosen[i] \in run[p].before
         /\ ToSet(run[p].chosen) = {run[p].chosen[i] : i \in 1 .. Len(run[p].chosen)}
<1>1. ChosenOK(p) /\ AsideOK(p) /\ DeletingOK(p) /\ (Reversible(p) => ReversibleOK(p))
  BY DEF IInv, RemovalInv, RemovalOK
<1>2. /\ DOMAIN run[p].chosen = 1 .. Len(run[p].chosen) /\ Len(run[p].chosen) \in Nat
      /\ \A i \in 1 .. Len(run[p].chosen) : run[p].chosen[i] \in Versions
  BY RunFacts DEF IInv
<1>3. \A i, j \in 1 .. Len(run[p].chosen) : i # j => run[p].chosen[i] # run[p].chosen[j]
  <2> SUFFICES ASSUME NEW i \in 1 .. Len(run[p].chosen), NEW j \in 1 .. Len(run[p].chosen),
                      i # j
               PROVE  run[p].chosen[i] # run[p].chosen[j]
    OBVIOUS
  <2>1. run[p].chosen[i] \in Nat /\ run[p].chosen[j] \in Nat
    BY <1>2 DEF Versions
  <2>2. CASE i < j
    BY <1>1, <2>1, <2>2 DEF ChosenOK
  <2>3. CASE j < i
    BY <1>1, <2>1, <2>3 DEF ChosenOK
  <2> QED
    BY <1>2, <2>2, <2>3
<1>4. ToSet(run[p].chosen) = {run[p].chosen[i] : i \in 1 .. Len(run[p].chosen)}
  BY <1>2 DEF ToSet
<1>5. \A i \in 1 .. Len(run[p].chosen) : run[p].chosen[i] \in run[p].before
  BY <1>1, <1>4 DEF ChosenOK
<1> QED
  BY <1>1, <1>3, <1>4, <1>5

LEMMA ChosenKept ==
  ASSUME NEW p \in Proc, ChosenOK(p), run'[p].chosen = run[p].chosen,
         run'[p].before = run[p].before, run'[p].at <= Len(run[p].chosen) + 1
  PROVE  ChosenOK(p)'
  BY DEF ChosenOK

\* The frame of a removal's step: the target and the lock look after themselves.
LEMMA RemovingKept ==
  ASSUME IInv, NEW p \in Proc, Removing(p), Removing(p)', lock' = lock,
         \A q \in Proc \ {p} : run'[q] = run[q]
  PROVE  Holding(p) /\ Locked' /\ TargetOK(p)'
<1>1. Holding(p) /\ GoesOn(p)
  BY DEF Removing, Holding, GoesOn
<1> QED
  BY <1>1, GoesOnKept DEF Removing, TargetOK, Placing

LEMMA StageKept ==
  ASSUME IInv, NEW p \in Proc, Stage(p)
  PROVE  /\ Holding(p) /\ Kept(p) /\ \A q \in Proc \ {p} : run'[q] = run[q]
         /\ Next1(p) \in Listed /\ Listed' = Listed \ {Next1(p)}
         /\ run'[p].aside = run[p].aside \cup {Next1(p)}
<1> DEFINE n == run[p].at
           v == run[p].chosen[n]
<1>1. /\ run[p].pc = "stage" /\ n <= Len(run[p].chosen) /\ n >= 1 /\ v = Next1(p)
      /\ staged' = staged \cup {[by |-> p, index |-> n, parts |-> home[v]]}
      /\ home' = [home EXCEPT ![v] = Absent]
      /\ UNCHANGED <<archive, lock, damaged>>
  BY DEF Stage, At, More, Next1, IInv, TypeInv, Positions
<1>2. /\ run[p] \in Runs /\ n \in Nat /\ Len(run[p].chosen) \in Nat /\ v \in Versions
  BY <1>1, RunFacts DEF IInv
<1>3. /\ \A q \in Proc \ {p} : run'[q] = run[q]
      /\ run'[p].pc = "stage" /\ run'[p].at = n + 1 /\ run'[p].from = run[p].from
      /\ run'[p].chosen = run[p].chosen /\ run'[p].before = run[p].before
      /\ run'[p].aside = run[p].aside \cup {v}
  BY <1>1, <1>2 DEF Stage, Next1, Runs, IInv, TypeInv, TypeOK
<1>4. Removing(p) /\ Removing(p)' /\ Reversible(p) /\ Due(p) = 1 .. n - 1 /\ Due(p)' = 1 .. n
  BY <1>1, <1>2, <1>3 DEF Removing, Reversible, Due
<1>5. v \in Listed
  BY <1>1, <1>2, <1>4, RemovalFacts DEF ReversibleOK
<1>6. Listed' = Listed \ {v}
  <2>1. Listed' = IF {"metadata", "javac"} \subseteq Absent THEN Listed \cup {v}
                                                           ELSE Listed \ {v}
    <3>1. v \in Versions /\ TypeInv /\ home' = [home EXCEPT ![v] = Absent]
      BY <1>1, <1>2 DEF IInv
    <3> HIDE DEF v
    <3> QED
      BY <3>1, ListedAfter
  <2> QED
    BY <2>1 DEF Absent
<1>7. ChosenOK(p)' /\ DeletingOK(p)'
  <2>1. ChosenOK(p) /\ n + 1 <= Len(run[p].chosen) + 1
    BY <1>1, <1>2, <1>4, RemovalFacts
  <2> QED
    BY <1>3, <2>1, ChosenKept DEF DeletingOK
<1>8. AsideOK(p)'
  <2>1. \A i \in 1 .. n - 1 : run[p].chosen[i] \in run[p].aside
    BY <1>4, RemovalFacts DEF AsideOK
  <2>2. \A i \in 1 .. n : run[p].chosen[i] \in run[p].aside \cup {v}
    BY <1>2, <2>1
  <2> QED
    BY <1>3, <1>4, <2>2 DEF AsideOK
<1>9. ReversibleOK(p)'
  <2>1. run[p].from = 1 /\ Listed = run[p].before \ {run[p].chosen[i] : i \in 1 .. n - 1}
    BY <1>4, RemovalFacts DEF ReversibleOK
  <2>2. Listed' = run[p].before \ {run[p].chosen[i] : i \in 1 .. n}
    <3>1. 1 .. n = (1 .. n - 1) \cup {n}
      BY <1>1, <1>2
    <3>2. {run[p].chosen[i] : i \in 1 .. n} = {run[p].chosen[i] : i \in 1 .. n - 1} \cup {v}
      BY <3>1
    <3> QED
      BY <1>6, <2>1, <3>2
  <2>3. \A i \in 1 .. n : \E s \in staged' :
          s.by = p /\ s.index = i /\ {"metadata", "javac"} \subseteq s.parts
    <3>1. {"metadata", "javac"} \subseteq home[v]
      BY <1>5 DEF Listed
    <3>2. \A i \in 1 .. n - 1 : \E s \in staged :
            s.by = p /\ s.index = i /\ {"metadata", "javac"} \subseteq s.parts
      <4>1. ReversibleOK(p)
        BY <1>4, RemovalFacts
      <4>2. \A i \in Due(p) : \E s \in staged :
              s.by = p /\ s.index = i /\ {"metadata", "javac"} \subseteq s.parts
        BY <4>1 DEF ReversibleOK
      <4> QED
        BY <1>4, <4>2, Zenon
    <3> DEFINE new == [by |-> p, index |-> n, parts |-> home[v]]
    <3>3. new \in staged' /\ new.by = p /\ new.index = n /\ new.parts = home[v]
      <4>1. staged' = staged \cup {new}
        BY <1>1
      <4>2. new.by = p /\ new.index = n /\ new.parts = home[v]
        OBVIOUS
      <4> HIDE DEF new
      <4> QED
        BY <4>1, <4>2
    <3>4. \A i \in 1 .. n : i \in 1 .. n - 1 \/ i = n
      BY <1>2
    <3>5. staged \subseteq staged'
      BY <1>1
    <3> SUFFICES ASSUME NEW i \in 1 .. n
                 PROVE  \E s \in staged' :
                          s.by = p /\ s.index = i /\ {"metadata", "javac"} \subseteq s.parts
      OBVIOUS
    <3>6. CASE i \in 1 .. n - 1
      BY <3>2, <3>5, <3>6
    <3>7. CASE i = n
      <4> HIDE DEF new
      <4> QED
        BY <3>1, <3>3, <3>7
    <3> QED
      BY <3>4, <3>6, <3>7
  <2> QED
    BY <1>3, <1>4, <2>1, <2>2, <2>3 DEF ReversibleOK
<1>10. RemovalOK(p)'
  BY <1>4, <1>7, <1>8, <1>9 DEF RemovalOK
<1>11. ListedAreWhole'
  BY <1>1, <1>6 DEF ListedAreWhole, IInv, TypeInv, TypeOK
<1> QED
  BY <1>1, <1>3, <1>4, <1>5, <1>6, <1>10, <1>11, RemovingKept DEF Kept

\* The steps that leave the installations alone.
RemoveFrame(p) ==
  /\ Holding(p) /\ Kept(p) /\ \A q \in Proc \ {p} : run'[q] = run[q]
  /\ Listed' = Listed /\ run'[p].aside \subseteq run[p].aside

LEMMA ListedKept ==
  ASSUME IInv, UNCHANGED <<home, damaged>>
  PROVE  Listed' = Listed /\ ListedAreWhole'
  BY DEF IInv, ListedAreWhole, Listed

\* p gives back what it took from the versions first to last of its choice.
GivesBack(p, first, last, failed) ==
  /\ \A q \in Proc \ {p} : run'[q] = run[q]
  /\ run'[p].pc = "undo" /\ run'[p].from = first /\ run'[p].at = last
  /\ run'[p].failed = failed /\ run'[p].chosen = run[p].chosen
  /\ run'[p].before = run[p].before /\ run'[p].aside = run[p].aside

LEMMA UndoneFields ==
  ASSUME TypeInv, NEW p \in Proc, NEW first, NEW last, NEW failed \in BOOLEAN,
         Undone(p, first, last, failed)
  PROVE  GivesBack(p, first, last, failed)
<1>1. run \in [Proc -> Runs]
  BY DEF TypeInv, TypeOK
<1> QED
  BY <1>1 DEF GivesBack, Undone, Runs

LEMMA StageFailsKept ==
  ASSUME IInv, NEW p \in Proc, StageFails(p)
  PROVE  RemoveFrame(p)
<1> DEFINE n == run[p].at
<1>1. /\ run[p].pc = "stage" /\ n <= Len(run[p].chosen) /\ n >= 1
      /\ UNCHANGED <<home, staged, lock, damaged>>
  BY DEF StageFails, At, More, IInv, TypeInv, Positions
<1>2. n \in Nat /\ Len(run[p].chosen) \in Nat
  BY RunFacts DEF IInv
<1>3. /\ \A q \in Proc \ {p} : run'[q] = run[q]
      /\ run'[p].pc = "undo" /\ run'[p].from = 1 /\ run'[p].at = n - 1
      /\ run'[p].chosen = run[p].chosen /\ run'[p].before = run[p].before
      /\ run'[p].aside = run[p].aside
  <2>1. Undone(p, 1, n - 1, FALSE) /\ TypeInv
    BY DEF StageFails, IInv
  <2>2. GivesBack(p, 1, n - 1, FALSE)
    BY <2>1, UndoneFields
  <2> QED
    BY <2>2 DEF GivesBack
<1>4. Removing(p) /\ Removing(p)' /\ Reversible(p)
  BY <1>1, <1>3 DEF Removing, Reversible
<1>5. Due(p)' = Due(p)
  BY <1>1, <1>3 DEF Due
<1>6. Listed' = Listed /\ ListedAreWhole'
  BY <1>1, ListedKept
<1>7. ChosenOK(p)'
  <2>1. ChosenOK(p) /\ n - 1 <= Len(run[p].chosen) + 1
    BY <1>1, <1>2, <1>4, RemovalFacts
  <2> QED
    BY <1>3, <2>1, ChosenKept
<1>8. AsideOK(p)' /\ DeletingOK(p)'
  BY <1>3, <1>4, <1>5, RemovalFacts DEF AsideOK, DeletingOK
<1>9. ReversibleOK(p)'
  <2>1. ReversibleOK(p)
    BY <1>4, RemovalFacts
  <2> QED
    BY <1>1, <1>3, <1>5, <1>6, <2>1 DEF ReversibleOK
<1>10. RemovalOK(p)'
  BY <1>4, <1>7, <1>8, <1>9 DEF RemovalOK
<1> QED
  BY <1>1, <1>3, <1>4, <1>6, <1>10, RemovingKept DEF RemoveFrame, Kept

LEMMA AllStagedKept ==
  ASSUME IInv, NEW p \in Proc, AllStaged(p)
  PROVE  RemoveFrame(p)
<1> DEFINE n == run[p].at
<1>1. /\ run[p].pc = "stage" /\ ~(n <= Len(run[p].chosen))
      /\ UNCHANGED <<home, staged, lock, damaged>>
  BY DEF AllStaged, At, More
<1>2. n \in Nat /\ Len(run[p].chosen) \in Nat /\ run[p] \in Runs
  BY RunFacts DEF IInv
<1>3. /\ \A q \in Proc \ {p} : run'[q] = run[q]
      /\ run'[p].pc = "delete" /\ run'[p].at = 1
      /\ run'[p].chosen = run[p].chosen /\ run'[p].before = run[p].before
      /\ run'[p].aside = run[p].aside
  BY <1>2 DEF AllStaged, Runs, IInv, TypeInv, TypeOK
<1>4. Removing(p) /\ Removing(p)' /\ Reversible(p) /\ ~Reversible(p)'
  BY <1>1, <1>3 DEF Removing, Reversible
<1>5. n = Len(run[p].chosen) + 1
  BY <1>1, <1>2, <1>4, RemovalFacts DEF ChosenOK
<1>6. Due(p) = 1 .. Len(run[p].chosen) /\ Due(p)' = Due(p)
  BY <1>1, <1>2, <1>3, <1>5 DEF Due
<1>7. Listed' = Listed /\ ListedAreWhole'
  BY <1>1, ListedKept
<1>8. ChosenOK(p)'
  <2>1. ChosenOK(p) /\ 1 <= Len(run[p].chosen) + 1
    BY <1>2, <1>4, RemovalFacts
  <2> QED
    BY <1>3, <2>1, ChosenKept
<1>9. AsideOK(p)'
  BY <1>3, <1>4, <1>6, RemovalFacts DEF AsideOK
<1>10. DeletingOK(p)'
  <2>1. Listed = run[p].before \ {run[p].chosen[i] : i \in 1 .. Len(run[p].chosen)}
    BY <1>4, <1>6, RemovalFacts DEF ReversibleOK
  <2>2. Listed = run[p].before \ ToSet(run[p].chosen)
    BY <1>4, <2>1, RemovalFacts
  <2> QED
    BY <1>3, <1>7, <2>2 DEF DeletingOK
<1>11. RemovalOK(p)'
  BY <1>4, <1>8, <1>9, <1>10 DEF RemovalOK
<1> QED
  BY <1>1, <1>3, <1>4, <1>7, <1>11, RemovingKept DEF RemoveFrame, Kept

LEMMA DeleteKept ==
  ASSUME IInv, NEW p \in Proc, Delete(p)
  PROVE  RemoveFrame(p)
<1> DEFINE n == run[p].at
           v == run[p].chosen[n]
<1>1. /\ run[p].pc = "delete" /\ n <= Len(run[p].chosen) /\ n >= 1
      /\ UNCHANGED <<home, lock, damaged>>
  BY DEF Delete, At, More, IInv, TypeInv, Positions
<1>2. n \in Nat /\ Len(run[p].chosen) \in Nat /\ run[p] \in Runs
  BY RunFacts DEF IInv
<1>3. /\ \A q \in Proc \ {p} : run'[q] = run[q]
      /\ run'[p].pc = "delete" /\ run'[p].at = n + 1
      /\ run'[p].chosen = run[p].chosen /\ run'[p].before = run[p].before
      /\ run'[p].aside = run[p].aside \ {v}
  BY <1>1, <1>2 DEF Delete, Next1, Runs, IInv, TypeInv, TypeOK
<1>4. Removing(p) /\ Removing(p)' /\ ~Reversible(p)'
  BY <1>1, <1>3 DEF Removing, Reversible
<1>5. Due(p) = n .. Len(run[p].chosen) /\ Due(p)' = n + 1 .. Len(run[p].chosen)
  BY <1>1, <1>3 DEF Due
<1>6. Listed' = Listed /\ ListedAreWhole'
  BY <1>1, ListedKept
<1>7. ChosenOK(p)'
  <2>1. ChosenOK(p) /\ n + 1 <= Len(run[p].chosen) + 1
    BY <1>1, <1>2, <1>4, RemovalFacts
  <2> QED
    BY <1>3, <2>1, ChosenKept
<1>8. AsideOK(p)'
  <2>1. \A i \in n .. Len(run[p].chosen) : run[p].chosen[i] \in run[p].aside
    BY <1>4, <1>5, RemovalFacts DEF AsideOK
  <2>2. \A i \in n + 1 .. Len(run[p].chosen) :
          i \in n .. Len(run[p].chosen) /\ run[p].chosen[i] # v
    BY <1>1, <1>2, <1>4, RemovalFacts
  <2> QED
    BY <1>3, <1>5, <2>1, <2>2 DEF AsideOK
<1>9. DeletingOK(p)'
  BY <1>1, <1>3, <1>4, <1>6, RemovalFacts DEF DeletingOK
<1>10. RemovalOK(p)'
  BY <1>4, <1>7, <1>8, <1>9 DEF RemovalOK
<1> QED
  BY <1>1, <1>3, <1>4, <1>6, <1>10, RemovingKept DEF RemoveFrame, Kept

LEMMA DeleteFailsKept ==
  ASSUME IInv, NEW p \in Proc, DeleteFails(p)
  PROVE  RemoveFrame(p)
<1>1. run[p].pc = "delete" /\ UNCHANGED <<home, lock, damaged>>
  BY DEF DeleteFails, At
<1>2. Len(run[p].chosen) \in Nat
  BY RunFacts DEF IInv
<1>3. /\ \A q \in Proc \ {p} : run'[q] = run[q]
      /\ run'[p].pc = "undo" /\ run'[p].from = run[p].at
      /\ run'[p].at = Len(run[p].chosen) /\ run'[p].failed = TRUE
      /\ run'[p].chosen = run[p].chosen /\ run'[p].before = run[p].before
      /\ run'[p].aside = run[p].aside
  <2>1. Undone(p, run[p].at, Len(run[p].chosen), TRUE) /\ TypeInv
    BY DEF DeleteFails, IInv
  <2>2. GivesBack(p, run[p].at, Len(run[p].chosen), TRUE)
    BY <2>1, UndoneFields
  <2> QED
    BY <2>2 DEF GivesBack
<1>4. Removing(p) /\ Removing(p)' /\ ~Reversible(p)'
  BY <1>1, <1>3 DEF Removing, Reversible
<1>5. Due(p)' = Due(p)
  BY <1>1, <1>3 DEF Due
<1>6. Listed' = Listed /\ ListedAreWhole'
  BY <1>1, ListedKept
<1>7. ChosenOK(p)'
  <2>1. ChosenOK(p) /\ Len(run[p].chosen) <= Len(run[p].chosen) + 1
    BY <1>2, <1>4, RemovalFacts
  <2> QED
    BY <1>3, <2>1, ChosenKept
<1>8. AsideOK(p)' /\ DeletingOK(p)'
  BY <1>3, <1>4, <1>5, RemovalFacts DEF AsideOK, DeletingOK
<1>9. RemovalOK(p)'
  BY <1>4, <1>7, <1>8 DEF RemovalOK
<1> QED
  BY <1>1, <1>3, <1>4, <1>6, <1>9, RemovingKept DEF RemoveFrame, Kept

LEMMA NotPutBackKept ==
  ASSUME IInv, NEW p \in Proc, NotPutBack(p)
  PROVE  RemoveFrame(p)
<1> DEFINE n == run[p].at
<1>1. /\ run[p].pc = "undo" /\ n >= run[p].from /\ n <= Len(run[p].chosen)
      /\ UNCHANGED <<home, lock, damaged>>
  BY DEF NotPutBack, At, IInv, TypeInv, Positions
<1>2. /\ n \in Nat /\ run[p].from \in Nat /\ Len(run[p].chosen) \in Nat /\ run[p] \in Runs
  BY RunFacts DEF IInv
<1>3. /\ \A q \in Proc \ {p} : run'[q] = run[q]
      /\ run'[p].pc = "undo" /\ run'[p].at = n - 1 /\ run'[p].from = run[p].from
      /\ run'[p].failed = TRUE
      /\ run'[p].chosen = run[p].chosen /\ run'[p].before = run[p].before
      /\ run'[p].aside = run[p].aside
  BY <1>1, <1>2 DEF NotPutBack, Runs, IInv, TypeInv, TypeOK
<1>4. Removing(p) /\ Removing(p)' /\ ~Reversible(p)'
  BY <1>1, <1>3 DEF Removing, Reversible
<1>5. Due(p) = run[p].from .. n /\ Due(p)' = run[p].from .. n - 1
  BY <1>1, <1>3 DEF Due
<1>6. Listed' = Listed /\ ListedAreWhole'
  BY <1>1, ListedKept
<1>7. ChosenOK(p)'
  <2>1. ChosenOK(p) /\ n - 1 <= Len(run[p].chosen) + 1
    BY <1>1, <1>2, <1>4, RemovalFacts
  <2> QED
    BY <1>3, <2>1, ChosenKept
<1>8. AsideOK(p)' /\ DeletingOK(p)'
  <2>1. \A i \in run[p].from .. n : run[p].chosen[i] \in run[p].aside
    BY <1>4, <1>5, RemovalFacts DEF AsideOK
  <2>2. \A i \in run[p].from .. n - 1 : i \in run[p].from .. n
    BY <1>2
  <2> QED
    BY <1>3, <1>5, <2>1, <2>2 DEF AsideOK, DeletingOK
<1>9. RemovalOK(p)'
  BY <1>4, <1>7, <1>8 DEF RemovalOK
<1> QED
  BY <1>1, <1>3, <1>4, <1>6, <1>9, RemovingKept DEF RemoveFrame, Kept

LEMMA FinishKept ==
  ASSUME IInv, NEW p \in Proc, FinishRemove(p) \/ FinishUndo(p)
  PROVE  RemoveFrame(p)
<1>1. End(p) /\ UNCHANGED <<home, damaged>> /\ Holding(p)
  BY DEF FinishRemove, FinishUndo, At, Holding
<1> QED
  BY <1>1, EndKept, ListedKept DEF RemoveFrame, Kept

LEMMA PutBackKept ==
  ASSUME IInv, NEW p \in Proc, NEW s \in staged, PutBack(p, s)
  PROVE  /\ Holding(p) /\ Kept(p) /\ \A q \in Proc \ {p} : run'[q] = run[q]
         /\ Next1(p) \in run[p].aside /\ Next1(p) \in Versions \ Listed
         /\ Listed' \in {Listed, Listed \cup {Next1(p)}}
         /\ run'[p].aside = run[p].aside \ {Next1(p)}
<1> DEFINE n == run[p].at
           v == run[p].chosen[n]
<1>1. /\ run[p].pc = "undo" /\ n >= run[p].from /\ n <= Len(run[p].chosen) /\ v = Next1(p)
      /\ s.by = p /\ s.index = n /\ home[v] = Absent
      /\ home' = [home EXCEPT ![v] = s.parts] /\ staged' = staged \ {s}
      /\ damaged' = IF s.parts = Whole THEN damaged ELSE damaged \cup {v}
      /\ lock' = lock
  BY DEF PutBack, Aside, At, Next1, IInv, TypeInv, Positions
<1>2. /\ n \in Nat /\ run[p].from \in Nat /\ run[p].from >= 1 /\ Len(run[p].chosen) \in Nat
      /\ run[p] \in Runs
  BY RunFacts DEF IInv
<1>3. n \in 1 .. Len(run[p].chosen) /\ v \in Versions
  BY <1>1, <1>2, RunFacts DEF IInv
<1>4. /\ \A q \in Proc \ {p} : run'[q] = run[q]
      /\ run'[p].pc = "undo" /\ run'[p].at = n - 1 /\ run'[p].from = run[p].from
      /\ run'[p].failed = run[p].failed
      /\ run'[p].chosen = run[p].chosen /\ run'[p].before = run[p].before
      /\ run'[p].aside = run[p].aside \ {v}
  BY <1>1, <1>2 DEF PutBack, Runs, IInv, TypeInv, TypeOK
<1>5. Removing(p) /\ Removing(p)'
  BY <1>1, <1>4 DEF Removing
<1>6. Due(p) = run[p].from .. n /\ Due(p)' = run[p].from .. n - 1
  BY <1>1, <1>4 DEF Due
<1>7. v \notin Listed
  BY <1>1 DEF Listed, Absent
<1>8. Listed' = IF {"metadata", "javac"} \subseteq s.parts THEN Listed \cup {v}
                                                         ELSE Listed \ {v}
  <2>1. v \in Versions /\ TypeInv
    BY <1>3 DEF IInv
  <2> DEFINE parts == s.parts
  <2>2. home' = [home EXCEPT ![v] = parts]
    BY <1>1
  <2> HIDE DEF v, parts
  <2>3. Listed' = IF {"metadata", "javac"} \subseteq parts THEN Listed \cup {v}
                                                          ELSE Listed \ {v}
    BY <2>1, <2>2, ListedAfter
  <2> QED
    BY <2>3 DEF parts
<1>9. \A i \in run[p].from .. n : run[p].chosen[i] \in run[p].aside
  BY <1>5, <1>6, RemovalFacts DEF AsideOK
<1>10. \A i \in run[p].from .. n - 1 : i \in run[p].from .. n /\ run[p].chosen[i] # v
  BY <1>1, <1>2, <1>3, <1>5, RemovalFacts
<1>11. ChosenOK(p)'
  <2>1. ChosenOK(p) /\ n - 1 <= Len(run[p].chosen) + 1
    BY <1>1, <1>2, <1>5, RemovalFacts
  <2> QED
    BY <1>4, <2>1, ChosenKept
<1>12. AsideOK(p)' /\ DeletingOK(p)'
  BY <1>4, <1>6, <1>9, <1>10 DEF AsideOK, DeletingOK
<1>13. ASSUME Reversible(p)' PROVE ReversibleOK(p)'
  <2>1. ReversibleOK(p)
    BY <1>1, <1>4, <1>5, <1>13, RemovalFacts DEF Reversible
  <2>2. /\ run[p].from = 1
        /\ Listed = run[p].before \ {run[p].chosen[i] : i \in run[p].from .. n}
    BY <1>6, <2>1 DEF ReversibleOK
  <2>3. \A i \in run[p].from .. n : \E t \in staged :
          t.by = p /\ t.index = i /\ {"metadata", "javac"} \subseteq t.parts
    <3>1. \A i \in Due(p) : \E t \in staged :
            t.by = p /\ t.index = i /\ {"metadata", "javac"} \subseteq t.parts
      BY <2>1 DEF ReversibleOK
    <3> QED
      BY <1>6, <3>1, Zenon
  <2>4. {"metadata", "javac"} \subseteq s.parts
    <3>1. n \in run[p].from .. n
      BY <1>1, <1>2
    <3>2. PICK t \in staged : t.by = p /\ t.index = n /\ {"metadata", "javac"} \subseteq t.parts
      BY <2>3, <3>1, Zenon
    <3>3. t = s
      BY <1>1, <3>2 DEF IInv, TypeInv, TypeOK
    <3> QED
      BY <3>2, <3>3
  <2>5. Listed' = run[p].before \ {run[p].chosen[i] : i \in run[p].from .. n - 1}
    <3>1. run[p].from .. n = (run[p].from .. n - 1) \cup {n}
      BY <1>1, <1>2
    <3>2. {run[p].chosen[i] : i \in run[p].from .. n}
            = {run[p].chosen[i] : i \in run[p].from .. n - 1} \cup {v}
      BY <3>1
    <3>3. v \notin {run[p].chosen[i] : i \in run[p].from .. n - 1}
      BY <1>10
    <3>4. v \in run[p].before
      BY <1>3, <1>5, RemovalFacts
    <3>5. Listed' = Listed \cup {v}
      BY <1>8, <2>4
    <3> QED
      BY <2>2, <3>2, <3>3, <3>4, <3>5
  <2>6. \A i \in run[p].from .. n - 1 : \E t \in staged' :
          t.by = p /\ t.index = i /\ {"metadata", "javac"} \subseteq t.parts
    <3> SUFFICES ASSUME NEW i \in run[p].from .. n - 1
                 PROVE  \E t \in staged' :
                          t.by = p /\ t.index = i /\ {"metadata", "javac"} \subseteq t.parts
      OBVIOUS
    <3>1. i \in run[p].from .. n /\ i # n
      BY <1>2
    <3>2. PICK t \in staged : t.by = p /\ t.index = i /\ {"metadata", "javac"} \subseteq t.parts
      BY <2>3, <3>1, Zenon
    <3>3. t \in staged'
      BY <1>1, <3>1, <3>2
    <3> QED
      BY <3>2, <3>3
  <2>7. \A i \in Due(p)' : \E t \in staged' :
          t.by = p /\ t.index = i /\ {"metadata", "javac"} \subseteq t.parts
    BY <1>6, <2>6, Zenon
  <2> QED
    BY <1>4, <1>6, <2>2, <2>5, <2>7 DEF ReversibleOK
<1>14. RemovalOK(p)'
  BY <1>5, <1>11, <1>12, <1>13 DEF RemovalOK
<1>15. ListedAreWhole'
  BY <1>1, <1>3, <1>8 DEF ListedAreWhole, IInv, TypeInv, TypeOK
<1>16. v \in run[p].aside
  BY <1>1, <1>2, <1>9
<1>17. Listed' \in {Listed, Listed \cup {v}}
  BY <1>7, <1>8
<1> QED
  BY <1>1, <1>3, <1>4, <1>5, <1>7, <1>14, <1>15, <1>16, <1>17, RemovingKept DEF Kept

LEMMA StopKept ==
  ASSUME IInv, NEW p \in Proc, Stop(p)
  PROVE  /\ Kept(p) /\ \A q \in Proc \ {p} : run'[q] = run[q]
         /\ Listed' = Listed /\ run'[p].aside \subseteq run[p].aside
         /\ Holding(p) \/ UNCHANGED <<home, staged, archive>>
<1>1. End(p) /\ UNCHANGED <<archive, damaged>>
  BY DEF Stop
<1>2. CASE UNCHANGED home
  <2>1. Holding(p) \/ UNCHANGED staged
    BY <1>2 DEF Stop, At, Holding
  <2> QED
    BY <1>1, <1>2, <2>1, EndKept, ListedKept DEF Kept
<1>3. CASE ~UNCHANGED home
  <2> DEFINE v == run[p].version
  <2>1. PICK parts \in SUBSET home[v] : home' = [home EXCEPT ![v] = parts]
    BY <1>3 DEF Stop
  <2>2. run[p].pc = "place"
    BY <1>3 DEF Stop, At
  <2>3. v \in Versions \ Listed
    BY <2>2 DEF IInv, TargetInv, TargetOK, Placing
  <2>4. Listed' = Listed
    BY <2>1, <2>3 DEF Listed, IInv, TypeInv, TypeOK
  <2>5. ListedAreWhole'
    BY <1>1, <2>1, <2>3, <2>4 DEF ListedAreWhole, IInv, TypeInv, TypeOK
  <2>6. Holding(p)
    BY <2>2 DEF Holding
  <2> QED
    BY <1>1, <2>4, <2>5, <2>6, EndKept DEF Kept
<1> QED
  BY <1>2, <1>3

---------------------------------------------------------------------------
(* The theorems. *)

LEMMA InitInv == Init => IInv
<1> SUFFICES ASSUME Init PROVE IInv
  OBVIOUS
<1>1. \A p \in Proc : run[p].pc = "idle" /\ Unstarted(p)
  BY DEF Init, Idle, Unstarted
<1>2. Locked /\ TargetInv
  BY <1>1 DEF Init, Locked, Holding, TargetInv, TargetOK, Placing
<1>3. RemovalInv
  BY <1>1 DEF RemovalInv, RemovalOK, Removing, Reversible
<1>4. ListedAreWhole
  BY DEF Init, ListedAreWhole, Listed, Absent
<1> QED
  BY <1>2, <1>3, <1>4, InitTypes DEF IInv

\* What one step does to the list and to what is set aside.
StoreStep(p) ==
  \/ Listed' = Listed /\ run'[p].aside \subseteq run[p].aside
  \/ /\ \E v \in Versions \ Listed : Listed' = Listed \cup {v}
     /\ run'[p].aside = run[p].aside
  \/ \E v \in Listed : Listed' = Listed \ {v} /\ run'[p].aside = run[p].aside \cup {v}
  \/ \E v \in run[p].aside \ Listed :
        Listed' = Listed \cup {v} /\ run'[p].aside = run[p].aside \ {v}

LEMMA StepKept ==
  ASSUME IInv, NEW p \in Proc, InstallStep(p) \/ RemoveStep(p) \/ Stop(p)
  PROVE  /\ Kept(p) /\ \A q \in Proc \ {p} : run'[q] = run[q]
         /\ Holding(p) \/ UNCHANGED <<home, staged, archive>>
         /\ StoreStep(p)
<1>1. CASE \/ \E request \in Requests : StartInstall(p, request)
           \/ \E request \in Requests, all \in BOOLEAN : StartRemove(p, request, all)
  <2>1. Listed' = Listed
    BY <1>1, StartKept DEF Listed
  <2> QED
    BY <1>1, <2>1, StartKept DEF StoreStep
<1>2. CASE LockToInstall(p) \/ LockToRemove(p)
  <2>1. Listed' = Listed
    BY <1>2, LockKept DEF Listed
  <2> QED
    BY <1>2, <2>1, LockKept DEF StoreStep
<1>3. CASE FindAgain(p) \/ Download(p) \/ Receive(p) \/ Extract(p) \/ Clear(p) \/ Place(p)
           \/ Select(p)
  BY <1>3, FindAgainKept, DownloadKept, PlaceKept, SelectKept DEF InstallFrame, StoreStep
<1>4. CASE Record(p)
  BY <1>4, RecordKept DEF InstallFrame, StoreStep
<1>5. CASE Stage(p)
  BY <1>5, StageKept DEF StoreStep
<1>6. CASE StageFails(p) \/ AllStaged(p) \/ Delete(p) \/ DeleteFails(p) \/ NotPutBack(p)
           \/ FinishRemove(p) \/ FinishUndo(p)
  BY <1>6, StageFailsKept, AllStagedKept, DeleteKept, DeleteFailsKept, NotPutBackKept,
     FinishKept DEF RemoveFrame, StoreStep
<1>7. ASSUME NEW s \in staged, PutBack(p, s)
      PROVE  /\ Kept(p) /\ \A q \in Proc \ {p} : run'[q] = run[q]
             /\ Holding(p) /\ StoreStep(p)
  BY <1>7, PutBackKept DEF StoreStep
<1>8. CASE Stop(p)
  BY <1>8, StopKept DEF StoreStep
<1> QED
  BY <1>1, <1>2, <1>3, <1>4, <1>5, <1>6, <1>7, <1>8 DEF InstallStep, RemoveStep

LEMMA NextInv == IInv /\ [Next]_vars => IInv'
<1> SUFFICES ASSUME IInv, [Next]_vars PROVE IInv'
  OBVIOUS
<1>1. TypeInv'
  BY NextTypes DEF IInv
<1>2. CASE UNCHANGED vars
  BY <1>1, <1>2 DEF vars, IInv, Locked, Holding, TargetInv, TargetOK, Placing, RemovalInv,
                    RemovalOK, Removing, Reversible, Unstarted, ChosenOK, AsideOK, DeletingOK,
                    ReversibleOK, Due, ListedAreWhole, Listed
<1>3. ASSUME NEW p \in Proc, InstallStep(p) \/ RemoveStep(p) \/ Stop(p)
      PROVE  IInv'
  <2>1. /\ Kept(p) /\ \A q \in Proc \ {p} : run'[q] = run[q]
        /\ Holding(p) \/ UNCHANGED <<home, staged, archive>>
    BY <1>3, StepKept
  <2>2. \A q \in Proc : TargetOK(q)' /\ RemovalOK(q)'
    BY <2>1, OthersOK DEF Kept
  <2> QED
    BY <1>1, <2>1, <2>2 DEF Kept, IInv, TargetInv, RemovalInv
<1> QED
  BY <1>2, <1>3 DEF Next

LEMMA Invariance == Spec => []IInv
  BY InitInv, NextInv, PTL DEF Spec

(* At most one command is past acquire_install_lock (toolchain.rs:1215), so a
   download, an extraction and a removal of one major never meet. *)
LockExcludes == \A p, q \in Proc : Holding(p) /\ Holding(q) => p = q
THEOREM OneCommandAtATime == Spec => []LockExcludes
<1>1. IInv => LockExcludes
  BY Alone DEF IInv, LockExcludes
<1> QED
  BY <1>1, Invariance, PTL

(* Every JDK a command finds (list, toolchain.rs:354) is whole, or has been
   put back by a rollback after its deletion failed half-way. *)
THEOREM FoundJdksAreWhole == Spec => []ListedAreWhole
<1>1. IInv => ListedAreWhole
  BY DEF IInv
<1> QED
  BY <1>1, Invariance, PTL

(* A removal that succeeds takes exactly its candidates from the list; one
   that fails before it deletes leaves the list as it found it (remove and
   rollback_staged, toolchain.rs:621 and 1251). *)
THEOREM RemovalsAreExact == Spec => RemovalIsExact
<1>1. IInv /\ [Next]_vars =>
        [\A p \in Proc :
           /\ FinishRemove(p) => Listed' = run[p].before \ ToSet(run[p].chosen)
           /\ FinishUndo(p) /\ ~run[p].failed => Listed' = run[p].before]_vars
  <2> SUFFICES ASSUME IInv, NEW p \in Proc
               PROVE  /\ FinishRemove(p) => Listed' = run[p].before \ ToSet(run[p].chosen)
                      /\ FinishUndo(p) /\ ~run[p].failed => Listed' = run[p].before
    OBVIOUS
  <2>1. ASSUME FinishRemove(p) PROVE Listed' = run[p].before \ ToSet(run[p].chosen)
    <3>1. Listed' = Listed /\ run[p].pc = "delete"
      BY <2>1, FinishKept DEF RemoveFrame, FinishRemove, At
    <3> QED
      BY <3>1, RemovalFacts DEF Removing, DeletingOK
  <2>2. ASSUME FinishUndo(p), ~run[p].failed PROVE Listed' = run[p].before
    <3>1. Listed' = Listed /\ run[p].pc = "undo" /\ run[p].at < run[p].from
      BY <2>2, FinishKept DEF RemoveFrame, FinishUndo, At
    <3>2. Removing(p) /\ Reversible(p) /\ Due(p) = {}
      <4>1. run[p].at \in Nat /\ run[p].from \in Nat
        BY RunFacts DEF IInv
      <4>2. run[p].from .. run[p].at = {}
        BY <3>1, <4>1
      <4> QED
        BY <2>2, <3>1, <4>2 DEF Removing, Reversible, Due
    <3>3. Listed = run[p].before \ {run[p].chosen[i] : i \in Due(p)}
      BY <3>2, RemovalFacts DEF ReversibleOK
    <3> QED
      BY <3>1, <3>2, <3>3
  <2> QED
    BY <2>1, <2>2
<1> QED
  BY <1>1, Invariance, PTL DEF Spec, RemovalIsExact

(* What other commands see is the abstract store: an installation appears at
   once, and only a removal takes one away (find, toolchain.rs:568). *)
THEOREM StoreImplemented == Spec => ImplementsStore
<1> DEFINE taken == UNION {run[p].aside : p \in Proc}
<1>1. Init => Store!Init
  BY DEF Init, Store!Init, Listed, Absent, Idle
<1>2. IInv /\ [Next]_vars => [Store!Next]_<<Listed, taken>>
  <2> SUFFICES ASSUME IInv, [Next]_vars PROVE [Store!Next]_<<Listed, taken>>
    OBVIOUS
  <2>1. CASE UNCHANGED vars
    BY <2>1 DEF vars, Listed
  <2>2. ASSUME NEW p \in Proc, InstallStep(p) \/ RemoveStep(p) \/ Stop(p)
        PROVE  [Store!Next]_<<Listed, taken>>
    <3>1. /\ \A q \in Proc \ {p} : run'[q] = run[q]
          /\ Holding(p) \/ UNCHANGED <<home, staged, archive>>
          /\ StoreStep(p)
      BY <2>2, StepKept
    <3>2. CASE Holding(p)
      <4>1. \A q \in Proc \ {p} : run[q].aside = {} /\ run'[q].aside = {}
        <5>1. \A q \in Proc \ {p} : ~Holding(q)
          BY <3>2, Alone DEF IInv
        <5> QED
          BY <3>1, <5>1 DEF IInv, RemovalInv, RemovalOK, Removing, Unstarted, Holding
      <4>2. taken = run[p].aside /\ taken' = run'[p].aside
        BY <4>1
      <4>3. CASE Listed' = Listed /\ run'[p].aside \subseteq run[p].aside
        BY <4>2, <4>3 DEF Store!Next, Store!GiveUp
      <4>4. ASSUME NEW v \in Versions \ Listed, Listed' = Listed \cup {v},
                   run'[p].aside = run[p].aside
            PROVE  Store!Next
        BY <4>2, <4>4 DEF Store!Next, Store!Install
      <4>5. ASSUME NEW v \in Listed, Listed' = Listed \ {v},
                   run'[p].aside = run[p].aside \cup {v}
            PROVE  Store!Next
        BY <4>2, <4>5 DEF Store!Next, Store!Take
      <4>6. ASSUME NEW v \in run[p].aside \ Listed, Listed' = Listed \cup {v},
                   run'[p].aside = run[p].aside \ {v}
            PROVE  Store!Next
        <5>1. v \in taken \ Listed /\ taken' = taken \ {v}
          BY <4>2, <4>6
        <5> QED
          BY <4>6, <5>1 DEF Store!Next, Store!PutBack
      <4> QED
        BY <3>1, <4>3, <4>4, <4>5, <4>6 DEF StoreStep
    <3>3. CASE UNCHANGED <<home, staged, archive>> /\ ~Holding(p)
      <4>1. Listed' = Listed
        BY <3>3 DEF Listed
      <4>2. run[p].aside = {}
        BY <3>3 DEF IInv, RemovalInv, RemovalOK, Removing, Unstarted, Holding
      <4>3. run'[p].aside \subseteq run[p].aside
        BY <3>1, <4>1, <4>2 DEF StoreStep
      <4>4. taken' \subseteq taken
        BY <3>1, <4>2, <4>3
      <4> QED
        BY <4>1, <4>4 DEF Store!Next, Store!GiveUp
    <3> QED
      BY <3>1, <3>2, <3>3
  <2> QED
    BY <2>1, <2>2 DEF Next
<1> QED
  BY <1>1, <1>2, Invariance, PTL DEF Spec, ImplementsStore, Store!Spec
=============================================================================
