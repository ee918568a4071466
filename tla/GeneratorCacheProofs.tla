--------------------------- MODULE GeneratorCacheProofs ---------------------------
(***************************************************************************)
(* Proofs about GeneratorCache, for any generators, processes, edits,      *)
(* cleanups, errors and kills.  What carries them is the order of the      *)
(* steps of run_generator (key, output, second key, swap, record); the     *)
(* lock does not, since `jman clean` may have removed the file it is on.   *)
(***************************************************************************)
EXTENDS GeneratorCache, TLAPS

Steps == {"ready", "locked", "keyed", "made", "verified", "parked", "placed", "lost"}
Tree == [Generator -> Nat]

\* Shapes.  A key contains state files and those contain keys, so nothing is
\* said of them but that every generator may have one.
Types ==
    /\ input \in [Generator -> Nat \ {0}]
    /\ output \in [Generator -> Tree]
    /\ DOMAIN record = Generator
    /\ status \in [Proc -> {"idle", "running"}]
    /\ complete \in [Proc -> SUBSET Generator]
    /\ cur \in [Proc -> Generator \cup {None}]
    /\ step \in [Proc -> Steps]
    /\ DOMAIN key = Proc
    /\ made \in [Proc -> Tree]
    /\ backup \in [Proc -> Tree]
    /\ overlapped \in BOOLEAN
    /\ torn \subseteq Generator

\* A process that is somewhere in run_generator runs, and has the generators
\* it depends on behind it.
BusyOK(p) ==
    /\ status[p] = "idle" => complete[p] = {} /\ step[p] = "ready"
    /\ step[p] # "ready" => cur[p] \in Generator /\ cur[p] \notin complete[p]
    /\ step[p] = "ready" => cur[p] = None
    /\ cur[p] \in Generator => DependsOn[cur[p]] \subseteq complete[p]

TypeInv == Types /\ \A p \in Proc : BusyOK(p)

------------------------------------------------------------------------------
\* The key is never newer than the inputs, nor is the tree between the two keys
\* older than it; when the second key is the first, both are the same.
TreeOK(p) ==
    LET g == cur[p] IN
    /\ step[p] \in {"keyed", "made"} => key[p].own \in Nat /\ key[p].own <= input[g]
    /\ step[p] = "made" => key[p].own <= made[p][g] /\ made[p][g] <= input[g]
    /\ step[p] \in {"verified", "parked", "placed"} => made[p][g] = key[p].own

TruthInv == RecordTruthful /\ \A p \in Proc : TreeOK(p)

------------------------------------------------------------------------------
\* An output that counts, because it is recorded or about to be, is on disk or
\* is the backup of a process in the middle of a swap.
Counts(g) == record[g] # None \/ \E p \in Proc : cur[p] = g /\ step[p] = "placed"
Saved(g) == \E p \in Proc : cur[p] = g /\ step[p] = "parked" /\ backup[p][g] # 0
Covered(g) == Counts(g) => Present(g) \/ Saved(g)
MadeOK(p) ==
    step[p] \in {"made", "verified", "parked", "placed"} => made[p][cur[p]] # 0
CoverInv == (\A p \in Proc : MadeOK(p)) /\ \A g \in Generator \ torn : Covered(g)

------------------------------------------------------------------------------
\* Until processes overlap, what a process has finished is as its state file
\* says, or `jman clean` has taken both.
Described(d) == record[d] = None \/ output[d] = record[d].out
DependenciesOK(p) ==
    LET g == cur[p] IN
    /\ \A d \in complete[p] : Described(d)
    /\ step[p] \in {"keyed", "made"} => \A d \in DependsOn[g] : key[p].deps[d] # None
    /\ step[p] = "made" =>
         \A d \in DependsOn[g] : record[d] = None \/ made[p][d] = record[d].out[d]
    /\ step[p] \in {"verified", "parked", "placed"} =>
         \A d \in DependsOn[g] : made[p][d] = key[p].deps[d].out[d]
    /\ step[p] = "placed" => output[g] = made[p]

Alone == \A p, q \in Proc : status[p] = "running" /\ status[q] = "running" => p = q
RecordsOK ==
    \A g \in Generator : \A d \in DependsOn[g] :
        record[g] # None => record[g].out[d] = record[g].key.deps[d].out[d]

DependencyInv ==
    ~overlapped => Alone /\ RecordsOK /\ \A p \in Proc : DependenciesOK(p)

------------------------------------------------------------------------------
(* Steps and types.                                                        *)

\* What a process does in run_generator for the generator it is at.
At(p, g) ==
    /\ cur[p] = g
    /\ \/ ComputeKey(p, g) \/ Reuse(p, g) \/ Generate(p, g) \/ Verify(p, g)
       \/ Park(p, g) \/ Place(p, g) \/ Record(p, g) \/ Fail(p, g)

LEMMA Cases ==
    ASSUME TypeInv, [Next]_vars
    PROVE  \/ UNCHANGED vars
           \/ \E g \in Generator : Edit(g) \/ Tamper(g)
           \/ Clean
           \/ \E p \in Proc : Start(p) \/ Kill(p) \/ Finish(p)
           \/ \E p \in Proc, g \in Generator : Lock(p, g) \/ At(p, g)
  BY DEF Next, RunStep, GeneratorStep, Refuse, At, TypeInv, Types

LEMMA InitTypes == Init => TypeInv
<1> SUFFICES ASSUME Init PROVE TypeInv
  OBVIOUS
<1>1. NoOutput \in Tree
  BY DEF NoOutput, Tree
<1>2. Types
  <2>1. input \in [Generator -> Nat \ {0}] /\ DOMAIN record = Generator /\ DOMAIN key = Proc
    BY DEF Init
  <2>2. output \in [Generator -> Tree] /\ made \in [Proc -> Tree] /\ backup \in [Proc -> Tree]
    BY <1>1 DEF Init
  <2>3. step \in [Proc -> Steps] /\ cur \in [Proc -> Generator \cup {None}]
    BY DEF Init, Steps
  <2> QED
    BY <2>1, <2>2, <2>3 DEF Init, Types
<1>3. \A p \in Proc : BusyOK(p)
  BY NoneAssumption DEF Init, BusyOK
<1> QED
  BY <1>2, <1>3 DEF TypeInv

LEMMA LeaveTypes ==
    ASSUME TypeInv, NEW p \in Proc, Leave(p)
    PROVE  /\ status' \in [Proc -> {"idle", "running"}]
           /\ complete' \in [Proc -> SUBSET Generator]
           /\ cur' \in [Proc -> Generator \cup {None}]
           /\ step' \in [Proc -> Steps]
           /\ DOMAIN key' = Proc
           /\ made' \in [Proc -> Tree] /\ backup' \in [Proc -> Tree]
           /\ \A q \in Proc : BusyOK(q)'
<1>1. NoOutput \in Tree
  BY DEF NoOutput, Tree
<1>2. \A q \in Proc : BusyOK(q)'
  BY NoneAssumption DEF Leave, TypeInv, Types, BusyOK
<1> QED
  BY <1>1, <1>2 DEF Leave, TypeInv, Types, Steps

LEMMA ReturnTypes ==
    ASSUME TypeInv, NEW p \in Proc, NEW g \in Generator, cur[p] = g, step[p] # "ready",
           Return(p, g), UNCHANGED status
    PROVE  /\ complete' \in [Proc -> SUBSET Generator]
           /\ cur' \in [Proc -> Generator \cup {None}]
           /\ step' \in [Proc -> Steps]
           /\ DOMAIN key' = Proc
           /\ made' \in [Proc -> Tree] /\ backup' \in [Proc -> Tree]
           /\ \A q \in Proc : BusyOK(q)'
<1>1. NoOutput \in Tree
  BY DEF NoOutput, Tree
<1>2. \A q \in Proc : BusyOK(q)'
  BY NoneAssumption DEF Return, TypeInv, Types, BusyOK
<1> QED
  BY <1>1, <1>2 DEF Return, TypeInv, Types, Steps

LEMMA NextTypes == TypeInv /\ [Next]_vars => TypeInv'
<1> SUFFICES ASSUME TypeInv, [Next]_vars PROVE TypeInv'
  OBVIOUS
<1>0. NoOutput \in Tree
  BY DEF NoOutput, Tree
<1>1. CASE UNCHANGED vars
  BY <1>1 DEF vars, disk, local, history, TypeInv, Types, BusyOK
<1>2. ASSUME NEW g \in Generator, Edit(g)
      PROVE  TypeInv'
  BY <1>2, LimitAssumption DEF Edit, disk, local, history, TypeInv, Types, BusyOK
<1>3. ASSUME NEW g \in Generator, Tamper(g)
      PROVE  TypeInv'
  BY <1>0, <1>3 DEF Tamper, local, TypeInv, Types, BusyOK
<1>4. CASE Clean
  BY <1>0, <1>4 DEF Clean, TypeInv, Types, BusyOK, Steps
<1>5. ASSUME NEW p \in Proc, Start(p)
      PROVE  TypeInv'
  BY <1>5 DEF Start, disk, local, TypeInv, Types, BusyOK
<1>6. ASSUME NEW p \in Proc, Kill(p) \/ Finish(p)
      PROVE  TypeInv'
  BY <1>6, LeaveTypes DEF Kill, Finish, history, TypeInv, Types
<1>7. ASSUME NEW p \in Proc, NEW g \in Generator, Lock(p, g)
      PROVE  TypeInv'
  BY <1>7, NoneAssumption DEF Lock, history, TypeInv, Types, BusyOK, Steps
<1>8. ASSUME NEW p \in Proc, NEW g \in Generator, cur[p] = g, ComputeKey(p, g)
      PROVE  TypeInv'
  BY <1>8 DEF ComputeKey, disk, history, TypeInv, Types, BusyOK, Steps
<1>9. ASSUME NEW p \in Proc, NEW g \in Generator, cur[p] = g, Reuse(p, g)
      PROVE  TypeInv'
  BY <1>9, ReturnTypes DEF Reuse, history, TypeInv, Types
<1>10. ASSUME NEW p \in Proc, NEW g \in Generator, cur[p] = g, Generate(p, g)
       PROVE  TypeInv'
  <2>1. Generated(g) \in Tree
    BY DEF Generated, Tree, TypeInv, Types
  <2> QED
    BY <1>10, <2>1 DEF Generate, disk, history, TypeInv, Types, BusyOK, Steps
<1>11. ASSUME NEW p \in Proc, NEW g \in Generator, cur[p] = g, Verify(p, g)
       PROVE  TypeInv'
  BY <1>11 DEF Verify, disk, history, TypeInv, Types, BusyOK, Steps
<1>12. ASSUME NEW p \in Proc, NEW g \in Generator, cur[p] = g, Park(p, g)
       PROVE  TypeInv'
  BY <1>0, <1>12 DEF Park, history, TypeInv, Types, BusyOK, Steps
<1>13. ASSUME NEW p \in Proc, NEW g \in Generator, cur[p] = g, Place(p, g)
       PROVE  TypeInv'
  BY <1>0, <1>13 DEF Place, TypeInv, Types, BusyOK, Steps
<1>14. ASSUME NEW p \in Proc, NEW g \in Generator, cur[p] = g, Record(p, g)
       PROVE  TypeInv'
  BY <1>14, ReturnTypes DEF Record, history, TypeInv, Types
<1>15. ASSUME NEW p \in Proc, NEW g \in Generator, cur[p] = g, Fail(p, g)
       PROVE  TypeInv'
  BY <1>15, LeaveTypes DEF Fail, history, TypeInv, Types
<1> QED
  BY <1>1, <1>2, <1>3, <1>4, <1>5, <1>6, <1>7, <1>8, <1>9, <1>10, <1>11, <1>12,
     <1>13, <1>14, <1>15, Cases DEF At

LEMMA Typed == Spec => []TypeInv
  BY InitTypes, NextTypes, PTL DEF Spec

------------------------------------------------------------------------------
(* Truthful state files.                                                   *)

LEMMA InitTruth == Init => TruthInv
  BY DEF Init, TruthInv, RecordTruthful, TreeOK

LEMMA NextTruth ==
    ASSUME Revert = FALSE
    PROVE  TypeInv /\ TruthInv /\ [Next]_vars => TruthInv'
<1> SUFFICES ASSUME TypeInv, TruthInv, [Next]_vars PROVE TruthInv'
  OBVIOUS
<1>1. CASE UNCHANGED vars
  BY <1>1 DEF vars, disk, local, history, TruthInv, RecordTruthful, TreeOK
<1>2. ASSUME NEW g \in Generator, Edit(g)
      PROVE  TruthInv'
  <2>1. \A h \in Generator : input[h] \in Nat /\ input'[h] \in Nat /\ input[h] <= input'[h]
    BY <1>2 DEF Edit, TypeInv, Types
  <2>2. \A p \in Proc, h \in Generator : made[p][h] \in Nat
    BY DEF TypeInv, Types, Tree
  <2>3. \A p \in Proc : TreeOK(p)'
    BY <1>2, <2>1, <2>2 DEF Edit, local, TypeInv, Types, BusyOK, TruthInv, TreeOK
  <2> QED
    BY <1>2, <2>3 DEF Edit, disk, TruthInv, RecordTruthful
<1>3. ASSUME NEW g \in Generator, Tamper(g)
      PROVE  TruthInv'
  BY <1>3 DEF Tamper, local, TruthInv, RecordTruthful, TreeOK
<1>4. CASE Clean
  BY <1>4 DEF Clean, TypeInv, Types, TruthInv, RecordTruthful, TreeOK
<1>5. ASSUME NEW p \in Proc, Start(p)
      PROVE  TruthInv'
  BY <1>5 DEF Start, disk, local, TruthInv, RecordTruthful, TreeOK
<1>6. ASSUME NEW p \in Proc, Kill(p) \/ Finish(p)
      PROVE  TruthInv'
  BY <1>6 DEF Kill, Finish, Leave, TypeInv, Types, TruthInv, RecordTruthful, TreeOK
<1>7. ASSUME NEW p \in Proc, NEW g \in Generator, Lock(p, g)
      PROVE  TruthInv'
  BY <1>7 DEF Lock, TypeInv, Types, TruthInv, RecordTruthful, TreeOK
<1>8. ASSUME NEW p \in Proc, NEW g \in Generator, cur[p] = g, ComputeKey(p, g)
      PROVE  TruthInv'
  BY <1>8 DEF ComputeKey, KeyOf, disk, TypeInv, Types, TruthInv, RecordTruthful, TreeOK
<1>9. ASSUME NEW p \in Proc, NEW g \in Generator, cur[p] = g, Reuse(p, g)
      PROVE  TruthInv'
  BY <1>9 DEF Reuse, Return, TypeInv, Types, TruthInv, RecordTruthful, TreeOK
<1>10. ASSUME NEW p \in Proc, NEW g \in Generator, cur[p] = g, Generate(p, g)
       PROVE  TruthInv'
  <2>1. Generated(g)[g] = input[g]
    BY DEF Generated
  <2> QED
    BY <1>10, <2>1 DEF Generate, disk, TypeInv, Types, TruthInv, RecordTruthful, TreeOK
<1>11. ASSUME NEW p \in Proc, NEW g \in Generator, cur[p] = g, Verify(p, g)
       PROVE  TruthInv'
  <2>1. key[p].own = input[g]
    BY <1>11 DEF Verify, KeyOf
  <2>2. made[p][g] \in Nat /\ input[g] \in Nat
    BY DEF TypeInv, Types, Tree
  <2>3. made[p][g] = key[p].own
    BY <1>11, <2>1, <2>2 DEF Verify, TruthInv, TreeOK
  <2> QED
    BY <1>11, <2>3 DEF Verify, disk, TypeInv, Types, TruthInv, RecordTruthful, TreeOK
<1>12. ASSUME NEW p \in Proc, NEW g \in Generator, cur[p] = g, Park(p, g)
       PROVE  TruthInv'
  BY <1>12 DEF Park, TypeInv, Types, TruthInv, RecordTruthful, TreeOK
<1>13. ASSUME NEW p \in Proc, NEW g \in Generator, cur[p] = g, Place(p, g)
       PROVE  TruthInv'
  BY <1>13 DEF Place, TypeInv, Types, TruthInv, RecordTruthful, TreeOK
<1>14. ASSUME NEW p \in Proc, NEW g \in Generator, cur[p] = g, Record(p, g)
       PROVE  TruthInv'
  <2>1. RecordTruthful'
    BY <1>14 DEF Record, TypeInv, Types, TruthInv, RecordTruthful, TreeOK
  <2>2. \A q \in Proc : TreeOK(q)'
    BY <1>14 DEF Record, Return, TypeInv, Types, TruthInv, TreeOK
  <2> QED
    BY <2>1, <2>2 DEF TruthInv
<1>15. ASSUME NEW p \in Proc, NEW g \in Generator, cur[p] = g, Fail(p, g)
       PROVE  TruthInv'
  BY <1>15 DEF Fail, Leave, TypeInv, Types, TruthInv, RecordTruthful, TreeOK
<1> QED
  BY <1>1, <1>2, <1>3, <1>4, <1>5, <1>6, <1>7, <1>8, <1>9, <1>10, <1>11, <1>12,
     <1>13, <1>14, <1>15, Cases DEF At

\* As long as no edit restores an earlier content, the output that a state file
\* records was generated from the input version its key names: of any number of
\* processes, under `jman clean`, tampering, errors and kills.  With restored
\* contents the second key cannot tell the difference.
THEOREM RecordsAreTruthful ==
    ASSUME Revert = FALSE
    PROVE  Spec => []RecordTruthful
<1>1. TruthInv => RecordTruthful
  BY DEF TruthInv
<1> QED
  BY <1>1, Typed, InitTruth, NextTruth, PTL DEF Spec

------------------------------------------------------------------------------
(* Outputs that survive failures.                                          *)

LEMMA InitCover == Init => CoverInv
  BY DEF Init, CoverInv, MadeOK, Covered, Counts

\* Nothing about g changes but, perhaps, that it counts no longer.
LEMMA StillCovered ==
    ASSUME NEW g \in Generator, Covered(g), Counts(g)' => Counts(g),
           output'[g] = output[g],
           \A p \in Proc : cur[p] = g /\ step[p] = "parked" =>
               cur'[p] = g /\ step'[p] = "parked" /\ backup'[p] = backup[p]
    PROVE  Covered(g)'
  BY DEF Covered, Present, Saved

LEMMA NextMade ==
    TypeInv /\ (\A p \in Proc : MadeOK(p)) /\ [Next]_vars => \A p \in Proc : MadeOK(p)'
<1> SUFFICES ASSUME TypeInv, \A p \in Proc : MadeOK(p), [Next]_vars
             PROVE  \A p \in Proc : MadeOK(p)'
  OBVIOUS
<1>1. CASE UNCHANGED vars \/ \E g \in Generator : Edit(g) \/ Tamper(g)
  BY <1>1 DEF vars, Edit, Tamper, local, MadeOK
<1>2. CASE Clean
  BY <1>2 DEF Clean, TypeInv, Types, MadeOK
<1>3. ASSUME NEW p \in Proc, Start(p) \/ Kill(p) \/ Finish(p)
      PROVE  \A q \in Proc : MadeOK(q)'
  BY <1>3 DEF Start, Kill, Finish, Leave, local, TypeInv, Types, MadeOK
<1>4. ASSUME NEW p \in Proc, NEW g \in Generator, Lock(p, g)
      PROVE  \A q \in Proc : MadeOK(q)'
  BY <1>4 DEF Lock, TypeInv, Types, MadeOK
<1>5. ASSUME NEW p \in Proc, NEW g \in Generator, cur[p] = g, Generate(p, g)
      PROVE  \A q \in Proc : MadeOK(q)'
  <2>1. Generated(g)[g] # 0
    BY DEF Generated, TypeInv, Types
  <2> QED
    BY <1>5, <2>1 DEF Generate, TypeInv, Types, MadeOK
<1>6. ASSUME NEW p \in Proc, NEW g \in Generator, cur[p] = g,
             ComputeKey(p, g) \/ Verify(p, g) \/ Park(p, g) \/ Place(p, g)
      PROVE  \A q \in Proc : MadeOK(q)'
  BY <1>6 DEF ComputeKey, Verify, Park, Place, TypeInv, Types, MadeOK
<1>7. ASSUME NEW p \in Proc, NEW g \in Generator, cur[p] = g,
             Reuse(p, g) \/ Record(p, g) \/ Fail(p, g)
      PROVE  \A q \in Proc : MadeOK(q)'
  BY <1>7 DEF Reuse, Record, Fail, Return, Leave, TypeInv, Types, MadeOK
<1> QED
  BY <1>1, <1>2, <1>3, <1>4, <1>5, <1>6, <1>7, Cases DEF At

LEMMA NextCovered ==
    TypeInv /\ CoverInv /\ [Next]_vars => \A h \in Generator \ torn' : Covered(h)'
<1> SUFFICES ASSUME TypeInv, CoverInv, [Next]_vars, NEW h \in Generator \ torn'
             PROVE  Covered(h)'
  OBVIOUS
<1>1. CASE UNCHANGED vars
  BY <1>1, StillCovered DEF vars, disk, local, history, CoverInv, Counts
<1>2. ASSUME NEW g \in Generator, Edit(g)
      PROVE  Covered(h)'
  BY <1>2, StillCovered DEF Edit, disk, local, history, CoverInv, Counts
<1>3. ASSUME NEW g \in Generator, Tamper(g)
      PROVE  Covered(h)'
  BY <1>3, StillCovered DEF Tamper, local, TypeInv, Types, CoverInv, Counts
\* After a cleanup nothing counts.
<1>4. CASE Clean
  BY <1>4 DEF Clean, TypeInv, Types, Steps, Covered, Counts
<1>5. ASSUME NEW p \in Proc, Start(p)
      PROVE  Covered(h)'
  BY <1>5, StillCovered DEF Start, disk, local, CoverInv, Counts
\* A process that is killed in the middle of a swap is no witness for h.
<1>6. ASSUME NEW p \in Proc, Kill(p)
      PROVE  Covered(h)'
  <2>1. h \notin torn /\ ~(cur[p] = h /\ step[p] = "parked")
    BY <1>6 DEF Kill
  <2> QED
    BY <1>6, <2>1, StillCovered DEF Kill, Leave, TypeInv, Types, CoverInv, Counts
<1>7. ASSUME NEW p \in Proc, Finish(p)
      PROVE  Covered(h)'
  <2>1. step[p] # "parked" \/ cur[p] \notin Generator
    BY <1>7 DEF Finish, TypeInv, BusyOK
  <2> QED
    BY <1>7, <2>1, StillCovered DEF Finish, Leave, history, TypeInv, Types, CoverInv, Counts
<1>8. ASSUME NEW p \in Proc, NEW g \in Generator, Lock(p, g)
      PROVE  Covered(h)'
  BY <1>8, StillCovered DEF Lock, history, TypeInv, Types, CoverInv, Counts
<1>9. ASSUME NEW p \in Proc, NEW g \in Generator, cur[p] = g,
             ComputeKey(p, g) \/ Generate(p, g) \/ Verify(p, g)
      PROVE  Covered(h)'
  BY <1>9, StillCovered
     DEF ComputeKey, Generate, Verify, disk, history, TypeInv, Types, CoverInv, Counts
<1>10. ASSUME NEW p \in Proc, NEW g \in Generator, cur[p] = g, Reuse(p, g)
       PROVE  Covered(h)'
  BY <1>10, StillCovered DEF Reuse, Return, history, TypeInv, Types, CoverInv, Counts
\* What is parked is either a good output, or somebody else has the good one.
<1>11. ASSUME NEW p \in Proc, NEW g \in Generator, cur[p] = g, Park(p, g)
       PROVE  Covered(h)'
  <2>1. h \notin torn /\ (Counts(h)' => Counts(h))
    BY <1>11 DEF Park, history, TypeInv, Types, Counts
  <2>2. CASE h = g /\ Present(h)
    BY <1>11, <2>2 DEF Park, Present, TypeInv, Types, Covered, Saved
  <2>3. ASSUME ~(h = g /\ Present(h)), Counts(h)
        PROVE  Present(h)' \/ Saved(h)'
    <3>1. CASE Present(h)
      BY <1>11, <2>3, <3>1 DEF Park, Present, TypeInv, Types
    <3>2. CASE Saved(h)
      BY <1>11, <3>2 DEF Park, TypeInv, Types, Saved
    <3> QED
      BY <2>1, <2>3, <3>1, <3>2 DEF CoverInv, Covered
  <2> QED
    BY <2>1, <2>2, <2>3 DEF Covered
<1>12. ASSUME NEW p \in Proc, NEW g \in Generator, cur[p] = g, Place(p, g)
       PROVE  Covered(h)'
  <2>1. CASE h = g
    BY <1>12, <2>1 DEF Place, Present, TypeInv, Types, CoverInv, MadeOK, Covered
  <2>2. CASE h # g
    BY <1>12, <2>2, StillCovered DEF Place, TypeInv, Types, CoverInv, Counts
  <2> QED
    BY <2>1, <2>2
\* What is recorded counted before: it had been placed.
<1>13. ASSUME NEW p \in Proc, NEW g \in Generator, cur[p] = g, Record(p, g)
       PROVE  Covered(h)'
  <2>1. Counts(h)' => Counts(h)
    BY <1>13 DEF Record, Return, TypeInv, Types, Counts
  <2> QED
    BY <1>13, <2>1, StillCovered DEF Record, Return, history, TypeInv, Types, CoverInv
<1>14. ASSUME NEW p \in Proc, NEW g \in Generator, cur[p] = g, Fail(p, g)
       PROVE  Covered(h)'
  <2>1. h \notin torn /\ (Counts(h)' => Counts(h))
    BY <1>14 DEF Fail, Leave, history, TypeInv, Types, Counts
  <2>2. CASE ~(h = g /\ step[p] = "parked")
    BY <1>14, <2>1, <2>2, StillCovered DEF Fail, Leave, TypeInv, Types, CoverInv
  <2>3. CASE h = g /\ step[p] = "parked" /\ Present(h)
    BY <1>14, <2>3 DEF Fail, Present, Covered
  <2>4. CASE h = g /\ step[p] = "parked" /\ ~Present(h)
    <3>1. CASE backup[p][h] # 0
      BY <1>14, <2>4, <3>1 DEF Fail, Present, TypeInv, Types, Covered
    <3>2. ASSUME backup[p][h] = 0, Counts(h)
          PROVE  Saved(h)'
      <4>1. PICK q \in Proc : cur[q] = h /\ step[q] = "parked" /\ backup[q][h] # 0
        BY <2>1, <2>4, <3>2 DEF CoverInv, Covered, Saved
      <4>2. q # p
        BY <3>2, <4>1
      <4> QED
        BY <1>14, <4>1, <4>2 DEF Fail, Leave, TypeInv, Types, Saved
    <3> QED
      BY <2>1, <3>1, <3>2 DEF Covered
  <2> QED
    BY <2>2, <2>3, <2>4
<1> QED
  BY <1>1, <1>2, <1>3, <1>4, <1>5, <1>6, <1>7, <1>8, <1>9, <1>10, <1>11, <1>12,
     <1>13, <1>14, Cases DEF At

\* An output that has been recorded is on disk or in the hands of a process that
\* swaps it, whatever errors come at whatever step of however many processes,
\* also when `jman clean` has let two of them into the same generator.
THEOREM FailuresPreserveOutputs == Spec => []FailurePreservesOutput
<1>1. CoverInv => FailurePreservesOutput
  BY DEF CoverInv, Covered, Counts, Saved, FailurePreservesOutput
<1>2. TypeInv /\ CoverInv /\ [Next]_vars => CoverInv'
  BY NextMade, NextCovered DEF CoverInv
<1> QED
  BY <1>1, <1>2, Typed, InitCover, PTL DEF Spec

------------------------------------------------------------------------------
(* Dependencies.                                                           *)

LEMMA InitDependency == Init => DependencyInv
  BY DEF Init, DependencyInv, Alone, RecordsOK, DependenciesOK

\* A process with nothing behind it, and at no generator, relies on nothing.
LEMMA Relying ==
    ASSUME NEW p \in Proc, complete'[p] = {}, step'[p] = "ready"
    PROVE  DependenciesOK(p)'
  BY DEF DependenciesOK

\* When one process runs the others are such processes.
LEMMA Others ==
    ASSUME TypeInv, Alone, NEW p \in Proc, status[p] = "running",
           NEW q \in Proc, q # p
    PROVE  status[q] = "idle" /\ complete[q] = {} /\ step[q] = "ready"
  BY DEF TypeInv, Types, BusyOK, Alone

\* A process that leaves keeps no state file from being what it was.
LEMMA LeaveDependency ==
    ASSUME TypeInv, Alone, RecordsOK, NEW p \in Proc, status[p] = "running",
           Leave(p), record' = record
    PROVE  Alone' /\ RecordsOK' /\ \A q \in Proc : DependenciesOK(q)'
<1>1. \A q \in Proc : status'[q] = "idle" /\ complete'[q] = {} /\ step'[q] = "ready"
  BY Others DEF Leave, TypeInv, Types
<1>2. \A q \in Proc : DependenciesOK(q)'
  BY <1>1, Relying
<1> QED
  BY <1>1, <1>2 DEF Alone, RecordsOK

\* What is left to show of a step of the process that runs: the state files,
\* and what the process itself relies on.
LEMMA StepDependency ==
    ASSUME TypeInv, Alone, NEW p \in Proc, status[p] = "running", status' = status,
           \A q \in Proc : q # p => complete'[q] = complete[q] /\ step'[q] = step[q],
           RecordsOK', DependenciesOK(p)'
    PROVE  Alone' /\ RecordsOK' /\ \A q \in Proc : DependenciesOK(q)'
<1>1. ASSUME NEW q \in Proc, q # p
      PROVE  DependenciesOK(q)'
  BY <1>1, Others, Relying
<1> QED
  BY <1>1 DEF Alone

LEMMA NextDependency == TypeInv /\ DependencyInv /\ [Next]_vars => DependencyInv'
<1> SUFFICES ASSUME TypeInv, DependencyInv, [Next]_vars, ~overlapped'
             PROVE  Alone' /\ RecordsOK' /\ \A p \in Proc : DependenciesOK(p)'
  BY DEF DependencyInv
<1>1. CASE UNCHANGED vars
  BY <1>1 DEF vars, disk, local, history, DependencyInv, Alone, RecordsOK,
              DependenciesOK, Described
<1>2. ASSUME NEW g \in Generator, Edit(g)
      PROVE  Alone' /\ RecordsOK' /\ \A p \in Proc : DependenciesOK(p)'
  BY <1>2 DEF Edit, disk, local, history, DependencyInv, Alone, RecordsOK,
              DependenciesOK, Described
\* Nobody runs when the user changes an output.
<1>3. ASSUME NEW g \in Generator, Tamper(g)
      PROVE  Alone' /\ RecordsOK' /\ \A p \in Proc : DependenciesOK(p)'
  <2>1. \A p \in Proc : complete'[p] = {} /\ step'[p] = "ready"
    BY <1>3 DEF Tamper, local, Running, TypeInv, Types, BusyOK
  <2>2. \A p \in Proc : DependenciesOK(p)'
    BY <2>1, Relying
  <2> QED
    BY <1>3, <2>2 DEF Tamper, DependencyInv, Alone, RecordsOK
<1>4. CASE Clean
  <2>1. ASSUME NEW p \in Proc
        PROVE  DependenciesOK(p)'
    <3>1. step'[p] \notin {"made", "verified", "parked", "placed"}
      BY <1>4 DEF Clean, TypeInv, Types, Steps
    <3>2. step'[p] = "keyed" => step[p] = "keyed"
      BY <1>4 DEF Clean, TypeInv, Types
    <3>3. \A d \in complete'[p] : Described(d)'
      BY <1>4 DEF Clean, TypeInv, Types, Described
    <3> QED
      BY <1>4, <3>1, <3>2, <3>3 DEF Clean, DependencyInv, DependenciesOK
  <2>2. RecordsOK'
    BY <1>4 DEF Clean, RecordsOK
  <2> QED
    BY <1>4, <2>1, <2>2 DEF Clean, DependencyInv, Alone
<1>5. ASSUME NEW p \in Proc, Start(p)
      PROVE  Alone' /\ RecordsOK' /\ \A q \in Proc : DependenciesOK(q)'
  <2>1. ~overlapped /\ Running = {}
    BY <1>5 DEF Start
  <2>2. Alone'
    BY <1>5, <2>1 DEF Start, Running, Alone, TypeInv, Types
  <2> QED
    BY <1>5, <2>1, <2>2 DEF Start, disk, local, DependencyInv, RecordsOK,
                            DependenciesOK, Described
<1>6. ASSUME NEW p \in Proc, Kill(p) \/ Finish(p)
      PROVE  Alone' /\ RecordsOK' /\ \A q \in Proc : DependenciesOK(q)'
  BY <1>6, LeaveDependency DEF Kill, Finish, history, DependencyInv
<1>7. ASSUME NEW p \in Proc, NEW g \in Generator, Lock(p, g)
      PROVE  Alone' /\ RecordsOK' /\ \A q \in Proc : DependenciesOK(q)'
  <2>1. DependenciesOK(p)'
    BY <1>7 DEF Lock, history, TypeInv, Types, DependencyInv, DependenciesOK, Described
  <2>2. RecordsOK'
    BY <1>7 DEF Lock, history, DependencyInv, RecordsOK
  <2> QED
    BY <1>7, <2>1, <2>2, StepDependency
       DEF Lock, history, TypeInv, Types, DependencyInv
<1>8. ASSUME NEW p \in Proc, NEW g \in Generator, At(p, g)
      PROVE  Alone' /\ RecordsOK' /\ \A q \in Proc : DependenciesOK(q)'
  <2>1. cur[p] = g /\ step[p] # "ready"
    BY <1>8 DEF At, ComputeKey, Reuse, Generate, Verify, Park, Place, Record, Fail
  <2>2. status[p] = "running"
    BY <2>1 DEF TypeInv, Types, BusyOK
  <2>3. g \notin complete[p] /\ DependsOn[g] \subseteq complete[p]
    BY <2>1 DEF TypeInv, BusyOK
  <2>4. ~overlapped
    BY <1>8 DEF At, ComputeKey, Reuse, Generate, Verify, Park, Place, Record, Fail, history
  <2>5. Alone /\ RecordsOK /\ DependenciesOK(p)
    BY <2>4 DEF DependencyInv
  <2>6. CASE ComputeKey(p, g)
    <3>1. DependenciesOK(p)'
      BY <2>1, <2>3, <2>5, <2>6
         DEF ComputeKey, KeyOf, disk, TypeInv, Types, DependenciesOK, Described
    <3>2. RecordsOK'
      BY <2>5, <2>6 DEF ComputeKey, disk, RecordsOK
    <3> QED
      BY <2>2, <2>5, <2>6, <3>1, <3>2, StepDependency DEF ComputeKey, TypeInv, Types
  \* The digests have been checked.
  <2>7. CASE Reuse(p, g)
    <3>1. Described(g)
      BY <2>7 DEF Reuse, Hit, Described
    <3>2. DependenciesOK(p)'
      BY <2>5, <2>7, <3>1 DEF Reuse, Return, TypeInv, Types, DependenciesOK, Described
    <3>3. RecordsOK'
      BY <2>5, <2>7 DEF Reuse, RecordsOK
    <3> QED
      BY <2>2, <2>5, <2>7, <3>2, <3>3, StepDependency DEF Reuse, Return, TypeInv, Types
  \* It reads the outputs of the generators that have returned.
  <2>8. CASE Generate(p, g)
    <3>1. \A d \in DependsOn[g] : Generated(g)[d] = output[d][d]
      BY <2>3, DependsAssumption DEF Generated
    <3>2. DependenciesOK(p)'
      BY <2>1, <2>3, <2>5, <2>8, <3>1
         DEF Generate, disk, TypeInv, Types, DependenciesOK, Described
    <3>3. RecordsOK'
      BY <2>5, <2>8 DEF Generate, disk, RecordsOK
    <3> QED
      BY <2>2, <2>5, <2>8, <3>2, <3>3, StepDependency DEF Generate, TypeInv, Types
  \* The second key names the state files that are there now.
  <2>9. CASE Verify(p, g)
    <3>1. \A d \in DependsOn[g] : key[p].deps[d] = record[d]
      BY <2>9, DependsAssumption DEF Verify, KeyOf
    <3>2. DependenciesOK(p)'
      BY <2>1, <2>5, <2>9, <3>1
         DEF Verify, disk, TypeInv, Types, DependenciesOK, Described
    <3>3. RecordsOK'
      BY <2>5, <2>9 DEF Verify, disk, RecordsOK
    <3> QED
      BY <2>2, <2>5, <2>9, <3>2, <3>3, StepDependency DEF Verify, TypeInv, Types
  <2>10. CASE Park(p, g)
    <3>1. DependenciesOK(p)'
      BY <2>1, <2>3, <2>5, <2>10 DEF Park, TypeInv, Types, DependenciesOK, Described
    <3>2. RecordsOK'
      BY <2>5, <2>10 DEF Park, RecordsOK
    <3> QED
      BY <2>2, <2>5, <2>10, <3>1, <3>2, StepDependency DEF Park, TypeInv, Types
  <2>11. CASE Place(p, g)
    <3>1. DependenciesOK(p)'
      BY <2>1, <2>3, <2>5, <2>11 DEF Place, TypeInv, Types, DependenciesOK, Described
    <3>2. RecordsOK'
      BY <2>5, <2>11 DEF Place, RecordsOK
    <3> QED
      BY <2>2, <2>5, <2>11, <3>1, <3>2, StepDependency DEF Place, TypeInv, Types
  <2>12. CASE Record(p, g)
    <3>1. RecordsOK'
      BY <2>1, <2>5, <2>12 DEF Record, TypeInv, Types, RecordsOK, DependenciesOK
    <3>2. DependenciesOK(p)'
      BY <2>1, <2>3, <2>5, <2>12
         DEF Record, Return, TypeInv, Types, DependenciesOK, Described
    <3> QED
      BY <2>2, <2>5, <2>12, <3>1, <3>2, StepDependency DEF Record, Return, TypeInv, Types
  <2>13. CASE Fail(p, g)
    BY <2>2, <2>5, <2>13, LeaveDependency DEF Fail
  <2> QED
    BY <1>8, <2>6, <2>7, <2>8, <2>9, <2>10, <2>11, <2>12, <2>13 DEF At
<1> QED
  BY <1>1, <1>2, <1>3, <1>4, <1>5, <1>6, <1>7, <1>8, Cases

\* Until processes overlap, a state file that names the present state of a
\* dependency describes an output that was generated from what that state
\* records: also when edits restore contents, since a state file that is
\* replaced while the generator runs changes the second key.
THEOREM DependenciesAreHonoured == Spec => []DependencyHonoured
<1>1. DependencyInv => DependencyHonoured
  BY DEF DependencyInv, RecordsOK, DependencyHonoured
<1> QED
  BY <1>1, Typed, InitDependency, NextDependency, PTL DEF Spec
=========================================================================
