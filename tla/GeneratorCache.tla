--------------------------- MODULE GeneratorCache ---------------------------
(***************************************************************************)
(* Source generators of one module: run_module_generators and              *)
(* run_generator of crates/jman-build/src/lib.rs.  A process runs the      *)
(* generators in dependency order, each under an advisory lock on          *)
(* .jman/generator-state/NAME.lock.  A generator is skipped when its state *)
(* file records the present key and the output still has the recorded      *)
(* digests.  Otherwise it runs into a temporary tree, the key is computed  *)
(* a second time, the tree is swapped in with two renames and the state    *)
(* file is replaced last.                                                  *)
(*                                                                         *)
(* An output is described by what it was generated from: the version of    *)
(* the generator's own inputs, and the version that was in the output of   *)
(* each generator it depends on when it read them.  An output whose own    *)
(* component is 0 is missing, or no longer what a generator made.          *)
(***************************************************************************)
EXTENDS Naturals, FiniteSets

CONSTANTS
    Generator,   \* the generators of the module
    DependsOn,   \* Generator -> the generators it names in depends-on
    Proc,        \* the jman processes that may generate
    Revert,      \* may an edit restore an earlier content?
    MaxVersion,  \* bound: input versions are 1..MaxVersion
    MaxRuns,     \* bound: processes started
    None         \* no state file, no process, no generator

ASSUME DependsAssumption == DependsOn \in [Generator -> SUBSET Generator]
ASSUME NoneAssumption == None \notin Generator \cup Proc
ASSUME LimitAssumption ==
    MaxVersion \in Nat \ {0} /\ MaxRuns \in Nat /\ Revert \in BOOLEAN

VARIABLES
    input,     \* what the inputs, command and environment of each one hold
    output,    \* .jman/generated/NAME
    record,    \* .jman/generator-state/NAME.json: the key and output digests
    lock,      \* the process that has NAME.lock, as it exists on disk, locked
    runs,      \* processes started so far
    status,    \* per process: idle or running
    rebuild,   \* per process: --rebuild
    complete,  \* per process: generators that have returned
    cur,       \* per process: the generator it runs
    step,      \* per process: how far run_generator has come
    key,       \* per process: the key it has computed
    made,      \* per process: the temporary output tree
    backup,    \* per process: NAME.old.PID
    overlapped,\* history: have two processes ever generated at the same time?
    torn       \* history: outputs lost to the user, or to a kill during a swap

disk == <<output, record, lock>>
local == <<complete, cur, step, key, made, backup>>
history == <<overlapped, torn>>
vars == <<input, disk, runs, status, rebuild, local, history>>

NoOutput == [g \in Generator |-> 0]
NoKey == [own |-> 0, deps |-> NoOutput]
Running == {p \in Proc : status[p] = "running"}

\* generator_key: the generator's own inputs and, for each dependency, the
\* bytes of its state file.
KeyOf(g) ==
    [own |-> input[g],
     deps |-> [d \in Generator |-> IF d \in DependsOn[g] THEN record[d] ELSE 0]]

Present(g) == output[g][g] # 0

\* What the command writes now.
Generated(g) ==
    [d \in Generator |-> IF d = g THEN input[g]
                         ELSE IF d \in DependsOn[g] THEN output[d][d] ELSE 0]

HitOnRecord(p, g) ==
    ~rebuild[p] /\ record[g] # None /\ record[g].key = key[p]

\* The state file has this key, and every output its recorded digest.
Hit(p, g) ==
    /\ ~rebuild[p]
    /\ record[g] # None
    /\ record[g].key = key[p]
    /\ Present(g) /\ output[g] = record[g].out

------------------------------------------------------------------------------
Init ==
    /\ input = [g \in Generator |-> 1]
    /\ output = [g \in Generator |-> NoOutput]
    /\ record = [g \in Generator |-> None]
    /\ lock = [g \in Generator |-> None]
    /\ runs = 0
    /\ status = [p \in Proc |-> "idle"]
    /\ rebuild = [p \in Proc |-> FALSE]
    /\ complete = [p \in Proc |-> {}]
    /\ cur = [p \in Proc |-> None]
    /\ step = [p \in Proc |-> "ready"]
    /\ key = [p \in Proc |-> NoKey]
    /\ made = [p \in Proc |-> NoOutput]
    /\ backup = [p \in Proc |-> NoOutput]
    /\ overlapped = FALSE
    /\ torn = {}

\* The user saves an input, or changes the configuration.
Edit(g) ==
    \E v \in 1..MaxVersion :
        /\ IF Revert THEN v # input[g] ELSE v = input[g] + 1
        /\ input' = [input EXCEPT ![g] = v]
        /\ UNCHANGED <<disk, runs, status, rebuild, local, history>>

\* The user deletes or changes a generated file, while nothing generates.
Tamper(g) ==
    /\ Running = {}
    /\ Present(g)
    /\ output' = [output EXCEPT ![g] = NoOutput]
    /\ torn' = torn \cup {g}
    /\ UNCHANGED <<input, record, lock, runs, status, rebuild, local,
                   overlapped>>

\* `jman clean` (crates/jman-cli/src/storage.rs, clean_project) removes .jman
\* whether or not somebody generates: outputs, state files, temporary trees,
\* and lock files, so that the next process locks a new file.
Clean ==
    /\ output' = [g \in Generator |-> NoOutput]
    /\ record' = [g \in Generator |-> None]
    /\ lock' = [g \in Generator |-> None]
    /\ step' = [p \in Proc |->
                   IF step[p] \in {"made", "verified", "parked", "placed"}
                   THEN "lost" ELSE step[p]]
    /\ made' = [p \in Proc |-> NoOutput]
    /\ backup' = [p \in Proc |-> NoOutput]
    /\ torn' = {}
    /\ UNCHANGED <<input, runs, status, rebuild, complete, cur, key,
                   overlapped>>

Start(p) ==
    /\ status[p] = "idle"
    /\ runs < MaxRuns
    /\ runs' = runs + 1
    /\ \E r \in BOOLEAN : rebuild' = [rebuild EXCEPT ![p] = r]
    /\ status' = [status EXCEPT ![p] = "running"]
    /\ overlapped' = (overlapped \/ Running # {})
    /\ UNCHANGED <<input, disk, local, torn>>

\* Open and lock the lock file of a generator whose dependencies have returned.
Lock(p, g) ==
    /\ status[p] = "running"
    /\ step[p] = "ready"
    /\ g \notin complete[p]
    /\ DependsOn[g] \subseteq complete[p]
    /\ lock[g] = None
    /\ lock' = [lock EXCEPT ![g] = p]
    /\ cur' = [cur EXCEPT ![p] = g]
    /\ step' = [step EXCEPT ![p] = "locked"]
    /\ UNCHANGED <<input, output, record, runs, status, rebuild, complete, key,
                   made, backup, history>>

\* The first key; the state file of a dependency must be there.
ComputeKey(p, g) ==
    /\ step[p] = "locked"
    /\ \A d \in DependsOn[g] : record[d] # None
    /\ key' = [key EXCEPT ![p] = KeyOf(g)]
    /\ step' = [step EXCEPT ![p] = "keyed"]
    /\ UNCHANGED <<input, disk, runs, status, rebuild, complete, cur, made,
                   backup, history>>

\* The generator returns: its lock file is closed, on disk or not.
Return(p, g) ==
    /\ complete' = [complete EXCEPT ![p] = @ \cup {g}]
    /\ lock' = [h \in Generator |-> IF lock[h] = p THEN None ELSE lock[h]]
    /\ cur' = [cur EXCEPT ![p] = None]
    /\ step' = [step EXCEPT ![p] = "ready"]
    /\ key' = [key EXCEPT ![p] = NoKey]
    /\ made' = [made EXCEPT ![p] = NoOutput]
    /\ backup' = [backup EXCEPT ![p] = NoOutput]

Reuse(p, g) ==
    /\ step[p] = "keyed"
    /\ Hit(p, g)
    /\ Return(p, g)
    /\ UNCHANGED <<input, output, record, runs, status, rebuild, history>>

Generate(p, g) ==
    /\ step[p] = "keyed"
    /\ ~Hit(p, g)
    /\ made' = [made EXCEPT ![p] = Generated(g)]
    /\ step' = [step EXCEPT ![p] = "made"]
    /\ UNCHANGED <<input, disk, runs, status, rebuild, complete, cur, key,
                   backup, history>>

SkipVerify(p, g) ==
    /\ step[p] = "made"
    /\ step' = [step EXCEPT ![p] = "verified"]
    /\ UNCHANGED <<input, disk, runs, status, rebuild, complete, cur, key,
                   made, backup, history>>

\* The second key is the first: the new state is written beside the old one.
Verify(p, g) ==
    /\ step[p] = "made"
    /\ KeyOf(g) = key[p]
    /\ step' = [step EXCEPT ![p] = "verified"]
    /\ UNCHANGED <<input, disk, runs, status, rebuild, complete, cur, key,
                   made, backup, history>>

Park(p, g) ==
    /\ step[p] = "verified"
    /\ backup' = [backup EXCEPT ![p] = output[g]]
    /\ output' = [output EXCEPT ![g] = NoOutput]
    /\ step' = [step EXCEPT ![p] = "parked"]
    /\ UNCHANGED <<input, record, lock, runs, status, rebuild, complete, cur,
                   key, made, history>>

Place(p, g) ==
    /\ step[p] = "parked"
    /\ ~Present(g)
    /\ output' = [output EXCEPT ![g] = made[p]]
    /\ backup' = [backup EXCEPT ![p] = NoOutput]
    /\ step' = [step EXCEPT ![p] = "placed"]
    /\ torn' = torn \ {g}
    /\ UNCHANGED <<input, record, lock, runs, status, rebuild, complete, cur,
                   key, made, overlapped>>

\* replace_file of the state.
Record(p, g) ==
    /\ step[p] = "placed"
    /\ record' = [record EXCEPT ![g] = [key |-> key[p], out |-> made[p]]]
    /\ Return(p, g)
    /\ UNCHANGED <<input, output, runs, status, rebuild, history>>

LeaveLocked(p) ==
    /\ status' = [status EXCEPT ![p] = "idle"]
    /\ rebuild' = [rebuild EXCEPT ![p] = FALSE]
    /\ complete' = [complete EXCEPT ![p] = {}]
    /\ cur' = [cur EXCEPT ![p] = None]
    /\ step' = [step EXCEPT ![p] = "ready"]
    /\ key' = [key EXCEPT ![p] = NoKey]
    /\ made' = [made EXCEPT ![p] = NoOutput]
    /\ backup' = [backup EXCEPT ![p] = NoOutput]
    /\ UNCHANGED lock

\* What an exit of any kind does to the process's own variables and locks.
Leave(p) ==
    /\ status' = [status EXCEPT ![p] = "idle"]
    /\ rebuild' = [rebuild EXCEPT ![p] = FALSE]
    /\ complete' = [complete EXCEPT ![p] = {}]
    /\ lock' = [g \in Generator |-> IF lock[g] = p THEN None ELSE lock[g]]
    /\ cur' = [cur EXCEPT ![p] = None]
    /\ step' = [step EXCEPT ![p] = "ready"]
    /\ key' = [key EXCEPT ![p] = NoKey]
    /\ made' = [made EXCEPT ![p] = NoOutput]
    /\ backup' = [backup EXCEPT ![p] = NoOutput]

FailWithoutRestore(p, g) ==
    /\ step[p] # "ready"
    /\ Leave(p)
    /\ UNCHANGED <<input, output, record, runs, history>>

\* run_generator returns an error.  After a failed second rename the backup
\* goes back.
Fail(p, g) ==
    /\ step[p] # "ready"
    /\ output' = IF step[p] = "parked" /\ ~Present(g)
                 THEN [output EXCEPT ![g] = backup[p]] ELSE output
    /\ Leave(p)
    /\ UNCHANGED <<input, record, runs, history>>

\* The errors that must happen: a dependency without a state file, inputs that
\* changed while the generator ran, a swap or a state file that cannot be put
\* in place because somebody else has been there.
Refuse(p, g) ==
    /\ \/ step[p] = "locked" /\ \E d \in DependsOn[g] : record[d] = None
       \/ step[p] = "made" /\ KeyOf(g) # key[p]
       \/ step[p] = "parked" /\ Present(g)
       \/ step[p] = "lost"
    /\ Fail(p, g)

\* The process is killed, or the module's future is dropped because another
\* module failed.  The operating system releases the locks; a backup stays
\* where it is and nothing looks for it again.
Kill(p) ==
    /\ status[p] = "running"
    /\ torn' = torn \cup {g \in Generator : cur[p] = g /\ step[p] = "parked"}
    /\ Leave(p)
    /\ UNCHANGED <<input, output, record, runs, overlapped>>

Finish(p) ==
    /\ status[p] = "running"
    /\ complete[p] = Generator
    /\ Leave(p)
    /\ UNCHANGED <<input, output, record, runs, history>>

GeneratorStep(p, g) ==
    \/ ComputeKey(p, g)
    \/ Reuse(p, g)
    \/ Generate(p, g)
    \/ Verify(p, g)
    \/ Park(p, g)
    \/ Place(p, g)
    \/ Record(p, g)
    \/ Refuse(p, g)

RunStep(p) ==
    \/ \E g \in Generator : Lock(p, g)
    \/ cur[p] # None /\ GeneratorStep(p, cur[p])
    \/ Finish(p)

Next ==
    \/ \E g \in Generator : Edit(g) \/ Tamper(g)
    \/ Clean
    \/ \E p \in Proc : Start(p) \/ RunStep(p) \/ Kill(p)
    \/ \E p \in Proc : cur[p] # None /\ Fail(p, cur[p])

Spec == Init /\ [][Next]_vars

\* A process that can go on does, and the kernel gives a free lock to a waiter.
FairSpec == Spec /\ \A p \in Proc : WF_vars(RunStep(p))
------------------------------------------------------------------------------
(* Properties.                                                             *)

\* A state file is truthful: the output it records was generated from the very
\* input version its key names, whatever edits, errors, kills, cleanups and
\* other processes came while the generator ran.  (Its key could not tell an
\* input that was changed and changed back.)
RecordTruthful ==
    \A g \in Generator :
        record[g] # None => record[g].out[g] = record[g].key.own

\* "includes dependency state in downstream generator keys"
\* (docs/guides/generators.md): when the state file of a generator names the
\* present state of a dependency, and so may be reused, its output was
\* generated from the output that state describes, unless processes overlapped.
DependencyHonoured ==
    ~overlapped =>
        \A g \in Generator : \A d \in DependsOn[g] :
            record[g] # None /\ record[d] # None
            /\ record[g].key.deps[d] = record[d]
                => record[g].out[d] = record[d].out[d]

\* "Failure preserves the previous valid output" (docs/guides/generators.md):
\* an output that has been recorded is on disk, or in the hands of a process
\* that is swapping it, whatever errors come at whatever step of however many
\* processes; only the user, or a kill between the two renames, takes it away.
FailurePreservesOutput ==
    \A g \in Generator :
        record[g] # None /\ g \notin torn =>
            \/ Present(g)
            \/ \E p \in Proc : cur[p] = g /\ step[p] = "parked"

\* Processes that wait for each other's generators all come to an end.
RunsEnd == \A p \in Proc : status[p] = "running" ~> status[p] # "running"
=============================================================================
