------------------------------ MODULE TestRuns ------------------------------
(***************************************************************************)
(* `jman test` beside `jman compile`: crates/jman-build/src/lib.rs,        *)
(* test_workspace, run_test_module, ensure_test_runner and                 *)
(* compile_test_sources.  A test command compiles the workspace as every   *)
(* other command does (WorkspaceBuild), then compiles and runs the tests   *)
(* of the modules side by side, each in a JVM of its own.                  *)
(*                                                                         *)
(* The test classes of a module lie inside .jman/output, the directory     *)
(* that a compilation of the module moves away as a whole, while their     *)
(* record, .jman/test.sha256, lies beside it and stays.  Nothing is        *)
(* locked: another process may move .jman/output at any time.              *)
(*                                                                         *)
(* A command of main.rs compiles the workspace once more before it calls   *)
(* test_workspace: that is a build of its own here.                        *)
(***************************************************************************)
EXTENDS WorkspaceBuild

CONSTANTS
    SourceSet,        \* the source sets of tests: unit, integration
    InitialTests,     \* Module -> SourceSet -> 0 (no such tests) or 1
    Requests,         \* what a command may ask for: modules and source sets
    MaxTestVersion,   \* bound: test source versions are 1..MaxTestVersion
    MaxEdits,         \* bound: how many things are edited
    MaxOverlapping    \* bound: commands of a history in which two overlap

ASSUME TestAssumption ==
    /\ InitialTests \in [Module -> [SourceSet -> {0, 1}]]
    /\ Requests \subseteq [modules : SUBSET Module, sets : SUBSET SourceSet]
    /\ MaxTestVersion \in Nat \ {0}
    /\ MaxEdits \in Nat /\ MaxOverlapping \in Nat
    /\ Proc \subseteq Nat

VARIABLES
    testSrc,    \* the test sources of a module, per source set
    shell,      \* .jman/output holds no classes, only generated test sources
    tests,      \* .jman/output/test-classes of each module
    testState,  \* the fingerprint in .jman/test.sha256 of each module
    runner,     \* the modules whose jman-runner.jar is in the cache
    request,    \* per process: what its test command asks for, or Compiling
    testStage,  \* per process and module: how far run_test_module has come
    testSeen,   \* per process and module: the inputs fingerprinted
    testTemp,   \* per process and module: .jman/test-classes.tmp.PID
    away,       \* per process and module: test classes moved to a backup
    asked,      \* history: per process, the versions when its command began
    overlapped  \* history: two commands have been in flight at once

testDisk == <<testSrc, shell, tests, testState, runner>>
testProgress == <<testStage, testSeen, testTemp>>
history == <<asked, overlapped>>
testVars == <<testDisk, request, testProgress, away, history>>

Compiling == [modules |-> {}, sets |-> {}]

NoVersions == [s \in SourceSet |-> 0]

\* A tree of test classes, or the inputs of one: the versions of the test
\* sources, and the class directories they are compiled against.
NoTests == [own |-> NoVersions, against |-> [d \in Module |-> NoTree]]

HasTests(m) == tests[m].own # NoVersions
HasOutput(m) == HasClasses(m) \/ shell[m]

\* Every module reachable over dependencies of any scope, since
\* DependencyUsage::Test includes them all at every level:
\* transitive_dependencies(Test) as the least set closed under Deps.
TestUpstream ==
    [m \in Module |->
        {d \in Module :
            \A S \in SUBSET Module :
                /\ Deps[m] \subseteq S
                /\ \A e \in S : Deps[e] \subseteq S
                => d \in S}]
TestPath(m) == TestUpstream[m] \cup {m}

\* What compile_test_sources hashes, and what javac is given a while later:
\* the sources of the requested sets, and every file in the class directories.
TestInputs(p, m) ==
    [own |-> [s \in SourceSet |->
                 IF s \in request[p].sets THEN testSrc[m][s] ELSE 0],
     against |-> [d \in Module |->
                     IF d \in TestPath(m) THEN classes[d] ELSE NoTree]]

\* run_test_module has something to run.
Requested(p, m) ==
    /\ m \in request[p].modules
    /\ TestInputs(p, m).own # NoVersions

SameSources(p, m) ==
    testState[m].own = testSeen[p][m].own /\ HasTests(m)

\* The record names these inputs and .jman/output/test-classes is there.
TestHit(p, m) == testState[m] = testSeen[p][m] /\ HasTests(m)

StartedOnce(p) == {m \in Module : testStage[p][m] # "waiting"}

\* Modules whose run_test_module future has started and not returned.
Underway(p) == {m \in Module : testStage[p][m] \notin {"waiting", "done"}}

InFlight(p) == status[p] \in {"running", "testing"}

Edited ==
    {m \in Module : src[m] > 1}
    \cup {e \in Module \X SourceSet : testSrc[e[1]][e[2]] > 1}

\* Bounds: how many things are edited, and that commands overlap only in short
\* histories without an edit.
MayEdit == Cardinality(Edited) < MaxEdits /\ ~overlapped
MayOverlap == Edited = {} /\ builds < MaxOverlapping
------------------------------------------------------------------------------
TestInit ==
    /\ Init
    /\ testSrc = InitialTests
    /\ shell = [m \in Module |-> FALSE]
    /\ tests = [m \in Module |-> NoTests]
    /\ testState = [m \in Module |-> NoTests]
    /\ runner = {}
    /\ request = [p \in Proc |-> Compiling]
    /\ testStage = [p \in Proc |-> [m \in Module |-> "waiting"]]
    /\ testSeen = [p \in Proc |-> [m \in Module |-> NoTests]]
    /\ testTemp = [p \in Proc |-> [m \in Module |-> NoTests]]
    /\ away = [p \in Proc |-> [m \in Module |-> NoTests]]
    /\ asked = [p \in Proc |-> [main |-> NoTree, tests |-> InitialTests]]
    /\ overlapped = FALSE

EditMain(m) ==
    /\ MayEdit
    /\ Edit(m)
    /\ UNCHANGED testVars

\* The user saves a test of the module.
EditTests(m, s) ==
    /\ MayEdit
    /\ testSrc[m][s] \in 1..(MaxTestVersion - 1)
    /\ testSrc' = [testSrc EXCEPT ![m][s] = @ + 1]
    /\ UNCHANGED <<vars, shell, tests, testState, runner, request,
                   testProgress, away, history>>

\* A command starts: `jman compile`, or `jman test` with a selection.
\* compile_workspace, which test_workspace calls, never rebuilds.  A process
\* id is only a name: a command takes the first one that is free.
Start(p) ==
    /\ ~InFlight(p)
    /\ \A q \in Proc : q < p => InFlight(q)
    /\ overlapped \/ (\E q \in Proc : InFlight(q)) => MayOverlap
    /\ StartBuild(p)
    /\ \E r \in Requests \cup {Compiling} :
          /\ r # Compiling => ~rebuild'[p]
          /\ request' = [request EXCEPT ![p] = r]
    /\ asked' = [asked EXCEPT ![p] = [main |-> src, tests |-> testSrc]]
    /\ overlapped' = (overlapped \/ \E q \in Proc : InFlight(q))
    /\ UNCHANGED <<testDisk, testProgress, away>>

\* The parts of a compilation that leave the output directory alone.
CompileStep(p) ==
    /\ \/ \E m \in Module : \/ Hash(p, m)
                            \/ Reuse(p, m)
                            \/ Compile(p, m)
                            \/ WriteState(p, m)
       \/ NextLayer(p)
    /\ UNCHANGED testVars

\* The first rename of a compilation takes the test classes away with the rest
\* of .jman/output, and with the backup of them another process may have made.
ParkOutput(p, m) ==
    /\ Park(p, m)
    /\ shell' = [shell EXCEPT ![m] = FALSE]
    /\ tests' = [tests EXCEPT ![m] = NoTests]
    /\ away' = [q \in Proc |->
                   [away[q] EXCEPT ![m] = IF q = p THEN tests[m] ELSE NoTests]]
    /\ UNCHANGED <<testSrc, testState, runner, request, testProgress, history>>

\* The second rename needs .jman/output to be gone; what was in it is deleted.
PlaceOutput(p, m) ==
    /\ ~shell[m]
    /\ Place(p, m)
    /\ away' = [away EXCEPT ![p][m] = NoTests]
    /\ UNCHANGED <<testDisk, request, testProgress, history>>

\* What a command held in memory is gone when it ends.
Forget(p) ==
    /\ request' = [request EXCEPT ![p] = Compiling]
    /\ testStage' = [testStage EXCEPT ![p] = [m \in Module |-> "waiting"]]
    /\ testSeen' = [testSeen EXCEPT ![p] = [m \in Module |-> NoTests]]
    /\ testTemp' = [testTemp EXCEPT ![p] = [m \in Module |-> NoTests]]
    /\ away' = [away EXCEPT ![p] = [m \in Module |-> NoTests]]
    /\ asked' = [asked EXCEPT ![p] = [main |-> NoTree, tests |-> InitialTests]]
    /\ UNCHANGED overlapped

\* A compilation fails.  Its backup goes back, with the test classes in it,
\* only when its second rename failed and nothing is in the way.
FailCompilation(p, m) ==
    /\ shell[m] => stage[p][m] # "parked"
    /\ Fail(p, m)
    /\ tests' = IF stage[p][m] = "parked" /\ ~HasClasses(m)
                THEN [tests EXCEPT ![m] = away[p][m]]
                ELSE tests
    /\ Forget(p)
    /\ UNCHANGED <<testSrc, shell, testState, runner>>

\* The second rename finds the output of another compilation, and so does the
\* one that would put the backup back.
BlockedOutput(p, m) ==
    /\ stage[p][m] = "parked"
    /\ HasClasses(m)
    /\ Fail(p, m)
    /\ Forget(p)
    /\ UNCHANGED testDisk

\* It finds the directory another test command has made for generated
\* sources, which is in the way of the backup too.
BlockedByTests(p, m) ==
    /\ shell[m]
    /\ stage[p][m] = "parked"
    /\ TearState(p)
    /\ Abandon(p, "failed")
    /\ Forget(p)
    /\ UNCHANGED <<src, classes, builds, rebuild, testDisk>>

KillCompilation(p) ==
    /\ Kill(p)
    /\ Forget(p)
    /\ UNCHANGED testDisk

\* compile_workspace returned to `jman compile`.
FinishCompilation(p) ==
    /\ request[p] = Compiling
    /\ FinishBuild(p)
    /\ Forget(p)
    /\ UNCHANGED testDisk

\* compile_workspace returned to test_workspace.
BeginTests(p) ==
    /\ request[p] # Compiling
    /\ status[p] = "running"
    /\ \A m \in layer[p] : stage[p][m] = "done"
    /\ complete[p] \cup layer[p] = Module
    /\ Abandon(p, "testing")
    /\ UNCHANGED <<src, disk, builds, rebuild, testVars>>
------------------------------------------------------------------------------
(* run_test_module.                                                        *)

Advance(p, m, from, to) ==
    /\ status[p] = "testing"
    /\ testStage[p][m] = from
    /\ testStage' = [testStage EXCEPT ![p][m] = to]
    /\ UNCHANGED <<vars, testSrc, request, history>>

\* Not selected, or no test sources: Ok(None).
SkipTests(p, m) ==
    /\ ~Requested(p, m)
    /\ Advance(p, m, "waiting", "done")
    /\ UNCHANGED <<shell, tests, testState, runner, testSeen, testTemp, away>>

\* buffer_unordered(jobs): a slot is free, and the runner for this class path
\* is in the cache.
FindRunner(p, m) ==
    /\ Requested(p, m)
    /\ Cardinality(Underway(p)) < Jobs
    /\ m \in runner
    /\ Advance(p, m, "waiting", "ready")
    /\ UNCHANGED <<shell, tests, testState, runner, testSeen, testTemp, away>>

\* It is not: javac and a jar, in a directory named by the process id.
CompileRunner(p, m) ==
    /\ Requested(p, m)
    /\ Cardinality(Underway(p)) < Jobs
    /\ m \notin runner
    /\ Advance(p, m, "waiting", "staged")
    /\ UNCHANGED <<shell, tests, testState, runner, testSeen, testTemp, away>>

\* if directory.exists(): also the directory another process has put there.
DropRunner(p, m) ==
    /\ Advance(p, m, "staged", "cleared")
    /\ runner' = runner \ {m}
    /\ UNCHANGED <<shell, tests, testState, testSeen, testTemp, away>>

PlaceRunner(p, m) ==
    /\ Advance(p, m, "cleared", "ready")
    /\ runner' = runner \cup {m}
    /\ UNCHANGED <<shell, tests, testState, testSeen, testTemp, away>>

\* compile_test_sources: the fingerprint.
HashTests(p, m) ==
    /\ Advance(p, m, "ready", "hashed")
    /\ testSeen' = [testSeen EXCEPT ![p][m] = TestInputs(p, m)]
    /\ UNCHANGED <<shell, tests, testState, runner, testTemp, away>>

ReuseTests(p, m) ==
    /\ TestHit(p, m)
    /\ Advance(p, m, "hashed", "built")
    /\ UNCHANGED <<shell, tests, testState, runner, testSeen, testTemp, away>>

\* The directory of generated test sources is made under .jman/output, which
\* may be missing at this moment; then javac into the temporary directory.
CompileTests(p, m) ==
    /\ ~TestHit(p, m)
    /\ Advance(p, m, "hashed", "compiled")
    /\ testTemp' = [testTemp EXCEPT ![p][m] = TestInputs(p, m)]
    /\ shell' = [shell EXCEPT ![m] = ~HasClasses(m)]
    /\ UNCHANGED <<tests, testState, runner, testSeen, away>>

\* replace_directory, first rename.
ParkTests(p, m) ==
    /\ Advance(p, m, "compiled", "parked")
    /\ away' = [away EXCEPT ![p][m] = tests[m]]
    /\ tests' = [tests EXCEPT ![m] = NoTests]
    /\ UNCHANGED <<shell, testState, runner, testSeen, testTemp>>

\* Second rename: into the .jman/output that is there now.
PlaceTests(p, m) ==
    /\ HasOutput(m)
    /\ ~HasTests(m)
    /\ Advance(p, m, "parked", "placed")
    /\ tests' = [tests EXCEPT ![m] = testTemp[p][m]]
    /\ testTemp' = [testTemp EXCEPT ![p][m] = NoTests]
    /\ away' = [away EXCEPT ![p][m] = NoTests]
    /\ UNCHANGED <<shell, testState, runner, testSeen>>

\* fs::write of test.sha256.
RecordTests(p, m) ==
    /\ Advance(p, m, "placed", "built")
    /\ testState' = [testState EXCEPT ![m] = testSeen[p][m]]
    /\ UNCHANGED <<shell, tests, runner, testSeen, testTemp, away>>

\* The JVM: tests that fail are a result, not an error.
RunTests(p, m) ==
    /\ Advance(p, m, "built", "done")
    /\ UNCHANGED <<shell, tests, testState, runner, testSeen, testTemp, away>>

TearTestState(p) ==
    \E torn \in SUBSET {m \in Module : testStage[p][m] = "placed"} :
        testState' = [m \in Module |->
                         IF m \in torn THEN NoTests ELSE testState[m]]

EndTests(p, outcome) ==
    /\ status' = [status EXCEPT ![p] = outcome]
    /\ Forget(p)
    /\ UNCHANGED <<src, disk, builds, rebuild, progress, since, testSrc, shell,
                   runner>>

\* A module's error ends the command: its siblings stop where they are.
FailTests(p, m) ==
    /\ m \in Underway(p)
    /\ tests' = IF testStage[p][m] = "parked" /\ HasOutput(m) /\ ~HasTests(m)
                THEN [tests EXCEPT ![m] = away[p][m]]
                ELSE tests
    /\ TearTestState(p)
    /\ EndTests(p, "failed")

\* The second rename finds no .jman/output, or test classes in it.
BlockedTests(p, m) ==
    /\ testStage[p][m] = "parked"
    /\ ~HasOutput(m) \/ HasTests(m)
    /\ FailTests(p, m)

\* Killed, or cancelled by the user: the JVMs are killed with their handles.
KillTests(p) ==
    /\ status[p] = "testing"
    /\ TearTestState(p)
    /\ EndTests(p, "killed")
    /\ UNCHANGED tests

\* TestRunResult: success, or "tests failed in ...".
FinishTests(p) ==
    /\ status[p] = "testing"
    /\ \A m \in Module : testStage[p][m] = "done"
    /\ \E outcome \in {"ok", "failed"} : EndTests(p, outcome)
    /\ UNCHANGED <<tests, testState>>
------------------------------------------------------------------------------
TestStep(p, m) ==
    \/ SkipTests(p, m)
    \/ FindRunner(p, m)
    \/ CompileRunner(p, m)
    \/ DropRunner(p, m)
    \/ PlaceRunner(p, m)
    \/ HashTests(p, m)
    \/ ReuseTests(p, m)
    \/ CompileTests(p, m)
    \/ ParkTests(p, m)
    \/ PlaceTests(p, m)
    \/ BlockedTests(p, m)
    \/ RecordTests(p, m)
    \/ RunTests(p, m)

CommandStep(p) ==
    \/ CompileStep(p)
    \/ \E m \in Module : \/ ParkOutput(p, m)
                         \/ PlaceOutput(p, m)
                         \/ BlockedOutput(p, m)
                         \/ BlockedByTests(p, m)
                         \/ TestStep(p, m)
    \/ FinishCompilation(p)
    \/ BeginTests(p)
    \/ FinishTests(p)

TestNext ==
    \/ \E m \in Module : EditMain(m)
    \/ \E m \in Module : \E s \in SourceSet : EditTests(m, s)
    \/ \E p \in Proc : \/ Start(p)
                       \/ CommandStep(p)
                       \/ KillCompilation(p)
                       \/ KillTests(p)
    \/ \E p \in Proc : \E m \in Module : FailCompilation(p, m) \/ FailTests(p, m)

allVars == <<vars, testVars>>

TestSpec == TestInit /\ [][TestNext]_allVars

\* The runtime polls a command that can move, and the JVMs return: nothing
\* obliges an error or a kill to happen.
FairTestSpec == TestSpec /\ \A p \in Proc : WF_allVars(CommandStep(p))
------------------------------------------------------------------------------
(* Properties.                                                             *)

\* Whatever edits, errors, kills and compilations came before, and as long as
\* no two commands were in flight at once: the test classes that a JVM of
\* `jman test` finds for the requested source sets were compiled from sources
\* at least as new as when the command began, also where they are reused, and
\* against the very classes that it runs them with, which are as new.  Whether
\* the classes are of those source sets is another matter: RunsRequestedSets.
TestsAreFresh ==
    [][\A p \in Proc : \A m \in Module :
          RunTests(p, m) /\ ~overlapped =>
              /\ m \in runner
              /\ HasTests(m)
              /\ \A s \in request[p].sets :
                    tests[m].own[s] # 0 =>
                        tests[m].own[s] >= asked[p].tests[m][s]
              /\ \A d \in TestPath(m) :
                    /\ tests[m].against[d] = classes[d]
                    /\ classes[d][d] >= asked[p].main[d]]_allVars

\* "The default `all` runs both conventional roots" and "Select one set when
\* iterating" (docs/guides/testing.md:10,16): the directory of test classes a
\* JVM is given to scan holds the tests of the source sets that were asked for
\* and have any, and no others.
RunsRequestedSets ==
    [][\A p \in Proc : \A m \in Module :
          RunTests(p, m) /\ ~overlapped =>
              {s \in SourceSet : tests[m].own[s] # 0} =
                  {s \in request[p].sets : InitialTests[m][s] # 0}]_allVars

\* Layers, semaphore permits, test slots and the swaps of directories inside
\* directories always let a command return, with a result or an error,
\* whatever other commands do to the same directories.
CommandsEnd ==
    \A p \in Proc : InFlight(p) ~> ~InFlight(p)
=============================================================================
