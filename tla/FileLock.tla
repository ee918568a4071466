------------------------------ MODULE FileLock ------------------------------
(***************************************************************************)
(* The lock file of the language server's project caches:                  *)
(* crates/jman-java-lsp/src/cache.rs, FileLock.  A client creates the file *)
(* exclusively and writes its process id into it; a waiter polls, and      *)
(* removes a file whose owner is dead, by path and in a system call of its *)
(* own, before it tries to create the file again.  Dropping the lock       *)
(* removes the file by path too.                                           *)
(***************************************************************************)
EXTENDS Naturals, FiniteSets

CONSTANTS
    Client,      \* processes that take this lock; a restart is a new one
    MaxTries,    \* attempts before "timed out locking" (30 000 in the code)
    MaxCrashes   \* bound: clients that die

ASSUME ClientAssumption == "none" \notin Client
ASSUME TriesAssumption == MaxTries \in Nat \ {0} /\ MaxCrashes \in Nat

VARIABLES
    file,     \* the lock file: NoFile, or who created it and if it has the pid
    aged,     \* was the lock file last modified more than an hour ago?
    alive,    \* the clients whose process runs
    pc,       \* where each client is in acquire, in its use, or after it
    tries,    \* attempts each client has made
    judged,   \* the lock file each client has found stale
    raced     \* history: was a file removed that is not the one found stale,
              \* or a running client's file discarded?

lockVars == <<file, aged, alive, pc, tries, judged, raced>>

NoFile == [by |-> "none", pid |-> FALSE]
Files == {NoFile} \cup [by : Client, pid : BOOLEAN]

Steps == {"idle", "create", "check", "remove", "write", "hold"}

\* The clients that believe they own the lock.
Holders == {c \in alive : pc[c] \in {"write", "hold"}}

\* Clients inside acquire that will look at the lock file again.
Polling(c) ==
    /\ c \in alive
    /\ pc[c] \in {"create", "check", "remove"}
    /\ tries[c] < MaxTries

StaleUnlessNamed == file # NoFile /\ (file.pid => file.by \notin alive)

StaleByAge == file # NoFile /\ aged

\* lock_is_stale: the owner's process is gone or, when the file does not name
\* one yet, the file is an hour old.
Stale ==
    /\ file # NoFile
    /\ IF file.pid THEN file.by \notin alive ELSE aged

LockInit ==
    /\ file = NoFile
    /\ aged = FALSE
    /\ alive = Client
    /\ pc = [c \in Client |-> "idle"]
    /\ tries = [c \in Client |-> 0]
    /\ judged = [c \in Client |-> NoFile]
    /\ raced = FALSE

Enter(c) ==
    /\ c \in alive
    /\ pc[c] = "idle"
    /\ pc' = [pc EXCEPT ![c] = "create"]
    /\ UNCHANGED <<file, aged, alive, tries, judged, raced>>

CreateOver(c) ==
    /\ c \in alive
    /\ pc[c] = "create"
    /\ tries[c] < MaxTries
    /\ file' = [by |-> c, pid |-> FALSE]
    /\ aged' = FALSE
    /\ pc' = [pc EXCEPT ![c] = "write"]
    /\ tries' = [tries EXCEPT ![c] = 0]
    /\ UNCHANGED <<alive, judged, raced>>

Create(c) ==
    /\ c \in alive
    /\ pc[c] = "create"
    /\ tries[c] < MaxTries
    /\ IF file = NoFile
       THEN /\ file' = [by |-> c, pid |-> FALSE]
            /\ aged' = FALSE
            /\ pc' = [pc EXCEPT ![c] = "write"]
            /\ tries' = [tries EXCEPT ![c] = 0]
       ELSE /\ pc' = [pc EXCEPT ![c] = "check"]
            /\ UNCHANGED <<file, aged, tries>>
    /\ UNCHANGED <<alive, judged, raced>>

\* writeln of the process id, through the handle of the file it created; a
\* failure is ignored.
WritePid(c) ==
    /\ c \in alive
    /\ pc[c] = "write"
    /\ \/ file' = IF file.by = c THEN [file EXCEPT !.pid = TRUE] ELSE file
       \/ file' = file
    /\ pc' = [pc EXCEPT ![c] = "hold"]
    /\ UNCHANGED <<aged, alive, tries, judged, raced>>

\* The file existed: remember to remove it if it is stale, else sleep.
Check(c) ==
    /\ c \in alive
    /\ pc[c] = "check"
    /\ IF Stale
       THEN /\ judged' = [judged EXCEPT ![c] = file]
            /\ pc' = [pc EXCEPT ![c] = "remove"]
            /\ UNCHANGED tries
       ELSE /\ pc' = [pc EXCEPT ![c] = "create"]
            /\ tries' = [tries EXCEPT ![c] = @ + 1]
            /\ UNCHANGED judged
    /\ UNCHANGED <<file, aged, alive, raced>>

\* remove_file of the path, whatever the path names by now.
RemoveFile(c) ==
    /\ c \in alive
    /\ pc[c] = "remove"
    /\ file' = NoFile
    /\ aged' = FALSE
    /\ raced' = (raced \/ file \notin {judged[c], NoFile})
    /\ judged' = [judged EXCEPT ![c] = NoFile]
    /\ pc' = [pc EXCEPT ![c] = "create"]
    /\ tries' = [tries EXCEPT ![c] = @ + 1]
    /\ UNCHANGED alive

\* Another error of create_new: the directory of the lock file is gone.
CannotLock(c) ==
    /\ c \in alive
    /\ pc[c] = "create"
    /\ file = NoFile
    /\ pc' = [pc EXCEPT ![c] = "idle"]
    /\ tries' = [tries EXCEPT ![c] = 0]
    /\ UNCHANGED <<file, aged, alive, judged, raced>>

\* The lock file goes with its directory, whoever created it.
Discard ==
    /\ file' = NoFile
    /\ aged' = FALSE
    /\ raced' = (raced \/ file.by \in alive)
    /\ UNCHANGED <<alive, pc, tries, judged>>

\* The loop of acquire is over: "timed out locking".
Timeout(c) ==
    /\ c \in alive
    /\ pc[c] = "create"
    /\ tries[c] = MaxTries
    /\ pc' = [pc EXCEPT ![c] = "idle"]
    /\ tries' = [tries EXCEPT ![c] = 0]
    /\ UNCHANGED <<file, aged, alive, judged, raced>>

\* Drop: remove_file of the path, whoever's file it is by now.
Release(c) ==
    /\ c \in alive
    /\ pc[c] = "hold"
    /\ file' = NoFile
    /\ aged' = FALSE
    /\ pc' = [pc EXCEPT ![c] = "idle"]
    /\ UNCHANGED <<alive, tries, judged, raced>>

\* The process dies wherever it is.  Its process id is not given to another
\* process while the lock file names it.
Crash(c) ==
    /\ c \in alive
    /\ Cardinality(Client \ alive) < MaxCrashes
    /\ alive' = alive \ {c}
    /\ UNCHANGED <<file, aged, pc, tries, judged, raced>>

\* An hour passes over a lock file whose creator died before it wrote its
\* process id.  A live holder is not taken to keep the lock that long.
Age ==
    /\ file # NoFile
    /\ file.by \notin alive
    /\ ~aged
    /\ aged' = TRUE
    /\ UNCHANGED <<file, alive, pc, tries, judged, raced>>
=============================================================================
