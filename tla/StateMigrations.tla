-------------------------- MODULE StateMigrations --------------------------
(***************************************************************************)
(* connect and migrate of storage/store.py: every thread that touches the  *)
(* state database opens a connection of its own and brings the schema up   *)
(* to what its build knows.  The threads of a process queue for its        *)
(* _migration_lock; processes, which may run different builds during a     *)
(* deployment, meet at SQLite's write lock only, and any of them may die   *)
(* in the middle.                                                          *)
(*                                                                         *)
(* SQLite is external: BEGIN IMMEDIATE takes the one write lock or raises  *)
(* after its timeout, PRAGMA user_version is part of the transaction, and  *)
(* what was not committed is gone with a ROLLBACK or with the process.     *)
(***************************************************************************)
EXTENDS Naturals

CONSTANTS
    Processes,      \* server processes on one data directory
    Threads,        \* threads that open the database
    Process,        \* the process of each thread
    Latest,         \* the newest migration any build has
    Builds,         \* SCHEMA_VERSION of the builds that may run
    Statements,     \* how many statements each migration has
    None,           \* no thread
    MaxFaults,      \* bound: statements that raise
    MaxCrashes      \* bound: processes that die

ASSUME MigrationAssumption ==
    /\ Process \in [Threads -> Processes]
    /\ {Latest, MaxFaults, MaxCrashes} \subseteq Nat
    /\ Builds \subseteq 1 .. Latest
    /\ Statements \in [1 .. Latest -> Nat]
    /\ None \notin Threads

VARIABLES
    db,         \* what is committed: user_version, and how often each statement ran
    tx,         \* the same as the open transaction sees it, and whose it is
    lock,       \* the holder of each process's _migration_lock
    build,      \* the SCHEMA_VERSION of each process
    up,         \* is the process running?
    pc,         \* where each thread is in connect and _migrate_locked
    loop,       \* its migration, statement and attempt in the loops of migrate
    faults, crashes

vars == <<db, tx, lock, build, up, pc, loop, faults, crashes>>

Steps == UNION {{v} \X (1 .. Statements[v]) : v \in 1 .. Latest}
Schema == [version : 0 .. Latest, ran : [Steps -> Nat]]
InTx == {"recheck", "apply"}
Locked == InTx \cup {"read", "pick", "begin"}
Answers == {"open", "refused", "raised"}

NoTx == [owner |-> None]
Outside == [next |-> 1, stmt |-> 1, attempt |-> 0]

TypeOK ==
    /\ db \in Schema
    /\ tx = NoTx \/ tx \in [owner : Threads, schema : Schema]
    /\ \A t \in Threads : pc[t] \in InTx <=> tx.owner = t
    /\ lock \in [Processes -> Threads \cup {None}]
    /\ \A t \in Threads : pc[t] \in Locked <=> lock[Process[t]] = t
    /\ build \in [Processes -> Builds]
    /\ up \in [Processes -> BOOLEAN]
    /\ pc \in [Threads -> {"idle", "wait"} \cup Locked \cup Answers]
    /\ \A t \in Threads : pc[t] # "idle" => up[Process[t]]
    /\ loop \in [Threads -> [next : 1 .. Latest + 1, stmt : Nat, attempt : 0 .. 2]]
    /\ {faults, crashes} \subseteq Nat

Init ==
    /\ db = [version |-> 0, ran |-> [s \in Steps |-> 0]]
    /\ tx = NoTx
    /\ lock = [p \in Processes |-> None]
    /\ build \in [Processes -> Builds]
    /\ up = [p \in Processes |-> TRUE]
    /\ pc = [t \in Threads |-> "idle"]
    /\ loop = [t \in Threads |-> Outside]
    /\ faults = 0 /\ crashes = 0
-----------------------------------------------------------------------------
(* A thread that opens the database.                                       *)

Goto(t, label) == pc' = [pc EXCEPT ![t] = label]
At(t, label) == pc[t] = label
Version(t) == loop[t].next
Knows(t) == build[Process[t]]
Still == <<build, up, crashes>>

\* The with statement gives the lock back on every way out, and the loop's
\* variables are gone. Faulty variant: an answer that leaves the lock taken.
LeaveLocked(t, answer) ==
    /\ Goto(t, answer)
    /\ loop' = [loop EXCEPT ![t] = Outside]
    /\ UNCHANGED lock

Leave(t, answer) ==
    /\ Goto(t, answer)
    /\ loop' = [loop EXCEPT ![t] = Outside]
    /\ lock' = [lock EXCEPT ![Process[t]] = None]

\* connect, in a thread without a cached connection.
Connect(t) ==
    /\ up[Process[t]]
    /\ At(t, "idle")
    /\ Goto(t, "wait")
    /\ UNCHANGED <<db, tx, lock, loop, faults, Still>>

TakeLock(t) ==
    /\ At(t, "wait")
    /\ lock[Process[t]] = None
    /\ lock' = [lock EXCEPT ![Process[t]] = t]
    /\ Goto(t, "read")
    /\ UNCHANGED <<db, tx, loop, faults, Still>>

\* The version is read outside any transaction; a newer schema is refused.
RefuseNewer(t) ==
    /\ At(t, "read")
    /\ db.version > Knows(t)
    /\ Leave(t, "refused")
    /\ UNCHANGED <<db, tx, faults, Still>>

ReadVersion(t) ==
    /\ At(t, "read")
    /\ db.version <= Knows(t)
    /\ loop' = [loop EXCEPT ![t].next = db.version + 1]
    /\ Goto(t, "pick")
    /\ UNCHANGED <<db, tx, lock, faults, Still>>

\* The loop over MIGRATIONS.
PickMigration(t) ==
    /\ At(t, "pick")
    /\ Version(t) <= Knows(t)
    /\ Goto(t, "begin")
    /\ UNCHANGED <<db, tx, lock, loop, faults, Still>>

HandOut(t) ==
    /\ At(t, "pick")
    /\ Version(t) > Knows(t)
    /\ Leave(t, "open")
    /\ UNCHANGED <<db, tx, faults, Still>>

Begin(t) ==
    /\ At(t, "begin")
    /\ tx = NoTx
    /\ tx' = [owner |-> t, schema |-> db]
    /\ Goto(t, "recheck")
    /\ UNCHANGED <<db, lock, loop, faults, Still>>

Advance(t) ==
    /\ loop' = [loop EXCEPT ![t] = [Outside EXCEPT !.next = Version(t) + 1]]
    /\ Goto(t, "pick")

\* Someone else has applied it since the version was read.
AlreadyApplied(t) ==
    /\ At(t, "recheck")
    /\ tx.schema.version >= Version(t)
    /\ tx' = NoTx
    /\ Advance(t)
    /\ UNCHANGED <<db, lock, faults, Still>>

StartAlways(t) ==   \* faulty variant: no second look at the version
    /\ At(t, "recheck")
    /\ Goto(t, "apply")
    /\ UNCHANGED <<db, tx, lock, loop, faults, Still>>

Start(t) ==
    /\ At(t, "recheck")
    /\ tx.schema.version < Version(t)
    /\ Goto(t, "apply")
    /\ UNCHANGED <<db, tx, lock, loop, faults, Still>>

Apply(t) ==
    /\ At(t, "apply")
    /\ loop[t].stmt <= Statements[Version(t)]
    /\ tx' = [tx EXCEPT !.schema.ran[<<Version(t), loop[t].stmt>>] = @ + 1]
    /\ loop' = [loop EXCEPT ![t].stmt = @ + 1]
    /\ UNCHANGED <<db, lock, pc, faults, Still>>

\* PRAGMA user_version and COMMIT.
Commit(t) ==
    /\ At(t, "apply")
    /\ loop[t].stmt > Statements[Version(t)]
    /\ db' = [tx.schema EXCEPT !.version = Version(t)]
    /\ tx' = NoTx
    /\ Advance(t)
    /\ UNCHANGED <<lock, faults, Still>>

\* An OperationalError is followed by two more attempts after a sleep, then it
\* goes to the caller. Faulty variant: the loop goes on with the next migration.
GiveUpQuietly(t) ==
    \/ /\ loop[t].attempt < 2
       /\ loop' = [loop EXCEPT ![t].stmt = 1, ![t].attempt = @ + 1]
       /\ Goto(t, "begin")
       /\ UNCHANGED lock
    \/ loop[t].attempt = 2 /\ Advance(t) /\ UNCHANGED lock

TryAgain(t) ==
    \/ /\ loop[t].attempt < 2
       /\ loop' = [loop EXCEPT ![t].stmt = 1, ![t].attempt = @ + 1]
       /\ Goto(t, "begin")
       /\ UNCHANGED lock
    \/ loop[t].attempt = 2 /\ Leave(t, "raised")

\* Another process holds the write lock for longer than the busy timeout.
Busy(t) ==
    /\ At(t, "begin")
    /\ tx # NoTx
    /\ TryAgain(t)
    /\ UNCHANGED <<db, tx, faults, Still>>

\* Faulty variants: the transaction is left open, or its statements stay.
KeepTx == UNCHANGED <<db, tx>>
KeepStatements == db' = [db EXCEPT !.ran = tx.schema.ran] /\ tx' = NoTx
Rollback == tx' = NoTx /\ UNCHANGED db

Raises ==
    /\ faults < MaxFaults
    /\ faults' = faults + 1

StatementRaises(t) ==
    /\ pc[t] \in InTx
    /\ Raises
    /\ Rollback
    /\ TryAgain(t)
    /\ UNCHANGED Still

\* Any other exception goes to the caller at once, a BEGIN's too, and the
\* ROLLBACK ends a transaction of this connection only.
FailAtOnce(t) ==
    /\ pc[t] \in InTx \cup {"begin"}
    /\ Raises
    /\ tx' = IF tx.owner = t THEN NoTx ELSE tx
    /\ Leave(t, "raised")
    /\ UNCHANGED <<db, Still>>

\* The first PRAGMA user_version is outside the attempts: it raises at once.
ReadRaises(t) ==
    /\ At(t, "read")
    /\ Raises
    /\ Leave(t, "raised")
    /\ UNCHANGED <<db, tx, Still>>

\* So do sqlite3.connect and the settings of the connection, before the lock.
ConnectRaises(t) ==
    /\ up[Process[t]]
    /\ At(t, "idle")
    /\ Raises
    /\ Goto(t, "raised")
    /\ UNCHANGED <<db, tx, lock, loop, Still>>

\* Nothing was cached, so the next use of the database connects again.
ConnectAgain(t) ==
    /\ pc[t] \in {"raised", "refused"}
    /\ Goto(t, "idle")
    /\ UNCHANGED <<db, tx, lock, loop, faults, Still>>
-----------------------------------------------------------------------------
(* Processes die, and come back with another build.                        *)

Crash(p) ==
    /\ up[p]
    /\ crashes < MaxCrashes
    /\ crashes' = crashes + 1
    /\ up' = [up EXCEPT ![p] = FALSE]
    /\ pc' = [t \in Threads |-> IF Process[t] = p THEN "idle" ELSE pc[t]]
    /\ loop' = [t \in Threads |-> IF Process[t] = p THEN Outside ELSE loop[t]]
    /\ lock' = [lock EXCEPT ![p] = None]
    /\ tx' = IF tx # NoTx /\ Process[tx.owner] = p THEN NoTx ELSE tx
    /\ UNCHANGED <<db, build, faults>>

Restart(p) ==
    /\ ~ up[p]
    /\ up' = [up EXCEPT ![p] = TRUE]
    /\ \E b \in Builds : build' = [build EXCEPT ![p] = b]
    /\ UNCHANGED <<db, tx, lock, pc, loop, faults, crashes>>
-----------------------------------------------------------------------------
Migrate(t) ==
    \/ RefuseNewer(t) \/ ReadVersion(t) \/ PickMigration(t) \/ HandOut(t)
    \/ Begin(t) \/ AlreadyApplied(t) \/ Start(t) \/ Apply(t) \/ Commit(t)
    \/ Busy(t) \/ StatementRaises(t) \/ FailAtOnce(t) \/ ReadRaises(t)

Next ==
    \/ \E t \in Threads : Connect(t) \/ ConnectRaises(t) \/ TakeLock(t) \/ Migrate(t) \/ ConnectAgain(t)
    \/ \E p \in Processes : Crash(p) \/ Restart(p)

Spec == Init /\ [][Next]_vars

(***************************************************************************)
(* A thread inside migrate goes on; a lock that is given back again and    *)
(* again is got in the end by each thread that waits for it.  Nothing      *)
(* obliges a thread to connect or a process to come back.                  *)
(***************************************************************************)
FairSpec == Spec /\ \A t \in Threads : WF_vars(Migrate(t)) /\ SF_vars(TakeLock(t))
-----------------------------------------------------------------------------
\* The committed schema is the migrations up to user_version, each statement of
\* them once and nothing of the later ones, whoever died or failed on the way.
SchemaWhole ==
    \A s \in Steps : db.ran[s] = IF s[1] <= db.version THEN 1 ELSE 0

\* A thread that was handed a connection finds all the tables its build knows,
\* and one that was refused faces a schema newer than its build.
AnswerIsTrue ==
    \A t \in Threads :
        /\ pc[t] = "open" => db.version >= Knows(t)
        /\ pc[t] = "refused" => db.version > Knows(t)

\* No build takes the schema back or skips a migration, although each goes by a
\* version it read before its transaction.
VersionsRiseByOne == [][db'.version \in {db.version, db.version + 1}]_vars

\* Every thread that connects gets an answer, unless its process dies.
EveryOpenerAnswers ==
    \A t \in Threads : pc[t] = "wait" ~> pc[t] \in Answers \/ ~ up[Process[t]]
=============================================================================
