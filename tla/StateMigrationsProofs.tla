----------------------- MODULE StateMigrationsProofs -----------------------
(***************************************************************************)
(* What holds of StateMigrations for every number of processes and         *)
(* threads, every list of migrations and every mixture of builds, however  *)
(* often statements raise and processes die.                               *)
(***************************************************************************)
EXTENDS StateMigrations, TLAPS

\* The loop over the migrations: it never looks past the next one to apply, nor
\* past those the build knows, and each attempt begins with the first statement.
LoopInv ==
    \A t \in Threads :
        /\ pc[t] \in InTx \cup {"pick", "begin"} => Version(t) <= db.version + 1
        /\ pc[t] \in InTx \cup {"begin"} => Version(t) <= Knows(t)
        /\ pc[t] # "apply" => loop[t].stmt = 1
        /\ pc[t] = "apply" => loop[t].stmt \in 1 .. Statements[Version(t)] + 1

\* What the open transaction sees: the committed schema, and of the migration it
\* applies the statements before the one it is at.
Half(t, s) ==
    IF s[1] <= db.version \/ (s[1] = Version(t) /\ s[2] < loop[t].stmt) THEN 1 ELSE 0

TxInv ==
    \A t \in Threads :
        /\ pc[t] = "recheck" => tx.schema = db
        /\ pc[t] = "apply" => /\ Version(t) = db.version + 1
                              /\ \A s \in Steps : tx.schema.ran[s] = Half(t, s)

MigrationInv ==
    /\ TypeOK
    /\ LoopInv
    /\ TxInv
    /\ SchemaWhole
    /\ AnswerIsTrue
-----------------------------------------------------------------------------
LEMMA StepsAre ==
    ASSUME NEW s \in Steps
    PROVE  s[1] \in 1 .. Latest /\ s[2] \in 1 .. Statements[s[1]] /\ s = <<s[1], s[2]>>
BY DEF Steps

LEMMA StepNumbers ==
    ASSUME NEW s \in Steps
    PROVE  s[1] \in Nat /\ s[2] \in Nat /\ s = <<s[1], s[2]>>
BY StepsAre, MigrationAssumption

LEMMA VersionNumber == TypeOK => db.version \in Nat
BY MigrationAssumption DEF TypeOK, Schema

LEMMA OwnerFacts ==
    ASSUME TypeOK, NEW t \in Threads, pc[t] \in InTx
    PROVE  tx.owner = t /\ tx # NoTx /\ tx \in [owner : Threads, schema : Schema]
BY MigrationAssumption DEF TypeOK, NoTx

LEMMA OneTx ==
    ASSUME TypeOK, NEW t \in Threads, NEW u \in Threads, pc[t] \in InTx, pc[u] \in InTx
    PROVE  t = u
BY OwnerFacts

LEMMA NobodyInTx ==
    ASSUME TypeOK, tx = NoTx, NEW t \in Threads
    PROVE  pc[t] \notin InTx
BY OwnerFacts

LEMMA BuildsKnow ==
    ASSUME TypeOK, NEW t \in Threads
    PROVE  Knows(t) \in 1 .. Latest
BY MigrationAssumption DEF TypeOK, Knows
-----------------------------------------------------------------------------
LEMMA InitInv == Init => MigrationInv
<1> SUFFICES ASSUME Init PROVE MigrationInv
    OBVIOUS
<1>1. TypeOK
    BY MigrationAssumption DEF Init, TypeOK, Schema, NoTx, Outside, InTx, Locked, Answers
<1>2. SchemaWhole
    <2> SUFFICES ASSUME NEW s \in Steps
                 PROVE  db.ran[s] = IF s[1] <= db.version THEN 1 ELSE 0
        BY DEF SchemaWhole
    <2> QED
        BY StepsAre, MigrationAssumption DEF Init
<1>3. LoopInv /\ TxInv /\ AnswerIsTrue
    BY DEF Init, LoopInv, TxInv, AnswerIsTrue, InTx, Outside
<1> QED
    BY <1>1, <1>2, <1>3 DEF MigrationInv

\* What a thread keeps of the loop is of its type wherever it goes next.
Loop == [next : 1 .. Latest + 1, stmt : Nat, attempt : 0 .. 2]

LEMMA LoopNumbers ==
    ASSUME TypeOK, NEW t \in Threads
    PROVE  /\ loop[t].next \in 1 .. Latest + 1
           /\ loop[t].stmt \in Nat
           /\ loop[t].attempt \in {0, 1, 2}
BY DEF TypeOK

LEMMA LoopTypes ==
    ASSUME TypeOK, NEW t \in Threads
    PROVE  /\ loop[t] \in Loop
           /\ Outside \in Loop
           /\ \A n \in 1 .. Latest + 1 : [Outside EXCEPT !.next = n] \in Loop
           /\ \A n \in 1 .. Latest + 1 : [loop[t] EXCEPT !.next = n] \in Loop
           /\ [loop[t] EXCEPT !.stmt = @ + 1] \in Loop
           /\ loop[t].attempt < 2 => [loop[t] EXCEPT !.stmt = 1, !.attempt = @ + 1] \in Loop
<1>1. loop[t] \in Loop /\ Outside \in Loop
    BY MigrationAssumption DEF TypeOK, Outside, Loop
<1>2. \A n \in 1 .. Latest + 1 : [Outside EXCEPT !.next = n] \in Loop
    BY MigrationAssumption DEF Outside, Loop
<1>3. /\ \A n \in 1 .. Latest + 1 : [loop[t] EXCEPT !.next = n] \in Loop
      /\ [loop[t] EXCEPT !.stmt = @ + 1] \in Loop
    BY <1>1 DEF Loop
<1>4. \A a \in 0 .. 2 : [loop[t] EXCEPT !.stmt = 1, !.attempt = a] \in Loop
    BY <1>1 DEF Loop
<1>5. loop[t].attempt < 2 => loop[t].attempt + 1 \in 0 .. 2
    BY <1>1 DEF Loop
<1> QED
    BY <1>1, <1>2, <1>3, <1>4, <1>5

\* A field of one thread's loop is set by setting the thread's record.
LEMMA LoopField ==
    ASSUME TypeOK, NEW t \in Threads
    PROVE  /\ \A n : [loop EXCEPT ![t].next = n] = [loop EXCEPT ![t] = [loop[t] EXCEPT !.next = n]]
           /\ [loop EXCEPT ![t].stmt = @ + 1] = [loop EXCEPT ![t] = [loop[t] EXCEPT !.stmt = @ + 1]]
           /\ [loop EXCEPT ![t].stmt = 1, ![t].attempt = @ + 1]
                = [loop EXCEPT ![t] = [loop[t] EXCEPT !.stmt = 1, !.attempt = @ + 1]]
BY DEF TypeOK

LEMMA LoopSet ==
    ASSUME TypeOK, NEW t \in Threads, NEW r \in Loop
    PROVE  [loop EXCEPT ![t] = r] \in [Threads -> Loop]
BY DEF TypeOK, Loop

\* Both ways out of the except branch keep the types of pc, lock and loop.
LEMMA TryAgainTypes ==
    ASSUME TypeOK, NEW t \in Threads, TryAgain(t), pc[t] \in InTx \cup {"begin"}
    PROVE  /\ loop' \in [Threads -> Loop]
           /\ \/ Goto(t, "begin") /\ lock' = lock
              \/ Goto(t, "raised") /\ lock' = [lock EXCEPT ![Process[t]] = None]
<1>1. CASE loop[t].attempt < 2
    <2>1. loop' = [loop EXCEPT ![t] = [loop[t] EXCEPT !.stmt = 1, !.attempt = @ + 1]]
        <3>1. loop[t].attempt # 2
            BY <1>1, LoopNumbers
        <3>2. loop' = [loop EXCEPT ![t].stmt = 1, ![t].attempt = @ + 1]
            BY <3>1 DEF TryAgain
        <3> QED
            BY <3>2, LoopField
    <2>2. loop' \in [Threads -> Loop]
        BY <1>1, <2>1, LoopTypes, LoopSet
    <2> QED
        BY <1>1, <2>2 DEF TryAgain
<1>2. CASE loop[t].attempt = 2
    BY <1>2, LoopTypes, LoopSet DEF TryAgain, Leave
<1> QED
    BY <1>1, <1>2 DEF TryAgain

LEMMA AdvanceType ==
    ASSUME TypeOK, LoopInv, NEW t \in Threads, pc[t] \in InTx, Advance(t)
    PROVE  loop' \in [Threads -> Loop]
<1>1. Version(t) \in 1 .. Latest
    <2>1. Version(t) <= Knows(t)
        BY DEF LoopInv
    <2> QED
        BY <2>1, BuildsKnow, LoopNumbers, MigrationAssumption DEF Version
<1>2. Version(t) + 1 \in 1 .. Latest + 1
    BY <1>1, MigrationAssumption
<1> QED
    BY <1>2, LoopTypes, LoopSet DEF Advance

LEMMA SchemaRan ==
    ASSUME NEW x \in [owner : Threads, schema : Schema], NEW s
    PROVE  LET y == [x EXCEPT !.schema.ran[s] = @ + 1]
           IN  y \in [owner : Threads, schema : Schema] /\ y.owner = x.owner
<1> DEFINE r == [x.schema.ran EXCEPT ![s] = @ + 1]
<1>1. r \in [Steps -> Nat]
    <2>1. x.schema.ran \in [Steps -> Nat]
        BY DEF Schema
    <2>2. CASE s \in Steps
        BY <2>1, <2>2
    <2>3. CASE s \notin Steps
        <3>1. r = x.schema.ran
            BY <2>1, <2>3
        <3> QED
            BY <2>1, <3>1
    <2> QED
        BY <2>2, <2>3
<1>2. [x.schema EXCEPT !.ran = r] \in Schema
    BY <1>1 DEF Schema
<1>3. [x EXCEPT !.schema.ran[s] = @ + 1] = [x EXCEPT !.schema = [x.schema EXCEPT !.ran = r]]
    OBVIOUS
<1> HIDE DEF r
<1> QED
    BY <1>2, <1>3

\* A thread that goes to another place in migrate, or leaves it.
LEMMA MoveTypes ==
    ASSUME TypeOK, NEW t \in Threads, pc[t] \in Locked, UNCHANGED Still,
           NEW label \in Locked \cup Answers, Goto(t, label)
    PROVE  /\ pc' \in [Threads -> {"idle", "wait"} \cup Locked \cup Answers]
           /\ \A u \in Threads : pc'[u] # "idle" => up'[Process[u]]
           /\ build' \in [Processes -> Builds] /\ up' \in [Processes -> BOOLEAN]
BY DEF TypeOK, Goto, Still, Locked, InTx, Answers

LEMMA TxLeft ==
    ASSUME TypeOK, NEW t \in Threads, tx.owner = t, tx' = NoTx,
           NEW label, label \notin InTx, Goto(t, label)
    PROVE  \A u \in Threads : pc'[u] \in InTx <=> tx'.owner = u
<1>1. tx'.owner = None
    BY DEF NoTx
<1>2. \A u \in Threads : pc'[u] \notin InTx
    BY DEF TypeOK, Goto
<1> QED
    BY <1>1, <1>2, MigrationAssumption

LEMMA TxKept ==
    ASSUME TypeOK, NEW t \in Threads, pc[t] \notin InTx, tx' = tx,
           NEW label, label \notin InTx, Goto(t, label)
    PROVE  \A u \in Threads : pc'[u] \in InTx <=> tx'.owner = u
BY DEF TypeOK, Goto

LEMMA LockKept ==
    ASSUME TypeOK, NEW t \in Threads, pc[t] \in Locked, lock' = lock,
           NEW label \in Locked, Goto(t, label)
    PROVE  /\ lock' \in [Processes -> Threads \cup {None}]
           /\ \A u \in Threads : pc'[u] \in Locked <=> lock'[Process[u]] = u
BY DEF TypeOK, Goto

LEMMA LockLeft ==
    ASSUME TypeOK, NEW t \in Threads, pc[t] \in Locked,
           lock' = [lock EXCEPT ![Process[t]] = None],
           NEW label, label \notin Locked, Goto(t, label)
    PROVE  /\ lock' \in [Processes -> Threads \cup {None}]
           /\ \A u \in Threads : pc'[u] \in Locked <=> lock'[Process[u]] = u
<1>1. lock[Process[t]] = t /\ Process[t] \in Processes
    BY MigrationAssumption DEF TypeOK
<1>2. \A u \in Threads : Process[u] \in Processes /\ u # None
    BY MigrationAssumption
<1> QED
    BY <1>1, <1>2 DEF TypeOK, Goto

LEMMA Places ==
    /\ InTx \subseteq Locked
    /\ {"pick", "begin"} \subseteq Locked \ InTx
    /\ "raised" \in Answers \ Locked
BY DEF InTx, Locked, Answers

LEMMA AlreadyAppliedTypes ==
    ASSUME TypeOK, LoopInv, NEW t \in Threads, AlreadyApplied(t)
    PROVE  TypeOK'
<1>1. /\ pc[t] \in InTx /\ tx' = NoTx /\ UNCHANGED <<db, lock, faults, Still>>
      /\ Advance(t) /\ Goto(t, "pick")
    BY DEF AlreadyApplied, Advance, At, InTx
<1>2. loop' \in [Threads -> Loop]
    BY <1>1, AdvanceType
<1>3. tx.owner = t
    BY <1>1, OwnerFacts
<1>4. \A u \in Threads : pc'[u] \in InTx <=> tx'.owner = u
    BY <1>1, <1>3, TxLeft, Places
<1>5. /\ lock' \in [Processes -> Threads \cup {None}]
      /\ \A u \in Threads : pc'[u] \in Locked <=> lock'[Process[u]] = u
    BY <1>1, LockKept, Places
<1>6. /\ pc' \in [Threads -> {"idle", "wait"} \cup Locked \cup Answers]
      /\ \A u \in Threads : pc'[u] # "idle" => up'[Process[u]]
    BY <1>1, MoveTypes, Places
<1> QED
    BY <1>1, <1>2, <1>4, <1>5, <1>6 DEF TypeOK, Loop, Still

LEMMA CommitTypes ==
    ASSUME TypeOK, LoopInv, NEW t \in Threads, Commit(t)
    PROVE  TypeOK'
<1>1. /\ pc[t] \in InTx /\ tx' = NoTx /\ UNCHANGED <<lock, faults, Still>>
      /\ Advance(t) /\ Goto(t, "pick")
      /\ db' = [tx.schema EXCEPT !.version = Version(t)]
    BY DEF Commit, Advance, At, InTx
<1>2. loop' \in [Threads -> Loop]
    BY <1>1, AdvanceType
<1>3. tx.owner = t /\ tx \in [owner : Threads, schema : Schema]
    BY <1>1, OwnerFacts
<1>4. db' \in Schema
    <2>1. Version(t) <= Knows(t)
        BY <1>1 DEF LoopInv
    <2>2. Version(t) \in 0 .. Latest
        BY <2>1, BuildsKnow, LoopNumbers, MigrationAssumption DEF Version
    <2> QED
        BY <1>1, <1>3, <2>2 DEF Schema
<1>5. \A u \in Threads : pc'[u] \in InTx <=> tx'.owner = u
    BY <1>1, <1>3, TxLeft, Places
<1>6. /\ lock' \in [Processes -> Threads \cup {None}]
      /\ \A u \in Threads : pc'[u] \in Locked <=> lock'[Process[u]] = u
    BY <1>1, LockKept, Places
<1>7. /\ pc' \in [Threads -> {"idle", "wait"} \cup Locked \cup Answers]
      /\ \A u \in Threads : pc'[u] # "idle" => up'[Process[u]]
    BY <1>1, MoveTypes, Places
<1> QED
    BY <1>1, <1>2, <1>4, <1>5, <1>6, <1>7 DEF TypeOK, Loop, Still

LEMMA BusyTypes ==
    ASSUME TypeOK, LoopInv, NEW t \in Threads, Busy(t)
    PROVE  TypeOK'
<1>1. /\ pc[t] \in Locked /\ UNCHANGED <<db, Still>> /\ TryAgain(t)
      /\ pc[t] \in InTx \cup {"begin"}
      /\ pc[t] \notin InTx /\ tx' = tx /\ faults' = faults
    BY DEF Busy, At, InTx, Locked, Still
<1>2. loop' \in [Threads -> Loop]
    BY <1>1, TryAgainTypes
<1>3. \/ Goto(t, "begin") /\ lock' = lock
      \/ Goto(t, "raised") /\ lock' = [lock EXCEPT ![Process[t]] = None]
    BY <1>1, TryAgainTypes
<1>4. \A u \in Threads : pc'[u] \in InTx <=> tx'.owner = u
    BY <1>1, <1>3, TxKept, Places
<1>5. /\ lock' \in [Processes -> Threads \cup {None}]
      /\ \A u \in Threads : pc'[u] \in Locked <=> lock'[Process[u]] = u
    BY <1>1, <1>3, LockKept, LockLeft, Places
<1>6. /\ pc' \in [Threads -> {"idle", "wait"} \cup Locked \cup Answers]
      /\ \A u \in Threads : pc'[u] # "idle" => up'[Process[u]]
    BY <1>1, <1>3, MoveTypes, Places
<1> QED
    BY <1>1, <1>2, <1>4, <1>5, <1>6 DEF TypeOK, Loop, Still

LEMMA StatementRaisesTypes ==
    ASSUME TypeOK, LoopInv, NEW t \in Threads, StatementRaises(t)
    PROVE  TypeOK'
<1>1. /\ pc[t] \in Locked /\ UNCHANGED <<db, Still>> /\ TryAgain(t)
      /\ pc[t] \in InTx \cup {"begin"}
      /\ pc[t] \in InTx /\ tx' = NoTx /\ faults' = faults + 1
    BY DEF StatementRaises, Raises, Rollback, InTx, Locked, Still
<1>2. loop' \in [Threads -> Loop]
    BY <1>1, TryAgainTypes
<1>3. \/ Goto(t, "begin") /\ lock' = lock
      \/ Goto(t, "raised") /\ lock' = [lock EXCEPT ![Process[t]] = None]
    BY <1>1, TryAgainTypes
<1>4. \A u \in Threads : pc'[u] \in InTx <=> tx'.owner = u
    <2>1. tx.owner = t
        BY <1>1, OwnerFacts
    <2> QED
        BY <1>1, <1>3, <2>1, TxLeft, Places
<1>5. /\ lock' \in [Processes -> Threads \cup {None}]
      /\ \A u \in Threads : pc'[u] \in Locked <=> lock'[Process[u]] = u
    BY <1>1, <1>3, LockKept, LockLeft, Places
<1>6. /\ pc' \in [Threads -> {"idle", "wait"} \cup Locked \cup Answers]
      /\ \A u \in Threads : pc'[u] # "idle" => up'[Process[u]]
    BY <1>1, <1>3, MoveTypes, Places
<1> QED
    BY <1>1, <1>2, <1>4, <1>5, <1>6 DEF TypeOK, Loop, Still

\* A thread that leaves with an exception, holding the transaction or not.
LEMMA FailAtOnceTypes ==
    ASSUME TypeOK, LoopInv, NEW t \in Threads, FailAtOnce(t)
    PROVE  TypeOK'
<1>1. /\ pc[t] \in Locked /\ UNCHANGED <<db, Still>> /\ faults' = faults + 1
      /\ loop' = [loop EXCEPT ![t] = Outside]
      /\ Goto(t, "raised") /\ lock' = [lock EXCEPT ![Process[t]] = None]
      /\ tx' = IF tx.owner = t THEN NoTx ELSE tx
    BY DEF FailAtOnce, Raises, Leave, InTx, Locked, Still
<1>2. loop' \in [Threads -> Loop]
    BY <1>1, LoopTypes, LoopSet
<1>3. \A u \in Threads : pc'[u] \in InTx <=> tx'.owner = u
    <2>1. CASE tx.owner = t
        BY <1>1, <2>1, TxLeft, Places
    <2>2. CASE tx.owner # t
        <3>1. pc[t] \notin InTx
            BY <2>2, OwnerFacts
        <3> QED
            BY <1>1, <2>2, <3>1, TxKept, Places
    <2> QED
        BY <2>1, <2>2
<1>4. tx' = NoTx \/ tx' \in [owner : Threads, schema : Schema]
    BY <1>1 DEF TypeOK
<1>5. /\ lock' \in [Processes -> Threads \cup {None}]
      /\ \A u \in Threads : pc'[u] \in Locked <=> lock'[Process[u]] = u
    BY <1>1, LockLeft, Places
<1>6. /\ pc' \in [Threads -> {"idle", "wait"} \cup Locked \cup Answers]
      /\ \A u \in Threads : pc'[u] # "idle" => up'[Process[u]]
      /\ build' \in [Processes -> Builds] /\ up' \in [Processes -> BOOLEAN]
    BY <1>1, MoveTypes, Places
<1>7. {faults', crashes'} \subseteq Nat /\ db' \in Schema
    BY <1>1 DEF TypeOK, Still
<1> QED
    BY <1>2, <1>3, <1>4, <1>5, <1>6, <1>7 DEF TypeOK, Loop

LEMMA TypeStep == MigrationInv /\ [Next]_vars => TypeOK'
<1> SUFFICES ASSUME TypeOK, LoopInv, [Next]_vars PROVE TypeOK'
    BY DEF MigrationInv
<1> USE MigrationAssumption DEF TypeOK, InTx, Locked, Answers, Goto, At, Version, Still
<1>1. ASSUME NEW t \in Threads, Connect(t) PROVE TypeOK'
    BY <1>1 DEF Connect
<1>2. ASSUME NEW t \in Threads, TakeLock(t) PROVE TypeOK'
    BY <1>2 DEF TakeLock
<1>3. ASSUME NEW t \in Threads, RefuseNewer(t) PROVE TypeOK'
    BY <1>3 DEF RefuseNewer, Leave, Outside
<1>4. ASSUME NEW t \in Threads, ReadVersion(t) PROVE TypeOK'
    <2>1. db.version + 1 \in 1 .. Latest + 1
        BY DEF Schema
    <2>2. loop' \in [Threads -> Loop]
        BY <1>4, <2>1, LoopTypes, LoopField, LoopSet DEF ReadVersion
    <2> QED
        BY <1>4, <2>2 DEF ReadVersion, Loop
<1>5. ASSUME NEW t \in Threads, PickMigration(t) PROVE TypeOK'
    BY <1>5 DEF PickMigration
<1>6. ASSUME NEW t \in Threads, HandOut(t) PROVE TypeOK'
    BY <1>6 DEF HandOut, Leave, Outside
<1>7. ASSUME NEW t \in Threads, Begin(t) PROVE TypeOK'
    BY <1>7 DEF Begin, NoTx
<1>8. ASSUME NEW t \in Threads, AlreadyApplied(t) PROVE TypeOK'
    BY <1>8, AlreadyAppliedTypes
<1>9. ASSUME NEW t \in Threads, Start(t) PROVE TypeOK'
    BY <1>9 DEF Start
<1>10. ASSUME NEW t \in Threads, Apply(t) PROVE TypeOK'
    <2>1. loop' \in [Threads -> Loop]
        BY <1>10, LoopTypes, LoopField, LoopSet DEF Apply
    <2>2. tx \in [owner : Threads, schema : Schema]
        BY <1>10, OwnerFacts DEF Apply
    <2>3. tx' \in [owner : Threads, schema : Schema] /\ tx'.owner = tx.owner
        BY <1>10, <2>2, SchemaRan DEF Apply
    <2> QED
        BY <1>10, <2>1, <2>3 DEF Apply, Loop
<1>11. ASSUME NEW t \in Threads, Commit(t) PROVE TypeOK'
    BY <1>11, CommitTypes
<1>12. ASSUME NEW t \in Threads, Busy(t) PROVE TypeOK'
    BY <1>12, BusyTypes
<1>13. ASSUME NEW t \in Threads, StatementRaises(t) PROVE TypeOK'
    BY <1>13, StatementRaisesTypes
<1>14. ASSUME NEW t \in Threads, ConnectAgain(t) PROVE TypeOK'
    BY <1>14 DEF ConnectAgain
<1>15. ASSUME NEW p \in Processes, Crash(p) PROVE TypeOK'
    BY <1>15 DEF Crash, Outside, NoTx
<1>16. ASSUME NEW p \in Processes, Restart(p) PROVE TypeOK'
    BY <1>16 DEF Restart
<1>17. ASSUME NEW t \in Threads, FailAtOnce(t) PROVE TypeOK'
    BY <1>17, FailAtOnceTypes
<1>18. ASSUME NEW t \in Threads, ReadRaises(t) PROVE TypeOK'
    BY <1>18 DEF ReadRaises, Raises, Leave, Outside
<1>19. ASSUME NEW t \in Threads, ConnectRaises(t) PROVE TypeOK'
    BY <1>19 DEF ConnectRaises, Raises
<1>20. CASE UNCHANGED vars
    BY <1>20 DEF vars
<1> QED
    BY <1>1, <1>2, <1>3, <1>4, <1>5, <1>6, <1>7, <1>8, <1>9, <1>10, <1>11, <1>12, <1>13, <1>14,
       <1>15, <1>16, <1>17, <1>18, <1>19, <1>20 DEF Next, Migrate

LEMMA LoopStep == MigrationInv /\ [Next]_vars => LoopInv'
<1> SUFFICES ASSUME TypeOK, LoopInv, TxInv, [Next]_vars, NEW u \in Threads
             PROVE  /\ pc'[u] \in InTx \cup {"pick", "begin"} => loop'[u].next <= db'.version + 1
                    /\ pc'[u] \in InTx \cup {"begin"} => loop'[u].next <= build'[Process[u]]
                    /\ pc'[u] # "apply" => loop'[u].stmt = 1
                    /\ pc'[u] = "apply" => loop'[u].stmt \in 1 .. Statements[loop'[u].next] + 1
    BY DEF MigrationInv, LoopInv, Version, Knows
<1> DEFINE Goal == /\ pc'[u] \in InTx \cup {"pick", "begin"} => loop'[u].next <= db'.version + 1
                   /\ pc'[u] \in InTx \cup {"begin"} => loop'[u].next <= build'[Process[u]]
                   /\ pc'[u] # "apply" => loop'[u].stmt = 1
                   /\ pc'[u] = "apply" => loop'[u].stmt \in 1 .. Statements[loop'[u].next] + 1
\* The part of each thread that does not move is kept as long as the version
\* does not fall and its build stays.
<1>0. ASSUME db'.version >= db.version, db'.version \in Nat, pc'[u] = pc[u], loop'[u] = loop[u],
             pc[u] # "idle" => build'[Process[u]] = build[Process[u]]
      PROVE  Goal
    BY <1>0, LoopNumbers DEF LoopInv, Version, Knows, InTx, TypeOK, Schema
<1>1. db.version \in Nat /\ loop[u].next \in Nat
    BY LoopNumbers, MigrationAssumption DEF TypeOK, Schema
<1> USE DEF Goto, At, Still, InTx
<1>2. ASSUME NEW t \in Threads, Connect(t) \/ ConnectRaises(t) \/ TakeLock(t) \/ ConnectAgain(t)
      PROVE  Goal
    <2>1. UNCHANGED <<db, build, loop>>
        BY <1>2 DEF Connect, ConnectRaises, TakeLock, ConnectAgain
    <2>2. CASE u # t
        BY <1>0, <1>1, <1>2, <2>1, <2>2 DEF Connect, ConnectRaises, TakeLock, ConnectAgain, TypeOK
    <2>3. CASE u = t
        BY <1>2, <2>1, <2>3 DEF Connect, ConnectRaises, TakeLock, ConnectAgain, TypeOK, LoopInv
    <2> QED
        BY <2>2, <2>3
<1>3. ASSUME NEW t \in Threads, RefuseNewer(t) \/ HandOut(t) \/ FailAtOnce(t) \/ ReadRaises(t)
      PROVE  Goal
    <2>1. UNCHANGED <<db, build>>
        BY <1>3 DEF RefuseNewer, HandOut, FailAtOnce, ReadRaises
    <2>2. CASE u # t
        BY <1>0, <1>1, <1>3, <2>1, <2>2 DEF RefuseNewer, HandOut, FailAtOnce, ReadRaises, Leave, TypeOK
    <2>3. CASE u = t
        BY <1>3, <2>3 DEF RefuseNewer, HandOut, FailAtOnce, ReadRaises, Leave, TypeOK, Outside
    <2> QED
        BY <2>2, <2>3
<1>4. ASSUME NEW t \in Threads, ReadVersion(t) PROVE Goal
    BY <1>0, <1>1, <1>4 DEF ReadVersion, TypeOK, LoopInv
<1>5. ASSUME NEW t \in Threads, PickMigration(t) \/ Begin(t) \/ Start(t) PROVE Goal
    <2>1. \A k \in Nat : 1 \in 1 .. k + 1
        OBVIOUS
    <2>2. pc[t] = "recheck" => Statements[loop[t].next] \in Nat
        BY LoopNumbers, BuildsKnow, MigrationAssumption DEF LoopInv, Version
    <2> QED
        BY <1>0, <1>1, <1>5, <2>1, <2>2
        DEF PickMigration, Begin, Start, TypeOK, LoopInv, Version, Knows
<1>6. ASSUME NEW t \in Threads, AlreadyApplied(t) \/ Commit(t) PROVE Goal
    <2>1. /\ db'.version >= db.version /\ db'.version \in Nat /\ build' = build
          /\ loop[t].next <= db'.version
        <3>1. CASE AlreadyApplied(t)
            BY <1>1, <3>1 DEF AlreadyApplied, TxInv, Version
        <3>2. CASE Commit(t)
            <4>1. db'.version = loop[t].next
                BY <3>2, OwnerFacts DEF Commit, Version, Schema
            <4>2. loop[t].next = db.version + 1 /\ build' = build
                BY <3>2 DEF Commit, TxInv, Version
            <4> QED
                BY <1>1, <4>1, <4>2
        <3> QED
            BY <1>6, <3>1, <3>2
    <2>2. Advance(t)
        BY <1>6 DEF AlreadyApplied, Commit
    <2>3. CASE u # t
        BY <1>0, <2>1, <2>2, <2>3 DEF Advance, TypeOK
    <2>4. CASE u = t
        <3>1. pc'[u] = "pick" /\ loop'[u].next = loop[t].next + 1 /\ loop'[u].stmt = 1
            BY <2>2, <2>4 DEF Advance, Outside, Version, TypeOK
        <3> QED
            BY <1>1, <2>1, <2>4, <3>1
    <2> QED
        BY <2>3, <2>4
<1>7. ASSUME NEW t \in Threads, Apply(t) PROVE Goal
    <2>1. CASE u # t
        BY <1>0, <1>1, <1>7, <2>1 DEF Apply, TypeOK
    <2>2. CASE u = t
        <3>1. /\ pc'[u] = "apply" /\ pc[u] = "apply" /\ UNCHANGED <<db, build>>
              /\ loop[u].stmt <= Statements[loop[u].next]
            BY <1>7, <2>2 DEF Apply, Version
        <3>2. loop'[u].next = loop[u].next /\ loop'[u].stmt = loop[u].stmt + 1
            BY <1>7, <2>2 DEF Apply, TypeOK
        <3>3. Statements[loop[u].next] \in Nat
            BY <3>1, LoopNumbers, BuildsKnow, MigrationAssumption DEF LoopInv, Version
        <3>4. loop[u].next <= db.version + 1 /\ loop[u].next <= build[Process[u]]
            BY <3>1 DEF LoopInv, Version, Knows
        <3>5. loop[u].stmt + 1 \in 1 .. Statements[loop[u].next] + 1
            BY <3>1, <3>3, LoopNumbers
        <3> QED
            BY <3>1, <3>2, <3>4, <3>5
    <2> QED
        BY <2>1, <2>2
<1>8. ASSUME NEW t \in Threads, Busy(t) \/ StatementRaises(t) PROVE Goal
    BY <1>0, <1>1, <1>8
    DEF Busy, StatementRaises, TryAgain, Rollback, Leave, Outside, TypeOK, LoopInv, Version, Knows
<1>9. ASSUME NEW p \in Processes, Crash(p) PROVE Goal
    <2>1. UNCHANGED <<db, build>>
        BY <1>9 DEF Crash
    <2>2. CASE Process[u] = p
        BY <1>9, <2>2 DEF Crash, Outside
    <2>3. CASE Process[u] # p
        BY <1>0, <1>1, <1>9, <2>1, <2>3 DEF Crash
    <2> QED
        BY <2>2, <2>3
<1>10. ASSUME NEW p \in Processes, Restart(p) PROVE Goal
    <2>1. pc[u] # "idle" => Process[u] # p
        BY <1>10 DEF Restart, TypeOK
    <2>2. pc[u] # "idle" => build'[Process[u]] = build[Process[u]]
        BY <1>10, <2>1, MigrationAssumption DEF Restart, TypeOK
    <2> QED
        BY <1>0, <1>1, <1>10, <2>2 DEF Restart
<1>11. CASE UNCHANGED vars
    BY <1>0, <1>1, <1>11 DEF vars
<1> QED
    BY <1>2, <1>3, <1>4, <1>5, <1>6, <1>7, <1>8, <1>9, <1>10, <1>11 DEF Next, Migrate

LEMMA TxStep == MigrationInv /\ [Next]_vars => TxInv'
<1> SUFFICES ASSUME TypeOK, LoopInv, TxInv, SchemaWhole, [Next]_vars, NEW u \in Threads
             PROVE  /\ pc'[u] = "recheck" => tx'.schema = db'
                    /\ pc'[u] = "apply" =>
                        /\ loop'[u].next = db'.version + 1
                        /\ \A s \in Steps : tx'.schema.ran[s] = Half(u, s)'
    BY DEF MigrationInv, TxInv, Version
<1> DEFINE Goal == /\ pc'[u] = "recheck" => tx'.schema = db'
                   /\ pc'[u] = "apply" =>
                        /\ loop'[u].next = db'.version + 1
                        /\ \A s \in Steps : tx'.schema.ran[s] = Half(u, s)'
\* A thread outside, and one whose view of the database does not change.
<1>1. ASSUME pc'[u] \notin InTx PROVE Goal
    BY <1>1 DEF InTx
<1>2. ASSUME UNCHANGED <<db, tx>>, pc'[u] = pc[u], loop'[u] = loop[u] PROVE Goal
    BY <1>2 DEF TxInv, Half, Version
<1> USE DEF Goto, At
<1>3. ASSUME NEW t \in Threads,
             \/ Connect(t) \/ ConnectRaises(t) \/ TakeLock(t) \/ ConnectAgain(t) \/ RefuseNewer(t)
             \/ HandOut(t) \/ ReadVersion(t) \/ ReadRaises(t) \/ PickMigration(t) \/ Busy(t)
      PROVE  Goal
    <2>1. UNCHANGED <<db, tx>>
        BY <1>3 DEF Connect, ConnectRaises, TakeLock, ConnectAgain, RefuseNewer, HandOut, ReadVersion,
            ReadRaises, PickMigration, Busy
    <2>2. CASE u = t
        <3>1. pc'[u] \notin InTx
            BY <1>3, <2>2 DEF Connect, ConnectRaises, TakeLock, ConnectAgain, RefuseNewer, HandOut,
                ReadVersion, ReadRaises, PickMigration, Busy, TryAgain, Leave, TypeOK, InTx
        <3> QED
            BY <1>1, <3>1
    <2>3. CASE u # t
        <3>1. pc'[u] = pc[u] /\ loop'[u] = loop[u]
            BY <1>3, <2>3 DEF Connect, ConnectRaises, TakeLock, ConnectAgain, RefuseNewer, HandOut,
                ReadVersion, ReadRaises, PickMigration, Busy, TryAgain, Leave, TypeOK
        <3> QED
            BY <1>2, <2>1, <3>1
    <2> QED
        BY <2>2, <2>3
<1>4. ASSUME NEW t \in Threads, Begin(t) PROVE Goal
    <2>1. pc[u] \notin InTx
        BY <1>4, NobodyInTx DEF Begin
    <2>2. pc'[u] # "apply"
        BY <1>4, <2>1 DEF Begin, TypeOK, InTx
    <2>3. tx'.schema = db /\ db' = db
        BY <1>4 DEF Begin
    <2> QED
        BY <2>2, <2>3
<1>5. ASSUME NEW t \in Threads, AlreadyApplied(t) \/ Commit(t) \/ StatementRaises(t) PROVE Goal
    <2>1. pc[t] \in InTx
        BY <1>5 DEF AlreadyApplied, Commit, StatementRaises, InTx
    <2>2. CASE u = t
        <3>1. pc'[u] \notin InTx
            BY <1>5, <2>2 DEF AlreadyApplied, Commit, StatementRaises, Advance, TryAgain, Leave, TypeOK, InTx
        <3> QED
            BY <1>1, <3>1
    <2>3. CASE u # t
        <3>1. pc[u] \notin InTx
            BY <2>1, <2>3, OneTx
        <3>2. pc'[u] = pc[u]
            BY <1>5, <2>3 DEF AlreadyApplied, Commit, StatementRaises, Advance, TryAgain, Leave, TypeOK
        <3> QED
            BY <1>1, <3>1, <3>2
    <2> QED
        BY <2>2, <2>3
<1>6. ASSUME NEW t \in Threads, Start(t) PROVE Goal
    <2>1. UNCHANGED <<db, tx, loop>>
        BY <1>6 DEF Start
    <2>2. CASE u # t
        BY <1>2, <1>6, <2>1, <2>2 DEF Start, TypeOK
    <2>3. CASE u = t
        <3>1. tx.schema = db /\ loop[u].stmt = 1 /\ pc'[u] = "apply"
            BY <1>6, <2>3 DEF Start, TxInv, LoopInv, TypeOK
        <3>2. loop[u].next = db.version + 1
            <4>1. db.version < loop[u].next
                BY <1>6, <2>3, <3>1 DEF Start, Version
            <4>2. loop[u].next <= db.version + 1
                BY <1>6, <2>3 DEF Start, LoopInv, Version, InTx
            <4> QED
                BY <4>1, <4>2, LoopNumbers, VersionNumber
        <3>3. ASSUME NEW s \in Steps PROVE tx'.schema.ran[s] = Half(u, s)'
            <4>1. ~ s[2] < 1
                BY StepsAre, MigrationAssumption
            <4>2. db.ran[s] = IF s[1] <= db.version THEN 1 ELSE 0
                BY DEF SchemaWhole
            <4> QED
                BY <2>1, <3>1, <4>1, <4>2 DEF Half
        <3> QED
            BY <2>1, <3>1, <3>2, <3>3
    <2> QED
        BY <2>2, <2>3
<1>7. ASSUME NEW t \in Threads, Apply(t) PROVE Goal
    <2>1. UNCHANGED <<db, pc>> /\ pc[t] = "apply"
        BY <1>7 DEF Apply
    <2>2. CASE u # t
        BY <1>1, <2>1, <2>2, OneTx DEF InTx
    <2>3. CASE u = t
        <3>1. /\ loop'[u].next = loop[u].next /\ loop'[u].stmt = loop[u].stmt + 1
              /\ loop[u].next = db.version + 1
            BY <1>7, <2>1, <2>3 DEF Apply, TypeOK, TxInv, Version
        <3>2. /\ tx \in [owner : Threads, schema : Schema]
              /\ tx' = [tx EXCEPT !.schema.ran[<<loop[u].next, loop[u].stmt>>] = @ + 1]
            BY <1>7, <2>1, <2>3, OwnerFacts DEF Apply, Version, InTx
        <3>3. tx.schema.ran \in [Steps -> Nat]
            BY <3>2 DEF Schema
        <3>4. tx'.schema.ran = [tx.schema.ran EXCEPT ![<<loop[u].next, loop[u].stmt>>] = @ + 1]
            BY <3>2 DEF Schema
        <3>5. ASSUME NEW s \in Steps PROVE tx'.schema.ran[s] = Half(u, s)'
            <4>1. tx.schema.ran[s] = Half(u, s)
                BY <2>1, <2>3 DEF TxInv
            <4>2. s[1] \in Nat /\ s[2] \in Nat /\ s = <<s[1], s[2]>> /\ db.version \in Nat
                BY StepNumbers, VersionNumber
            <4>3. CASE s = <<loop[u].next, loop[u].stmt>>
                <5>1. Half(u, s) = 0
                    BY <3>1, <4>2, <4>3, LoopNumbers DEF Half, Version
                <5>2. Half(u, s)' = 1
                    BY <2>1, <3>1, <4>2, <4>3, LoopNumbers DEF Half, Version
                <5>3. tx'.schema.ran[s] = tx.schema.ran[s] + 1
                    BY <3>3, <3>4, <4>3
                <5> QED
                    BY <4>1, <5>1, <5>2, <5>3
            <4>4. CASE s # <<loop[u].next, loop[u].stmt>>
                <5>1. tx'.schema.ran[s] = tx.schema.ran[s]
                    BY <3>3, <3>4, <4>4
                <5>2. s[1] = loop[u].next => s[2] # loop[u].stmt
                    BY <4>2, <4>4
                <5>3. Half(u, s)' = Half(u, s)
                    BY <2>1, <3>1, <4>2, <5>2, LoopNumbers DEF Half, Version
                <5> QED
                    BY <4>1, <5>1, <5>3
            <4> QED
                BY <4>3, <4>4
        <3> QED
            BY <2>1, <2>3, <3>1, <3>5
    <2> QED
        BY <2>2, <2>3
<1>8. ASSUME NEW p \in Processes, Crash(p) PROVE Goal
    <2>1. CASE Process[u] = p \/ pc[u] \notin InTx
        <3>1. pc'[u] \notin InTx
            BY <1>8, <2>1 DEF Crash, InTx
        <3> QED
            BY <1>1, <3>1
    <2>2. CASE Process[u] # p /\ pc[u] \in InTx
        <3>1. tx.owner = u
            BY <2>2, OwnerFacts
        <3>2. UNCHANGED <<db, tx>> /\ pc'[u] = pc[u] /\ loop'[u] = loop[u]
            BY <1>8, <2>2, <3>1 DEF Crash
        <3> QED
            BY <1>2, <3>2
    <2> QED
        BY <2>1, <2>2
<1>9. ASSUME NEW p \in Processes, Restart(p) PROVE Goal
    BY <1>2, <1>9 DEF Restart
<1>10. ASSUME NEW t \in Threads, FailAtOnce(t) PROVE Goal
    <2>1. CASE u = t
        <3>1. pc'[u] \notin InTx
            BY <1>10, <2>1 DEF FailAtOnce, Leave, TypeOK, InTx
        <3> QED
            BY <1>1, <3>1
    <2>2. CASE u # t
        <3>1. pc'[u] = pc[u] /\ loop'[u] = loop[u] /\ db' = db
            BY <1>10, <2>2 DEF FailAtOnce, Leave, TypeOK
        <3>2. CASE tx.owner = t
            <4>1. pc[u] \notin InTx
                BY <2>2, <3>2, OwnerFacts
            <4> QED
                BY <1>1, <3>1, <4>1
        <3>3. CASE tx.owner # t
            BY <1>2, <1>10, <3>1, <3>3 DEF FailAtOnce
        <3> QED
            BY <3>2, <3>3
    <2> QED
        BY <2>1, <2>2
<1>11. CASE UNCHANGED vars
    BY <1>2, <1>11 DEF vars
<1> QED
    BY <1>3, <1>4, <1>5, <1>6, <1>7, <1>8, <1>9, <1>10, <1>11 DEF Next, Migrate

\* Only a COMMIT changes what is committed, and it adds one migration.
LEMMA CommitAdds ==
    ASSUME MigrationInv, NEW t \in Threads, Commit(t)
    PROVE  /\ db'.version = db.version + 1
           /\ \A s \in Steps : db'.ran[s] = IF s[1] <= db'.version THEN 1 ELSE 0
<1> USE DEF MigrationInv
<1>1. /\ pc[t] = "apply" /\ loop[t].next = db.version + 1
      /\ db' = [tx.schema EXCEPT !.version = loop[t].next]
      /\ loop[t].stmt > Statements[loop[t].next]
    BY DEF Commit, At, TxInv, Version
<1>2. tx.schema \in Schema
    BY <1>1, OwnerFacts DEF InTx
<1>3. db'.version = loop[t].next /\ db'.ran = tx.schema.ran
    BY <1>1, <1>2 DEF Schema
<1>4. ASSUME NEW s \in Steps PROVE tx.schema.ran[s] = IF s[1] <= loop[t].next THEN 1 ELSE 0
    <2>1. tx.schema.ran[s] = Half(t, s)
        BY <1>1 DEF TxInv
    <2>2. s[1] \in Nat /\ s[2] \in Nat /\ db.version \in Nat /\ s[2] <= Statements[s[1]]
        BY StepsAre, MigrationAssumption DEF TypeOK, Schema
    <2>3. loop[t].next \in 1 .. Latest
        BY <1>1, LoopNumbers, BuildsKnow, MigrationAssumption DEF LoopInv, InTx, Version
    <2>4. s[1] = loop[t].next => s[2] < loop[t].stmt
        BY <1>1, <2>2, <2>3, LoopNumbers, MigrationAssumption
    <2> QED
        BY <1>1, <2>1, <2>2, <2>4 DEF Half, Version
<1> QED
    BY <1>1, <1>3, <1>4

LEMMA CommittedStep ==
    ASSUME MigrationInv, [Next]_vars
    PROVE  db' = db \/ \E t \in Threads : Commit(t)
BY DEF vars, Next, Migrate, Connect, ConnectRaises, TakeLock, ConnectAgain, RefuseNewer, ReadVersion,
    ReadRaises, PickMigration, HandOut, Begin, AlreadyApplied, Start, Apply, Busy, StatementRaises,
    FailAtOnce, Rollback, Crash, Restart

LEMMA SchemaStep == MigrationInv /\ [Next]_vars => SchemaWhole'
<1> SUFFICES ASSUME MigrationInv, [Next]_vars PROVE SchemaWhole'
    OBVIOUS
<1>1. CASE db' = db
    BY <1>1 DEF MigrationInv, SchemaWhole
<1>2. ASSUME NEW t \in Threads, Commit(t) PROVE SchemaWhole'
    BY <1>2, CommitAdds DEF SchemaWhole
<1> QED
    BY <1>1, <1>2, CommittedStep

LEMMA VersionStep ==
    ASSUME MigrationInv, [Next]_vars
    PROVE  db'.version \in {db.version, db.version + 1}
BY CommitAdds, CommittedStep

LEMMA AnswerStep == MigrationInv /\ [Next]_vars => AnswerIsTrue'
<1> SUFFICES ASSUME MigrationInv, [Next]_vars, NEW u \in Threads
             PROVE  /\ pc'[u] = "open" => db'.version >= build'[Process[u]]
                    /\ pc'[u] = "refused" => db'.version > build'[Process[u]]
    BY DEF AnswerIsTrue, Knows
<1> DEFINE Goal == /\ pc'[u] = "open" => db'.version >= build'[Process[u]]
                   /\ pc'[u] = "refused" => db'.version > build'[Process[u]]
<1>1. db'.version >= db.version /\ db.version \in Nat /\ db'.version \in Nat
    <2>1. db.version \in Nat
        BY MigrationAssumption DEF MigrationInv, TypeOK, Schema
    <2> QED
        BY <2>1, VersionStep
<1>2. build[Process[u]] \in Nat /\ loop[u].next \in Nat
    BY BuildsKnow, LoopNumbers, MigrationAssumption DEF MigrationInv, Knows
<1>3. ASSUME pc'[u] = pc[u], pc[u] # "idle" => build'[Process[u]] = build[Process[u]] PROVE Goal
    BY <1>1, <1>2, <1>3 DEF MigrationInv, AnswerIsTrue, Knows
<1>4. ASSUME pc'[u] \notin {"open", "refused"} PROVE Goal
    BY <1>4
<1> USE DEF Goto, At, Still
<1>5. ASSUME NEW t \in Threads,
             \/ Connect(t) \/ ConnectRaises(t) \/ TakeLock(t) \/ ConnectAgain(t) \/ ReadVersion(t)
             \/ ReadRaises(t) \/ PickMigration(t) \/ Begin(t) \/ AlreadyApplied(t) \/ Start(t)
             \/ Apply(t) \/ Commit(t) \/ Busy(t) \/ StatementRaises(t) \/ FailAtOnce(t)
      PROVE  Goal
    <2>1. build' = build
        BY <1>5 DEF Connect, ConnectRaises, TakeLock, ConnectAgain, ReadVersion, ReadRaises, PickMigration,
            Begin, AlreadyApplied, Start, Apply, Commit, Busy, StatementRaises, FailAtOnce
    <2>2. pc'[u] = pc[u] \/ pc'[u] \notin {"open", "refused"}
        BY <1>5 DEF Connect, ConnectRaises, TakeLock, ConnectAgain, ReadVersion, ReadRaises, PickMigration,
            Begin, AlreadyApplied, Start, Apply, Commit, Busy, StatementRaises, FailAtOnce, Advance, TryAgain, Leave, MigrationInv, TypeOK
    <2> QED
        BY <1>3, <1>4, <2>1, <2>2
<1>6. ASSUME NEW t \in Threads, RefuseNewer(t) \/ HandOut(t) PROVE Goal
    <2>1. UNCHANGED <<db, build>>
        BY <1>6 DEF RefuseNewer, HandOut
    <2>2. CASE u # t
        BY <1>3, <1>6, <2>1, <2>2 DEF RefuseNewer, HandOut, Leave, MigrationInv, TypeOK
    <2>3. CASE u = t /\ RefuseNewer(t)
        BY <2>1, <2>3 DEF RefuseNewer, Leave, Knows, MigrationInv, TypeOK
    <2>4. CASE u = t /\ HandOut(t)
        <3>1. loop[u].next > build[Process[u]] /\ loop[u].next <= db.version + 1
            BY <2>4 DEF HandOut, Knows, Version, MigrationInv, LoopInv
        <3>2. pc'[u] = "open"
            BY <2>4 DEF HandOut, Leave, MigrationInv, TypeOK
        <3> QED
            BY <1>1, <1>2, <2>1, <3>1, <3>2
    <2> QED
        BY <1>6, <2>2, <2>3, <2>4
<1>7. ASSUME NEW p \in Processes, Crash(p) PROVE Goal
    BY <1>3, <1>4, <1>7 DEF Crash
<1>8. ASSUME NEW p \in Processes, Restart(p) PROVE Goal
    <2>1. pc[u] # "idle" => Process[u] # p
        BY <1>8 DEF Restart, MigrationInv, TypeOK
    <2>2. pc[u] # "idle" => build'[Process[u]] = build[Process[u]]
        BY <1>8, <2>1, MigrationAssumption DEF Restart, MigrationInv, TypeOK
    <2> QED
        BY <1>3, <1>8, <2>2 DEF Restart
<1>9. CASE UNCHANGED vars
    BY <1>3, <1>9 DEF vars
<1> QED
    BY <1>5, <1>6, <1>7, <1>8, <1>9 DEF Next, Migrate
-----------------------------------------------------------------------------
LEMMA MigrationInvHolds == Spec => []MigrationInv
<1>1. MigrationInv /\ [Next]_vars => MigrationInv'
    BY TypeStep, LoopStep, TxStep, SchemaStep, AnswerStep DEF MigrationInv
<1> QED
    BY InitInv, <1>1, PTL DEF Spec

\* The types of connect and migrate: one transaction, one holder of each lock.
THEOREM MigrationTypeCorrect == Spec => []TypeOK
<1>1. MigrationInv => TypeOK
    BY DEF MigrationInv
<1> QED
    BY <1>1, MigrationInvHolds, PTL

\* Migrations are applied in order, once and whole, however many threads of
\* however many processes open the database, fail and die.
THEOREM SchemaWholeHolds == Spec => []SchemaWhole
<1>1. MigrationInv => SchemaWhole
    BY DEF MigrationInv
<1> QED
    BY <1>1, MigrationInvHolds, PTL

\* A connection that was handed out has every table its build knows.
THEOREM AnswerIsTrueHolds == Spec => []AnswerIsTrue
<1>1. MigrationInv => AnswerIsTrue
    BY DEF MigrationInv
<1> QED
    BY <1>1, MigrationInvHolds, PTL

\* user_version never falls and never skips a migration.
THEOREM VersionsRiseByOneHolds == Spec => VersionsRiseByOne
<1>1. MigrationInv /\ [Next]_vars => [db'.version \in {db.version, db.version + 1}]_vars
    BY VersionStep
<1> QED
    BY <1>1, MigrationInvHolds, PTL DEF Spec, VersionsRiseByOne
=============================================================================
