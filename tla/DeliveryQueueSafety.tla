------------------------ MODULE DeliveryQueueSafety ------------------------
(***************************************************************************)
(* The safety properties of DeliveryQueue, proved for every number of jobs *)
(* and servers and every setting of the limits, and that the queue         *)
(* implements ReportService.                                               *)
(***************************************************************************)
EXTENDS DeliveryQueueProofs

\* The fact the action cases below start from.
LEMMA NextCases ==
    ASSUME [Next]_vars
    PROVE  \/ \E s \in Servers : \/ \E j \in Jobs : Enqueue(s, j)
                                 \/ PassThrottle(s) \/ ClaimNothing(s)
                                 \/ ClaimDue(s)
                                 \/ Deliver(s)
                                 \/ EndAttempt(s)
                                 \/ RequeueStale(s)
                                 \/ Process(s)
           \/ Tick
           \/ UNCHANGED vars
BY DEF Next, Worker

LEMMA IdleEffect ==
    ASSUME TypeOK, NEW s \in Servers, PassThrottle(s) \/ ClaimNothing(s)
    PROVE  /\ pc[s] \notin Busy /\ pc'[s] \notin Busy
           /\ OthersStay(s)
           /\ UNCHANGED <<jobs, mode, held, failure, accepted, outbound, faults, stops>>
BY DEF TypeOK, PassThrottle, ClaimNothing, OthersStay, Busy

\* A job nobody submitted has no attempts, so submitting it resets nothing.
AbsentFresh == \A j \in Jobs : jobs[j].state = "absent" => jobs[j].attempts = 0

LEMMA AbsentStep == TypeOK /\ AbsentFresh /\ [Next]_vars => AbsentFresh'
<1> SUFFICES ASSUME TypeOK, AbsentFresh, [Next]_vars PROVE AbsentFresh'
    OBVIOUS
<1>1. ASSUME NEW s \in Servers, NEW j \in Jobs, Enqueue(s, j) PROVE AbsentFresh'
    BY <1>1, EnqueueEffect DEF AbsentFresh
<1>2. ASSUME NEW s \in Servers, PassThrottle(s) \/ ClaimNothing(s) PROVE AbsentFresh'
    BY <1>2, IdleEffect DEF AbsentFresh
<1>3. ASSUME NEW s \in Servers, ClaimDue(s) PROVE AbsentFresh'
    BY <1>3, ClaimEffect DEF AbsentFresh
<1>4. ASSUME NEW s \in Servers, Deliver(s) PROVE AbsentFresh'
    BY <1>4, DeliverEffect DEF AbsentFresh
<1>5. ASSUME NEW s \in Servers, EndAttempt(s) PROVE AbsentFresh'
    BY <1>5, EndEffect DEF AbsentFresh, Settled, PutBack, Lost, Terminal
<1>6. ASSUME NEW s \in Servers, RequeueStale(s) PROVE AbsentFresh'
    BY <1>6, RequeueEffect DEF AbsentFresh
<1>7. ASSUME NEW s \in Servers, Process(s) PROVE AbsentFresh'
    BY <1>7, ProcessEffect DEF AbsentFresh
<1>8. CASE Tick
    BY <1>8, TickEffect DEF AbsentFresh
<1>9. CASE UNCHANGED vars
    BY <1>9 DEF AbsentFresh, vars
<1> QED
    BY <1>1, <1>2, <1>3, <1>4, <1>5, <1>6, <1>7, <1>8, <1>9, NextCases
-----------------------------------------------------------------------------
(* Attempt numbers: MailPerAttempt is not inductive as it stands. A claim   *)
(* must also be of an attempt the row has counted, and no two workers may   *)
(* hold the same attempt of the same job.                                   *)

AcceptedCounted == \A j \in Jobs : accepted[j] \subseteq 1 .. jobs[j].attempts

HeldCounted ==
    \A s \in Servers : pc[s] \in Busy =>
        held[s].attempt >= 1 /\ held[s].attempt <= jobs[held[s].job].attempts

HeldUnsent ==
    \A s \in Servers : pc[s] = "sending" => held[s].attempt \notin accepted[held[s].job]

HeldApart ==
    \A s, t \in Servers : s # t /\ pc[s] \in Busy /\ pc[t] \in Busy => held[s] # held[t]

AttemptInv == AbsentFresh /\ AcceptedCounted /\ HeldCounted /\ HeldUnsent /\ HeldApart

LEMMA AttemptInit == Init => AttemptInv
BY DEF Init, NoRow, AttemptInv, AbsentFresh, AcceptedCounted, HeldCounted, HeldUnsent, HeldApart, Busy

\* Steps that send no mail and hand out no attempt.
LEMMA AttemptFrame ==
    ASSUME TypeOK, AttemptInv, AbsentFresh', UNCHANGED accepted,
           \A j \in Jobs : jobs'[j].attempts = jobs[j].attempts,
           \A s \in Servers : pc'[s] \in Busy => pc'[s] = pc[s] /\ held'[s] = held[s]
    PROVE  AttemptInv'
<1>1. \A s \in Servers : pc[s] \in Busy => held[s].job \in Jobs
    BY DEF TypeOK, Claim
<1>2. AcceptedCounted'
    BY DEF AttemptInv, AcceptedCounted
<1>3. HeldCounted'
    BY <1>1 DEF AttemptInv, HeldCounted
<1>4. HeldUnsent' /\ HeldApart'
    BY DEF AttemptInv, HeldUnsent, HeldApart, Busy
<1> QED
    BY <1>2, <1>3, <1>4 DEF AttemptInv

LEMMA AttemptStep == TypeOK /\ TypeOK' /\ AttemptInv /\ [Next]_vars => AttemptInv'
<1> SUFFICES ASSUME TypeOK, TypeOK', AttemptInv, [Next]_vars PROVE AttemptInv'
    OBVIOUS
<1>0. AbsentFresh'
    BY AbsentStep DEF AttemptInv
<1>10. \A j \in Jobs : jobs[j].attempts \in Nat /\ accepted[j] \subseteq Nat
    BY DEF TypeOK, Row
<1>11. \A s \in Servers : pc[s] \in Busy => held[s].job \in Jobs /\ held[s].attempt \in Nat
    BY DEF TypeOK, Claim
<1>1. ASSUME NEW s \in Servers, NEW j \in Jobs, Enqueue(s, j) PROVE AttemptInv'
    BY <1>0, <1>1, EnqueueEffect, AttemptFrame DEF AttemptInv, AbsentFresh
<1>2. ASSUME NEW s \in Servers, PassThrottle(s) \/ ClaimNothing(s) PROVE AttemptInv'
    BY <1>2, IdleEffect, AttemptFrame, <1>0 DEF OthersStay
<1>3. ASSUME NEW s \in Servers, ClaimDue(s) PROVE AttemptInv'
    <2>1. PICK j \in Jobs :
            /\ jobs'[j].attempts = jobs[j].attempts + 1
            /\ \A k \in Jobs \ {j} : jobs'[k] = jobs[k]
            /\ held'[s].job = j /\ held'[s].attempt = jobs[j].attempts + 1
            /\ OthersStay(s)
            /\ accepted' = accepted
        BY <1>3, ClaimEffect
    <2>2. \A k \in Jobs : jobs'[k].attempts >= jobs[k].attempts /\ jobs'[k].attempts \in Nat
        BY <2>1, <1>10
    <2>3. AcceptedCounted'
        BY <2>1, <2>2, <1>10 DEF AttemptInv, AcceptedCounted
    <2>4. HeldCounted'
        BY <2>1, <2>2, <1>10, <1>11 DEF AttemptInv, HeldCounted, OthersStay
    <2>5. HeldUnsent'
        <3>1. held'[s].attempt \notin accepted'[held'[s].job]
            BY <2>1, <1>10 DEF AttemptInv, AcceptedCounted
        <3> QED
            BY <2>1, <3>1 DEF AttemptInv, HeldUnsent, OthersStay
    <2>6. HeldApart'
        <3>1. \A t \in Servers \ {s} : pc'[t] \in Busy => held'[t] # held'[s]
            BY <2>1, <1>10, <1>11 DEF AttemptInv, HeldCounted, OthersStay
        <3> QED
            BY <2>1, <3>1 DEF AttemptInv, HeldApart, OthersStay
    <2> QED
        BY <1>0, <2>3, <2>4, <2>5, <2>6 DEF AttemptInv
<1>4. ASSUME NEW s \in Servers, Deliver(s) PROVE AttemptInv'
    <2> DEFINE j == held[s].job
               n == held[s].attempt
    <2>1. /\ pc[s] = "sending" /\ pc'[s] \in {"sent", "raised"} /\ OthersStay(s)
          /\ jobs' = jobs /\ held' = held
          /\ j \in Jobs /\ n \in Nat
        BY <1>4, DeliverEffect DEF Claim
    <2>2. \A k \in Jobs : accepted'[k] \subseteq accepted[k] \cup {n}
        BY <1>4, DeliverEffect, <2>1 DEF TypeOK, RelayTakes
    <2>3. \A k \in Jobs \ {j} : accepted'[k] = accepted[k]
        BY <1>4, DeliverEffect, <2>1 DEF TypeOK, RelayTakes
    <2>4. n \in 1 .. jobs[j].attempts
        BY <2>1, <1>10 DEF AttemptInv, HeldCounted, Busy
    <2>5. AcceptedCounted'
        BY <2>1, <2>2, <2>3, <2>4 DEF AttemptInv, AcceptedCounted
    <2>6. HeldCounted' /\ HeldApart'
        BY <2>1 DEF AttemptInv, HeldCounted, HeldApart, OthersStay, Busy
    <2>7. HeldUnsent'
        <3> SUFFICES ASSUME NEW t \in Servers, pc'[t] = "sending"
                     PROVE  held[t].attempt \notin accepted'[held[t].job]
            BY <2>1 DEF HeldUnsent
        <3>1. t # s /\ pc[t] = "sending"
            BY <2>1 DEF OthersStay
        <3>2. held[t] \in Claim /\ held[s] \in Claim
            BY <2>1, <3>1 DEF TypeOK, Busy
        <3>3. held[t] # held[s]
            BY <2>1, <3>1 DEF AttemptInv, HeldApart, Busy
        <3>4. held[t].job # j \/ held[t].attempt # n
            BY <3>2, <3>3 DEF Claim
        <3> QED
            BY <2>2, <2>3, <3>1, <3>2, <3>4 DEF AttemptInv, HeldUnsent, Claim
    <2> QED
        BY <1>0, <2>5, <2>6, <2>7 DEF AttemptInv
<1>5. ASSUME NEW s \in Servers, EndAttempt(s) PROVE AttemptInv'
    BY <1>5, EndEffect, AttemptFrame, <1>0 DEF OthersStay, Busy
<1>6. ASSUME NEW s \in Servers, RequeueStale(s) PROVE AttemptInv'
    BY <1>6, RequeueEffect, AttemptFrame, <1>0
<1>7. ASSUME NEW s \in Servers, Process(s) PROVE AttemptInv'
    BY <1>7, ProcessEffect, AttemptFrame, <1>0 DEF OthersStay, Busy
<1>8. CASE Tick
    BY <1>8, TickEffect, AttemptFrame, <1>0
<1>9. CASE UNCHANGED vars
    BY <1>9, AttemptFrame, <1>0 DEF vars
<1> QED
    BY <1>1, <1>2, <1>3, <1>4, <1>5, <1>6, <1>7, <1>8, <1>9, NextCases

\* claim_due gives an attempt of a job to one worker, and every mail the relay
\* took is one counted attempt: for any number of servers, however slow.
THEOREM MailPerAttemptHolds == Spec => []MailPerAttempt
<1>1. Init => TypeOK /\ AttemptInv
    BY InitType, AttemptInit
<1>2. TypeOK /\ AttemptInv /\ [Next]_vars => (TypeOK /\ AttemptInv)'
    BY StepType, AttemptStep
<1>3. TypeOK /\ AttemptInv => MailPerAttempt
    BY DEF AttemptInv, AcceptedCounted, HeldUnsent, MailPerAttempt
<1> QED
    BY <1>1, <1>2, <1>3, PTL DEF Spec
-----------------------------------------------------------------------------
(* ActiveIsHeld is inductive with TypeOK alone.                            *)

LEMMA ActiveHeldStep == TypeOK /\ ActiveIsHeld /\ [Next]_vars => ActiveIsHeld'
<1> SUFFICES ASSUME TypeOK, ActiveIsHeld, [Next]_vars, faults' = 0,
                    NEW k \in Jobs, jobs'[k].state = "active"
             PROVE  \E t \in Servers : pc'[t] \in Busy /\ held'[t].job = k
    BY DEF ActiveIsHeld, Held
<1>0. faults \in Nat
    BY DEF TypeOK
<1>1. ASSUME faults = 0, jobs[k].state = "active"
      PROVE  \E t \in Servers : pc[t] \in Busy /\ held[t].job = k
    BY <1>1 DEF ActiveIsHeld, Held
<1>2. ASSUME NEW s \in Servers, NEW j \in Jobs, Enqueue(s, j)
      PROVE  \E t \in Servers : pc'[t] \in Busy /\ held'[t].job = k
    BY <1>1, <1>2, EnqueueEffect
<1>3. ASSUME NEW s \in Servers, PassThrottle(s) \/ ClaimNothing(s)
      PROVE  \E t \in Servers : pc'[t] \in Busy /\ held'[t].job = k
    BY <1>1, <1>3, IdleEffect DEF OthersStay
<1>4. ASSUME NEW s \in Servers, ClaimDue(s)
      PROVE  \E t \in Servers : pc'[t] \in Busy /\ held'[t].job = k
    BY <1>1, <1>4, ClaimEffect DEF OthersStay, Busy
<1>5. ASSUME NEW s \in Servers, Deliver(s)
      PROVE  \E t \in Servers : pc'[t] \in Busy /\ held'[t].job = k
    BY <1>1, <1>5, DeliverEffect DEF OthersStay, Busy
<1>6. ASSUME NEW s \in Servers, EndAttempt(s)
      PROVE  \E t \in Servers : pc'[t] \in Busy /\ held'[t].job = k
    <2>1. held[s].job # k /\ faults = 0 /\ jobs[k].state = "active"
        BY <1>0, <1>6, EndEffect DEF Settled, PutBack, Lost, Terminal
    <2>2. PICK t \in Servers : pc[t] \in Busy /\ held[t].job = k
        BY <1>1, <2>1
    <2> QED
        BY <1>6, EndEffect, <2>1, <2>2 DEF OthersStay
<1>7. ASSUME NEW s \in Servers, RequeueStale(s)
      PROVE  \E t \in Servers : pc'[t] \in Busy /\ held'[t].job = k
    BY <1>1, <1>7, RequeueEffect
<1>8. ASSUME NEW s \in Servers, Process(s)
      PROVE  \E t \in Servers : pc'[t] \in Busy /\ held'[t].job = k
    BY <1>0, <1>1, <1>8, ProcessEffect
<1>9. CASE Tick
    BY <1>1, <1>9, TickEffect
<1>10. CASE UNCHANGED vars
    BY <1>1, <1>10 DEF vars
<1> QED
    BY <1>2, <1>3, <1>4, <1>5, <1>6, <1>7, <1>8, <1>9, <1>10, NextCases

\* Without a crash or a lost write no row is left ACTIVE with nobody working on
\* it, whatever stops and restarts the servers go through.
THEOREM ActiveIsHeldHolds == Spec => []ActiveIsHeld
<1>1. Init => ActiveIsHeld
    BY DEF Init, NoRow, ActiveIsHeld
<1>2. TypeOK /\ ActiveIsHeld /\ [Next]_vars => ActiveIsHeld'
    BY ActiveHeldStep
<1> QED
    BY <1>1, <1>2, TypeCorrect, PTL DEF Spec
-----------------------------------------------------------------------------
(* With one server, or with servers whose deliveries end before            *)
(* STALE_ACTIVE_SECONDS, a job is in the hands of at most one worker, and   *)
(* the writes that end an attempt find the row as the claim left it.        *)

OneWorkerPerJob == (\A s, t \in Servers : s = t) \/ ~ SlowDelivery

HeldPending == \A s \in Servers : pc[s] \in Busy => jobs[held[s].job].state \in Pending

HeldFresh ==
    ~ SlowDelivery => \A s \in Servers : pc[s] \in Busy =>
        jobs[held[s].job].state = "active" /\ jobs[held[s].job].idle <= StaleActive

HeldByOne ==
    \A s, t \in Servers :
        s # t /\ pc[s] \in Busy /\ pc[t] \in Busy => held[s].job # held[t].job

OwnerInv == HeldPending /\ HeldFresh /\ HeldByOne

\* Steps that leave the held rows alone.
LEMMA OwnerFrame ==
    ASSUME TypeOK, OwnerInv,
           \A s \in Servers : pc'[s] \in Busy =>
                /\ pc[s] \in Busy /\ held'[s] = held[s]
                /\ jobs'[held[s].job] = jobs[held[s].job]
    PROVE  OwnerInv'
BY DEF OwnerInv, HeldPending, HeldFresh, HeldByOne

\* A job that can be claimed is in nobody's hands.
LEMMA QueuedUnheld ==
    ASSUME TypeOK, OwnerInv, OneWorkerPerJob, NEW s \in Servers, pc[s] \notin Busy,
           NEW j \in Jobs, jobs[j].state = "queued"
    PROVE  ~ Held(j)
BY QueueAssumption DEF OneWorkerPerJob, OwnerInv, HeldFresh, Held

LEMMA OwnerStep == OneWorkerPerJob /\ TypeOK /\ OwnerInv /\ [Next]_vars => OwnerInv'
<1> SUFFICES ASSUME OneWorkerPerJob, TypeOK, OwnerInv, [Next]_vars PROVE OwnerInv'
    OBVIOUS
<1>0. \A s \in Servers : pc[s] \in Busy =>
        held[s].job \in Jobs /\ jobs[held[s].job].state \in Pending
    BY DEF TypeOK, Claim, OwnerInv, HeldPending
<1>1. ASSUME NEW s \in Servers, NEW j \in Jobs, Enqueue(s, j) PROVE OwnerInv'
    <2>1. \A t \in Servers : pc[t] \in Busy => held[t].job # j
        BY <1>0, <1>1, EnqueueEffect DEF Pending
    <2> QED
        BY <1>0, <1>1, <2>1, EnqueueEffect, OwnerFrame
<1>2. ASSUME NEW s \in Servers, PassThrottle(s) \/ ClaimNothing(s) PROVE OwnerInv'
    BY <1>2, IdleEffect, OwnerFrame DEF OthersStay
<1>3. ASSUME NEW s \in Servers, ClaimDue(s) PROVE OwnerInv'
    <2>1. PICK j \in Jobs :
            /\ pc[s] = "checked" /\ jobs[j].state = "queued"
            /\ jobs'[j].state = "active" /\ jobs'[j].idle = 0
            /\ \A k \in Jobs \ {j} : jobs'[k] = jobs[k]
            /\ held'[s].job = j
            /\ OthersStay(s)
        BY <1>3, ClaimEffect
    <2>2. ~ Held(j)
        BY <2>1, QueuedUnheld DEF Busy
    <2>3. \A t \in Servers \ {s} : pc'[t] \in Busy =>
            /\ pc[t] \in Busy /\ held'[t] = held[t] /\ held[t].job # j
            /\ jobs'[held[t].job] = jobs[held[t].job]
        BY <1>0, <2>1, <2>2 DEF Held, OthersStay
    <2>4. HeldPending'
        BY <2>1, <2>3 DEF OwnerInv, HeldPending, Pending
    <2>5. HeldFresh'
        BY <2>1, <2>3, QueueAssumption DEF OwnerInv, HeldFresh
    <2>6. HeldByOne'
        BY <2>1, <2>3 DEF OwnerInv, HeldByOne
    <2> QED
        BY <2>4, <2>5, <2>6 DEF OwnerInv
<1>4. ASSUME NEW s \in Servers, Deliver(s) PROVE OwnerInv'
    BY <1>4, DeliverEffect, OwnerFrame DEF OthersStay, Busy
<1>5. ASSUME NEW s \in Servers, EndAttempt(s) PROVE OwnerInv'
    <2>1. pc[s] \in Busy
        BY <1>5, EndEffect DEF Busy
    <2>2. \A t \in Servers \ {s} : pc[t] \in Busy => held[t].job # held[s].job
        BY <2>1 DEF OwnerInv, HeldByOne
    <2>3. \A t \in Servers : pc'[t] \in Busy => t # s
        BY <1>5, EndEffect DEF Busy
    <2> QED
        BY <1>0, <1>5, <2>2, <2>3, EndEffect, OwnerFrame DEF OthersStay
<1>6. ASSUME NEW s \in Servers, RequeueStale(s) PROVE OwnerInv'
    <2>1. UNCHANGED <<pc, held>>
        BY <1>6, RequeueEffect
    <2>2. HeldPending'
        BY <1>0, <1>6, <2>1, RequeueEffect DEF OwnerInv, HeldPending, Pending
    <2>3. ~ SlowDelivery => \A t \in Servers : pc[t] \in Busy => ~ Stale(held[t].job)
        <3> SUFFICES ASSUME ~ SlowDelivery, NEW t \in Servers, pc[t] \in Busy
                     PROVE  ~ Stale(held[t].job)
            OBVIOUS
        <3>1. jobs[held[t].job].idle <= StaleActive
            BY DEF OwnerInv, HeldFresh
        <3>2. jobs[held[t].job].idle \in Nat /\ StaleActive \in Nat
            BY <1>0, QueueAssumption DEF TypeOK, Row
        <3> QED
            BY <3>1, <3>2 DEF Stale
    <2>4. HeldFresh'
        BY <1>0, <1>6, <2>1, <2>3, RequeueEffect DEF OwnerInv, HeldFresh
    <2>5. HeldByOne'
        BY <2>1 DEF OwnerInv, HeldByOne
    <2> QED
        BY <2>2, <2>4, <2>5 DEF OwnerInv
<1>7. ASSUME NEW s \in Servers, Process(s) PROVE OwnerInv'
    BY <1>7, ProcessEffect, OwnerFrame DEF OthersStay, Busy
<1>8. CASE Tick
    <2>1. UNCHANGED <<pc, held>>
        BY <1>8, TickEffect
    <2>2. HeldPending' /\ HeldByOne'
        BY <1>0, <1>8, <2>1, TickEffect DEF OwnerInv, HeldPending, HeldByOne
    <2>3. ASSUME ~ SlowDelivery, NEW t \in Servers, pc[t] \in Busy
          PROVE  jobs'[held[t].job].state = "active" /\ jobs'[held[t].job].idle <= StaleActive
        <3>1. jobs[held[t].job].idle < StaleActive /\ jobs[held[t].job].state = "active"
            BY <1>8, <2>3, TickEffect DEF Prompt, OwnerInv, HeldFresh
        <3>2. jobs[held[t].job].idle \in Nat /\ StaleActive \in Nat
            BY <1>0, <2>3, QueueAssumption DEF TypeOK, Row
        <3> QED
            BY <1>0, <1>8, <2>3, <3>1, <3>2, TickEffect
    <2>4. HeldFresh'
        BY <2>1, <2>3 DEF HeldFresh
    <2> QED
        BY <2>2, <2>4 DEF OwnerInv
<1>9. CASE UNCHANGED vars
    BY <1>9, OwnerFrame DEF vars
<1> QED
    BY <1>1, <1>2, <1>3, <1>4, <1>5, <1>6, <1>7, <1>8, <1>9, NextCases

LEMMA OwnerInit == Init => OwnerInv
BY DEF Init, OwnerInv, HeldPending, HeldFresh, HeldByOne, Busy

LEMMA OwnerHolds == OneWorkerPerJob /\ Spec => []OwnerInv
<1> SUFFICES ASSUME OneWorkerPerJob PROVE Spec => []OwnerInv
    OBVIOUS
<1>1. TypeOK /\ OwnerInv /\ [Next]_vars => OwnerInv'
    BY OwnerStep
<1> QED
    BY <1>1, OwnerInit, TypeCorrect, PTL DEF Spec

LEMMA TerminalStep ==
    ASSUME TypeOK, OwnerInv, [Next]_vars, NEW j \in Jobs, jobs[j].state \in Terminal
    PROVE  jobs'[j].state = jobs[j].state
<1>1. ASSUME NEW s \in Servers, NEW k \in Jobs, Enqueue(s, k) PROVE jobs'[j].state = jobs[j].state
    BY <1>1, EnqueueEffect DEF Terminal
<1>2. ASSUME NEW s \in Servers, PassThrottle(s) \/ ClaimNothing(s)
      PROVE  jobs'[j].state = jobs[j].state
    BY <1>2, IdleEffect
<1>3. ASSUME NEW s \in Servers, ClaimDue(s) PROVE jobs'[j].state = jobs[j].state
    BY <1>3, ClaimEffect DEF Terminal
<1>4. ASSUME NEW s \in Servers, Deliver(s) PROVE jobs'[j].state = jobs[j].state
    BY <1>4, DeliverEffect
<1>5. ASSUME NEW s \in Servers, EndAttempt(s) PROVE jobs'[j].state = jobs[j].state
    <2>1. jobs[held[s].job].state \in Pending
        BY <1>5, EndEffect DEF OwnerInv, HeldPending, Busy
    <2> QED
        BY <1>5, <2>1, EndEffect DEF Terminal, Pending
<1>6. ASSUME NEW s \in Servers, RequeueStale(s) PROVE jobs'[j].state = jobs[j].state
    BY <1>6, RequeueEffect DEF Terminal
<1>7. ASSUME NEW s \in Servers, Process(s) PROVE jobs'[j].state = jobs[j].state
    BY <1>7, ProcessEffect
<1>8. CASE Tick
    BY <1>8, TickEffect
<1>9. CASE UNCHANGED vars
    BY <1>9 DEF vars
<1> QED
    BY <1>1, <1>2, <1>3, <1>4, <1>5, <1>6, <1>7, <1>8, <1>9, NextCases

\* A settled report stays settled although every write of jobs.py is
\* WHERE id = ?: the row is still the worker's when it writes.
THEOREM TerminalIsFinalHolds == OneWorkerPerJob /\ Spec => TerminalIsFinal
<1>1. TypeOK /\ OwnerInv /\ [Next]_vars =>
        [\A j \in Jobs : jobs[j].state \in Terminal => jobs'[j].state = jobs[j].state]_vars
    BY TerminalStep
<1> QED
    BY <1>1, TypeCorrect, OwnerHolds, PTL DEF Spec, TerminalIsFinal
-----------------------------------------------------------------------------
(* The attempt cap. A job nobody holds must be one attempt short of it, and *)
(* a worker must hold the attempt the row counts last, or the comparison    *)
(* gave_up makes would be with a stale number.                              *)

HeldLatest ==
    \A s \in Servers : pc[s] \in Busy => held[s].attempt = jobs[held[s].job].attempts

RoomForOne ==
    MaxAttempts > 0 => \A j \in Jobs :
        jobs[j].state \in Pending /\ ~ Held(j) => jobs[j].attempts < MaxAttempts + faults

CapInv == AbsentFresh /\ HeldLatest /\ RoomForOne /\ AttemptsWithinCap

LEMMA CapInit == Init => CapInv
BY QueueAssumption DEF Init, NoRow, CapInv, AbsentFresh, HeldLatest, RoomForOne, AttemptsWithinCap,
                       Pending, Busy

LEMMA CapStep == OneWorkerPerJob /\ TypeOK /\ OwnerInv /\ CapInv /\ [Next]_vars => CapInv'
<1> SUFFICES ASSUME OneWorkerPerJob, TypeOK, OwnerInv, CapInv, [Next]_vars PROVE CapInv'
    OBVIOUS
<1>0. AbsentFresh'
    BY AbsentStep DEF CapInv
<1>1. /\ faults \in Nat /\ MaxAttempts \in Nat
      /\ \A j \in Jobs : jobs[j].attempts \in Nat
      /\ \A s \in Servers : pc[s] \in Busy => held[s].job \in Jobs
    BY QueueAssumption DEF TypeOK, Row, Claim
\* Steps that count no attempt and let go of no job.
<1>2. ASSUME \A j \in Jobs : jobs'[j].attempts = jobs[j].attempts,
             \A j \in Jobs : jobs'[j].state \in Pending =>
                jobs[j].state \in Pending \/ jobs[j].state = "absent",
             \A s \in Servers : pc[s] \in Busy <=> pc'[s] \in Busy,
             UNCHANGED <<held, faults>>
      PROVE  CapInv'
    <2>1. \A j \in Jobs : Held(j)' <=> Held(j)
        BY <1>2 DEF Held
    <2>2. HeldLatest' /\ AttemptsWithinCap'
        BY <1>1, <1>2 DEF CapInv, HeldLatest, AttemptsWithinCap
    <2>3. RoomForOne'
        BY <1>1, <1>2, <2>1 DEF CapInv, RoomForOne, AbsentFresh
    <2> QED
        BY <1>0, <2>2, <2>3 DEF CapInv
<1>3. ASSUME NEW s \in Servers, NEW j \in Jobs, Enqueue(s, j) PROVE CapInv'
    <2>1. \A k \in Jobs : jobs'[k].attempts = jobs[k].attempts
        BY <1>3, EnqueueEffect DEF CapInv, AbsentFresh
    <2> QED
        BY <1>2, <1>3, <2>1, EnqueueEffect
<1>4. ASSUME NEW s \in Servers, PassThrottle(s) \/ ClaimNothing(s) PROVE CapInv'
    <2>1. \A t \in Servers : pc[t] \in Busy <=> pc'[t] \in Busy
        BY <1>4, IdleEffect DEF OthersStay
    <2> QED
        BY <1>2, <1>4, <2>1, IdleEffect
<1>5. ASSUME NEW s \in Servers, ClaimDue(s) PROVE CapInv'
    <2>1. PICK j \in Jobs :
            /\ pc[s] = "checked" /\ jobs[j].state = "queued"
            /\ jobs'[j].attempts = jobs[j].attempts + 1
            /\ \A k \in Jobs \ {j} : jobs'[k] = jobs[k]
            /\ pc'[s] = "sending"
            /\ held'[s].job = j /\ held'[s].attempt = jobs[j].attempts + 1
            /\ OthersStay(s)
            /\ faults' = faults
        BY <1>5, ClaimEffect
    <2>2. ~ Held(j)
        BY <2>1, QueuedUnheld DEF Busy
    <2>3. HeldLatest'
        BY <1>1, <2>1, <2>2 DEF CapInv, HeldLatest, OthersStay, Held
    <2>4. AttemptsWithinCap'
        <3>1. MaxAttempts > 0 => jobs[j].attempts < MaxAttempts + faults
            BY <2>1, <2>2 DEF CapInv, RoomForOne, Pending
        <3> QED
            BY <1>1, <2>1, <3>1 DEF CapInv, AttemptsWithinCap
    <2>5. \A k \in Jobs : Held(k) => Held(k)'
        BY <2>1 DEF Held, OthersStay, Busy
    <2>6. Held(j)'
        BY <2>1 DEF Held, Busy
    <2>7. RoomForOne'
        BY <1>1, <2>1, <2>5, <2>6 DEF CapInv, RoomForOne
    <2> QED
        BY <1>0, <2>3, <2>4, <2>7 DEF CapInv
<1>6. ASSUME NEW s \in Servers, Deliver(s) PROVE CapInv'
    <2>1. \A t \in Servers : pc[t] \in Busy <=> pc'[t] \in Busy
        BY <1>6, DeliverEffect DEF OthersStay, Busy
    <2> QED
        BY <1>2, <1>6, <2>1, DeliverEffect
<1>7. ASSUME NEW s \in Servers, EndAttempt(s) PROVE CapInv'
    <2>1. /\ pc[s] \in Busy /\ pc'[s] \notin Busy /\ OthersStay(s)
          /\ held[s].job \in Jobs
          /\ \A k \in Jobs : jobs'[k].attempts = jobs[k].attempts
          /\ \A k \in Jobs \ {held[s].job} : jobs'[k] = jobs[k]
          /\ faults' \in {faults, faults + 1}
        BY <1>1, <1>7, EndEffect DEF Busy, Settled, PutBack, Lost
    <2>2. HeldLatest'
        BY <1>1, <2>1 DEF CapInv, HeldLatest, OthersStay
    <2>3. AttemptsWithinCap'
        BY <1>1, <2>1 DEF CapInv, AttemptsWithinCap
    <2>4. \A k \in Jobs \ {held[s].job} : Held(k) => Held(k)'
        BY <2>1 DEF Held, OthersStay
    <2>5. MaxAttempts > 0 /\ jobs'[held[s].job].state \in Pending =>
            jobs[held[s].job].attempts < MaxAttempts + faults'
        <3>1. CASE Settled(s)
            BY <3>1 DEF Settled, Terminal, Pending
        <3>2. CASE PutBack(s)
            <4>1. MaxAttempts > 0 => ~ (held[s].attempt >= MaxAttempts)
                BY <3>2 DEF PutBack, Final, GaveUp
            <4>2. held[s].attempt = jobs[held[s].job].attempts
                BY <2>1 DEF CapInv, HeldLatest
            <4> QED
                BY <1>1, <2>1, <3>2, <4>1, <4>2 DEF PutBack
        <3>3. CASE Lost(s)
            BY <1>1, <2>1, <3>3 DEF Lost, CapInv, AttemptsWithinCap
        <3> QED
            BY <1>7, <3>1, <3>2, <3>3, EndEffect
    <2>6. RoomForOne'
        BY <1>1, <2>1, <2>4, <2>5 DEF CapInv, RoomForOne
    <2> QED
        BY <1>0, <2>2, <2>3, <2>6 DEF CapInv
<1>8. ASSUME NEW s \in Servers, RequeueStale(s) PROVE CapInv'
    BY <1>2, <1>8, RequeueEffect DEF Pending
<1>9. ASSUME NEW s \in Servers, Process(s) PROVE CapInv'
    <2>1. CASE UNCHANGED <<pc, held, faults>>
        BY <1>2, <1>9, <2>1, ProcessEffect
    <2>2. CASE pc'[s] = "idle" /\ OthersStay(s) /\ faults' = faults + 1
        <3>1. jobs' = jobs
            BY <1>9, ProcessEffect
        <3>2. HeldLatest'
            BY <2>2, <3>1 DEF CapInv, HeldLatest, OthersStay, Busy
        <3>3. AttemptsWithinCap' /\ RoomForOne'
            BY <1>1, <2>2, <3>1 DEF CapInv, AttemptsWithinCap, RoomForOne
        <3> QED
            BY <1>0, <3>2, <3>3 DEF CapInv
    <2> QED
        BY <1>9, <2>1, <2>2, ProcessEffect
<1>10. CASE Tick
    BY <1>2, <1>10, TickEffect
<1>11. CASE UNCHANGED vars
    BY <1>2, <1>11 DEF vars
<1> QED
    BY <1>3, <1>4, <1>5, <1>6, <1>7, <1>8, <1>9, <1>10, <1>11, NextCases

\* No more attempts than the cap, plus one for each crash or lost write.
THEOREM AttemptsWithinCapHolds == OneWorkerPerJob /\ Spec => []AttemptsWithinCap
<1> SUFFICES ASSUME OneWorkerPerJob PROVE Spec => []AttemptsWithinCap
    OBVIOUS
<1>1. TypeOK /\ OwnerInv /\ CapInv /\ [Next]_vars => CapInv'
    BY CapStep
<1>2. CapInv => AttemptsWithinCap
    BY DEF CapInv
<1> QED
    BY <1>1, <1>2, CapInit, TypeCorrect, OwnerHolds, PTL DEF Spec
-----------------------------------------------------------------------------
(* The rate. The throttle is read when a worker starts on a job and the    *)
(* delivery counts when it ends, so the limit alone is not inductive: every *)
(* worker past the throttle can still add one delivery.                     *)

Recent == {j \in Jobs : jobs[j].since <= Minute}
PastThrottle == {s \in Servers : pc[s] \in {"checked"} \cup Busy}

RateInv ==
    MaxPerMinute > 0 =>
        Cardinality(Recent) + Cardinality(PastThrottle) <= MaxPerMinute + Cardinality(Servers) - 1

LEMMA RateTypes ==
    ASSUME IsFiniteSet(Servers)
    PROVE  /\ IsFiniteSet(Recent) /\ IsFiniteSet(PastThrottle)
           /\ Cardinality(Recent) \in Nat /\ Cardinality(Servers) \in Nat
           /\ Cardinality(PastThrottle) \in 0 .. Cardinality(Servers)
<1>1. Recent \subseteq Jobs /\ PastThrottle \subseteq Servers
    BY DEF Recent, PastThrottle
<1>2. IsFiniteSet(Recent) /\ IsFiniteSet(PastThrottle)
    BY <1>1, FS_Subset, QueueAssumption
<1>3. Cardinality(Recent) \in Nat /\ Cardinality(Servers) \in Nat /\ Cardinality(PastThrottle) \in Nat
    BY <1>2, FS_CardinalityType
<1>4. Cardinality(PastThrottle) <= Cardinality(Servers)
    BY <1>1, FS_Subset
<1> QED
    BY <1>2, <1>3, <1>4

LEMMA RateInit == IsFiniteSet(Servers) /\ Init => RateInv
<1> SUFFICES ASSUME IsFiniteSet(Servers), Init PROVE RateInv
    OBVIOUS
<1>1. Recent = {} /\ PastThrottle = {}
    BY QueueAssumption DEF Init, NoRow, Recent, PastThrottle, Busy
<1> QED
    BY <1>1, FS_EmptySet, RateTypes, QueueAssumption DEF RateInv

\* Steps that let nobody through and deliver nothing.
LEMMA RateFrame ==
    ASSUME IsFiniteSet(Servers), RateInv, Recent' \subseteq Recent,
           PastThrottle' \subseteq PastThrottle
    PROVE  RateInv'
<1>1. Cardinality(Recent') <= Cardinality(Recent) /\ Cardinality(Recent') \in Nat
    BY FS_Subset, FS_CardinalityType, RateTypes
<1>2. /\ Cardinality(PastThrottle') <= Cardinality(PastThrottle)
      /\ Cardinality(PastThrottle') \in Nat
    BY FS_Subset, FS_CardinalityType, RateTypes
<1> QED
    BY <1>1, <1>2, RateTypes, QueueAssumption DEF RateInv

\* A worker that ends its attempt leaves the throttle behind; only a
\* delivery makes one more row recent, its own.
LEMMA RateEnd ==
    ASSUME TypeOK, NEW s \in Servers, EndAttempt(s)
    PROVE  /\ s \in PastThrottle
           /\ PastThrottle' \subseteq PastThrottle \ {s}
           /\ Recent' \subseteq Recent \cup {held[s].job}
<1>1. s \in PastThrottle /\ PastThrottle' \subseteq PastThrottle \ {s}
    BY EndEffect DEF PastThrottle, OthersStay, Busy
<1> QED
    BY <1>1, EndEffect DEF Recent

LEMMA RateTick == TypeOK /\ Tick => Recent' \subseteq Recent
<1> SUFFICES ASSUME TypeOK, Tick, NEW j \in Jobs, jobs'[j].since <= Minute
             PROVE  jobs[j].since <= Minute
    BY DEF Recent
<1>1. jobs[j] \in Row /\ jobs'[j] = Elapse(j)
    BY DEF TypeOK, Tick
<1>2. jobs'[j].since = IF jobs[j].since <= Minute THEN jobs[j].since + 1 ELSE jobs[j].since
    BY <1>1 DEF Elapse, Row
<1> QED
    BY <1>2

LEMMA RateStep ==
    IsFiniteSet(Servers) /\ ~ StoreFails /\ TypeOK /\ RateInv /\ [Next]_vars => RateInv'
<1> SUFFICES ASSUME IsFiniteSet(Servers), ~ StoreFails, TypeOK, RateInv, [Next]_vars
             PROVE  RateInv'
    OBVIOUS
<1>1. ASSUME NEW s \in Servers, NEW j \in Jobs, Enqueue(s, j) PROVE RateInv'
    <2>1. jobs'[j].since = Minute + 1
        BY <1>1 DEF TypeOK, Enqueue, NoRow
    <2>2. Recent' \subseteq Recent
        BY <1>1, <2>1, EnqueueEffect, QueueAssumption DEF Recent
    <2>3. PastThrottle' = PastThrottle
        BY <1>1, EnqueueEffect DEF PastThrottle
    <2> QED
        BY <2>2, <2>3, RateFrame
<1>2. ASSUME NEW s \in Servers, PassThrottle(s) PROVE RateInv'
    <2>1. Recent' = Recent
        BY <1>2 DEF PassThrottle, Recent
    <2>2. MaxPerMinute > 0 => Cardinality(Recent) < MaxPerMinute
        BY <1>2 DEF PassThrottle, ThrottleOpen, Recent
    <2>3. PastThrottle' \subseteq Servers
        BY DEF PastThrottle
    <2>4. Cardinality(PastThrottle') <= Cardinality(Servers) /\ Cardinality(PastThrottle') \in Nat
        BY <2>3, FS_Subset, FS_CardinalityType
    <2> QED
        BY <2>1, <2>2, <2>4, RateTypes, QueueAssumption DEF RateInv
<1>3. ASSUME NEW s \in Servers, ClaimNothing(s) PROVE RateInv'
    BY <1>3, IdleEffect, RateFrame DEF Recent, PastThrottle, OthersStay, ClaimNothing, TypeOK, Busy
<1>4. ASSUME NEW s \in Servers, ClaimDue(s) PROVE RateInv'
    <2>1. Recent' \subseteq Recent
        BY <1>4 DEF TypeOK, Row, ClaimDue, Recent
    <2>2. PastThrottle' \subseteq PastThrottle
        BY <1>4, ClaimEffect DEF PastThrottle, OthersStay
    <2> QED
        BY <2>1, <2>2, RateFrame
<1>5. ASSUME NEW s \in Servers, Deliver(s) PROVE RateInv'
    <2>1. Recent' \subseteq Recent /\ PastThrottle' \subseteq PastThrottle
        BY <1>5, DeliverEffect DEF Recent, PastThrottle, OthersStay, Busy
    <2> QED
        BY <2>1, RateFrame
<1>6. ASSUME NEW s \in Servers, EndAttempt(s) PROVE RateInv'
    <2> DEFINE grown == Recent \cup {held[s].job}
    <2>1. Cardinality(PastThrottle') <= Cardinality(PastThrottle) - 1
        <3>1. Cardinality(PastThrottle \ {s}) = Cardinality(PastThrottle) - 1
            BY <1>6, RateEnd, RateTypes, FS_RemoveElement
        <3>2. IsFiniteSet(PastThrottle \ {s})
            BY RateTypes, FS_RemoveElement
        <3> QED
            BY <1>6, <3>1, <3>2, RateEnd, FS_Subset
    <2>2. Cardinality(Recent') <= Cardinality(Recent) + 1
        <3>1. IsFiniteSet(grown) /\ Cardinality(grown) \in {Cardinality(Recent), Cardinality(Recent) + 1}
            <4> HIDE DEF grown
            <4>1. IsFiniteSet(Recent)
                BY RateTypes
            <4> QED
                BY <4>1, FS_AddElement DEF grown
        <3> QED
            BY <1>6, <3>1, RateEnd, FS_Subset, FS_CardinalityType, RateTypes
    <2>3. Cardinality(PastThrottle') \in Nat /\ Cardinality(Recent') \in Nat
        <3>1. PastThrottle' \subseteq Servers /\ Recent' \subseteq Jobs
            BY DEF PastThrottle, Recent
        <3> QED
            BY <3>1, FS_Subset, FS_CardinalityType, QueueAssumption
    <2> QED
        BY <2>1, <2>2, <2>3, RateTypes, QueueAssumption DEF RateInv
<1>7. ASSUME NEW s \in Servers, RequeueStale(s) PROVE RateInv'
    <2>1. Recent' \subseteq Recent
        BY <1>7 DEF TypeOK, Row, RequeueStale, Recent
    <2> QED
        BY <1>7, <2>1, RequeueEffect, RateFrame DEF PastThrottle
<1>8. ASSUME NEW s \in Servers, Process(s) PROVE RateInv'
    <2>1. Recent' \subseteq Recent /\ PastThrottle' \subseteq PastThrottle
        BY <1>8, ProcessEffect DEF Recent, PastThrottle, OthersStay, Busy
    <2> QED
        BY <2>1, RateFrame
<1>9. CASE Tick
    BY <1>9, TickEffect, RateTick, RateFrame DEF PastThrottle
<1>10. CASE UNCHANGED vars
    BY <1>10, RateFrame DEF vars, Recent, PastThrottle
<1> QED
    BY <1>1, <1>2, <1>3, <1>4, <1>5, <1>6, <1>7, <1>8, <1>9, <1>10, NextCases

-----------------------------------------------------------------------------
(* From deliveries counted to mails taken: the throttle counts rows, the    *)
(* limit is about mails. Every mail the relay took in the last minute and   *)
(* the queue knows of stands for a recent row or for a worker past the      *)
(* throttle, and no two mails stand for the same one.                       *)

OutboundTaken == \A m \in outbound : m.attempt \in accepted[m.job]

OutboundApart ==
    \A m, n \in outbound : m.job = n.job /\ m.attempt = n.attempt => m = n

RecordedRecent == \A m \in outbound : Recorded(m) => jobs[m.job].since <= m.age

OutboundInv ==
    IsFiniteSet(outbound) /\ OutboundTaken /\ OutboundApart /\ RecordedRecent

LEMMA OutboundInit == Init => OutboundInv
BY FS_EmptySet DEF Init, OutboundInv, OutboundTaken, OutboundApart, RecordedRecent

\* Steps that send no mail: a row that counts as recorded afterwards did before
\* and keeps its instant, or was recorded just now.
LEMMA OutboundFrame ==
    ASSUME TypeOK, OutboundInv, UNCHANGED <<accepted, outbound>>,
           \A j \in Jobs : jobs'[j].state = "delivered" =>
                \/ jobs'[j].since = 0
                \/ jobs'[j] = jobs[j]
    PROVE  OutboundInv'
<1>1. \A m \in outbound : m.job \in Jobs /\ m.age \in Nat
    BY QueueAssumption DEF TypeOK, Mail
<1>2. RecordedRecent'
    BY <1>1 DEF OutboundInv, RecordedRecent, Recorded
<1> QED
    BY <1>2 DEF OutboundInv, OutboundTaken, OutboundApart

\* The one write that makes a row delivered also sets its instant.
LEMMA DeliveredNow ==
    ASSUME TypeOK, NEW s \in Servers, EndAttempt(s), NEW j \in Jobs,
           jobs'[j].state = "delivered"
    PROVE  jobs'[j].since = 0 \/ jobs'[j] = jobs[j]
<1>1. j # held[s].job => jobs'[j] = jobs[j]
    BY EndEffect
<1>2. jobs[j] \in Row
    BY DEF TypeOK
<1>3. CASE j = held[s].job
    <2>1. CASE FinishDelivered(s)
        BY <1>2, <1>3, <2>1 DEF TypeOK, FinishDelivered, Row
    <2>2. CASE FinishFailed(s)
        <3>1. jobs'[j].state = "failed"
            BY <1>2, <1>3, <2>2 DEF TypeOK, FinishFailed, Row
        <3> QED
            BY <3>1
    <2>4. CASE RetryLater(s)
        <3>1. jobs'[j].state = "queued"
            BY <1>2, <1>3, <2>4 DEF TypeOK, RetryLater, Row
        <3> QED
            BY <3>1
    <2>3. CASE LoseOutcome(s)
        BY <2>3 DEF LoseOutcome
    <2> QED
        BY <2>1, <2>2, <2>3, <2>4 DEF EndAttempt
<1> QED
    BY <1>1, <1>3

\* A mail that goes out is the first of its attempt, and its report is still
\* pending when the relay takes it.
LEMMA OutboundDeliver ==
    ASSUME TypeOK, AttemptInv, OwnerInv, OutboundInv, NEW s \in Servers, Deliver(s)
    PROVE  OutboundInv'
<1>1. /\ pc[s] = "sending" /\ held[s].job \in Jobs /\ held[s].attempt \in Nat
      /\ jobs' = jobs
    BY DeliverEffect DEF Claim
<1>2. CASE UNCHANGED <<accepted, outbound>>
    BY <1>1, <1>2, OutboundFrame
<1>3. CASE RelayTakes(s)
    <2> DEFINE mail == [job |-> held[s].job, attempt |-> held[s].attempt, age |-> 0]
    <2>1. outbound' = outbound \cup {mail}
        BY <1>3 DEF RelayTakes
    <2>2. \A m \in outbound : m.job \in Jobs
        BY DEF TypeOK, Mail
    <2>3. \A m \in outbound : m.job # mail.job \/ m.attempt # mail.attempt
        BY <1>1 DEF OutboundInv, OutboundTaken, AttemptInv, HeldUnsent
    <2>4. jobs[mail.job].state # "delivered"
        BY <1>1 DEF OwnerInv, HeldPending, Pending, Busy
    <2>5. IsFiniteSet(outbound')
        BY <2>1, FS_AddElement DEF OutboundInv
    <2>6. OutboundTaken'
        <3>1. \A j \in Jobs : accepted[j] \subseteq accepted'[j]
            BY <1>1, <1>3 DEF RelayTakes, TypeOK
        <3>2. mail.attempt \in accepted'[mail.job]
            BY <1>1, <1>3 DEF RelayTakes, TypeOK
        <3> QED
            BY <2>1, <2>2, <3>1, <3>2 DEF OutboundInv, OutboundTaken
    <2>7. OutboundApart'
        BY <2>1, <2>3 DEF OutboundInv, OutboundApart
    <2>8. RecordedRecent'
        BY <1>1, <2>1, <2>4 DEF OutboundInv, RecordedRecent, Recorded
    <2> QED
        BY <2>5, <2>6, <2>7, <2>8 DEF OutboundInv
<1> QED
    BY <1>2, <1>3, DeliverEffect

\* The mails and the rows age together.
LEMMA OutboundTick == TypeOK /\ OutboundInv /\ Tick => OutboundInv'
<1> SUFFICES ASSUME TypeOK, OutboundInv, Tick PROVE OutboundInv'
    OBVIOUS
<1> DEFINE kept == {m \in outbound : m.age < Minute}
           older == [m \in kept |-> [m EXCEPT !.age = @ + 1]]
<1>1. outbound' = {older[m] : m \in kept} /\ accepted' = accepted
    BY DEF Tick
<1>2. \A m \in outbound : m.job \in Jobs /\ m.age \in Nat /\ m \in Mail
    BY QueueAssumption DEF TypeOK, Mail
<1>3. \A m \in kept : /\ older[m].job = m.job
                      /\ older[m].attempt = m.attempt
                      /\ older[m].age = m.age + 1
    BY <1>2 DEF Mail
<1>4. \A n \in outbound' : \E m \in outbound : m \in kept /\ n = older[m]
    BY <1>1
<1>5. IsFiniteSet(outbound')
    <2>1. IsFiniteSet(kept)
        BY FS_Subset DEF OutboundInv
    <2>2. older \in Surjection(kept, outbound')
        BY <1>1 DEF Surjection
    <2> QED
        BY <2>1, <2>2, FS_Surjection
<1> HIDE DEF kept, older
<1>6. OutboundTaken'
    BY <1>1, <1>3, <1>4 DEF OutboundInv, OutboundTaken
<1>7. OutboundApart'
    BY <1>3, <1>4 DEF OutboundInv, OutboundApart
<1>8. RecordedRecent'
    <2> SUFFICES ASSUME NEW n \in outbound', Recorded(n)'
                 PROVE  jobs'[n.job].since <= n.age
        BY DEF RecordedRecent
    <2>0. PICK m \in outbound :
            m \in kept /\ n.job = m.job /\ n.attempt = m.attempt /\ n.age = m.age + 1
        BY <1>3, <1>4
    <2> DEFINE row == jobs[m.job]
    <2>1. row \in Row /\ jobs'[m.job] = Elapse(m.job)
        BY <1>2 DEF TypeOK, Tick
    <2>2. jobs'[m.job].since \in {row.since, row.since + 1} /\ row.since \in Nat
        BY <2>1 DEF Elapse, Row
    <2>3. Recorded(m)
        BY <1>2, <2>0, TickEffect DEF Recorded
    <2>4. row.since <= m.age
        BY <2>3 DEF OutboundInv, RecordedRecent
    <2> QED
        BY <1>2, <2>0, <2>2, <2>4
<1> QED
    BY <1>5, <1>6, <1>7, <1>8 DEF OutboundInv

LEMMA OutboundStep ==
    TypeOK /\ AttemptInv /\ OwnerInv /\ OutboundInv /\ [Next]_vars => OutboundInv'
<1> SUFFICES ASSUME TypeOK, AttemptInv, OwnerInv, OutboundInv, [Next]_vars PROVE OutboundInv'
    OBVIOUS
<1>1. ASSUME NEW s \in Servers, NEW j \in Jobs, Enqueue(s, j) PROVE OutboundInv'
    BY <1>1, EnqueueEffect, OutboundFrame
<1>2. ASSUME NEW s \in Servers, PassThrottle(s) \/ ClaimNothing(s) PROVE OutboundInv'
    BY <1>2, IdleEffect, OutboundFrame
<1>3. ASSUME NEW s \in Servers, ClaimDue(s) PROVE OutboundInv'
    BY <1>3, ClaimEffect, OutboundFrame
<1>4. ASSUME NEW s \in Servers, Deliver(s) PROVE OutboundInv'
    BY <1>4, OutboundDeliver
<1>5. ASSUME NEW s \in Servers, EndAttempt(s) PROVE OutboundInv'
    BY <1>5, EndEffect, DeliveredNow, OutboundFrame
<1>6. ASSUME NEW s \in Servers, RequeueStale(s) PROVE OutboundInv'
    BY <1>6, RequeueEffect, OutboundFrame
<1>7. ASSUME NEW s \in Servers, Process(s) PROVE OutboundInv'
    BY <1>7, ProcessEffect, OutboundFrame
<1>8. CASE Tick
    BY <1>8, OutboundTick
<1>9. CASE UNCHANGED vars
    BY <1>9, OutboundFrame DEF vars
<1> QED
    BY <1>1, <1>2, <1>3, <1>4, <1>5, <1>6, <1>7, <1>8, <1>9, NextCases

\* What is left of the limit when several servers share the directory: each
\* one after the first can go over it by a single mail.
OutboundWithinOverrun ==
    MaxPerMinute > 0 =>
        Cardinality(outbound) <= MaxPerMinute + Cardinality(Servers) - 1 + Cardinality(Unnoticed)

\* Mails on record are no more than recent rows.
LEMMA RecordedBound ==
    ASSUME TypeOK, OutboundInv
    PROVE  LET known == {m \in outbound : Recorded(m)}
           IN  IsFiniteSet(known) /\ Cardinality(known) <= Cardinality(Recent)
<1> DEFINE known == {m \in outbound : Recorded(m)}
           row == [m \in known |-> m.job]
<1>1. IsFiniteSet(Recent)
    BY FS_Subset, QueueAssumption DEF Recent
<1>2. \A m \in known : m.job \in Recent
    <2>1. \A m \in outbound : m.job \in Jobs /\ m.age \in 0 .. Minute
        BY DEF TypeOK, Mail
    <2>2. \A j \in Jobs : jobs[j].since \in Nat
        BY DEF TypeOK, Row
    <2> QED
        BY <2>1, <2>2, QueueAssumption DEF OutboundInv, RecordedRecent, Recent
<1>3. \A m, n \in known : row[m] = row[n] => m = n
    BY DEF OutboundInv, OutboundApart, Recorded
<1>4. row \in Injection(known, Recent)
    BY <1>2, <1>3 DEF Injection, IsInjective
<1> QED
    BY <1>1, <1>4, FS_Injection

\* Mails about to be recorded are no more than workers past the throttle.
LEMMA InHandBound ==
    ASSUME IsFiniteSet(Servers), TypeOK, OutboundInv
    PROVE  LET known == {m \in outbound : InHand(m)}
           IN  IsFiniteSet(known) /\ Cardinality(known) <= Cardinality(PastThrottle)
<1> DEFINE known == {m \in outbound : InHand(m)}
           Holds(s, m) == pc[s] = "sent" /\ held[s] = [job |-> m.job, attempt |-> m.attempt]
           holder == [m \in known |-> CHOOSE s \in Servers : Holds(s, m)]
<1>1. \A m \in known : holder[m] \in Servers /\ Holds(holder[m], m)
    BY DEF InHand
<1>2. \A m \in known : holder[m] \in PastThrottle
    BY <1>1 DEF PastThrottle, Busy
<1>3. \A m, n \in known : holder[m] = holder[n] => m.job = n.job /\ m.attempt = n.attempt
    <2>1. \A m \in known : held[holder[m]].job = m.job /\ held[holder[m]].attempt = m.attempt
        BY <1>1
    <2> HIDE DEF known, holder
    <2> QED
        BY <2>1
<1>4. \A m, n \in known : holder[m] = holder[n] => m = n
    BY <1>3 DEF OutboundInv, OutboundApart
<1>5. holder \in Injection(known, PastThrottle)
    BY <1>2, <1>4 DEF Injection, IsInjective
<1> QED
    BY <1>5, FS_Injection, RateTypes

LEMMA OverrunBound ==
    IsFiniteSet(Servers) /\ TypeOK /\ RateInv /\ OutboundInv => OutboundWithinOverrun
<1> SUFFICES ASSUME IsFiniteSet(Servers), TypeOK, RateInv, OutboundInv, MaxPerMinute > 0
             PROVE  Cardinality(outbound)
                        <= MaxPerMinute + Cardinality(Servers) - 1 + Cardinality(Unnoticed)
    BY DEF OutboundWithinOverrun
<1> DEFINE recorded == {m \in outbound : Recorded(m)}
           inhand == {m \in outbound : InHand(m)}
           known == recorded \cup inhand
<1>1. /\ IsFiniteSet(recorded) /\ Cardinality(recorded) <= Cardinality(Recent)
      /\ IsFiniteSet(inhand) /\ Cardinality(inhand) <= Cardinality(PastThrottle)
    BY RecordedBound, InHandBound
<1>2. outbound = known \cup Unnoticed
    BY DEF Unnoticed
<1>3. IsFiniteSet(Unnoticed)
    BY FS_Subset DEF Unnoticed, OutboundInv
<1> HIDE DEF recorded, inhand
<1>4. /\ IsFiniteSet(known)
      /\ Cardinality(known) = Cardinality(recorded) + Cardinality(inhand) - Cardinality(recorded \cap inhand)
      /\ Cardinality(recorded \cap inhand) \in Nat
    BY <1>1, FS_Union, FS_Intersection, FS_CardinalityType
<1> HIDE DEF known
<1>5. /\ Cardinality(outbound) = Cardinality(known) + Cardinality(Unnoticed) - Cardinality(known \cap Unnoticed)
      /\ Cardinality(known \cap Unnoticed) \in Nat
    BY <1>2, <1>3, <1>4, FS_Union, FS_Intersection, FS_CardinalityType
<1>6. /\ Cardinality(recorded) \in Nat /\ Cardinality(inhand) \in Nat
      /\ Cardinality(Unnoticed) \in Nat /\ Cardinality(known) \in Nat
    BY <1>1, <1>3, <1>4, FS_CardinalityType
<1>7. Cardinality(Recent) + Cardinality(PastThrottle) <= MaxPerMinute + Cardinality(Servers) - 1
    BY DEF RateInv
<1> QED
    BY <1>1, <1>4, <1>5, <1>6, <1>7, RateTypes, QueueAssumption

\* N servers on one data directory go over the limit of a minute by at most
\* N - 1 mails, and by those the queue never learned the relay had taken: as
\* long as the throttle's query does not raise and no two workers can be at
\* one report.
THEOREM OutboundOverrun ==
    IsFiniteSet(Servers) /\ ~ StoreFails /\ OneWorkerPerJob /\ Spec => []OutboundWithinOverrun
<1> SUFFICES ASSUME IsFiniteSet(Servers), ~ StoreFails, OneWorkerPerJob
             PROVE  Spec => []OutboundWithinOverrun
    OBVIOUS
<1>1. Init => TypeOK /\ AttemptInv /\ OwnerInv /\ RateInv /\ OutboundInv
    BY InitType, AttemptInit, OwnerInit, RateInit, OutboundInit
<1>2. TypeOK /\ AttemptInv /\ OwnerInv /\ RateInv /\ OutboundInv /\ [Next]_vars
        => (TypeOK /\ AttemptInv /\ OwnerInv /\ RateInv /\ OutboundInv)'
    BY StepType, AttemptStep, OwnerStep, RateStep, OutboundStep
<1>3. TypeOK /\ RateInv /\ OutboundInv => OutboundWithinOverrun
    BY OverrunBound
<1> QED
    BY <1>1, <1>2, <1>3, PTL DEF Spec

\* For one server the mails of any minute stay within the limit, but for those
\* a crash or a late exception kept from being recorded.
THEOREM RateLimitHolds ==
    (\A s, t \in Servers : s = t) /\ ~ StoreFails /\ Spec => []RateLimit
<1> SUFFICES ASSUME \A s, t \in Servers : s = t, ~ StoreFails PROVE Spec => []RateLimit
    OBVIOUS
<1>1. IsFiniteSet(Servers) /\ Cardinality(Servers) \in {0, 1}
    <2>1. CASE Servers = {}
        BY <2>1, FS_EmptySet
    <2>2. CASE \E s \in Servers : Servers = {s}
        BY <2>2, FS_Singleton
    <2> QED
        BY <2>1, <2>2
<1>2. Spec => [](IsFiniteSet(outbound) /\ OutboundWithinOverrun)
    <2>1. Spec => []OutboundWithinOverrun
        BY <1>1, OutboundOverrun DEF OneWorkerPerJob
    <2>2. Init => IsFiniteSet(outbound)
        BY OutboundInit DEF OutboundInv
    <2>3. Spec => []IsFiniteSet(outbound)
        <3>1. Init => TypeOK /\ AttemptInv /\ OwnerInv /\ OutboundInv
            BY InitType, AttemptInit, OwnerInit, OutboundInit
        <3>2. TypeOK /\ AttemptInv /\ OwnerInv /\ OutboundInv /\ [Next]_vars
                => (TypeOK /\ AttemptInv /\ OwnerInv /\ OutboundInv)'
            BY StepType, AttemptStep, OwnerStep, OutboundStep DEF OneWorkerPerJob
        <3>3. OutboundInv => IsFiniteSet(outbound)
            BY DEF OutboundInv
        <3> QED
            BY <3>1, <3>2, <3>3, PTL DEF Spec
    <2> QED
        BY <2>1, <2>3, PTL
<1>3. IsFiniteSet(outbound) /\ OutboundWithinOverrun => RateLimit
    <2> SUFFICES ASSUME IsFiniteSet(outbound), OutboundWithinOverrun, MaxPerMinute > 0
                 PROVE  Cardinality(outbound) <= MaxPerMinute + Cardinality(Unnoticed)
        BY DEF RateLimit
    <2>1. Cardinality(Unnoticed) \in Nat /\ Cardinality(outbound) \in Nat
        BY FS_Subset, FS_CardinalityType DEF Unnoticed
    <2> QED
        BY <1>1, <2>1, QueueAssumption DEF OutboundWithinOverrun
<1> QED
    BY <1>2, <1>3, PTL
-----------------------------------------------------------------------------
(* The order of the first attempts. claim_due goes by next_try_at, which   *)
(* for a report never tried is the instant it was submitted.               *)

UntriedOnTime ==
    \A j \in Jobs : jobs[j].attempts = 0 =>
        /\ jobs[j].state \in {"absent", "queued"}
        /\ jobs[j].state = "absent" => jobs[j].due = 0 /\ jobs[j].age = 0
        /\ jobs[j].age <= RetryWindow + 1
        /\ jobs[j].due <= - jobs[j].age
        /\ jobs[j].age <= RetryWindow => jobs[j].due = - jobs[j].age

OrderInv == AttemptInv /\ UntriedOnTime

LEMMA UntriedInit == Init => UntriedOnTime
BY QueueAssumption DEF Init, NoRow, UntriedOnTime

\* Time alone keeps the order; LateCap, a bound of the model, must not hide it.
LEMMA UntriedTick ==
    ASSUME LateCap > RetryWindow, TypeOK, OrderInv, Tick
    PROVE  UntriedOnTime'
<1> SUFFICES ASSUME NEW j \in Jobs, jobs'[j].attempts = 0
             PROVE  /\ jobs'[j].state \in {"absent", "queued"}
                    /\ jobs'[j].state = "absent" => jobs'[j].due = 0 /\ jobs'[j].age = 0
                    /\ jobs'[j].age <= RetryWindow + 1
                    /\ jobs'[j].due <= - jobs'[j].age
                    /\ jobs'[j].age <= RetryWindow => jobs'[j].due = - jobs'[j].age
    BY DEF UntriedOnTime
<1>1. jobs[j] \in Row /\ jobs'[j] = Elapse(j)
    BY DEF TypeOK, Tick
<1>2. /\ jobs[j].due \in Int /\ jobs[j].age \in Nat /\ jobs[j].state # "active"
      /\ RetryWindow \in Nat /\ LateCap \in Nat
    BY <1>1, TickEffect, QueueAssumption DEF Row, OrderInv, UntriedOnTime
<1>3. jobs[j].attempts = 0 /\ jobs'[j].state = jobs[j].state
    BY TickEffect
<1>4. ~ Held(j)
    BY <1>1, <1>3 DEF OrderInv, AttemptInv, HeldCounted, Held, Row, TypeOK, Claim
<1>5. /\ jobs'[j].due = IF jobs[j].state = "queued" /\ jobs[j].due > - LateCap
                        THEN jobs[j].due - 1 ELSE jobs[j].due
      /\ jobs'[j].age = IF jobs[j].state = "queued" /\ jobs[j].age <= RetryWindow
                        THEN jobs[j].age + 1 ELSE jobs[j].age
    BY <1>1, <1>2, <1>4 DEF Elapse, Row, Pending
<1>6. /\ jobs[j].state \in {"absent", "queued"}
      /\ jobs[j].state = "absent" => jobs[j].due = 0 /\ jobs[j].age = 0
      /\ jobs[j].age <= RetryWindow + 1
      /\ jobs[j].due <= - jobs[j].age
      /\ jobs[j].age <= RetryWindow => jobs[j].due = - jobs[j].age
    BY <1>3 DEF OrderInv, UntriedOnTime
<1> QED
    BY <1>2, <1>3, <1>5, <1>6

LEMMA UntriedStep ==
    LateCap > RetryWindow /\ TypeOK /\ OrderInv /\ [Next]_vars => UntriedOnTime'
<1> SUFFICES ASSUME LateCap > RetryWindow, TypeOK, OrderInv, [Next]_vars
             PROVE  UntriedOnTime'
    OBVIOUS
\* Rows that stay as they are, or have been tried.
<1>0. ASSUME \A j \in Jobs : jobs'[j] = jobs[j] \/ jobs'[j].attempts # 0 PROVE UntriedOnTime'
    BY <1>0 DEF OrderInv, UntriedOnTime
<1>1. ASSUME NEW s \in Servers, NEW j \in Jobs, Enqueue(s, j) PROVE UntriedOnTime'
    <2>1. jobs'[j].state = "queued" /\ jobs'[j].due = 0 /\ jobs'[j].age = 0
        BY <1>1 DEF TypeOK, Enqueue, NoRow
    <2> QED
        BY <1>1, <2>1, EnqueueEffect, QueueAssumption DEF OrderInv, UntriedOnTime
<1>2. ASSUME NEW s \in Servers, PassThrottle(s) \/ ClaimNothing(s) PROVE UntriedOnTime'
    BY <1>0, <1>2, IdleEffect
<1>3. ASSUME NEW s \in Servers, ClaimDue(s) PROVE UntriedOnTime'
    BY <1>0, <1>3, ClaimEffect DEF TypeOK, Row
<1>4. ASSUME NEW s \in Servers, Deliver(s) PROVE UntriedOnTime'
    BY <1>0, <1>4, DeliverEffect
<1>5. ASSUME NEW s \in Servers, EndAttempt(s) PROVE UntriedOnTime'
    <2>1. jobs[held[s].job].attempts # 0
        BY <1>5, EndEffect DEF OrderInv, AttemptInv, HeldCounted, Busy, TypeOK, Row, Claim
    <2> QED
        BY <1>0, <1>5, <2>1, EndEffect DEF Claim
<1>6. ASSUME NEW s \in Servers, RequeueStale(s) PROVE UntriedOnTime'
    BY <1>0, <1>6, RequeueEffect DEF OrderInv, UntriedOnTime
<1>7. ASSUME NEW s \in Servers, Process(s) PROVE UntriedOnTime'
    BY <1>0, <1>7, ProcessEffect
<1>8. CASE Tick
    BY <1>8, UntriedTick
<1>9. CASE UNCHANGED vars
    BY <1>0, <1>9 DEF vars
<1> QED
    BY <1>1, <1>2, <1>3, <1>4, <1>5, <1>6, <1>7, <1>8, <1>9, NextCases

\* Of two reports that wait for their first attempt, the younger is not the
\* first due, so no step counts an attempt of it.
LEMMA OlderFirst ==
    ASSUME TypeOK, OrderInv, [Next]_vars, NEW j \in Jobs, NEW k \in Jobs,
           Due(j), jobs[j].attempts = 0, Due(k), jobs[k].attempts = 0,
           jobs[j].age > jobs[k].age
    PROVE  jobs'[k].attempts = 0
<1>1. /\ jobs[j].due \in Int /\ jobs[k].due \in Int
      /\ jobs[j].age \in Nat /\ jobs[k].age \in Nat /\ RetryWindow \in Nat
    BY QueueAssumption DEF TypeOK, Row
<1>2. jobs[j].age <= RetryWindow + 1 /\ jobs[j].due <= - jobs[j].age
    BY DEF OrderInv, UntriedOnTime
<1>3. jobs[k].due = - jobs[k].age
    BY <1>1, <1>2 DEF OrderInv, UntriedOnTime
<1>4. ~ FirstDue(k)
    BY <1>1, <1>2, <1>3 DEF FirstDue
<1>5. ASSUME NEW s \in Servers, ClaimDue(s) PROVE jobs'[k].attempts = 0
    BY <1>4, <1>5 DEF ClaimDue, TypeOK
<1>6. ASSUME NEW s \in Servers, NEW i \in Jobs, Enqueue(s, i) PROVE jobs'[k].attempts = 0
    BY <1>6, EnqueueEffect
<1>7. ASSUME NEW s \in Servers, PassThrottle(s) \/ ClaimNothing(s) PROVE jobs'[k].attempts = 0
    BY <1>7, IdleEffect
<1>8. ASSUME NEW s \in Servers, Deliver(s) PROVE jobs'[k].attempts = 0
    BY <1>8, DeliverEffect
<1>9. ASSUME NEW s \in Servers, EndAttempt(s) PROVE jobs'[k].attempts = 0
    BY <1>9, EndEffect
<1>10. ASSUME NEW s \in Servers, RequeueStale(s) PROVE jobs'[k].attempts = 0
    BY <1>10, RequeueEffect
<1>11. ASSUME NEW s \in Servers, Process(s) PROVE jobs'[k].attempts = 0
    BY <1>11, ProcessEffect
<1>12. CASE Tick
    BY <1>12, TickEffect
<1>13. CASE UNCHANGED vars
    BY <1>13 DEF vars
<1> QED
    BY <1>5, <1>6, <1>7, <1>8, <1>9, <1>10, <1>11, <1>12, <1>13, NextCases

\* First attempts are made in the order of submission, for any number of
\* servers, whatever crashes, sweeps and retries come between.
THEOREM FirstComeFirstTriedHolds == LateCap > RetryWindow /\ Spec => FirstComeFirstTried
<1> SUFFICES ASSUME LateCap > RetryWindow PROVE Spec => FirstComeFirstTried
    OBVIOUS
<1>1. Init => OrderInv
    BY AttemptInit, UntriedInit DEF OrderInv
<1>2. TypeOK /\ TypeOK' /\ OrderInv /\ [Next]_vars => OrderInv'
    BY AttemptStep, UntriedStep DEF OrderInv
<1>3. TypeOK /\ OrderInv /\ [Next]_vars =>
        [\A j, k \in Jobs :
            /\ Due(j) /\ jobs[j].attempts = 0
            /\ Due(k) /\ jobs[k].attempts = 0
            /\ jobs[j].age > jobs[k].age
            => jobs'[k].attempts = 0]_vars
    BY OlderFirst
<1> QED
    BY <1>1, <1>2, <1>3, TypeCorrect, PTL DEF Spec, FirstComeFirstTried
=============================================================================
