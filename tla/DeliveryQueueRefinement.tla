---------------------- MODULE DeliveryQueueRefinement ----------------------
(***************************************************************************)
(* The queue implements ReportService: what a caller learns from           *)
(* report_status, and what the relay is sent, is what the service promises. *)
(***************************************************************************)
EXTENDS DeliveryQueueSafety

Status == [j \in Jobs |-> IF jobs[j].state \in Pending THEN "pending" ELSE jobs[j].state]
Mails == [j \in Jobs |-> Cardinality(accepted[j])]

\* A worker about to record a delivery has had its mail taken.
SentTaken == \A s \in Servers : pc[s] = "sent" => accepted[held[s].job] # {}

LEMMA SentInit == Init => SentTaken
BY DEF Init, SentTaken

LEMMA SentStep == TypeOK /\ SentTaken /\ [Next]_vars => SentTaken'
<1> SUFFICES ASSUME TypeOK, SentTaken, [Next]_vars, NEW t \in Servers, pc'[t] = "sent"
             PROVE  accepted'[held'[t].job] # {}
    BY DEF SentTaken
<1>1. ASSUME NEW s \in Servers, NEW j \in Jobs, Enqueue(s, j) PROVE accepted'[held'[t].job] # {}
    BY <1>1, EnqueueEffect DEF SentTaken
<1>2. ASSUME NEW s \in Servers, PassThrottle(s) \/ ClaimNothing(s)
      PROVE  accepted'[held'[t].job] # {}
    BY <1>2, IdleEffect DEF SentTaken, OthersStay, Busy
<1>3. ASSUME NEW s \in Servers, ClaimDue(s) PROVE accepted'[held'[t].job] # {}
    BY <1>3, ClaimEffect DEF SentTaken, OthersStay
<1>4. ASSUME NEW s \in Servers, Deliver(s) PROVE accepted'[held'[t].job] # {}
    <2>1. held[s] \in Claim /\ held[s].job \in Jobs
        BY <1>4, DeliverEffect DEF Claim
    <2>2. CASE t = s
        <3>1. accepted' = [accepted EXCEPT ![held[s].job] = @ \cup {held[s].attempt}]
            BY <1>4, <2>2, DeliverEffect DEF RelayTakes
        <3>2. held[s].attempt \in accepted'[held[s].job]
            BY <2>1, <3>1 DEF TypeOK
        <3>3. held' = held
            BY <1>4, DeliverEffect
        <3> QED
            BY <2>2, <3>2, <3>3
    <2>3. CASE t # s
        <3>1. pc[t] = "sent" /\ held'[t] = held[t] /\ accepted[held[t].job] # {}
            BY <1>4, <2>3, DeliverEffect DEF OthersStay, SentTaken
        <3>2. held[t].job \in Jobs
            BY <3>1 DEF TypeOK, Claim, Busy
        <3> QED
            BY <1>4, <2>1, <3>1, <3>2, DeliverEffect DEF TypeOK, RelayTakes
    <2> QED
        BY <2>2, <2>3
<1>5. ASSUME NEW s \in Servers, EndAttempt(s) PROVE accepted'[held'[t].job] # {}
    BY <1>5, EndEffect DEF SentTaken, OthersStay
<1>6. ASSUME NEW s \in Servers, RequeueStale(s) PROVE accepted'[held'[t].job] # {}
    BY <1>6, RequeueEffect DEF SentTaken
<1>7. ASSUME NEW s \in Servers, Process(s) PROVE accepted'[held'[t].job] # {}
    BY <1>7, ProcessEffect DEF SentTaken, OthersStay
<1>8. CASE Tick
    BY <1>8, TickEffect DEF SentTaken
<1>9. CASE UNCHANGED vars
    BY <1>9 DEF SentTaken, vars
<1> QED
    BY <1>1, <1>2, <1>3, <1>4, <1>5, <1>6, <1>7, <1>8, <1>9, NextCases

LEMMA ServiceInit == Init => Service!Init
<1> SUFFICES ASSUME Init PROVE Service!Init
    OBVIOUS
<1>1. Cardinality({}) = 0
    BY FS_EmptySet
<1> QED
    BY <1>1 DEF Init, NoRow, Service!Init, Pending

\* What a step must leave alone for the service not to move.
LEMMA ServiceStutter ==
    ASSUME UNCHANGED accepted,
           \A j \in Jobs : \/ jobs'[j].state = jobs[j].state
                           \/ {jobs[j].state, jobs'[j].state} \subseteq Pending
    PROVE  UNCHANGED Service!vars
<1>1. Status' = Status
    BY DEF Status
<1>2. Mails' = Mails
    BY DEF Mails
<1> QED
    BY <1>1, <1>2 DEF Service!vars, Status, Mails

\* A mail that goes out raises the count of its report by one.
LEMMA MailCounted ==
    ASSUME TypeOK, AttemptInv, NEW j \in Jobs, NEW n \in Nat, n \notin accepted[j],
           accepted' = [accepted EXCEPT ![j] = @ \cup {n}]
    PROVE  Mails' = [Mails EXCEPT ![j] = @ + 1]
<1>1. IsFiniteSet(accepted[j])
    <2>1. IsFiniteSet(1 .. jobs[j].attempts)
        BY FS_Interval DEF TypeOK, Row
    <2> QED
        BY <2>1, FS_Subset DEF AttemptInv, AcceptedCounted
<1>2. Cardinality(accepted[j] \cup {n}) = Cardinality(accepted[j]) + 1
    BY <1>1, FS_AddElement
<1> QED
    BY <1>2 DEF Mails, TypeOK

LEMMA ServiceStep ==
    ASSUME TypeOK, AttemptInv, OwnerInv, SentTaken, [Next]_vars
    PROVE  [Service!Next]_(Service!vars)
<1>1. ASSUME NEW s \in Servers, NEW j \in Jobs, Enqueue(s, j) PROVE Service!Submit(j)
    <2>1. Status[j] = "absent" /\ Status' = [Status EXCEPT ![j] = "pending"]
        BY <1>1, EnqueueEffect DEF Status, Pending
    <2>2. Mails' = Mails
        BY <1>1, EnqueueEffect DEF Mails
    <2> QED
        BY <2>1, <2>2 DEF Service!Submit, Status, Mails
<1>2. ASSUME NEW s \in Servers, PassThrottle(s) \/ ClaimNothing(s) PROVE UNCHANGED Service!vars
    BY <1>2, IdleEffect, ServiceStutter
<1>3. ASSUME NEW s \in Servers, ClaimDue(s) PROVE UNCHANGED Service!vars
    BY <1>3, ClaimEffect, ServiceStutter DEF Pending
<1>4. ASSUME NEW s \in Servers, Deliver(s)
      PROVE  UNCHANGED Service!vars \/ \E j \in Jobs : Service!Mail(j)
    <2> DEFINE j == held[s].job
               n == held[s].attempt
    <2>1. j \in Jobs /\ n \in Nat /\ n \notin accepted[j] /\ jobs[j].state \in Pending
        BY <1>4, DeliverEffect DEF Claim, AttemptInv, HeldUnsent, OwnerInv, HeldPending, Busy
    <2>2. CASE accepted' = [accepted EXCEPT ![j] = @ \cup {n}]
        <3>1. Mails' = [Mails EXCEPT ![j] = @ + 1]
            BY <2>1, <2>2, MailCounted
        <3>2. Status' = Status /\ Status[j] = "pending"
            BY <1>4, <2>1, DeliverEffect DEF Status
        <3>3. Service!Mail(j)
            BY <3>1, <3>2 DEF Service!Mail, Status, Mails
        <3> QED
            BY <2>1, <3>3
    <2>3. CASE accepted' = accepted
        BY <1>4, <2>3, DeliverEffect, ServiceStutter
    <2> QED
        BY <1>4, <2>2, <2>3, DeliverEffect DEF RelayTakes
<1>5. ASSUME NEW s \in Servers, EndAttempt(s)
      PROVE  \/ UNCHANGED Service!vars
             \/ \E j \in Jobs : Service!Confirm(j) \/ Service!GiveUp(j)
    <2>0. PICK j \in Jobs : j = held[s].job
        BY <1>5, EndEffect DEF Claim
    <2>1. /\ pc[s] \in Busy /\ accepted' = accepted
          /\ \A k \in Jobs \ {j} : jobs'[k] = jobs[k]
        BY <1>5, <2>0, EndEffect DEF Busy
    <2>2. jobs[j].state \in Pending /\ Status[j] = "pending"
        BY <2>0, <2>1 DEF OwnerInv, HeldPending, Status
    <2>3. Mails' = Mails
        BY <2>1 DEF Mails
    <2>4. CASE Settled(s)
        <3>1. Status' = [Status EXCEPT ![j] = jobs'[j].state]
            BY <2>0, <2>1, <2>4 DEF Settled, Status, Terminal, Pending
        <3>2. CASE jobs'[j].state = "delivered"
            <4>1. accepted[j] # {}
                BY <2>0, <2>4, <3>2 DEF Settled, SentTaken
            <4>2. Mails[j] > 0
                <5>1. IsFiniteSet(1 .. jobs[j].attempts)
                    BY <2>1, FS_Interval DEF TypeOK, Row
                <5>2. IsFiniteSet(accepted[j])
                    BY <2>1, <5>1, FS_Subset DEF AttemptInv, AcceptedCounted
                <5>3. Cardinality(accepted[j]) \in Nat /\ Cardinality(accepted[j]) # 0
                    BY <4>1, <5>2, FS_CardinalityType, FS_EmptySet
                <5> QED
                    BY <2>1, <5>3 DEF Mails
            <4>3. Service!Confirm(j)
                BY <2>2, <2>3, <3>1, <3>2, <4>2 DEF Service!Confirm, Status, Mails
            <4>4. \E k \in Jobs : Service!Confirm(k)
                BY <4>3
            <4> QED
                BY <4>4
        <3>3. CASE jobs'[j].state = "failed"
            <4>1. Service!GiveUp(j)
                BY <2>2, <2>3, <3>1, <3>3 DEF Service!GiveUp, Status, Mails
            <4>2. \E k \in Jobs : Service!GiveUp(k)
                BY <4>1
            <4> QED
                BY <4>2
        <3> QED
            BY <2>0, <2>4, <3>2, <3>3 DEF Settled, Terminal
    <2>5. CASE PutBack(s) \/ Lost(s)
        BY <2>0, <2>1, <2>2, <2>5, ServiceStutter DEF PutBack, Lost, Pending
    <2> QED
        BY <1>5, <2>4, <2>5, EndEffect
<1>6. ASSUME NEW s \in Servers, RequeueStale(s) PROVE UNCHANGED Service!vars
    BY <1>6, RequeueEffect, ServiceStutter DEF Pending
<1>7. ASSUME NEW s \in Servers, Process(s) PROVE UNCHANGED Service!vars
    BY <1>7, ProcessEffect, ServiceStutter
<1>8. CASE Tick
    BY <1>8, TickEffect, ServiceStutter
<1>9. CASE UNCHANGED vars
    BY <1>9, ServiceStutter DEF vars
<1> QED
    BY <1>1, <1>2, <1>3, <1>4, <1>5, <1>6, <1>7, <1>8, <1>9, NextCases DEF Service!Next

\* Every behaviour of the queue is one the service allows: a report is confirmed
\* only after the relay took it, and it settles once.
THEOREM QueueImplementsService == OneWorkerPerJob /\ Spec => ServiceSpec
<1> SUFFICES ASSUME OneWorkerPerJob PROVE Spec => ServiceSpec
    OBVIOUS
<1>1. Init => Service!Init
    BY ServiceInit
<1>2. TypeOK /\ AttemptInv /\ OwnerInv /\ SentTaken /\ [Next]_vars => [Service!Next]_(Service!vars)
    BY ServiceStep
<1>3. Spec => [](TypeOK /\ AttemptInv)
    <2>1. Init => TypeOK /\ AttemptInv
        BY InitType, AttemptInit
    <2>2. TypeOK /\ AttemptInv /\ [Next]_vars => (TypeOK /\ AttemptInv)'
        BY StepType, AttemptStep
    <2> QED
        BY <2>1, <2>2, PTL DEF Spec
<1>4. Spec => []SentTaken
    BY SentInit, SentStep, TypeCorrect, PTL DEF Spec
<1>5. Spec => []OwnerInv
    BY OwnerHolds
<1> QED
    BY <1>1, <1>2, <1>3, <1>4, <1>5, PTL DEF Spec, ServiceSpec, Service!Spec
=============================================================================
