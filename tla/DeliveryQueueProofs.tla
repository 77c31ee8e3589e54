------------------------ MODULE DeliveryQueueProofs ------------------------
(***************************************************************************)
(* What holds of DeliveryQueue for every number of jobs and servers and    *)
(* every setting of the limits.                                            *)
(***************************************************************************)
EXTENDS DeliveryQueue, FiniteSetTheorems, TLAPS

\* The delay is capped whatever the power of two comes to, so it is a number.
LEMMA RetryDelayType == ASSUME NEW n PROVE RetryDelay(n) \in Nat
<1>1. RetryCap \in Nat
    BY QueueAssumption
<1>2. ASSUME NEW d, d \in 0 .. RetryCap PROVE d \in Nat
    BY <1>2, <1>1
<1>3. RetryDelay(n) \in (0 .. RetryCap) \cup {RetryCap}
    BY Zenon DEF RetryDelay
<1> QED
    BY <1>1, <1>2, <1>3

LEMMA InitType == Init => TypeOK
BY QueueAssumption DEF Init, TypeOK, NoRow, Row, Claim, Busy, Pending, Terminal

LEMMA ReleaseType ==
    ASSUME TypeOK, NEW s \in Servers, Release(s)
    PROVE  /\ pc' \in [Servers -> {"idle", "checked"} \cup Busy]
           /\ held' \in [Servers -> Claim \cup {NoClaim}]
           /\ \A t \in Servers : pc'[t] \in Busy <=> held'[t] \in Claim
BY QueueAssumption DEF TypeOK, Release, Claim, Busy

\* What the statements of jobs.py make of a row is a row.
LEMMA RowType ==
    ASSUME NEW row \in Row
    PROVE  /\ [row EXCEPT !.state = "active", !.attempts = row.attempts + 1, !.idle = 0] \in Row
           /\ [row EXCEPT !.state = "queued", !.idle = 0] \in Row
           /\ [row EXCEPT !.state = "delivered", !.idle = 0, !.since = 0] \in Row
           /\ [row EXCEPT !.state = "failed", !.idle = 0, !.since = Minute + 1] \in Row
           /\ \A n : [row EXCEPT !.state = "queued", !.idle = 0, !.due = RetryDelay(n)] \in Row
<1>1. Minute + 1 \in Nat
    BY QueueAssumption
<1>2. ASSUME NEW n
      PROVE  [row EXCEPT !.state = "queued", !.idle = 0, !.due = RetryDelay(n)] \in Row
    <2>1. RetryDelay(n) \in Int
        BY RetryDelayType
    <2> QED
        BY <2>1 DEF Row, Pending, Terminal
<1>3. row.attempts + 1 \in Nat
    BY DEF Row
<1>4. [row EXCEPT !.state = "active", !.attempts = row.attempts + 1, !.idle = 0] \in Row
    BY <1>3 DEF Row, Pending, Terminal
<1>5. /\ [row EXCEPT !.state = "queued", !.idle = 0] \in Row
      /\ [row EXCEPT !.state = "delivered", !.idle = 0, !.since = 0] \in Row
      /\ [row EXCEPT !.state = "failed", !.idle = 0, !.since = Minute + 1] \in Row
    BY <1>1 DEF Row, Pending, Terminal
<1> QED
    BY <1>2, <1>4, <1>5

LEMMA ElapseType == TypeOK => \A j \in Jobs : Elapse(j) \in Row
<1> SUFFICES ASSUME TypeOK, NEW j \in Jobs PROVE Elapse(j) \in Row
    OBVIOUS
<1>1. jobs[j] \in Row
    BY DEF TypeOK
<1>2. LateCap \in Nat /\ RetryWindow \in Nat /\ StaleActive \in Nat /\ Minute \in Nat
    BY QueueAssumption
<1>3. ASSUME NEW r \in Row, NEW d \in Int, NEW a \in Nat, NEW i \in Nat, NEW n \in Nat
      PROVE  [r EXCEPT !.due = d, !.age = a, !.idle = i, !.since = n] \in Row
    BY DEF Row
<1> DEFINE row == jobs[j]
           live == row.state \in Pending \/ Held(j)
           due == IF row.state \in Pending /\ row.due > -LateCap THEN row.due - 1 ELSE row.due
           age == IF live /\ row.age <= RetryWindow THEN row.age + 1 ELSE row.age
           idle == IF row.state = "active" /\ row.idle <= StaleActive THEN row.idle + 1 ELSE row.idle
           since == IF row.since <= Minute THEN row.since + 1 ELSE row.since
<1>4. due \in Int /\ age \in Nat /\ idle \in Nat /\ since \in Nat
    BY <1>1, <1>2 DEF Row
<1>5. Elapse(j) = [row EXCEPT !.due = due, !.age = age, !.idle = idle, !.since = since]
    BY DEF Elapse
<1>6. row \in Row
    BY <1>1
<1> HIDE DEF row, due, age, idle, since
<1>7. [row EXCEPT !.due = due, !.age = age, !.idle = idle, !.since = since] \in Row
    BY <1>3, <1>4, <1>6
<1> QED
    BY <1>5, <1>7

LEMMA StepType == TypeOK /\ [Next]_vars => TypeOK'
<1> SUFFICES ASSUME TypeOK, [Next]_vars PROVE TypeOK'
    OBVIOUS
<1>1. ASSUME NEW s \in Servers, NEW j \in Jobs, Enqueue(s, j) PROVE TypeOK'
    <2>1. [NoRow EXCEPT !.state = "queued"] \in Row
        BY QueueAssumption DEF NoRow, Row, Pending
    <2> QED
        BY <1>1, <2>1 DEF TypeOK, Enqueue
<1>2. ASSUME NEW s \in Servers, PassThrottle(s) PROVE TypeOK'
    BY <1>2 DEF TypeOK, PassThrottle, Busy
<1>3. ASSUME NEW s \in Servers, ClaimDue(s) PROVE TypeOK'
    <2>1. PICK j \in Jobs :
            /\ jobs' = [jobs EXCEPT ![j] = [@ EXCEPT !.state = "active",
                                                     !.attempts = jobs[j].attempts + 1,
                                                     !.idle = 0]]
            /\ held' = [held EXCEPT ![s] = [job |-> j, attempt |-> jobs[j].attempts + 1]]
        BY <1>3 DEF ClaimDue
    <2>2. jobs' \in [Jobs -> Row]
        <3>1. [jobs[j] EXCEPT !.state = "active", !.attempts = jobs[j].attempts + 1, !.idle = 0] \in Row
            BY RowType DEF TypeOK
        <3> QED
            BY <2>1, <3>1 DEF TypeOK
    <2>3. [job |-> j, attempt |-> jobs[j].attempts + 1] \in Claim
        BY DEF TypeOK, Claim, Row
    <2> QED
        BY <1>3, <2>1, <2>2, <2>3 DEF TypeOK, ClaimDue, Busy
<1>4. ASSUME NEW s \in Servers, ClaimNothing(s) PROVE TypeOK'
    BY <1>4 DEF TypeOK, ClaimNothing, Busy
<1>5. ASSUME NEW s \in Servers, Deliver(s) PROVE TypeOK'
    <2>1. held[s] \in Claim
        BY <1>5 DEF TypeOK, Deliver, DeliverReturns, DeliverRaises, Busy
    <2>2. accepted' \in [Jobs -> SUBSET Nat]
        BY <1>5, <2>1 DEF TypeOK, Deliver, DeliverReturns, DeliverRaises, RelayTakes, Claim
    <2>3. failure' \in [Servers -> {"transient", "permanent"}]
        BY <1>5 DEF TypeOK, Deliver, DeliverReturns, DeliverRaises
    <2>4. outbound' \in SUBSET Mail
        <3>1. [job |-> held[s].job, attempt |-> held[s].attempt, age |-> 0] \in Mail
            BY <2>1, QueueAssumption DEF Claim, Mail
        <3> QED
            BY <1>5, <3>1 DEF TypeOK, Deliver, DeliverReturns, DeliverRaises, RelayTakes
    <2> QED
        BY <1>5, <2>1, <2>2, <2>3, <2>4 DEF TypeOK, Deliver, DeliverReturns, DeliverRaises, Busy
<1>6. ASSUME NEW s \in Servers, EndAttempt(s) PROVE TypeOK'
    <2>1. held[s] \in Claim
        BY <1>6 DEF TypeOK, EndAttempt, FinishDelivered, FinishFailed, RetryLater, LoseOutcome, Busy
    <2>2. jobs' \in [Jobs -> Row]
        <3> DEFINE row == jobs[held[s].job]
        <3>1. row \in Row
            BY <2>1 DEF TypeOK, Claim
        <3>2. /\ [row EXCEPT !.state = "delivered", !.idle = 0, !.since = 0] \in Row
              /\ [row EXCEPT !.state = "failed", !.idle = 0, !.since = Minute + 1] \in Row
              /\ [row EXCEPT !.state = "queued", !.idle = 0,
                             !.due = RetryDelay(held[s].attempt)] \in Row
            BY <3>1, RowType
        <3> QED
            BY <1>6, <3>2
            DEF TypeOK, EndAttempt, FinishDelivered, FinishFailed, RetryLater, LoseOutcome
    <2>3. faults' \in Nat
        BY <1>6 DEF TypeOK, EndAttempt, FinishDelivered, FinishFailed, RetryLater, LoseOutcome
    <2> QED
        BY <1>6, <2>2, <2>3, ReleaseType
        DEF TypeOK, EndAttempt, FinishDelivered, FinishFailed, RetryLater, LoseOutcome
<1>7. ASSUME NEW s \in Servers, RequeueStale(s) PROVE TypeOK'
    BY <1>7, RowType DEF TypeOK, RequeueStale
<1>8. ASSUME NEW s \in Servers, Process(s) PROVE TypeOK'
    BY <1>8, ReleaseType DEF TypeOK, Process, Stop, Exit, Crash, Restart
<1>9. CASE Tick
    <2>1. outbound' \in SUBSET Mail
        <3>1. ASSUME NEW m \in Mail, m.age < Minute PROVE [m EXCEPT !.age = m.age + 1] \in Mail
            BY <3>1, QueueAssumption DEF Mail
        <3> QED
            BY <1>9, <3>1 DEF TypeOK, Tick
    <2> QED
        BY <1>9, <2>1, ElapseType DEF TypeOK, Tick
<1>10. CASE UNCHANGED vars
    BY <1>10 DEF TypeOK, vars
<1> QED
    BY <1>1, <1>2, <1>3, <1>4, <1>5, <1>6, <1>7, <1>8, <1>9, <1>10 DEF Next, Worker

\* Type correctness, for any number of jobs and servers: every row, claim and
\* count of delivery/jobs.py stays in its range, and a worker holds a claim
\* exactly while it is delivering.
THEOREM TypeCorrect == Spec => []TypeOK
<1>1. Init => TypeOK
    BY InitType
<1>2. TypeOK /\ [Next]_vars => TypeOK'
    BY StepType
<1> QED
    BY <1>1, <1>2, PTL DEF Spec
-----------------------------------------------------------------------------
(* What each action changes, value by value: the facts the invariants need. *)

\* Every worker but s stays where it is, with what it holds.
OthersStay(s) == \A t \in Servers \ {s} : pc'[t] = pc[t] /\ held'[t] = held[t]

LEMMA EnqueueEffect ==
    ASSUME TypeOK, NEW s \in Servers, NEW j \in Jobs, Enqueue(s, j)
    PROVE  /\ jobs[j].state = "absent"
           /\ jobs'[j].state = "queued" /\ jobs'[j].attempts = 0
           /\ \A k \in Jobs \ {j} : jobs'[k] = jobs[k]
           /\ UNCHANGED <<mode, pc, held, failure, accepted, outbound, faults, stops>>
BY DEF TypeOK, Enqueue, NoRow, Row

LEMMA ClaimEffect ==
    ASSUME TypeOK, NEW s \in Servers, ClaimDue(s)
    PROVE  \E j \in Jobs :
            /\ pc[s] = "checked"
            /\ jobs[j].state = "queued"
            /\ jobs'[j].state = "active"
            /\ jobs'[j].attempts = jobs[j].attempts + 1
            /\ jobs'[j].idle = 0
            /\ \A k \in Jobs \ {j} : jobs'[k] = jobs[k]
            /\ pc'[s] = "sending"
            /\ held'[s] \in Claim
            /\ held'[s].job = j
            /\ held'[s].attempt = jobs[j].attempts + 1
            /\ OthersStay(s)
            /\ UNCHANGED <<mode, failure, accepted, outbound, faults, stops>>
<1>1. PICK j \in Jobs :
        /\ FirstDue(j)
        /\ jobs' = [jobs EXCEPT ![j] = [@ EXCEPT !.state = "active",
                                                 !.attempts = jobs[j].attempts + 1,
                                                 !.idle = 0]]
        /\ held' = [held EXCEPT ![s] = [job |-> j, attempt |-> jobs[j].attempts + 1]]
    BY DEF ClaimDue
<1>2. jobs[j] \in Row /\ jobs[j].attempts + 1 \in Nat
    BY DEF TypeOK, Row
<1>3. /\ jobs'[j].state = "active"
      /\ jobs'[j].attempts = jobs[j].attempts + 1
      /\ jobs'[j].idle = 0
      /\ \A k \in Jobs \ {j} : jobs'[k] = jobs[k]
    BY <1>1, <1>2 DEF TypeOK, Row
<1>4. held'[s] = [job |-> j, attempt |-> jobs[j].attempts + 1]
    BY <1>1 DEF TypeOK
<1>5. OthersStay(s)
    BY <1>1 DEF TypeOK, ClaimDue, OthersStay
<1> QED
    BY <1>1, <1>2, <1>3, <1>4, <1>5 DEF TypeOK, ClaimDue, FirstDue, Due, Claim

LEMMA DeliverEffect ==
    ASSUME TypeOK, NEW s \in Servers, Deliver(s)
    PROVE  /\ pc[s] = "sending" /\ held[s] \in Claim
           /\ pc'[s] \in {"sent", "raised"}
           /\ OthersStay(s)
           /\ \/ RelayTakes(s)
              \/ pc'[s] = "raised" /\ UNCHANGED <<accepted, outbound>>
           /\ UNCHANGED <<jobs, mode, held, faults, stops>>
BY DEF TypeOK, Deliver, DeliverReturns, DeliverRaises, RelayTakes, OthersStay, Busy

\* The three outcomes of a job whose attempt ends.
Settled(s) ==
    /\ jobs'[held[s].job].state \in Terminal
    /\ jobs'[held[s].job].state = "delivered" => pc[s] = "sent"
    /\ faults' = faults
PutBack(s) == jobs'[held[s].job].state = "queued" /\ ~ Final(s) /\ faults' = faults
Lost(s) == jobs' = jobs /\ faults' = faults + 1

LEMMA EndEffect ==
    ASSUME TypeOK, NEW s \in Servers, EndAttempt(s)
    PROVE  /\ pc[s] \in {"sent", "raised"} /\ held[s] \in Claim
           /\ pc'[s] = "idle" /\ held'[s] = NoClaim
           /\ OthersStay(s)
           /\ \A k \in Jobs : jobs'[k].attempts = jobs[k].attempts
           /\ \A k \in Jobs \ {held[s].job} : jobs'[k] = jobs[k]
           /\ Settled(s) \/ PutBack(s) \/ Lost(s)
           /\ UNCHANGED <<mode, failure, accepted, outbound, stops>>
<1>1. pc[s] \in {"sent", "raised"} /\ held[s] \in Claim
    BY DEF TypeOK, EndAttempt, FinishDelivered, FinishFailed, RetryLater, LoseOutcome, Busy
<1>2. pc'[s] = "idle" /\ held'[s] = NoClaim /\ OthersStay(s)
    BY DEF TypeOK, EndAttempt, FinishDelivered, FinishFailed, RetryLater, LoseOutcome, Release,
           OthersStay
<1>3. held[s].job \in Jobs /\ jobs[held[s].job] \in Row
    BY <1>1 DEF TypeOK, Claim
<1> DEFINE Outcome ==
            /\ \A k \in Jobs : jobs'[k].attempts = jobs[k].attempts
            /\ \A k \in Jobs \ {held[s].job} : jobs'[k] = jobs[k]
            /\ Settled(s) \/ PutBack(s) \/ Lost(s)
<1>4. ASSUME FinishDelivered(s) PROVE Outcome
    BY <1>3, <1>4 DEF TypeOK, FinishDelivered, Row, Settled, Terminal
<1>5. ASSUME FinishFailed(s) PROVE Outcome
    BY <1>3, <1>5 DEF TypeOK, FinishFailed, Row, Settled, Terminal
<1>6. ASSUME RetryLater(s) PROVE Outcome
    BY <1>3, <1>6 DEF TypeOK, RetryLater, Row, PutBack
<1>7. ASSUME LoseOutcome(s) PROVE Outcome
    BY <1>7 DEF LoseOutcome, Lost
<1> QED
    BY <1>1, <1>2, <1>4, <1>5, <1>6, <1>7
    DEF EndAttempt, FinishDelivered, FinishFailed, RetryLater, LoseOutcome

LEMMA RequeueEffect ==
    ASSUME TypeOK, NEW s \in Servers, RequeueStale(s)
    PROVE  /\ \A j \in Jobs :
                /\ jobs'[j].attempts = jobs[j].attempts
                /\ Stale(j) => jobs'[j].state = "queued" /\ jobs[j].state = "active"
                /\ ~ Stale(j) => jobs'[j] = jobs[j]
           /\ UNCHANGED <<mode, pc, held, failure, accepted, outbound, faults, stops>>
BY DEF TypeOK, RequeueStale, Row, Stale

LEMMA ProcessEffect ==
    ASSUME TypeOK, NEW s \in Servers, Process(s)
    PROVE  /\ \/ UNCHANGED <<pc, held, faults>>
              \/ pc'[s] = "idle" /\ held'[s] = NoClaim /\ OthersStay(s) /\ faults' = faults + 1
           /\ UNCHANGED <<jobs, failure, accepted, outbound>>
BY DEF TypeOK, Process, Stop, Exit, Crash, Restart, Release, OthersStay

LEMMA TickEffect ==
    ASSUME TypeOK, Tick
    PROVE  /\ \A j \in Jobs :
                /\ jobs'[j].state = jobs[j].state
                /\ jobs'[j].attempts = jobs[j].attempts
                /\ jobs'[j].idle \in {jobs[j].idle, jobs[j].idle + 1}
           /\ Prompt
           /\ UNCHANGED <<mode, pc, held, failure, accepted, faults, stops>>
<1>1. ASSUME NEW j \in Jobs
      PROVE  /\ Elapse(j).state = jobs[j].state
             /\ Elapse(j).attempts = jobs[j].attempts
             /\ Elapse(j).idle \in {jobs[j].idle, jobs[j].idle + 1}
    BY DEF TypeOK, Elapse, Row
<1> QED
    BY <1>1 DEF Tick
=============================================================================
