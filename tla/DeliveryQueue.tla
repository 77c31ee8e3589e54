--------------------------- MODULE DeliveryQueue ---------------------------
(***************************************************************************)
(* The delivery queue of delivery/jobs.py: the jobs table, the worker that *)
(* claims and delivers, the sweeper that requeues what a dead worker left  *)
(* behind, and the start, stop and death of the server around them.        *)
(*                                                                         *)
(* Several servers may share one data directory (claim_due opens an        *)
(* IMMEDIATE transaction for that), so the table is shared and each server *)
(* runs one worker and one sweeper.                                        *)
(*                                                                         *)
(* The code stores instants and only ever compares them with time.time().  *)
(* A row therefore keeps each instant as its distance from now, stopped at *)
(* the value beyond which no comparison can tell it apart:                 *)
(*   due    next_try_at - now, negative when overdue                       *)
(*   age    now - created_at                                               *)
(*   idle   now - updated_at                                               *)
(*   since  now - delivered_at, Minute + 1 for NULL or longer ago          *)
(* This keeps time unbounded and the state space finite.                   *)
(***************************************************************************)
EXTENDS Integers, FiniteSets

CONSTANTS
    Jobs,           \* job ids
    Servers,        \* server processes on one data directory
    NoClaim,        \* what a worker with no job holds
    MaxAttempts,    \* MAIL_REPORT_MAX_ATTEMPTS, 0 for unlimited
    RetryWindow,    \* MAIL_REPORT_RETRY_WINDOW_SECONDS, 0 to disable
    MaxPerMinute,   \* MAIL_REPORT_MAX_PER_MINUTE, 0 for no limit
    RetryBase,      \* DEFAULT_RETRY_BASE
    RetryCap,       \* DEFAULT_RETRY_CAP
    StaleActive,    \* STALE_ACTIVE_SECONDS
    Minute,         \* the 60 seconds throttle_delay looks back
    SlowDelivery,   \* may a delivery outlast STALE_ACTIVE_SECONDS?
    StoreFails,     \* may a statement on the state database raise?
    LateCap,        \* bound: how overdue a job can be told to be
    MaxFaults,      \* bound: crashes and lost outcomes in a behaviour
    MaxStops        \* bound: graceful stops in a behaviour

ASSUME QueueAssumption ==
    /\ IsFiniteSet(Jobs)
    /\ NoClaim \notin [job : Jobs, attempt : Nat]
    /\ {MaxAttempts, RetryWindow, MaxPerMinute, RetryBase, RetryCap, StaleActive,
        Minute, LateCap, MaxFaults, MaxStops} \subseteq Nat
    /\ {SlowDelivery, StoreFails} \subseteq BOOLEAN

VARIABLES
    jobs,       \* the jobs table
    mode,       \* whether each server is up, stopping or down
    pc,         \* where each server's worker is in run_worker and process_one
    held,       \* the job and attempt number claim_due returned to the worker
    failure,    \* what is_permanent says of the exception deliver raised
    accepted,   \* history: for each job, the attempts whose mail the relay took
    outbound,   \* history: the mails the relay took in the last minute
    faults,     \* crashes and lost outcomes so far
    stops       \* graceful stops so far

vars == <<jobs, mode, pc, held, failure, accepted, outbound, faults, stops>>

Pending == {"queued", "active"}
Terminal == {"delivered", "failed"}
Busy == {"sending", "sent", "raised"}

Row == [state : {"absent"} \cup Pending \cup Terminal, attempts : Nat,
        due : Int, age : Nat, idle : Nat, since : Nat]

Claim == [job : Jobs, attempt : Nat]

\* A mail the relay took, with the time since: no field of the program.
Mail == [job : Jobs, attempt : Nat, age : 0 .. Minute]

TypeOK ==
    /\ jobs \in [Jobs -> Row]
    /\ mode \in [Servers -> {"up", "stopping", "down"}]
    /\ pc \in [Servers -> {"idle", "checked"} \cup Busy]
    /\ held \in [Servers -> Claim \cup {NoClaim}]
    /\ \A s \in Servers : pc[s] \in Busy <=> held[s] \in Claim
    /\ failure \in [Servers -> {"transient", "permanent"}]
    /\ accepted \in [Jobs -> SUBSET Nat]
    /\ outbound \in SUBSET Mail
    /\ faults \in Nat
    /\ stops \in Nat

NoRow == [state |-> "absent", attempts |-> 0, due |-> 0, age |-> 0, idle |-> 0,
          since |-> Minute + 1]

Init ==
    /\ jobs = [j \in Jobs |-> NoRow]
    /\ mode = [s \in Servers |-> "up"]
    /\ pc = [s \in Servers |-> "idle"]
    /\ held = [s \in Servers |-> NoClaim]
    /\ failure = [s \in Servers |-> "transient"]
    /\ accepted = [j \in Jobs |-> {}]
    /\ outbound = {}
    /\ faults = 0
    /\ stops = 0
-----------------------------------------------------------------------------
(* The queries and decisions of jobs.py.                                   *)

\* Faulty variants, kept beside the definitions they vary to show that the
\* properties notice: each name says what the code would be doing wrong.
ThrottleOffByOne ==
    MaxPerMinute > 0 =>
        Cardinality({j \in Jobs : jobs[j].since <= Minute}) <= MaxPerMinute
ThrottleForEver ==
    MaxPerMinute > 0 => Cardinality({j \in Jobs : jobs[j].state = "delivered"}) < MaxPerMinute
DueInAnyState(j) == jobs[j].state # "absent" /\ jobs[j].due <= 0
GaveUpTooLate(j, attempts) ==
    \/ RetryWindow > 0 /\ jobs[j].age > RetryWindow
    \/ MaxAttempts > 0 /\ attempts > MaxAttempts

\* COUNT(*) WHERE delivered_at >= now - 60, for a limit that is set.
ThrottleOpen ==
    MaxPerMinute > 0 =>
        Cardinality({j \in Jobs : jobs[j].since <= Minute}) < MaxPerMinute

\* state = QUEUED AND next_try_at <= now, ORDER BY next_try_at LIMIT 1.
Due(j) == jobs[j].state = "queued" /\ jobs[j].due <= 0
FirstInAnyOrder(j) == Due(j)

FirstDue(j) == Due(j) /\ \A k \in Jobs : Due(k) => jobs[j].due <= jobs[k].due

\* state = ACTIVE AND updated_at < now - STALE_ACTIVE_SECONDS.
Stale(j) == jobs[j].state = "active" /\ jobs[j].idle > StaleActive

GaveUp(j, attempts) ==
    \/ RetryWindow > 0 /\ jobs[j].age > RetryWindow
    \/ MaxAttempts > 0 /\ attempts >= MaxAttempts

\* min(RETRY_CAP, RETRY_BASE * 2 ** max(0, attempts - 1)).
RetryDelay(attempts) ==
    LET delay == RetryBase * 2 ^ (IF attempts > 0 THEN attempts - 1 ELSE 0)
    IN  IF delay \in 0 .. RetryCap THEN delay ELSE RetryCap

\* except branch of process_one: fail for good, or try again.
Final(s) == failure[s] = "permanent" \/ GaveUp(held[s].job, held[s].attempt)
-----------------------------------------------------------------------------
(* A server's request handlers, its worker and its sweeper.                *)

Enqueue(s, j) ==
    /\ mode[s] = "up"
    /\ jobs[j].state = "absent"
    /\ jobs' = [jobs EXCEPT ![j] = [NoRow EXCEPT !.state = "queued"]]
    /\ UNCHANGED <<mode, pc, held, failure, accepted, outbound, faults, stops>>

\* run_worker tests stop and the throttle; a throttle query that raises
\* counts as no wait.
PassThrottle(s) ==
    /\ mode[s] = "up"
    /\ pc[s] = "idle"
    /\ ThrottleOpen \/ StoreFails
    /\ pc' = [pc EXCEPT ![s] = "checked"]
    /\ UNCHANGED <<jobs, mode, held, failure, accepted, outbound, faults, stops>>

\* Faulty variant of claim_due: attempts are counted in the returned dict only.
ClaimUncounted(s) ==
    /\ pc[s] = "checked"
    /\ \E j \in Jobs :
        /\ FirstDue(j)
        /\ jobs' = [jobs EXCEPT ![j] = [@ EXCEPT !.state = "active", !.idle = 0]]
        /\ held' = [held EXCEPT ![s] = [job |-> j, attempt |-> jobs[j].attempts + 1]]
    /\ pc' = [pc EXCEPT ![s] = "sending"]
    /\ UNCHANGED <<mode, failure, accepted, outbound, faults, stops>>

\* claim_due: one IMMEDIATE transaction, so no other claim comes between.
ClaimDue(s) ==
    /\ pc[s] = "checked"
    /\ \E j \in Jobs :
        /\ FirstDue(j)
        /\ jobs' = [jobs EXCEPT ![j] = [@ EXCEPT !.state = "active",
                                                 !.attempts = jobs[j].attempts + 1,
                                                 !.idle = 0]]
        /\ held' = [held EXCEPT ![s] = [job |-> j, attempt |-> jobs[j].attempts + 1]]
    /\ pc' = [pc EXCEPT ![s] = "sending"]
    /\ UNCHANGED <<mode, failure, accepted, outbound, faults, stops>>

\* Nothing is due, or claim_due raised and rolled back: sleep and look again.
ClaimNothing(s) ==
    /\ pc[s] = "checked"
    /\ StoreFails \/ ~ \E j \in Jobs : Due(j)
    /\ pc' = [pc EXCEPT ![s] = "idle"]
    /\ UNCHANGED <<jobs, mode, held, failure, accepted, outbound, faults, stops>>

RelayTakes(s) ==
    /\ accepted' = [accepted EXCEPT ![held[s].job] = @ \cup {held[s].attempt}]
    /\ outbound' = outbound \cup {[job |-> held[s].job, attempt |-> held[s].attempt, age |-> 0]}

DeliverReturns(s) ==
    /\ pc[s] = "sending"
    /\ RelayTakes(s)
    /\ pc' = [pc EXCEPT ![s] = "sent"]
    /\ UNCHANGED <<jobs, mode, held, failure, faults, stops>>

\* deliver may raise after the relay took the mail: the reply to DATA is lost,
\* or the QUIT that closes the session is answered with an error.
DeliverRaises(s) ==
    /\ pc[s] = "sending"
    /\ RelayTakes(s) \/ UNCHANGED <<accepted, outbound>>
    /\ \E kind \in {"transient", "permanent"} : failure' = [failure EXCEPT ![s] = kind]
    /\ pc' = [pc EXCEPT ![s] = "raised"]
    /\ UNCHANGED <<jobs, mode, held, faults, stops>>

\* Faulty variant: the claim outlives the iteration.
ReleaseKeepsClaim(s) ==
    /\ pc' = [pc EXCEPT ![s] = "idle"]
    /\ UNCHANGED held

Release(s) ==
    /\ pc' = [pc EXCEPT ![s] = "idle"]
    /\ held' = [held EXCEPT ![s] = NoClaim]

FinishWithoutSending(s) ==   \* faulty variant: an exception passes for success
    /\ pc[s] \in {"sent", "raised"}
    /\ jobs' = [jobs EXCEPT ![held[s].job] =
                    [@ EXCEPT !.state = "delivered", !.idle = 0, !.since = 0]]
    /\ Release(s)
    /\ UNCHANGED <<mode, failure, accepted, outbound, faults, stops>>

\* The three writes that end an attempt. Each is WHERE id = ?, whatever has
\* become of the row since the claim.
FinishDelivered(s) ==
    /\ pc[s] = "sent"
    /\ jobs' = [jobs EXCEPT ![held[s].job] =
                    [@ EXCEPT !.state = "delivered", !.idle = 0, !.since = 0]]
    /\ Release(s)
    /\ UNCHANGED <<mode, failure, accepted, outbound, faults, stops>>

FinishFailed(s) ==
    /\ pc[s] = "raised"
    /\ Final(s)
    /\ jobs' = [jobs EXCEPT ![held[s].job] =
                    [@ EXCEPT !.state = "failed", !.idle = 0, !.since = Minute + 1]]
    /\ Release(s)
    /\ UNCHANGED <<mode, failure, accepted, outbound, faults, stops>>

RetryLater(s) ==
    /\ pc[s] = "raised"
    /\ ~ Final(s)
    /\ jobs' = [jobs EXCEPT ![held[s].job] =
                    [@ EXCEPT !.state = "queued", !.idle = 0,
                              !.due = RetryDelay(held[s].attempt)]]
    /\ Release(s)
    /\ UNCHANGED <<mode, failure, accepted, outbound, faults, stops>>

\* The write raises: run_worker logs it and goes on, the row stays ACTIVE.
LoseOutcome(s) ==
    /\ StoreFails
    /\ pc[s] \in {"sent", "raised"}
    /\ faults < MaxFaults
    /\ faults' = faults + 1
    /\ Release(s)
    /\ UNCHANGED <<jobs, mode, failure, accepted, outbound, stops>>

\* The sweeper puts every stale row back; next_try_at and attempts stay.
RequeueStale(s) ==
    /\ mode[s] # "down"
    /\ \E j \in Jobs : Stale(j)
    /\ jobs' = [j \in Jobs |->
                    IF Stale(j) THEN [jobs[j] EXCEPT !.state = "queued", !.idle = 0]
                                ELSE jobs[j]]
    /\ UNCHANGED <<mode, pc, held, failure, accepted, outbound, faults, stops>>
-----------------------------------------------------------------------------
(* The server process (WorkerLifespan) and the clock.                      *)

Stop(s) ==
    /\ mode[s] = "up"
    /\ stops < MaxStops
    /\ stops' = stops + 1
    /\ mode' = [mode EXCEPT ![s] = "stopping"]
    /\ UNCHANGED <<jobs, pc, held, failure, accepted, outbound, faults>>

\* Faulty variant of the shutdown: the worker is dropped mid-delivery.
ExitAtOnce(s) ==
    /\ mode[s] = "stopping"
    /\ mode' = [mode EXCEPT ![s] = "down"]
    /\ Release(s)
    /\ UNCHANGED <<jobs, failure, accepted, outbound, faults, stops>>

\* The worker leaves its loop at the top only, and shutdown waits for it.
Exit(s) ==
    /\ mode[s] = "stopping"
    /\ pc[s] = "idle"
    /\ mode' = [mode EXCEPT ![s] = "down"]
    /\ UNCHANGED <<jobs, pc, held, failure, accepted, outbound, faults, stops>>

Crash(s) ==
    /\ mode[s] # "down"
    /\ faults < MaxFaults
    /\ faults' = faults + 1
    /\ mode' = [mode EXCEPT ![s] = "down"]
    /\ Release(s)
    /\ UNCHANGED <<jobs, failure, accepted, outbound, stops>>

Restart(s) ==
    /\ mode[s] = "down"
    /\ mode' = [mode EXCEPT ![s] = "up"]
    /\ UNCHANGED <<jobs, pc, held, failure, accepted, outbound, faults, stops>>

Held(j) == \E s \in Servers : pc[s] \in Busy /\ held[s].job = j

\* Nothing reads the instants of a settled row, unless a worker still holds it
\* and can put it back in the queue.
Elapse(j) ==
    LET live == jobs[j].state \in Pending \/ Held(j)
    IN  [jobs[j] EXCEPT
            !.due = IF jobs[j].state \in Pending /\ @ > -LateCap THEN @ - 1 ELSE @,
            !.age = IF live /\ @ <= RetryWindow THEN @ + 1 ELSE @,
            !.idle = IF jobs[j].state = "active" /\ @ <= StaleActive THEN @ + 1 ELSE @,
            !.since = IF @ <= Minute THEN @ + 1 ELSE @]

\* Without SlowDelivery the socket timeouts end an attempt before it is stale.
Prompt ==
    SlowDelivery \/ \A s \in Servers : pc[s] \in Busy => jobs[held[s].job].idle < StaleActive

Tick ==
    /\ Prompt
    /\ jobs' = [j \in Jobs |-> Elapse(j)]
    /\ outbound' = {[m EXCEPT !.age = @ + 1] : m \in {n \in outbound : n.age < Minute}}
    /\ UNCHANGED <<mode, pc, held, failure, accepted, faults, stops>>
-----------------------------------------------------------------------------
Deliver(s) == DeliverReturns(s) \/ DeliverRaises(s)
EndAttempt(s) == FinishDelivered(s) \/ FinishFailed(s) \/ RetryLater(s) \/ LoseOutcome(s)
Worker(s) == PassThrottle(s) \/ ClaimDue(s) \/ ClaimNothing(s) \/ Deliver(s) \/ EndAttempt(s)
Process(s) == Stop(s) \/ Exit(s) \/ Crash(s) \/ Restart(s)

Next ==
    \/ \E s \in Servers : \/ \E j \in Jobs : Enqueue(s, j)
                          \/ Worker(s)
                          \/ RequeueStale(s)
                          \/ Process(s)
    \/ Tick

Spec == Init /\ [][Next]_vars

(***************************************************************************)
(* The worker and the sweeper loop until they are told to stop, and catch  *)
(* what an iteration raises; the socket timeouts end every delivery; time  *)
(* passes; a process that went down is started again (restart:             *)
(* unless-stopped).  Nothing obliges a caller to submit, a server to stop  *)
(* or to crash.                                                            *)
(***************************************************************************)
Fairness ==
    /\ \A s \in Servers :
        /\ WF_vars(Worker(s))
        /\ WF_vars(RequeueStale(s))
        /\ WF_vars(Exit(s))
        /\ WF_vars(Restart(s))
    /\ WF_vars(Tick)

FairSpec == Spec /\ Fairness
-----------------------------------------------------------------------------
(* Safety.                                                                 *)

\* Every mail the relay took is one counted attempt, and an attempt about to
\* be sent has not gone out before: claim_due hands an attempt number to one
\* worker, however many servers poll the table.
MailPerAttempt ==
    /\ \A j \in Jobs : accepted[j] \subseteq 1 .. jobs[j].attempts
    /\ \A s \in Servers :
        pc[s] = "sending" => held[s].attempt \notin accepted[held[s].job]

\* As long as nothing crashed and no write was lost, a job is ACTIVE only while
\* some worker is delivering it; a graceful stop leaves none behind.
ActiveIsHeld ==
    faults = 0 => \A j \in Jobs : jobs[j].state = "active" => Held(j)

\* gave_up caps the attempts, except that each crash or lost write can cost
\* one more: the cap is read after a failure, never before a claim.
AttemptsWithinCap ==
    MaxAttempts > 0 => \A j \in Jobs : jobs[j].attempts <= MaxAttempts + faults

\* A mail whose worker is about to record it, and one the table has recorded.
InHand(m) ==
    \E s \in Servers : pc[s] = "sent" /\ held[s] = [job |-> m.job, attempt |-> m.attempt]
Recorded(m) == jobs[m.job].state = "delivered" /\ jobs[m.job].attempts = m.attempt

\* Mails the relay has and the queue does not know of: the server died or its
\* write was lost before the delivery was recorded, or deliver raised after all.
Unnoticed == {m \in outbound : ~ InHand(m) /\ ~ Recorded(m)}

\* MAIL_REPORT_MAX_PER_MINUTE, "outbound messages per minute" (README.md:346): the
\* mails the relay takes in any minute stay within the limit, but for the unnoticed
\* ones. throttle_delay counts recorded deliveries only, so those come on top, one
\* for one.
RateLimit ==
    MaxPerMinute > 0 => Cardinality(outbound) <= MaxPerMinute + Cardinality(Unnoticed)

\* A settled report never changes again: no late write of a worker, and no
\* sweep, turns a delivered report back into one to send.
TerminalIsFinal ==
    [][\A j \in Jobs : jobs[j].state \in Terminal => jobs'[j].state = jobs[j].state]_vars

\* First attempts go out in the order of submission: while a report waits for
\* its first attempt, no report submitted after it gets one.
FirstComeFirstTried ==
    [][\A j, k \in Jobs :
        /\ Due(j) /\ jobs[j].attempts = 0
        /\ Due(k) /\ jobs[k].attempts = 0
        /\ jobs[j].age > jobs[k].age
        => jobs'[k].attempts = 0]_vars

\* The queue implements the promise made to callers.
Service == INSTANCE ReportService WITH
    status <- [j \in Jobs |-> IF jobs[j].state \in Pending THEN "pending"
                                                         ELSE jobs[j].state],
    mails <- [j \in Jobs |-> Cardinality(accepted[j])]

ServiceSpec == Service!Spec
-----------------------------------------------------------------------------
(* Liveness, under FairSpec.                                               *)

\* Every queued report is delivered or fails, across crashes and restarts.
EveryReportSettles ==
    \A j \in Jobs : jobs[j].state \in Pending ~> jobs[j].state \in Terminal
=============================================================================
