------------------------- MODULE MailSessionProofs -------------------------
(***************************************************************************)
(* What holds of MailSession for every set of recipients and every number  *)
(* of attempts, whatever the relay replies.                                *)
(***************************************************************************)
EXTENDS MailSession, FiniteSetTheorems, TLAPS

\* Until the block is left or raises, the attempt has no outcome.
Sending == {"prepare", "connect", "hello", "starttls", "rehello", "login", "guard",
            "mail", "rcpt", "data"}
Undecided == stage \in Sending \/ (stage = "quit" /\ failure = "none")

\* The relay took the mail and nothing went wrong since.
Reported == status = "delivered" \/ (stage \in {"quit", "ended"} /\ failure = "none")

Progress ==
    /\ status = "queued" => attempts < MaxAttempts
    /\ status = "active" => attempts >= 1
    /\ stage \in Sending => failure = "none"
    /\ doubt <= attempts
    /\ Undecided => doubt < attempts

Encrypted ==
    /\ stage = "hello" /\ cfg.security = "ssl" => tls
    /\ stage = "rehello" => tls
    /\ NothingInTheClear

\* An attempt number is taken once, and each taking but the last is in doubt.
Counted ==
    \A r \in Recipients :
        /\ \A n \in taken[r] : n <= attempts
        /\ stage \in Sending => attempts \notin taken[r]
        /\ Cardinality(taken[r]) <= doubt + 1
        /\ ~ Reported => Cardinality(taken[r]) <= doubt

SomebodyTook ==
    /\ stage = "data" => \E r \in Recipients : answer[r] = "accepted"
    /\ Reported => \E r \in Recipients : taken[r] # {}

\* The comparison of _guard_size, as long as its outcome matters.
SizeInv ==
    /\ stage \in Sending => cause # "oversize"
    /\ features.size > 0 =>
        /\ stage \in {"mail", "rcpt", "data"} => Bytes <= features.size
        /\ cause = "oversize" => Bytes > features.size

SessionInv ==
    /\ TypeOK
    /\ Progress
    /\ Encrypted
    /\ SizeInv
    /\ Counted
    /\ SomebodyTook
-----------------------------------------------------------------------------
(* What a step of the session comes to, the commands left aside.           *)

Errors == {"transient", "permanent"}
Same == UNCHANGED <<status, attempts, late>>

Forward == stage \in Sending /\ stage' \in Sending /\ UNCHANGED <<failure, relay>>
Raises == /\ stage \in Sending /\ stage' \in {"quit", "ended"}
          /\ failure' \in Errors /\ UNCHANGED relay
Takes == stage = "data" /\ stage' = "quit" /\ Deliver /\ UNCHANGED <<failure, doubt>>
Doubts == stage = "data" /\ stage' = "quit" /\ Deliver /\ failure' \in Errors /\ doubt' = doubt + 1
Leaves == stage = "quit" /\ stage' = "ended" /\ UNCHANGED <<failure, relay>>
LeavesBadly ==
    /\ stage = "quit" /\ stage' = "ended"
    /\ failure' \in Errors /\ UNCHANGED taken
    /\ doubt' = IF failure = "none" THEN doubt + 1 ELSE doubt

LEMMA SendEffect ==
    ASSUME TypeOK, Send
    PROVE  Same /\ (Forward \/ Raises \/ Takes \/ Doubts \/ Leaves \/ LeavesBadly)
<1> USE DEF Same, report, relay, Sending, Errors, Proceed, Raise, RaiseOutside, ByCode
<1>1. CASE Connect
    BY <1>1 DEF Connect, Forward, Raises
<1>2. CASE Hello
    BY <1>2 DEF Hello, Forward, Raises
<1>3. CASE StartTls
    BY <1>3 DEF StartTls, Forward, Raises
<1>4. CASE Rehello
    BY <1>4 DEF Rehello, Forward, Raises
<1>5. CASE Login
    BY <1>5 DEF Login, Forward, Raises
<1>6. CASE Guard
    BY <1>6 DEF Guard, Forward, Raises
<1>7. CASE Mail
    BY <1>7 DEF Mail, Forward, Raises
<1>8. CASE Rcpt
    BY <1>8 DEF Rcpt, Forward, Raises
<1>9. CASE Data
    BY <1>9 DEF Data, Raises, Takes, Doubts
<1>10. CASE Quit
    BY <1>10 DEF Quit, Leaves, LeavesBadly
<1> QED
    BY <1>1, <1>2, <1>3, <1>4, <1>5, <1>6, <1>7, <1>8, <1>9, <1>10 DEF Send

LEMMA PrepareEffect ==
    ASSUME TypeOK, Prepare
    PROVE  Same /\ (Forward \/ Raises)
BY DEF Prepare, Same, Forward, Raises, report, relay, Sending, Errors, Proceed, RaiseOutside

LEMMA AttemptNumber ==
    ASSUME TypeOK, Progress, stage # "rest"
    PROVE  attempts \in 1 .. MaxAttempts
BY SessionAssumption DEF TypeOK, Progress

LEMMA DeliverTypes ==
    ASSUME TypeOK, Progress, stage = "data", Deliver
    PROVE  taken' \in [Recipients -> SUBSET (1 .. MaxAttempts)]
<1>1. attempts \in 1 .. MaxAttempts
    BY AttemptNumber
<1> QED
    BY <1>1 DEF Deliver, TypeOK
-----------------------------------------------------------------------------
LEMMA NoFeaturesType == NoFeatures \in Features
BY DEF NoFeatures, Features

LEMMA InitInv == Init => SessionInv
<1> SUFFICES ASSUME Init PROVE SessionInv
    OBVIOUS
<1>0. MaxAttempts \in Nat /\ 0 < MaxAttempts
    BY SessionAssumption
<1>1. TypeOK
    <2>1. cfg \in Configs /\ features \in Features
        BY NoFeaturesType DEF Init, Configs
    <2>2. /\ answer \in [Recipients -> {"unasked", "accepted", "refused"}]
          /\ taken \in [Recipients -> SUBSET (1 .. MaxAttempts)]
        BY DEF Init
    <2>3. 0 \in 0 .. MaxAttempts
        BY <1>0
    <2> QED
        BY <2>1, <2>2, <2>3 DEF Init, TypeOK, Stages, Replies
<1>2. Progress
    BY <1>0 DEF Init, Progress, Undecided, Sending
<1>3. Encrypted /\ SizeInv
    BY DEF Init, Encrypted, NothingInTheClear, SizeInv, Sending
<1>4. Counted
    BY FS_EmptySet DEF Init, Counted, Reported, Sending
<1>5. SomebodyTook
    BY DEF Init, SomebodyTook, Reported
<1> QED
    BY <1>1, <1>2, <1>3, <1>4, <1>5 DEF SessionInv

LEMMA TypeStep == SessionInv /\ [Next]_vars => TypeOK'
<1> SUFFICES ASSUME TypeOK, Progress, [Next]_vars PROVE TypeOK'
    BY DEF SessionInv
<1>0. /\ attempts \in Nat /\ doubt \in Nat /\ MaxAttempts \in Nat
      /\ attempts < MaxAttempts => attempts + 1 \in 0 .. MaxAttempts
      /\ doubt < attempts => doubt + 1 \in 0 .. MaxAttempts
    BY SessionAssumption DEF TypeOK
<1>1. CASE Claim
    BY <1>0, <1>1 DEF Claim, TypeOK, Progress, NoFeatures, Features, Stages, Replies
<1> USE DEF TypeOK, Stages, Replies, Refusals, Unsure, Proceed, Raise, RaiseOutside, ByCode,
        report, relay
<1>2. CASE Prepare
    BY <1>2 DEF Prepare
<1>3. CASE WindowPasses
    BY <1>3 DEF WindowPasses
<1>4. CASE Record
    BY <1>4 DEF Record
<1>5. CASE Connect
    BY <1>5 DEF Connect
<1>6. CASE Hello
    BY <1>6 DEF Hello
<1>7. CASE StartTls
    BY <1>7, NoFeaturesType DEF StartTls
<1>8. CASE Rehello
    BY <1>8 DEF Rehello
<1>9. CASE Login
    BY <1>9 DEF Login
<1>10. CASE Guard
    BY <1>10 DEF Guard
<1>11. CASE Mail
    BY <1>11 DEF Mail
<1>12. CASE Rcpt
    <2>1. PICK r \in Recipients, reply \in Replies :
            /\ answer' = [answer EXCEPT ![r] = IF reply = "ok" THEN "accepted" ELSE "refused"]
            /\ \/ Raise("transient", "lost") \/ Raise("permanent", "closing")
               \/ Proceed("rcpt") \/ Raise("permanent", reply) \/ Proceed("data")
        BY <1>12 DEF Rcpt
    <2>2. answer' \in [Recipients -> {"unasked", "accepted", "refused"}]
        BY <2>1
    <2>3. /\ stage = "rcpt"
          /\ UNCHANGED <<status, attempts, late, cfg, tls, features, taken, doubt>>
        BY <1>12 DEF Rcpt
    <2>4. stage' \in Stages /\ stage' # "rest"
        BY <2>1
    <2>5. failure' \in {"none", "transient", "permanent"}
        BY <2>1
    <2>6. cause' \in Replies \cup {"local", "oversize"}
        BY <2>1
    <2>7. open' \in BOOLEAN
        BY <2>1
    <2>8. status' \in {"queued", "active", "delivered", "failed"} /\ status' = "active"
        BY <2>3
    <2> QED
        BY <2>2, <2>3, <2>4, <2>5, <2>6, <2>7, <2>8
<1>13. CASE Data
    <2>1. stage = "data" /\ doubt < attempts
        BY <1>13 DEF Data, Progress, Undecided, Sending
    <2>2. taken' \in [Recipients -> SUBSET (1 .. MaxAttempts)]
        BY <1>13, <2>1, DeliverTypes DEF Data
    <2> QED
        BY <1>0, <1>13, <2>1, <2>2 DEF Data
<1>14. CASE Quit
    BY <1>0, <1>14 DEF Quit, Progress, Undecided
<1>15. CASE UNCHANGED vars
    BY <1>15 DEF vars
<1> QED
    BY <1>1, <1>2, <1>3, <1>4, <1>5, <1>6, <1>7, <1>8, <1>9, <1>10, <1>11, <1>12, <1>13, <1>14,
       <1>15 DEF Next, Attempt, Send
-----------------------------------------------------------------------------
Numbers == attempts \in Nat /\ doubt \in Nat /\ MaxAttempts \in Nat

LEMMA NumbersType == TypeOK => Numbers
BY SessionAssumption DEF TypeOK, Numbers

LEMMA ProgressStep == SessionInv /\ [Next]_vars => Progress'
<1> SUFFICES ASSUME TypeOK, Progress, [Next]_vars PROVE Progress'
    BY DEF SessionInv
<1>0. Numbers
    BY NumbersType
<1>1. CASE Claim
    BY <1>0, <1>1 DEF Claim, Progress, Undecided, Sending, Numbers
<1>2. CASE Record
    <2>1. stage' = "rest" /\ status' # "active" /\ UNCHANGED <<attempts, doubt, failure>>
        BY <1>2 DEF Record, relay
    <2>2. status' = "queued" => ~ (attempts >= MaxAttempts)
        BY <1>2 DEF Record
    <2> QED
        BY <1>0, <2>1, <2>2 DEF Progress, Undecided, Sending, Numbers
<1>3. CASE WindowPasses \/ UNCHANGED vars
    BY <1>3 DEF WindowPasses, vars, relay, Progress, Undecided
<1>4. ASSUME Same, Forward \/ Raises \/ Takes \/ Doubts \/ Leaves \/ LeavesBadly
      PROVE  Progress'
    <2>0. stage # "rest" /\ status = "active" /\ UNCHANGED <<status, attempts>>
        BY <1>4 DEF Same, Forward, Raises, Takes, Doubts, Leaves, LeavesBadly, Sending, TypeOK
    <2> USE <1>0, <2>0 DEF Progress, Undecided, Sending, Numbers, relay, Errors
    <2>1. CASE Forward
        BY <2>1 DEF Forward
    <2>2. CASE Raises
        BY <2>2 DEF Raises
    <2>3. CASE Takes
        BY <2>3 DEF Takes
    <2>4. CASE Doubts
        BY <2>4 DEF Doubts
    <2>5. CASE Leaves
        BY <2>5 DEF Leaves
    <2>6. CASE LeavesBadly
        BY <2>6 DEF LeavesBadly
    <2> QED
        BY <1>4, <2>1, <2>2, <2>3, <2>4, <2>5, <2>6
<1> QED
    BY <1>1, <1>2, <1>3, <1>4, SendEffect, PrepareEffect DEF Next, Attempt

\* No command past the greeting is reached in the clear.
LEMMA ClearStep == SessionInv /\ [Next]_vars => Encrypted'
<1> SUFFICES ASSUME TypeOK, Encrypted, [Next]_vars
             PROVE  Encrypted'
    BY DEF SessionInv
<1> USE DEF Encrypted, NothingInTheClear, Proceed, Raise, RaiseOutside
<1>1. CASE Claim
    BY <1>1 DEF Claim
<1>2. CASE Prepare
    BY <1>2 DEF Prepare
<1>3. CASE WindowPasses \/ Record \/ UNCHANGED vars
    BY <1>3 DEF WindowPasses, Record, vars
<1>4. CASE Connect
    BY <1>4 DEF Connect
<1>5. CASE Hello
    BY <1>5 DEF Hello, TypeOK, Configs
<1>6. CASE StartTls
    BY <1>6 DEF StartTls
<1>7. CASE Rehello
    BY <1>7 DEF Rehello
<1>8. CASE Login
    BY <1>8 DEF Login
<1>9. CASE Guard
    BY <1>9 DEF Guard
<1>10. CASE Mail
    BY <1>10 DEF Mail
<1>11. CASE Rcpt
    BY <1>11 DEF Rcpt
<1>12. CASE Data
    BY <1>12 DEF Data
<1>13. CASE Quit
    BY <1>13 DEF Quit
<1> QED
    BY <1>1, <1>2, <1>3, <1>4, <1>5, <1>6, <1>7, <1>8, <1>9, <1>10, <1>11, <1>12, <1>13
    DEF Next, Attempt, Send

LEMMA SizeType == TypeOK => features.size \in Nat /\ Bytes \in Nat /\ Lines \in Nat
<1> SUFFICES ASSUME features \in Features PROVE features.size \in Nat
    BY SessionAssumption DEF TypeOK
<1>1. features.size \in Sizes \cup {0}
    BY DEF Features
<1>2. \A n \in Sizes \cup {0} : n \in Nat
    BY SessionAssumption
<1> QED
    BY <1>1, <1>2, Zenon

\* No command of the mail transaction is reached with a report over the SIZE of
\* the last EHLO, and the features do not change once the guard has spoken.
LEMMA SizeStep == SessionInv /\ [Next]_vars => SizeInv'
<1> SUFFICES ASSUME TypeOK, SizeInv, [Next]_vars PROVE SizeInv'
    BY DEF SessionInv
<1> USE DEF SizeInv, Proceed, Raise, RaiseOutside, Sending, Replies, Refusals, Unsure
<1>1. CASE Claim
    BY <1>1 DEF Claim, NoFeatures
<1>2. CASE Prepare
    BY <1>2 DEF Prepare
<1>3. CASE WindowPasses \/ Record \/ UNCHANGED vars
    BY <1>3 DEF WindowPasses, Record, vars, TypeOK
<1>4. CASE Connect
    BY <1>4 DEF Connect
<1>5. CASE Hello
    BY <1>5 DEF Hello
<1>6. CASE StartTls
    BY <1>6 DEF StartTls, NoFeatures
<1>7. CASE Rehello
    BY <1>7 DEF Rehello
<1>8. CASE Login
    BY <1>8 DEF Login
<1>9. CASE Guard
    BY <1>9, SizeType DEF Guard
<1>10. CASE Mail
    BY <1>10 DEF Mail
<1>11. CASE Rcpt
    BY <1>11 DEF Rcpt
<1>12. CASE Data
    BY <1>12 DEF Data
<1>13. CASE Quit
    BY <1>13 DEF Quit
<1> QED
    BY <1>1, <1>2, <1>3, <1>4, <1>5, <1>6, <1>7, <1>8, <1>9, <1>10, <1>11, <1>12, <1>13
    DEF Next, Attempt, Send
-----------------------------------------------------------------------------
(* How often a recipient was sent the report.                              *)

LEMMA TakenFinite ==
    ASSUME TypeOK, NEW r \in Recipients
    PROVE  IsFiniteSet(taken[r]) /\ Cardinality(taken[r]) \in Nat
<1>1. taken[r] \subseteq 1 .. MaxAttempts /\ MaxAttempts \in Nat
    BY SessionAssumption DEF TypeOK
<1>2. IsFiniteSet(1 .. MaxAttempts)
    BY <1>1, FS_Interval
<1>3. IsFiniteSet(taken[r])
    BY <1>1, <1>2, FS_Subset
<1> QED
    BY <1>3, FS_CardinalityType

\* An attempt adds at most one mail to what a recipient was sent.
LEMMA DeliverCounted ==
    ASSUME TypeOK, Counted, stage = "data", Deliver, NEW r \in Recipients
    PROVE  /\ \A n \in taken'[r] : n <= attempts
           /\ Cardinality(taken'[r]) <= doubt + 1
<1>1. Numbers /\ IsFiniteSet(taken[r]) /\ Cardinality(taken[r]) \in Nat
    BY NumbersType, TakenFinite
<1>2. attempts \notin taken[r] /\ \A n \in taken[r] : n <= attempts
    BY DEF Counted, Sending
<1>3. Cardinality(taken[r]) <= doubt
    BY <1>1 DEF Counted, Reported, TypeOK, Numbers
<1>4. taken'[r] = taken[r] \/ taken'[r] = taken[r] \cup {attempts}
    BY DEF Deliver
<1>5. Cardinality(taken[r] \cup {attempts}) = Cardinality(taken[r]) + 1
    BY <1>1, <1>2, FS_AddElement
<1>6. CASE taken'[r] = taken[r]
    BY <1>1, <1>2, <1>3, <1>6 DEF Numbers
<1>7. CASE taken'[r] = taken[r] \cup {attempts}
    BY <1>1, <1>2, <1>3, <1>5, <1>7 DEF Numbers
<1> QED
    BY <1>4, <1>6, <1>7

\* A step that sends nothing may move a mail from reported to in doubt, and may
\* raise the number of the attempt.
LEMMA CountedStays ==
    ASSUME TypeOK, Counted, UNCHANGED taken,
           \/ attempts' = attempts /\ (stage' \in Sending => stage \in Sending)
           \/ attempts' = attempts + 1,
           \/ doubt' = doubt /\ (Reported => Reported')
           \/ doubt' = doubt + 1
    PROVE  Counted'
<1> SUFFICES ASSUME NEW r \in Recipients
             PROVE  /\ \A n \in taken[r] : n <= attempts'
                    /\ stage' \in Sending => attempts' \notin taken[r]
                    /\ Cardinality(taken[r]) <= doubt' + 1
                    /\ ~ Reported' => Cardinality(taken[r]) <= doubt'
    BY DEF Counted
<1>1. Numbers /\ Cardinality(taken[r]) \in Nat /\ taken[r] \subseteq Nat
    BY NumbersType, TakenFinite DEF TypeOK
<1>2. /\ \A n \in taken[r] : n <= attempts
      /\ stage \in Sending => attempts \notin taken[r]
      /\ Cardinality(taken[r]) <= doubt + 1
      /\ ~ Reported => Cardinality(taken[r]) <= doubt
    BY DEF Counted
<1>3. \A n \in taken[r] : n <= attempts'
    BY <1>1, <1>2 DEF Numbers
<1>4. stage' \in Sending => attempts' \notin taken[r]
    BY <1>1, <1>2 DEF Numbers
<1>5. Cardinality(taken[r]) <= doubt' + 1 /\ (~ Reported' => Cardinality(taken[r]) <= doubt')
    BY <1>1, <1>2 DEF Numbers
<1> QED
    BY <1>3, <1>4, <1>5

LEMMA CountedStep == SessionInv /\ [Next]_vars => Counted'
<1> SUFFICES ASSUME TypeOK, Progress, Counted, [Next]_vars PROVE Counted'
    BY DEF SessionInv
<1>1. CASE Claim
    BY <1>1, CountedStays DEF Claim, Reported, TypeOK
<1>2. CASE Record
    <2>1. status = "active"
        BY <1>2 DEF Record, TypeOK
    <2>2. failure = "none" => status' = "delivered"
        BY <1>2 DEF Record
    <2>3. Reported => Reported'
        BY <2>1, <2>2 DEF Reported
    <2> QED
        BY <1>2, <2>3, CountedStays DEF Record, relay, Sending
<1>3. CASE WindowPasses \/ UNCHANGED vars
    BY <1>3 DEF WindowPasses, vars, relay, Counted, Reported
<1>4. ASSUME Same, Forward \/ Raises \/ Takes \/ Doubts \/ Leaves \/ LeavesBadly
      PROVE  Counted'
    <2>0. stage # "rest" /\ status = "active" /\ UNCHANGED <<status, attempts>>
        BY <1>4 DEF Same, Forward, Raises, Takes, Doubts, Leaves, LeavesBadly, Sending, TypeOK
    <2>1. CASE Forward
        <3>1. ~ Reported
            BY <2>0, <2>1 DEF Forward, Reported, Sending
        <3> QED
            BY <2>0, <2>1, <3>1, CountedStays DEF Forward, relay
    <2>2. CASE Raises
        <3>1. ~ Reported
            BY <2>0, <2>2 DEF Raises, Reported, Sending
        <3> QED
            BY <2>0, <2>2, <3>1, CountedStays DEF Raises, relay
    <2>3. CASE Takes \/ Doubts
        <3>1. stage = "data" /\ Deliver /\ stage' = "quit"
            BY <2>3 DEF Takes, Doubts
        <3>2. doubt \in Nat /\ failure = "none"
            BY <3>1, NumbersType DEF Numbers, Progress, Sending
        <3>3. doubt' = doubt + 1 \/ (doubt' = doubt /\ Reported')
            BY <2>3, <3>1, <3>2 DEF Takes, Doubts, Reported
        <3> SUFFICES ASSUME NEW r \in Recipients
                     PROVE  /\ \A n \in taken'[r] : n <= attempts
                            /\ Cardinality(taken'[r]) <= doubt' + 1
                            /\ ~ Reported' => Cardinality(taken'[r]) <= doubt'
            BY <2>0, <3>1 DEF Counted, Sending
        <3>4. /\ \A n \in taken'[r] : n <= attempts
              /\ Cardinality(taken'[r]) <= doubt + 1
            BY <3>1, DeliverCounted
        <3>5. Cardinality(taken'[r]) \in Nat
            <4>1. taken'[r] = taken[r] \/ taken'[r] = taken[r] \cup {attempts}
                BY <3>1 DEF Deliver
            <4>2. IsFiniteSet(taken'[r])
                BY <4>1, TakenFinite, FS_AddElement
            <4> QED
                BY <4>2, FS_CardinalityType
        <3> QED
            BY <3>2, <3>3, <3>4, <3>5
    <2>4. CASE Leaves
        <3>1. Reported => Reported'
            BY <2>0, <2>4 DEF Leaves, Reported
        <3> QED
            BY <2>0, <2>4, <3>1, CountedStays DEF Leaves, relay, Sending
    <2>5. CASE LeavesBadly
        <3>1. failure # "none" => ~ Reported
            BY <2>0, <2>5 DEF LeavesBadly, Reported
        <3> QED
            BY <2>0, <2>5, <3>1, CountedStays DEF LeavesBadly, Sending
    <2> QED
        BY <1>4, <2>1, <2>2, <2>3, <2>4, <2>5
<1> QED
    BY <1>1, <1>2, <1>3, <1>4, SendEffect, PrepareEffect DEF Next, Attempt

LEMMA SomebodyTookStep == SessionInv /\ [Next]_vars => SomebodyTook'
<1> SUFFICES ASSUME TypeOK, Progress, SomebodyTook, [Next]_vars PROVE SomebodyTook'
    BY DEF SessionInv
<1>1. CASE Claim
    BY <1>1 DEF Claim, SomebodyTook, Reported
<1>2. CASE Record
    <2>1. stage' # "data" /\ UNCHANGED taken /\ (Reported' => Reported)
        BY <1>2 DEF Record, Reported, relay
    <2> QED
        BY <2>1 DEF SomebodyTook
<1>3. CASE WindowPasses \/ UNCHANGED vars
    BY <1>3 DEF WindowPasses, vars, relay, SomebodyTook, Reported
<1>4. ASSUME Send \/ Prepare PROVE stage' = "data" => \E r \in Recipients : answer'[r] = "accepted"
    BY <1>4 DEF Send, Prepare, Connect, Hello, StartTls, Rehello, Login, Guard, Mail, Rcpt, Data,
            Quit, Proceed, Raise, RaiseOutside
<1>5. ASSUME Same, Forward \/ Raises \/ Takes \/ Doubts \/ Leaves \/ LeavesBadly
      PROVE  Reported' => \E r \in Recipients : taken'[r] # {}
    <2>0. status' = "active" /\ status = "active"
        BY <1>5 DEF Same, Forward, Raises, Takes, Doubts, Leaves, LeavesBadly, Sending, TypeOK
    <2>1. CASE Forward \/ Raises \/ LeavesBadly
        BY <2>0, <2>1 DEF Forward, Raises, LeavesBadly, Reported, Sending, Errors
    <2>2. CASE Takes \/ Doubts
        <3>1. PICK r \in Recipients : answer[r] = "accepted"
            BY <2>2 DEF Takes, Doubts, SomebodyTook
        <3>2. attempts \in taken'[r]
            BY <2>2, <3>1 DEF Takes, Doubts, Deliver
        <3> QED
            BY <3>2
    <2>3. CASE Leaves
        BY <2>0, <2>3 DEF Leaves, Reported, relay, SomebodyTook
    <2> QED
        BY <1>5, <2>1, <2>2, <2>3
<1>6. CASE Send \/ Prepare
    BY <1>4, <1>5, <1>6, SendEffect, PrepareEffect DEF SomebodyTook
<1> QED
    BY <1>1, <1>2, <1>3, <1>6 DEF Next, Attempt
-----------------------------------------------------------------------------
LEMMA Inductive == SessionInv /\ [Next]_vars => SessionInv'
BY TypeStep, ProgressStep, ClearStep, SizeStep, CountedStep, SomebodyTookStep DEF SessionInv

LEMMA InvHolds == Spec => []SessionInv
BY InitInv, Inductive, PTL DEF Spec

\* Every state of a session is one its variables are declared for, whatever the
\* relay replies, and no attempt is made past MAIL_REPORT_MAX_ATTEMPTS.
THEOREM SessionTypeCorrect == Spec => []TypeOK
<1>1. SessionInv => TypeOK
    BY DEF SessionInv
<1> QED
    BY <1>1, InvHolds, PTL

\* Credentials and reports are never sent before the connection is encrypted when
\* SMTP_SECURITY asks for that.
THEOREM NothingInTheClearHolds == Spec => []NothingInTheClear
<1>1. SessionInv => NothingInTheClear
    BY DEF SessionInv, Encrypted
<1> QED
    BY <1>1, InvHolds, PTL

\* Whatever the length of the report and the SIZE of the relay, a report goes out
\* over that SIZE by its line ends at most, and none is given up that fits.
THEOREM SizeHonouredHolds == Spec => []SizeHonoured
<1>1. SessionInv => SizeHonoured
    BY SizeType DEF SessionInv, SizeInv, SizeHonoured, Wire
<1> QED
    BY <1>1, InvHolds, PTL

\* A recipient is sent a report at most once more than there were sessions that
\* ended in doubt.
THEOREM DuplicatesNeedDoubtHolds == Spec => []DuplicatesNeedDoubt
<1>1. SessionInv => DuplicatesNeedDoubt
    <2> SUFFICES ASSUME TypeOK, Counted, NEW r \in Recipients
                 PROVE  Cardinality(taken[r]) <= 1 + doubt
        BY DEF SessionInv, DuplicatesNeedDoubt
    <2>1. Numbers /\ Cardinality(taken[r]) \in Nat
        BY NumbersType, TakenFinite
    <2> QED
        BY <2>1 DEF Counted, Numbers
<1> QED
    BY <1>1, InvHolds, PTL

\* A report that is given up without a session in doubt was taken for nobody.
THEOREM FailedMeansUnsentHolds == Spec => []FailedMeansUnsent
<1>1. SessionInv => FailedMeansUnsent
    <2> SUFFICES ASSUME TypeOK, Counted, status = "failed", doubt = 0, NEW r \in Recipients
                 PROVE  taken[r] = {}
        BY DEF SessionInv, FailedMeansUnsent
    <2>1. IsFiniteSet(taken[r]) /\ Cardinality(taken[r]) \in Nat
        BY TakenFinite
    <2>2. ~ Reported
        BY DEF TypeOK, Reported
    <2>3. Cardinality(taken[r]) = 0
        BY <2>1, <2>2 DEF Counted
    <2> QED
        BY <2>1, <2>3, FS_EmptySet
<1> QED
    BY <1>1, InvHolds, PTL
-----------------------------------------------------------------------------
(* The session implements ReportService.                                   *)

Everything == UNION {taken[r] : r \in Recipients}
Status == [j \in {"job"} |-> IF status \in {"queued", "active"} THEN "pending" ELSE status]
Mails == [j \in {"job"} |-> Cardinality(Everything)]

LEMMA EverythingFinite == TypeOK => IsFiniteSet(Everything) /\ Cardinality(Everything) \in Nat
<1> SUFFICES ASSUME TypeOK PROVE IsFiniteSet(Everything) /\ Cardinality(Everything) \in Nat
    OBVIOUS
<1>1. Everything \subseteq 1 .. MaxAttempts /\ MaxAttempts \in Nat
    BY SessionAssumption DEF TypeOK, Everything
<1>2. IsFiniteSet(1 .. MaxAttempts)
    BY <1>1, FS_Interval
<1>3. IsFiniteSet(Everything)
    BY <1>1, <1>2, FS_Subset
<1> QED
    BY <1>3, FS_CardinalityType

\* A step that sends nothing and settles nothing is none of the caller's business.
LEMMA ServiceStutter ==
    ASSUME UNCHANGED taken,
           status' = status \/ {status, status'} \subseteq {"queued", "active"}
    PROVE  UNCHANGED Service!vars
<1>1. Status' = Status
    BY DEF Status
<1>2. Mails' = Mails
    BY DEF Mails, Everything
<1> QED
    BY <1>1, <1>2 DEF Service!vars, Status, Mails, Everything

\* The content of one attempt is one mail, however many recipients it has.
LEMMA DeliverMails ==
    ASSUME TypeOK, Counted, SomebodyTook, stage = "data", Deliver, UNCHANGED status
    PROVE  Service!Mail("job")
<1>1. PICK r \in Recipients : answer[r] = "accepted"
    BY DEF SomebodyTook
<1>2. attempts \notin Everything
    BY DEF Counted, Sending, Everything
<1>3. Everything' = Everything \cup {attempts}
    <2>1. ASSUME NEW n \in Everything' PROVE n \in Everything \cup {attempts}
        BY DEF Everything, Deliver
    <2>2. attempts \in taken'[r]
        BY <1>1 DEF Deliver
    <2>3. ASSUME NEW q \in Recipients PROVE taken[q] \subseteq taken'[q]
        BY DEF Deliver
    <2> QED
        BY <2>1, <2>2, <2>3 DEF Everything
<1>4. Cardinality(Everything') = Cardinality(Everything) + 1
    BY <1>2, <1>3, EverythingFinite, FS_AddElement
<1>5. Mails' = [Mails EXCEPT !["job"] = @ + 1]
    BY <1>4 DEF Mails
<1>6. Status' = Status /\ Status["job"] = "pending"
    BY DEF Status, TypeOK
<1> QED
    BY <1>5, <1>6 DEF Service!Mail, Status, Mails, Everything

\* What process_one records settles the report or leaves it pending, and a report
\* recorded as delivered was taken.
LEMMA RecordSettles ==
    ASSUME TypeOK, SomebodyTook, Record
    PROVE  Service!Confirm("job") \/ Service!GiveUp("job") \/ UNCHANGED Service!vars
<1>1. status = "active" /\ UNCHANGED taken
    BY DEF Record, TypeOK, relay
<1>2. Mails' = Mails /\ Status["job"] = "pending"
    BY <1>1 DEF Mails, Status, Everything
<1>3. CASE status' = "delivered"
    <2>1. failure = "none" /\ stage = "ended"
        BY <1>3 DEF Record
    <2>2. Everything # {}
        BY <2>1 DEF SomebodyTook, Reported, Everything
    <2>3. Mails["job"] > 0
        BY <2>2, EverythingFinite, FS_EmptySet DEF Mails
    <2>4. Status' = [Status EXCEPT !["job"] = "delivered"]
        BY <1>3 DEF Status
    <2> QED
        BY <1>2, <2>3, <2>4 DEF Service!Confirm, Status, Mails, Everything
<1>4. CASE status' = "failed"
    <2>1. Status' = [Status EXCEPT !["job"] = "failed"]
        BY <1>4 DEF Status
    <2> QED
        BY <1>2, <2>1 DEF Service!GiveUp, Status, Mails, Everything
<1>5. CASE status' = "queued"
    BY <1>1, <1>5, ServiceStutter
<1> QED
    BY <1>3, <1>4, <1>5 DEF Record

LEMMA ServiceStep == SessionInv /\ [Next]_vars => [Service!Next]_(Service!vars)
<1> SUFFICES ASSUME TypeOK, Counted, SomebodyTook, [Next]_vars
             PROVE  [Service!Next]_(Service!vars)
    BY DEF SessionInv
<1>1. CASE Claim
    BY <1>1, ServiceStutter DEF Claim
<1>2. CASE Record
    <2>1. Service!Next \/ UNCHANGED Service!vars
        BY <1>2, RecordSettles DEF Service!Next
    <2> QED
        BY <2>1
<1>3. CASE WindowPasses \/ UNCHANGED vars
    BY <1>3, ServiceStutter DEF WindowPasses, vars, relay
<1>4. ASSUME Same, Forward \/ Raises \/ Takes \/ Doubts \/ Leaves \/ LeavesBadly
      PROVE  [Service!Next]_(Service!vars)
    <2>1. CASE Forward \/ Raises \/ Leaves \/ LeavesBadly
        BY <1>4, <2>1, ServiceStutter DEF Same, Forward, Raises, Leaves, LeavesBadly, relay
    <2>2. CASE Takes \/ Doubts
        <3>1. Service!Mail("job")
            BY <1>4, <2>2, DeliverMails DEF Takes, Doubts, Same
        <3>2. Service!Next
            BY <3>1 DEF Service!Next
        <3> QED
            BY <3>2
    <2> QED
        BY <1>4, <2>1, <2>2
<1> QED
    BY <1>1, <1>2, <1>3, <1>4, SendEffect, PrepareEffect DEF Next, Attempt

\* Every step of a session is one the service allows: one mail at a time while the
\* report is pending, and confirmed only after the relay took it for somebody.
THEOREM SessionImplementsService == Spec => ServiceSteps
BY InvHolds, ServiceStep, PTL DEF Spec, ServiceSteps
=============================================================================
