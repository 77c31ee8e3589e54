---------------------------- MODULE MailSession ----------------------------
(***************************************************************************)
(* One report on its way through the relay: process_one of                 *)
(* delivery/jobs.py, deliver, and send_email of mail/mailer.py with the    *)
(* smtplib session it drives.  DeliveryQueue takes a delivery for one      *)
(* step; here every reply of the relay is one, and an attempt that raises  *)
(* is followed by the next one.                                            *)
(*                                                                         *)
(* A reply is told apart by what smtplib and is_permanent tell apart:      *)
(*   ok       the code the command waits for                               *)
(*   temp     any other code below 500, closing is 421 among them          *)
(*   perm     5xx                                                          *)
(*   lost     no reply: the connection drops or the socket times out       *)
(***************************************************************************)
EXTENDS Naturals, FiniteSets

CONSTANTS
    Recipients,     \* the addresses of the To header
    MaxAttempts,    \* MAIL_REPORT_MAX_ATTEMPTS
    Bytes,          \* the length of the message as as_bytes() writes it, with LF
    Lines,          \* its line ends: smtplib sends a CRLF for each
    Sizes           \* what a relay may advertise as SIZE, 0 for no limit

ASSUME SessionAssumption ==
    /\ IsFiniteSet(Recipients) /\ Recipients # {}
    /\ MaxAttempts \in Nat \ {0}
    /\ Bytes \in Nat /\ Lines \in Nat
    /\ Sizes \subseteq Nat

VARIABLES
    status,     \* the state column of the job
    attempts,   \* the attempts column of the job
    late,       \* has MAIL_REPORT_RETRY_WINDOW_SECONDS passed?
    stage,      \* the command send_email is at
    cfg,        \* the SMTP settings deliver loaded for this attempt
    tls,        \* is the connection encrypted?
    open,       \* is the connection there?
    features,   \* what the last EHLO advertised
    answer,     \* what the relay answered for each recipient
    failure,    \* what is_permanent says of the exception in flight
    taken,      \* the attempts in which the relay took the report, for each recipient
    cause,      \* the reply behind the exception, for the properties only
    doubt       \* the sessions so far that ended in doubt, for the properties only

vars == <<status, attempts, late, stage, cfg, tls, open, features, answer, failure, taken,
          cause, doubt>>

Unsure == {"temp", "closing"}
Refusals == Unsure \cup {"perm"}
Replies == {"ok", "lost"} \cup Refusals

Configs == [security : {"ssl", "starttls", "none"}, user : BOOLEAN]
Features == [starttls : BOOLEAN, auth : {"none", "unsuitable", "usable"},
             size : Sizes \cup {0}]
NoFeatures == [starttls |-> FALSE, auth |-> "none", size |-> 0]

\* The length smtplib announces with MAIL and sends.
Wire == Bytes + Lines

Stages == {"rest", "prepare", "connect", "hello", "starttls", "rehello", "login", "guard",
           "mail", "rcpt", "data", "quit", "ended"}

TypeOK ==
    /\ status \in {"queued", "active", "delivered", "failed"}
    /\ attempts \in 0 .. MaxAttempts
    /\ late \in BOOLEAN
    /\ stage \in Stages
    /\ status = "active" <=> stage # "rest"
    /\ cfg \in Configs
    /\ tls \in BOOLEAN
    /\ open \in BOOLEAN
    /\ features \in Features
    /\ answer \in [Recipients -> {"unasked", "accepted", "refused"}]
    /\ failure \in {"none", "transient", "permanent"}
    /\ taken \in [Recipients -> SUBSET (1 .. MaxAttempts)]
    /\ cause \in Replies \cup {"local", "oversize"}
    /\ doubt \in 0 .. MaxAttempts

Init ==
    /\ status = "queued"
    /\ attempts = 0
    /\ late = FALSE
    /\ stage = "rest"
    /\ cfg = [security |-> "none", user |-> FALSE]
    /\ tls = FALSE
    /\ open = FALSE
    /\ features = NoFeatures
    /\ answer = [r \in Recipients |-> "unasked"]
    /\ failure = "none"
    /\ taken = [r \in Recipients |-> {}]
    /\ cause = "ok"
    /\ doubt = 0
-----------------------------------------------------------------------------
(* What an exception amounts to.                                           *)

\* is_permanent of an exception that carries the code of the reply.
ByCode(reply) == IF reply = "perm" THEN "permanent" ELSE "transient"

\* The body of the with block raises: __exit__ still sends QUIT.
Raise(kind, reply) ==
    /\ failure' = kind
    /\ cause' = reply
    /\ open' = (reply \notin {"lost", "closing"})
    /\ stage' = "quit"

\* Nothing was entered yet, so there is nothing to close.
RaiseOutside(kind, reply) ==
    /\ failure' = kind
    /\ cause' = reply
    /\ stage' = "ended"
    /\ UNCHANGED open

Proceed(next) == stage' = next /\ UNCHANGED <<failure, cause, open>>

report == <<status, attempts, late>>
relay == <<taken, doubt>>
-----------------------------------------------------------------------------
(* process_one and deliver.                                                *)

Claim ==
    /\ status = "queued"
    /\ status' = "active"
    /\ attempts' = attempts + 1
    /\ stage' = "prepare"
    /\ tls' = FALSE /\ open' = FALSE /\ features' = NoFeatures
    /\ answer' = [r \in Recipients |-> "unasked"]
    /\ failure' = "none" /\ cause' = "ok"
    /\ UNCHANGED <<late, cfg, taken, doubt>>

\* deliver reads the attachments, the logo and the settings again for every
\* attempt; a file that cannot be read is an OSError, the rest is permanent.
Prepare ==
    /\ stage = "prepare"
    /\ \/ Proceed("connect") /\ cfg' \in Configs
       \/ /\ \E kind \in {"transient", "permanent"} : RaiseOutside(kind, "local")
          /\ UNCHANGED cfg
    /\ UNCHANGED <<report, tls, features, answer, relay>>

\* The retry window passes while the report is under way.
WindowPasses ==
    /\ ~ late
    /\ late' = TRUE
    /\ UNCHANGED <<status, attempts, stage, cfg, tls, open, features, answer, failure, cause,
                   relay>>

\* Faulty variants of the bookkeeping: one attempt too many, an error taken for
\* success, a retry that is never written.
RecordTooLate ==
    /\ stage = "ended"
    /\ stage' = "rest"
    /\ status' = IF failure = "none" THEN "delivered"
                 ELSE IF failure = "permanent" \/ late \/ attempts > MaxAttempts THEN "failed"
                 ELSE "queued"
    /\ UNCHANGED <<attempts, late, cfg, tls, open, features, answer, failure, cause, relay>>

RecordSuccess ==
    /\ stage = "ended"
    /\ stage' = "rest"
    /\ status' = IF failure = "permanent" THEN "failed" ELSE "delivered"
    /\ UNCHANGED <<attempts, late, cfg, tls, open, features, answer, failure, cause, relay>>

RecordForgetsRetry ==
    /\ stage = "ended"
    /\ stage' = "rest"
    /\ status' = IF failure = "none" THEN "delivered"
                 ELSE IF failure = "permanent" \/ late \/ attempts >= MaxAttempts THEN "failed"
                 ELSE status
    /\ UNCHANGED <<attempts, late, cfg, tls, open, features, answer, failure, cause, relay>>

\* What process_one makes of the attempt.
Record ==
    /\ stage = "ended"
    /\ stage' = "rest"
    /\ status' = IF failure = "none" THEN "delivered"
                 ELSE IF failure = "permanent" \/ late \/ attempts >= MaxAttempts THEN "failed"
                 ELSE "queued"
    /\ UNCHANGED <<attempts, late, cfg, tls, open, features, answer, failure, cause, relay>>
-----------------------------------------------------------------------------
(* send_email up to the mail transaction.                                  *)

\* smtplib.SMTP(...) connects; SMTP_SSL wraps the socket first, and a
\* certificate that does not verify is a ValueError.
Connect ==
    /\ stage = "connect"
    /\ \/ /\ stage' = "hello" /\ open' = TRUE
          /\ tls' = (cfg.security = "ssl")
          /\ UNCHANGED <<failure, cause>>
       \/ /\ \E reply \in Replies \ {"ok"} : RaiseOutside(ByCode(reply), reply)
          /\ UNCHANGED tls
       \/ cfg.security = "ssl" /\ RaiseOutside("permanent", "local") /\ UNCHANGED tls
    /\ UNCHANGED <<report, cfg, features, answer, relay>>

\* ehlo_or_helo_if_needed: HELO when EHLO is refused, and no features then.
Hello ==
    /\ stage = "hello"
    /\ \/ /\ Proceed(IF cfg.security = "starttls" THEN "starttls" ELSE "login")
          /\ features' \in Features
       \/ /\ \E reply \in Replies \ {"ok"} : Raise(ByCode(reply), reply)
          /\ UNCHANGED features
    /\ UNCHANGED <<report, cfg, tls, answer, relay>>

\* Faulty variant: carry on unencrypted when the relay has no STARTTLS.
StartTlsIfOffered ==
    /\ stage = "starttls"
    /\ \/ ~ features.starttls /\ Proceed("login") /\ UNCHANGED <<tls, features>>
       \/ features.starttls /\ Proceed("rehello") /\ tls' = TRUE /\ features' = NoFeatures
    /\ UNCHANGED <<report, cfg, answer, relay>>

\* A failed handshake leaves no connection to send QUIT on.
StartTls ==
    /\ stage = "starttls"
    /\ \/ ~ features.starttls /\ Raise("permanent", "local") /\ UNCHANGED <<tls, features>>
       \/ features.starttls /\ Proceed("rehello") /\ tls' = TRUE /\ features' = NoFeatures
       \/ /\ features.starttls
          /\ \/ \E reply \in Replies \ {"ok"} : Raise(ByCode(reply), reply)
             \/ /\ failure' = "permanent" /\ cause' = "local"
                /\ open' = FALSE /\ stage' = "quit"
          /\ UNCHANGED <<tls, features>>
    /\ UNCHANGED <<report, cfg, answer, relay>>

\* s.ehlo() does not raise on a refusal, and nothing says hello again after it.
Rehello ==
    /\ stage = "rehello"
    /\ \/ Proceed("login") /\ features' \in Features
       \/ Raise("transient", "lost") /\ UNCHANGED features
    /\ UNCHANGED <<report, cfg, tls, answer, relay>>

\* Every refusal of AUTH is an SMTPAuthenticationError, whatever its code.
Login ==
    /\ stage = "login"
    /\ \/ (cfg.user => features.auth = "usable") /\ Proceed("guard")
       \/ /\ cfg.user
          /\ \/ features.auth = "none" /\ Raise("permanent", "local")
             \/ features.auth = "unsuitable" /\ Raise("transient", "local")
             \/ features.auth = "usable" /\ \E reply \in Refusals : Raise("permanent", reply)
             \/ features.auth = "usable" /\ Raise("transient", "lost")
    /\ UNCHANGED <<report, cfg, tls, features, answer, relay>>

GuardOfAnyHello == \* faulty variant: the SIZE of another EHLO than the last
    /\ stage = "guard"
    /\ \E size \in Sizes :
        IF size > 0 /\ Bytes > size THEN Raise("permanent", "oversize") ELSE Proceed("mail")
    /\ UNCHANGED <<report, cfg, tls, features, answer, relay>>

\* _guard_size compares the length with LF line ends; MessageTooLarge is
\* permanent.
Guard ==
    /\ stage = "guard"
    /\ IF features.size > 0 /\ Bytes > features.size
       THEN Raise("permanent", "oversize") ELSE Proceed("mail")
    /\ UNCHANGED <<report, cfg, tls, features, answer, relay>>
-----------------------------------------------------------------------------
(* The mail transaction of send_message, and the QUIT that ends the block. *)

\* Every refusal of MAIL is an SMTPSenderRefused, whatever its code; that of a
\* relay which finds the announced Wire over its SIZE is one of them.
Mail ==
    /\ stage = "mail"
    /\ \/ Proceed("rcpt")
       \/ \E reply \in Refusals : Raise("permanent", reply)
       \/ Raise("transient", "lost")
    /\ UNCHANGED <<report, cfg, tls, features, answer, relay>>

\* A refused recipient is remembered, 421 and a refusal of every one of them
\* raise SMTPRecipientsRefused, and so permanent.
Rcpt ==
    /\ stage = "rcpt"
    /\ \E r \in Recipients, reply \in Replies :
        /\ answer[r] = "unasked"
        /\ answer' = [answer EXCEPT ![r] = IF reply = "ok" THEN "accepted" ELSE "refused"]
        /\ \/ reply = "lost" /\ Raise("transient", "lost")
           \/ reply = "closing" /\ Raise("permanent", "closing")
           \/ /\ reply \in {"ok", "temp", "perm"}
              /\ \/ \E q \in Recipients : answer'[q] = "unasked" /\ Proceed("rcpt")
                 \/ /\ \A q \in Recipients : answer'[q] = "refused"
                    /\ Raise("permanent", reply)
                 \/ /\ \A q \in Recipients : answer'[q] # "unasked"
                    /\ \E q \in Recipients : answer'[q] = "accepted"
                    /\ Proceed("data")
    /\ UNCHANGED <<report, cfg, tls, features, relay>>

Deliver ==
    taken' = [r \in Recipients |->
                IF answer[r] = "accepted" THEN taken[r] \cup {attempts} ELSE taken[r]]

\* Faulty variant: a refused recipient is reported after the mail went out.
DataReportsRefused ==
    /\ stage = "data"
    /\ Deliver
    /\ IF \E r \in Recipients : answer[r] = "refused"
       THEN Raise("permanent", "perm") ELSE Proceed("quit")
    /\ UNCHANGED <<report, cfg, tls, features, answer, doubt>>

\* DATA, the content, and the reply that makes the mail the relay's. When that
\* reply is lost the relay may have taken the mail or not. The dictionary of
\* refused recipients that send_message returns is dropped.
Data ==
    /\ stage = "data"
    /\ \/ Deliver /\ Proceed("quit") /\ UNCHANGED doubt
       \/ /\ \E reply \in Refusals : Raise(ByCode(reply), reply)
          /\ UNCHANGED relay
       \/ Raise("transient", "lost") /\ UNCHANGED relay
       \/ Raise("transient", "lost") /\ Deliver /\ doubt' = doubt + 1
    /\ UNCHANGED <<report, cfg, tls, features, answer>>

QuitNeedsReply == \* faulty variant: a connection that is gone is an error
    /\ stage = "quit"
    /\ stage' = "ended"
    /\ open' = FALSE
    /\ failure' \in {failure, "transient"}
    /\ UNCHANGED <<report, cfg, tls, features, answer, cause, relay>>

\* SMTP.__exit__: a reply other than 221 raises, in place of what the block
\* raised or of its success; a connection that is gone is as good as closed.
Quit ==
    /\ stage = "quit"
    /\ stage' = "ended"
    /\ open' = FALSE
    /\ \/ UNCHANGED <<failure, cause, doubt>>
       \/ /\ open
          /\ \E reply \in Refusals : failure' = ByCode(reply) /\ cause' = reply
          /\ doubt' = IF failure = "none" THEN doubt + 1 ELSE doubt
    /\ UNCHANGED <<report, cfg, tls, features, answer, taken>>
-----------------------------------------------------------------------------
Send ==
    \/ Connect \/ Hello \/ StartTls \/ Rehello \/ Login \/ Guard
    \/ Mail \/ Rcpt \/ Data \/ Quit

Attempt == Claim \/ Prepare \/ Send \/ Record

Next == Attempt \/ WindowPasses

Spec == Init /\ [][Next]_vars

\* The worker goes on, and timeout=60 ends every wait for the relay.
FairSpec == Spec /\ WF_vars(Attempt)
-----------------------------------------------------------------------------
(* What holds.                                                             *)

\* Unless SMTP_SECURITY is none, nothing past the greeting, the credentials and
\* the report among it, is sent before the connection is encrypted: a relay that
\* leaves STARTTLS out of its EHLO is refused and not talked to in the clear.
NothingInTheClear ==
    stage \in {"login", "guard", "mail", "rcpt", "data"} /\ cfg.security # "none" => tls

\* The SIZE that counts is the one of the last EHLO, the encrypted one after
\* STARTTLS. A report is offered over it by no more than its line ends, which the
\* comparison leaves out, and is given up as too large only if it is.
SizeHonoured ==
    features.size > 0 =>
        /\ stage \in {"mail", "rcpt", "data"} => Wire <= features.size + Lines
        /\ cause = "oversize" => Wire > features.size

\* A recipient gets a report twice only when a session ended in doubt: the reply
\* to the content was lost, or QUIT was answered with an error.
DuplicatesNeedDoubt == \A r \in Recipients : Cardinality(taken[r]) <= 1 + doubt

\* A report that failed went to nobody, unless a session ended in doubt.
FailedMeansUnsent ==
    status = "failed" /\ doubt = 0 => \A r \in Recipients : taken[r] = {}

\* To a caller of report_status the report is submitted, mailed and settled once,
\* and reported delivered only if the relay took it for somebody.
Service == INSTANCE ReportService WITH
    Jobs <- {"job"},
    status <- [j \in {"job"} |-> IF status \in {"queued", "active"} THEN "pending" ELSE status],
    mails <- [j \in {"job"} |-> Cardinality(UNION {taken[r] : r \in Recipients})]

ServiceSteps == [][Service!Next]_(Service!vars)

\* Every report settles: no reply, and no lack of one, holds an attempt up.
SessionSettles == <>(status \in {"delivered", "failed"})
-----------------------------------------------------------------------------
(* What the documentation says and the code does not do.                   *)

\* "report_status reports whether it actually went out": a report said to be
\* delivered was taken for every recipient.
DeliveredToAll == status = "delivered" => \A r \in Recipients : taken[r] # {}

\* "retries on transient SMTP failures": a report with attempts and time left is
\* not failed by a reply below 500.
TransientRetried ==
    status = "failed" /\ attempts < MaxAttempts /\ ~ late => cause \notin Unsure
=============================================================================
