-------------------------- MODULE AttachmentSpool --------------------------
(***************************************************************************)
(* The files of the upload spool (storage/attachments.py) and everyone who *)
(* creates, reads or removes them: the upload handler, send_report, the    *)
(* delivery worker and the sweeper of delivery/jobs.py.  The handlers run  *)
(* on the event loop and in threads, the worker and the sweeper in threads *)
(* of their own, and nothing locks the spool: a step here is one pass over *)
(* the directory or one statement on the jobs table.                       *)
(*                                                                         *)
(* Ids are random and never come back, so a file is known by its id.  A    *)
(* server that dies is back before the next step.                          *)
(***************************************************************************)
EXTENDS Naturals, FiniteSets

CONSTANTS
    Files,          \* the att_ ids of the uploads
    Jobs,           \* the ids of the reports
    NoJob,          \* what a worker between two reports holds
    Expiry,         \* may a file outlive MAIL_REPORT_ATTACH_TTL?
    MaxCrashes      \* bound: deaths of the server in a behaviour

ASSUME SpoolAssumption ==
    /\ IsFiniteSet(Files) /\ IsFiniteSet(Jobs)
    /\ NoJob \notin Jobs
    /\ Expiry \in BOOLEAN
    /\ MaxCrashes \in Nat

VARIABLES
    file,       \* each file: not uploaded yet, in the spool within or past its TTL, or gone
    batch,      \* the ids the upload being handled has saved and not answered with
    told,       \* the ids uploads were answered with: no caller knows another one
    state,      \* the state column of each job
    call,       \* how far the send_report call behind each job is
    refs,       \* the attachments of each job's payload
    kept,       \* the attachment_ids column of each job
    worker,     \* the step process_one is at, and the job it is at it for
    carried,    \* the attachments in the mail the relay took, for each job
    sweep,      \* the step of the sweeper, what protected_ids returned to it, and, for
                \* the properties only, the jobs pending at that moment
    crashes     \* deaths of the server so far

vars == <<file, batch, told, state, call, refs, kept, worker, carried, sweep, crashes>>
uploads == <<batch, told>>

Pending == {"queued", "active"}
Settled == {"delivered", "failed"}

TypeOK ==
    /\ file \in [Files -> {"unused", "fresh", "expired", "gone"}]
    /\ told \subseteq Files /\ batch \subseteq Files \ told
    /\ state \in [Jobs -> {"absent"} \cup Pending \cup Settled]
    /\ call \in [Jobs -> {"none", "resolved", "checked", "over"}]
    /\ refs \in [Jobs -> SUBSET Files]
    /\ kept \in [Jobs -> SUBSET Files]
    /\ \A j \in Jobs : kept[j] \subseteq refs[j]
    /\ worker \in [step : {"claim", "resolve", "send", "sent", "raised", "delete"},
                   job : Jobs \cup {NoJob}, permanent : BOOLEAN]
    /\ worker.step = "claim" <=> worker.job = NoJob
    /\ carried \in [Jobs -> SUBSET Files]
    /\ sweep \in [step : {"rest", "purge"}, keep : SUBSET Files, saw : SUBSET Jobs]
    /\ crashes \in Nat

Idle == [step |-> "claim", job |-> NoJob, permanent |-> FALSE]
Resting == [step |-> "rest", keep |-> {}, saw |-> {}]

Init ==
    /\ file = [f \in Files |-> "unused"]
    /\ batch = {} /\ told = {}
    /\ state = [j \in Jobs |-> "absent"]
    /\ call = [j \in Jobs |-> "none"]
    /\ refs = [j \in Jobs |-> {}]
    /\ kept = [j \in Jobs |-> {}]
    /\ worker = Idle
    /\ carried = [j \in Jobs |-> {}]
    /\ sweep = Resting
    /\ crashes = 0
-----------------------------------------------------------------------------
(* The directory.                                                          *)

exists(f) == file[f] \in {"fresh", "expired"}

Without(removed) == [f \in Files |-> IF f \in removed /\ exists(f) THEN "gone" ELSE file[f]]

\* What purge_expired removes, given what it is told to keep.
Expired(keep) == {f \in Files : file[f] = "expired"} \ keep

\* save_upload, for one file of a request; the handler does not give the event
\* loop away before it has answered. It purges first, and tells purge_expired to
\* keep nothing.
SaveUpload(f) ==
    /\ file[f] = "unused"
    /\ file' = [Without(Expired({})) EXCEPT ![f] = "fresh"]
    /\ batch' = batch \cup {f}
    /\ UNCHANGED <<told, state, call, refs, kept, worker, carried, sweep, crashes>>

AnswerUpload ==
    /\ batch # {}
    /\ told' = told \cup batch
    /\ batch' = {}
    /\ UNCHANGED <<file, state, call, refs, kept, worker, carried, sweep, crashes>>

\* A further file is refused: att.delete takes the batch back, all but what it
\* cannot unlink. After an OSError, or when bundles.create raises, nothing does.
UploadFails ==
    /\ batch # {}
    /\ \E deleted \in SUBSET batch : file' = Without(deleted)
    /\ batch' = {}
    /\ UNCHANGED <<told, state, call, refs, kept, worker, carried, sweep, crashes>>

\* The file's mtime falls behind now - MAIL_REPORT_ATTACH_TTL.
Expire(f) ==
    /\ Expiry
    /\ file[f] = "fresh"
    /\ file' = [file EXCEPT ![f] = "expired"]
    /\ UNCHANGED <<uploads, state, call, refs, kept, worker, carried, sweep, crashes>>
-----------------------------------------------------------------------------
(* send_report: the files of a bundle and the attachments are resolved,    *)
(* the report is rendered, what still exists becomes attachment_ids, and   *)
(* the job is inserted.  A call that finds a file missing queues nothing.  *)

Resolve(j, files) ==
    /\ call[j] = "none"
    /\ files # {} /\ files \subseteq told
    /\ \A f \in files : exists(f)
    /\ call' = [call EXCEPT ![j] = "resolved"]
    /\ refs' = [refs EXCEPT ![j] = files]
    /\ UNCHANGED <<file, uploads, state, kept, worker, carried, sweep, crashes>>

CheckExists(j) ==
    /\ call[j] = "resolved"
    /\ call' = [call EXCEPT ![j] = "checked"]
    /\ kept' = [kept EXCEPT ![j] = {f \in refs[j] : exists(f)}]
    /\ UNCHANGED <<file, uploads, state, refs, worker, carried, sweep, crashes>>

Enqueue(j) ==
    /\ call[j] = "checked"
    /\ call' = [call EXCEPT ![j] = "over"]
    /\ state' = [state EXCEPT ![j] = "queued"]
    /\ UNCHANGED <<file, uploads, refs, kept, worker, carried, sweep, crashes>>
-----------------------------------------------------------------------------
(* process_one, with what deliver reads and what it deletes.               *)

Claim(j) ==
    /\ worker = Idle
    /\ state[j] = "queued"
    /\ state' = [state EXCEPT ![j] = "active"]
    /\ worker' = [worker EXCEPT !.step = "resolve", !.job = j]
    /\ UNCHANGED <<file, uploads, call, refs, kept, carried, sweep, crashes>>

Raises(permanent) == worker' = [worker EXCEPT !.step = "raised", !.permanent = permanent]

\* Faulty variant: the attachments that are gone are left out.
ReadFoundFiles ==
    /\ worker.step = "resolve"
    /\ worker' = [worker EXCEPT !.step = "send"]
    /\ carried' = [carried EXCEPT ![worker.job] = {f \in refs[worker.job] : exists(f)}]
    /\ UNCHANGED <<file, uploads, state, call, refs, kept, sweep, crashes>>

\* deliver resolves every reference again. One that is gone is an
\* AttachmentError, permanent; one that goes between the listing and the read
\* is an OSError, and so transient.
ReadFiles ==
    /\ worker.step = "resolve"
    /\ IF \A f \in refs[worker.job] : exists(f)
       THEN /\ worker' = [worker EXCEPT !.step = "send"]
            /\ carried' = [carried EXCEPT ![worker.job] = refs[worker.job]]
       ELSE /\ \E permanent \in BOOLEAN : Raises(permanent)
            /\ UNCHANGED carried
    /\ UNCHANGED <<file, uploads, state, call, refs, kept, sweep, crashes>>

Send ==
    /\ worker.step = "send"
    /\ \/ worker' = [worker EXCEPT !.step = "sent"]
       \/ \E permanent \in BOOLEAN : Raises(permanent)
    /\ UNCHANGED <<file, uploads, state, call, refs, kept, carried, sweep, crashes>>

FinishReturns ==  \* faulty variant: the iteration ends without att.delete
    /\ \/ worker.step = "sent" /\ state' = [state EXCEPT ![worker.job] = "delivered"]
       \/ worker.step = "raised" /\ state' = [state EXCEPT ![worker.job] = "failed"]
    /\ worker' = [worker EXCEPT !.step = "claim", !.permanent = FALSE]
    /\ UNCHANGED <<file, uploads, call, refs, kept, carried, sweep, crashes>>

\* _finish: the row is settled first, its files are deleted after that.
Finish ==
    /\ \/ worker.step = "sent" /\ state' = [state EXCEPT ![worker.job] = "delivered"]
       \/ worker.step = "raised" /\ state' = [state EXCEPT ![worker.job] = "failed"]
    /\ worker' = [worker EXCEPT !.step = "delete", !.permanent = FALSE]
    /\ UNCHANGED <<file, uploads, call, refs, kept, carried, sweep, crashes>>

RetryDeletes == \* faulty variant: every attempt ends with att.delete
    /\ worker.step = "raised" /\ ~ worker.permanent
    /\ state' = [state EXCEPT ![worker.job] = "queued"]
    /\ file' = Without(kept[worker.job])
    /\ worker' = Idle
    /\ UNCHANGED <<uploads, call, refs, kept, carried, sweep, crashes>>

\* _retry_later, for as long as gave_up does not make the failure final.
RetryLater ==
    /\ worker.step = "raised" /\ ~ worker.permanent
    /\ state' = [state EXCEPT ![worker.job] = "queued"]
    /\ worker' = Idle
    /\ UNCHANGED <<file, uploads, call, refs, kept, carried, sweep, crashes>>

\* att.delete, which passes over what it cannot unlink.
DeleteFiles ==
    /\ worker.step = "delete"
    /\ \E deleted \in SUBSET kept[worker.job] : file' = Without(deleted)
    /\ worker' = Idle
    /\ UNCHANGED <<uploads, state, call, refs, kept, carried, sweep, crashes>>
-----------------------------------------------------------------------------
(* run_sweeper: requeue_stale, protected_ids, purge_expired, in that order *)
(* and with nothing held between the last two.                             *)

\* Faulty variants of what a sweep protects: not the report being delivered, or
\* every report there ever was.
QueuedOnly == {j \in Jobs : state[j] = "queued"}
EveryJob == {j \in Jobs : state[j] # "absent"}

Protected == {j \in Jobs : state[j] \in Pending}

\* A claim whose server died is requeued once it is 900 seconds old; the worker
\* of this server is never that slow.
Requeued == [j \in Jobs |-> IF state[j] = "active" /\ worker.job # j THEN "queued" ELSE state[j]]

SweepReads ==
    /\ sweep.step = "rest"
    /\ state' \in {state, Requeued}
    /\ sweep' = [step |-> "purge",
                  keep |-> UNION {kept[j] : j \in Protected},
                  saw |-> {j \in Jobs : state[j] \in Pending}]
    /\ UNCHANGED <<file, uploads, call, refs, kept, worker, carried, crashes>>

SweepPurges ==
    /\ sweep.step = "purge"
    /\ file' = Without(Expired(sweep.keep))
    /\ sweep' = Resting
    /\ UNCHANGED <<uploads, state, call, refs, kept, worker, carried, crashes>>

\* Requests, the worker and the sweeper die; the spool and the database stay.
Crash ==
    /\ crashes < MaxCrashes
    /\ crashes' = crashes + 1
    /\ batch' = {}
    /\ worker' = Idle
    /\ sweep' = Resting
    /\ call' = [j \in Jobs |-> IF call[j] = "none" THEN "none" ELSE "over"]
    /\ UNCHANGED <<file, told, state, refs, kept, carried>>
-----------------------------------------------------------------------------
SendReport(j) == (\E files \in SUBSET Files : Resolve(j, files)) \/ CheckExists(j) \/ Enqueue(j)

EndAttempt == Finish \/ RetryLater

Worker == (\E j \in Jobs : Claim(j)) \/ ReadFiles \/ Send \/ EndAttempt \/ DeleteFiles

Sweeper == SweepReads \/ SweepPurges

Next ==
    \/ \E f \in Files : SaveUpload(f) \/ Expire(f)
    \/ AnswerUpload \/ UploadFails
    \/ \E j \in Jobs : SendReport(j)
    \/ Worker
    \/ Sweeper
    \/ Crash

Spec == Init /\ [][Next]_vars

\* The sweeper and the worker loop, files age, a claim whose server died does get
\* 900 seconds old, and gave_up ends the retries of a report (EveryReportSettles
\* of DeliveryQueue).
FairSpec ==
    /\ Spec
    /\ WF_vars(Worker) /\ SF_vars(Finish)
    /\ WF_vars(Sweeper) /\ SF_vars(SweepReads /\ state' = Requeued)
    /\ \A f \in Files : WF_vars(Expire(f))
-----------------------------------------------------------------------------
(* What holds.                                                             *)

\* The mail of a delivered report carried every attachment send_report accepted,
\* whatever went on in the spool since.
DeliveredComplete == \A j \in Jobs : state[j] = "delivered" => carried[j] = refs[j]

\* A file somebody was told of is removed within its TTL only for a report that
\* had it and settled: not by a purge, not with an upload that failed, not after a
\* failed attempt that is to be repeated.
FreshGoesWithItsReport ==
    [][\A f \in told : file[f] = "fresh" /\ file'[f] = "gone"
            => \E j \in Jobs : state[j] \in Settled /\ f \in kept[j]]_vars

\* A pending report loses a file it keeps in one of three ways only: an upload
\* purges the spool, a report that shares the file settles, or a sweep that read
\* protected_ids before the report was queued goes on to purge.
LossHasACause ==
    [][\A j \in Jobs : \A f \in kept[j] :
        state[j] \in Pending /\ exists(f) /\ file'[f] = "gone" =>
            \/ \E g \in Files : file[g] = "unused" /\ file'[g] # "unused"
            \/ \E k \in Jobs \ {j} : state[k] \in Settled /\ f \in kept[k]
            \/ sweep.step = "purge" /\ j \notin sweep.saw]_vars

\* What a settled report kept leaves the spool, also when the server died between
\* settling it and deleting its files: the TTL sees to it then.
SettledFilesGo ==
    \A j \in Jobs, f \in Files :
        state[j] \in Settled /\ f \in kept[j] ~> file[f] = "gone"
-----------------------------------------------------------------------------
(* What the documentation says and the code does not do.                   *)

\* A report's files are deleted "once sent", and the TTL is for "an unused
\* upload": a report still to be sent has the files it keeps.
FilesUntilSent == \A j \in Jobs : state[j] \in Pending => \A f \in kept[j] : exists(f)
=============================================================================
