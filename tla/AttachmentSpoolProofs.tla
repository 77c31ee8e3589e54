----------------------- MODULE AttachmentSpoolProofs -----------------------
(***************************************************************************)
(* What holds of AttachmentSpool for every set of files and reports and    *)
(* every number of crashes.                                                *)
(***************************************************************************)
EXTENDS AttachmentSpool, TLAPS

\* A report is not in the table before its send_report call is over, and nothing
\* but that call decides what it keeps.
CallBeforeRow ==
    /\ \A j \in Jobs : call[j] # "over" => state[j] = "absent"
    /\ \A j \in Jobs : call[j] = "none" => kept[j] = {}

\* A call is resolved from ids somebody was told of.
CallsKnowTheirFiles == \A j \in Jobs : refs[j] \subseteq told

\* An id is drawn once, so an upload to come has none that was saved or told.
UploadsAreThere == \A f \in batch \cup told : file[f] # "unused"

\* The worker is at a report that is in the table. It deletes the files of a
\* settled report only, and the mail it sends carries every attachment.
WorkerKnowsJob ==
    /\ worker.job \in Jobs => state[worker.job] # "absent"
    /\ worker.step = "delete" => state[worker.job] \in Settled
    /\ worker.step \in {"send", "sent"} => carried[worker.job] = refs[worker.job]

\* What a sweep saw pending is in the table since, and what those reports keep is
\* what the sweep keeps.
SweepKeepsWhatItSaw ==
    \A j \in sweep.saw : state[j] # "absent" /\ kept[j] \subseteq sweep.keep

SpoolInv ==
    /\ TypeOK
    /\ CallBeforeRow
    /\ CallsKnowTheirFiles
    /\ UploadsAreThere
    /\ WorkerKnowsJob
    /\ SweepKeepsWhatItSaw
    /\ DeliveredComplete
-----------------------------------------------------------------------------
(* What a step on the spool, and the three outcomes of Next, come to.      *)

LEMMA WithoutType ==
    ASSUME TypeOK, NEW removed
    PROVE  Without(removed) \in [Files -> {"unused", "fresh", "expired", "gone"}]
BY DEF TypeOK, Without

\* A purge touches no file within its TTL.
LEMMA PurgeSparesFresh ==
    ASSUME NEW keep, NEW f \in Files, file[f] = "fresh"
    PROVE  Without(Expired(keep))[f] = "fresh"
BY DEF Without, Expired, exists

\* A file goes with Without only when it is among what is removed.
LEMMA OnlyRemovedGoes ==
    ASSUME NEW removed, NEW f \in Files, file[f] # "gone", Without(removed)[f] = "gone"
    PROVE  f \in removed
BY DEF Without

LEMMA RequeuedKeepsRows ==
    ASSUME TypeOK
    PROVE  /\ Requeued \in [Jobs -> {"absent"} \cup Pending \cup Settled]
           /\ \A j \in Jobs : state[j] = "absent" <=> Requeued[j] = "absent"
           /\ \A j \in Jobs : state[j] \in Settled <=> Requeued[j] \in Settled
           /\ \A j \in Jobs : state[j] = "delivered" <=> Requeued[j] = "delivered"
           /\ worker.job \in Jobs => Requeued[worker.job] = state[worker.job]
BY DEF TypeOK, Requeued, Pending, Settled

LEMMA WorkerJob ==
    ASSUME TypeOK, worker.step # "claim"
    PROVE  worker.job \in Jobs
BY DEF TypeOK
-----------------------------------------------------------------------------
LEMMA InitInv == Init => SpoolInv
<1> SUFFICES ASSUME Init PROVE SpoolInv
    OBVIOUS
<1>1. TypeOK
    BY SpoolAssumption DEF Init, TypeOK, Idle, Resting, Pending, Settled
<1>2. /\ CallBeforeRow /\ CallsKnowTheirFiles /\ UploadsAreThere
      /\ WorkerKnowsJob /\ SweepKeepsWhatItSaw /\ DeliveredComplete
    BY SpoolAssumption DEF Init, CallBeforeRow, CallsKnowTheirFiles, UploadsAreThere, WorkerKnowsJob, SweepKeepsWhatItSaw,
        DeliveredComplete, Idle, Resting
<1> QED
    BY <1>1, <1>2 DEF SpoolInv

LEMMA TypeStep == SpoolInv /\ [Next]_vars => TypeOK'
<1> SUFFICES ASSUME TypeOK, CallBeforeRow, UploadsAreThere, [Next]_vars PROVE TypeOK'
    BY DEF SpoolInv
<1> USE SpoolAssumption DEF TypeOK, Pending, Settled, uploads
<1>1. ASSUME NEW f \in Files, SaveUpload(f) PROVE TypeOK'
    <2>1. Without(Expired({})) \in [Files -> {"unused", "fresh", "expired", "gone"}]
        BY WithoutType
    <2>2. f \notin told
        BY <1>1 DEF SaveUpload, UploadsAreThere
    <2> QED
        BY <1>1, <2>1, <2>2 DEF SaveUpload
<1>2. ASSUME NEW f \in Files, Expire(f) PROVE TypeOK'
    BY <1>2 DEF Expire
<1>3. ASSUME NEW j \in Jobs, NEW files \in SUBSET Files, Resolve(j, files) PROVE TypeOK'
    BY <1>3 DEF Resolve, CallBeforeRow
<1>4. ASSUME NEW j \in Jobs, CheckExists(j) PROVE TypeOK'
    BY <1>4 DEF CheckExists
<1>5. ASSUME NEW j \in Jobs, Enqueue(j) PROVE TypeOK'
    BY <1>5 DEF Enqueue
<1>6. ASSUME NEW j \in Jobs, Claim(j) PROVE TypeOK'
    BY <1>6 DEF Claim, Idle
<1>7. CASE ReadFiles
    <2>1. worker.job \in Jobs
        BY <1>7, WorkerJob DEF ReadFiles
    <2>2. \/ worker' = [worker EXCEPT !.step = "send"]
          \/ \E permanent \in BOOLEAN :
                worker' = [worker EXCEPT !.step = "raised", !.permanent = permanent]
        BY <1>7 DEF ReadFiles, Raises
    <2>3. carried' \in [Jobs -> SUBSET Files]
        BY <1>7, <2>1 DEF ReadFiles
    <2> QED
        BY <1>7, <2>1, <2>2, <2>3 DEF ReadFiles
<1>8. CASE Send
    BY <1>8 DEF Send, Raises
<1>9. CASE Finish
    <2>1. worker.job \in Jobs
        BY <1>9, WorkerJob DEF Finish
    <2> QED
        BY <1>9, <2>1 DEF Finish
<1>10. CASE RetryLater
    BY <1>10 DEF RetryLater, Idle
<1>11. CASE DeleteFiles
    BY <1>11, WithoutType DEF DeleteFiles, Idle
<1>12. CASE SweepReads
    <2>1. state' \in [Jobs -> {"absent"} \cup Pending \cup Settled]
        BY <1>12, RequeuedKeepsRows DEF SweepReads
    <2>2. UNION {kept[j] : j \in Protected} \subseteq Files
        BY DEF Protected
    <2> QED
        BY <1>12, <2>1, <2>2 DEF SweepReads
<1>13. CASE SweepPurges
    BY <1>13, WithoutType DEF SweepPurges, Resting
<1>14. CASE Crash
    BY <1>14 DEF Crash, Idle, Resting
<1>15. CASE AnswerUpload
    BY <1>15 DEF AnswerUpload
<1>16. CASE UploadFails
    BY <1>16, WithoutType DEF UploadFails
<1>17. CASE UNCHANGED vars
    BY <1>17 DEF vars
<1> QED
    BY <1>1, <1>2, <1>3, <1>4, <1>5, <1>6, <1>7, <1>8, <1>9, <1>10, <1>11, <1>12, <1>13, <1>14,
       <1>15, <1>16, <1>17 DEF Next, SendReport, Worker, EndAttempt, Sweeper

\* The ids told of grow only, and a file that was uploaded stays so.
LEMMA KnownStep == SpoolInv /\ [Next]_vars => CallsKnowTheirFiles'
<1> SUFFICES ASSUME SpoolInv, [Next]_vars, NEW j \in Jobs PROVE refs'[j] \subseteq told'
    BY DEF CallsKnowTheirFiles
<1>1. refs[j] \subseteq told
    BY DEF SpoolInv, CallsKnowTheirFiles
<1>2. told' = told \/ told' = told \cup batch
    BY DEF Next, vars, uploads, SendReport, Worker, EndAttempt, Sweeper, SaveUpload, Expire,
        AnswerUpload, UploadFails, Resolve, CheckExists, Enqueue, Claim, ReadFiles, Send, Finish,
        RetryLater, DeleteFiles, SweepReads, SweepPurges, Crash
<1>3. ASSUME NEW k \in Jobs, NEW files \in SUBSET Files, Resolve(k, files)
      PROVE  refs'[j] \in {refs[j], files} /\ files \subseteq told
    BY <1>3 DEF Resolve, SpoolInv, TypeOK
<1>4. refs' = refs \/ \E k \in Jobs, files \in SUBSET Files : Resolve(k, files)
    BY DEF Next, vars, SendReport, Worker, EndAttempt, Sweeper, SaveUpload, Expire, AnswerUpload,
        UploadFails, CheckExists, Enqueue, Claim, ReadFiles, Send, Finish, RetryLater, DeleteFiles,
        SweepReads, SweepPurges, Crash
<1> QED
    BY <1>1, <1>2, <1>3, <1>4

LEMMA UploadStep == SpoolInv /\ [Next]_vars => UploadsAreThere'
<1> SUFFICES ASSUME SpoolInv, [Next]_vars PROVE UploadsAreThere'
    OBVIOUS
<1>0. TypeOK /\ UploadsAreThere
    BY DEF SpoolInv
<1>1. ASSUME NEW f \in batch \cup told PROVE f \in Files /\ file[f] # "unused"
    BY <1>0 DEF TypeOK, UploadsAreThere
<1>2. ASSUME NEW removed, NEW f \in Files, file[f] # "unused" PROVE Without(removed)[f] # "unused"
    BY <1>2 DEF Without
<1>3. CASE \E g \in Files : SaveUpload(g)
    <2>1. PICK g \in Files : SaveUpload(g)
        BY <1>3
    <2>2. file' = [Without(Expired({})) EXCEPT ![g] = "fresh"] /\ batch' = batch \cup {g} /\ told' = told
        BY <2>1 DEF SaveUpload
    <2>3. \A f \in Files : file'[f] = IF f = g THEN "fresh" ELSE Without(Expired({}))[f]
        BY <1>0, <2>2, WithoutType
    <2> QED
        BY <1>1, <1>2, <2>2, <2>3 DEF UploadsAreThere
<1>4. CASE \E g \in Files : Expire(g)
    BY <1>0, <1>1, <1>4 DEF Expire, UploadsAreThere, TypeOK, uploads
<1>5. ASSUME batch' \cup told' \subseteq batch \cup told,
             file' = file \/ \E removed \in SUBSET Files : file' = Without(removed)
      PROVE  UploadsAreThere'
    BY <1>1, <1>2, <1>5 DEF UploadsAreThere
<1>6. CASE UploadFails
    BY <1>0, <1>5, <1>6 DEF UploadFails, TypeOK
<1>7. CASE DeleteFiles
    <2>1. kept[worker.job] \subseteq Files
        BY <1>0, <1>7, WorkerJob DEF DeleteFiles, TypeOK
    <2> QED
        BY <1>5, <1>7, <2>1 DEF DeleteFiles, uploads
<1>8. CASE SweepPurges
    BY <1>5, <1>8 DEF SweepPurges, uploads, Expired
<1>9. CASE AnswerUpload \/ Crash
    BY <1>5, <1>9 DEF AnswerUpload, Crash
<1>10. ASSUME UNCHANGED <<file, batch, told>> PROVE UploadsAreThere'
    BY <1>5, <1>10
<1>11. (\E j \in Jobs : SendReport(j)) \/ (\E j \in Jobs : Claim(j)) \/ ReadFiles \/ Send
            \/ EndAttempt \/ SweepReads \/ UNCHANGED vars => UNCHANGED <<file, batch, told>>
    BY DEF SendReport, Resolve, CheckExists, Enqueue, Claim, ReadFiles, Send, EndAttempt, Finish,
        RetryLater, SweepReads, vars, uploads
<1> QED
    BY <1>3, <1>4, <1>6, <1>7, <1>8, <1>9, <1>10, <1>11 DEF Next, Worker, Sweeper

LEMMA CallStep == SpoolInv /\ [Next]_vars => CallBeforeRow'
<1> SUFFICES ASSUME SpoolInv, [Next]_vars PROVE CallBeforeRow'
    OBVIOUS
<1> USE DEF SpoolInv, TypeOK, CallBeforeRow
<1>1. ASSUME NEW j \in Jobs, NEW files \in SUBSET Files, Resolve(j, files)
      PROVE  CallBeforeRow'
    BY <1>1 DEF Resolve
<1>2. ASSUME NEW j \in Jobs, CheckExists(j) PROVE CallBeforeRow'
    BY <1>2 DEF CheckExists
<1>3. ASSUME NEW j \in Jobs, Enqueue(j) PROVE CallBeforeRow'
    BY <1>3 DEF Enqueue
<1>4. ASSUME NEW j \in Jobs, Claim(j) PROVE CallBeforeRow'
    BY <1>4 DEF Claim
<1>5. CASE Finish
    BY <1>5, WorkerJob DEF Finish, WorkerKnowsJob
<1>6. CASE RetryLater
    BY <1>6, WorkerJob DEF RetryLater, WorkerKnowsJob
<1>7. CASE SweepReads
    BY <1>7, RequeuedKeepsRows DEF SweepReads
<1>8. CASE Crash
    BY <1>8 DEF Crash
<1>9. ASSUME UNCHANGED <<state, call, kept>> PROVE CallBeforeRow'
    BY <1>9
<1>10. (\E f \in Files : SaveUpload(f) \/ Expire(f)) \/ AnswerUpload \/ UploadFails \/ ReadFiles
            \/ Send \/ DeleteFiles \/ SweepPurges \/ UNCHANGED vars => UNCHANGED <<state, call, kept>>
    BY DEF SaveUpload, Expire, AnswerUpload, UploadFails, ReadFiles, Send, DeleteFiles, SweepPurges, vars
<1> QED
    BY <1>1, <1>2, <1>3, <1>4, <1>5, <1>6, <1>7, <1>8, <1>9, <1>10
       DEF Next, SendReport, Worker, EndAttempt, Sweeper

LEMMA WorkerStep == SpoolInv /\ [Next]_vars => WorkerKnowsJob'
<1> SUFFICES ASSUME SpoolInv, [Next]_vars PROVE WorkerKnowsJob'
    OBVIOUS
<1> USE SpoolAssumption DEF SpoolInv, TypeOK, WorkerKnowsJob
<1>1. ASSUME NEW j \in Jobs, NEW files \in SUBSET Files, Resolve(j, files)
      PROVE  WorkerKnowsJob'
    <2>1. worker.step \in {"send", "sent"} => worker.job \in Jobs /\ worker.job # j
        BY <1>1, WorkerJob DEF Resolve, CallBeforeRow
    <2> QED
        BY <1>1, <2>1 DEF Resolve
<1>2. ASSUME NEW j \in Jobs, Enqueue(j) PROVE WorkerKnowsJob'
    <2>1. worker.job # j
        BY <1>2 DEF Enqueue, CallBeforeRow
    <2>2. worker.job \in Jobs => state'[worker.job] = state[worker.job]
        BY <1>2, <2>1 DEF Enqueue
    <2>3. worker.step = "delete" => worker.job \in Jobs
        BY WorkerJob
    <2> QED
        BY <1>2, <2>2, <2>3 DEF Enqueue
<1>3. ASSUME NEW j \in Jobs, Claim(j) PROVE WorkerKnowsJob'
    BY <1>3 DEF Claim, Idle
<1>4. CASE ReadFiles
    <2>1. worker.job \in Jobs
        BY <1>4, WorkerJob DEF ReadFiles
    <2>2. \/ /\ worker' = [worker EXCEPT !.step = "send"]
             /\ carried' = [carried EXCEPT ![worker.job] = refs[worker.job]]
          \/ \E permanent \in BOOLEAN :
                worker' = [worker EXCEPT !.step = "raised", !.permanent = permanent]
        BY <1>4 DEF ReadFiles, Raises
    <2>3. UNCHANGED <<state, refs>>
        BY <1>4 DEF ReadFiles
    <2>4. CASE /\ worker' = [worker EXCEPT !.step = "send"]
               /\ carried' = [carried EXCEPT ![worker.job] = refs[worker.job]]
        BY <2>1, <2>3, <2>4
    <2>5. CASE \E permanent \in BOOLEAN :
                worker' = [worker EXCEPT !.step = "raised", !.permanent = permanent]
        BY <2>1, <2>3, <2>5
    <2> QED
        BY <2>2, <2>4, <2>5
<1>5. CASE Send
    <2>1. \/ worker' = [worker EXCEPT !.step = "sent"]
          \/ \E permanent \in BOOLEAN :
                worker' = [worker EXCEPT !.step = "raised", !.permanent = permanent]
        BY <1>5 DEF Send, Raises
    <2>2. worker.step = "send" /\ UNCHANGED <<state, refs, carried>>
        BY <1>5 DEF Send
    <2> QED
        BY <2>1, <2>2
<1>6. CASE Finish
    <2>1. worker.job \in Jobs
        BY <1>6, WorkerJob DEF Finish
    <2>2. worker'.step = "delete" /\ worker'.job = worker.job
        BY <1>6 DEF Finish
    <2>3. state'[worker.job] \in Settled
        BY <1>6, <2>1 DEF Finish, Settled
    <2>4. state'[worker.job] # "absent"
        BY <2>3 DEF Settled
    <2> QED
        BY <2>2, <2>3, <2>4
<1>7. CASE RetryLater \/ DeleteFiles \/ Crash
    BY <1>7 DEF RetryLater, DeleteFiles, Crash, Idle
<1>8. CASE SweepReads
    <2>1. UNCHANGED <<worker, carried, refs>>
        BY <1>8 DEF SweepReads
    <2>2. worker.job \in Jobs => state'[worker.job] = state[worker.job]
        BY <1>8, RequeuedKeepsRows DEF SweepReads
    <2>3. worker.step = "delete" => worker.job \in Jobs
        BY WorkerJob
    <2> QED
        BY <2>1, <2>2, <2>3
<1>9. ASSUME UNCHANGED <<state, refs, worker, carried>> PROVE WorkerKnowsJob'
    BY <1>9
<1>10. (\E f \in Files : SaveUpload(f) \/ Expire(f)) \/ AnswerUpload \/ UploadFails
            \/ (\E j \in Jobs : CheckExists(j)) \/ SweepPurges \/ UNCHANGED vars
                => UNCHANGED <<state, refs, worker, carried>>
    BY DEF SaveUpload, Expire, AnswerUpload, UploadFails, CheckExists, SweepPurges, vars
<1> QED
    BY <1>1, <1>2, <1>3, <1>4, <1>5, <1>6, <1>7, <1>8, <1>9, <1>10
       DEF Next, SendReport, Worker, EndAttempt, Sweeper

\* A row that is in the table stays in it.
LEMMA RowsStay ==
    ASSUME SpoolInv, [Next]_vars, NEW j \in Jobs, state[j] # "absent"
    PROVE  state'[j] # "absent"
<1> USE DEF SpoolInv, TypeOK
<1>1. ASSUME NEW k \in Jobs, Enqueue(k) PROVE state'[j] # "absent"
    BY <1>1 DEF Enqueue
<1>2. ASSUME NEW k \in Jobs, Claim(k) PROVE state'[j] # "absent"
    BY <1>2 DEF Claim
<1>3. CASE Finish \/ RetryLater
    BY <1>3 DEF Finish, RetryLater
<1>4. CASE SweepReads
    BY <1>4, RequeuedKeepsRows DEF SweepReads
<1>5. (\E f \in Files : SaveUpload(f) \/ Expire(f)) \/ AnswerUpload \/ UploadFails
        \/ (\E k \in Jobs : CheckExists(k)) \/ (\E k \in Jobs, files \in SUBSET Files : Resolve(k, files)) \/ ReadFiles \/ Send
        \/ DeleteFiles \/ SweepPurges \/ Crash \/ UNCHANGED vars => UNCHANGED state
    BY DEF SaveUpload, Expire, AnswerUpload, UploadFails, CheckExists, Resolve, ReadFiles, Send,
        DeleteFiles, SweepPurges, Crash, vars
<1> QED
    BY <1>1, <1>2, <1>3, <1>4, <1>5 DEF Next, SendReport, Worker, EndAttempt, Sweeper

\* attachment_ids does not change once the row is there.
LEMMA KeptStays ==
    ASSUME SpoolInv, [Next]_vars, NEW j \in Jobs, state[j] # "absent"
    PROVE  kept'[j] = kept[j]
<1>1. ASSUME NEW k \in Jobs, CheckExists(k) PROVE kept'[j] = kept[j]
    <2>1. k # j
        BY <1>1 DEF CheckExists, SpoolInv, CallBeforeRow
    <2> QED
        BY <1>1, <2>1 DEF CheckExists, SpoolInv, TypeOK
<1>2. (\E k \in Jobs : CheckExists(k)) \/ UNCHANGED kept
    BY DEF Next, vars, SendReport, Worker, EndAttempt, Sweeper, SaveUpload, Expire, AnswerUpload, UploadFails, Resolve,
        Enqueue, Claim, ReadFiles, Send, Finish, RetryLater, DeleteFiles, SweepReads,
        SweepPurges, Crash
<1> QED
    BY <1>1, <1>2

LEMMA SweepStep == SpoolInv /\ [Next]_vars => SweepKeepsWhatItSaw'
<1> SUFFICES ASSUME SpoolInv, [Next]_vars PROVE SweepKeepsWhatItSaw'
    OBVIOUS
<1> USE DEF SweepKeepsWhatItSaw
<1>1. CASE SweepReads
    <2>1. /\ sweep'.saw = {j \in Jobs : state[j] \in Pending}
          /\ sweep'.keep = UNION {kept[j] : j \in {k \in Jobs : state[k] \in Pending}}
        BY <1>1 DEF SweepReads, Protected
    <2>2. ASSUME NEW j \in sweep'.saw
          PROVE  state'[j] # "absent" /\ kept'[j] \subseteq sweep'.keep
        <3>1. j \in Jobs /\ state[j] \in Pending /\ state[j] # "absent"
            BY <2>1, <2>2 DEF Pending
        <3>2. kept[j] \subseteq sweep'.keep
            BY <2>1, <3>1
        <3> QED
            BY <3>1, <3>2, RowsStay, KeptStays
    <2> QED
        BY <2>2
<1>2. CASE SweepPurges \/ Crash
    BY <1>2 DEF SweepPurges, Crash, Resting
<1>3. ASSUME UNCHANGED sweep PROVE SweepKeepsWhatItSaw'
    <2> SUFFICES ASSUME NEW j \in sweep.saw
                 PROVE  state'[j] # "absent" /\ kept'[j] \subseteq sweep.keep
        BY <1>3
    <2>1. j \in Jobs /\ state[j] # "absent" /\ kept[j] \subseteq sweep.keep
        BY DEF SpoolInv, TypeOK
    <2> QED
        BY <2>1, RowsStay, KeptStays
<1>4. SweepReads \/ SweepPurges \/ Crash \/ UNCHANGED sweep
    BY DEF Next, vars, SendReport, Worker, EndAttempt, Sweeper, SaveUpload, Expire, AnswerUpload, UploadFails, Resolve,
        CheckExists, Enqueue, Claim, ReadFiles, Send, Finish, RetryLater, DeleteFiles
<1> QED
    BY <1>1, <1>2, <1>3, <1>4

LEMMA DeliveredStep == SpoolInv /\ [Next]_vars => DeliveredComplete'
<1> SUFFICES ASSUME SpoolInv, [Next]_vars PROVE DeliveredComplete'
    OBVIOUS
<1> USE DEF SpoolInv, TypeOK, DeliveredComplete
<1>1. ASSUME NEW j \in Jobs, NEW files \in SUBSET Files, Resolve(j, files)
      PROVE  DeliveredComplete'
    BY <1>1 DEF Resolve, CallBeforeRow
<1>2. ASSUME NEW j \in Jobs, Enqueue(j) \/ Claim(j) PROVE DeliveredComplete'
    BY <1>2 DEF Enqueue, Claim
<1>3. CASE ReadFiles
    <2>1. worker.job \in Jobs
        BY <1>3, WorkerJob DEF ReadFiles
    <2>2. carried' \in {carried, [carried EXCEPT ![worker.job] = refs[worker.job]]}
        BY <1>3 DEF ReadFiles
    <2>3. UNCHANGED <<state, refs>>
        BY <1>3 DEF ReadFiles
    <2> QED
        BY <2>1, <2>2, <2>3
<1>4. CASE Finish
    <2>1. worker.job \in Jobs
        BY <1>4, WorkerJob DEF Finish
    <2>2. worker.step = "sent" => carried[worker.job] = refs[worker.job]
        BY DEF WorkerKnowsJob
    <2> QED
        BY <1>4, <2>1, <2>2 DEF Finish
<1>5. CASE RetryLater
    BY <1>5 DEF RetryLater
<1>6. CASE SweepReads
    BY <1>6, RequeuedKeepsRows DEF SweepReads
<1>7. (\E f \in Files : SaveUpload(f) \/ Expire(f)) \/ AnswerUpload \/ UploadFails
        \/ (\E k \in Jobs : CheckExists(k)) \/ Send \/ DeleteFiles \/ SweepPurges \/ Crash \/ UNCHANGED vars
            => UNCHANGED <<state, refs, carried>>
    BY DEF SaveUpload, Expire, AnswerUpload, UploadFails, CheckExists, Send, DeleteFiles, SweepPurges, Crash, vars
<1> QED
    BY <1>1, <1>2, <1>3, <1>4, <1>5, <1>6, <1>7
       DEF Next, SendReport, Worker, EndAttempt, Sweeper

LEMMA SpoolInvHolds == Spec => []SpoolInv
<1>1. SpoolInv /\ [Next]_vars => SpoolInv'
    BY TypeStep, CallStep, KnownStep, UploadStep, WorkerStep, SweepStep, DeliveredStep DEF SpoolInv
<1> QED
    BY InitInv, <1>1, PTL DEF Spec
-----------------------------------------------------------------------------
\* Files, rows and the notes of the worker and the sweeper keep their shape,
\* whichever handlers, threads and crashes come between two steps.
THEOREM SpoolTypeCorrect == Spec => []TypeOK
<1>1. SpoolInv => TypeOK
    BY DEF SpoolInv
<1> QED
    BY SpoolInvHolds, <1>1, PTL

\* The mail of a delivered report carried every attachment send_report accepted.
THEOREM DeliveredCompleteHolds == Spec => []DeliveredComplete
<1>1. SpoolInv => DeliveredComplete
    BY DEF SpoolInv
<1> QED
    BY SpoolInvHolds, <1>1, PTL

\* No purge, no failed upload and no failed attempt removes a file somebody was
\* told of and that is within its TTL.
THEOREM FreshGoesWithItsReportHolds == Spec => FreshGoesWithItsReport
<1>1. ASSUME SpoolInv, [Next]_vars, NEW f \in told, file[f] = "fresh", file'[f] = "gone"
      PROVE  \E j \in Jobs : state[j] \in Settled /\ f \in kept[j]
    <2>0. f \in Files /\ f \notin batch
        BY <1>1 DEF SpoolInv, TypeOK
    <2>1. CASE \E g \in Files : SaveUpload(g)
        BY <1>1, <2>0, <2>1, PurgeSparesFresh, WithoutType DEF SaveUpload, SpoolInv
    <2>2. CASE \E g \in Files : Expire(g)
        BY <1>1, <2>0, <2>2 DEF Expire, SpoolInv, TypeOK
    <2>3. CASE SweepPurges
        BY <1>1, <2>0, <2>3, PurgeSparesFresh DEF SweepPurges
    <2>4. CASE DeleteFiles
        <3>1. worker.job \in Jobs /\ state[worker.job] \in Settled
            BY <1>1, <2>4, WorkerJob DEF DeleteFiles, SpoolInv, WorkerKnowsJob
        <3>2. f \in kept[worker.job]
            BY <1>1, <2>0, <2>4, OnlyRemovedGoes DEF DeleteFiles
        <3> QED
            BY <3>1, <3>2
    <2>5. CASE UploadFails
        BY <1>1, <2>0, <2>5, OnlyRemovedGoes DEF UploadFails
    <2>6. (\E g \in Files : SaveUpload(g) \/ Expire(g)) \/ SweepPurges \/ DeleteFiles
            \/ UploadFails \/ UNCHANGED file
        BY <1>1 DEF Next, vars, SendReport, Worker, EndAttempt, Sweeper, AnswerUpload, Resolve,
            CheckExists, Enqueue, Claim, ReadFiles, Send, Finish, RetryLater, SweepReads, Crash
    <2> QED
        BY <1>1, <2>1, <2>2, <2>3, <2>4, <2>5, <2>6
<1>2. SpoolInv /\ [Next]_vars =>
        [\A f \in told : file[f] = "fresh" /\ file'[f] = "gone"
            => \E j \in Jobs : state[j] \in Settled /\ f \in kept[j]]_vars
    BY <1>1
<1> QED
    BY SpoolInvHolds, <1>2, PTL DEF Spec, FreshGoesWithItsReport

\* A pending report loses a file it keeps to an upload's purge, to a report that
\* shares the file, or to a sweep that began before it was queued.
THEOREM LossHasACauseHolds == Spec => LossHasACause
<1> DEFINE Caused(j, f) ==
        \/ \E g \in Files : file[g] = "unused" /\ file'[g] # "unused"
        \/ \E k \in Jobs \ {j} : state[k] \in Settled /\ f \in kept[k]
        \/ sweep.step = "purge" /\ j \notin sweep.saw
<1>1. ASSUME SpoolInv, [Next]_vars, NEW j \in Jobs, NEW f \in kept[j],
             state[j] \in Pending, exists(f), file'[f] = "gone"
      PROVE  Caused(j, f)
    <2>1. f \in Files /\ file[f] # "gone"
        BY <1>1 DEF SpoolInv, TypeOK, exists
    <2>2. CASE \E g \in Files : SaveUpload(g)
        BY <2>2, WithoutType, <1>1 DEF SaveUpload, SpoolInv
    <2>3. CASE \E g \in Files : Expire(g)
        BY <1>1, <2>1, <2>3 DEF Expire, SpoolInv, TypeOK
    <2>4. CASE SweepPurges
        <3>1. f \notin sweep.keep
            BY <1>1, <2>1, <2>4, OnlyRemovedGoes DEF SweepPurges, Expired
        <3>2. sweep.step = "purge" /\ j \notin sweep.saw
            BY <1>1, <2>4, <3>1 DEF SweepPurges, SpoolInv, SweepKeepsWhatItSaw
        <3> QED
            BY <3>2
    <2>5. CASE DeleteFiles
        <3>1. worker.job \in Jobs /\ state[worker.job] \in Settled
            BY <1>1, <2>5, WorkerJob DEF DeleteFiles, SpoolInv, WorkerKnowsJob
        <3>2. f \in kept[worker.job]
            BY <1>1, <2>1, <2>5, OnlyRemovedGoes DEF DeleteFiles
        <3>3. worker.job # j
            BY <1>1, <3>1 DEF Pending, Settled
        <3> QED
            BY <3>1, <3>2, <3>3
    <2>6. CASE UploadFails
        <3>1. kept[j] \subseteq refs[j] /\ refs[j] \subseteq told /\ batch \subseteq Files \ told
            BY <1>1 DEF SpoolInv, TypeOK, CallsKnowTheirFiles
        <3>2. f \notin batch
            BY <1>1, <3>1
        <3> QED
            BY <1>1, <2>1, <2>6, <3>2, OnlyRemovedGoes DEF UploadFails
    <2>7. (\E g \in Files : SaveUpload(g) \/ Expire(g)) \/ SweepPurges \/ DeleteFiles
            \/ UploadFails \/ UNCHANGED file
        BY <1>1 DEF Next, vars, SendReport, Worker, EndAttempt, Sweeper, AnswerUpload, Resolve,
            CheckExists, Enqueue, Claim, ReadFiles, Send, Finish, RetryLater, SweepReads, Crash
    <2> QED
        BY <1>1, <2>1, <2>2, <2>3, <2>4, <2>5, <2>6, <2>7
<1>2. SpoolInv /\ [Next]_vars =>
        [\A j \in Jobs : \A f \in kept[j] :
            state[j] \in Pending /\ exists(f) /\ file'[f] = "gone" => Caused(j, f)]_vars
    BY <1>1
<1> QED
    BY SpoolInvHolds, <1>2, PTL DEF Spec, LossHasACause
=============================================================================
