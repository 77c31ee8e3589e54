# Verification of mail-report

TLA+ models of mail-report-mcp, a server that renders Markdown reports and mails
them in the background. The models are translated from the Python sources, checked
with TLC on small instances, and the safety properties are proved with TLAPS for any
number of reports, servers, files, threads and lines. Paths below are relative
to the package, `src/src/mail_report/`.

## The system

| Component | State | Operations | Hard because |
|---|---|---|---|
| Delivery queue, `delivery/jobs.py` | the `jobs` table of `state.db` | `enqueue`, `claim_due`, `_finish`, `_retry_later`, `requeue_stale`, `throttle_delay`, `status` | worker and sweeper threads, possibly several servers on one data directory; crashes between sending and recording; clocks |
| Server lifespan, `server.py` | `stop` event, two tasks | start, graceful stop | a stop may come at any point of a delivery |
| SMTP session, `mail/mailer.py`, `mail/config.py` | one connection per attempt | `send_email` over smtplib | every command may be refused, closed or left unanswered; the outcome may be unknown |
| Attachment spool, `storage/attachments.py` | files `att_<id>__<name>` with their mtime | `save_upload`, `resolve`, `exists`, `delete`, `purge_expired` | upload handler, tools, worker and sweeper use the directory without a lock |
| Upload tickets, `storage/tickets.py` | the `tickets` table | `create`, `check`, `spend`, `purge_expired` | checked before and spent after the body is awaited |
| Upload endpoint, `routes.py`, `web.py`, `storage/uploads.py` | locals of the handler | `upload_attachment`, admission, `unpack_zip` | limits read early and used late; batches that fail half-way |
| `send_report`, `tools.py` | locals of the call | resolve, render, `enqueue` | files may go between resolving and queueing |
| Bundles, `storage/bundles.py` | the `bundles` table | `create`, `load` | names; files outlive or predecease the row |
| State database, `storage/store.py` | `state.db`, one connection per thread | `connect`, `migrate` | first use by several threads and processes |
| Relay budget, `limits.py`, `mail/relay.py` | the last `SIZE` seen | `probe`, `attachment_budget` | changes under running requests |
| Recipients, `mail/recipients.py` | environment only | `resolve` | precedence and allowlist |
| Rendering, `render/renderer.py` | three buffers of a loop over lines | `render_markdown` | flushes in every branch |
| Logo and theme, `render/logo.py`, `theme.py` | a logo file, colours | `load`, `accent`, `pills` | loaded twice, hours apart |

`send_report` inserts a row and returns its `job_id`. One worker task per server
claims the first due row, delivers it over SMTP and writes the outcome; the sweeper
requeues claims nobody finished for 900 seconds, purges the spool and the tickets and
probes the relay. `report_status` reads the row. Uploads fill the spool beforehand,
paid for with a ticket; a settled report's files are deleted.

What makes each part correct:

- queue: a report settles once, and always; no attempt is mailed twice; a mail is
  reported delivered only if the relay took it; attempts stay within their cap, and the
  mails of a minute within theirs as far as the queue knows of them;
- session: nothing in the clear that should not be, a size limit compared with the
  `EHLO` that counts, duplicates and wrong failures
  only when the relay's answer was lost, every attempt ends;
- spool: a report goes out with all its files or fails; files are removed for a
  reason, and in the end;
- tickets and uploads: no ticket is overspent; the spool holds what an upload's answer
  says, all of its files or none but those that cannot be unlinked;
- database: migrations are applied in order, once and whole, and every caller gets a
  true answer;
- send_report: lines are shown in order, and all of them but the markers of blocks, a
  title said twice and a fence that is never closed; placeholders are
  caught, each image finds its file and each file the mail, addresses come from one
  allowed source, and what is accepted fits the relay.

## Modules

### ReportService: what a caller may rely on
A report is absent, pending, delivered or failed. It is submitted once, mailed any
number of times while pending, settles once, and is delivered only if mailed. The
states `queued` and `active` are one here.

### DeliveryQueue: `delivery/jobs.py` and `server.py`
`jobs` is the table, one record per row; `pc` and `held` are the worker between
`throttle_delay`, `claim_due`, `deliver` and the write that ends the attempt; `mode`
is the process. `accepted` is a history variable: the attempts whose mail the relay
took, and `outbound` the mails of the last minute among them, each with its age: what
the relay counts, where `throttle_delay` counts the rows with a recent `delivered_at`.
Each statement or transaction on the database is one step, so two servers
interleave between them exactly where the code leaves room. `DeliverRaises` may leave
the mail with the relay. `LoseOutcome` is the final write raising, `Crash` the process
dying anywhere; the row then stays `active` until `RequeueStale`.

Time is modelled without a clock: a row holds the *distance* of each stored instant
from now, saturated at the value past which no comparison of the code can tell it
apart. `Tick` moves all of them. Seconds become ticks, and 900, 3600 and 60 become
small constants. `Elapse` freezes what nothing reads any more.

`SlowDelivery` says whether an attempt may outlast `STALE_ACTIVE_SECONDS`. Each
socket operation has a timeout of 60 s, so an attempt of a few commands ends well
within 900 s, but the code does not enforce it: the properties that need it are run and
proved under `~SlowDelivery`, or with one server, whose single worker cannot be
overtaken by itself while it is busy.

### MailSession: `send_email`, `deliver` and `process_one`
One report over several attempts, one step per SMTP command: connect, EHLO, STARTTLS,
EHLO, AUTH, the `SIZE` guard, MAIL, RCPT for each recipient, DATA, QUIT. A reply is
`ok`, `temp`, `closing` (421), `perm` or `lost`, and what smtplib raises for it, and
`is_permanent` makes of that, follows the command: a refusal of RCPT, MAIL or AUTH is
permanent whatever its code, elsewhere the code decides. A message has `Bytes` bytes as
`len(msg.as_bytes())` counts it and the guard compares it, and `Wire` as smtplib
announces and sends it, with a CR more for each of its `Lines`; each EHLO may offer
another `SIZE`, and the last one counts. `SMTP.__exit__` sends QUIT
after an exception too and a reply other than 221 replaces the outcome. `cause`,
`taken` and `doubt` are history. smtplib is external; its behaviour is modelled as
far as `send_email` can observe it.

### AttachmentSpool: `storage/attachments.py` with everyone who uses it
A file is unused, fresh, expired or gone; the TTL is a step that may come at any time.
An upload saves its batch file by file, each time after a purge with nothing protected,
and ends in an answer that hands out its ids (`told`), or in an error or a rollback
that deletes the batch. `send_report` takes three steps (resolve, `exists`, insert), the
worker claims, reads, sends, settles and then deletes, the sweeper reads `protected_ids`
and then purges. Every deletion may pass over files, since `att.delete` swallows what
`unlink` raises. A crash kills whatever is under way and keeps
files and rows. One server; `sweep.saw` and `carried` are history.

### UploadTickets: `storage/tickets.py`, `routes.py`, `web.py`, `storage/uploads.py`
The handlers share an event loop: `loop` names the request that holds it from the last
await on, which makes the two statements of `spend` one step among requests, though
not for the sweeper's and the tools' threads. Requests remember the limits they read
at the start (`local`) while the relay's limit (`total`) moves. An accepted upload is saved
file by file (`batch` says how far), and ends in its answer, in the rollback that deletes
the files saved so far one by one, or in an exception of the file system or of
`bundles.create` that leaves them behind (a 500, of which nothing is promised); `stuck`
are the files whose `unlink` raised and was passed over. A body is the sequence of its
file sizes and whether it comes raw, as a form or as an archive. `Sum` and `Total`
add sizes up by counting: the sum of `amount` over a set is the number of pairs `<<x, i>>`
with `i` up to `amount[x]`, so that what holds of sums follows from what holds of finite
sets.

### StateMigrations: `storage/store.py`
Threads of several processes, each running one of several builds, connect to one
database: the process's `_migration_lock`, the read of `user_version`, the loop over
`MIGRATIONS`, the transaction with its second look, the statements one by one, the
commit, the `except OperationalError` branch with its two retries, and the
`except Exception` branch, which rolls back and raises at once (`FailAtOnce`). The
pragma that reads the version, and those of `connect`, may raise outside both
(`ReadRaises`, `ConnectRaises`), and the lock is given back then too. `tx` is what the open
transaction sees, which a commit makes `db` and a rollback or a death throws away.
`Busy` is SQLite's timeout while another process holds the write lock. A statement may
raise and a process die anywhere; it may come back as another build. `db.ran` counts
how often each statement took effect, which the properties compare with the version.

### ReportBlocks: `render_markdown`
The renderer as the machine it is: `at` runs over the lines, `tbl`, `list_buf` and
`code_buf` collect, and each branch flushes what the code flushes there, in its order.
A line is its kind, the branch it takes, and what it holds. `_drop_duplicate_title` is
`Dropped`. The reference, `TagOf` and `Lost`, is defined on the lines alone.

### Recipients: `mail/recipients.py`
`resolve` as operators on sources and policy. A source is the set of its parts.

### SendReport: from the upload to the mail
Extends `ReportBlocks` and `Recipients` with the names that tie upload, `_send_report`
and `deliver` together. A `case` is what caller and operator chose; the stages follow
`_send_report` through its early returns: arguments and recipients, `bundles.load`,
placeholders, `att.resolve` with the budget, the logo, the renderer one line at a
time, the job, and then the worker's mail. Between any two of them a file of the
spool may go, the logo's file change and the relay be probed. The body is the
bundle's `report.md`; a bundle without one needs a body of the caller's.
Files are numbered and have three names: the caller's, the bundle's (`Entry`) and the
spool's (`SpoolName`). A file of a zip passes `safe_filename` twice, in `unpack_zip` and in
`save_upload`, and the second pass may change it again. What `_send_report` found is put in
`job`, html and cids together, and `deliver` builds the mail from it and the spool.

Definitions named for what they would break (`DeleteAllButLast`, `ClaimUncounted`, ...) and
marked as faulty variants are not part of any specification. They stand beside the
definition they vary and show that the properties notice the fault.

## Runs

| Run | Shows |
|---|---|
| `queue_two` | two servers on one table, a failing final write or a crash, one graceful stop: `TypeOK`, `ActiveIsHeld`, `MailPerAttempt`, `AttemptsWithinCap`, `TerminalIsFinal` and the refinement of `ReportService` |
| `queue_rate` | one server with slow deliveries and a crash: the mails the relay took in a minute against the limit (`RateLimit`), the order of first attempts, `TerminalIsFinal` and, under fairness, `EveryReportSettles` |
| `session` | all replies to two attempts at two recipients: nothing in the clear, the size limit of the last EHLO, duplicates and wrong failures only in doubt, the steps `ReportService` allows, and an end |
| `session_partial` | a violation: delivered, but not to everyone |
| `session_transient` | a violation: failed by a temporary refusal |
| `spool` | two files, two reports, uploads that are answered or fail, expiry, sweeps, files that cannot be unlinked and a crash: complete mails, files that go for a reason and, under fairness, `SettledFilesGo` |
| `spool_purge` | a violation: an upload purges a queued report's file |
| `spool_shared` | a violation: a settled report deletes another's file |
| `tickets` | two overlapping uploads on one ticket, with a disk that fails while they are saved: no overspending, nothing on stale tickets, the spool as answered, rows that go |
| `migrate` | three threads in two processes of two builds, two exceptions to be tried again or raised at once, one death |
| `send` | reports of up to four lines, bundles of up to two files, every policy, sizes around the budget, logos, headers |
| `send_images` | a violation: an image named in the report as it is in the zip, but not as the spool names it, is not embedded |

The violations are differences between what the README, the guide or a tool's
description says and what the code does; `PROJECT.json` lists them with the lines.

One more such difference is in a property that holds. The README calls
`MAIL_REPORT_MAX_PER_MINUTE` "outbound messages per minute", and the throttle counts
recorded deliveries. After a crash between the acceptance and `_finish`, a lost final write
or a late exception, the relay has a mail no row tells of (`Unnoticed`), and another goes
out in the same minute. `RateLimit` counts the mails and names those as what may come on
top; without them the formula fails in `queue_rate`.

### Bounds
Two reports are enough for order, the throttle, sharing a file and the interference of
one report's attempts with another's; two servers for every race on a row, since a
step involves at most the holder of a claim and one rival. `MaxFaults`, `MaxStops` and
`MaxCrashes` are 1: a fault's effect is an orphaned row or orphaned files, and the
model then goes through its whole recovery. Retry delays of 1 and 2 ticks, a window of
1 or 2 and a stale limit of 1 let each comparison be on either side of the others.
`LateCap` bounds how overdue a row can be told to be; 2 keeps two due rows in order.
Attempts are bounded by `MaxAttempts`, or by the window where it is 0. Reports and
servers are interchangeable in `queue_two`, and files and reports in `spool_purge`, which
have no liveness property; no other run uses symmetry.

In `session`, two recipients make refusals of none, some and all, and two attempts a
retry; the message has 10 bytes in 2 lines, 12 on the wire, and the relay offers no limit,
one below both, one between them, or one it fits. In `tickets` two requests of up to two
files (`MaxParts`) overlap, of sizes 0 and 2 against budgets of 1 and 4, where two files
fit with their framing or do not; a ticket is asked for with a size or without one. In
`spool` there are two files and two reports, so that a batch can be half saved, a report
have more files than one, and a file more reports than one. In `migrate` two threads share a lock and
the third meets them at the database only; two migrations, of two statements and one,
have a build between them; two faults and the timeouts, which are not bounded, reach
the third attempt. In `send`, four lines make every pair of neighbouring blocks
with something before and after; the names are one that is kept, one with a
path, one that `safe_filename` changes and the one it is changed to, one that is no image, and
one that is too long, which changes once when it is cut and once more when the cut has left
an underscore at its end; sizes
lie around the padding of base64, its line ends and the budgets of three limits. `MaxLost`
is 1: every check of the files comes out either way at every stage.

### Fairness
The worker and the sweeper loop until told to stop, and their loops catch every
exception (`run_worker`, `run_sweeper`), hence weak fairness of their steps; time
passes; a stopped worker leaves its loop; a dead server is started again (`restart:
unless-stopped` in the compose file). In `session` one action at a time is enabled and
`timeout=60` ends each wait, so weak fairness of the attempt suffices. `spool` adds
strong fairness of settling, because the model leaves out `gave_up`, which
`EveryReportSettles` shows to end the retries, and of a requeue that finds the orphan
old enough. `tickets` asks only the sweeper to go on; clients may stall for ever, so no
progress of requests is claimed. In `migrate` a thread inside `_migrate_locked` goes on,
since SQLite's waits and the sleeps are bounded, and the lock, which is given back again
and again, is got in the end by each thread that waits (strong fairness of `TakeLock`);
nothing obliges a thread to connect or a process to come back. `send` claims no
progress.

Where `CHECK_DEADLOCK FALSE` is set the system may stop: a report is settled or refused
(`session`, `send`), the uploads are all answered (`tickets`), every thread has its
connection (`migrate`).

## Proofs

`DeliveryQueueProofs` proves `Spec => []TypeOK` (`TypeCorrect`), one lemma per action.

`DeliveryQueueSafety` proves the invariants. Most are not inductive alone:

- `MailPerAttempt` needs `HeldCounted` (a worker's attempt number is between 1 and the
  row's `attempts`), `HeldApart` (no two workers hold the same attempt of the same
  report) and `AbsentFresh` (a row not inserted yet has no attempts). Together they are
  inductive for any servers, slow or not, because `claim_due` raises the number in one
  transaction.
- `ActiveIsHeld` is inductive over the types: only a crash or a lost write, both counted
  in `faults`, drops a claim.
- `TerminalIsFinal` needs `OwnerInv` and the assumption `OneWorkerPerJob`: one server, or
  no `SlowDelivery`. A held row is pending, and no two workers hold one report. Without
  slow deliveries a held row is `active` with `idle <= StaleActive`, so `RequeueStale`
  passes it by; with one server a busy worker claims nothing else.
- `AttemptsWithinCap` needs in addition `HeldLatest` (the attempt a worker holds is the
  row's last, so that `gave_up` reads the current number) and `RoomForOne` (a pending
  report nobody holds has an attempt left within `MaxAttempts + faults`): that is where
  the attempt a crash costs is paid for.
- `RateLimit` takes two steps. `RateInv` is about rows: the deliveries recorded in the last
  minute and the workers past the throttle together are at most `MaxPerMinute` and one
  less than the servers, because the throttle is read while at most the *other* servers
  are past it. `OutboundInv` is about mails: each mail of the last minute is an attempt
  the relay took, no two are the same one, and a recorded one was recorded no longer ago
  than it was taken (`RecordedRecent`). So a mail the queue knows of stands for a recent row
  or a worker past the throttle of its own, and the limit on rows becomes one on mails, with
  `Unnoticed` on top. What follows for any number of servers is `OutboundOverrun`: each
  server after the first can go over the limit by one more. With one server that is
  `RateLimit`. Both assume `~StoreFails`, since a throttle whose query raises does not
  hold a worker back, and `OutboundOverrun` also `OneWorkerPerJob`, which one server has.
- `FirstComeFirstTried` needs `UntriedOnTime`: a report never tried is queued, and due
  since the instant it was submitted, so the order by `next_try_at` that `claim_due` asks
  for is that of submission. How overdue a row can be told to be is bounded by `LateCap`;
  the theorem assumes that this bound of the model lies past the last comparison
  (`LateCap > RetryWindow`), as it does in `queue_rate`.

`DeliveryQueueRefinement` maps the queue to `ReportService` step by step: enqueueing is
`Submit`, an acceptance is `Mail` (the attempt number is new, so the count grows by
one), `FinishDelivered` is `Confirm` and needs `SentTaken` (a worker past a delivery
that returned holds an attempt the relay took),
`FinishFailed` is `GiveUp`, all else stutters.

`AttachmentSpoolProofs` proves the four safety properties of the spool from one
inductive invariant, `SpoolInv`, checked with TLC on the instance of `spool` first:

- `UploadsAreThere` and `CallsKnowTheirFiles` (a file saved or handed out was uploaded, and a
  call has only ids that were handed out) keep what a failed batch deletes apart from what
  reports refer to.
- `CallBeforeRow` (a report whose `send_report` call is not over has no row, and keeps
  nothing before `CheckExists`) is why a row's `attachment_ids` never change.
- `WorkerKnowsJob` (the worker deletes for a settled report only, and a mail past the
  reading carries every reference) gives `DeliveredComplete` and
  `FreshGoesWithItsReport`.
- `SweepKeepsWhatItSaw` (what the reports pending at `SweepReads` keep is still what the
  sweep keeps when it purges) gives `LossHasACause`. Two of the causes it allows, an upload's
  purge and a shared file, are what `spool_purge` and `spool_shared` show to happen.

`MailSessionProofs` proves every safety property of the session and that its steps are
steps of `ReportService`. The ten commands are first reduced to what they do to the
report (`Forward`, `Raises`, `Takes`, `Doubts`, `Leaves`, `LeavesBadly`), so that the
invariant is preserved by six cases instead of a case per reply. `SessionInv` adds:
`Progress` (an attempt without an outcome is not counted in `doubt` yet), `Encrypted`
(what holds after STARTTLS before anything is sent), `Counted` (the current attempt is not
among a recipient's `taken` while sending, and all of those but one were in doubt), and
`SomebodyTook` (the content is sent only when a recipient was accepted), which makes
`delivered` a `Confirm`.

`StateMigrationsProofs` proves the four safety properties of `connect` for any threads,
processes, builds and migrations. `SchemaWhole` alone is not inductive: a commit copies
what its transaction saw. `TxInv` says what that is: after the second look the migration
is the next one, and its statements before `stmt`, and only those, have run
(`Half`). `LoopInv` keeps each loop at most one past the committed version and never past
the build, from the first statement on after every retry.

`UploadTicketsProofs` proves the types and every safety property of the tickets.
`TicketInv` is about the handlers: one past its last await is alone (`LoopHeld`), the
ticket it looked up is not used up between the two statements of `spend`
(`SpendingAlone`), a ticket that was of no use stays so (`StaleStays`), and a handler ends
with its answer (`AnsweredLast`). `TicketNeverOverspent` needs `BudgetInv`
beside it: what a ticket's uploads were charged for (`Charged`, accepted or about to be
saved) stays within what was granted together with what its row still allows
(`RowWithin`), and together with what a handler between the two statements of `spend` is
about to write back (`SpendingWithin`). The sums are handled by six lemmas on `Total`
(`TotalEmpty`, `TotalAdd`, ...), from which the sizes of any number of files in any number
of requests follow without an induction. `SpoolAsAnswered` follows from `SpoolInv` of the same
module: what the loop of `save_upload` has saved are the files from the first on, the
rollback has gone through them from the first on, and what it went through and is still
there could not be unlinked.

`SendReportProofs` proves every property of `send`, for reports of any length, any number
of files and every policy:

- `ShownInOrder` from `OrderInv`: what is written comes before what is collected, and a
  table and a list are never open together.
- `LinesShown` from `LinesInv`: `CodeInv` (a fence is open after an odd number of fences,
  and no line collected since ends it), `TableInv` (the open table is the whole run of
  rows up to the line at hand, which makes the row `_table` skips the second of its run,
  `SecondIsSecondRow`), `ListInv`, and `WrittenInv` (each line that was read is written as what
  it is, collected, or lost for one of the named reasons).
- `PlaceholdersCaught` from `LinesInv`, the fact that the text does not change after it was
  searched (`BodyInv`), and `SkippedIsCode`: with backticks at the start of lines only, a
  line the regular expression skips is one after an odd number of fences and before
  another.
- `FilesReachMail` and `CidsResolve` from `MailInv` (what was queued has the cids of the
  text's images, what was sent has a part for each file) and lemmas on names: files whose
  names the spool keeps apart have entries of their own, so none is dropped from the
  bundle (`EntryInjective`), a spool name that is an image's is that image's file
  (`ImageOfSpoolName`), and two images never share a cid, since the later one has more images
  before it (`CidInjective`). `CidsResolve` is then about html and cids put into the job
  together and parts made hours later from files found by their spool names: the names
  are what could differ, and `safe_filename` may change one of a zip twice.
- `RecipientsGoverned` from a lemma on `resolve` alone (`ResolveGoverned`) and the fact that a
  report past its arguments has recipients.
- `AcceptedFits` from `EncodedBound` (base64 in lines that end in CR and LF makes at most 37
  percent more, and five bytes) and `BudgetFits` (so dividing by 1.37 is enough for every number of files of
  every size).

Every inductive invariant holds on its instance under TLC too; `RateInv` and
`UntriedOnTime` also with two servers.

Assumptions: those the modules state of their constants (`QueueAssumption`,
`SessionAssumption`, `SpoolAssumption`, `TicketAssumption`, `MigrationAssumption`,
`RecipientAssumption`, `SendAssumption`): naturals and booleans where the settings are
numbers and switches, finite sets of reports, recipients, tickets and requests, values for
"none" outside the sets they stand beside, cases of the declared shape and a
`safe_filename` whose results have no path left (it may change its own results again); and, where a theorem names it,
`OneWorkerPerJob`, `~StoreFails`, one server, finitely many servers, or
`LateCap > RetryWindow`.

Only model-checked: `EveryReportSettles`, `SessionSettles`, `SettledFilesGo`, `OutwornRowsGo` and
`EveryOpenerAnswers`. They are liveness properties, which rest on fairness and so on
`ENABLED`, out of the prover's reach. Every invariant and every action property the passing
runs check is a theorem.

## Not modelled

- Inside the renderer: inline markup, pills, HTML and its escaping; the theme; the
  rasterizing of a logo and its cache. They are string and image processing without
  state that outlives a call.
- The MIME structure `_build` makes, beyond which part is inline with which cid.
- Of `unpack_zip`: the ratio, the number of entries and paths that leave the archive are
  a refusal that may come, without what decides it.
- `spend` with two servers on one data directory, where its two statements may interleave
  with another server's; nothing gives a ticket's share back when saving fails
  afterwards, which is modelled and which no property forbids.
- `report_status`' wording, `preview_report`, `list` and health tools, which only read; the
  guide, a constant text; environment and `.env` parsing and the registration of tools,
  whose values are the constants; authentication beyond "has the token or not".

The statements of SQLite are atomic, as its locking makes them.

## What is left

1. `spend` between two servers, once a document says what tickets promise there.
2. `CidsResolve` and `FilesReachMail` for files whose names the spool does not keep apart:
   the last of two files with one name stands for both, and what the mail then promises
   is not written down anywhere.
3. `OutboundOverrun` says by how much several servers may exceed the limit; no document says
   whether that is meant.
4. A worker that outlasts `STALE_ACTIVE_SECONDS` while another server takes its report over
   (with one server its only worker is the slow one), and an older build that goes on
   with a schema a newer one has moved past: both are allowed by the models and
   forbidden by no document.
5. A logo that is switched off between `send_report` and the mail, and images that are
   only referred to from tables and headings: `CidsResolve` says nothing of them.
