----------------------------- MODULE SendReport -----------------------------
(***************************************************************************)
(* One report on its way from the caller's files to the mail: the upload   *)
(* that makes a bundle (routes.py, bundles.py, uploads.py), _send_report   *)
(* of tools.py with the renderer inside it, and deliver of jobs.py, which  *)
(* builds the mail much later from what was queued.  The parts agree only  *)
(* through names: of the bundle's files, of the spool's files, of the      *)
(* images in the text, and of the cids that tie them together.             *)
(*                                                                         *)
(* Around them the spool loses files, the logo's file and the relay's size *)
(* limit change.  A case is what the caller and the operator chose:        *)
(*   bundle, zip   is there a bundle, and was it a zip or a form?          *)
(*   report        does the bundle's row name a report.md?                 *)
(*   files, extra  names of the bundle's files, and of other attachments   *)
(*   lines, titled the report, and whether its title is passed as well     *)
(*   header        subject, title and subtitle: clean, broken or token     *)
(*   config        is the server configured to send?                       *)
(*   given, policy recipients (see Recipients)                             *)
(*   logo          include_logo                                            *)
(*   size, rest    bytes of each file, and of the mail without its files   *)
(*   limits        what the relay may advertise as SIZE, 0 for nothing     *)
(***************************************************************************)
EXTENDS ReportBlocks, Recipients, Integers

CONSTANTS
    Cases,          \* the conversations to look at
    Short,          \* the last component of a name's path
    Safe,           \* what safe_filename makes of a name
    DefaultTotal,   \* DEFAULT_MAX_TOTAL_BYTES
    Overhead,       \* MESSAGE_OVERHEAD_BYTES
    MaxLost         \* bound: files that go while the report is under way

CaseType ==
    [bundle : BOOLEAN, zip : BOOLEAN, report : BOOLEAN, files : Seq(Names), extra : Seq(Names),
     lines : Seq(Line), titled : BOOLEAN, header : {"clean", "broken", "token"},
     config : BOOLEAN, given : [Sources -> SUBSET Parts],
     policy : [allow_to : BOOLEAN, require : BOOLEAN, allowed : SUBSET Addresses],
     logo : BOOLEAN, size : Nat, rest : Nat, limits : SUBSET Nat]

ASSUME SendAssumption ==
    /\ Cases \subseteq CaseType
    /\ {Short, Safe} \subseteq [Names -> Names]
    /\ \A n \in Names : Short[Safe[n]] = Safe[n] /\ Short[Short[n]] = Short[n]
    /\ {DefaultTotal, Overhead, MaxLost} \subseteq Nat
    /\ Names \cap {"plain", "token", "ticks"} = {}

VARIABLES
    case,       \* the case at hand
    stage,      \* how far the report is
    error,      \* why it was refused
    spool,      \* the uploads still in the spool
    logo,       \* the configured logo: none, ok, or a file that cannot be used
    limit,      \* the relay's limit as last probed, 0 for unknown
    job,        \* what _send_report is going to put into the job, and then what is in it
    mail        \* what deliver gives to send_email

vars == <<renderVars, case, stage, error, spool, logo, limit, job, mail>>

\* Uploads are numbered: report.md is 0, the bundle's files come next, then the
\* others. The bundle's row maps entries to them: of two files with one entry,
\* dict(entries) keeps the last. The spool has names of its own for them.
BundleIds == IF case.bundle THEN 1 .. Len(case.files) ELSE {}
ReportId == IF case.bundle /\ case.report THEN {0} ELSE {}
ExtraIds == Len(case.files) + 1 .. Len(case.files) + Len(case.extra)
NameOf(i) == IF i <= Len(case.files) THEN case.files[i] ELSE case.extra[i - Len(case.files)]

\* unpack_zip makes a name safe, and save_upload again: the second time may change
\* it, since safe_filename strips dots and underscores before it cuts.
Unzipped(n) == Safe[Short[n]]
InZip(i) == case.zip /\ i \in BundleIds
Entry(i) == IF case.zip THEN Unzipped(NameOf(i)) ELSE Short[NameOf(i)]
SpoolName(i) == IF InZip(i) THEN Safe[Unzipped(NameOf(i))] ELSE Safe[NameOf(i)]
KeptIds == {i \in BundleIds : \A k \in BundleIds : k > i => Entry(k) # Entry(i)}
Uploaded == ReportId \cup BundleIds \cup ExtraIds
RefsOfBundle == KeptIds     \* faulty variant: a bundle replaces the attachments
Refs == KeptIds \cup ExtraIds

Stages == {"new", "stored", "asked", "found", "read", "checked", "resolved", "rendering",
           "queued", "sent", "failed", "refused", "raised"}
NoImages == [n \in {} |-> 0]
NoJob == [logo |-> FALSE, limit |-> 0, html |-> {}, images |-> NoImages]
NoMail == [to |-> {}, parts |-> {}, logo |-> FALSE]

TypeOK ==
    /\ RenderTypeOK
    /\ case \in CaseType
    /\ stage \in Stages
    /\ error \in {"none", "arguments", "files", "placeholder", "size", "logo"}
    /\ error # "none" <=> stage = "refused"
    /\ spool \subseteq Uploaded
    /\ logo \in {"none", "ok", "bad"}
    /\ limit \in Nat
    /\ \E images \in SUBSET Names :
            job \in [logo : BOOLEAN, limit : Nat, html : SUBSET Nat, images : [images -> Nat]]
    /\ mail.to \subseteq Addresses
    /\ mail.parts \subseteq [id : Refs, cid : Int]

Init ==
    /\ case \in Cases
    /\ RenderInit(case.lines, case.titled)
    /\ stage = "new"
    /\ error = "none"
    /\ spool = {}
    /\ logo \in IF case.logo THEN {"none", "ok"} ELSE {"none"}
    /\ limit = 0
    /\ job = NoJob
    /\ mail = NoMail
-----------------------------------------------------------------------------
(* What _send_report computes.                                             *)

\* Images the bundle's report refers to, by the last component of the path,
\* anywhere in it; each gets a number for its cid, in the bundle's order.
Referenced == {Short[md[p].holds] : p \in {q \in Lines : md[q].holds \in Names}}
Images == {Entry(i) : i \in BundleIds} \cap Referenced
FirstOf(n) == CHOOSE i \in BundleIds : Entry(i) = n /\ \A k \in BundleIds : Entry(k) = n => i <= k
CidOf(n) == Cardinality({m \in Images : FirstOf(m) < FirstOf(n)})

\* _inline is given the images for paragraphs and list items only.
Inlined == {p \in Lines : \E i \in DOMAIN out :
                p \in out[i].of /\ out[i].tag # "pre" /\ Kind(p) \in {"text", "item"}}
Embedded == {p \in Inlined : md[p].holds \in Names /\ Short[md[p].holds] \in Images}

Ticks == {p \in Lines : Kind(p) = "fence" \/ md[p].holds = "ticks"}

\* _unresolved with skip_code: the text from one ``` to the next does not count,
\* and a last ``` without a partner opens nothing. Faulty variant: a greedy match.
SkippedGreedy(p) == (\E q \in Ticks : q < p) /\ \E q \in Ticks : q > p
Skipped(p) == Cardinality({q \in Ticks : q < p}) % 2 = 1 /\ \E q \in Ticks : q > p
Unresolved == {p \in Lines : md[p].holds = "token" /\ ~ Skipped(p)}

\* attachment_budget, and max_total_bytes without MAIL_REPORT_MAX_TOTAL_BYTES.
\* Faulty variant: an inflation a little below that of base64 in lines.
BudgetTooLarge(l) == IF l > Overhead THEN ((l - Overhead) * 100) \div 136 ELSE 0
attachment_budget(l) == IF l > Overhead THEN ((l - Overhead) * 100) \div 137 ELSE 0
max_total_bytes == IF limit = 0 THEN DefaultTotal ELSE attachment_budget(limit)
Total == Cardinality(Refs) * case.size
-----------------------------------------------------------------------------
(* The caller's calls, and what they do to the report.                     *)

Reach(st) == stage' = st /\ UNCHANGED error
RefuseQuietly(why) == stage' = "refused" /\ UNCHANGED error   \* faulty variant
Refuse(why) == stage' = "refused" /\ error' = why
Elsewhere == <<case, logo, limit>>

\* upload_attachment saves every file and stores the bundle's row.
Upload ==
    /\ stage = "new"
    /\ spool' = Uploaded
    /\ Reach("stored")
    /\ UNCHANGED <<renderVars, Elsewhere, job, mail>>

Chosen == resolve(case.given, case.policy)

BadArguments ==
    \/ case.header # "clean"
    \/ ~ case.config
    \/ Chosen = Refusal
    \/ ~ case.bundle /\ case.lines = <<>>

Ask ==
    /\ stage = "stored"
    /\ IF BadArguments THEN Refuse("arguments") ELSE Reach(IF case.bundle THEN "asked" ELSE "read")
    /\ UNCHANGED <<renderVars, Elsewhere, spool, job, mail>>

\* bundles.load: every file must exist, and then report.md is resolved; the
\* error of a report.md that is gone is not caught by _send_report.
FindFiles ==
    /\ stage = "asked"
    /\ IF KeptIds \subseteq spool THEN Reach("found") ELSE Refuse("files")
    /\ UNCHANGED <<renderVars, Elsewhere, spool, job, mail>>

\* The body is the bundle's report.md, whatever was passed; without one it must be
\* passed. (Every bundle of routes.py has one; load does not rely on it.) The cids
\* of the images are fixed here, for the text and for the job.
ReadReport ==
    /\ stage = "found"
    /\ \/ /\ case.report => 0 \in spool
          /\ case.report \/ case.lines # <<>>
          /\ Reach("read")
          /\ job' = [job EXCEPT !.images = [n \in Images |-> CidOf(n)]]
       \/ case.report /\ 0 \notin spool /\ Reach("raised") /\ UNCHANGED job
       \/ ~ case.report /\ case.lines = <<>> /\ Refuse("arguments") /\ UNCHANGED job
    /\ UNCHANGED <<renderVars, Elsewhere, spool, mail>>

CheckBody ==
    /\ stage = "read"
    /\ IF Unresolved = {} THEN Reach("checked") ELSE Refuse("placeholder")
    /\ UNCHANGED <<renderVars, Elsewhere, spool, job, mail>>

ResolveFiles ==
    /\ stage = "checked"
    /\ \/ Refs \subseteq spool /\ Total <= max_total_bytes /\ Reach("resolved")
       \/ Refs \subseteq spool /\ Total > max_total_bytes /\ Refuse("size")
       \/ ~ Refs \subseteq spool /\ Refuse("files")
    /\ job' = [job EXCEPT !.limit = limit]
    /\ UNCHANGED <<renderVars, Elsewhere, spool, mail>>

LoadLogo ==
    /\ stage = "resolved"
    /\ IF case.logo /\ logo = "bad" THEN Refuse("logo") ELSE Reach("rendering")
    /\ job' = [job EXCEPT !.logo = case.logo /\ logo = "ok"]
    /\ UNCHANGED <<renderVars, Elsewhere, spool, mail>>

Render ==
    /\ stage = "rendering"
    /\ ReadLine
    /\ UNCHANGED <<stage, error, Elsewhere, spool, job, mail>>

Enqueue ==
    /\ stage = "rendering"
    /\ Rendered
    /\ job' = [job EXCEPT !.html = {job.images[Short[md[p].holds]] : p \in Embedded}]
    /\ Reach("queued")
    /\ UNCHANGED <<renderVars, Elsewhere, spool, mail>>
-----------------------------------------------------------------------------
(* The worker, and the world.                                              *)

\* Faulty variant: files are numbered by their place in the bundle, images or not.
PartByPlace(i) == [id |-> i, cid |-> IF SpoolName(i) \in DOMAIN job.images THEN i - 1 ELSE -1]

\* deliver: a file whose name in the spool is that of an image goes inline with
\* the cid the job has for it, any other is an attachment.
Part(i) ==
    LET name == SpoolName(i)
    IN  [id |-> i, cid |-> IF name \in DOMAIN job.images THEN job.images[name] ELSE -1]

Deliver ==
    /\ stage = "queued"
    /\ Refs \subseteq spool
    /\ job.logo => logo # "bad"
    /\ mail' = [to |-> Chosen.to, parts |-> {Part(i) : i \in Refs},
                logo |-> job.logo /\ logo = "ok"]
    /\ spool' = spool \ Refs
    /\ Reach("sent")
    /\ UNCHANGED <<renderVars, Elsewhere, job>>

\* Whatever deliver or the relay raises for good, or too often.
Fail ==
    /\ stage = "queued"
    /\ spool' = spool \ Refs
    /\ Reach("failed")
    /\ UNCHANGED <<renderVars, Elsewhere, job, mail>>

\* The TTL, another upload's purge, or another report with the same file.
Pending == stage \notin {"new", "sent", "failed", "refused", "raised"}

FileGoes ==
    /\ Pending
    /\ Cardinality(Uploaded \ spool) < MaxLost
    /\ \E i \in spool : spool' = spool \ {i}
    /\ UNCHANGED <<renderVars, Elsewhere, stage, error, job, mail>>

\* The logo's file is replaced; while the report is queued the server may also
\* be started again with other settings.  A report that asks for no logo never reads it.
LogoChanges ==
    /\ Pending /\ case.logo
    /\ logo' \in {"none", "ok", "bad"} \ {logo}
    /\ stage # "queued" => "none" \notin {logo, logo'}
    /\ UNCHANGED <<renderVars, case, limit, stage, error, spool, job, mail>>

\* The sweeper's probe.
ProbeRelay ==
    /\ Pending
    /\ limit' \in case.limits \ {limit}
    /\ UNCHANGED <<renderVars, case, logo, stage, error, spool, job, mail>>

Call == Ask \/ FindFiles \/ ReadReport \/ CheckBody \/ ResolveFiles \/ LoadLogo \/ Render \/ Enqueue

Next == Upload \/ Call \/ Deliver \/ Fail \/ FileGoes \/ LogoChanges \/ ProbeRelay

Spec == Init /\ [][Next]_vars
-----------------------------------------------------------------------------
(* What the mail must be.                                                  *)

Files == BundleIds \cup ExtraIds
Distinct ==
    /\ \A i, k \in Files : SpoolName(i) = SpoolName(k) => i = k
    /\ \A i, k \in BundleIds : Entry(i) = Entry(k) => i = k
NamesKept == \A i \in BundleIds : Entry(i) = SpoolName(i)

\* Every image tag of the mail names exactly one of its parts, and that part is
\* the file the reference meant; the logo's tag finds the logo, unless the
\* server was told to use none since.  Holds for files with names of their own
\* that are the same in the bundle and in the spool.
CidsResolve ==
    stage = "sent" /\ Distinct /\ NamesKept =>
        /\ \A p \in Embedded :
            LET cid == job.images[Short[md[p].holds]]
                found == {part \in mail.parts : part.cid = cid}
            IN  /\ cid \in job.html
                /\ \E part \in found : found = {part} /\ Entry(part.id) = Short[md[p].holds]
        /\ \A cid \in job.html : \E part \in mail.parts : part.cid = cid
        /\ job.logo => mail.logo \/ logo = "none"

\* Every file that was uploaded for the report is a part of the mail, and, if the
\* spool keeps the names, one the report does not refer to is an attachment the
\* recipient can see.
FilesReachMail ==
    stage = "sent" /\ Distinct =>
        /\ {part.id : part \in mail.parts} = Files
        /\ NamesKept =>
            \A part \in mail.parts :
                part.cid # -1 => part.id \in BundleIds /\ Entry(part.id) \in Referenced

\* The report goes to the addresses of one source, all of them allowed: the
\* argument if it names anyone and counts, else the header, else the default.
\* What a source names and may not have is never replaced by a later source.
RecipientsGoverned ==
    stage = "sent" =>
        \E s \in Sources :
            LET given == case.given
                policy == case.policy
            IN  /\ mail.to = given[s] \cap Addresses /\ mail.to # {}
                /\ \A t \in Sources :
                    given[t] \cap Addresses # {} =>
                        t = s \/ t = "default" \/ <<s, t>> = <<"argument", "header">>
                /\ policy.allowed # {} => mail.to \subseteq policy.allowed
                /\ s = "argument" => policy.allow_to
                /\ s = "default" => ~ policy.require

\* The regular expression that looks for placeholders and the renderer agree on
\* what is code, as long as ``` stands at the start of lines only: a mail shows
\* a placeholder in a code block or not at all, and a report is refused only
\* for one that is not in a (closed) code block.
PlaceholdersCaught ==
    (\A p \in Lines : md[p].holds # "ticks") =>
        /\ stage \in {"queued", "sent"} =>
            \A i \in DOMAIN out : \A p \in out[i].of :
                md[p].holds = "token" => out[i].tag = "pre"
        /\ error = "placeholder" =>
            \E p \in Lines : md[p].holds = "token" /\ (Unclosed(p) \/ ~ Fenced(p))

\* Bytes of a file in the mail the relay measures: base64 in lines of 76
\* characters, each ended by CR and LF as smtplib sends it.
Encoded(n) == LET chars == 4 * ((n + 2) \div 3) IN chars + 2 * ((chars + 75) \div 76)

\* A report whose files fit the budget derived from the relay's SIZE is a
\* message the relay takes, if all the rest fits MESSAGE_OVERHEAD_BYTES.
AcceptedFits ==
    LET files == Cardinality(Refs)
        others == case.rest + 5 * files     \* padding and last line end of each file
    IN  stage = "queued" /\ job.limit > 0 /\ files > 0 /\ case.size > 0 /\ others <= Overhead =>
            case.rest + files * Encoded(case.size) <= job.limit

\* The guide and send_report's description: every image the report refers to,
\* by the name it has in the zip, is embedded in the mail.
ReferencesEmbedded ==
    stage = "sent" =>
        \A p \in Lines : \A i \in BundleIds : md[p].holds = NameOf(i) =>
            p \in Embedded /\ \E part \in mail.parts : part.cid = job.images[Short[md[p].holds]]
=============================================================================
