--------------------------- MODULE UploadTickets ---------------------------
(***************************************************************************)
(* Upload tickets (storage/tickets.py) and the upload handler that spends  *)
(* them (upload_attachment of routes.py, behind BearerAuthMiddleware).     *)
(*                                                                         *)
(* The handlers of one server share an event loop: another request may run *)
(* while a body is being received, and none from the last await on, where  *)
(* the ticket is spent and the files are saved.  The sweeper, the relay    *)
(* probe and request_upload_ticket run in threads and so at any time.      *)
(*                                                                         *)
(* A body is the sequence of the sizes of its files and the way they come: *)
(*   raw        one file, the bytes of the body                            *)
(*   multipart  the parts of a form, and Framing bytes around them         *)
(*   zip        an archive, of Packed bytes whatever it holds              *)
(***************************************************************************)
EXTENDS Naturals, FiniteSets, SequencesExt

CONSTANTS
    Tickets,        \* the ids of the tickets
    Requests,       \* the uploads
    NoTicket,       \* an upload with the bearer token only
    NoRequest,      \* the event loop between two handlers
    MaxFiles,       \* DEFAULT_MAX_FILES
    MaxFileBytes,   \* MAIL_REPORT_MAX_ATTACHMENT_BYTES
    Budgets,        \* what max_total_bytes may be, as the relay's SIZE limit changes
    Asked,          \* bound: the total_bytes a client may ask for, 0 if it leaves them out
    FileSizes,      \* the sizes a file may have, 0 for an empty one
    Framing,        \* the bytes of a form that are not file content
    Packed,         \* the bytes of an archive
    MaxParts        \* bound: the files of an upload

ASSUME TicketAssumption ==
    /\ IsFiniteSet(Tickets) /\ IsFiniteSet(Requests)
    /\ NoTicket \notin Tickets /\ NoRequest \notin Requests
    /\ {MaxFiles, MaxFileBytes, Framing, Packed, MaxParts} \subseteq Nat
    /\ Budgets # {} /\ Budgets \subseteq Nat /\ Asked \subseteq Nat /\ FileSizes \subseteq Nat

VARIABLES
    row,        \* the tickets table
    granted,    \* what each ticket was created for, for the properties only
    total,      \* max_total_bytes
    loop,       \* the request whose handler holds the event loop
    stage,      \* where the handler of each request is
    upload,     \* the ticket and the body of each request
    local,      \* what each handler remembers: the per-file limit and the budget it read when
                \* it began, and what spend computed to remain of the ticket
    answer,     \* the status code of each response
    batch,      \* how many files the list saved of each handler names, and how many of them
                \* att.delete has gone through
    stored,     \* the files each request has in the spool, as the set of their positions
    stuck       \* those the spool would not unlink

vars == <<row, granted, total, loop, stage, upload, local, answer, batch, stored, stuck>>

spool == <<batch, stored, stuck>>

Least(m, n) == IF m < n THEN m ELSE n

\* The sum of amount[x] over the members of a set, as the number of its units:
\* each member counts for as many pairs as its amount.
Total(S, amount) == Cardinality(UNION {{x} \X (1 .. amount[x]) : x \in S})

Sum(sizes) == Total(DOMAIN sizes, sizes)

max_file_bytes == Least(MaxFileBytes, total)

NoBody == [kind |-> "raw", sizes |-> <<>>]

Bodies ==
    {[kind |-> "raw", sizes |-> <<size>>] : size \in FileSizes} \cup
    {[kind |-> kind, sizes |-> sizes] :
        kind \in {"multipart", "zip"}, sizes \in BoundedSeq(FileSizes, MaxParts) \ {<<>>}}

Refused == {400, 401, 403, 413}
Nothing == [limit |-> 0, budget |-> 0, files |-> 0, bytes |-> 0]
NoRow == [there |-> FALSE, files |-> 0, bytes |-> 0, burned |-> FALSE, expired |-> FALSE]

Row == [there : BOOLEAN, files : Nat, bytes : Nat, burned : BOOLEAN, expired : BOOLEAN]
Upload == [ticket : Tickets \cup {NoTicket}, stale : BOOLEAN, body : Bodies \cup {NoBody}]

TypeOK ==
    /\ row \in [Tickets -> Row]
    /\ granted \in [Tickets -> [files : Nat, bytes : Nat]]
    /\ total \in Budgets
    /\ loop \in Requests \cup {NoRequest}
    /\ \A r \in Requests : loop = r <=> stage[r] \in {"received", "spending", "saving", "deleting"}
    /\ stage \in [Requests -> {"new", "arrived", "receiving", "received", "spending", "saving",
                               "deleting", "answered"}]
    /\ upload \in [Requests -> Upload]
    /\ local \in [Requests -> [limit : Nat, budget : Nat, files : Nat, bytes : Nat]]
    /\ answer \in [Requests -> Refused \cup {0, 201, 500}]
    /\ batch \in [Requests -> [saved : Nat, undone : Nat]]
    /\ stored \in [Requests -> SUBSET Nat] /\ stuck \in [Requests -> SUBSET Nat]

Init ==
    /\ row = [t \in Tickets |-> NoRow]
    /\ granted = [t \in Tickets |-> [files |-> 0, bytes |-> 0]]
    /\ total \in Budgets
    /\ loop = NoRequest
    /\ stage = [r \in Requests |-> "new"]
    /\ upload = [r \in Requests |->
                    [ticket |-> NoTicket, stale |-> FALSE, body |-> NoBody]]
    /\ local = [r \in Requests |-> Nothing]
    /\ answer = [r \in Requests |-> 0]
    /\ batch = [r \in Requests |-> [saved |-> 0, undone |-> 0]]
    /\ stored = [r \in Requests |-> {}] /\ stuck = [r \in Requests |-> {}]
-----------------------------------------------------------------------------
(* The tickets table.                                                      *)

\* Faulty variants: a row is a ticket whatever it says; only what is both old
\* and used up is purged; handlers run in threads of their own.
AnyRow(t) == row[t].there
OutwornBoth(t) == row[t].there /\ row[t].expired /\ row[t].burned
LoopShared(r) == r \in Requests

\* _row returns, rather than raises.
Valid(t) == row[t].there /\ ~ row[t].burned /\ ~ row[t].expired

Spent(t) == ~ row[t].there \/ row[t].burned \/ row[t].expired

Admitted(t) == IF t = NoTicket THEN TRUE ELSE Valid(t)

\* _row deletes the row of a ticket it finds expired.
Looked(t) == IF row[t].there /\ ~ row[t].burned /\ ~ Valid(t)
             THEN [row EXCEPT ![t] = NoRow] ELSE row

Outworn(t) == row[t].there /\ (row[t].expired \/ row[t].burned)

Purged == [t \in Tickets |-> IF Outworn(t) THEN NoRow ELSE row[t]]

requests == <<loop, stage, upload, local, answer, spool>>

\* request_upload_ticket: 0 stands for an argument that is left out.
Create(t, files, bytes) ==
    /\ granted[t].files = 0
    /\ LET allowed == Least(IF files = 0 THEN MaxFiles ELSE files, MaxFiles)
           budget == Least(IF bytes = 0 THEN total ELSE bytes, total)
       IN  /\ allowed >= 1
           /\ row' = [Purged EXCEPT ![t] = [there |-> TRUE, files |-> allowed, bytes |-> budget,
                                            burned |-> FALSE, expired |-> FALSE]]
           /\ granted' = [granted EXCEPT ![t] = [files |-> allowed, bytes |-> budget]]
    /\ UNCHANGED <<total, requests>>

\* The ticket's ten minutes are over.
Expire(t) ==
    /\ row[t].there /\ ~ row[t].expired
    /\ row' = [row EXCEPT ![t].expired = TRUE]
    /\ UNCHANGED <<granted, total, requests>>

\* The part of a sweep that is about tickets.
SweepTickets ==
    /\ \E t \in Tickets : Outworn(t)
    /\ row' = Purged
    /\ UNCHANGED <<granted, total, requests>>

\* relay.probe records another SIZE limit, and max_total_bytes follows.
ProbeRelay ==
    /\ \E budget \in Budgets \ {total} : total' = budget
    /\ UNCHANGED <<row, granted, requests>>
-----------------------------------------------------------------------------
(* BearerAuthMiddleware and the handler up to its last await.              *)

LoopFree(r) == loop \in {NoRequest, r}

\* Faulty variant: a handler that returns early keeps the event loop.
AnswerKeepsLoop(r, code) ==
    /\ answer' = [answer EXCEPT ![r] = code]
    /\ stage' = [stage EXCEPT ![r] = "answered"]
    /\ local' = [local EXCEPT ![r] = Nothing]
    /\ UNCHANGED loop

Answer(r, code) ==
    /\ answer' = [answer EXCEPT ![r] = code]
    /\ stage' = [stage EXCEPT ![r] = "answered"]
    /\ loop' = IF loop = r THEN NoRequest ELSE loop
    /\ local' = [local EXCEPT ![r] = Nothing]

Step(r, next) ==
    /\ stage' = [stage EXCEPT ![r] = next]
    /\ UNCHANGED <<answer, loop>>

\* A ticket that is no good leaves the bearer token, which the client may hold.
\* Ids are random: no client sends one that was never handed out and later is.
Arrive(r, t) ==
    /\ stage[r] = "new" /\ LoopFree(r)
    /\ t \in Tickets => granted[t].files > 0
    /\ upload' = [upload EXCEPT ![r] =
                    [ticket |-> t, stale |-> (t \in Tickets /\ Spent(t)), body |-> NoBody]]
    /\ row' = IF t = NoTicket THEN row ELSE Looked(t)
    /\ \/ Step(r, "arrived") /\ UNCHANGED local
       \/ (Admitted(t) => t = NoTicket) /\ Answer(r, 401)
    /\ UNCHANGED <<granted, total, spool>>

\* tickets.check: the budget is what the ticket has left now.
Check(r) ==
    LET t == upload[r].ticket
    IN  /\ stage[r] = "arrived" /\ LoopFree(r)
        /\ IF ~ Admitted(t)
           THEN Answer(r, 403) /\ row' = Looked(t)
           ELSE /\ Step(r, "receiving")
                /\ local' = [local EXCEPT
                     ![r].limit = max_file_bytes,
                     ![r].budget = IF t = NoTicket THEN total ELSE Least(total, row[t].bytes)]
                /\ UNCHANGED row
        /\ UNCHANGED <<granted, total, upload, spool>>

Length(body) ==
    CASE body.kind = "raw" -> Sum(body.sizes)
      [] body.kind = "multipart" -> Sum(body.sizes) + Framing
      [] body.kind = "zip" -> Packed

\* unpack_zip: entry sizes count against the budget and against the per-file
\* limit of now; what else it refuses an archive for is left open, and so is what
\* makes a form unreadable.
Unpacks(body, budget) ==
    /\ Sum(body.sizes) <= budget
    /\ \A i \in DOMAIN body.sizes : body.sizes[i] <= max_file_bytes

\* The body comes in, unless its Content-Length or the bytes received exceed the
\* budget; the bytes of a form that comes in chunks are not counted.
Receive(r, body) ==
    /\ stage[r] = "receiving" /\ LoopFree(r)
    /\ upload' = [upload EXCEPT ![r].body = body]
    /\ \/ Length(body) > local[r].budget /\ Answer(r, 413)
       \/ body.kind # "raw" /\ Length(body) <= local[r].budget /\ Answer(r, 400)
       \/ /\ Length(body) <= local[r].budget \/ body.kind = "multipart"
          /\ body.kind = "zip" => Unpacks(body, local[r].budget)
          /\ stage' = [stage EXCEPT ![r] = "received"]
          /\ loop' = r
          /\ UNCHANGED <<local, answer>>
    /\ UNCHANGED <<row, granted, total, spool>>

\* The client goes away while its body is read.
Disconnect(r) ==
    /\ stage[r] = "receiving" /\ LoopFree(r)
    /\ Answer(r, 500)
    /\ UNCHANGED <<row, granted, total, upload, spool>>
-----------------------------------------------------------------------------
(* The rest of the handler runs without a break on the event loop.         *)

\* The limits read at the start are applied; then spend reads the ticket again.
SpendReads(r) ==
    LET t == upload[r].ticket
        sizes == upload[r].body.sizes
    IN  /\ stage[r] = "received"
        /\ \/ /\ Sum(sizes) > local[r].budget \/ \E i \in DOMAIN sizes : sizes[i] > local[r].limit
              /\ Answer(r, 413)
              /\ UNCHANGED row
           \/ /\ Sum(sizes) <= local[r].budget
              /\ \A i \in DOMAIN sizes : sizes[i] <= local[r].limit
              /\ \/ t = NoTicket /\ Step(r, "saving") /\ UNCHANGED <<row, local>>
                 \/ /\ t # NoTicket
                    /\ row' = Looked(t)
                    /\ IF Valid(t) /\ Len(sizes) <= row[t].files /\ Sum(sizes) <= row[t].bytes
                       THEN /\ local' = [local EXCEPT ![r].files = row[t].files - Len(sizes),
                                                  ![r].bytes = row[t].bytes - Sum(sizes)]
                            /\ Step(r, "spending")
                       ELSE Answer(r, 403)
        /\ UNCHANGED <<granted, total, upload, spool>>

\* UPDATE ... WHERE id = ?: no row, no effect.
SpendWrites(r) ==
    LET t == upload[r].ticket
    IN  /\ stage[r] = "spending"
        /\ row' = IF row[t].there
                  THEN [row EXCEPT ![t] =
                           [there |-> TRUE, files |-> local[r].files, bytes |-> local[r].bytes,
                            burned |-> (local[r].files = 0 \/ local[r].bytes = 0),
                            expired |-> row[t].expired]]
                  ELSE row
        /\ Step(r, "saving")
        /\ UNCHANGED <<granted, total, upload, local, spool>>

\* save_upload of the next file: an empty one, or one over the limit of now, is an
\* AttachmentError; an OSError is not caught, and may leave the file cut short.
Save(r) ==
    LET sizes == upload[r].body.sizes
        i == batch[r].saved + 1
    IN  /\ stage[r] = "saving" /\ i \in DOMAIN sizes
        /\ \/ /\ sizes[i] \in 1 .. max_file_bytes
              /\ stored' = [stored EXCEPT ![r] = @ \cup {i}]
              /\ \/ /\ batch' = [batch EXCEPT ![r].saved = i]
                    /\ UNCHANGED <<loop, stage, answer, local>>
                 \/ Answer(r, 500) /\ UNCHANGED batch
           \/ /\ sizes[i] \in 1 .. max_file_bytes
              /\ Answer(r, 500)
              /\ UNCHANGED <<batch, stored>>
           \/ /\ sizes[i] \notin 1 .. max_file_bytes
              /\ Step(r, "deleting")
              /\ UNCHANGED <<local, batch, stored>>
        /\ UNCHANGED <<row, granted, total, upload, stuck>>

\* Every file is saved; bundles.create may raise, where one of them is the report.
Respond(r) ==
    /\ stage[r] = "saving" /\ batch[r].saved = Len(upload[r].body.sizes)
    /\ Answer(r, 201) \/ Answer(r, 500)
    /\ UNCHANGED <<row, granted, total, upload, spool>>

\* Faulty variant: the rollback spares the last file saved.
DeleteAllButLast(r) ==
    LET i == batch[r].undone + 1
    IN  /\ stage[r] = "deleting"
        /\ IF i >= batch[r].saved
           THEN Answer(r, 400) /\ UNCHANGED spool
           ELSE /\ batch' = [batch EXCEPT ![r].undone = i]
                /\ stored' = [stored EXCEPT ![r] = @ \ {i}]
                /\ UNCHANGED <<loop, stage, answer, local, stuck>>
        /\ UNCHANGED <<row, granted, total, upload>>

\* att.delete of what was saved, file by file: an unlink that fails is passed over.
Delete(r) ==
    LET i == batch[r].undone + 1
    IN  /\ stage[r] = "deleting"
        /\ IF i > batch[r].saved
           THEN Answer(r, 400) /\ UNCHANGED spool
           ELSE /\ batch' = [batch EXCEPT ![r].undone = i]
                /\ \/ stored' = [stored EXCEPT ![r] = @ \ {i}] /\ UNCHANGED stuck
                   \/ stuck' = [stuck EXCEPT ![r] = @ \cup {i}] /\ UNCHANGED stored
                /\ UNCHANGED <<loop, stage, answer, local>>
        /\ UNCHANGED <<row, granted, total, upload>>
-----------------------------------------------------------------------------
Handle(r) ==
    \/ \E t \in Tickets \cup {NoTicket} : Arrive(r, t)
    \/ Check(r) \/ Disconnect(r)
    \/ \E body \in Bodies : Receive(r, body)
    \/ SpendReads(r) \/ SpendWrites(r) \/ Save(r) \/ Respond(r) \/ Delete(r)

Next ==
    \/ \E t \in Tickets :
        \/ \E files \in 0 .. MaxFiles + 1, bytes \in Asked : Create(t, files, bytes)
        \/ Expire(t)
    \/ SweepTickets
    \/ ProbeRelay
    \/ \E r \in Requests : Handle(r)

Spec == Init /\ [][Next]_vars

\* The sweeper loops; nothing obliges a client to go on.
FairSpec == Spec /\ WF_vars(SweepTickets)
-----------------------------------------------------------------------------
(* What holds.                                                             *)

Accepted(t) == {r \in Requests : upload[r].ticket = t /\ answer[r] = 201}
FilesOf == [r \in Requests |-> Len(upload[r].body.sizes)]
BytesOf == [r \in Requests |-> Sum(upload[r].body.sizes)]

\* All the uploads a ticket was accepted for stay within what it was created for,
\* in files and in bytes, however they overlap.
TicketNeverOverspent ==
    \A t \in Tickets :
        /\ Total(Accepted(t), FilesOf) <= granted[t].files
        /\ Total(Accepted(t), BytesOf) <= granted[t].bytes

\* A ticket that was used up, expired or gone when the request came in does not
\* carry an upload, and a bearer token beside it makes no difference.
StaleTicketCarriesNothing == \A r \in Requests : answer[r] = 201 => ~ upload[r].stale

\* What the answer says of the spool is so: all the files of an upload that is
\* created are in it, and of one that is refused only those that would not go.
SpoolAsAnswered ==
    \A r \in Requests :
        /\ answer[r] = 201 => stored[r] = DOMAIN upload[r].body.sizes
        /\ answer[r] \in Refused => stored[r] = stuck[r]

\* A row that is of no more use leaves the table.
OutwornRowsGo ==
    \A t \in Tickets : row[t].there /\ (row[t].expired \/ row[t].burned) ~> ~ row[t].there
=============================================================================
