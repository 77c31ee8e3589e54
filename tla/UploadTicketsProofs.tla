------------------------ MODULE UploadTicketsProofs ------------------------
(***************************************************************************)
(* What holds of UploadTickets for any number of tickets and uploads: that *)
(* a stale ticket carries none, from rows, the event loop and stages alone; *)
(* the types; the budget of a ticket, from what a sum over a finite set     *)
(* does when a member is added; and what the answer says of the spool.      *)
(***************************************************************************)
EXTENDS UploadTickets, FiniteSetTheorems, SequenceTheorems, TLAPS

OnLoop == {"received", "spending", "saving", "deleting"}

\* The shapes of the variables, as far as the argument needs them.
IsRow(x) == x = [there |-> x.there, files |-> x.files, bytes |-> x.bytes,
                 burned |-> x.burned, expired |-> x.expired]
RowShape == row = [t \in Tickets |-> row[t]] /\ \A t \in Tickets : IsRow(row[t])
IsUpload(x) ==
    /\ x = [ticket |-> x.ticket, stale |-> x.stale, body |-> x.body]
    /\ x.ticket \in Tickets \cup {NoTicket}
UploadShape == upload = [r \in Requests |-> upload[r]] /\ \A r \in Requests : IsUpload(upload[r])
Shapes ==
    /\ RowShape /\ UploadShape
    /\ granted = [t \in Tickets |-> granted[t]]
    /\ stage = [r \in Requests |-> stage[r]]
    /\ answer = [r \in Requests |-> answer[r]]

\* A handler past its last await holds the event loop, alone.
LoopHeld == \A r \in Requests : stage[r] \in OnLoop <=> loop = r

\* Between the two statements of spend the ticket may expire or go, but nothing
\* else can use it up.
SpendingAlone ==
    \A r \in Requests : stage[r] = "spending" =>
        upload[r].ticket \in Tickets /\ ~ row[upload[r].ticket].burned

\* A ticket that was of no use stays so, and the request gets no further than
\* its check.
StaleStays ==
    \A r \in Requests : upload[r].stale =>
        /\ upload[r].ticket \in Tickets
        /\ granted[upload[r].ticket].files # 0
        /\ Spent(upload[r].ticket)
        /\ stage[r] \in {"arrived", "answered"}
        /\ answer[r] # 201

\* A response is the end of a handler.
AnsweredLast == \A r \in Requests : stage[r] # "answered" => answer[r] = 0

TicketInv == Shapes /\ LoopHeld /\ SpendingAlone /\ StaleStays /\ AnsweredLast
-----------------------------------------------------------------------------
(* What a step does to the rows, and what a request does to itself.        *)

\* Rows are looked at, purged or marked expired: none is used up, none is renewed.
Worn ==
    /\ RowShape'
    /\ \A t \in Tickets : Spent(t) => Spent(t)'
    /\ \A t \in Tickets : ~ row[t].burned => ~ row'[t].burned

LEMMA RowsWorn ==
    ASSUME RowShape,
           row' = [t \in Tickets |-> row'[t]],
           \A t \in Tickets : \/ row'[t] = row[t] \/ row'[t] = NoRow
                             \/ row'[t] = [row[t] EXCEPT !.expired = TRUE]
    PROVE  Worn
<1>1. \A t \in Tickets : IsRow(row'[t])
    BY DEF RowShape, IsRow, NoRow
<1>2. \A t \in Tickets : ~ row[t].burned => ~ row'[t].burned
    BY DEF RowShape, IsRow, NoRow
<1>3. \A t \in Tickets : Spent(t) => Spent(t)'
    BY DEF RowShape, IsRow, NoRow, Spent
<1> QED
    BY <1>1, <1>2, <1>3 DEF RowShape, Worn

LEMMA LookedWorn ==
    ASSUME RowShape, NEW t \in Tickets, row' = Looked(t)
    PROVE  Worn
<1>1. row' = [u \in Tickets |-> row'[u]] /\ \A u \in Tickets : row'[u] = row[u] \/ row'[u] = NoRow
    BY DEF RowShape, Looked
<1> QED
    BY <1>1, RowsWorn

LEMMA PurgedWorn ==
    ASSUME RowShape, row' = Purged
    PROVE  Worn
<1>1. row' = [u \in Tickets |-> row'[u]] /\ \A u \in Tickets : row'[u] = row[u] \/ row'[u] = NoRow
    BY DEF Purged
<1> QED
    BY <1>1, RowsWorn

LEMMA SameWorn ==
    ASSUME RowShape, row' = row
    PROVE  Worn
BY RowsWorn DEF RowShape

LEMMA ExpireWorn ==
    ASSUME RowShape, NEW t \in Tickets, Expire(t)
    PROVE  Worn
<1>1. row' = [row EXCEPT ![t] = [row[t] EXCEPT !.expired = TRUE]]
    BY DEF Expire
<1> QED
    BY <1>1, RowsWorn DEF RowShape

\* The steps that leave the requests alone.
LEMMA OthersStep ==
    ASSUME TicketInv, Worn, UNCHANGED <<granted, loop, stage, upload, answer>>
    PROVE  TicketInv'
<1>1. Shapes'
    BY DEF TicketInv, Shapes, Worn, UploadShape
<1>2. LoopHeld' /\ AnsweredLast'
    BY DEF TicketInv, LoopHeld, AnsweredLast
<1>3. SpendingAlone'
    BY DEF TicketInv, SpendingAlone, Worn
<1>4. StaleStays'
    BY DEF TicketInv, StaleStays, Worn, Spent
<1> QED
    BY <1>1, <1>2, <1>3, <1>4 DEF TicketInv

LEMMA CreateStep ==
    ASSUME TicketInv, NEW t \in Tickets, NEW files, NEW bytes, Create(t, files, bytes)
    PROVE  TicketInv'
<1> DEFINE p == Purged
<1>0. /\ granted[t].files = 0
      /\ UNCHANGED <<loop, stage, upload, answer>>
    BY DEF Create, requests
<1>1. PICK m, n : /\ m >= 1
                  /\ row' = [p EXCEPT ![t] = [there |-> TRUE, files |-> m, bytes |-> n,
                                              burned |-> FALSE, expired |-> FALSE]]
                  /\ granted' = [granted EXCEPT ![t] = [files |-> m, bytes |-> n]]
    BY DEF Create
<1>2. \A u \in Tickets : p[u] = NoRow \/ p[u] = row[u]
    BY DEF Purged
<1>3. p = [u \in Tickets |-> p[u]]
    BY DEF Purged
<1>4. RowShape'
    <2>1. \A u \in Tickets : row'[u] = [there |-> TRUE, files |-> m, bytes |-> n, burned |-> FALSE,
                                     expired |-> FALSE] \/ row'[u] = NoRow \/ row'[u] = row[u]
        BY <1>1, <1>2, <1>3
    <2>2. \A u \in Tickets : IsRow(row'[u])
        BY <2>1 DEF TicketInv, Shapes, RowShape, IsRow, NoRow
    <2> QED
        BY <1>1, <1>3, <2>2 DEF RowShape
<1>5. \A u \in Tickets : ~ row[u].burned => ~ row'[u].burned
    BY <1>1, <1>2, <1>3 DEF NoRow
<1>6. ASSUME NEW u \in Tickets, u # t, Spent(u) PROVE Spent(u)'
    BY <1>1, <1>2, <1>3, <1>6 DEF NoRow, Spent
<1>7. Shapes'
    BY <1>0, <1>1, <1>4 DEF TicketInv, Shapes, UploadShape
<1>8. LoopHeld' /\ AnsweredLast'
    BY <1>0 DEF TicketInv, LoopHeld, AnsweredLast
<1>9. SpendingAlone'
    BY <1>0, <1>5 DEF TicketInv, SpendingAlone
<1>10. StaleStays'
    <2> SUFFICES ASSUME NEW r \in Requests, upload[r].stale
                 PROVE  granted'[upload[r].ticket].files # 0 /\ (Spent(upload[r].ticket))'
        BY <1>0 DEF TicketInv, StaleStays, Spent
    <2>1. /\ upload[r].ticket \in Tickets /\ granted[upload[r].ticket].files # 0
          /\ Spent(upload[r].ticket)
        BY DEF TicketInv, StaleStays
    <2>2. upload[r].ticket # t
        BY <1>0, <2>1
    <2>3. granted'[upload[r].ticket] = granted[upload[r].ticket]
        BY <1>1, <2>1, <2>2 DEF TicketInv, Shapes
    <2>4. Spent(upload[r].ticket)'
        BY <1>0, <1>6, <2>1, <2>2 DEF Spent
    <2> QED
        BY <2>1, <2>3, <2>4
<1> QED
    BY <1>7, <1>8, <1>9, <1>10 DEF TicketInv
-----------------------------------------------------------------------------
(* The steps of a handler.                                                 *)

\* Wherever a handler goes, it had the loop or nobody had, and it has the loop
\* afterwards or nobody has.
LEMMA HandlerStep ==
    ASSUME TicketInv, NEW r \in Requests, NEW next, NEW code, NEW u,
           RowShape', \A t \in Tickets : Spent(t) => Spent(t)',
           UNCHANGED granted,
           stage' = [stage EXCEPT ![r] = next],
           answer' = [answer EXCEPT ![r] = code],
           upload' = [upload EXCEPT ![r] = u],
           IsUpload(u),
           loop \in {NoRequest, r},
           loop' = IF next \in OnLoop THEN r ELSE NoRequest,
           next = "spending" => u.ticket \in Tickets /\ ~ row'[u.ticket].burned,
           u.stale => /\ u.ticket \in Tickets /\ granted[u.ticket].files # 0
                      /\ Spent(u.ticket)' /\ next \in {"arrived", "answered"} /\ code # 201,
           next # "answered" => code = 0
    PROVE  TicketInv'
<1>0. NoRequest \notin Requests
    BY TicketAssumption
<1>1. /\ stage'[r] = next /\ answer'[r] = code /\ upload'[r] = u
      /\ \A q \in Requests \ {r} : /\ stage'[q] = stage[q] /\ answer'[q] = answer[q]
                                   /\ upload'[q] = upload[q]
    BY DEF TicketInv, Shapes, UploadShape
<1>2. \A q \in Requests \ {r} : stage[q] \notin OnLoop
    BY <1>0 DEF TicketInv, LoopHeld
<1>3. Shapes'
    <2>1. UploadShape'
        <3>1. \A q \in Requests : IsUpload(upload'[q])
            BY <1>1 DEF TicketInv, Shapes, UploadShape
        <3>2. upload' = [q \in Requests |-> upload'[q]]
            BY DEF TicketInv, Shapes, UploadShape
        <3> QED
            BY <3>1, <3>2 DEF UploadShape
    <2> QED
        BY <2>1 DEF TicketInv, Shapes
<1>4. LoopHeld'
    BY <1>0, <1>1, <1>2 DEF LoopHeld
<1>5. SpendingAlone'
    BY <1>1, <1>2 DEF SpendingAlone, OnLoop
<1>6. StaleStays'
    <2> SUFFICES ASSUME NEW q \in Requests, upload'[q].stale
                 PROVE  /\ upload'[q].ticket \in Tickets
                        /\ granted[upload'[q].ticket].files # 0
                        /\ Spent(upload[q].ticket)'
                        /\ stage'[q] \in {"arrived", "answered"}
                        /\ answer'[q] # 201
        BY DEF StaleStays
    <2>1. CASE q = r
        BY <1>1, <2>1 DEF Spent
    <2>2. CASE q # r
        <3>1. /\ upload[q].ticket \in Tickets /\ granted[upload[q].ticket].files # 0
              /\ Spent(upload[q].ticket)
              /\ stage[q] \in {"arrived", "answered"} /\ answer[q] # 201
            BY <1>1, <2>2 DEF TicketInv, StaleStays
        <3> QED
            BY <1>1, <2>2, <3>1 DEF Spent
    <2> QED
        BY <2>1, <2>2
<1>7. AnsweredLast'
    BY <1>1 DEF TicketInv, AnsweredLast
<1> QED
    BY <1>3, <1>4, <1>5, <1>6, <1>7 DEF TicketInv

\* Before a handler has the loop it is nobody's, while it has it no other handler's.
LEMMA LoopMine ==
    ASSUME TicketInv, NEW r \in Requests, LoopFree(r) \/ stage[r] \in OnLoop
    PROVE  /\ loop \in {NoRequest, r}
           /\ loop = IF stage[r] \in OnLoop THEN r ELSE NoRequest
<1>1. NoRequest \notin Requests
    BY TicketAssumption
<1> QED
    BY <1>1 DEF TicketInv, LoopHeld, LoopFree

\* A response is the end of a handler.
LEMMA AnswerStep ==
    ASSUME TicketInv, NEW r \in Requests, NEW code, NEW u,
           LoopFree(r) \/ stage[r] \in OnLoop,
           Worn, UNCHANGED granted, Answer(r, code),
           upload' = [upload EXCEPT ![r] = u], IsUpload(u),
           u.stale => /\ u.ticket \in Tickets /\ granted[u.ticket].files # 0
                      /\ Spent(u.ticket)' /\ code # 201
    PROVE  TicketInv'
<1>1. loop \in {NoRequest, r} /\ loop' = NoRequest
    BY LoopMine, TicketAssumption DEF Answer
<1>2. stage' = [stage EXCEPT ![r] = "answered"] /\ answer' = [answer EXCEPT ![r] = code]
    BY DEF Answer
<1>3. RowShape' /\ \A t \in Tickets : Spent(t) => Spent(t)'
    BY DEF Worn
<1>4. "answered" \notin OnLoop
    BY DEF OnLoop
<1> DEFINE next == "answered"
<1>5. /\ stage' = [stage EXCEPT ![r] = next] /\ loop' = IF next \in OnLoop THEN r ELSE NoRequest
      /\ next \in {"arrived", "answered"} /\ next # "spending" /\ next = "answered"
    BY <1>1, <1>2, <1>4
<1> HIDE DEF next
<1> QED
    BY <1>1, <1>2, <1>3, <1>5, HandlerStep

\* A step on the way to the response.
LEMMA OnwardStep ==
    ASSUME TicketInv, NEW r \in Requests, NEW next, NEW u,
           LoopFree(r) \/ stage[r] \in OnLoop,
           stage[r] # "answered", next # "answered",
           RowShape', \A t \in Tickets : Spent(t) => Spent(t)',
           UNCHANGED <<granted, answer>>,
           stage' = [stage EXCEPT ![r] = next],
           loop' = IF next \in OnLoop THEN r ELSE NoRequest,
           upload' = [upload EXCEPT ![r] = u], IsUpload(u),
           next = "spending" => u.ticket \in Tickets /\ ~ row'[u.ticket].burned,
           u.stale => /\ u.ticket \in Tickets /\ granted[u.ticket].files # 0
                      /\ Spent(u.ticket)' /\ next = "arrived"
    PROVE  TicketInv'
<1>1. loop \in {NoRequest, r}
    BY LoopMine
<1>2. answer[r] = 0
    BY DEF TicketInv, AnsweredLast
<1> DEFINE code == answer[r]
<1>3. answer' = [answer EXCEPT ![r] = code]
    BY DEF TicketInv, Shapes
<1>4. code = 0 /\ code # 201
    BY <1>2
<1> HIDE DEF code
<1> QED
    BY <1>1, <1>3, <1>4, HandlerStep

\* The request itself stays as it is.
LEMMA SameUpload ==
    ASSUME TicketInv, NEW r \in Requests
    PROVE  /\ upload = [upload EXCEPT ![r] = upload[r]]
           /\ IsUpload(upload[r])
BY DEF TicketInv, Shapes, UploadShape

LEMMA StaleOf ==
    ASSUME TicketInv, NEW r \in Requests, upload[r].stale
    PROVE  /\ upload[r].ticket \in Tickets /\ granted[upload[r].ticket].files # 0
           /\ Spent(upload[r].ticket)
           /\ stage[r] \in {"arrived", "answered"} /\ answer[r] # 201
BY DEF TicketInv, StaleStays

LEMMA ArriveStep ==
    ASSUME TicketInv, NEW r \in Requests, NEW t \in Tickets \cup {NoTicket}, Arrive(r, t)
    PROVE  TicketInv'
<1>a. PICK gone : gone = (t \in Tickets /\ Spent(t))
    OBVIOUS
<1>b. PICK u : u = [ticket |-> t, stale |-> gone, body |-> NoBody]
    OBVIOUS
<1>0. /\ stage[r] = "new" /\ LoopFree(r) /\ UNCHANGED <<granted, total>>
      /\ t \in Tickets => granted[t].files > 0
    BY DEF Arrive
<1>1. upload' = [upload EXCEPT ![r] = u]
    BY <1>a, <1>b DEF Arrive
<1>2. IsUpload(u) /\ u.ticket = t /\ u.stale = gone
    BY <1>b DEF IsUpload
<1>3. Worn
    <2>1. CASE t = NoTicket
        BY <2>1, SameWorn DEF Arrive, TicketInv, Shapes
    <2>2. CASE t \in Tickets
        BY <2>2, LookedWorn, TicketAssumption DEF Arrive, TicketInv, Shapes
    <2> QED
        BY <2>1, <2>2
<1>4. u.stale => /\ u.ticket \in Tickets /\ granted[u.ticket].files # 0
                 /\ Spent(u.ticket)'
    <2> SUFFICES ASSUME u.stale
                 PROVE  u.ticket \in Tickets /\ granted[u.ticket].files # 0 /\ Spent(u.ticket)'
        OBVIOUS
    <2>1. t \in Tickets /\ Spent(t)
        BY <1>a, <1>2
    <2>2. granted[t].files # 0
        BY <1>0, <2>1
    <2>3. Spent(t)'
        BY <1>3, <2>1 DEF Worn
    <2> QED
        BY <1>2, <2>1, <2>2, <2>3
<1>5. CASE Step(r, "arrived")
    <2>1. loop' = NoRequest
        BY <1>0, <1>5, LoopMine DEF Step, OnLoop
    <2> DEFINE next == "arrived"
    <2>2. /\ stage' = [stage EXCEPT ![r] = next] /\ UNCHANGED answer
          /\ loop' = IF next \in OnLoop THEN r ELSE NoRequest
          /\ next # "spending" /\ next # "answered" /\ next = "arrived"
        BY <1>5, <2>1 DEF Step, OnLoop
    <2> HIDE DEF next
    <2>3. stage[r] # "answered" /\ RowShape' /\ \A v \in Tickets : Spent(v) => Spent(v)'
        BY <1>0, <1>3 DEF Worn
    <2> QED
        BY <1>0, <1>1, <1>2, <1>4, <2>2, <2>3, OnwardStep
<1>6. CASE Answer(r, 401)
    <2>2. PICK code : code = 401
        OBVIOUS
    <2>3. Answer(r, code) /\ code # 201
        BY <1>6, <2>2
    <2> QED
        BY <1>0, <1>1, <1>2, <1>3, <1>4, <2>3, AnswerStep
<1> QED
    BY <1>5, <1>6 DEF Arrive

LEMMA CheckStep ==
    ASSUME TicketInv, NEW r \in Requests, Check(r)
    PROVE  TicketInv'
<1> DEFINE t == upload[r].ticket
<1>0. stage[r] = "arrived" /\ LoopFree(r) /\ UNCHANGED <<granted, upload>>
    BY DEF Check
<1>1. PICK u : u = upload[r]
    OBVIOUS
<1>2. upload' = [upload EXCEPT ![r] = u] /\ IsUpload(u)
    BY <1>0, <1>1, SameUpload DEF TicketInv, AnsweredLast
<1>3. CASE ~ Admitted(t) /\ Answer(r, 403) /\ row' = Looked(t)
    <2>1. Worn
        <3>1. CASE t \in Tickets
            BY <1>3, <3>1, LookedWorn DEF TicketInv, Shapes
        <3>2. CASE t \notin Tickets
            <4>1. row' = [v \in Tickets |-> row'[v]] /\ \A v \in Tickets : row'[v] = row[v]
                BY <1>3, <3>2 DEF TicketInv, Shapes, RowShape, Looked
            <4> QED
                BY <4>1, RowsWorn DEF TicketInv, Shapes
        <3> QED
            BY <3>1, <3>2
    <2>2. PICK code : code = 403
        OBVIOUS
    <2>3. Answer(r, code) /\ code # 201
        BY <1>3, <2>2
    <2>4. u.stale => /\ u.ticket \in Tickets /\ granted[u.ticket].files # 0 /\ Spent(u.ticket)'
        BY <1>1, <2>1, StaleOf DEF Worn
    <2> QED
        BY <1>0, <1>2, <2>1, <2>3, <2>4, AnswerStep
<1>4. CASE Admitted(t) /\ Step(r, "receiving") /\ UNCHANGED row
    <2>1. ~ u.stale
        BY <1>1, <1>4, StaleOf, TicketAssumption DEF Admitted, Valid, Spent
    <2>2. Worn
        BY <1>4, SameWorn DEF TicketInv, Shapes
    <2>3. PICK next : next = "receiving"
        OBVIOUS
    <2>4. loop' = NoRequest
        BY <1>0, <1>4, LoopMine DEF Step, OnLoop
    <2>5. /\ stage' = [stage EXCEPT ![r] = next] /\ UNCHANGED answer
          /\ loop' = IF next \in OnLoop THEN r ELSE NoRequest
          /\ next # "spending" /\ next # "answered"
        BY <1>4, <2>3, <2>4 DEF Step, OnLoop
    <2>6. stage[r] # "answered" /\ RowShape' /\ \A v \in Tickets : Spent(v) => Spent(v)'
        BY <1>0, <2>2 DEF Worn
    <2> QED
        BY <1>0, <1>2, <2>1, <2>5, <2>6, OnwardStep
<1> QED
    BY <1>3, <1>4 DEF Check

LEMMA ReceiveStep ==
    ASSUME TicketInv, NEW r \in Requests, NEW body, Receive(r, body)
    PROVE  TicketInv'
<1>0. stage[r] = "receiving" /\ LoopFree(r) /\ UNCHANGED <<granted, row>>
    BY DEF Receive
<1>1. PICK u : u = [upload[r] EXCEPT !.body = body]
    OBVIOUS
<1>2. upload' = [upload EXCEPT ![r] = u]
    BY <1>0, <1>1, SameUpload DEF Receive, TicketInv, AnsweredLast
<1>3. IsUpload(u) /\ u.stale = upload[r].stale
    BY <1>1 DEF TicketInv, Shapes, UploadShape, IsUpload
<1>4. ~ u.stale
    BY <1>0, <1>3, StaleOf
<1>5. Worn
    BY <1>0, SameWorn DEF TicketInv, Shapes
<1>6. ASSUME NEW code, Answer(r, code) PROVE TicketInv'
    BY <1>0, <1>2, <1>3, <1>4, <1>5, <1>6, AnswerStep
<1>7. CASE stage' = [stage EXCEPT ![r] = "received"] /\ loop' = r /\ UNCHANGED answer
    <2>1. PICK next : next = "received"
        OBVIOUS
    <2>2. /\ stage' = [stage EXCEPT ![r] = next] /\ UNCHANGED answer
          /\ loop' = IF next \in OnLoop THEN r ELSE NoRequest
          /\ next # "spending" /\ next # "answered"
        BY <1>7, <2>1 DEF OnLoop
    <2>3. stage[r] # "answered" /\ RowShape' /\ \A v \in Tickets : Spent(v) => Spent(v)'
        BY <1>0, <1>5 DEF Worn
    <2> QED
        BY <1>0, <1>2, <1>3, <1>4, <2>2, <2>3, OnwardStep
<1> QED
    BY <1>6, <1>7 DEF Receive

LEMMA DisconnectStep ==
    ASSUME TicketInv, NEW r \in Requests, Disconnect(r)
    PROVE  TicketInv'
<1>0. stage[r] = "receiving" /\ LoopFree(r) /\ UNCHANGED <<granted, upload, row>>
    BY DEF Disconnect
<1>1. PICK u : u = upload[r]
    OBVIOUS
<1>2. upload' = [upload EXCEPT ![r] = u] /\ IsUpload(u) /\ ~ u.stale
    BY <1>0, <1>1, SameUpload, StaleOf DEF TicketInv, AnsweredLast
<1>3. Worn
    BY <1>0, SameWorn DEF TicketInv, Shapes
<1>4. ASSUME NEW code, Answer(r, code) PROVE TicketInv'
    BY <1>0, <1>2, <1>3, <1>4, AnswerStep
<1> QED
    BY <1>4 DEF Disconnect

LEMMA SpendReadsStep ==
    ASSUME TicketInv, NEW r \in Requests, SpendReads(r)
    PROVE  TicketInv'
<1> DEFINE t == upload[r].ticket
<1>0. stage[r] = "received" /\ stage[r] \in OnLoop /\ UNCHANGED <<granted, upload>>
    BY DEF SpendReads, OnLoop
<1>1. PICK u : u = upload[r]
    OBVIOUS
<1>2. upload' = [upload EXCEPT ![r] = u] /\ IsUpload(u) /\ ~ u.stale
    BY <1>0, <1>1, SameUpload, StaleOf DEF TicketInv, AnsweredLast
<1>3. /\ \/ UNCHANGED row
         \/ row' = Looked(t) /\ t # NoTicket
      /\ \/ Answer(r, 413) \/ Answer(r, 403)
         \/ Step(r, "saving")
         \/ Step(r, "spending") /\ Valid(t) /\ row' = Looked(t) /\ t # NoTicket
    BY DEF SpendReads
<1>4. Worn
    <2>1. CASE UNCHANGED row
        BY <2>1, SameWorn DEF TicketInv, Shapes
    <2>2. CASE row' = Looked(t) /\ t # NoTicket
        <3>1. t \in Tickets
            BY <1>1, <1>2, <2>2 DEF IsUpload
        <3> QED
            BY <2>2, <3>1, LookedWorn DEF TicketInv, Shapes
    <2> QED
        BY <1>3, <2>1, <2>2
<1>5. RowShape' /\ \A v \in Tickets : Spent(v) => Spent(v)'
    BY <1>4 DEF Worn
<1>6. ASSUME NEW code, Answer(r, code) PROVE TicketInv'
    BY <1>0, <1>2, <1>4, <1>6, AnswerStep
<1>7. ASSUME NEW next, Step(r, next), next \in OnLoop,
             next = "spending" => u.ticket \in Tickets /\ ~ row'[u.ticket].burned
      PROVE  TicketInv'
    <2>1. loop = r
        BY <1>0, LoopMine
    <2>2. /\ stage' = [stage EXCEPT ![r] = next] /\ UNCHANGED answer
          /\ loop' = IF next \in OnLoop THEN r ELSE NoRequest
          /\ next # "answered" /\ stage[r] # "answered"
        BY <1>0, <1>7, <2>1 DEF Step, OnLoop
    <2> QED
        BY <1>0, <1>2, <1>5, <1>7, <2>2, OnwardStep
<1>8. CASE Step(r, "saving")
    <2>1. PICK next : next = "saving"
        OBVIOUS
    <2>2. Step(r, next) /\ next \in OnLoop /\ next # "spending"
        BY <1>8, <2>1 DEF OnLoop
    <2> QED
        BY <1>7, <2>2
<1>9. CASE Step(r, "spending") /\ Valid(t) /\ row' = Looked(t) /\ t # NoTicket
    <2>1. PICK next : next = "spending"
        OBVIOUS
    <2>2. row' = row /\ ~ row[t].burned
        BY <1>9 DEF Valid, Looked
    <2>3. t \in Tickets
        BY <1>1, <1>2, <1>9 DEF IsUpload
    <2>4. Step(r, next) /\ next \in OnLoop /\ u.ticket \in Tickets /\ ~ row'[u.ticket].burned
        BY <1>1, <1>9, <2>1, <2>2, <2>3 DEF OnLoop
    <2> QED
        BY <1>7, <2>4
<1> QED
    BY <1>3, <1>6, <1>8, <1>9

LEMMA SpendWritesStep ==
    ASSUME TicketInv, NEW r \in Requests, SpendWrites(r)
    PROVE  TicketInv'
<1> DEFINE t == upload[r].ticket
<1>0. stage[r] = "spending" /\ stage[r] \in OnLoop /\ UNCHANGED <<granted, upload>>
    BY DEF SpendWrites, OnLoop
<1>1. PICK u : u = upload[r]
    OBVIOUS
<1>2. /\ upload' = [upload EXCEPT ![r] = u] /\ IsUpload(u) /\ ~ u.stale
    BY <1>0, <1>1, SameUpload, StaleOf
<1>3. t \in Tickets /\ ~ row[t].burned
    BY <1>0 DEF TicketInv, SpendingAlone
<1>4. RowShape' /\ \A v \in Tickets : Spent(v) => Spent(v)'
    <2>1. CASE row[t].there
        <3>1. PICK files, bytes, burned :
                row' = [row EXCEPT ![t] = [there |-> TRUE, files |-> files, bytes |-> bytes,
                                           burned |-> burned, expired |-> row[t].expired]]
            BY <2>1 DEF SpendWrites
        <3>2. \A v \in Tickets : IsRow(row'[v])
            BY <1>3, <3>1 DEF TicketInv, Shapes, RowShape, IsRow
        <3>3. RowShape'
            BY <3>1, <3>2 DEF TicketInv, Shapes, RowShape
        <3>4. ASSUME NEW v \in Tickets, Spent(v) PROVE Spent(v)'
            <4>1. CASE v = t
                <5>1. row[t].expired
                    BY <1>3, <2>1, <3>4, <4>1 DEF Spent
                <5>2. row'[v].expired
                    BY <1>3, <3>1, <4>1, <5>1 DEF TicketInv, Shapes, RowShape
                <5> QED
                    BY <5>2 DEF Spent
            <4>2. CASE v # t
                <5>1. row'[v] = row[v]
                    BY <3>1, <4>2 DEF TicketInv, Shapes, RowShape
                <5> QED
                    BY <3>4, <5>1 DEF Spent
            <4> QED
                BY <4>1, <4>2
        <3> QED
            BY <3>3, <3>4
    <2>2. CASE ~ row[t].there
        <3>1. row' = row
            BY <2>2 DEF SpendWrites
        <3> QED
            BY <3>1, SameWorn DEF TicketInv, Shapes, Worn
    <2> QED
        BY <2>1, <2>2
<1>5. PICK next : next = "saving"
    OBVIOUS
<1>6. loop = r
    BY <1>0, LoopMine
<1>7. /\ stage' = [stage EXCEPT ![r] = next] /\ UNCHANGED answer
      /\ loop' = IF next \in OnLoop THEN r ELSE NoRequest
      /\ next # "spending" /\ next # "answered" /\ stage[r] # "answered"
    BY <1>0, <1>5, <1>6 DEF SpendWrites, Step, OnLoop
<1> QED
    BY <1>0, <1>2, <1>4, <1>7, OnwardStep

LEMMA SaveStep ==
    ASSUME TicketInv, NEW r \in Requests, Save(r) \/ Respond(r) \/ Delete(r)
    PROVE  TicketInv'
<1>0. stage[r] \in {"saving", "deleting"} /\ UNCHANGED <<granted, upload, row>>
    BY DEF Save, Respond, Delete
<1>1. PICK u : u = upload[r]
    OBVIOUS
<1>2. /\ upload' = [upload EXCEPT ![r] = u] /\ IsUpload(u) /\ ~ u.stale
    BY <1>0, <1>1, SameUpload, StaleOf
<1>3. Worn
    BY <1>0, SameWorn DEF TicketInv, Shapes
<1>4. stage[r] \in OnLoop /\ loop = r
    BY <1>0, LoopMine DEF OnLoop
<1>5. ASSUME NEW code, Answer(r, code) PROVE TicketInv'
    BY <1>0, <1>2, <1>3, <1>4, <1>5, AnswerStep
<1>6. CASE UNCHANGED <<loop, stage, answer>>
    BY <1>0, <1>3, <1>6, OthersStep
<1>7. CASE Step(r, "deleting")
    <2>1. PICK next : next = "deleting"
        OBVIOUS
    <2>2. /\ stage' = [stage EXCEPT ![r] = next] /\ UNCHANGED answer
          /\ loop' = IF next \in OnLoop THEN r ELSE NoRequest
          /\ next # "spending" /\ next # "answered" /\ stage[r] # "answered"
        BY <1>0, <1>4, <1>7, <2>1 DEF Step, OnLoop
    <2>3. RowShape' /\ \A v \in Tickets : Spent(v) => Spent(v)'
        BY <1>3 DEF Worn
    <2> QED
        BY <1>0, <1>2, <1>4, <2>2, <2>3, OnwardStep
<1> QED
    BY <1>5, <1>6, <1>7 DEF Save, Respond, Delete
-----------------------------------------------------------------------------
LEMMA InitInv == Init => TicketInv
<1> SUFFICES ASSUME Init PROVE TicketInv
    OBVIOUS
<1>1. RowShape
    BY DEF Init, RowShape, IsRow, NoRow
<1>2. UploadShape
    <2>1. PICK u : u = [ticket |-> NoTicket, stale |-> FALSE, body |-> NoBody]
        OBVIOUS
    <2>2. upload = [r \in Requests |-> u]
        BY <2>1 DEF Init
    <2>3. IsUpload(u)
        BY <2>1 DEF IsUpload
    <2> QED
        BY <2>2, <2>3 DEF UploadShape
<1>3. Shapes
    BY <1>1, <1>2 DEF Init, Shapes
<1>4. LoopHeld
    BY TicketAssumption DEF Init, LoopHeld, OnLoop
<1>5. SpendingAlone /\ StaleStays /\ AnsweredLast
    BY DEF Init, SpendingAlone, StaleStays, AnsweredLast, Refused
<1> QED
    BY <1>3, <1>4, <1>5 DEF TicketInv

LEMMA NextStep == TicketInv /\ [Next]_vars => TicketInv'
<1> SUFFICES ASSUME TicketInv, [Next]_vars PROVE TicketInv'
    OBVIOUS
<1>0. RowShape
    BY DEF TicketInv, Shapes
<1>1. ASSUME NEW t \in Tickets, NEW files, NEW bytes, Create(t, files, bytes) PROVE TicketInv'
    BY <1>1, CreateStep
<1>2. ASSUME NEW t \in Tickets, Expire(t) PROVE TicketInv'
    BY <1>0, <1>2, ExpireWorn, OthersStep DEF Expire, requests
<1>3. CASE SweepTickets
    BY <1>0, <1>3, PurgedWorn, OthersStep DEF SweepTickets, requests
<1>4. CASE ProbeRelay
    BY <1>0, <1>4, SameWorn, OthersStep DEF ProbeRelay, requests
<1>5. ASSUME NEW r \in Requests, Handle(r) PROVE TicketInv'
    BY <1>5, ArriveStep, CheckStep, DisconnectStep, ReceiveStep, SpendReadsStep, SpendWritesStep,
       SaveStep DEF Handle
<1>6. CASE UNCHANGED vars
    BY <1>0, <1>6, SameWorn, OthersStep DEF vars
<1> QED
    BY <1>1, <1>2, <1>3, <1>4, <1>5, <1>6 DEF Next

LEMMA InvHolds == Spec => []TicketInv
BY InitInv, NextStep, PTL DEF Spec

\* A request with a ticket that was used up, expired or gone when it came in stores
\* nothing, however many others use tickets at the same time.
THEOREM StaleTicketCarriesNothingHolds == Spec => []StaleTicketCarriesNothing
<1>1. TicketInv => StaleTicketCarriesNothing
    BY DEF TicketInv, StaleStays, StaleTicketCarriesNothing
<1> QED
    BY <1>1, InvHolds, PTL

-----------------------------------------------------------------------------
(* Sums over finite sets.                                                  *)

\* The units of a sum are finitely many.
LEMMA UnitsFinite ==
    ASSUME NEW S, IsFiniteSet(S), NEW amount, \A x \in S : amount[x] \in Nat
    PROVE  IsFiniteSet(UNION {{x} \X (1 .. amount[x]) : x \in S})
<1> DEFINE parts == {{x} \X (1 .. amount[x]) : x \in S}
           part == [x \in S |-> {x} \X (1 .. amount[x])]
<1>1. part \in Surjection(S, parts)
    BY DEF Surjection
<1>2. IsFiniteSet(parts)
    BY <1>1, FS_Surjection
<1>3. ASSUME NEW x \in S PROVE IsFiniteSet({x} \X (1 .. amount[x]))
    <2>1. IsFiniteSet({x})
        BY FS_Singleton
    <2>2. amount[x] \in Int
        OBVIOUS
    <2>3. IsFiniteSet(1 .. amount[x])
        BY <2>2, FS_Interval
    <2> QED
        BY <2>1, <2>3, FS_Product
<1> QED
    BY <1>2, <1>3, FS_UNION

LEMMA TotalType ==
    ASSUME NEW S, IsFiniteSet(S), NEW amount, \A x \in S : amount[x] \in Nat
    PROVE  Total(S, amount) \in Nat
BY UnitsFinite, FS_CardinalityType DEF Total

LEMMA TotalEmpty == ASSUME NEW amount PROVE Total({}, amount) = 0
<1>1. UNION {{x} \X (1 .. amount[x]) : x \in {}} = {}
    OBVIOUS
<1> QED
    BY <1>1, FS_EmptySet DEF Total

\* A sum depends on the amounts of its members only.
LEMMA TotalSame ==
    ASSUME NEW S, NEW f, NEW g, \A x \in S : f[x] = g[x]
    PROVE  Total(S, f) = Total(S, g)
<1>1. {{x} \X (1 .. f[x]) : x \in S} = {{x} \X (1 .. g[x]) : x \in S}
    OBVIOUS
<1> QED
    BY <1>1 DEF Total

\* A sum over fewer members is no larger.
LEMMA TotalSubset ==
    ASSUME NEW S, IsFiniteSet(S), NEW T, T \subseteq S,
           NEW amount, \A x \in S : amount[x] \in Nat
    PROVE  Total(T, amount) <= Total(S, amount)
<1>1. UNION {{x} \X (1 .. amount[x]) : x \in T} \subseteq UNION {{x} \X (1 .. amount[x]) : x \in S}
    OBVIOUS
<1> QED
    BY <1>1, UnitsFinite, FS_Subset DEF Total

LEMMA UnitsCounted == \A n \in Nat : IsFiniteSet(1 .. n) /\ Cardinality(1 .. n) = n
<1> SUFFICES ASSUME NEW n \in Nat PROVE IsFiniteSet(1 .. n) /\ Cardinality(1 .. n) = n
    OBVIOUS
<1>1. 1 \in Int /\ n \in Int
    OBVIOUS
<1>2. IsFiniteSet(1 .. n) /\ Cardinality(1 .. n) = IF 1 > n THEN 0 ELSE n - 1 + 1
    BY <1>1, FS_Interval
<1> QED
    BY <1>2

\* One more member adds its amount.
LEMMA TotalAdd ==
    ASSUME NEW S, IsFiniteSet(S), NEW y, y \notin S,
           NEW amount, \A x \in S \cup {y} : amount[x] \in Nat
    PROVE  Total(S \cup {y}, amount) = Total(S, amount) + amount[y]
<1> DEFINE units == UNION {{x} \X (1 .. amount[x]) : x \in S}
           more == {y} \X (1 .. amount[y])
<1>1. IsFiniteSet(units)
    BY UnitsFinite
<1>2. IsFiniteSet(more) /\ Cardinality(more) = amount[y]
    <2>1. IsFiniteSet({y}) /\ Cardinality({y}) = 1
        BY FS_Singleton
    <2>2. amount[y] \in Nat
        OBVIOUS
    <2>3. IsFiniteSet(1 .. amount[y]) /\ Cardinality(1 .. amount[y]) = amount[y]
        BY <2>2, UnitsCounted
    <2>4. IsFiniteSet(more) /\ Cardinality(more) = 1 * Cardinality(1 .. amount[y])
        BY <2>1, <2>3, FS_Product
    <2> QED
        BY <2>2, <2>3, <2>4
<1>3. units \cap more = {}
    OBVIOUS
<1>4. UNION {{x} \X (1 .. amount[x]) : x \in S \cup {y}} = units \cup more
    OBVIOUS
<1>5. Cardinality(units \cup more) = Cardinality(units) + Cardinality(more) - Cardinality(units \cap more)
    BY <1>1, <1>2, FS_Union
<1>6. Cardinality(units) \in Nat
    BY <1>1, FS_CardinalityType
<1> QED
    BY <1>2, <1>3, <1>4, <1>5, <1>6, FS_EmptySet DEF Total
-----------------------------------------------------------------------------
(* Types.                                                                  *)

\* Whatever comes in a body, its files are of sizes in FileSizes.
LEMMA BodyType ==
    ASSUME NEW body \in Bodies \cup {NoBody}
    PROVE  /\ body.sizes \in Seq(FileSizes)
           /\ body.kind \in {"raw", "multipart", "zip"}
<1>1. CASE body = NoBody
    BY <1>1 DEF NoBody
<1>2. ASSUME NEW size \in FileSizes, body = [kind |-> "raw", sizes |-> <<size>>]
      PROVE  body.sizes \in Seq(FileSizes) /\ body.kind = "raw"
    BY <1>2
<1>3. ASSUME NEW kind \in {"multipart", "zip"}, NEW sizes \in BoundedSeq(FileSizes, MaxParts),
             body = [kind |-> kind, sizes |-> sizes]
      PROVE  body.sizes \in Seq(FileSizes) /\ body.kind = kind
    <2>1. PICK m \in 0 .. MaxParts : sizes \in [1 .. m -> FileSizes]
        BY DEF BoundedSeq, SeqOf
    <2>2. sizes \in Seq(FileSizes)
        BY <2>1, SeqDef, TicketAssumption
    <2> QED
        BY <1>3, <2>2
<1> QED
    BY <1>1, <1>2, <1>3 DEF Bodies

\* The number and the total size of the files of a body are numbers.
LEMMA BodySums ==
    ASSUME NEW body \in Bodies \cup {NoBody}
    PROVE  /\ Len(body.sizes) \in Nat /\ DOMAIN body.sizes = 1 .. Len(body.sizes)
           /\ Sum(body.sizes) \in Nat
<1>1. body.sizes \in Seq(FileSizes)
    BY BodyType
<1>2. /\ Len(body.sizes) \in Nat /\ DOMAIN body.sizes = 1 .. Len(body.sizes)
      /\ \A i \in DOMAIN body.sizes : body.sizes[i] \in FileSizes
    BY <1>1, LenProperties, ElementOfSeq
<1>3. IsFiniteSet(DOMAIN body.sizes)
    BY <1>2, FS_Interval
<1>5. \A i \in DOMAIN body.sizes : body.sizes[i] \in Nat
    BY <1>2, TicketAssumption
<1>4. Sum(body.sizes) \in Nat
    BY <1>3, <1>5, TotalType DEF Sum
<1> QED
    BY <1>2, <1>4

LEMMA LeastType ==
    ASSUME NEW m \in Nat, NEW n \in Nat
    PROVE  Least(m, n) \in Nat /\ Least(m, n) <= m /\ Least(m, n) <= n
BY DEF Least

LEMMA RowsType ==
    ASSUME TypeOK
    PROVE  NoRow \in Row /\ Purged \in [Tickets -> Row] /\ \A t : Looked(t) \in [Tickets -> Row]
<1>1. NoRow \in Row
    BY DEF NoRow, Row
<1>2. row \in [Tickets -> Row]
    BY DEF TypeOK
<1>3. Purged \in [Tickets -> Row]
    BY <1>1, <1>2 DEF Purged
<1>4. ASSUME NEW t PROVE Looked(t) \in [Tickets -> Row]
    BY <1>1, <1>2 DEF Looked
<1> QED
    BY <1>1, <1>3, <1>4

\* The types of what a handler changes of itself; whose the event loop is follows
\* from TicketInv.
HandlersTyped ==
    /\ loop \in Requests \cup {NoRequest}
    /\ stage \in [Requests -> {"new", "arrived", "receiving", "received", "spending", "saving",
                               "deleting", "answered"}]
    /\ local \in [Requests -> [limit : Nat, budget : Nat, files : Nat, bytes : Nat]]
    /\ answer \in [Requests -> Refused \cup {0, 201, 500}]
UploadsTyped == upload \in [Requests -> Upload]
SpoolTyped ==
    /\ batch \in [Requests -> [saved : Nat, undone : Nat]]
    /\ stored \in [Requests -> SUBSET Nat] /\ stuck \in [Requests -> SUBSET Nat]

LEMMA TypeParts == TypeOK => HandlersTyped /\ UploadsTyped /\ SpoolTyped
BY DEF TypeOK, HandlersTyped, UploadsTyped, SpoolTyped

LEMMA TypeNext ==
    ASSUME LoopHeld', HandlersTyped', UploadsTyped', SpoolTyped', row' \in [Tickets -> Row],
           granted' \in [Tickets -> [files : Nat, bytes : Nat]], total' \in Budgets
    PROVE  TypeOK'
BY DEF TypeOK, HandlersTyped, UploadsTyped, SpoolTyped, LoopHeld, OnLoop

LEMMA AnswerType ==
    ASSUME TypeOK, NEW r \in Requests, NEW code \in Refused \cup {201, 500}, Answer(r, code)
    PROVE  HandlersTyped'
BY DEF TypeOK, HandlersTyped, Answer, Nothing

LEMMA OnwardType ==
    ASSUME TypeOK, NEW r \in Requests,
           NEW next \in {"arrived", "receiving", "received", "spending", "saving", "deleting"},
           stage' = [stage EXCEPT ![r] = next], UNCHANGED answer,
           loop' \in {loop, r},
           local' \in [Requests -> [limit : Nat, budget : Nat, files : Nat, bytes : Nat]]
    PROVE  HandlersTyped'
<1>1. {"arrived", "receiving", "received", "spending", "saving", "deleting"} \subseteq
        {"new", "arrived", "receiving", "received", "spending", "saving", "deleting", "answered"}
    OBVIOUS
<1>2. loop' \in Requests \cup {NoRequest}
    BY DEF TypeOK
<1>3. stage' \in [Requests -> {"new", "arrived", "receiving", "received", "spending", "saving",
                                 "deleting", "answered"}]
    BY <1>1 DEF TypeOK
<1> QED
    BY <1>2, <1>3 DEF TypeOK, HandlersTyped

LEMMA RequestTypes ==
    ASSUME TypeOK, NEW r \in Requests
    PROVE  /\ upload[r] \in Upload /\ upload[r].body \in Bodies \cup {NoBody}
           /\ upload[r].ticket \in Tickets \cup {NoTicket}
           /\ local[r] \in [limit : Nat, budget : Nat, files : Nat, bytes : Nat]
           /\ Len(upload[r].body.sizes) \in Nat /\ Sum(upload[r].body.sizes) \in Nat
           /\ DOMAIN upload[r].body.sizes = 1 .. Len(upload[r].body.sizes)
           /\ total \in Nat /\ max_file_bytes \in Nat
<1>1. upload[r] \in Upload /\ upload[r].body \in Bodies \cup {NoBody}
    BY DEF TypeOK, Upload
<1>2. total \in Nat /\ max_file_bytes \in Nat
    BY LeastType, TicketAssumption DEF TypeOK, max_file_bytes
<1> QED
    BY <1>1, <1>2, BodySums DEF TypeOK, Upload

LEMMA HandleType ==
    ASSUME TypeOK, TicketInv, NEW r \in Requests, Handle(r)
    PROVE  /\ HandlersTyped' /\ UploadsTyped' /\ SpoolTyped' /\ row' \in [Tickets -> Row]
           /\ UNCHANGED <<granted, total>>
<1> USE RequestTypes, RowsType
<1> DEFINE Goal == /\ HandlersTyped' /\ UploadsTyped' /\ SpoolTyped' /\ row' \in [Tickets -> Row]
                   /\ UNCHANGED <<granted, total>>
<1>0. /\ HandlersTyped /\ UploadsTyped /\ SpoolTyped /\ row \in [Tickets -> Row]
      /\ local \in [Requests -> [limit : Nat, budget : Nat, files : Nat, bytes : Nat]]
    BY TypeParts DEF TypeOK
<1>c. {400, 401, 403, 413} \subseteq Refused \cup {201, 500} /\ {201, 500} \subseteq Refused \cup {201, 500}
    BY DEF Refused
\* A step that does not touch the request, or its files.
<1>u. upload' = upload => UploadsTyped'
    BY <1>0 DEF UploadsTyped
<1>s. UNCHANGED spool => SpoolTyped'
    BY <1>0 DEF SpoolTyped, spool
<1>1. ASSUME NEW t \in Tickets \cup {NoTicket}, Arrive(r, t) PROVE Goal
    <2>1. HandlersTyped'
        <3>1. CASE Step(r, "arrived") /\ UNCHANGED local
            BY <1>0, <3>1, OnwardType DEF Step
        <3>2. CASE Answer(r, 401)
            BY <1>c, <3>2, AnswerType
        <3> QED
            BY <1>1, <3>1, <3>2 DEF Arrive
    <2>2. PICK u : u = [ticket |-> t, stale |-> (t \in Tickets /\ Spent(t)), body |-> NoBody]
        OBVIOUS
    <2>3. u \in Upload
        <3>1. (t \in Tickets /\ Spent(t)) \in BOOLEAN
            BY DEF Spent, TypeOK, Row
        <3> QED
            BY <2>2, <3>1 DEF Upload
    <2>4. upload' = [upload EXCEPT ![r] = u]
        BY <1>1, <2>2 DEF Arrive
    <2>5. UploadsTyped'
        BY <1>0, <2>3, <2>4 DEF UploadsTyped
    <2>6. row' \in [Tickets -> Row] /\ SpoolTyped' /\ UNCHANGED <<granted, total>>
        BY <1>0, <1>1, <1>s DEF Arrive
    <2> QED
        BY <2>1, <2>5, <2>6
<1>2. ASSUME Check(r) PROVE Goal
    <2> DEFINE t == upload[r].ticket
    <2>1. CASE Answer(r, 403) /\ row' = Looked(t)
        BY <1>2, <1>c, <1>s, <1>u, <2>1, AnswerType DEF Check
    <2>2. CASE Step(r, "receiving") /\ UNCHANGED row /\ Admitted(t)
        <3>1. (IF t = NoTicket THEN total ELSE Least(total, row[t].bytes)) \in Nat
            BY <1>0, LeastType DEF Row
        <3>2. local' \in [Requests -> [limit : Nat, budget : Nat, files : Nat, bytes : Nat]]
            <4>1. PICK b \in Nat : b = IF t = NoTicket THEN total ELSE Least(total, row[t].bytes)
                BY <3>1
            <4>2. local' = [local EXCEPT ![r].limit = max_file_bytes, ![r].budget = b]
                BY <1>2, <2>2, <4>1 DEF Check
            <4> QED
                BY <1>0, <4>2
        <3>3. HandlersTyped'
            BY <2>2, <3>2, OnwardType DEF Step
        <3> QED
            BY <1>0, <1>2, <1>s, <1>u, <2>2, <3>3 DEF Check
    <2> QED
        BY <1>2, <2>1, <2>2 DEF Check
<1>3. ASSUME NEW body \in Bodies, Receive(r, body) PROVE Goal
    <2>1. HandlersTyped'
        <3>1. CASE stage' = [stage EXCEPT ![r] = "received"] /\ loop' = r /\ UNCHANGED <<local, answer>>
            BY <1>0, <3>1, OnwardType
        <3>2. CASE Answer(r, 413) \/ Answer(r, 400)
            BY <1>c, <3>2, AnswerType
        <3> QED
            BY <1>3, <3>1, <3>2 DEF Receive
    <2>2. PICK u : u = [upload[r] EXCEPT !.body = body]
        OBVIOUS
    <2>3. u \in Upload
        BY <2>2 DEF Upload
    <2>4. upload' = [upload EXCEPT ![r] = u]
        BY <1>0, <1>3, <2>2 DEF Receive, UploadsTyped
    <2>5. UploadsTyped'
        BY <1>0, <2>3, <2>4 DEF UploadsTyped
    <2> QED
        BY <1>0, <1>3, <1>s, <2>1, <2>5 DEF Receive
<1>4. ASSUME Disconnect(r) PROVE Goal
    BY <1>0, <1>4, <1>c, <1>s, <1>u, AnswerType DEF Disconnect
<1>5. ASSUME SpendReads(r) PROVE Goal
    <2> DEFINE t == upload[r].ticket
               sizes == upload[r].body.sizes
    <2>0. UploadsTyped' /\ SpoolTyped' /\ UNCHANGED <<granted, total>>
        BY <1>5, <1>s, <1>u DEF SpendReads
    <2>1. row' \in [Tickets -> Row]
        BY <1>0, <1>5 DEF SpendReads
    <2>2. HandlersTyped'
        <3>1. CASE Answer(r, 413) \/ Answer(r, 403)
            BY <1>c, <3>1, AnswerType
        <3>2. CASE Step(r, "saving") /\ UNCHANGED local
            BY <1>0, <3>2, OnwardType DEF Step
        <3>3. CASE /\ t # NoTicket /\ Len(sizes) <= row[t].files /\ Sum(sizes) <= row[t].bytes
                   /\ local' = [local EXCEPT ![r].files = row[t].files - Len(sizes),
                                             ![r].bytes = row[t].bytes - Sum(sizes)]
                   /\ Step(r, "spending")
            <4>1. row[t] \in Row
                BY <1>0, <3>3
            <4>0. Len(sizes) \in Nat /\ Sum(sizes) \in Nat
                OBVIOUS
            <4>2. row[t].files - Len(sizes) \in Nat /\ row[t].bytes - Sum(sizes) \in Nat
                <5> HIDE DEF t, sizes
                <5> QED
                    BY <3>3, <4>0, <4>1 DEF Row
            <4>3. local' \in [Requests -> [limit : Nat, budget : Nat, files : Nat, bytes : Nat]]
                BY <1>0, <3>3, <4>2
            <4> QED
                BY <3>3, <4>3, OnwardType DEF Step
        <3> QED
            BY <1>5, <3>1, <3>2, <3>3 DEF SpendReads
    <2> QED
        BY <2>0, <2>1, <2>2
<1>6. ASSUME SpendWrites(r) PROVE Goal
    <2> DEFINE t == upload[r].ticket
    <2>1. HandlersTyped' /\ UploadsTyped' /\ SpoolTyped' /\ UNCHANGED <<granted, total>>
        BY <1>0, <1>6, <1>s, <1>u, OnwardType DEF SpendWrites, Step
    <2>2. ASSUME t \in Tickets
          PROVE  [there |-> TRUE, files |-> local[r].files, bytes |-> local[r].bytes,
                  burned |-> (local[r].files = 0 \/ local[r].bytes = 0),
                  expired |-> row[t].expired] \in Row
        BY <1>0, <2>2 DEF Row
    <2>3. t \in Tickets
        BY <1>6 DEF SpendWrites, TicketInv, SpendingAlone
    <2>4. row' \in [Tickets -> Row]
        BY <1>0, <1>6, <2>2, <2>3 DEF SpendWrites
    <2> QED
        BY <2>1, <2>4
<1>7. ASSUME Save(r) \/ Respond(r) \/ Delete(r) PROVE Goal
    <2>1. HandlersTyped'
        <3>1. CASE Answer(r, 201) \/ Answer(r, 400) \/ Answer(r, 500)
            BY <1>c, <3>1, AnswerType
        <3>2. CASE UNCHANGED <<loop, stage, answer, local>>
            BY <1>0, <3>2 DEF HandlersTyped
        <3>3. CASE Step(r, "deleting") /\ UNCHANGED local
            BY <1>0, <3>3, OnwardType DEF Step
        <3> QED
            BY <1>7, <3>1, <3>2, <3>3 DEF Save, Respond, Delete
    <2>2. SpoolTyped'
        <3>i. PICK i \in Nat : i = batch[r].saved + 1
            BY <1>0 DEF SpoolTyped
        <3>j. PICK j \in Nat : j = batch[r].undone + 1
            BY <1>0 DEF SpoolTyped
        <3>1. /\ [batch EXCEPT ![r].saved = i] \in [Requests -> [saved : Nat, undone : Nat]]
              /\ [batch EXCEPT ![r].undone = j] \in [Requests -> [saved : Nat, undone : Nat]]
              /\ [stored EXCEPT ![r] = @ \cup {i}] \in [Requests -> SUBSET Nat]
              /\ [stored EXCEPT ![r] = @ \ {j}] \in [Requests -> SUBSET Nat]
              /\ [stuck EXCEPT ![r] = @ \cup {j}] \in [Requests -> SUBSET Nat]
            BY <1>0 DEF SpoolTyped
        <3>2. CASE Save(r)
            <4>1. /\ batch' = batch \/ batch' = [batch EXCEPT ![r].saved = i]
                  /\ stored' = stored \/ stored' = [stored EXCEPT ![r] = @ \cup {i}]
                  /\ stuck' = stuck
                BY <3>2, <3>i DEF Save
            <4> QED
                BY <1>0, <3>1, <4>1 DEF SpoolTyped
        <3>3. CASE Respond(r)
            BY <1>s, <3>3 DEF Respond
        <3>4. CASE Delete(r)
            <4>1. \/ UNCHANGED spool
                  \/ /\ batch' = [batch EXCEPT ![r].undone = j]
                     /\ stored' = stored \/ stored' = [stored EXCEPT ![r] = @ \ {j}]
                     /\ stuck' = stuck \/ stuck' = [stuck EXCEPT ![r] = @ \cup {j}]
                BY <3>4, <3>j DEF Delete
            <4> QED
                BY <1>0, <1>s, <3>1, <4>1 DEF SpoolTyped
        <3> QED
            BY <1>7, <3>2, <3>3, <3>4
    <2> QED
        BY <1>0, <1>7, <1>u, <2>1, <2>2 DEF Save, Respond, Delete
<1> QED
    BY <1>1, <1>2, <1>3, <1>4, <1>5, <1>6, <1>7 DEF Handle

LEMMA CreateType ==
    ASSUME TypeOK, NEW t \in Tickets, NEW files \in Nat, NEW bytes \in Nat, Create(t, files, bytes)
    PROVE  /\ row' \in [Tickets -> Row] /\ granted' \in [Tickets -> [files : Nat, bytes : Nat]]
           /\ \E m, n \in Nat :
                /\ m >= 1
                /\ row' = [Purged EXCEPT ![t] = [there |-> TRUE, files |-> m, bytes |-> n,
                                                 burned |-> FALSE, expired |-> FALSE]]
                /\ granted' = [granted EXCEPT ![t] = [files |-> m, bytes |-> n]]
<1>0. total \in Nat /\ MaxFiles \in Nat
    BY TicketAssumption DEF TypeOK
<1> DEFINE a == Least(IF files = 0 THEN MaxFiles ELSE files, MaxFiles)
           b == Least(IF bytes = 0 THEN total ELSE bytes, total)
<1>1. a \in Nat /\ b \in Nat
    BY <1>0, LeastType
<1>2. /\ a >= 1
      /\ row' = [Purged EXCEPT ![t] = [there |-> TRUE, files |-> a, bytes |-> b,
                                       burned |-> FALSE, expired |-> FALSE]]
      /\ granted' = [granted EXCEPT ![t] = [files |-> a, bytes |-> b]]
    BY DEF Create
<1> HIDE DEF a, b
<1>3. [there |-> TRUE, files |-> a, bytes |-> b, burned |-> FALSE, expired |-> FALSE] \in Row
    BY <1>1 DEF Row
<1>4. row' \in [Tickets -> Row]
    BY <1>2, <1>3, RowsType
<1>5. granted' \in [Tickets -> [files : Nat, bytes : Nat]]
    BY <1>1, <1>2 DEF TypeOK
<1> QED
    BY <1>1, <1>2, <1>4, <1>5

LEMMA NextCases ==
    ASSUME [Next]_vars
    PROVE  \/ \E t \in Tickets : \/ \E files, bytes \in Nat : Create(t, files, bytes)
                                 \/ Expire(t)
           \/ SweepTickets
           \/ ProbeRelay
           \/ \E r \in Requests : Handle(r)
           \/ UNCHANGED vars
BY TicketAssumption DEF Next

LEMMA TypeStep == TypeOK /\ TicketInv /\ [Next]_vars => TypeOK'
<1> SUFFICES ASSUME TypeOK, TicketInv, [Next]_vars PROVE TypeOK'
    OBVIOUS
<1>0. LoopHeld'
    BY NextStep DEF TicketInv
<1>1. /\ HandlersTyped /\ UploadsTyped /\ SpoolTyped /\ row \in [Tickets -> Row]
      /\ total \in Budgets /\ granted \in [Tickets -> [files : Nat, bytes : Nat]]
    BY TypeParts DEF TypeOK
\* The steps that leave the requests alone.
<1>2. ASSUME UNCHANGED requests, row' \in [Tickets -> Row], total' \in Budgets,
             granted' \in [Tickets -> [files : Nat, bytes : Nat]]
      PROVE  TypeOK'
    BY <1>0, <1>1, <1>2, TypeNext DEF requests, spool, HandlersTyped, UploadsTyped, SpoolTyped
<1>3. ASSUME NEW t \in Tickets, NEW files \in Nat, NEW bytes \in Nat, Create(t, files, bytes)
      PROVE  TypeOK'
    <2>1. total' = total /\ UNCHANGED requests
        BY <1>3 DEF Create
    <2>2. row' \in [Tickets -> Row] /\ granted' \in [Tickets -> [files : Nat, bytes : Nat]]
        BY <1>3, CreateType
    <2> QED
        BY <1>1, <1>2, <2>1, <2>2
<1>4. ASSUME NEW t \in Tickets, Expire(t) PROVE TypeOK'
    BY <1>1, <1>2, <1>4 DEF Expire, Row
<1>5. CASE SweepTickets
    BY <1>1, <1>2, <1>5, RowsType DEF SweepTickets
<1>6. CASE ProbeRelay
    BY <1>1, <1>2, <1>6 DEF ProbeRelay
<1>7. ASSUME NEW r \in Requests, Handle(r) PROVE TypeOK'
    BY <1>0, <1>1, <1>7, HandleType, TypeNext
<1>8. CASE UNCHANGED vars
    BY <1>1, <1>2, <1>8 DEF vars, requests, spool
<1> QED
    BY <1>3, <1>4, <1>5, <1>6, <1>7, <1>8, NextCases

LEMMA TypeInit == Init => TypeOK
<1> SUFFICES ASSUME Init PROVE TypeOK
    OBVIOUS
<1>1. NoRow \in Row /\ Nothing \in [limit : Nat, budget : Nat, files : Nat, bytes : Nat]
    BY DEF NoRow, Row, Nothing
<1>2. [ticket |-> NoTicket, stale |-> FALSE, body |-> NoBody] \in Upload
    BY DEF Upload
<1> QED
    BY <1>1, <1>2, TicketAssumption DEF Init, TypeOK

LEMMA TypedInvHolds == Spec => [](TypeOK /\ TicketInv)
<1>1. Init => TypeOK /\ TicketInv
    BY TypeInit, InitInv
<1>2. TypeOK /\ TicketInv /\ [Next]_vars => (TypeOK /\ TicketInv)'
    BY TypeStep, NextStep
<1> QED
    BY <1>1, <1>2, PTL DEF Spec

\* Type correctness, for any number of tickets and uploads: every count and budget
\* stays a number, whatever the interleaving of the two statements of spend, and
\* the event loop is with the one handler that is past its last await.
THEOREM TicketTypeCorrect == Spec => []TypeOK
BY TypedInvHolds, PTL
-----------------------------------------------------------------------------
(* The budget of a ticket. TicketNeverOverspent is not inductive: what the *)
(* row still allows, and what a handler between the two statements of spend *)
(* is about to write back, must leave room for what was accepted already.   *)

\* The uploads a ticket has paid for: accepted, or about to be saved.
Charged(t) ==
    {r \in Requests : upload[r].ticket = t /\ (answer[r] = 201 \/ stage[r] = "saving")}

Within(t, files, bytes) ==
    /\ files + Total(Charged(t), FilesOf) <= granted[t].files
    /\ bytes + Total(Charged(t), BytesOf) <= granted[t].bytes

RowWithin(t) == row[t].there => Within(t, row[t].files, row[t].bytes)

SpendingWithin(r) ==
    stage[r] = "spending" =>
        Within(upload[r].ticket, local[r].files + Len(upload[r].body.sizes),
                                 local[r].bytes + Sum(upload[r].body.sizes))

BudgetInv ==
    /\ \A t \in Tickets : Within(t, 0, 0) /\ RowWithin(t)
    /\ \A r \in Requests : SpendingWithin(r)
    /\ \A r \in Requests : upload[r].ticket \in Tickets => granted[upload[r].ticket].files > 0

LEMMA ChargedTypes ==
    ASSUME TypeOK, NEW t
    PROVE  /\ IsFiniteSet(Charged(t))
           /\ FilesOf \in [Requests -> Nat] /\ BytesOf \in [Requests -> Nat]
           /\ Total(Charged(t), FilesOf) \in Nat /\ Total(Charged(t), BytesOf) \in Nat
<1>1. Charged(t) \subseteq Requests
    BY DEF Charged
<1>2. IsFiniteSet(Charged(t))
    BY <1>1, FS_Subset, TicketAssumption
<1>3. FilesOf \in [Requests -> Nat] /\ BytesOf \in [Requests -> Nat]
    BY RequestTypes DEF FilesOf, BytesOf
<1> QED
    BY <1>1, <1>2, <1>3, TotalType

\* Nothing new is charged: what was within the grant still is.
LEMMA ChargedFewer ==
    ASSUME TypeOK, TypeOK', NEW t, Charged(t)' \subseteq Charged(t),
           \A r \in Charged(t)' : upload'[r].body = upload[r].body
    PROVE  /\ Total(Charged(t)', FilesOf') <= Total(Charged(t), FilesOf)
           /\ Total(Charged(t)', BytesOf') <= Total(Charged(t), BytesOf)
           /\ Total(Charged(t)', FilesOf') \in Nat /\ Total(Charged(t)', BytesOf') \in Nat
<1> DEFINE fewer == Charged(t)'
<1>1. fewer \subseteq Requests /\ Charged(t) \subseteq Requests
    BY DEF Charged
<1>2. \A r \in fewer : FilesOf'[r] = FilesOf[r] /\ BytesOf'[r] = BytesOf[r]
    BY <1>1 DEF FilesOf, BytesOf
<1>3. IsFiniteSet(fewer) /\ IsFiniteSet(Charged(t))
    BY ChargedTypes, FS_Subset
<1>4. /\ \A r \in Charged(t) : FilesOf[r] \in Nat /\ BytesOf[r] \in Nat
      /\ \A r \in fewer : FilesOf'[r] \in Nat /\ BytesOf'[r] \in Nat
    BY <1>1, <1>2, ChargedTypes
<1>5. Total(fewer, FilesOf') = Total(fewer, FilesOf) /\ Total(fewer, BytesOf') = Total(fewer, BytesOf)
    BY <1>2, TotalSame
<1>6. /\ Total(fewer, FilesOf) <= Total(Charged(t), FilesOf)
      /\ Total(fewer, BytesOf) <= Total(Charged(t), BytesOf)
    BY <1>3, <1>4, TotalSubset
<1>7. Total(fewer, FilesOf') \in Nat /\ Total(fewer, BytesOf') \in Nat
    BY <1>3, <1>4, TotalType
<1> QED
    BY <1>5, <1>6, <1>7

\* Rows are looked at, purged or marked expired: none allows more than it did.
RowsShrink ==
    \A t \in Tickets : row'[t].there =>
        row[t].there /\ row'[t].files = row[t].files /\ row'[t].bytes = row[t].bytes

LEMMA RowsShrinkCases ==
    ASSUME TypeOK
    PROVE  /\ row' = row => RowsShrink
           /\ row' = Purged => RowsShrink
           /\ \A t : row' = Looked(t) => RowsShrink
           /\ \A t \in Tickets : Expire(t) => RowsShrink
<1>1. row' = row => RowsShrink
    BY DEF RowsShrink
<1>2. row' = Purged => RowsShrink
    BY DEF RowsShrink, Purged, NoRow
<1>3. ASSUME NEW t, row' = Looked(t) PROVE RowsShrink
    BY <1>3 DEF RowsShrink, Looked, NoRow, TypeOK
<1>4. ASSUME NEW t \in Tickets, Expire(t) PROVE RowsShrink
    BY <1>4 DEF RowsShrink, Expire, TypeOK, Row
<1> QED
    BY <1>1, <1>2, <1>3, <1>4

\* Steps that charge nobody and begin no spending.
LEMMA BudgetFrame ==
    ASSUME TypeOK, TypeOK', TicketInv, BudgetInv, UNCHANGED granted, RowsShrink,
           \A t \in Tickets :
                /\ Charged(t)' \subseteq Charged(t)
                /\ \A r \in Charged(t)' : upload'[r].body = upload[r].body,
           \A r \in Requests :
                /\ stage'[r] = "spending" =>
                    stage[r] = "spending" /\ upload'[r] = upload[r] /\ local'[r] = local[r]
                /\ upload'[r].ticket \in Tickets => granted[upload'[r].ticket].files > 0
    PROVE  BudgetInv'
<1>1. ASSUME NEW t \in Tickets
      PROVE  /\ Total(Charged(t)', FilesOf') <= Total(Charged(t), FilesOf)
             /\ Total(Charged(t)', BytesOf') <= Total(Charged(t), BytesOf)
             /\ Total(Charged(t)', FilesOf') \in Nat /\ Total(Charged(t)', BytesOf') \in Nat
             /\ Total(Charged(t), FilesOf) \in Nat /\ Total(Charged(t), BytesOf) \in Nat
             /\ granted[t].files \in Nat /\ granted[t].bytes \in Nat
    BY ChargedFewer, ChargedTypes DEF TypeOK
<1>2. ASSUME NEW t \in Tickets PROVE Within(t, 0, 0)'
    <2>1. Within(t, 0, 0)
        BY DEF BudgetInv
    <2> QED
        BY <1>1, <2>1 DEF Within
<1>3. ASSUME NEW t \in Tickets PROVE RowWithin(t)'
    <2> SUFFICES ASSUME row'[t].there PROVE Within(t, row[t].files, row[t].bytes)'
        BY DEF RowWithin, RowsShrink, Within
    <2>1. /\ row[t].there /\ row'[t].files = row[t].files /\ row'[t].bytes = row[t].bytes
          /\ row[t].files \in Nat /\ row[t].bytes \in Nat
        BY DEF RowsShrink, TypeOK, Row
    <2>2. Within(t, row[t].files, row[t].bytes)
        BY <2>1 DEF BudgetInv, RowWithin
    <2> QED
        BY <1>1, <2>1, <2>2 DEF Within
<1>4. ASSUME NEW r \in Requests PROVE SpendingWithin(r)'
    <2> SUFFICES ASSUME stage'[r] = "spending"
                 PROVE  (Within(upload[r].ticket, local[r].files + Len(upload[r].body.sizes),
                                                  local[r].bytes + Sum(upload[r].body.sizes)))'
        BY DEF SpendingWithin
    <2>1. stage[r] = "spending" /\ upload'[r] = upload[r] /\ local'[r] = local[r]
        OBVIOUS
    <2>2. PICK t \in Tickets : t = upload[r].ticket
        BY <2>1 DEF TicketInv, SpendingAlone
    <2>3. PICK m, n : /\ m = local[r].files + Len(upload[r].body.sizes)
                      /\ n = local[r].bytes + Sum(upload[r].body.sizes)
        OBVIOUS
    <2>6. m \in Nat /\ n \in Nat
        <3>1. local[r].files \in Nat /\ local[r].bytes \in Nat
            BY RequestTypes
        <3>2. Len(upload[r].body.sizes) \in Nat /\ Sum(upload[r].body.sizes) \in Nat
            BY RequestTypes
        <3>3. \A i, j \in Nat : i + j \in Nat
            OBVIOUS
        <3> QED
            BY <2>3, <3>1, <3>2, <3>3, Zenon
    <2>4. Within(t, m, n)
        BY <2>1, <2>2, <2>3 DEF BudgetInv, SpendingWithin
    <2>5. Within(t, m, n)'
        BY <1>1, <2>4, <2>6 DEF Within
    <2> QED
        BY <2>1, <2>2, <2>3, <2>5 DEF Within
<1> QED
    BY <1>2, <1>3, <1>4 DEF BudgetInv

\* A handler does nothing to another request.
LEMMA HandleOthers ==
    ASSUME TypeOK, NEW r \in Requests, Handle(r)
    PROVE  \A q \in Requests \ {r} : /\ stage'[q] = stage[q] /\ answer'[q] = answer[q]
                                     /\ upload'[q] = upload[q] /\ local'[q] = local[q]
<1> DEFINE Goal == \A q \in Requests \ {r} : /\ stage'[q] = stage[q] /\ answer'[q] = answer[q]
                                             /\ upload'[q] = upload[q] /\ local'[q] = local[q]
<1>1. ASSUME NEW code, Answer(r, code),
             \/ upload' = upload \/ \E u : upload' = [upload EXCEPT ![r] = u]
      PROVE  Goal
    BY <1>1 DEF Answer, TypeOK
<1>2. ASSUME stage' = stage \/ \E next : stage' = [stage EXCEPT ![r] = next],
             UNCHANGED answer,
             upload' = upload \/ \E u : upload' = [upload EXCEPT ![r] = u],
             local' = local \/ \E l : local' = [local EXCEPT ![r] = l]
      PROVE  Goal
    BY <1>2 DEF TypeOK
<1>3. ASSUME NEW t \in Tickets \cup {NoTicket}, Arrive(r, t) PROVE Goal
    BY <1>1, <1>2, <1>3 DEF Arrive, Step
<1>4. ASSUME Check(r) PROVE Goal
    <2>1. CASE Answer(r, 403)
        BY <1>1, <1>4, <2>1 DEF Check
    <2>2. CASE Step(r, "receiving") /\ ~ Answer(r, 403)
        <3>1. \A q \in Requests \ {r} : local'[q] = local[q]
            BY <1>4, <2>2 DEF Check, TypeOK
        <3> QED
            BY <1>4, <2>2, <3>1 DEF Check, Step, TypeOK
    <2> QED
        BY <1>4, <2>1, <2>2 DEF Check
<1>5. ASSUME NEW body \in Bodies, Receive(r, body) PROVE Goal
    <2>1. \E u : upload' = [upload EXCEPT ![r] = u]
        BY <1>5 DEF Receive, TypeOK
    <2> QED
        BY <1>1, <1>2, <1>5, <2>1 DEF Receive
<1>6. ASSUME Disconnect(r) PROVE Goal
    BY <1>1, <1>6 DEF Disconnect
<1>7. ASSUME SpendReads(r) PROVE Goal
    <2>1. CASE Answer(r, 413) \/ Answer(r, 403)
        BY <1>1, <1>7, <2>1 DEF SpendReads
    <2>2. CASE Step(r, "saving") /\ UNCHANGED local
        BY <1>2, <1>7, <2>2 DEF SpendReads, Step
    <2>3. CASE /\ Step(r, "spending")
               /\ \E m, n : local' = [local EXCEPT ![r].files = m, ![r].bytes = n]
        BY <1>7, <2>3 DEF SpendReads, Step, TypeOK
    <2> QED
        BY <1>7, <2>1, <2>2, <2>3 DEF SpendReads
<1>8. ASSUME SpendWrites(r) PROVE Goal
    BY <1>2, <1>8 DEF SpendWrites, Step
<1>9. ASSUME Save(r) \/ Respond(r) \/ Delete(r) PROVE Goal
    BY <1>1, <1>2, <1>9 DEF Save, Respond, Delete, Step
<1> QED
    BY <1>3, <1>4, <1>5, <1>6, <1>7, <1>8, <1>9 DEF Handle

LEMMA CreateBudget ==
    ASSUME TypeOK, TypeOK', TicketInv, BudgetInv,
           NEW t \in Tickets, NEW files \in Nat, NEW bytes \in Nat, Create(t, files, bytes)
    PROVE  BudgetInv'
<1>1. PICK m, n \in Nat :
        /\ m >= 1
        /\ row' = [Purged EXCEPT ![t] = [there |-> TRUE, files |-> m, bytes |-> n,
                                         burned |-> FALSE, expired |-> FALSE]]
        /\ granted' = [granted EXCEPT ![t] = [files |-> m, bytes |-> n]]
    BY CreateType
<1>2. granted[t].files = 0 /\ UNCHANGED <<stage, upload, local, answer>>
    BY DEF Create, requests
<1>3. \A u : Charged(u)' = Charged(u)
    BY <1>2 DEF Charged
<1>4. FilesOf' = FilesOf /\ BytesOf' = BytesOf
    BY <1>2 DEF FilesOf, BytesOf
<1>5. \A r \in Requests : upload[r].ticket # t
    BY <1>2 DEF BudgetInv
<1>6. Total(Charged(t), FilesOf) = 0 /\ Total(Charged(t), BytesOf) = 0
    <2>1. Charged(t) = {}
        BY <1>5 DEF Charged
    <2> QED
        BY <2>1, TotalEmpty
<1>7. granted'[t].files = m /\ granted'[t].bytes = n /\ \A u \in Tickets \ {t} : granted'[u] = granted[u]
    BY <1>1 DEF TypeOK
<1>8. ASSUME NEW u \in Tickets \ {t}, NEW i, NEW k, Within(u, i, k) PROVE Within(u, i, k)'
    BY <1>3, <1>4, <1>7, <1>8 DEF Within
<1>9. /\ row'[t].files = m /\ row'[t].bytes = n
      /\ \A u \in Tickets \ {t} : row'[u].there => row'[u] = row[u]
    BY <1>1 DEF Purged, NoRow
<1>10. Within(t, 0, 0)' /\ RowWithin(t)'
    BY <1>3, <1>4, <1>6, <1>7, <1>9 DEF Within, RowWithin
<1>11. ASSUME NEW u \in Tickets \ {t} PROVE Within(u, 0, 0)' /\ RowWithin(u)'
    <2>1. Within(u, 0, 0)'
        BY <1>8 DEF BudgetInv
    <2>2. ASSUME row'[u].there PROVE Within(u, row[u].files, row[u].bytes)'
        <3>1. Within(u, row[u].files, row[u].bytes)
            BY <1>9, <2>2 DEF BudgetInv, RowWithin
        <3> QED
            BY <1>3, <1>4, <1>7, <1>9, <2>2, <3>1 DEF Within
    <2> QED
        BY <2>1, <2>2 DEF RowWithin, Within
<1>12. ASSUME NEW r \in Requests PROVE SpendingWithin(r)'
    <2> SUFFICES ASSUME stage[r] = "spending" PROVE SpendingWithin(r)'
        BY <1>2 DEF SpendingWithin
    <2>1. upload[r].ticket \in Tickets \ {t}
        BY <1>5 DEF TicketInv, SpendingAlone
    <2>2. SpendingWithin(r)
        BY DEF BudgetInv
    <2> QED
        BY <1>2, <1>3, <1>4, <1>7, <2>1, <2>2 DEF SpendingWithin, Within
<1>13. ASSUME NEW r \in Requests, upload'[r].ticket \in Tickets
       PROVE  granted'[upload'[r].ticket].files > 0
    BY <1>2, <1>5, <1>7, <1>13 DEF BudgetInv
<1> QED
    BY <1>10, <1>11, <1>12, <1>13 DEF BudgetInv

\* The steps of a handler other than those of spend.
LEMMA HandlerBudget ==
    ASSUME TypeOK, TypeOK', TicketInv, BudgetInv, NEW r \in Requests, Handle(r), RowsShrink,
           stage'[r] # "spending",
           /\ answer'[r] = 201 \/ stage'[r] = "saving"
           /\ upload'[r].ticket \in Tickets
           => stage[r] = "saving" /\ upload'[r] = upload[r],
           upload'[r].ticket \in Tickets => granted[upload'[r].ticket].files > 0
    PROVE  BudgetInv'
<1>1. UNCHANGED granted
    BY HandleType
<1>2. \A q \in Requests \ {r} : /\ stage'[q] = stage[q] /\ answer'[q] = answer[q]
                                /\ upload'[q] = upload[q] /\ local'[q] = local[q]
    BY HandleOthers
<1>3. \A t \in Tickets : Charged(t)' \subseteq Charged(t)
    BY <1>2 DEF Charged
<1>4. \A t \in Tickets : \A q \in Charged(t)' : upload'[q].body = upload[q].body
    BY <1>2 DEF Charged
<1> QED
    BY <1>1, <1>2, <1>3, <1>4, BudgetFrame DEF BudgetInv

\* Between the two statements of spend what is left is what the row had, less the upload.
LEMMA SpendReadsBudget ==
    ASSUME TypeOK, TypeOK', TicketInv, BudgetInv, NEW r \in Requests, SpendReads(r)
    PROVE  BudgetInv'
<1> DEFINE t == upload[r].ticket
           sizes == upload[r].body.sizes
<1>0. /\ stage[r] = "received" /\ answer[r] = 0 /\ UNCHANGED <<granted, upload>>
      /\ Handle(r)
    BY DEF SpendReads, TicketInv, AnsweredLast, Handle
<1>1. RowsShrink
    BY RowsShrinkCases DEF SpendReads
<1>2. upload'[r].ticket \in Tickets => granted[upload'[r].ticket].files > 0
    BY <1>0 DEF BudgetInv
<1>3. CASE Answer(r, 413) \/ Answer(r, 403)
    <2>1. stage'[r] = "answered" /\ answer'[r] # 201
        BY <1>3 DEF Answer, TypeOK
    <2> QED
        BY <1>0, <1>1, <1>2, <2>1, HandlerBudget
<1>4. CASE t = NoTicket /\ Step(r, "saving")
    <2>1. stage'[r] = "saving" /\ upload'[r].ticket \notin Tickets
        BY <1>0, <1>4, TicketAssumption DEF Step, TypeOK
    <2> QED
        BY <1>0, <1>1, <1>2, <2>1, HandlerBudget
<1>5. CASE /\ t # NoTicket /\ Valid(t) /\ Len(sizes) <= row[t].files /\ Sum(sizes) <= row[t].bytes
           /\ local' = [local EXCEPT ![r].files = row[t].files - Len(sizes),
                                     ![r].bytes = row[t].bytes - Sum(sizes)]
           /\ Step(r, "spending")
    <2>1. t \in Tickets /\ row[t] \in Row
        BY <1>5, RequestTypes DEF TypeOK
    <2>2. stage' = [stage EXCEPT ![r] = "spending"] /\ answer' = answer
        BY <1>5 DEF Step
    <2>3. \A u : Charged(u)' = Charged(u)
        BY <1>0, <2>2 DEF Charged, TypeOK
    <2>4. FilesOf' = FilesOf /\ BytesOf' = BytesOf
        BY <1>0 DEF FilesOf, BytesOf
    <2>5. \A u, i, k : Within(u, i, k) => Within(u, i, k)'
        BY <1>0, <2>3, <2>4 DEF Within
    <2>6. ASSUME NEW u \in Tickets PROVE Within(u, 0, 0)' /\ RowWithin(u)'
        <3>1. Within(u, 0, 0) /\ RowWithin(u)
            BY DEF BudgetInv
        <3> QED
            BY <1>0, <1>1, <2>3, <2>4, <3>1 DEF Within, RowWithin, RowsShrink
    <2>7. SpendingWithin(r)'
        <3>1. /\ local'[r].files = row[t].files - Len(sizes)
              /\ local'[r].bytes = row[t].bytes - Sum(sizes)
            BY <1>5 DEF TypeOK
        <3>2. Len(sizes) \in Nat /\ Sum(sizes) \in Nat
            BY RequestTypes
        <3>3. local'[r].files + Len(sizes) = row[t].files /\ local'[r].bytes + Sum(sizes) = row[t].bytes
            <4> HIDE DEF t, sizes
            <4> QED
                BY <2>1, <3>1, <3>2 DEF Row
        <3>4. Within(t, row[t].files, row[t].bytes)
            BY <1>5, <2>1 DEF BudgetInv, RowWithin, Valid
        <3> QED
            BY <1>0, <2>3, <2>4, <3>3, <3>4 DEF SpendingWithin, Within
    <2>8. ASSUME NEW q \in Requests \ {r} PROVE SpendingWithin(q)'
        <3>1. stage'[q] = stage[q] /\ local'[q] = local[q]
            BY <1>0, HandleOthers
        <3>2. SpendingWithin(q)
            BY DEF BudgetInv
        <3> QED
            BY <1>0, <2>3, <2>4, <3>1, <3>2 DEF SpendingWithin, Within
    <2>9. \A q \in Requests : upload'[q].ticket \in Tickets => granted'[upload'[q].ticket].files > 0
        BY <1>0 DEF BudgetInv
    <2> QED
        BY <2>6, <2>7, <2>8, <2>9 DEF BudgetInv
<1> QED
    BY <1>3, <1>4, <1>5 DEF SpendReads

\* The upload is charged as its row is written back, or as the row is found gone.
LEMMA SpendWritesBudget ==
    ASSUME TypeOK, TypeOK', TicketInv, BudgetInv, NEW r \in Requests, SpendWrites(r)
    PROVE  BudgetInv'
<1> DEFINE t == upload[r].ticket
           sizes == upload[r].body.sizes
<1>0. /\ stage[r] = "spending" /\ answer[r] = 0 /\ UNCHANGED <<granted, upload, local, answer>>
      /\ stage' = [stage EXCEPT ![r] = "saving"]
      /\ t \in Tickets
    BY DEF SpendWrites, Step, TicketInv, AnsweredLast, SpendingAlone
<1>1. FilesOf' = FilesOf /\ BytesOf' = BytesOf
    BY <1>0 DEF FilesOf, BytesOf
<1>2. Charged(t)' = Charged(t) \cup {r} /\ r \notin Charged(t)
    BY <1>0 DEF Charged, TypeOK
<1>3. \A u \in Tickets \ {t} : Charged(u)' = Charged(u)
    BY <1>0 DEF Charged, TypeOK
<1>4. /\ Total(Charged(t)', FilesOf) = Total(Charged(t), FilesOf) + Len(sizes)
      /\ Total(Charged(t)', BytesOf) = Total(Charged(t), BytesOf) + Sum(sizes)
    <2>1. FilesOf[r] = Len(sizes) /\ BytesOf[r] = Sum(sizes)
        BY DEF FilesOf, BytesOf
    <2>2. IsFiniteSet(Charged(t))
        BY ChargedTypes
    <2>3. \A q \in Charged(t) \cup {r} : FilesOf[q] \in Nat /\ BytesOf[q] \in Nat
        BY ChargedTypes DEF Charged
    <2>4. /\ Total(Charged(t) \cup {r}, FilesOf) = Total(Charged(t), FilesOf) + FilesOf[r]
          /\ Total(Charged(t) \cup {r}, BytesOf) = Total(Charged(t), BytesOf) + BytesOf[r]
        <3> HIDE DEF t
        <3> QED
            BY <1>2, <2>2, <2>3, TotalAdd
    <2> QED
        BY <1>2, <2>1, <2>4
<1>5. /\ Total(Charged(t), FilesOf) \in Nat /\ Total(Charged(t), BytesOf) \in Nat
      /\ Len(sizes) \in Nat /\ Sum(sizes) \in Nat
      /\ local[r].files \in Nat /\ local[r].bytes \in Nat
      /\ granted[t].files \in Nat /\ granted[t].bytes \in Nat
    <2>1. Total(Charged(t), FilesOf) \in Nat /\ Total(Charged(t), BytesOf) \in Nat
        BY ChargedTypes
    <2>2. Len(sizes) \in Nat /\ Sum(sizes) \in Nat
        BY RequestTypes
    <2>3. local[r].files \in Nat /\ local[r].bytes \in Nat
        BY RequestTypes
    <2>4. granted[t].files \in Nat /\ granted[t].bytes \in Nat
        BY <1>0 DEF TypeOK
    <2> QED
        BY <2>1, <2>2, <2>3, <2>4
<1>6. Within(t, local[r].files + Len(sizes), local[r].bytes + Sum(sizes))
    BY <1>0 DEF BudgetInv, SpendingWithin
<1>7. Within(t, local[r].files, local[r].bytes)' /\ Within(t, 0, 0)'
    <2> HIDE DEF t, sizes
    <2>1. /\ local[r].files + Total(Charged(t)', FilesOf') <= granted[t].files
          /\ local[r].bytes + Total(Charged(t)', BytesOf') <= granted[t].bytes
        BY <1>1, <1>4, <1>5, <1>6 DEF Within
    <2>2. /\ Total(Charged(t)', FilesOf') <= granted[t].files
          /\ Total(Charged(t)', BytesOf') <= granted[t].bytes
        BY <1>1, <1>4, <1>5, <2>1
    <2>3. Total(Charged(t)', FilesOf') \in Nat /\ Total(Charged(t)', BytesOf') \in Nat
        BY <1>1, <1>4, <1>5
    <2>4. t' = t
        BY <1>0 DEF t
    <2> QED
        BY <1>0, <2>1, <2>2, <2>3, <2>4 DEF Within
<1>8. RowWithin(t)'
    <2>1. CASE row[t].there
        <3>1. row'[t].files = local[r].files /\ row'[t].bytes = local[r].bytes
            BY <1>0, <2>1 DEF SpendWrites, TypeOK
        <3> QED
            BY <1>0, <1>7, <3>1 DEF RowWithin, Within
    <2>2. CASE ~ row[t].there
        BY <2>2 DEF RowWithin, SpendWrites
    <2> QED
        BY <2>1, <2>2
<1>9. ASSUME NEW u \in Tickets \ {t} PROVE Within(u, 0, 0)' /\ RowWithin(u)'
    <2>1. Within(u, 0, 0) /\ RowWithin(u)
        BY DEF BudgetInv
    <2>2. row'[u] = row[u]
        BY <1>0, <1>9 DEF SpendWrites, TypeOK
    <2> QED
        BY <1>0, <1>1, <1>3, <2>1, <2>2 DEF Within, RowWithin
<1>10. ASSUME NEW q \in Requests PROVE SpendingWithin(q)'
    <2>1. stage'[q] # "spending"
        BY <1>0 DEF TypeOK, TicketInv, LoopHeld, OnLoop
    <2> QED
        BY <2>1 DEF SpendingWithin
<1>11. \A q \in Requests : upload'[q].ticket \in Tickets => granted'[upload'[q].ticket].files > 0
    BY <1>0 DEF BudgetInv
<1>12. ASSUME NEW u \in Tickets PROVE Within(u, 0, 0)' /\ RowWithin(u)'
    <2>1. CASE u = t
        BY <1>0, <1>7, <1>8, <2>1 DEF Within, RowWithin
    <2>2. CASE u # t
        BY <1>9, <2>2
    <2> QED
        BY <2>1, <2>2
<1> QED
    BY <1>10, <1>11, <1>12 DEF BudgetInv

LEMMA HandleBudget ==
    ASSUME TypeOK, TypeOK', TicketInv, BudgetInv, NEW r \in Requests, Handle(r)
    PROVE  BudgetInv'
<1>0. upload[r].ticket \in Tickets => granted[upload[r].ticket].files > 0
    BY DEF BudgetInv
<1>1. ASSUME NEW t \in Tickets \cup {NoTicket}, Arrive(r, t) PROVE BudgetInv'
    <2>1. RowsShrink
        BY <1>1, RowsShrinkCases DEF Arrive
    <2>2. stage'[r] \in {"arrived", "answered"} /\ answer'[r] # 201
        <3>1. stage[r] = "new" /\ answer[r] = 0
            BY <1>1 DEF Arrive, TicketInv, AnsweredLast
        <3> QED
            BY <1>1, <3>1 DEF Arrive, Step, Answer, TypeOK
    <2>3. upload'[r].ticket = t /\ (t \in Tickets => granted[t].files > 0)
        BY <1>1 DEF Arrive, TypeOK
    <2> QED
        BY <2>1, <2>2, <2>3, HandlerBudget
<1>2. CASE Check(r)
    <2>1. RowsShrink /\ upload' = upload
        BY <1>2, RowsShrinkCases DEF Check
    <2>2. stage'[r] \in {"receiving", "answered"} /\ answer'[r] # 201
        <3>1. stage[r] = "arrived"
            BY <1>2 DEF Check
        <3>2. answer[r] = 0
            BY <3>1 DEF TicketInv, AnsweredLast
        <3>3. answer[r] # 201 /\ stage \in [Requests -> {"new", "arrived", "receiving", "received",
                                       "spending", "saving", "deleting", "answered"}]
            BY <3>2 DEF TypeOK
        <3>4. answer \in [Requests -> Refused \cup {0, 201, 500}]
            BY DEF TypeOK
        <3>5. CASE Answer(r, 403)
            BY <3>3, <3>4, <3>5 DEF Answer
        <3>6. CASE Step(r, "receiving")
            BY <3>3, <3>6 DEF Step
        <3> QED
            BY <1>2, <3>5, <3>6 DEF Check
    <2> QED
        BY <1>0, <2>1, <2>2, HandlerBudget
<1>3. ASSUME NEW body \in Bodies, Receive(r, body) PROVE BudgetInv'
    <2>1. RowsShrink
        BY <1>3, RowsShrinkCases DEF Receive
    <2>2. stage'[r] \in {"received", "answered"} /\ answer'[r] # 201
        <3>1. stage[r] = "receiving" /\ answer[r] = 0
            BY <1>3 DEF Receive, TicketInv, AnsweredLast
        <3> QED
            BY <1>3, <3>1 DEF Receive, Answer, TypeOK
    <2>3. upload'[r].ticket = upload[r].ticket
        BY <1>3 DEF Receive, TypeOK, Upload
    <2> QED
        BY <1>0, <2>1, <2>2, <2>3, HandlerBudget
<1>4. CASE Disconnect(r)
    <2>1. RowsShrink /\ upload' = upload
        BY <1>4, RowsShrinkCases DEF Disconnect
    <2>2. stage'[r] = "answered" /\ answer'[r] # 201
        BY <1>4 DEF Disconnect, Answer, TypeOK
    <2> QED
        BY <1>0, <2>1, <2>2, HandlerBudget
<1>5. CASE Save(r) \/ Respond(r) \/ Delete(r)
    <2>1. RowsShrink /\ upload' = upload /\ stage[r] \in {"saving", "deleting"}
        BY <1>5, RowsShrinkCases DEF Save, Respond, Delete
    <2>2. answer[r] = 0
        BY <2>1 DEF TicketInv, AnsweredLast
    <2>3. stage'[r] \in {"saving", "deleting", "answered"} /\ answer'[r] \in {0, 201, 400, 500}
        BY <1>5, <2>1, <2>2 DEF Save, Respond, Delete, Answer, Step, TypeOK
    <2>4. stage[r] = "deleting" => stage'[r] # "saving" /\ answer'[r] # 201
        BY <1>5, <2>2 DEF Save, Respond, Delete, Answer, TypeOK
    <2> QED
        BY <1>0, <2>1, <2>3, <2>4, HandlerBudget
<1> QED
    BY <1>1, <1>2, <1>3, <1>4, <1>5, SpendReadsBudget, SpendWritesBudget DEF Handle

LEMMA BudgetStep == TypeOK /\ TypeOK' /\ TicketInv /\ BudgetInv /\ [Next]_vars => BudgetInv'
<1> SUFFICES ASSUME TypeOK, TypeOK', TicketInv, BudgetInv, [Next]_vars PROVE BudgetInv'
    OBVIOUS
\* The steps that leave the requests alone.
<1>1. ASSUME RowsShrink, UNCHANGED granted, UNCHANGED requests PROVE BudgetInv'
    <2>1. UNCHANGED <<stage, upload, local, answer>>
        BY <1>1 DEF requests
    <2> QED
        BY <1>1, <2>1, BudgetFrame DEF Charged, BudgetInv
<1>2. ASSUME NEW t \in Tickets, Expire(t) PROVE BudgetInv'
    BY <1>1, <1>2, RowsShrinkCases DEF Expire
<1>3. CASE SweepTickets
    BY <1>1, <1>3, RowsShrinkCases DEF SweepTickets
<1>4. CASE ProbeRelay
    BY <1>1, <1>4, RowsShrinkCases DEF ProbeRelay
<1>5. CASE UNCHANGED vars
    BY <1>1, <1>5, RowsShrinkCases DEF vars, requests, spool
<1> QED
    BY <1>2, <1>3, <1>4, <1>5, CreateBudget, HandleBudget, NextCases

\* All the uploads a ticket was accepted for stay within what it was created for, in
\* files and in bytes, for any number of tickets and uploads, however they overlap.
THEOREM TicketNeverOverspentHolds == Spec => []TicketNeverOverspent
<1>1. Init => BudgetInv
    <2> SUFFICES ASSUME Init PROVE BudgetInv
        OBVIOUS
    <2>1. \A t \in Tickets : Charged(t) = {}
        BY TicketAssumption DEF Init, Charged
    <2>2. ASSUME NEW t \in Tickets PROVE Within(t, 0, 0) /\ ~ row[t].there
        <3>1. Total(Charged(t), FilesOf) = 0 /\ Total(Charged(t), BytesOf) = 0
            BY <2>1, TotalEmpty
        <3>2. granted[t].files = 0 /\ granted[t].bytes = 0 /\ ~ row[t].there
            BY DEF Init, NoRow
        <3> QED
            BY <3>1, <3>2 DEF Within
    <2> QED
        BY <2>2, TicketAssumption DEF Init, BudgetInv, RowWithin, SpendingWithin
<1>2. TypeOK /\ TypeOK' /\ TicketInv /\ BudgetInv /\ [Next]_vars => BudgetInv'
    BY BudgetStep
<1>3. TypeOK /\ BudgetInv => TicketNeverOverspent
    <2> SUFFICES ASSUME TypeOK, BudgetInv, NEW t \in Tickets
                 PROVE  /\ Total(Accepted(t), FilesOf) <= granted[t].files
                        /\ Total(Accepted(t), BytesOf) <= granted[t].bytes
        BY DEF TicketNeverOverspent
    <2>0. Accepted(t) \subseteq Charged(t) /\ IsFiniteSet(Charged(t))
        BY ChargedTypes DEF Accepted, Charged
    <2>1. Accepted(t) \subseteq Charged(t) /\ IsFiniteSet(Charged(t)) /\ IsFiniteSet(Accepted(t))
        BY <2>0, FS_Subset
    <2>2. \A r \in Charged(t) : FilesOf[r] \in Nat /\ BytesOf[r] \in Nat
        BY ChargedTypes DEF Charged
    <2>3. /\ Total(Accepted(t), FilesOf) <= Total(Charged(t), FilesOf)
          /\ Total(Accepted(t), BytesOf) <= Total(Charged(t), BytesOf)
        BY <2>1, <2>2, TotalSubset
    <2>4. /\ Total(Charged(t), FilesOf) \in Nat /\ Total(Charged(t), BytesOf) \in Nat
          /\ Total(Accepted(t), FilesOf) \in Nat /\ Total(Accepted(t), BytesOf) \in Nat
          /\ granted[t].files \in Nat /\ granted[t].bytes \in Nat
        BY <2>1, <2>2, TotalType DEF TypeOK
    <2>5. Within(t, 0, 0)
        BY DEF BudgetInv
    <2> QED
        BY <2>3, <2>4, <2>5 DEF Within
<1> QED
    BY <1>1, <1>2, <1>3, TypedInvHolds, PTL DEF Spec
-----------------------------------------------------------------------------
(* The spool. What the answer says of it follows from what the loops of    *)
(* save_upload and of att.delete have done so far: files are saved from the *)
(* first on, and gone through from the first on.                           *)

Spooled(r) ==
    LET sizes == upload[r].body.sizes
        saved == batch[r].saved
        undone == batch[r].undone
    IN  /\ stage[r] \notin {"saving", "deleting", "answered"} =>
                stored[r] = {} /\ stuck[r] = {} /\ saved = 0 /\ undone = 0
        /\ stage[r] = "saving" =>
                /\ stored[r] = 1 .. saved /\ stuck[r] = {}
                /\ undone = 0 /\ saved <= Len(sizes)
        /\ stage[r] = "deleting" =>
                /\ undone <= saved
                /\ stuck[r] \subseteq 1 .. undone
                /\ stored[r] = stuck[r] \cup (undone + 1 .. saved)
        /\ answer[r] = 201 => stored[r] = 1 .. Len(sizes)
        /\ answer[r] \in Refused => stored[r] = stuck[r]

SpoolInv == \A r \in Requests : Spooled(r)

\* A handler does nothing to the files of another.
LEMMA SpoolOthers ==
    ASSUME TypeOK, SpoolInv, NEW r \in Requests, Handle(r), Spooled(r)'
    PROVE  SpoolInv'
<1>1. SpoolTyped
    BY TypeParts
<1>2. \A q \in Requests \ {r} : /\ batch'[q] = batch[q] /\ stored'[q] = stored[q]
                                /\ stuck'[q] = stuck[q]
    <2>1. CASE UNCHANGED spool
        BY <2>1 DEF spool
    <2>2. CASE Save(r)
        BY <1>1, <2>2 DEF Save, SpoolTyped
    <2>3. CASE Respond(r)
        BY <2>3 DEF Respond, spool
    <2>4. CASE Delete(r)
        BY <1>1, <2>4 DEF Delete, SpoolTyped, spool
    <2> QED
        BY <2>1, <2>2, <2>3, <2>4
           DEF Handle, Arrive, Check, Receive, Disconnect, SpendReads, SpendWrites
<1>3. ASSUME NEW q \in Requests \ {r} PROVE Spooled(q)'
    <2>1. /\ stage'[q] = stage[q] /\ answer'[q] = answer[q] /\ upload'[q] = upload[q]
          /\ batch'[q] = batch[q] /\ stored'[q] = stored[q] /\ stuck'[q] = stuck[q]
        BY <1>2, HandleOthers
    <2>2. Spooled(q)
        BY DEF SpoolInv
    <2> QED
        BY <2>1, <2>2 DEF Spooled
<1> QED
    BY <1>3 DEF SpoolInv

\* Until the files are saved a handler has none, and does not answer 201.
LEMMA SpoolBefore ==
    ASSUME TypeOK', SpoolInv, NEW r \in Requests, UNCHANGED spool,
           stage[r] \notin {"saving", "deleting", "answered"},
           stage'[r] # "deleting", answer'[r] # 201
    PROVE  Spooled(r)'
<1>1. stored[r] = {} /\ stuck[r] = {} /\ batch[r].saved = 0 /\ batch[r].undone = 0
    BY DEF SpoolInv, Spooled
<1>2. stored'[r] = {} /\ stuck'[r] = {} /\ batch'[r].saved = 0 /\ batch'[r].undone = 0
    BY <1>1 DEF spool
<1>3. {} = 1 .. 0
    OBVIOUS
<1>4. Len(upload'[r].body.sizes) \in Nat
    <2>1. upload'[r].body \in Bodies \cup {NoBody}
        BY DEF TypeOK, Upload
    <2> QED
        BY <2>1, BodySums
<1> QED
    BY <1>2, <1>3, <1>4 DEF Spooled

\* The steps of a handler that has yet to save.
LEMMA HandleBefore ==
    ASSUME TypeOK, TypeOK', TicketInv, SpoolInv, NEW r \in Requests, Handle(r),
           ~ Save(r), ~ Respond(r), ~ Delete(r)
    PROVE  Spooled(r)'
<1>1. /\ UNCHANGED spool
      /\ stage[r] \in {"new", "arrived", "receiving", "received", "spending"}
    BY DEF Handle, Arrive, Check, Receive, Disconnect, SpendReads, SpendWrites
<1>2. answer[r] = 0
    BY <1>1 DEF TicketInv, AnsweredLast
<1>3. stage'[r] # "deleting" /\ answer'[r] # 201
    <2>0. /\ stage \in [Requests -> {"new", "arrived", "receiving", "received", "spending",
                                     "saving", "deleting", "answered"}]
          /\ answer \in [Requests -> Refused \cup {0, 201, 500}]
        BY DEF TypeOK
    <2>1. ASSUME NEW code, code # 201, Answer(r, code)
          PROVE  stage'[r] # "deleting" /\ answer'[r] # 201
        BY <2>0, <2>1 DEF Answer
    <2>2. ASSUME NEW next, next # "deleting", stage' = [stage EXCEPT ![r] = next], UNCHANGED answer
          PROVE  stage'[r] # "deleting" /\ answer'[r] # 201
        BY <1>2, <2>0, <2>2
    <2>3. \/ \E code \in {400, 401, 403, 413, 500} : Answer(r, code)
          \/ /\ UNCHANGED answer
             /\ \E next \in {"arrived", "receiving", "received", "spending", "saving"} :
                    stage' = [stage EXCEPT ![r] = next]
        BY DEF Handle, Arrive, Check, Receive, Disconnect, SpendReads, SpendWrites, Step
    <2> QED
        BY <2>1, <2>2, <2>3
<1> QED
    BY <1>1, <1>3, SpoolBefore

LEMMA SavedSpooled ==
    ASSUME TypeOK, TicketInv, SpoolInv, NEW r \in Requests, Save(r)
    PROVE  Spooled(r)'
<1> DEFINE sizes == upload[r].body.sizes
           i == batch[r].saved + 1
<1>1. /\ stage[r] = "saving" /\ answer[r] = 0 /\ i \in 1 .. Len(sizes) /\ Len(sizes) \in Nat
      /\ UNCHANGED <<upload, stuck>>
    BY RequestTypes DEF Save, TicketInv, AnsweredLast
<1>2. /\ stored[r] = 1 .. batch[r].saved /\ stuck[r] = {}
      /\ batch[r].undone = 0 /\ batch[r].saved <= Len(sizes) /\ batch[r].saved \in Nat
    BY <1>1, TypeParts DEF SpoolInv, Spooled, SpoolTyped
<1>3. /\ stage \in [Requests -> {"new", "arrived", "receiving", "received", "spending", "saving",
                                 "deleting", "answered"}]
      /\ answer \in [Requests -> Refused \cup {0, 201, 500}]
      /\ batch \in [Requests -> [saved : Nat, undone : Nat]]
      /\ stored \in [Requests -> SUBSET Nat]
    BY DEF TypeOK
<1>4. CASE UNCHANGED <<stage, answer>> /\ batch' = [batch EXCEPT ![r].saved = i]
           /\ stored' = [stored EXCEPT ![r] = @ \cup {i}]
    <2>1. batch'[r].saved = i /\ batch'[r].undone = 0 /\ stored'[r] = stored[r] \cup {i}
        BY <1>2, <1>3, <1>4
    <2>2. stored'[r] = 1 .. i
        BY <1>2, <2>1
    <2> QED
        BY <1>1, <1>2, <1>4, <2>1, <2>2 DEF Spooled, Refused
<1>5. CASE Answer(r, 500)
    <2>1. stage'[r] = "answered" /\ answer'[r] = 500
        BY <1>3, <1>5 DEF Answer
    <2> QED
        BY <2>1 DEF Spooled, Refused
<1>6. CASE Step(r, "deleting") /\ UNCHANGED <<batch, stored>>
    <2>1. stage'[r] = "deleting" /\ answer'[r] = 0
        BY <1>1, <1>3, <1>6 DEF Step
    <2>2. 1 .. 0 = {} /\ 0 + 1 = 1
        OBVIOUS
    <2> QED
        BY <1>1, <1>2, <1>6, <2>1, <2>2 DEF Spooled, Refused
<1> QED
    BY <1>4, <1>5, <1>6 DEF Save

LEMMA RespondedSpooled ==
    ASSUME TypeOK, SpoolInv, NEW r \in Requests, Respond(r)
    PROVE  Spooled(r)'
<1>1. /\ stage[r] = "saving" /\ batch[r].saved = Len(upload[r].body.sizes)
      /\ UNCHANGED <<upload, spool>>
    BY DEF Respond
<1>2. stored[r] = 1 .. Len(upload[r].body.sizes)
    BY <1>1 DEF SpoolInv, Spooled
<1>3. stage'[r] = "answered" /\ answer'[r] \in {201, 500}
    BY DEF Respond, Answer, TypeOK
<1> QED
    BY <1>1, <1>2, <1>3 DEF Spooled, Refused, spool

LEMMA DeletedSpooled ==
    ASSUME TypeOK, TicketInv, SpoolInv, NEW r \in Requests, Delete(r)
    PROVE  Spooled(r)'
<1> DEFINE j == batch[r].undone + 1
<1>1. stage[r] = "deleting" /\ answer[r] = 0 /\ UNCHANGED upload
    BY DEF Delete, TicketInv, AnsweredLast
<1>2. PICK saved, undone \in Nat :
        /\ saved = batch[r].saved /\ undone = batch[r].undone
        /\ undone <= saved /\ stuck[r] \subseteq 1 .. undone
        /\ stored[r] = stuck[r] \cup (undone + 1 .. saved)
    BY <1>1, TypeParts DEF SpoolInv, Spooled, SpoolTyped
<1>3. /\ stage \in [Requests -> {"new", "arrived", "receiving", "received", "spending", "saving",
                                 "deleting", "answered"}]
      /\ answer \in [Requests -> Refused \cup {0, 201, 500}]
      /\ batch \in [Requests -> [saved : Nat, undone : Nat]]
      /\ stored \in [Requests -> SUBSET Nat] /\ stuck \in [Requests -> SUBSET Nat]
    BY DEF TypeOK
<1>4. CASE j > batch[r].saved
    <2>1. undone + 1 .. saved = {}
        BY <1>2, <1>4
    <2>2. stored[r] = stuck[r] /\ UNCHANGED spool /\ Answer(r, 400)
        BY <1>2, <1>4, <2>1 DEF Delete
    <2>3. stage'[r] = "answered" /\ answer'[r] = 400
        BY <1>3, <2>2 DEF Answer
    <2> QED
        BY <2>2, <2>3 DEF Spooled, spool
<1>5. CASE j <= batch[r].saved
    <2>1. /\ UNCHANGED <<stage, answer>> /\ batch' = [batch EXCEPT ![r].undone = j]
          /\ \/ stored' = [stored EXCEPT ![r] = @ \ {j}] /\ UNCHANGED stuck
             \/ stuck' = [stuck EXCEPT ![r] = @ \cup {j}] /\ UNCHANGED stored
        BY <1>2, <1>5 DEF Delete
    <2>2. batch'[r].saved = saved /\ batch'[r].undone = undone + 1 /\ undone + 1 <= saved
        BY <1>2, <1>3, <1>5, <2>1
    <2>3. \/ stored'[r] = stored[r] \ {undone + 1} /\ stuck'[r] = stuck[r]
          \/ stuck'[r] = stuck[r] \cup {undone + 1} /\ stored'[r] = stored[r]
        BY <1>2, <1>3, <2>1
    <2>4. stuck'[r] \subseteq 1 .. (undone + 1)
        BY <1>2, <2>3
    <2>5. stored'[r] = stuck'[r] \cup ((undone + 1) + 1 .. saved)
        BY <1>2, <2>2, <2>3
    <2> QED
        BY <1>1, <2>1, <2>2, <2>4, <2>5 DEF Spooled, Refused
<1>6. j > batch[r].saved \/ j <= batch[r].saved
    BY <1>2
<1> QED
    BY <1>4, <1>5, <1>6

LEMMA SpoolStep == TypeOK /\ TypeOK' /\ TicketInv /\ SpoolInv /\ [Next]_vars => SpoolInv'
<1> SUFFICES ASSUME TypeOK, TypeOK', TicketInv, SpoolInv, [Next]_vars PROVE SpoolInv'
    OBVIOUS
<1>1. CASE UNCHANGED requests
    BY <1>1 DEF requests, spool, SpoolInv, Spooled
<1>2. ASSUME NEW r \in Requests, Handle(r) PROVE SpoolInv'
    <2>1. Spooled(r)'
        BY <1>2, HandleBefore, SavedSpooled, RespondedSpooled, DeletedSpooled
    <2> QED
        BY <1>2, <2>1, SpoolOthers
<1> QED
    BY <1>1, <1>2 DEF Next, Create, Expire, SweepTickets, ProbeRelay, vars, requests, spool

\* However the limits change between two files of an upload, and whatever the file
\* system refuses: an upload that is created has all its files in the spool, and one
\* that is refused only those that att.delete could not unlink.
THEOREM SpoolAsAnsweredHolds == Spec => []SpoolAsAnswered
<1>1. Init => SpoolInv
    BY DEF Init, SpoolInv, Spooled, Refused
<1>2. TypeOK /\ TypeOK' /\ TicketInv /\ SpoolInv /\ [Next]_vars => SpoolInv'
    BY SpoolStep
<1>3. TypeOK /\ SpoolInv => SpoolAsAnswered
    <2> SUFFICES ASSUME TypeOK, SpoolInv, NEW r \in Requests
                 PROVE  /\ answer[r] = 201 => stored[r] = DOMAIN upload[r].body.sizes
                        /\ answer[r] \in Refused => stored[r] = stuck[r]
        BY DEF SpoolAsAnswered
    <2> QED
        BY RequestTypes DEF SpoolInv, Spooled
<1> QED
    BY <1>1, <1>2, <1>3, TypedInvHolds, PTL DEF Spec
=============================================================================
