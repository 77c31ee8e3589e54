-------------------------- MODULE SendReportProofs --------------------------
(***************************************************************************)
(* What holds of SendReport for reports of any length, any number of files *)
(* and every policy: which lines are shown, in which order and as what,    *)
(* that placeholders are found where the mail would show them, that every  *)
(* file is in the mail and every image in its text finds its file, who the *)
(* mail goes to, and that an accepted report fits the relay's limit.       *)
(***************************************************************************)
EXTENDS SendReport, FiniteSetTheorems, SequenceTheorems, TLAPS
-----------------------------------------------------------------------------
(* Bytes in the mail.                                                      *)

\* base64 in lines makes no more than 37 percent of a file, and five bytes.
LEMMA EncodedBound ==
    ASSUME NEW n \in Nat
    PROVE  Encoded(n) \in Nat /\ 100 * Encoded(n) <= 137 * n + 500
<1> DEFINE q == (n + 2) \div 3
           c == 4 * q
           l == (c + 75) \div 76
<1>1. q \in Nat /\ 3 * q <= n + 2
    OBVIOUS
<1>2. c \in Nat /\ 3 * c <= 4 * n + 8
    BY <1>1
<1>3. Encoded(n) = c + 2 * l
    BY DEF Encoded
<1> HIDE DEF c
<1>4. l \in Nat /\ 76 * l <= c + 75
    BY <1>2
<1> HIDE DEF l
<1>5. 100 * (c + 2 * l) <= 137 * n + 500
    BY <1>2, <1>4
<1> QED
    BY <1>2, <1>3, <1>4, <1>5

LEMMA TimesMonotone ==
    ASSUME NEW k \in Nat, NEW x \in Int, NEW y \in Int, x <= y
    PROVE  k * x <= k * y
OBVIOUS

\* Files that fit the budget derived from a limit fit the limit.
LEMMA BudgetFits ==
    ASSUME NEW k \in Nat, k > 0, NEW n \in Nat, n > 0, NEW rest \in Nat, NEW l \in Nat,
           rest + 5 * k <= Overhead,
           k * n <= attachment_budget(l)
    PROVE  rest + k * Encoded(n) <= l
<1>0. Overhead \in Nat
    BY SendAssumption
<1>1. k * n \in Nat /\ k * n > 0
    OBVIOUS
<1>2. l > Overhead
    BY <1>0, <1>1 DEF attachment_budget
<1>3. k * n <= ((l - Overhead) * 100) \div 137
    BY <1>2 DEF attachment_budget
<1> DEFINE m == k * n
           e == Encoded(n)
           ke == k * e
<1> HIDE DEF m
<1>4. m \in Nat /\ 137 * m <= 100 * (l - Overhead)
    <2>1. m \in Nat /\ m <= ((l - Overhead) * 100) \div 137
        BY <1>1, <1>3 DEF m
    <2> QED
        BY <1>0, <1>2, <2>1
<1>5. e \in Nat /\ 100 * e <= 137 * n + 500
    BY EncodedBound
<1> HIDE DEF e
<1>6. k * (100 * e) <= k * (137 * n + 500)
    BY <1>5, TimesMonotone
<1>7. 100 * ke <= 137 * m + 500 * k
    BY <1>5, <1>6 DEF m
<1>8. ke \in Nat
    BY <1>5
<1> HIDE DEF ke
<1>9. rest + ke <= l
    BY <1>0, <1>4, <1>7, <1>8
<1> QED
    BY <1>9 DEF ke, e
-----------------------------------------------------------------------------
(* Who the mail goes to.                                                   *)

\* The addresses to are one source's, and that source may name them.
Governs(s, to, given, policy) ==
    /\ to = given[s] \cap Addresses /\ to # {}
    /\ \A t \in Sources :
        given[t] \cap Addresses # {} =>
            t = s \/ t = "default" \/ <<s, t>> = <<"argument", "header">>
    /\ policy.allowed # {} => to \subseteq policy.allowed
    /\ s = "argument" => policy.allow_to
    /\ s = "default" => ~ policy.require

LEMMA ParsedAddresses ==
    ASSUME NEW raw \in SUBSET Parts, Parsable(raw)
    PROVE  Parsed(raw) = raw \cap Addresses
BY RecipientAssumption DEF Parts, Parsable, Parsed

LEMMA GovernedIs ==
    ASSUME NEW s, NEW raw, NEW policy, Governed(s, raw, policy) # Refusal
    PROVE  /\ Governed(s, raw, policy).to = Parsed(raw)
           /\ policy.allowed # {} => Parsed(raw) \subseteq policy.allowed
BY DEF Governed, Permitted

LEMMA ResolveGoverned ==
    ASSUME NEW given \in [Sources -> SUBSET Parts], NEW policy,
           resolve(given, policy) # Refusal
    PROVE  \E s \in Sources : Governs(s, resolve(given, policy).to, given, policy)
<1> DEFINE arg == given["argument"]
           header == given["header"]
           default == given["default"]
<1>0. arg \in SUBSET Parts /\ header \in SUBSET Parts /\ default \in SUBSET Parts
    BY DEF Sources
<1>1. given["argument"] = arg /\ given["header"] = header /\ given["default"] = default
    OBVIOUS
<1>2. Sources = {"argument", "header", "default"}
    BY DEF Sources
<1>3. Parsable(arg) /\ Parsed(arg) = arg \cap Addresses
    BY <1>0, ParsedAddresses DEF resolve
<1>4. CASE Parsed(arg) # {}
    <2>1. policy.allow_to /\ resolve(given, policy) = Governed("argument", arg, policy)
        BY <1>3, <1>4 DEF resolve
    <2>2. /\ resolve(given, policy).to = arg \cap Addresses
          /\ policy.allowed # {} => arg \cap Addresses \subseteq policy.allowed
        BY <1>3, <2>1, GovernedIs
    <2>3. Governs("argument", resolve(given, policy).to, given, policy)
        BY <1>2, <1>3, <1>4, <2>1, <2>2 DEF Governs
    <2> QED
        BY <1>2, <2>3
<1>5. CASE Parsed(arg) = {}
    <2>0. resolve(given, policy) = Routed(given, policy)
        BY <1>3, <1>5 DEF resolve
    <2>1. Parsable(header) /\ Parsed(header) = header \cap Addresses
        BY <1>0, <2>0, ParsedAddresses DEF Routed
    <2>2. CASE Parsed(header) # {}
        <3>1. resolve(given, policy) = Governed("header", header, policy)
            BY <2>0, <2>1, <2>2 DEF Routed
        <3>2. /\ resolve(given, policy).to = header \cap Addresses
              /\ policy.allowed # {} => header \cap Addresses \subseteq policy.allowed
            BY <2>1, <3>1, GovernedIs
        <3>3. Governs("header", resolve(given, policy).to, given, policy)
            BY <1>2, <1>3, <1>5, <2>1, <2>2, <3>2 DEF Governs
        <3> QED
            BY <1>2, <3>3
    <2>3. CASE Parsed(header) = {}
        <3>1. /\ ~ policy.require /\ Parsable(default) /\ Parsed(default) # {}
              /\ resolve(given, policy) = Governed("default", default, policy)
            BY <2>0, <2>1, <2>3 DEF Routed
        <3>2. /\ resolve(given, policy).to = default \cap Addresses
              /\ policy.allowed # {} => default \cap Addresses \subseteq policy.allowed
              /\ default \cap Addresses # {}
            BY <1>0, <3>1, GovernedIs, ParsedAddresses
        <3>3. Governs("default", resolve(given, policy).to, given, policy)
            BY <1>2, <1>3, <1>5, <2>1, <2>3, <3>1, <3>2 DEF Governs
        <3> QED
            BY <1>2, <3>3
    <2> QED
        BY <2>2, <2>3
<1> QED
    BY <1>4, <1>5
-----------------------------------------------------------------------------
(* The order of the lines.                                                 *)

Ordered(s) == \A i, j \in DOMAIN s : i < j => \A p \in s[i].of, q \in s[j].of : p < q
Before(s, q) == \A i \in DOMAIN s : \A p \in s[i].of : p < q

\* What a buffer holds was read after what is written, and one of the table, the
\* list and the code block is open at most.
OrderInv ==
    /\ RenderTypeOK
    /\ Ordered(out)
    /\ Before(out, at)
    /\ \A q \in tbl \cup list_buf : q < at /\ Before(out, q)
    /\ in_code => \A q \in code_buf : q < at /\ Before(out, q)
    /\ tbl = {} \/ list_buf = {}
    /\ in_code => tbl = {} /\ list_buf = {}

LEMMA AppendOrdered ==
    ASSUME NEW s \in Seq(Block), NEW b \in Block, Ordered(s), \A q \in b.of : Before(s, q)
    PROVE  /\ Append(s, b) \in Seq(Block) /\ Ordered(Append(s, b))
           /\ \A q : Before(s, q) /\ (\A p \in b.of : p < q) => Before(Append(s, b), q)
<1>1. /\ Len(s) \in Nat /\ DOMAIN s = 1 .. Len(s)
      /\ DOMAIN Append(s, b) = 1 .. Len(s) + 1
      /\ \A i \in DOMAIN s : Append(s, b)[i] = s[i]
      /\ Append(s, b)[Len(s) + 1] = b
    OBVIOUS
<1>2. Ordered(Append(s, b))
    <2> SUFFICES ASSUME NEW i \in 1 .. Len(s) + 1, NEW j \in 1 .. Len(s) + 1, i < j,
                        NEW p \in Append(s, b)[i].of, NEW q \in Append(s, b)[j].of
                 PROVE  p < q
        BY <1>1 DEF Ordered
    <2>1. i \in DOMAIN s /\ p \in s[i].of
        BY <1>1
    <2>2. CASE j \in DOMAIN s
        BY <1>1, <2>1, <2>2 DEF Ordered
    <2>3. CASE j = Len(s) + 1
        BY <1>1, <2>1, <2>3 DEF Before
    <2> QED
        BY <1>1, <2>2, <2>3
<1>3. ASSUME NEW n, Before(s, n), \A p \in b.of : p < n PROVE Before(Append(s, b), n)
    BY <1>1, <1>3 DEF Before
<1> QED
    BY <1>2, <1>3

LEMMA BeforeNext ==
    ASSUME NEW s \in Seq(Block), NEW n \in Nat, Before(s, n)
    PROVE  Before(s, n + 1)
<1> SUFFICES ASSUME NEW i \in DOMAIN s, NEW p \in s[i].of PROVE p < n + 1
    BY DEF Before
<1>1. s[i] \in Block
    OBVIOUS
<1>2. p \in Nat /\ p < n
    BY <1>1 DEF Before, Block
<1> QED
    BY <1>2

LEMMA FlushListOrdered ==
    ASSUME NEW s \in Seq(Block), Ordered(s), list_buf \subseteq Nat, \A q \in list_buf : Before(s, q)
    PROVE  /\ FlushList(s) \in Seq(Block) /\ Ordered(FlushList(s))
           /\ \A n : Before(s, n) /\ (\A p \in list_buf : p < n) => Before(FlushList(s), n)
<1>1. CASE list_buf = {}
    BY <1>1 DEF FlushList
<1>2. CASE list_buf # {}
    <2>1. PICK b : b = [tag |-> "ul", of |-> list_buf]
        OBVIOUS
    <2>2. b \in Block /\ b.of = list_buf /\ FlushList(s) = Append(s, b)
        BY <1>2, <2>1 DEF Block, FlushList
    <2> QED
        BY <2>2, AppendOrdered
<1> QED
    BY <1>1, <1>2

LEMMA FlushTableOrdered ==
    ASSUME NEW s \in Seq(Block), Ordered(s), tbl \subseteq Nat, \A q \in tbl : Before(s, q)
    PROVE  /\ FlushTable(s) \in Seq(Block) /\ Ordered(FlushTable(s))
           /\ \A n : Before(s, n) /\ (\A p \in tbl : p < n) => Before(FlushTable(s), n)
<1>1. CASE tbl = {}
    BY <1>1 DEF FlushTable
<1>2. CASE tbl # {}
    <2>1. PICK b : b = [tag |-> "table", of |-> tbl \ Second(tbl)]
        OBVIOUS
    <2>2. b \in Block /\ b.of \subseteq tbl /\ FlushTable(s) = Append(s, b)
        BY <1>2, <2>1 DEF Block, FlushTable
    <2> QED
        BY <2>2, AppendOrdered
<1> QED
    BY <1>1, <1>2

\* Whatever is open is written out before the line at hand.
LEMMA FlushBoth ==
    ASSUME OrderInv
    PROVE  LET s == FlushList(FlushTable(out))
           IN  s \in Seq(Block) /\ Ordered(s) /\ Before(s, at)
<1>1. out \in Seq(Block) /\ tbl \subseteq Nat /\ list_buf \subseteq Nat
    BY DEF OrderInv, RenderTypeOK
<1>2. PICK s : s = FlushTable(out)
    OBVIOUS
<1>3. /\ s \in Seq(Block) /\ Ordered(s)
      /\ \A n : Before(out, n) /\ (\A p \in tbl : p < n) => Before(s, n)
    BY <1>1, <1>2, FlushTableOrdered DEF OrderInv
<1>4. Before(s, at) /\ \A p \in list_buf : p < at
    BY <1>3 DEF OrderInv
<1>5. \A q \in list_buf : Before(s, q)
    BY <1>3 DEF OrderInv
<1>6. FlushList(s) \in Seq(Block) /\ Ordered(FlushList(s)) /\ Before(FlushList(s), at)
    BY <1>1, <1>3, <1>4, <1>5, FlushListOrdered
<1> QED
    BY <1>2, <1>6

LEMMA PositionType ==
    ASSUME RenderTypeOK
    PROVE  Len(md) \in Nat /\ at \in Nat /\ Lines = 1 .. Len(md)
BY DEF RenderTypeOK, Lines

\* A step of the loop is a move to the next line with what becomes of the buffers.
LEMMA ReadLineOrder ==
    ASSUME OrderInv, ReadLine
    PROVE  OrderInv'
<1> DEFINE flushed == FlushList(FlushTable(out))
<1>0. /\ Len(md) \in Nat /\ at \in Nat /\ Lines = 1 .. Len(md) /\ out \in Seq(Block)
      /\ tbl \subseteq 1 .. Len(md) /\ list_buf \subseteq 1 .. Len(md)
      /\ code_buf \subseteq 1 .. Len(md) /\ tbl \subseteq Nat /\ list_buf \subseteq Nat
      /\ code_buf \subseteq Nat
    BY PositionType DEF OrderInv, RenderTypeOK
<1>1. /\ at' = at + 1 /\ UNCHANGED <<md, titled>> /\ at' \in 1 .. Len(md) + 2
      /\ Before(out, at + 1) /\ Before(out, at)
    <2>1. at' = at + 1 /\ UNCHANGED <<md, titled>>
        BY DEF ReadLine, DropLine, OpenFence, CloseFence, CodeLine, Row, Item, Single, End, Advance
    <2>2. at \in Lines \/ at = Len(md) + 1
        BY DEF ReadLine, DropLine, OpenFence, CloseFence, CodeLine, Row, Item, Single, End, At,
               Dropped, DroppedTitle
    <2> QED
        BY <1>0, <2>1, <2>2, BeforeNext DEF OrderInv
<1>2. flushed \in Seq(Block) /\ Ordered(flushed) /\ Before(flushed, at) /\ Before(flushed, at + 1)
    BY <1>0, FlushBoth, BeforeNext
<1>3. CASE DropLine
    <2>1. UNCHANGED <<in_code, code_buf, tbl, list_buf, out>>
        BY <1>3 DEF DropLine
    <2> QED
        BY <1>0, <1>1, <2>1 DEF OrderInv, RenderTypeOK
<1>4. CASE OpenFence
    <2>1. in_code' = TRUE /\ code_buf' = {} /\ tbl' = {} /\ list_buf' = {} /\ out' = flushed
        BY <1>4 DEF OpenFence
    <2> HIDE DEF flushed
    <2> QED
        BY <1>0, <1>1, <1>2, <2>1 DEF OrderInv, RenderTypeOK
<1>5. CASE CloseFence
    <2>1. /\ in_code /\ in_code' = FALSE /\ UNCHANGED <<code_buf, tbl, list_buf>>
          /\ out' = Append(out, [tag |-> "pre", of |-> code_buf])
        BY <1>5 DEF CloseFence
    <2>2. PICK b : b = [tag |-> "pre", of |-> code_buf]
        OBVIOUS
    <2>3. b \in Block /\ b.of = code_buf /\ out' = Append(out, b)
        BY <1>0, <2>1, <2>2 DEF Block
    <2>4. out' \in Seq(Block) /\ Ordered(out') /\ Before(out', at + 1)
        <3>1. \A q \in code_buf : q < at /\ Before(out, q)
            BY <2>1 DEF OrderInv
        <3>2. \A q \in code_buf : q < at + 1
            BY <1>0, <3>1
        <3> QED
            BY <1>0, <1>1, <2>3, <3>1, <3>2, AppendOrdered DEF OrderInv
    <2>5. tbl = {} /\ list_buf = {}
        BY <2>1 DEF OrderInv
    <2> QED
        BY <1>0, <1>1, <2>1, <2>4, <2>5 DEF OrderInv, RenderTypeOK
<1>6. CASE CodeLine
    <2>1. /\ in_code /\ code_buf' = code_buf \cup {at} /\ at \in Lines
          /\ UNCHANGED <<in_code, tbl, list_buf, out>>
        BY <1>6 DEF CodeLine, At
    <2>2. \A q \in code_buf' : q < at + 1 /\ Before(out, q)
        BY <1>0, <1>1, <2>1 DEF OrderInv
    <2> QED
        BY <1>0, <1>1, <2>1, <2>2 DEF OrderInv, RenderTypeOK
<1>7. CASE Row
    <2>1. /\ ~ in_code /\ out' = FlushList(out) /\ list_buf' = {} /\ tbl' = tbl \cup {at}
          /\ at \in Lines /\ UNCHANGED <<in_code, code_buf>>
        BY <1>7 DEF Row, At
    <2>2. /\ out' \in Seq(Block) /\ Ordered(out')
          /\ \A n : Before(out, n) /\ (\A p \in list_buf : p < n) => Before(out', n)
        BY <1>0, <2>1, FlushListOrdered DEF OrderInv
    <2>3. Before(out', at) /\ Before(out', at + 1)
        BY <1>0, <1>1, <2>2, BeforeNext DEF OrderInv
    <2>4. \A q \in tbl' : q < at + 1 /\ Before(out', q)
        BY <1>0, <2>1, <2>2, <2>3 DEF OrderInv
    <2> QED
        BY <1>0, <1>1, <2>1, <2>2, <2>3, <2>4 DEF OrderInv, RenderTypeOK
<1>8. CASE Item
    <2>1. /\ ~ in_code /\ out' = FlushTable(out) /\ tbl' = {} /\ list_buf' = list_buf \cup {at}
          /\ at \in Lines /\ UNCHANGED <<in_code, code_buf>>
        BY <1>8 DEF Item, At
    <2>2. /\ out' \in Seq(Block) /\ Ordered(out')
          /\ \A n : Before(out, n) /\ (\A p \in tbl : p < n) => Before(out', n)
        BY <1>0, <2>1, FlushTableOrdered DEF OrderInv
    <2>3. Before(out', at) /\ Before(out', at + 1)
        BY <1>0, <1>1, <2>2, BeforeNext DEF OrderInv
    <2>4. \A q \in list_buf' : q < at + 1 /\ Before(out', q)
        BY <1>0, <2>1, <2>2, <2>3 DEF OrderInv
    <2> QED
        BY <1>0, <1>1, <2>1, <2>2, <2>3, <2>4 DEF OrderInv, RenderTypeOK
<1>9. CASE Single
    <2>1. /\ ~ in_code /\ tbl' = {} /\ list_buf' = {} /\ at \in Lines
          /\ out' = Append(flushed, [tag |-> "line", of |-> {at}])
          /\ UNCHANGED <<in_code, code_buf>>
        BY <1>9 DEF Single, At
    <2> HIDE DEF flushed
    <2>2. PICK b : b = [tag |-> "line", of |-> {at}]
        OBVIOUS
    <2>3. b \in Block /\ b.of = {at} /\ out' = Append(flushed, b)
        BY <1>0, <2>1, <2>2 DEF Block
    <2>4. out' \in Seq(Block) /\ Ordered(out') /\ Before(out', at + 1)
        <3>1. \A q \in b.of : Before(flushed, q) /\ q < at + 1
            BY <1>0, <1>2, <2>3
        <3> QED
            BY <1>2, <2>3, <3>1, AppendOrdered
    <2> QED
        BY <1>0, <1>1, <2>1, <2>4 DEF OrderInv, RenderTypeOK
<1>10. CASE End
    <2>1. tbl' = {} /\ list_buf' = {} /\ out' = flushed /\ UNCHANGED <<in_code, code_buf>>
        BY <1>10 DEF End
    <2>2. in_code' => \A q \in code_buf' : q < at + 1 /\ Before(out', q)
        <3> SUFFICES ASSUME in_code, NEW q \in code_buf PROVE q < at + 1 /\ Before(out', q)
            BY <2>1
        <3>1. q < at /\ Before(out, q) /\ tbl = {} /\ list_buf = {}
            BY DEF OrderInv
        <3>2. out' = out
            BY <2>1, <3>1 DEF FlushList, FlushTable
        <3> QED
            BY <1>0, <3>1, <3>2
    <2> HIDE DEF flushed
    <2> QED
        BY <1>0, <1>1, <1>2, <2>1, <2>2 DEF OrderInv, RenderTypeOK
<1> QED
    BY <1>3, <1>4, <1>5, <1>6, <1>7, <1>8, <1>9, <1>10 DEF ReadLine
-----------------------------------------------------------------------------
(* The report as a whole.                                                  *)

Asked == {"new", "stored", "refused"}
Fitted == {"resolved", "rendering", "queued"}

\* The recipients were resolved before the call went on, and deliver uses them.
GovernedInv ==
    /\ stage \notin Asked => Chosen # Refusal
    /\ stage = "sent" => mail.to = Chosen.to

JobShape ==
    job = [logo |-> job.logo, limit |-> job.limit, html |-> job.html, images |-> job.images]

\* The budget was that of the limit the job remembers.
FittedInv ==
    stage \in Fitted =>
        job.limit \in Nat /\ (job.limit > 0 => Total <= attachment_budget(job.limit))

ReportInv ==
    /\ case \in CaseType
    /\ limit \in Nat
    /\ OrderInv
    /\ GovernedInv
    /\ JobShape
    /\ FittedInv

LEMMA InitReport == Init => ReportInv
<1> SUFFICES ASSUME Init PROVE ReportInv
    OBVIOUS
<1>1. case \in CaseType /\ limit \in Nat
    BY SendAssumption DEF Init
<1>2. md \in Seq(Line) /\ titled \in BOOLEAN
    BY <1>1 DEF Init, RenderInit, CaseType
<1>3. OrderInv
    <2>1. /\ at = 1 /\ in_code = FALSE /\ code_buf = {} /\ tbl = {} /\ list_buf = {} /\ out = <<>>
        BY DEF Init, RenderInit
    <2>2. Len(md) \in Nat /\ <<>> \in Seq(Block)
        BY <1>2
    <2>3. RenderTypeOK
        <3>1. at \in 1 .. Len(md) + 2
            BY <2>1, <2>2
        <3>2. {code_buf, tbl, list_buf} \subseteq SUBSET (1 .. Len(md))
            BY <2>1
        <3> QED
            BY <1>2, <2>1, <2>2, <3>1, <3>2 DEF RenderTypeOK
    <2> QED
        BY <2>1, <2>3 DEF OrderInv, Ordered, Before
<1>4. GovernedInv /\ FittedInv /\ JobShape
    BY DEF NoJob, JobShape, Init, GovernedInv, FittedInv, Asked, Fitted
<1> QED
    BY <1>1, <1>3, <1>4 DEF ReportInv

LEMMA CaseStays ==
    ASSUME [Next]_vars
    PROVE  case' = case
BY DEF Next, Call, Upload, Ask, FindFiles, ReadReport, CheckBody, ResolveFiles, LoadLogo, Render,
       Enqueue, Deliver, Fail, FileGoes, LogoChanges, ProbeRelay, Elsewhere, vars

LEMMA ReportStep == ReportInv /\ [Next]_vars => ReportInv'
<1> SUFFICES ASSUME ReportInv, [Next]_vars PROVE ReportInv'
    OBVIOUS
<1>1. case' = case
    BY CaseStays
<1>2. limit' \in Nat
    BY DEF Next, Call, Upload, Ask, FindFiles, ReadReport, CheckBody, ResolveFiles, LoadLogo, Render,
           Enqueue, Deliver, Fail, FileGoes, LogoChanges, ProbeRelay, Elsewhere, vars, ReportInv,
           CaseType
<1>3. OrderInv'
    <2>1. UNCHANGED renderVars \/ ReadLine
        BY DEF Next, Call, Upload, Ask, FindFiles, ReadReport, CheckBody, ResolveFiles, LoadLogo,
               Render, Enqueue, Deliver, Fail, FileGoes, LogoChanges, ProbeRelay, vars
    <2>2. CASE UNCHANGED renderVars
        BY <2>2 DEF renderVars, ReportInv, OrderInv, RenderTypeOK, Ordered, Before
    <2>3. CASE ReadLine
        BY <2>3, ReadLineOrder DEF ReportInv
    <2> QED
        BY <2>1, <2>2, <2>3
<1>4. Chosen' = Chosen /\ Total' = Total
    BY <1>1 DEF Chosen, Total, Refs, KeptIds, ExtraIds, BundleIds, Entry, NameOf, Unzipped
<1>5. GovernedInv'
    <2>1. CASE Ask
        BY <1>4, <2>1 DEF Ask, BadArguments, Reach, Refuse, GovernedInv, Asked
    <2>2. CASE Deliver
        BY <1>4, <2>2 DEF Deliver, Reach, ReportInv, GovernedInv, Asked
    <2>3. CASE ~ Ask /\ ~ Deliver
        <3>1. /\ stage' = stage \/ stage' \in {"stored", "refused"} \/ stage \notin Asked
              /\ mail' = mail /\ (stage' = "sent" => stage = "sent")
            BY <2>3 DEF Next, Call, Upload, FindFiles, ReadReport, CheckBody, ResolveFiles, LoadLogo,
                   Render, Enqueue, Fail, FileGoes, LogoChanges, ProbeRelay, vars, Reach, Refuse,
                   Asked
        <3> QED
            BY <1>4, <3>1 DEF ReportInv, GovernedInv, Asked
    <2> QED
        BY <2>1, <2>2, <2>3
<1>6. JobShape'
    BY DEF Next, Call, Upload, Ask, FindFiles, ReadReport, CheckBody, ResolveFiles, LoadLogo, Render,
           Enqueue, Deliver, Fail, FileGoes, LogoChanges, ProbeRelay, vars, ReportInv, JobShape
<1>7. FittedInv'
    <2>1. CASE ResolveFiles
        <3>1. stage' \in Fitted => Total <= max_total_bytes
            BY <2>1 DEF ResolveFiles, Reach, Refuse, Fitted
        <3>2. job'.limit = limit
            BY <2>1 DEF ResolveFiles, ReportInv, JobShape
        <3>3. limit \in Nat /\ (limit > 0 => max_total_bytes = attachment_budget(limit))
            BY DEF ReportInv, max_total_bytes
        <3>4. attachment_budget(job.limit)' = attachment_budget(limit)
            BY <3>2 DEF attachment_budget
        <3>5. ASSUME stage' \in Fitted, limit > 0 PROVE Total <= attachment_budget(limit)
            BY <3>1, <3>3, <3>5
        <3> QED
            BY <1>4, <3>2, <3>3, <3>4, <3>5 DEF FittedInv
    <2>2. CASE ~ ResolveFiles
        <3>1. stage' \in Fitted => stage \in Fitted /\ job'.limit = job.limit
            BY <2>2 DEF Next, Call, Upload, Ask, FindFiles, ReadReport, CheckBody, LoadLogo, Render,
                   Enqueue, Deliver, Fail, FileGoes, LogoChanges, ProbeRelay, vars, Reach, Refuse,
                   Fitted, ReportInv, JobShape
        <3>2. job'.limit = job.limit => attachment_budget(job.limit)' = attachment_budget(job.limit)
            BY DEF attachment_budget
        <3> QED
            BY <1>4, <3>1, <3>2 DEF ReportInv, FittedInv
    <2> QED
        BY <2>1, <2>2
<1> QED
    BY <1>1, <1>2, <1>3, <1>5, <1>6, <1>7 DEF ReportInv

LEMMA InvHolds == Spec => []ReportInv
BY InitReport, ReportStep, PTL DEF Spec

\* The renderer writes the lines of a report of any length in their order, and none
\* of them twice, however tables, lists and code blocks follow each other.
THEOREM ShownInOrderHolds == Spec => []ShownInOrder
<1>1. ReportInv => ShownInOrder
    BY DEF ReportInv, OrderInv, Ordered, ShownInOrder
<1> QED
    BY <1>1, InvHolds, PTL

\* A mail goes to the addresses of one source, all allowed, whatever the policy.
THEOREM RecipientsGovernedHolds == Spec => []RecipientsGoverned
<1>1. ReportInv => RecipientsGoverned
    <2> SUFFICES ASSUME ReportInv, stage = "sent" PROVE RecipientsGoverned
        BY DEF RecipientsGoverned
    <2>1. case.given \in [Sources -> SUBSET Parts]
        BY DEF ReportInv, CaseType
    <2>2. mail.to = Chosen.to /\ Chosen # Refusal
        BY DEF ReportInv, GovernedInv, Asked
    <2>3. \E s \in Sources : Governs(s, mail.to, case.given, case.policy)
        BY <2>1, <2>2, ResolveGoverned DEF Chosen
    <2> QED
        BY <2>3 DEF Governs, RecipientsGoverned
<1> QED
    BY <1>1, InvHolds, PTL

\* Files within the budget that was derived from the relay's SIZE make a message
\* within that SIZE, line ends as they are sent, for files of any size and any number.
THEOREM AcceptedFitsHolds == Spec => []AcceptedFits
<1>1. ReportInv => AcceptedFits
    <2> DEFINE files == Cardinality(Refs)
    <2> SUFFICES ASSUME ReportInv, stage = "queued", job.limit > 0, files > 0, case.size > 0,
                        case.rest + 5 * files <= Overhead
                 PROVE  case.rest + files * Encoded(case.size) <= job.limit
        BY DEF AcceptedFits
    <2>1. /\ job.limit \in Nat /\ Total <= attachment_budget(job.limit)
          /\ case.size \in Nat /\ case.rest \in Nat
        BY DEF ReportInv, FittedInv, Fitted, CaseType
    <2>2. files \in Nat
        <3>1. case.files \in Seq(Names) /\ case.extra \in Seq(Names)
            BY DEF ReportInv, CaseType
        <3>2. PICK m \in Nat, n \in Nat : m = Len(case.files) /\ n = Len(case.extra)
            BY <3>1
        <3>3. IsFiniteSet(1 .. m) /\ IsFiniteSet(m + 1 .. m + n)
            <4>1. m + 1 \in Int /\ m + n \in Int
                OBVIOUS
            <4> QED
                BY <4>1, FS_Interval
        <3>4. IsFiniteSet((1 .. m) \cup (m + 1 .. m + n))
            BY <3>3, FS_Union
        <3>5. Refs \subseteq (1 .. m) \cup (m + 1 .. m + n)
            BY <3>2 DEF Refs, KeptIds, BundleIds, ExtraIds
        <3> QED
            BY <3>4, <3>5, FS_Subset, FS_CardinalityType
    <2>3. files * case.size <= attachment_budget(job.limit)
        BY <2>1 DEF Total
    <2> QED
        BY <2>1, <2>2, <2>3, BudgetFits
<1> QED
    BY <1>1, InvHolds, PTL
-----------------------------------------------------------------------------
(* Names: a file of the bundle, its entry and its name in the spool.       *)

LEMMA FileNames ==
    ASSUME case \in CaseType
    PROVE  /\ \A i \in Files : NameOf(i) \in Names
           /\ BundleIds \subseteq Files /\ Refs \subseteq Files
           /\ Files \subseteq Nat
<1>1. case.files \in Seq(Names) /\ case.extra \in Seq(Names)
    BY DEF CaseType
<1>2. PICK m \in Nat, n \in Nat :
          /\ m = Len(case.files) /\ n = Len(case.extra)
          /\ \A i \in 1 .. m : case.files[i] \in Names
          /\ \A i \in 1 .. n : case.extra[i] \in Names
    BY <1>1
<1>3. BundleIds \subseteq 1 .. m /\ ExtraIds = m + 1 .. m + n
    BY <1>2 DEF BundleIds, ExtraIds
<1>4. ASSUME NEW i \in BundleIds PROVE NameOf(i) \in Names
    BY <1>2, <1>3, <1>4 DEF NameOf
<1>5. ASSUME NEW i \in ExtraIds PROVE NameOf(i) \in Names
    <2>1. i - m \in 1 .. n /\ ~ i <= m
        BY <1>3, <1>5
    <2> QED
        BY <1>2, <2>1 DEF NameOf
<1>6. Files \subseteq Nat
    BY <1>3 DEF Files
<1> QED
    BY <1>4, <1>5, <1>6 DEF Files, Refs, KeptIds

\* Files with entries of their own are all kept.
LEMMA AllKept ==
    ASSUME case \in CaseType, Distinct
    PROVE  KeptIds = BundleIds /\ Refs = Files
<1>1. ASSUME NEW i \in BundleIds, NEW k \in BundleIds, k > i PROVE Entry(k) # Entry(i)
    <2>1. i \in Nat /\ k \in Nat
        BY FileNames
    <2> QED
        BY <1>1, <2>1 DEF Distinct
<1>2. KeptIds = BundleIds
    BY <1>1 DEF KeptIds
<1> QED
    BY <1>2 DEF Refs, Files

\* An image has one file, and its cid is that file's place among the images.
LEMMA FirstOfEntry ==
    ASSUME case \in CaseType, Distinct, NEW k \in BundleIds
    PROVE  FirstOf(Entry(k)) = k
<1>1. \A i \in BundleIds : Entry(i) = Entry(k) => i = k
    BY DEF Distinct
<1>2. k \in Nat
    BY FileNames
<1>3. Entry(k) = Entry(k) /\ \A j \in BundleIds : Entry(j) = Entry(k) => k <= j
    BY <1>1, <1>2
<1> DEFINE P(i) == Entry(i) = Entry(k) /\ \A j \in BundleIds : Entry(j) = Entry(k) => i <= j
<1>4. P(k) /\ \A i \in BundleIds : P(i) => i = k
    BY <1>1, <1>3
<1>5. FirstOf(Entry(k)) = CHOOSE i \in BundleIds : P(i)
    BY DEF FirstOf
<1> HIDE DEF P
<1> QED
    BY <1>4, <1>5

LEMMA ImagesFinite ==
    ASSUME case \in CaseType
    PROVE  IsFiniteSet(Images)
<1>1. PICK m \in Nat : BundleIds \subseteq 1 .. m
    <2>1. case.files \in Seq(Names)
        BY DEF CaseType
    <2>2. Len(case.files) \in Nat
        BY <2>1
    <2> QED
        BY <2>2 DEF BundleIds
<1>2. IsFiniteSet(BundleIds)
    <2>1. 1 \in Int /\ m \in Int
        OBVIOUS
    <2>2. IsFiniteSet(1 .. m)
        BY <2>1, FS_Interval
    <2> QED
        BY <1>1, <2>2, FS_Subset
<1>3. PICK T : T = {Entry(i) : i \in BundleIds}
    OBVIOUS
<1>4. IsFiniteSet(T)
    <2>1. PICK f : f = [i \in BundleIds |-> Entry(i)]
        OBVIOUS
    <2>2. f \in Surjection(BundleIds, T)
        BY <1>3, <2>1 DEF Surjection
    <2> QED
        BY <1>2, <2>2, FS_Surjection
<1>5. Images \subseteq T
    BY <1>3 DEF Images
<1> QED
    BY <1>4, <1>5, FS_Subset

\* The images before one are fewer than those before a later one.
LEMMA CidGrows ==
    ASSUME case \in CaseType, Distinct, NEW i \in BundleIds, NEW k \in BundleIds, i < k,
           Entry(i) \in Images
    PROVE  CidOf(Entry(i)) # CidOf(Entry(k))
<1> DEFINE A == {m \in Images : FirstOf(m) < i}
           B == {m \in Images : FirstOf(m) < k}
<1>1. CidOf(Entry(i)) = Cardinality(A) /\ CidOf(Entry(k)) = Cardinality(B)
    BY FirstOfEntry DEF CidOf
<1>2. \A m \in Images : FirstOf(m) \in Nat
    BY FirstOfEntry, FileNames DEF Images
<1>3. i \in Nat /\ k \in Nat
    BY FileNames
<1>4. A \subseteq B /\ Entry(i) \in B /\ Entry(i) \notin A
    BY <1>2, <1>3, FirstOfEntry
<1>5. IsFiniteSet(B)
    BY ImagesFinite, FS_Subset
<1> HIDE DEF A, B
<1>6. Cardinality(A) # Cardinality(B)
    BY <1>4, <1>5, FS_Subset
<1> QED
    BY <1>1, <1>6

LEMMA CidInjective ==
    ASSUME case \in CaseType, Distinct, NEW m \in Images, NEW n \in Images, CidOf(m) = CidOf(n)
    PROVE  m = n
<1>1. PICK i \in BundleIds, k \in BundleIds : m = Entry(i) /\ n = Entry(k)
    BY DEF Images
<1>2. i \in Nat /\ k \in Nat
    BY FileNames
<1>3. ~ i < k /\ ~ k < i
    BY <1>1, CidGrows
<1> QED
    BY <1>1, <1>2, <1>3

\* A file in the spool under the name of an image is that image's file.
LEMMA ImageOfSpoolName ==
    ASSUME case \in CaseType, Distinct, NamesKept, NEW i \in Files, SpoolName(i) \in Images
    PROVE  i \in BundleIds /\ Entry(i) = SpoolName(i) /\ SpoolName(i) \in Referenced
<1>1. PICK k \in BundleIds : SpoolName(i) = Entry(k)
    BY DEF Images
<1>2. k \in Files
    BY FileNames
<1>3. SpoolName(i) = SpoolName(k)
    BY <1>1 DEF NamesKept
<1>4. i = k
    BY <1>2, <1>3 DEF Distinct
<1> QED
    BY <1>1, <1>4 DEF Images

LEMMA ImagesNamed == case \in CaseType => Images \subseteq Names
<1> SUFFICES ASSUME case \in CaseType, NEW i \in BundleIds PROVE Entry(i) \in Names
    BY DEF Images
<1>1. NameOf(i) \in Names
    BY FileNames
<1> QED
    BY <1>1, SendAssumption DEF Entry, Unzipped
-----------------------------------------------------------------------------
(* The types of the other variables.                                       *)

LEMMA CidType == ReportInv => \A n : CidOf(n) \in Nat
<1> SUFFICES ASSUME ReportInv, NEW n PROVE CidOf(n) \in Nat
    OBVIOUS
<1>1. IsFiniteSet(Images)
    BY ImagesFinite DEF ReportInv
<1> QED
    BY <1>1, FS_Subset, FS_CardinalityType DEF CidOf

\* The cids are those of the bundle's images from the moment the report is read.
Early == {"new", "stored", "asked", "found"}
Late == {"read", "checked", "resolved", "rendering", "queued", "sent", "failed"}
ImagesInv ==
    /\ stage \in Early => job.images = NoImages
    /\ stage \in Late => job.images = [n \in Images |-> CidOf(n)]

LEMMA CidStays ==
    ASSUME case' = case, md' = md
    PROVE  Images' = Images /\ Refs' = Refs /\ \A n : CidOf(n)' = CidOf(n)
<1>1. Images' = Images /\ Refs' = Refs
    BY DEF Images, Referenced, Refs, KeptIds, ExtraIds, Lines, BundleIds, Entry, NameOf, Unzipped
<1>2. \A n : FirstOf(n)' = FirstOf(n)
    BY DEF FirstOf, BundleIds, Entry, NameOf, Unzipped
<1> QED
    BY <1>1, <1>2 DEF CidOf

\* Neither the case nor the report's text changes on the way.
LEMMA TextStays ==
    ASSUME [Next]_vars
    PROVE  /\ case' = case /\ md' = md /\ titled' = titled
           /\ UNCHANGED renderVars \/ (stage = "rendering" /\ stage' = stage /\ ReadLine)
<1>1. UNCHANGED renderVars \/ (stage = "rendering" /\ stage' = stage /\ ReadLine)
    BY DEF Next, Call, Upload, Ask, FindFiles, ReadReport, CheckBody, ResolveFiles, LoadLogo, Render,
           Enqueue, Deliver, Fail, FileGoes, LogoChanges, ProbeRelay, vars
<1>2. ReadLine => md' = md /\ titled' = titled
    BY DEF ReadLine, DropLine, OpenFence, CloseFence, CodeLine, Row, Item, Single, End, Advance
<1> QED
    BY <1>1, <1>2, CaseStays DEF renderVars

LEMMA ImagesStep == ReportInv /\ ImagesInv /\ [Next]_vars => ImagesInv'
<1> SUFFICES ASSUME ReportInv, ImagesInv, [Next]_vars PROVE ImagesInv'
    OBVIOUS
<1> DEFINE cids == [n \in Images |-> CidOf(n)]
<1>1. cids' = cids
    BY TextStays, CidStays
<1>2. CASE ReadReport
    <2>1. /\ stage' \in {"read", "raised", "refused"}
          /\ stage' = "read" => job' = [job EXCEPT !.images = cids]
        BY <1>2 DEF ReadReport, Reach, Refuse
    <2>2. stage' = "read" => job'.images = cids
        BY <2>1 DEF ReportInv, JobShape
    <2> HIDE DEF cids
    <2> QED
        BY <1>1, <2>1, <2>2 DEF ImagesInv, Early, Late, cids
<1>3. CASE Ask
    <2>1. /\ stage = "stored" /\ job' = job /\ stage' \in {"refused", "asked", "read"}
          /\ stage' = "read" => BundleIds = {}
        BY <1>3 DEF Ask, Reach, Refuse, BundleIds
    <2>2. BundleIds = {} => cids = NoImages
        BY DEF Images, NoImages
    <2> HIDE DEF cids
    <2> QED
        BY <1>1, <2>1, <2>2 DEF ImagesInv, Early, Late, cids
<1>4. CASE ~ ReadReport /\ ~ Ask
    <2>1. /\ job'.images = job.images
          /\ stage' \in Late => stage \in Late
          /\ stage' \in Early => stage \in Early
        BY <1>4 DEF Next, Call, Upload, FindFiles, CheckBody, ResolveFiles, LoadLogo, Render,
               Enqueue, Deliver, Fail, FileGoes, LogoChanges, ProbeRelay, vars, Reach, Refuse,
               ReportInv, JobShape, Early, Late
    <2> HIDE DEF cids
    <2> QED
        BY <1>1, <2>1 DEF ImagesInv, cids
<1> QED
    BY <1>2, <1>3, <1>4

TypeInv == ReportInv /\ ImagesInv /\ TypeOK

LEMMA TypeInit == Init => TypeOK
<1> SUFFICES ASSUME Init PROVE TypeOK
    OBVIOUS
<1>1. RenderTypeOK /\ case \in CaseType /\ limit \in Nat
    BY InitReport DEF ReportInv, OrderInv
<1>2. \E images \in SUBSET Names :
        job \in [logo : BOOLEAN, limit : Nat, html : SUBSET Nat, images : [images -> Nat]]
    <2>1. job \in [logo : BOOLEAN, limit : Nat, html : SUBSET Nat, images : [{} -> Nat]]
        BY DEF Init, NoJob, NoImages
    <2> QED
        BY <2>1
<1>3. mail.to = {} /\ mail.parts = {}
    BY DEF Init, NoMail
<1> QED
    BY <1>1, <1>2, <1>3 DEF Init, TypeOK, Stages

LEMMA TypeStep == TypeInv /\ [Next]_vars => TypeOK'
<1> SUFFICES ASSUME TypeInv, [Next]_vars PROVE TypeOK'
    OBVIOUS
<1>a. case' = case
    BY CaseStays
<1>b. Uploaded' = Uploaded /\ Refs' = Refs
    BY <1>a DEF Uploaded, ReportId, Refs, KeptIds, ExtraIds, BundleIds, Entry, NameOf, Unzipped
<1> USE DEF Next, Call, Upload, Ask, FindFiles, ReadReport, CheckBody, ResolveFiles, LoadLogo, Render,
        Enqueue, Deliver, Fail, FileGoes, LogoChanges, ProbeRelay, Elsewhere, vars
<1>1. RenderTypeOK' /\ case' \in CaseType /\ limit' \in Nat
    BY ReportStep DEF TypeInv, ReportInv, OrderInv
<1>2. stage' \in Stages
    BY DEF TypeInv, TypeOK, Stages, Reach, Refuse
<1>3. /\ error' \in {"none", "arguments", "files", "placeholder", "size", "logo"}
      /\ error' # "none" <=> stage' = "refused"
    BY DEF TypeInv, TypeOK, Reach, Refuse, Pending
<1>5. spool' \subseteq Uploaded'
    BY <1>b DEF TypeInv, TypeOK
<1>6. logo' \in {"none", "ok", "bad"}
    BY DEF TypeInv, TypeOK
<1>7. \E images \in SUBSET Names :
        job' \in [logo : BOOLEAN, limit : Nat, html : SUBSET Nat, images : [images -> Nat]]
    <2> DEFINE Job(images) ==
            [logo : BOOLEAN, limit : Nat, html : SUBSET Nat, images : [images -> Nat]]
    <2>0. PICK images \in SUBSET Names : job \in Job(images)
        BY DEF TypeInv, TypeOK
    <2>c. \A n : CidOf(n) \in Nat
        BY CidType DEF TypeInv
    <2>1. CASE Enqueue
        <3>1. DOMAIN job.images = Images
            BY <2>1 DEF TypeInv, ImagesInv, Late
        <3>2. \A p \in Embedded : Short[md[p].holds] \in DOMAIN job.images
            BY <3>1 DEF Embedded
        <3>3. {job.images[Short[md[p].holds]] : p \in Embedded} \subseteq Nat
            BY <2>0, <3>2
        <3>4. job' \in Job(images)
            BY <2>0, <2>1, <3>3
        <3> QED
            BY <3>4
    <2>2. CASE LoadLogo
        <3>1. job' \in Job(images)
            BY <2>0, <2>2
        <3> QED
            BY <3>1
    <2>3. CASE ResolveFiles
        <3>1. job' \in Job(images)
            BY <2>0, <2>3 DEF TypeInv, TypeOK
        <3> QED
            BY <3>1
    <2>4. CASE job' = job
        BY <2>0, <2>4
    <2>5. CASE ReadReport /\ job' # job
        <3>1. job' = [job EXCEPT !.images = [n \in Images |-> CidOf(n)]]
            BY <2>5
        <3>2. [n \in Images |-> CidOf(n)] \in [Images -> Nat]
            BY <2>c
        <3>3. job' \in Job(Images)
            BY <2>0, <3>1, <3>2
        <3>4. Images \subseteq Names
            BY ImagesNamed DEF TypeInv, ReportInv
        <3> QED
            BY <3>3, <3>4
    <2> QED
        BY <2>1, <2>2, <2>3, <2>4, <2>5
<1>8. mail'.to \subseteq Addresses /\ mail'.parts \subseteq [id : Refs', cid : Int]
    <2>1. CASE Deliver
        <3>1. mail'.to = Chosen.to /\ mail'.parts = {Part(i) : i \in Refs}
            BY <2>1
        <3>2. Chosen # Refusal
            BY <2>1 DEF TypeInv, ReportInv, GovernedInv, Asked
        <3>3. case.given \in [Sources -> SUBSET Parts]
            BY DEF TypeInv, ReportInv, CaseType
        <3>4. Chosen.to \subseteq Addresses
            BY <3>2, <3>3, ResolveGoverned DEF Chosen, Governs
        <3>5. ASSUME NEW i \in Refs PROVE Part(i) \in [id : Refs, cid : Int]
            <4>1. job.images = [n \in Images |-> CidOf(n)]
                BY <2>1 DEF TypeInv, ImagesInv, Late
            <4>2. \A n \in DOMAIN job.images : job.images[n] \in Nat
                BY <4>1, CidType DEF TypeInv
            <4>3. -1 \in Int /\ Nat \subseteq Int
                OBVIOUS
            <4> QED
                BY <4>2, <4>3 DEF Part
        <3> QED
            BY <1>b, <3>1, <3>4, <3>5
    <2>2. CASE mail' = mail
        BY <1>b, <2>2 DEF TypeInv, TypeOK
    <2> QED
        BY <2>1, <2>2
<1> QED
    BY <1>1, <1>2, <1>3, <1>5, <1>6, <1>7, <1>8 DEF TypeOK

\* The variables keep their types, and a report has an error exactly when it was
\* refused, for every case.
THEOREM ReportTypeCorrect == Spec => []TypeOK
<1>1. Init => TypeInv
    BY InitReport, TypeInit DEF TypeInv, ImagesInv, Init, NoJob, Early, Late
<1>2. TypeInv /\ [Next]_vars => TypeInv'
    BY ReportStep, ImagesStep, TypeStep DEF TypeInv
<1>3. TypeInv => TypeOK
    BY DEF TypeInv
<1> QED
    BY <1>1, <1>2, <1>3, PTL DEF Spec
-----------------------------------------------------------------------------
(* The parts of the mail and the cids.                                     *)

\* What is queued has the cids of the text's images, and what is sent has a part
\* for each file, with the cid the job has for it.
MailInv ==
    /\ stage \in {"queued", "sent"} =>
            job.html = {job.images[Short[md[p].holds]] : p \in Embedded}
    /\ stage = "sent" =>
        /\ mail.parts = {Part(i) : i \in Refs}
        /\ job.logo => mail.logo \/ logo = "none"

LEMMA PartStays ==
    ASSUME case' = case, job' = job
    PROVE  \A i : Part(i)' = Part(i)
<1>1. \A i : SpoolName(i)' = SpoolName(i)
    BY DEF SpoolName, NameOf, Unzipped, InZip, BundleIds
<1> QED
    BY <1>1 DEF Part

LEMMA MailStep == TypeInv /\ MailInv /\ [Next]_vars => MailInv'
<1> SUFFICES ASSUME TypeInv, MailInv, [Next]_vars PROVE MailInv'
    OBVIOUS
<1>1. /\ case' = case /\ md' = md
      /\ Images' = Images /\ Refs' = Refs
    BY TextStays, CidStays
<1> DEFINE Tags == {job.images[Short[md[p].holds]] : p \in Embedded}
<1>2. stage' \in {"queued", "sent"} => job'.html = Tags'
    <2>1. ASSUME UNCHANGED renderVars, job'.images = job.images PROVE Tags' = Tags
        <3>1. Embedded' = Embedded
            BY <1>1, <2>1 DEF Embedded, Inlined, Lines, Kind, renderVars
        <3> QED
            BY <1>1, <2>1, <3>1
    <2>2. CASE Enqueue
        <3>1. UNCHANGED renderVars /\ job'.html = Tags /\ job'.images = job.images
            BY <2>2 DEF Enqueue, TypeInv, ReportInv, JobShape
        <3> QED
            BY <2>1, <3>1
    <2>3. CASE ~ Enqueue /\ stage' \in {"queued", "sent"}
        <3>1. stage \in {"queued", "sent"} /\ job' = job
            BY <2>3 DEF Next, Call, Upload, Ask, FindFiles, ReadReport, CheckBody, ResolveFiles,
                   LoadLogo, Render, Deliver, Fail, FileGoes, LogoChanges, ProbeRelay, vars, Reach,
                   Refuse
        <3>2. UNCHANGED renderVars
            BY <3>1, TextStays
        <3> HIDE DEF Tags
        <3>3. job.html = Tags
            BY <3>1 DEF MailInv, Tags
        <3> QED
            BY <2>1, <3>1, <3>2, <3>3
    <2> QED
        BY <2>2, <2>3
<1>3. ASSUME stage' = "sent"
      PROVE  mail'.parts = {Part(i) : i \in Refs} /\ (job'.logo => mail'.logo \/ logo' = "none")
    <2>1. CASE Deliver
        <3>1. mail' = [to |-> Chosen.to, parts |-> {Part(i) : i \in Refs},
                       logo |-> job.logo /\ logo = "ok"]
            BY <2>1 DEF Deliver
        <3>2. mail'.parts = {Part(i) : i \in Refs} /\ mail'.logo = (job.logo /\ logo = "ok")
            BY <3>1
        <3>3. job.logo => logo # "bad"
            BY <2>1 DEF Deliver
        <3>4. logo \in {"none", "ok", "bad"} /\ logo' = logo /\ job' = job
            BY <2>1 DEF Deliver, Elsewhere, TypeInv, TypeOK
        <3>5. job'.logo => mail'.logo \/ logo' = "none"
            <4> SUFFICES ASSUME job.logo, logo # "none" PROVE mail'.logo
                BY <3>4
            <4>1. logo = "ok"
                BY <3>3, <3>4
            <4> QED
                BY <3>2, <4>1
        <3> QED
            BY <3>2, <3>5
    <2>2. CASE ~ Deliver
        <3>1. stage = "sent" /\ UNCHANGED <<mail, job, logo, case>>
            BY <1>3, <2>2 DEF Next, Call, Upload, Ask, FindFiles, ReadReport, CheckBody, ResolveFiles,
                   LoadLogo, Render, Enqueue, Fail, FileGoes, LogoChanges, ProbeRelay, vars, Reach,
                   Refuse, Pending, Elsewhere
        <3> QED
            BY <3>1 DEF MailInv
    <2> QED
        BY <2>1, <2>2
<1>4. stage' = "sent" => {Part(i) : i \in Refs}' = {Part(i) : i \in Refs}
    <2>1. stage' = "sent" => job' = job
        BY DEF Next, Call, Upload, Ask, FindFiles, ReadReport, CheckBody, ResolveFiles, LoadLogo,
               Render, Enqueue, Deliver, Fail, FileGoes, LogoChanges, ProbeRelay, vars, Reach, Refuse
    <2> QED
        BY <1>1, <2>1, PartStays
<1> QED
    BY <1>2, <1>3, <1>4 DEF MailInv

LEMMA MailHolds == Spec => [](TypeInv /\ MailInv)
<1>1. Init => TypeInv /\ MailInv
    BY InitReport, TypeInit DEF TypeInv, MailInv, ImagesInv, Init, NoJob, Early, Late
<1>2. TypeInv /\ MailInv /\ [Next]_vars => (TypeInv /\ MailInv)'
    BY ReportStep, ImagesStep, TypeStep, MailStep DEF TypeInv
<1> QED
    BY <1>1, <1>2, PTL DEF Spec

\* Whatever the names, as long as no two files share one: each uploaded file is a
\* part of the mail, and, if the spool keeps the names, inline only if the report
\* refers to it.
THEOREM FilesReachMailHolds == Spec => []FilesReachMail
<1>1. TypeInv /\ MailInv => FilesReachMail
    <2> SUFFICES ASSUME TypeInv, MailInv, stage = "sent", Distinct
                 PROVE  /\ {part.id : part \in mail.parts} = Files
                        /\ NamesKept =>
                            \A part \in mail.parts : part.cid # -1 =>
                                part.id \in BundleIds /\ Entry(part.id) \in Referenced
        BY DEF FilesReachMail
    <2>0. case \in CaseType /\ DOMAIN job.images = Images
        BY DEF TypeInv, ReportInv, ImagesInv, Late
    <2>1. mail.parts = {Part(i) : i \in Files}
        BY <2>0, AllKept DEF MailInv
    <2>2. \A i : Part(i).id = i
        BY DEF Part
    <2>3. {part.id : part \in mail.parts} = Files
        BY <2>1, <2>2
    <2>4. ASSUME NamesKept, NEW i \in Files, Part(i).cid # -1
          PROVE  i \in BundleIds /\ Entry(i) \in Referenced
        <3>1. SpoolName(i) \in Images
            BY <2>0, <2>4 DEF Part
        <3> QED
            BY <2>0, <2>4, <3>1, ImageOfSpoolName
    <2> QED
        BY <2>1, <2>2, <2>3, <2>4
<1> QED
    BY <1>1, MailHolds, PTL

\* Every image of the text is found: the cid its tag was given when the report was
\* read, and which the job keeps until the mail is built, is that of one part of the
\* mail, the file the reference meant. For any number of files and references, and
\* whatever safe_filename does to the names of others.
THEOREM CidsResolveHolds == Spec => []CidsResolve
<1>1. TypeInv /\ MailInv => CidsResolve
    <2> SUFFICES ASSUME TypeInv, MailInv, stage = "sent", Distinct, NamesKept
                 PROVE  /\ \A p \in Embedded :
                            LET cid == job.images[Short[md[p].holds]]
                                found == {part \in mail.parts : part.cid = cid}
                            IN  /\ cid \in job.html
                                /\ \E part \in found :
                                        found = {part} /\ Entry(part.id) = Short[md[p].holds]
                        /\ \A cid \in job.html : \E part \in mail.parts : part.cid = cid
                        /\ job.logo => mail.logo \/ logo = "none"
        BY DEF CidsResolve
    <2>0. case \in CaseType /\ job.images = [n \in Images |-> CidOf(n)]
        BY DEF TypeInv, ReportInv, ImagesInv, Late
    <2>1. mail.parts = {Part(i) : i \in Files}
        BY <2>0, AllKept DEF MailInv
    <2>c. \A n \in Images : job.images[n] = CidOf(n) /\ CidOf(n) \in Nat
        BY <2>0, CidType DEF TypeInv
    <2>2. ASSUME NEW n \in Images
          PROVE  LET found == {part \in mail.parts : part.cid = job.images[n]}
                 IN  \E part \in found : found = {part} /\ Entry(part.id) = n
        <3> DEFINE found == {part \in mail.parts : part.cid = job.images[n]}
        <3>1. PICK k \in BundleIds : n = Entry(k)
            BY DEF Images
        <3>2. k \in Files
            BY <2>0, FileNames
        <3>3. SpoolName(k) = n
            BY <3>1 DEF NamesKept
        <3>4. Part(k) = [id |-> k, cid |-> job.images[n]]
            BY <2>0, <3>3 DEF Part
        <3>5. Part(k) \in found
            BY <2>1, <3>2, <3>4
        <3>6. ASSUME NEW i \in Files, Part(i).cid = job.images[n] PROVE i = k
            <4>1. SpoolName(i) \in Images /\ CidOf(SpoolName(i)) = CidOf(n)
                BY <2>0, <2>c, <3>6 DEF Part
            <4>2. SpoolName(i) = SpoolName(k)
                BY <2>0, <3>3, <4>1, CidInjective
            <4> QED
                BY <3>2, <4>2 DEF Distinct
        <3>7. found = {Part(k)}
            BY <2>1, <3>5, <3>6
        <3>8. Entry(Part(k).id) = n
            BY <3>1, <3>4
        <3> QED
            BY <3>5, <3>7, <3>8
    <2>3. \A p \in Embedded : Short[md[p].holds] \in Images
        BY DEF Embedded
    <2>4. job.html = {job.images[Short[md[p].holds]] : p \in Embedded}
        BY DEF MailInv
    <2>5. ASSUME NEW p \in Embedded
          PROVE  LET cid == job.images[Short[md[p].holds]]
                     found == {part \in mail.parts : part.cid = cid}
                 IN  /\ cid \in job.html
                     /\ \E part \in found : found = {part} /\ Entry(part.id) = Short[md[p].holds]
        BY <2>2, <2>3, <2>4
    <2>6. \A cid \in job.html : \E part \in mail.parts : part.cid = cid
        BY <2>4, <2>5
    <2> QED
        BY <2>5, <2>6 DEF MailInv
<1> QED
    BY <1>1, MailHolds, PTL
-----------------------------------------------------------------------------
(* What a line is: facts of the report's text alone.                       *)

LEMMA FencesType ==
    ASSUME NEW p \in Int
    PROVE  IsFiniteSet({q \in 1 .. p : Kind(q) = "fence"})
           /\ Cardinality({q \in 1 .. p : Kind(q) = "fence"}) \in Nat
<1>1. IsFiniteSet(1 .. p)
    <2>1. 1 \in Int
        OBVIOUS
    <2> QED
        BY <2>1, FS_Interval
<1> QED
    BY <1>1, FS_Subset, FS_CardinalityType

LEMMA FencesNext ==
    ASSUME NEW p \in Nat \ {0}
    PROVE  /\ FencesBefore(p) \in Nat /\ FencesBefore(p + 1) \in Nat
           /\ FencesBefore(p + 1) = IF Kind(p) = "fence" THEN FencesBefore(p) + 1 ELSE FencesBefore(p)
<1> DEFINE F == {q \in 1 .. p - 1 : Kind(q) = "fence"}
           G == {q \in 1 .. p : Kind(q) = "fence"}
<1>1. IsFiniteSet(F) /\ Cardinality(F) \in Nat
    BY FencesType
<1>2. FencesBefore(p) = Cardinality(F) /\ FencesBefore(p + 1) = Cardinality(G)
    <2>1. (p + 1) - 1 = p
        OBVIOUS
    <2> QED
        BY <2>1 DEF FencesBefore
<1>3. CASE Kind(p) = "fence"
    <2>1. G = F \cup {p} /\ p \notin F
        BY <1>3
    <2> HIDE DEF F, G
    <2> QED
        BY <1>1, <1>2, <1>3, <2>1, FS_AddElement
<1>4. CASE Kind(p) # "fence"
    <2>1. G = F
        BY <1>4
    <2> HIDE DEF F, G
    <2> QED
        BY <1>1, <1>2, <1>4, <2>1
<1> QED
    BY <1>3, <1>4

LEMMA FencesNone ==
    ASSUME NEW p \in Nat, \A q \in 1 .. p - 1 : Kind(q) # "fence"
    PROVE  FencesBefore(p) = 0
<1>1. {q \in 1 .. p - 1 : Kind(q) = "fence"} = {}
    OBVIOUS
<1> QED
    BY <1>1, FS_EmptySet DEF FencesBefore

\* The duplicate title and the blank lines around it come before anything else.
LEMMA DroppedFirst ==
    ASSUME RenderTypeOK, NEW p \in Dropped
    PROVE  p \in Lines /\ \A q \in 1 .. p : Kind(q) \in {"title", "blank"}
<1>1. p \in Lines /\ Lines \subseteq Nat /\ Lines = 1 .. Len(md)
    BY PositionType DEF Dropped, DroppedTitle
<1>2. PICK h \in DroppedTitle : h = p \/ (h < p /\ Blank(h + 1, p))
    BY DEF Dropped
<1>3. h \in Lines /\ Kind(h) = "title" /\ Blank(1, h - 1)
    BY <1>2 DEF DroppedTitle
<1>4. ASSUME NEW q \in 1 .. p PROVE Kind(q) \in {"title", "blank"}
    <2>1. q \in 1 .. h - 1 \/ q = h \/ (q \in h + 1 .. p /\ h < p)
        BY <1>1, <1>2, <1>3
    <2>2. ASSUME q \in 1 .. h - 1 PROVE Kind(q) = "blank"
        BY <1>3, <2>2 DEF Blank
    <2>3. ASSUME q \in h + 1 .. p, h < p PROVE Kind(q) = "blank"
        <3>1. p \in Nat /\ h # p
            BY <1>1, <2>3
        <3> QED
            BY <1>2, <2>3, <3>1 DEF Blank
    <2> QED
        BY <1>3, <2>1, <2>2, <2>3
<1> QED
    BY <1>1, <1>4

\* What a line is does not change while the report is read.
LEMMA LineStays ==
    ASSUME md' = md, titled' = titled
    PROVE  /\ Lines' = Lines /\ Dropped' = Dropped
           /\ \A p : /\ Kind(p)' = Kind(p) /\ FencesBefore(p)' = FencesBefore(p)
                     /\ Fenced(p)' = Fenced(p) /\ Unclosed(p)' = Unclosed(p)
                     /\ IsRow(p)' = IsRow(p) /\ SecondRow(p)' = SecondRow(p)
                     /\ TagOf(p)' = TagOf(p) /\ Lost(p)' = Lost(p)
<1>1. Lines' = Lines /\ \A p : Kind(p)' = Kind(p)
    BY DEF Lines, Kind
<1>2. Dropped' = Dropped
    BY <1>1 DEF Dropped, DroppedTitle, Blank
<1>3. \A p : FencesBefore(p)' = FencesBefore(p)
    BY <1>1 DEF FencesBefore
<1>4. \A p : Fenced(p)' = Fenced(p) /\ Unclosed(p)' = Unclosed(p)
    BY <1>1, <1>3 DEF Fenced, Unclosed
<1>5. \A p : IsRow(p)' = IsRow(p)
    BY <1>1, <1>4 DEF IsRow
<1>6. \A p : SecondRow(p)' = SecondRow(p) /\ TagOf(p)' = TagOf(p)
    BY <1>1, <1>4, <1>5 DEF SecondRow, TagOf
<1>7. \A p : Lost(p)' = Lost(p)
    BY <1>1, <1>2, <1>4, <1>6 DEF Lost
<1> QED
    BY <1>1, <1>2, <1>3, <1>4, <1>5, <1>6, <1>7

\* Lines that belong to a block with a tag, and are not lost.
Belong(S, tag) == \A p \in S : p \in Lines /\ TagOf(p) = tag /\ ~ Lost(p)

LEMMA TagOfKinds ==
    ASSUME NEW p
    PROVE  /\ Fenced(p) => TagOf(p) = "pre"
           /\ IsRow(p) => TagOf(p) = "table" /\ ~ Fenced(p) /\ Kind(p) = "row"
           /\ Kind(p) = "item" /\ ~ Fenced(p) => TagOf(p) = "ul"
           /\ Kind(p) \notin {"row", "item"} /\ ~ Fenced(p) => TagOf(p) = "line"
BY DEF TagOf, IsRow

\* A row, an item or a line by itself is lost only as a table's second row.
LEMMA LostOutside ==
    ASSUME RenderTypeOK, NEW p \in Lines, ~ Fenced(p), Kind(p) # "fence"
    PROVE  Lost(p) <=> p \in Dropped \/ SecondRow(p)
BY DEF Lost, Unclosed
-----------------------------------------------------------------------------
(* Which lines are shown, and as what.                                     *)

\* A fence is open after an odd number of them; an open block's lines are code
\* of which none ends it.
CodeInv ==
    LET next == IF at > Len(md) THEN Len(md) + 1 ELSE at
    IN  /\ in_code <=> FencesBefore(next) % 2 = 1
        /\ in_code => \A p \in code_buf :
               Fenced(p) /\ p \notin Dropped /\ \A q \in p + 1 .. next - 1 : Kind(q) # "fence"

\* The open table is the run of rows that ends before the line at hand.
TableInv ==
    /\ \A p \in tbl : /\ IsRow(p) /\ p < at /\ p .. at - 1 \subseteq tbl
                      /\ IsRow(p - 1) => p - 1 \in tbl
    /\ at <= Len(md) + 1 => (IsRow(at - 1) => at - 1 \in tbl)

ListInv == \A p \in list_buf : p \in Lines /\ Kind(p) = "item" /\ ~ Fenced(p)

Fits(s) == \A i \in DOMAIN s : Belong(s[i].of, s[i].tag)
In(s, p) == \E i \in DOMAIN s : p \in s[i].of

\* A line that was read is written, in a buffer, or lost for good.
WrittenInv ==
    /\ Fits(out)
    /\ \A p \in Lines : p < at =>
           In(out, p) \/ p \in tbl \/ p \in list_buf \/ (in_code /\ p \in code_buf) \/ Lost(p)
    /\ Rendered => tbl = {} /\ list_buf = {}

LinesInv == CodeInv /\ TableInv /\ ListInv /\ WrittenInv

LEMMA AppendFits ==
    ASSUME NEW s \in Seq(Block), NEW b \in Block, Fits(s), Belong(b.of, b.tag)
    PROVE  /\ Append(s, b) \in Seq(Block) /\ Fits(Append(s, b))
           /\ \A p : In(Append(s, b), p) <=> In(s, p) \/ p \in b.of
<1>1. /\ Len(s) \in Nat /\ DOMAIN s = 1 .. Len(s)
      /\ DOMAIN Append(s, b) = 1 .. Len(s) + 1
      /\ \A i \in DOMAIN s : Append(s, b)[i] = s[i]
      /\ Append(s, b)[Len(s) + 1] = b
    OBVIOUS
<1>2. DOMAIN Append(s, b) = DOMAIN s \cup {Len(s) + 1}
    BY <1>1
<1>3. Fits(Append(s, b))
    BY <1>1, <1>2 DEF Fits
<1>4. ASSUME NEW p PROVE In(Append(s, b), p) <=> In(s, p) \/ p \in b.of
    BY <1>1, <1>2 DEF In
<1> QED
    BY <1>3, <1>4

\* The row that _table takes for the separator is the second of its run.
LEMMA SecondIsSecondRow ==
    ASSUME RenderTypeOK, TableInv, NEW q \in tbl
    PROVE  q \in Second(tbl) <=> SecondRow(q)
<1> DEFINE above == {p \in tbl : p < q}
<1>0. /\ tbl \subseteq Lines /\ at \in Nat /\ q \in Nat /\ \A p \in tbl : p \in Nat
      /\ Len(md) \in Nat
    BY PositionType DEF RenderTypeOK
<1>1. q < at /\ IsRow(q)
    BY DEF TableInv
<1>2. IsFiniteSet(above)
    <2>1. 1 \in Int /\ Len(md) \in Int /\ tbl \subseteq 1 .. Len(md)
        BY <1>0 DEF Lines
    <2> QED
        BY <2>1, FS_Interval, FS_Subset
<1>3. \A p \in above : q - 1 \in above /\ (p # q - 1 => q - 2 \in above)
    <2> SUFFICES ASSUME NEW p \in above
                 PROVE  q - 1 \in above /\ (p # q - 1 => q - 2 \in above)
        OBVIOUS
    <2>1. p \in Nat /\ p < q /\ p .. at - 1 \subseteq tbl
        BY <1>0 DEF TableInv
    <2>2. q - 1 \in p .. at - 1 /\ (p # q - 1 => q - 2 \in p .. at - 1)
        BY <1>0, <1>1, <2>1
    <2> QED
        BY <1>0, <2>1, <2>2
<1>4. ASSUME SecondRow(q) PROVE q \in Second(tbl)
    <2>1. q - 1 \in tbl /\ q - 2 \notin tbl
        BY <1>4 DEF SecondRow, TableInv
    <2>2. above = {q - 1}
        <3>1. q - 1 \in above
            BY <1>0, <2>1
        <3>2. \A p \in above : p = q - 1
            BY <1>3, <2>1
        <3> HIDE DEF above
        <3> QED
            BY <3>1, <3>2
    <2>3. Cardinality(above) = 1
        BY <2>2, FS_Singleton
    <2> QED
        BY <2>3 DEF Second
<1>5. ASSUME q \in Second(tbl) PROVE SecondRow(q)
    <2>1. Cardinality(above) = 1
        BY <1>5 DEF Second
    <2>2. PICK p : above = {p}
        BY <1>2, <2>1, FS_Singleton
    <2>3. q - 1 \in above
        BY <1>3, <2>2
    <2>4. p = q - 1
        BY <2>2, <2>3
    <2>5. q - 2 \notin above
        BY <1>0, <2>2, <2>4
    <2>6. q - 2 < q /\ q - 1 - 1 = q - 2
        BY <1>0
    <2>7. q - 1 \in tbl /\ q - 2 \notin tbl
        BY <2>3, <2>5, <2>6
    <2>8. IsRow(q - 1) /\ ~ IsRow(q - 2)
        BY <2>6, <2>7 DEF TableInv
    <2> QED
        BY <1>1, <2>8 DEF SecondRow
<1> QED
    BY <1>4, <1>5

LEMMA FlushTableFits ==
    ASSUME RenderTypeOK, TableInv, NEW s \in Seq(Block), Fits(s)
    PROVE  /\ FlushTable(s) \in Seq(Block) /\ Fits(FlushTable(s))
           /\ \A p : In(s, p) \/ p \in tbl => In(FlushTable(s), p) \/ Lost(p)
<1>1. CASE tbl = {}
    BY <1>1 DEF FlushTable
<1>2. CASE tbl # {}
    <2>1. PICK b : b = [tag |-> "table", of |-> tbl \ Second(tbl)]
        OBVIOUS
    <2>2. /\ b \in Block /\ b.tag = "table" /\ b.of = tbl \ Second(tbl)
          /\ FlushTable(s) = Append(s, b)
        BY <1>2, <2>1 DEF Block, FlushTable, RenderTypeOK
    <2>3. ASSUME NEW p \in tbl, p \notin Second(tbl)
          PROVE  p \in Lines /\ TagOf(p) = "table" /\ ~ Lost(p)
        <3>1. IsRow(p) /\ ~ SecondRow(p)
            BY <2>3, SecondIsSecondRow DEF TableInv
        <3>2. p \in Lines /\ TagOf(p) = "table" /\ ~ Fenced(p) /\ Kind(p) = "row"
            BY <3>1, TagOfKinds DEF IsRow
        <3>3. p \notin Dropped
            <4> SUFFICES ASSUME p \in Dropped PROVE FALSE
                OBVIOUS
            <4>1. p \in Nat /\ p \in 1 .. p
                BY <3>2, PositionType
            <4> QED
                BY <3>2, <4>1, DroppedFirst
        <3> QED
            BY <3>1, <3>2, <3>3, LostOutside
    <2>4. Belong(b.of, b.tag)
        BY <2>2, <2>3 DEF Belong
    <2>5. \A p \in tbl : p \in Second(tbl) => Lost(p)
        BY SecondIsSecondRow DEF Lost
    <2> QED
        BY <2>2, <2>4, <2>5, AppendFits
<1> QED
    BY <1>1, <1>2

LEMMA FlushListFits ==
    ASSUME RenderTypeOK, ListInv, NEW s \in Seq(Block), Fits(s)
    PROVE  /\ FlushList(s) \in Seq(Block) /\ Fits(FlushList(s))
           /\ \A p : In(s, p) \/ p \in list_buf => In(FlushList(s), p)
<1>1. CASE list_buf = {}
    BY <1>1 DEF FlushList
<1>2. CASE list_buf # {}
    <2>1. PICK b : b = [tag |-> "ul", of |-> list_buf]
        OBVIOUS
    <2>2. /\ b \in Block /\ b.tag = "ul" /\ b.of = list_buf
          /\ FlushList(s) = Append(s, b)
        BY <1>2, <2>1 DEF Block, FlushList, RenderTypeOK
    <2>3. ASSUME NEW p \in list_buf PROVE p \in Lines /\ TagOf(p) = "ul" /\ ~ Lost(p)
        <3>1. p \in Lines /\ Kind(p) = "item" /\ ~ Fenced(p) /\ TagOf(p) = "ul"
            BY TagOfKinds DEF ListInv
        <3>2. p \notin Dropped
            <4> SUFFICES ASSUME p \in Dropped PROVE FALSE
                OBVIOUS
            <4>1. p \in Nat /\ p \in 1 .. p
                BY <3>1, PositionType
            <4> QED
                BY <3>1, <4>1, DroppedFirst
        <3>3. ~ SecondRow(p)
            BY <3>1 DEF SecondRow, IsRow
        <3> QED
            BY <3>1, <3>2, <3>3, LostOutside
    <2>4. Belong(b.of, b.tag)
        BY <2>2, <2>3 DEF Belong
    <2> QED
        BY <2>2, <2>4, AppendFits
<1> QED
    BY <1>1, <1>2

LEMMA FlushBothFits ==
    ASSUME RenderTypeOK, LinesInv
    PROVE  LET s == FlushList(FlushTable(out))
           IN  /\ s \in Seq(Block) /\ Fits(s)
               /\ \A p : In(out, p) \/ p \in tbl \/ p \in list_buf => In(s, p) \/ Lost(p)
<1>1. out \in Seq(Block) /\ Fits(out)
    BY DEF RenderTypeOK, LinesInv, WrittenInv
<1>2. PICK s : s = FlushTable(out)
    OBVIOUS
<1>3. /\ s \in Seq(Block) /\ Fits(s)
      /\ \A p : In(out, p) \/ p \in tbl => In(s, p) \/ Lost(p)
    BY <1>1, <1>2, FlushTableFits DEF LinesInv
<1>4. /\ FlushList(s) \in Seq(Block) /\ Fits(FlushList(s))
      /\ \A p : In(s, p) \/ p \in list_buf => In(FlushList(s), p)
    BY <1>3, FlushListFits DEF LinesInv
<1> QED
    BY <1>2, <1>3, <1>4

LEMMA LineTypes ==
    ASSUME RenderTypeOK
    PROVE  /\ Len(md) \in Nat /\ at \in Nat \ {0} /\ Lines = 1 .. Len(md) /\ Lines \subseteq Nat
           /\ out \in Seq(Block) /\ tbl \subseteq Lines /\ list_buf \subseteq Lines
           /\ code_buf \subseteq Lines
BY PositionType DEF RenderTypeOK

LEMMA NotEnd ==
    ASSUME RenderTypeOK, at \in Lines
    PROVE  ~ End
<1>1. at # Len(md) + 1
    BY LineTypes
<1> QED
    BY <1>1 DEF End

\* Every step moves to the next line; all but the last read one.
LEMMA NextLine ==
    ASSUME RenderTypeOK, CodeInv, ReadLine
    PROVE  /\ at' = at + 1 /\ md' = md /\ titled' = titled
           /\ End \/ /\ at \in Lines /\ at <= Len(md) /\ ~ at > Len(md)
                     /\ in_code <=> FencesBefore(at) % 2 = 1
                     /\ Fenced(at) <=> in_code /\ Kind(at) # "fence"
<1>1. at' = at + 1 /\ md' = md /\ titled' = titled
    BY DEF ReadLine, DropLine, OpenFence, CloseFence, CodeLine, Row, Item, Single, End, Advance
<1>2. End \/ at \in Lines
    BY DEF ReadLine, DropLine, OpenFence, CloseFence, CodeLine, Row, Item, Single, At, Dropped,
           DroppedTitle
<1>3. ASSUME at \in Lines
      PROVE  /\ at <= Len(md) /\ ~ at > Len(md)
             /\ in_code <=> FencesBefore(at) % 2 = 1
    <2>1. at <= Len(md) /\ ~ at > Len(md)
        BY <1>3, LineTypes
    <2> QED
        BY <2>1 DEF CodeInv
<1> QED
    BY <1>1, <1>2, <1>3 DEF Fenced

LEMMA CodeStep ==
    ASSUME RenderTypeOK, CodeInv, ReadLine
    PROVE  CodeInv'
<1>0. Len(md) \in Nat /\ at \in Nat \ {0} /\ Lines = 1 .. Len(md) /\ code_buf \subseteq Lines
    BY LineTypes
<1>1. at' = at + 1 /\ md' = md
    BY NextLine
<1>2. /\ Dropped' = Dropped
      /\ \A p : Kind(p)' = Kind(p) /\ FencesBefore(p)' = FencesBefore(p) /\ Fenced(p)' = Fenced(p)
    BY NextLine, LineStays
<1>3. CASE End
    <2>1. at > Len(md) /\ at' > Len(md) /\ UNCHANGED <<in_code, code_buf>>
        BY <1>0, <1>1, <1>3 DEF End
    <2>2. Len(md') = Len(md) /\ at' > Len(md')
        BY <1>1, <2>1
    <2> QED
        BY <1>2, <2>1, <2>2 DEF CodeInv
<1>4. CASE ~ End
    <2>1. /\ at \in Lines /\ at <= Len(md)
          /\ in_code <=> FencesBefore(at) % 2 = 1
          /\ Fenced(at) <=> in_code /\ Kind(at) # "fence"
        BY <1>4, NextLine
    <2> DEFINE next == IF at > Len(md) THEN Len(md) + 1 ELSE at
    <2>2. next = at /\ next' = at + 1
        BY <1>0, <1>1, <2>1
    <2>3. /\ FencesBefore(at) \in Nat
          /\ FencesBefore(at + 1) = IF Kind(at) = "fence" THEN FencesBefore(at) + 1
                                                            ELSE FencesBefore(at)
        BY <1>0, FencesNext
    <2>4. FencesBefore(next)' = FencesBefore(at + 1)
        BY <1>2, <2>2
    <2>5. in_code' <=> FencesBefore(at + 1) % 2 = 1
        <3>1. CASE OpenFence
            BY <2>1, <2>3, <3>1 DEF OpenFence, At
        <3>2. CASE CloseFence
            BY <2>1, <2>3, <3>2 DEF CloseFence, At
        <3>3. CASE DropLine
            <4>1. at \in Dropped /\ in_code' = in_code
                BY <3>3 DEF DropLine
            <4>2. Kind(at) # "fence"
                <5>1. at \in 1 .. at
                    BY <1>0
                <5> QED
                    BY <4>1, <5>1, DroppedFirst
            <4> QED
                BY <2>1, <2>3, <4>1, <4>2
        <3>4. CASE CodeLine \/ Row \/ Item \/ Single
            <4>1. Kind(at) # "fence" /\ in_code' = in_code
                BY <3>4 DEF CodeLine, Row, Item, Single, At
            <4> QED
                BY <2>1, <2>3, <4>1
        <3> QED
            BY <1>4, <3>1, <3>2, <3>3, <3>4 DEF ReadLine
    <2>6. ASSUME in_code', NEW p \in code_buf', NEW q \in p + 1 .. at
          PROVE  Kind(q) # "fence"
        <3>1. CASE CodeLine
            <4>1. /\ in_code /\ code_buf' = code_buf \cup {at} /\ Kind(at) # "fence"
                BY <3>1 DEF CodeLine, At
            <4>2. CASE p = at
                BY <1>0, <4>2
            <4>3. CASE p \in code_buf
                <5>1. \A r \in p + 1 .. at - 1 : Kind(r) # "fence"
                    BY <2>2, <4>1, <4>3 DEF CodeInv
                <5>2. q = at \/ q \in p + 1 .. at - 1
                    BY <1>0, <4>3
                <5> QED
                    BY <4>1, <5>1, <5>2
            <4> QED
                BY <4>1, <4>2, <4>3
        <3>2. CASE DropLine
            <4>1. at \in Dropped /\ in_code /\ p \in code_buf
                BY <2>6, <3>2 DEF DropLine
            <4>2. \A r \in 1 .. at : Kind(r) # "fence"
                BY <4>1, DroppedFirst
            <4>3. FencesBefore(at) = 0
                BY <1>0, <4>2, FencesNone
            <4> QED
                BY <2>1, <4>1, <4>3
        <3>3. CASE OpenFence
            BY <2>6, <3>3 DEF OpenFence
        <3>4. CASE CloseFence
            BY <2>6, <3>4 DEF CloseFence
        <3>5. CASE Row \/ Item \/ Single
            BY <2>6, <3>5 DEF Row, Item, Single
        <3> QED
            BY <1>4, <3>1, <3>2, <3>3, <3>4, <3>5 DEF ReadLine
    <2>7. ASSUME in_code', NEW p \in code_buf' PROVE Fenced(p) /\ p \notin Dropped
        <3>1. CASE CodeLine
            BY <2>1, <2>2, <3>1 DEF CodeLine, At, CodeInv
        <3>2. CASE DropLine
            BY <2>7, <3>2 DEF DropLine, CodeInv
        <3>3. CASE OpenFence \/ CloseFence
            BY <2>7, <3>3 DEF OpenFence, CloseFence
        <3>4. CASE Row \/ Item \/ Single
            BY <2>7, <3>4 DEF Row, Item, Single
        <3> QED
            BY <1>4, <3>1, <3>2, <3>3, <3>4 DEF ReadLine
    <2> HIDE DEF next
    <2>8. next' - 1 = at
        BY <1>0, <2>2
    <2>9. in_code' => \A p \in code_buf' :
              /\ Fenced(p)' /\ p \notin Dropped'
              /\ \A q \in p + 1 .. next' - 1 : Kind(q)' # "fence"
        BY <1>2, <2>6, <2>7, <2>8
    <2> QED
        BY <2>4, <2>5, <2>9 DEF CodeInv, next
<1> QED
    BY <1>3, <1>4

LEMMA TableStep ==
    ASSUME OrderInv, CodeInv, TableInv, ReadLine
    PROVE  TableInv'
<1>0. /\ RenderTypeOK /\ Len(md) \in Nat /\ at \in Nat \ {0} /\ Lines = 1 .. Len(md)
      /\ tbl \subseteq Lines
      /\ \A p \in tbl : p \in Nat
    BY LineTypes DEF OrderInv
<1>1. at' = at + 1 /\ md' = md /\ \A p : IsRow(p)' = IsRow(p)
    BY <1>0, NextLine, LineStays
<1>2. CASE Row
    <2>1. /\ ~ in_code /\ tbl' = tbl \cup {at} /\ at \in Lines /\ Kind(at) = "row"
        BY <1>2 DEF Row, At
    <2>2. at <= Len(md) /\ IsRow(at)
        <3>1. ~ End
            BY <1>0, <2>1, NotEnd
        <3> QED
            BY <1>0, <2>1, <3>1, NextLine DEF IsRow
    <2>3. ASSUME NEW p \in tbl'
          PROVE  /\ IsRow(p) /\ p < at + 1 /\ p .. at \subseteq tbl'
                 /\ IsRow(p - 1) => p - 1 \in tbl'
        <3>1. CASE p = at
            <4>1. p .. at \subseteq {at} /\ p < at + 1
                BY <1>0, <3>1
            <4>2. IsRow(at - 1) => at - 1 \in tbl
                BY <1>0, <2>2 DEF TableInv
            <4> QED
                BY <2>1, <2>2, <3>1, <4>1, <4>2
        <3>2. CASE p \in tbl
            <4>1. /\ IsRow(p) /\ p < at /\ p .. at - 1 \subseteq tbl
                  /\ IsRow(p - 1) => p - 1 \in tbl
                BY <3>2 DEF TableInv
            <4>2. p < at + 1 /\ p .. at \subseteq (p .. at - 1) \cup {at}
                BY <1>0, <3>2, <4>1
            <4> QED
                BY <2>1, <4>1, <4>2
        <3> QED
            BY <2>1, <3>1, <3>2
    <2>4. at' - 1 = at /\ at \in tbl'
        BY <1>0, <1>1, <2>1
    <2> QED
        BY <1>1, <2>3, <2>4 DEF TableInv
<1>3. CASE ~ Row
    <2>1. tbl' = {} \/ tbl' = tbl
        BY <1>3 DEF ReadLine, DropLine, OpenFence, CloseFence, CodeLine, Item, Single, End
    <2>2. ~ IsRow(at)
        <3>1. CASE DropLine
            <4>1. at \in 1 .. at /\ at \in Dropped
                BY <1>0, <3>1 DEF DropLine
            <4>2. Kind(at) # "row"
                BY <1>0, <4>1, DroppedFirst
            <4> QED
                BY <4>2 DEF IsRow
        <3>2. CASE CodeLine
            <4>1. in_code /\ at \in Lines /\ Kind(at) # "fence"
                BY <3>2 DEF CodeLine, At
            <4>2. ~ End
                BY <1>0, <4>1, NotEnd
            <4> QED
                BY <1>0, <4>1, <4>2, NextLine DEF IsRow
        <3>3. CASE OpenFence \/ CloseFence \/ Item \/ Single
            <4>1. Kind(at) # "row"
                BY <3>3 DEF OpenFence, CloseFence, Item, Single, At
            <4> QED
                BY <4>1 DEF IsRow
        <3>4. CASE End
            BY <1>0, <3>4 DEF End, IsRow
        <3> QED
            BY <1>3, <3>1, <3>2, <3>3, <3>4 DEF ReadLine
    <2>3. tbl' = {}
        <3> SUFFICES ASSUME tbl' = tbl, NEW p \in tbl PROVE FALSE
            BY <2>1
        <3>1. IsRow(p) /\ p < at /\ p .. at - 1 \subseteq tbl
            BY DEF TableInv
        <3>2. CASE DropLine
            <4>1. p \in 1 .. at /\ at \in Dropped
                BY <1>0, <3>1, <3>2 DEF DropLine
            <4>2. Kind(p) # "row"
                BY <1>0, <4>1, DroppedFirst
            <4> QED
                BY <3>1, <4>2 DEF IsRow
        <3>3. CASE CloseFence \/ CodeLine
            BY <3>3 DEF CloseFence, CodeLine, OrderInv
        <3>4. CASE OpenFence \/ Item \/ Single \/ End
            BY <3>4 DEF OpenFence, Item, Single, End
        <3> QED
            BY <1>3, <3>2, <3>3, <3>4 DEF ReadLine
    <2>4. at' - 1 = at
        BY <1>0, <1>1
    <2> QED
        BY <1>1, <2>2, <2>3, <2>4 DEF TableInv
<1> QED
    BY <1>2, <1>3

LEMMA ListStep ==
    ASSUME RenderTypeOK, CodeInv, ListInv, ReadLine
    PROVE  ListInv'
<1>1. Lines' = Lines /\ \A p : Kind(p)' = Kind(p) /\ Fenced(p)' = Fenced(p)
    BY NextLine, LineStays
<1>2. CASE Item
    <2>1. ~ in_code /\ list_buf' = list_buf \cup {at} /\ at \in Lines /\ Kind(at) = "item"
        BY <1>2 DEF Item, At
    <2>2. ~ Fenced(at)
        <3>1. ~ End
            BY <2>1, NotEnd
        <3> QED
            BY <2>1, <3>1, NextLine
    <2> QED
        BY <1>1, <2>1, <2>2 DEF ListInv
<1>3. CASE ~ Item
    <2>1. list_buf' = {} \/ list_buf' = list_buf
        BY <1>3 DEF ReadLine, DropLine, OpenFence, CloseFence, CodeLine, Row, Single, End
    <2> QED
        BY <1>1, <2>1 DEF ListInv
<1> QED
    BY <1>2, <1>3

\* The code block that is closed shows code, and none of it is lost.
LEMMA CodeBelongs ==
    ASSUME OrderInv, CodeInv, CloseFence
    PROVE  Belong(code_buf, "pre")
<1> SUFFICES ASSUME NEW p \in code_buf PROVE p \in Lines /\ TagOf(p) = "pre" /\ ~ Lost(p)
    BY DEF Belong
<1>1. Len(md) \in Nat /\ at \in Nat \ {0} /\ Lines = 1 .. Len(md) /\ p \in Lines
    BY LineTypes DEF OrderInv
<1>2. in_code /\ at \in Lines /\ Kind(at) = "fence"
    BY DEF CloseFence, At
<1>3. Fenced(p) /\ p \notin Dropped /\ p < at
    BY <1>2 DEF CodeInv, OrderInv
<1>4. at \in p + 1 .. Len(md)
    BY <1>1, <1>2, <1>3
<1>5. ~ Unclosed(p)
    BY <1>2, <1>4 DEF Unclosed
<1>6. ~ SecondRow(p) /\ Kind(p) # "fence"
    BY <1>3 DEF SecondRow, IsRow, Fenced
<1> QED
    BY <1>1, <1>3, <1>5, <1>6, TagOfKinds DEF Lost

\* A heading, rule, quote, blank line or paragraph is shown as a line.
LEMMA SingleBelongs ==
    ASSUME RenderTypeOK, CodeInv, Single
    PROVE  Belong({at}, "line")
<1>1. ~ in_code /\ at \in Lines /\ at \notin Dropped /\ Kind(at) \notin {"fence", "row", "item"}
    BY DEF Single, At
<1>2. ~ Fenced(at)
    BY <1>1, NotEnd, NextLine DEF ReadLine
<1>3. TagOf(at) = "line" /\ ~ SecondRow(at)
    BY <1>1, <1>2, TagOfKinds DEF SecondRow, IsRow
<1>4. ~ Lost(at)
    BY <1>1, <1>2, <1>3, LostOutside
<1> QED
    BY <1>1, <1>3, <1>4 DEF Belong

\* The invariant of the next line, in terms of this one's text.
LEMMA WrittenNext ==
    ASSUME RenderTypeOK, CodeInv, ReadLine, Fits(out'),
           \A p \in Lines : p < at \/ p = at =>
               In(out', p) \/ p \in tbl' \/ p \in list_buf' \/ (in_code' /\ p \in code_buf') \/ Lost(p),
           End => tbl' = {} /\ list_buf' = {}
    PROVE  WrittenInv'
<1>1. at' = at + 1 /\ md' = md /\ titled' = titled
    BY NextLine
<1>2. Lines' = Lines /\ \A p : TagOf(p)' = TagOf(p) /\ Lost(p)' = Lost(p)
    BY NextLine, LineStays
<1>3. Fits(out)'
    BY <1>2 DEF Fits, Belong
<1>4. \A p : In(out, p)' = In(out', p)
    BY DEF In
<1>5. \A p \in Lines : p < at + 1 => p < at \/ p = at
    BY LineTypes
<1>6. Rendered' => tbl' = {} /\ list_buf' = {}
    <2>1. at \in Lines => at + 1 # Len(md) + 2
        BY LineTypes
    <2> QED
        BY <1>1, <2>1, NextLine DEF Rendered
<1> QED
    BY <1>1, <1>2, <1>3, <1>4, <1>5, <1>6 DEF WrittenInv

LEMMA WrittenStep ==
    ASSUME OrderInv, LinesInv, ReadLine
    PROVE  WrittenInv'
<1> DEFINE flushed == FlushList(FlushTable(out))
           Kept(p) == In(out', p) \/ p \in tbl' \/ p \in list_buf' \/ (in_code' /\ p \in code_buf')
                        \/ Lost(p)
<1>0. /\ RenderTypeOK /\ CodeInv /\ TableInv /\ ListInv
      /\ out \in Seq(Block) /\ Fits(out) /\ code_buf \subseteq 1 .. Len(md)
    BY LineTypes DEF OrderInv, LinesInv, WrittenInv, RenderTypeOK
<1>1. \A p \in Lines : p < at =>
          In(out, p) \/ p \in tbl \/ p \in list_buf \/ (in_code /\ p \in code_buf) \/ Lost(p)
    BY DEF LinesInv, WrittenInv
<1>2. flushed \in Seq(Block) /\ Fits(flushed)
      /\ \A p : In(out, p) \/ p \in tbl \/ p \in list_buf => In(flushed, p) \/ Lost(p)
    BY <1>0, FlushBothFits
<1> HIDE DEF flushed
<1> SUFFICES /\ Fits(out')
             /\ \A p \in Lines : p < at \/ p = at => Kept(p)
             /\ End => tbl' = {} /\ list_buf' = {}
    BY <1>0, WrittenNext
<1>3. End => tbl' = {} /\ list_buf' = {}
    BY DEF End
<1>4. CASE DropLine
    <2>1. UNCHANGED <<in_code, code_buf, tbl, list_buf, out>> /\ Lost(at)
        BY <1>4 DEF DropLine, Lost
    <2> QED
        BY <1>0, <1>1, <1>3, <2>1
<1>5. CASE OpenFence
    <2>1. ~ in_code /\ out' = flushed /\ Lost(at)
        BY <1>5 DEF OpenFence, flushed, At, Lost
    <2> QED
        BY <1>1, <1>2, <1>3, <2>1
<1>6. CASE CloseFence
    <2>1. /\ out' = Append(out, [tag |-> "pre", of |-> code_buf]) /\ Lost(at)
          /\ UNCHANGED <<tbl, list_buf>>
        BY <1>6 DEF CloseFence, At, Lost
    <2>2. PICK b : b = [tag |-> "pre", of |-> code_buf]
        OBVIOUS
    <2>3. b \in Block /\ b.of = code_buf /\ b.tag = "pre"
        <3>1. code_buf \subseteq Nat
            BY <1>0, LineTypes
        <3> QED
            BY <2>2, <3>1 DEF Block
    <2>4. Fits(out') /\ \A p : In(out', p) <=> In(out, p) \/ p \in code_buf
        BY <1>0, <1>6, <2>1, <2>2, <2>3, AppendFits, CodeBelongs
    <2> QED
        BY <1>1, <1>3, <2>1, <2>4
<1>7. CASE CodeLine
    <2>1. /\ in_code' = in_code /\ in_code /\ code_buf' = code_buf \cup {at}
          /\ UNCHANGED <<tbl, list_buf, out>>
        BY <1>7 DEF CodeLine
    <2> QED
        BY <1>0, <1>1, <1>3, <2>1
<1>8. CASE Row
    <2>1. /\ ~ in_code /\ out' = FlushList(out) /\ tbl' = tbl \cup {at}
        BY <1>8 DEF Row
    <2>2. Fits(out') /\ \A p : In(out, p) \/ p \in list_buf => In(out', p)
        BY <1>0, <2>1, FlushListFits
    <2> QED
        BY <1>1, <1>3, <2>1, <2>2
<1>9. CASE Item
    <2>1. /\ ~ in_code /\ out' = FlushTable(out) /\ list_buf' = list_buf \cup {at}
        BY <1>9 DEF Item
    <2>2. Fits(out') /\ \A p : In(out, p) \/ p \in tbl => In(out', p) \/ Lost(p)
        BY <1>0, <2>1, FlushTableFits
    <2> QED
        BY <1>1, <1>3, <2>1, <2>2
<1>10. CASE Single
    <2>1. ~ in_code /\ out' = Append(flushed, [tag |-> "line", of |-> {at}]) /\ at \in Lines
        BY <1>10 DEF Single, flushed, At
    <2>2. PICK b : b = [tag |-> "line", of |-> {at}]
        OBVIOUS
    <2>3. b \in Block /\ b.of = {at} /\ b.tag = "line"
        <3>1. at \in Nat
            BY <1>0, LineTypes
        <3> QED
            BY <2>2, <3>1 DEF Block
    <2>4. Fits(out') /\ \A p : In(out', p) <=> In(flushed, p) \/ p \in {at}
        BY <1>0, <1>2, <1>10, <2>1, <2>2, <2>3, AppendFits, SingleBelongs
    <2> QED
        BY <1>1, <1>2, <1>3, <2>1, <2>4
<1>11. CASE End
    <2>1. out' = flushed /\ in_code' = in_code /\ code_buf' = code_buf
        BY <1>11 DEF End, flushed
    <2>2. at \notin Lines
        BY <1>0, <1>11, NotEnd
    <2> QED
        BY <1>1, <1>2, <1>3, <2>1, <2>2
<1> QED
    BY <1>4, <1>5, <1>6, <1>7, <1>8, <1>9, <1>10, <1>11 DEF ReadLine

LEMMA LinesInit == Init => LinesInv
<1> SUFFICES ASSUME Init PROVE LinesInv
    OBVIOUS
<1>0. /\ at = 1 /\ in_code = FALSE /\ code_buf = {} /\ tbl = {} /\ list_buf = {} /\ out = <<>>
    BY DEF Init, RenderInit
<1>1. RenderTypeOK /\ Len(md) \in Nat /\ Lines = 1 .. Len(md)
    BY InitReport, LineTypes DEF ReportInv, OrderInv
<1>2. CodeInv
    <2>1. (IF at > Len(md) THEN Len(md) + 1 ELSE at) = 1
        BY <1>0, <1>1
    <2>2. \A q \in 1 .. 1 - 1 : Kind(q) # "fence"
        OBVIOUS
    <2>3. FencesBefore(1) = 0
        BY <2>2, FencesNone
    <2> QED
        BY <1>0, <2>1, <2>3 DEF CodeInv
<1>3. TableInv
    <2>1. at - 1 \notin Lines
        BY <1>0, <1>1
    <2> QED
        BY <1>0, <2>1 DEF TableInv, IsRow
<1>4. WrittenInv
    <2>1. \A p \in Lines : ~ p < at
        BY <1>0, <1>1
    <2> QED
        BY <1>0, <2>1 DEF WrittenInv, Fits
<1> QED
    BY <1>0, <1>2, <1>3, <1>4 DEF LinesInv, ListInv

LEMMA LinesStay ==
    ASSUME LinesInv, UNCHANGED renderVars
    PROVE  LinesInv'
<1>1. /\ UNCHANGED <<md, titled, at, in_code, code_buf, tbl, list_buf, out>>
    BY DEF renderVars
<1>2. /\ Lines' = Lines /\ Dropped' = Dropped
      /\ \A p : /\ Kind(p)' = Kind(p) /\ FencesBefore(p)' = FencesBefore(p)
                /\ Fenced(p)' = Fenced(p) /\ IsRow(p)' = IsRow(p)
                /\ TagOf(p)' = TagOf(p) /\ Lost(p)' = Lost(p)
    BY <1>1, LineStays
<1>3. CodeInv'
    BY <1>1, <1>2 DEF LinesInv, CodeInv
<1>4. TableInv'
    BY <1>1, <1>2 DEF LinesInv, TableInv
<1>5. ListInv'
    BY <1>1, <1>2 DEF LinesInv, ListInv
<1>6. WrittenInv'
    BY <1>1, <1>2 DEF LinesInv, WrittenInv, Fits, Belong, In, Rendered
<1> QED
    BY <1>3, <1>4, <1>5, <1>6 DEF LinesInv

LEMMA LinesHold == Spec => [](ReportInv /\ LinesInv)
<1>1. Init => ReportInv /\ LinesInv
    BY InitReport, LinesInit
<1>2. ReportInv /\ LinesInv /\ [Next]_vars => (ReportInv /\ LinesInv)'
    <2> SUFFICES ASSUME ReportInv, LinesInv, [Next]_vars PROVE LinesInv'
        BY ReportStep
    <2>1. CASE UNCHANGED renderVars
        BY <2>1, LinesStay
    <2>2. CASE ReadLine
        <3>1. OrderInv /\ RenderTypeOK
            BY DEF ReportInv, OrderInv
        <3>2. CodeInv' /\ TableInv' /\ ListInv' /\ WrittenInv'
            BY <2>2, <3>1, CodeStep, TableStep, ListStep, WrittenStep DEF LinesInv
        <3> QED
            BY <3>2 DEF LinesInv
    <2> QED
        BY <2>1, <2>2, TextStays
<1> QED
    BY <1>1, <1>2, PTL DEF Spec

\* What the mail shows, of a report of any length: every line as what it is, and
\* exactly the lines that are not lost for one of the named reasons.
THEOREM LinesShownHolds == Spec => []LinesShown
<1>1. ReportInv /\ LinesInv => LinesShown
    <2> SUFFICES ASSUME ReportInv, LinesInv PROVE LinesShown
        OBVIOUS
    <2>0. RenderTypeOK /\ Len(md) \in Nat /\ Lines = 1 .. Len(md)
        BY LineTypes DEF ReportInv, OrderInv
    <2>1. \A i \in DOMAIN out : \A p \in out[i].of :
              p \in Lines /\ out[i].tag = TagOf(p) /\ ~ Lost(p)
        BY DEF LinesInv, WrittenInv, Fits, Belong
    <2>2. ASSUME Rendered, NEW p \in Lines, ~ Lost(p) PROVE Shown(p)
        <3>1. at = Len(md) + 2 /\ p < at /\ at > Len(md)
            BY <2>0, <2>2 DEF Rendered
        <3>2. In(out, p) \/ (in_code /\ p \in code_buf)
            BY <2>2, <3>1 DEF LinesInv, WrittenInv
        <3>3. ASSUME in_code, p \in code_buf PROVE Unclosed(p)
            <4>1. Fenced(p) /\ \A q \in p + 1 .. Len(md) + 1 - 1 : Kind(q) # "fence"
                BY <3>1, <3>3 DEF LinesInv, CodeInv
            <4>2. Len(md) + 1 - 1 = Len(md)
                BY <2>0
            <4> QED
                BY <4>1, <4>2 DEF Unclosed
        <3> QED
            BY <2>2, <3>2, <3>3 DEF Lost, In, Shown
    <2> QED
        BY <2>1, <2>2 DEF LinesShown, Shown
<1> QED
    BY <1>1, LinesHold, PTL
-----------------------------------------------------------------------------
(* Placeholders.                                                           *)

Accepted == {"checked", "resolved", "rendering", "queued", "sent", "failed"}

\* What the regular expression found decides, and the text stays as it was.
BodyInv ==
    /\ stage \in Accepted => Unresolved = {}
    /\ error = "placeholder" => Unresolved # {}

LEMMA BodyStep == BodyInv /\ [Next]_vars => BodyInv'
<1> SUFFICES ASSUME BodyInv, [Next]_vars PROVE BodyInv'
    OBVIOUS
<1>1. Unresolved' = Unresolved
    <2>1. md' = md
        BY TextStays
    <2> QED
        BY <2>1 DEF Unresolved, Skipped, Ticks, Lines, Kind
<1>2. CASE CheckBody
    BY <1>1, <1>2 DEF CheckBody, Reach, Refuse, BodyInv, Accepted
<1>3. CASE ~ CheckBody
    <2>1. /\ stage' \in Accepted => stage \in Accepted
          /\ error' = "placeholder" => error = "placeholder"
        BY <1>3 DEF Next, Call, Upload, Ask, FindFiles, ReadReport, ResolveFiles, LoadLogo, Render,
               Enqueue, Deliver, Fail, FileGoes, LogoChanges, ProbeRelay, vars, Reach, Refuse,
               Accepted
    <2> QED
        BY <1>1, <2>1 DEF BodyInv
<1> QED
    BY <1>2, <1>3

\* Backticks that only stand at the start of lines: the regular expression skips
\* a line exactly when the renderer takes it for code, and closes that code.
LEMMA SkippedIsCode ==
    ASSUME RenderTypeOK, \A p \in Lines : md[p].holds # "ticks", NEW p \in Lines
    PROVE  Skipped(p) <=> /\ FencesBefore(p) % 2 = 1
                          /\ \E q \in p + 1 .. Len(md) : Kind(q) = "fence"
<1>0. Len(md) \in Nat /\ Lines = 1 .. Len(md)
    BY LineTypes
<1>1. \A q : q \in Ticks <=> q \in Lines /\ Kind(q) = "fence"
    BY DEF Ticks
<1>2. {q \in Ticks : q < p} = {q \in 1 .. p - 1 : Kind(q) = "fence"}
    BY <1>0, <1>1
<1>3. (\E q \in Ticks : q > p) <=> \E q \in p + 1 .. Len(md) : Kind(q) = "fence"
    BY <1>0, <1>1
<1> QED
    BY <1>2, <1>3 DEF Skipped, FencesBefore

\* A placeholder is never shown outside of a code block, and never a reason to
\* refuse a report that has it in closed code blocks only, if ``` stands at the
\* start of lines only.
THEOREM PlaceholdersCaughtHolds == Spec => []PlaceholdersCaught
<1>1. Init => BodyInv
    BY DEF Init, BodyInv, Accepted
<1>2. ReportInv /\ LinesInv /\ BodyInv => PlaceholdersCaught
    <2> SUFFICES ASSUME ReportInv, LinesInv, BodyInv, \A p \in Lines : md[p].holds # "ticks"
                 PROVE  /\ stage \in {"queued", "sent"} =>
                            \A i \in DOMAIN out : \A p \in out[i].of :
                                md[p].holds = "token" => out[i].tag = "pre"
                        /\ error = "placeholder" =>
                            \E p \in Lines : md[p].holds = "token" /\ (Unclosed(p) \/ ~ Fenced(p))
        BY DEF PlaceholdersCaught
    <2>0. RenderTypeOK
        BY DEF ReportInv, OrderInv
    <2>1. ASSUME stage \in {"queued", "sent"}, NEW i \in DOMAIN out, NEW p \in out[i].of,
                 md[p].holds = "token"
          PROVE  out[i].tag = "pre"
        <3>1. p \in Lines /\ out[i].tag = TagOf(p) /\ ~ Lost(p)
            BY DEF LinesInv, WrittenInv, Fits, Belong
        <3>2. Skipped(p)
            BY <2>1, <3>1 DEF BodyInv, Accepted, Unresolved
        <3>3. FencesBefore(p) % 2 = 1 /\ Kind(p) # "fence"
            BY <2>0, <3>1, <3>2, SkippedIsCode DEF Lost
        <3> QED
            BY <3>1, <3>3, TagOfKinds DEF Fenced
    <2>2. ASSUME error = "placeholder"
          PROVE  \E p \in Lines : md[p].holds = "token" /\ (Unclosed(p) \/ ~ Fenced(p))
        <3>1. PICK p \in Lines : md[p].holds = "token" /\ ~ Skipped(p)
            BY <2>2 DEF BodyInv, Unresolved
        <3>2. FencesBefore(p) % 2 = 1 => \A q \in p + 1 .. Len(md) : Kind(q) # "fence"
            BY <2>0, <3>1, SkippedIsCode
        <3> QED
            BY <3>1, <3>2 DEF Fenced, Unclosed
    <2> QED
        BY <2>1, <2>2
<1>3. Spec => []BodyInv
    BY <1>1, BodyStep, PTL DEF Spec
<1> QED
    BY <1>2, <1>3, LinesHold, PTL
=============================================================================
