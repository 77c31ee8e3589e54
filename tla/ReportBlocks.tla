---------------------------- MODULE ReportBlocks ----------------------------
(***************************************************************************)
(* render_markdown of render/renderer.py as the machine it is: one line at *)
(* a time, with a table, a list and a code block that are collected and    *)
(* written out when something else begins.  What is lost when a buffer is  *)
(* flushed too late, too early or never is lost from the mail.             *)
(*                                                                         *)
(* A line is what the renderer's tests tell apart and what the line holds: *)
(* nothing of note, a placeholder, three backticks inside the line, or a   *)
(* reference ![alt](name) to an image.  A line in its place is a number; a *)
(* block of the output is its tag with the lines it shows.                 *)
(***************************************************************************)
EXTENDS Naturals, Sequences, FiniteSets

CONSTANT Names      \* names of files, as the caller writes them

VARIABLES
    md,         \* the report's lines
    titled,     \* was a title argument passed with the text of the "title" lines?
    at,         \* the line the loop reads
    in_code,    \* inside a fence?
    code_buf,   \* lines of the open code block
    tbl,        \* rows of the open table
    list_buf,   \* items of the open list
    out         \* the blocks written so far

renderVars == <<md, titled, at, in_code, code_buf, tbl, list_buf, out>>

\* A "title" is a line "# ..." with the text of the title argument.
Kinds == {"fence", "row", "item", "title", "head", "rule", "quote", "blank", "text"}
Line == [kind : Kinds, holds : {"plain", "token", "ticks"} \cup Names]
Block == [tag : {"pre", "table", "ul", "line"}, of : SUBSET Nat]

RenderTypeOK ==
    /\ md \in Seq(Line)
    /\ titled \in BOOLEAN
    /\ at \in 1 .. Len(md) + 2
    /\ in_code \in BOOLEAN
    /\ {code_buf, tbl, list_buf} \subseteq SUBSET (1 .. Len(md))
    /\ out \in Seq(Block)

RenderInit(lines, title) ==
    /\ md = lines
    /\ titled = title
    /\ at = 1
    /\ in_code = FALSE
    /\ code_buf = {} /\ tbl = {} /\ list_buf = {}
    /\ out = <<>>

Lines == 1 .. Len(md)
Kind(p) == md[p].kind
Blank(p, q) == \A r \in p .. q : Kind(r) = "blank"

\* _drop_duplicate_title deletes the first line that is not blank, when it is
\* the title again, and the blank lines after it.
DroppedTitle == {p \in Lines : titled /\ Kind(p) = "title" /\ Blank(1, p - 1)}
Dropped ==
    DroppedTitle \cup {p \in Lines : \E h \in DroppedTitle : h < p /\ Blank(h + 1, p)}
-----------------------------------------------------------------------------
(* The loop of render_markdown.                                            *)

Second(rows) == {q \in rows : Cardinality({p \in rows : p < q}) = 1}

\* _table shows the first row as the header, skips the second and shows the
\* others.
FlushTable(s) ==
    IF tbl = {} THEN s ELSE Append(s, [tag |-> "table", of |-> tbl \ Second(tbl)])

FlushList(s) ==
    IF list_buf = {} THEN s ELSE Append(s, [tag |-> "ul", of |-> list_buf])

At(kinds) == at \in Lines \ Dropped /\ Kind(at) \in kinds
Advance == at' = at + 1 /\ UNCHANGED <<md, titled>>

DropLine ==
    /\ at \in Dropped
    /\ Advance
    /\ UNCHANGED <<in_code, code_buf, tbl, list_buf, out>>

OpenFence ==
    /\ At({"fence"}) /\ ~ in_code
    /\ in_code' = TRUE
    /\ code_buf' = {}
    /\ out' = FlushList(FlushTable(out))
    /\ tbl' = {} /\ list_buf' = {}
    /\ Advance

CloseFence ==
    /\ At({"fence"}) /\ in_code
    /\ in_code' = FALSE
    /\ out' = Append(out, [tag |-> "pre", of |-> code_buf])
    /\ UNCHANGED <<code_buf, tbl, list_buf>>
    /\ Advance

CodeLine ==
    /\ At(Kinds \ {"fence"}) /\ in_code
    /\ code_buf' = code_buf \cup {at}
    /\ UNCHANGED <<in_code, tbl, list_buf, out>>
    /\ Advance

Row ==
    /\ At({"row"}) /\ ~ in_code
    /\ out' = FlushList(out)
    /\ list_buf' = {}
    /\ tbl' = tbl \cup {at}
    /\ UNCHANGED <<in_code, code_buf>>
    /\ Advance

ItemKeepsTable ==   \* faulty variant: the table is not flushed before the list
    /\ At({"item"}) /\ ~ in_code
    /\ list_buf' = list_buf \cup {at}
    /\ UNCHANGED <<in_code, code_buf, tbl, out>>
    /\ Advance

Item ==
    /\ At({"item"}) /\ ~ in_code
    /\ out' = FlushTable(out)
    /\ tbl' = {}
    /\ list_buf' = list_buf \cup {at}
    /\ UNCHANGED <<in_code, code_buf>>
    /\ Advance

\* A heading, rule, quote, blank line or paragraph is a block by itself.
Single ==
    /\ At(Kinds \ {"fence", "row", "item"}) /\ ~ in_code
    /\ out' = Append(FlushList(FlushTable(out)), [tag |-> "line", of |-> {at}])
    /\ tbl' = {} /\ list_buf' = {}
    /\ UNCHANGED <<in_code, code_buf>>
    /\ Advance

EndKeepsList ==     \* faulty variant: the last list is never written out
    /\ at = Len(md) + 1
    /\ out' = FlushTable(out)
    /\ tbl' = {} /\ list_buf' = {}
    /\ UNCHANGED <<in_code, code_buf>>
    /\ Advance

\* What is still open is written out, but for a code block without its end.
End ==
    /\ at = Len(md) + 1
    /\ out' = FlushList(FlushTable(out))
    /\ tbl' = {} /\ list_buf' = {}
    /\ UNCHANGED <<in_code, code_buf>>
    /\ Advance

ReadLine == DropLine \/ OpenFence \/ CloseFence \/ CodeLine \/ Row \/ Item \/ Single \/ End
Rendered == at = Len(md) + 2
-----------------------------------------------------------------------------
(* What a reader of the report expects, defined on its lines alone.        *)

FencesBefore(p) == Cardinality({q \in 1 .. p - 1 : Kind(q) = "fence"})
Fenced(p) == Kind(p) # "fence" /\ FencesBefore(p) % 2 = 1
Unclosed(p) == Fenced(p) /\ \A q \in p + 1 .. Len(md) : Kind(q) # "fence"

IsRow(p) == p \in Lines /\ Kind(p) = "row" /\ ~ Fenced(p)
SecondRow(p) == IsRow(p) /\ IsRow(p - 1) /\ ~ IsRow(p - 2)

TagOf(p) == CASE Fenced(p) -> "pre"
              [] IsRow(p) -> "table"
              [] Kind(p) = "item" /\ ~ Fenced(p) -> "ul"
              [] OTHER -> "line"

Lost(p) == p \in Dropped \/ Kind(p) = "fence" \/ SecondRow(p) \/ Unclosed(p)
Shown(p) == \E i \in DOMAIN out : p \in out[i].of

\* The mail shows the report's lines in their order, none of them twice.
ShownInOrder ==
    \A i, j \in DOMAIN out : i < j => \A p \in out[i].of, q \in out[j].of : p < q

\* Each line of the report is shown as what it is, and none is lost but for the
\* duplicate title, the fences, the second row of a table (taken for its
\* separator, whatever it holds) and a code block that is never closed.
LinesShown ==
    /\ \A i \in DOMAIN out : \A p \in out[i].of : out[i].tag = TagOf(p)
    /\ Rendered => \A p \in Lines : Shown(p) <=> ~ Lost(p)
=============================================================================
