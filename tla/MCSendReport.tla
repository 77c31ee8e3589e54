---------------------------- MODULE MCSendReport ----------------------------
(***************************************************************************)
(* Small instances of SendReport for TLC: the cases, and the names of      *)
(* files with what path and safe_filename make of them.                    *)
(***************************************************************************)
EXTENDS SendReport

CONSTANTS a1, a2, bad, none
CONSTANTS MaxLines, MaxFiles      \* bounds: lines of a report, files of an upload

\* "long.png" stands for a name of more than 120 characters: cut, it ends in an
\* underscore, which goes when the name is made safe again.
NamesHere == {"a.png", "img/a.png", "2@.png", "2_.png", "b.pdf", "long.png", "long_", "long"}
ShortHere == [n \in NamesHere |-> IF n = "img/a.png" THEN "a.png" ELSE n]
SafeHere == [n \in NamesHere |-> CASE n = "2@.png" -> "2_.png"
                                    [] n = "long.png" -> "long_"
                                    [] n = "long_" -> "long"
                                    [] OTHER -> ShortHere[n]]

UpTo(n, S) == UNION {[1 .. k -> S] : k \in 0 .. n}
L(kind, holds) == [kind |-> kind, holds |-> holds]
Open == [allow_to |-> TRUE, require |-> FALSE, allowed |-> {}]
ToDefault == [argument |-> {}, header |-> {}, default |-> {a1}]

Text == [bundle |-> FALSE, zip |-> FALSE, report |-> TRUE, files |-> <<>>, extra |-> <<>>,
         lines |-> <<L("text", "plain")>>, titled |-> FALSE, header |-> "clean",
         config |-> TRUE, given |-> ToDefault, policy |-> Open,
         logo |-> FALSE, size |-> 1, rest |-> 2, limits |-> {0}]

\* Every case with its fields out of the sets of a record; Fixed has one of each.
Choices(of) ==
    [bundle : of.bundle, zip : of.zip, report : of.report, files : of.files,
     extra : of.extra, lines : of.lines, titled : of.titled, header : of.header,
     config : of.config, given : of.given, policy : of.policy, logo : of.logo,
     size : of.size, rest : of.rest, limits : of.limits]
Fixed == [f \in DOMAIN Text |-> {Text[f]}]

\* Reports of every shape, with placeholders and backticks in them.
Shapes ==
    LET alphabet == {L(k, "plain") : k \in {"fence", "row", "item", "title", "blank", "text"}}
                        \cup {L("text", "token"), L("text", "ticks")}
    IN  Choices([Fixed EXCEPT !.lines = UpTo(MaxLines, alphabet), !.titled = BOOLEAN])

\* Bundles of files with names that agree, collide or change, and reports that
\* refer to them from a paragraph, a list, a table or code.
Bundles ==
    LET line == {L("fence", "plain"), L("row", "a.png")}
                    \cup [kind : {"text"}, holds : {"a.png", "img/a.png", "2_.png", "long_"}]
    IN  Choices([Fixed EXCEPT !.bundle = {TRUE}, !.zip = BOOLEAN,
            !.files = UpTo(MaxFiles, {"a.png", "img/a.png", "2@.png", "2_.png", "long.png"}),
            !.extra = UpTo(1, {"a.png", "long.png"}), !.lines = UpTo(2, line)])

\* Bundles whose row names no report.md, with a body passed or not.
Bodies ==
    Choices([Fixed EXCEPT !.bundle = {TRUE}, !.report = {FALSE}, !.files = UpTo(1, {"a.png"}),
                          !.lines = UpTo(1, {L("text", "a.png"), L("text", "token")})])

\* Every way to name recipients, under every policy.
Policies ==
    Choices([Fixed EXCEPT
        !.given = [Sources -> {{}, {none}, {a1}, {a2, none}, {a1, a2}, {a1, bad}}],
        !.policy = [allow_to : BOOLEAN, require : BOOLEAN, allowed : {{}, {a1}}]])

\* Files of sizes around the budget, and a logo.
Sizes ==
    Choices([Fixed EXCEPT
        !.bundle = {TRUE}, !.zip = {TRUE}, !.files = UpTo(2, {"a.png", "b.pdf"}), !.logo = BOOLEAN,
        !.size = {1, 58, 85, 86, 145, 170, 172, 300, 301}, !.rest = {2, 17, 40},
        !.limits = {{0, 30, 256, 422}}])

Headers ==
    Choices([Fixed EXCEPT !.header = {"clean", "broken", "token"}, !.config = BOOLEAN,
                          !.lines = {<<>>, <<L("head", "plain")>>}])

CasesHere == Shapes \cup Bundles \cup Bodies \cup Policies \cup Sizes \cup Headers

\* A zip of one image, which the report refers to as it is named in the zip.
OneImage == {[Text EXCEPT !.bundle = TRUE, !.zip = TRUE, !.files = <<n>>, !.lines = <<L("text", n)>>] :
                n \in NamesHere}
=============================================================================
