----------------------------- MODULE Recipients -----------------------------
(***************************************************************************)
(* Who a report goes to: mail/recipients.py, as operators.  A source of    *)
(* addresses is the set of its comma-separated parts; an address that does *)
(* not look like one is Malformed, an empty part Empty.  The policy is     *)
(* read from the environment:                                              *)
(*   allow_to   MAIL_REPORT_ALLOW_TO_ARG                                   *)
(*   require    MAIL_REPORT_REQUIRE_TO                                     *)
(*   allowed    the addresses MAIL_REPORT_ALLOWED_RECIPIENTS matches, in   *)
(*              any case and with its "*@domain" patterns; {} when unset   *)
(***************************************************************************)
EXTENDS FiniteSets

CONSTANTS
    Addresses,  \* well-formed addresses
    Malformed,  \* a part that is not a usable address
    Empty       \* an empty part

ASSUME RecipientAssumption ==
    Malformed \notin Addresses /\ Empty \notin Addresses /\ Malformed # Empty

Parts == Addresses \cup {Malformed, Empty}
Sources == {"argument", "header", "default"}

\* parse raises on the first part that is not an address.
Parsable(raw) == Malformed \notin raw
Parsed(raw) == raw \ {Empty}

\* check_allowed: an empty allowlist lets every address through.
Permitted(addresses, policy) ==
    policy.allowed # {} => addresses \subseteq policy.allowed

Refusal == [source |-> "none", to |-> {}]

Governed(source, raw, policy) ==
    IF Permitted(Parsed(raw), policy) THEN [source |-> source, to |-> Parsed(raw)]
                                      ELSE Refusal

Routed(given, policy) ==
    IF ~ Parsable(given.header) THEN Refusal
    ELSE IF Parsed(given.header) # {} THEN Governed("header", given.header, policy)
    ELSE IF policy.require \/ ~ Parsable(given.default) \/ Parsed(given.default) = {}
         THEN Refusal ELSE Governed("default", given.default, policy)

\* Faulty variant of resolve: an argument that is refused falls through.
FallThrough(given, policy) ==
    IF /\ Parsable(given.argument) /\ Parsed(given.argument) # {}
       /\ policy.allow_to /\ Permitted(Parsed(given.argument), policy)
    THEN Governed("argument", given.argument, policy)
    ELSE Routed(given, policy)

\* resolve: the argument, else the header, else the default unless the server
\* requires an explicit address; a source that is refused ends the search.
resolve(given, policy) ==
    IF ~ Parsable(given.argument) THEN Refusal
    ELSE IF Parsed(given.argument) = {} THEN Routed(given, policy)
    ELSE IF policy.allow_to THEN Governed("argument", given.argument, policy)
    ELSE Refusal
=============================================================================
