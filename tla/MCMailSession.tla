--------------------------- MODULE MCMailSession ---------------------------
(***************************************************************************)
(* A report to two recipients, with one retry, for TLC.                    *)
(***************************************************************************)
EXTENDS MailSession
=============================================================================
