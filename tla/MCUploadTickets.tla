-------------------------- MODULE MCUploadTickets --------------------------
(***************************************************************************)
(* Small instances of UploadTickets for TLC: files of up to two bytes, two *)
(* to an upload.                                                           *)
(***************************************************************************)
EXTENDS UploadTickets
=============================================================================
