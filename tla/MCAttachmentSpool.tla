------------------------- MODULE MCAttachmentSpool -------------------------
(***************************************************************************)
(* Small instances of AttachmentSpool for TLC.                             *)
(***************************************************************************)
EXTENDS AttachmentSpool, TLC

\* Files and jobs are interchangeable; used where only safety is checked.
SpoolSymmetry == Permutations(Files) \cup Permutations(Jobs)
=============================================================================
