-------------------------- MODULE MCDeliveryQueue --------------------------
(***************************************************************************)
(* Small instances of DeliveryQueue for TLC.                               *)
(***************************************************************************)
EXTENDS DeliveryQueue, TLC

\* Jobs are interchangeable in Spec, and so are servers; used in the runs that
\* check safety only.
Interchangeable == Permutations(Jobs) \cup Permutations(Servers)
=============================================================================
