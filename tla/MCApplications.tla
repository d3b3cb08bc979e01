----------------------------- MODULE MCApplications -----------------------------
(***************************************************************************)
(* A small instance of DealerApplications for TLC.                         *)
(***************************************************************************)
EXTENDS DealerApplications, TLC

\* The documents of a submission are interchangeable.
Symmetry == Permutations(Files)
=============================================================================
