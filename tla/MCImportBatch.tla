---------------------------- MODULE MCImportBatch ----------------------------
(***************************************************************************)
(* Small instances of ImportBatch for TLC.                                 *)
(***************************************************************************)
EXTENDS ImportBatch, TLC

\* Plates and attempts are interchangeable.
Symmetry == Permutations(Plates) \cup Permutations(Attempts)
=============================================================================
