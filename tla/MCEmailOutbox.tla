---------------------------- MODULE MCEmailOutbox ----------------------------
(***************************************************************************)
(* Small instances of EmailOutbox for TLC.                                 *)
(***************************************************************************)
EXTENDS EmailOutbox, TLC

\* Worker processes are interchangeable.
Symmetry == Permutations(Workers)
=============================================================================
