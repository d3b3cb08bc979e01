-------------------------- MODULE MCUploadPipeline --------------------------
(***************************************************************************)
(* Small instances of UploadPipeline for TLC.                              *)
(***************************************************************************)
EXTENDS UploadPipeline, TLC

\* Slots and reapers are interchangeable: no definition names a particular one.
SlotSymmetry == Permutations(Slots)
=============================================================================
