------------------------------ MODULE MCBackendEdge ------------------------------
(***************************************************************************)
(* A small instance of BackendEdge for TLC.                                *)
(***************************************************************************)
EXTENDS BackendEdge
=============================================================================
