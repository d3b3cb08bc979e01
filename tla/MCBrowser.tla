------------------------------ MODULE MCBrowser ------------------------------
(***************************************************************************)
(* A small instance of Browser for TLC.                                    *)
(***************************************************************************)
EXTENDS Browser

MCPhotosOf == [v \in Vehicles |-> v]
MCFirst == [p \in People |-> IF p = 1 THEN "pending" ELSE "dealer"]
==============================================================================
