---------------------------- MODULE MCListingPhotos ----------------------------
(***************************************************************************)
(* Small instances of ListingPhotos for TLC.                               *)
(***************************************************************************)
EXTENDS ListingPhotos, TLC

\* Attempts and requests are interchangeable.
Symmetry == Permutations(Attempts) \cup Permutations(Requests)
=============================================================================
