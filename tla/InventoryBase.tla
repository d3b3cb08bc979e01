---------------------------- MODULE InventoryBase ----------------------------
(***************************************************************************)
(* What the job document and the queue of an inventory upload both refer   *)
(* to: the two stages of an upload and the concurrency slots of the worker *)
(* processes, each of which runs one attempt at a time.                    *)
(***************************************************************************)
EXTENDS Naturals, FiniteSets

CONSTANTS
  Slots,   \* one per attempt the workers can run at once
  NoSlot   \* no slot holds the lease, or the lock of a message

ASSUME NoSlotAssumption == NoSlot \notin Slots

\* The CSV import, and the photo archive that may follow it.  They are the two
\* job names of the queue and the two halves of the upload document.
Stages == {"csv", "images"}
=============================================================================
