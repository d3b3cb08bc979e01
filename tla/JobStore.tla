------------------------------ MODULE JobStore ------------------------------
(***************************************************************************)
(* The MongoDB document of one inventory upload and the conditional        *)
(* updates that the worker (repositories/uploadJob.repository.ts) and the  *)
(* backend (modules/inventory/inventory.repository.ts) make on it.  Each   *)
(* update is one findOneAndUpdate/updateOne, hence one atomic step whose   *)
(* guard is the filter.  An upload has two stages: the CSV import and the  *)
(* photo archive.  Both stages share one set of lease fields.              *)
(*                                                                         *)
(* "completed" stands for completed and completedWithErrors, which every   *)
(* filter treats alike.  A stage that was never asked for is "none"; for   *)
(* the CSV stage that means the document does not exist yet.  The owner    *)
(* token is a random UUID per attempt; here it is the slot that runs the   *)
(* attempt, and a slot whose token the document still holds starts none    *)
(* (TakeMessage of UploadPipeline).                                        *)
(*                                                                         *)
(* A definition X_Y marked "Variant" is no part of the specification: it   *)
(* is X with a plausible mistake, which the properties must tell from X.   *)
(***************************************************************************)
EXTENDS InventoryBase

VARIABLES
  status,      \* [Stages -> StatusValues]: status, imageProcessingStatus
  attempts,    \* [Stages -> Nat]: attemptCount, imageAttemptCount
  leaseOwner,  \* the attempt that holds the stage in progress, or NoSlot
  leaseLive,   \* leaseExpiresAt exists and lies in the future
  checkpoint   \* processedRecords of the CSV stage, counted in batches

storeVars == <<status, attempts, leaseOwner, leaseLive, checkpoint>>

StatusValues == {"none", "pending", "processing", "completed", "failed"}
Open == {"pending", "processing"}

StoreTypeOK ==
  /\ status \in [Stages -> StatusValues]
  /\ attempts \in [Stages -> Nat]
  /\ leaseOwner \in Slots \cup {NoSlot}
  /\ leaseLive \in BOOLEAN
  /\ checkpoint \in Nat

StoreInit ==
  /\ status = [s \in Stages |-> "none"]
  /\ attempts = [s \in Stages |-> 0]
  /\ leaseOwner = NoSlot
  /\ leaseLive = FALSE
  /\ checkpoint = 0

-----------------------------------------------------------------------------
(* Filters and lease updates shared by the two stages. *)

\* The filter of a claim: pending, or processing under an expired lease.
Claimable(s) ==
  \/ status[s] = "pending"
  \/ status[s] = "processing" /\ ~leaseLive

\* Variant: the owner is left out of the filter.
HeldBy_Anyone(s, o) == status[s] = "processing"

\* The filter of every write an attempt makes while it works.
HeldBy(s, o) == status[s] = "processing" /\ leaseOwner = o

ReleaseLease == leaseOwner' = NoSlot /\ leaseLive' = FALSE

Move(s, new) == status' = [status EXCEPT ![s] = new]

-----------------------------------------------------------------------------
(* The worker's updates. *)

ClaimJob(s, o) ==
  /\ Claimable(s)
  /\ Move(s, "processing")
  /\ attempts' = [attempts EXCEPT ![s] = @ + 1]
  /\ leaseOwner' = o /\ leaseLive' = TRUE
  /\ UNCHANGED checkpoint

RenewLease(s, o) ==
  /\ HeldBy(s, o)
  /\ leaseLive' = TRUE
  /\ UNCHANGED <<status, attempts, leaseOwner, checkpoint>>

\* updateUploadProgress: cumulative counters after a batch is persisted.
SaveProgress(o, processed) ==
  /\ HeldBy("csv", o)
  /\ checkpoint' = processed
  /\ leaseLive' = TRUE
  /\ UNCHANGED <<status, attempts, leaseOwner>>

\* completeUploadJob writes the counters once more; completeImageProcessing
\* has none.
CompleteJob(s, o, processed) ==
  /\ HeldBy(s, o)
  /\ Move(s, "completed")
  /\ checkpoint' = IF s = "csv" THEN processed ELSE checkpoint
  /\ ReleaseLease
  /\ UNCHANGED attempts

\* Failure reported by the attempt that holds the lease.
FailJob(s, o) ==
  /\ HeldBy(s, o)
  /\ Move(s, "failed")
  /\ ReleaseLease
  /\ UNCHANGED <<attempts, checkpoint>>

\* Failure reported by the reaper: no owner, so the filter is the status only.
ReapJob(s) ==
  /\ status[s] \in Open
  /\ Move(s, "failed")
  /\ ReleaseLease
  /\ UNCHANGED <<attempts, checkpoint>>

\* Variant: the lease fields are not unset.
HandBackJob_LeaseKept(s, o) ==
  /\ HeldBy(s, o)
  /\ Move(s, "pending")
  /\ UNCHANGED <<attempts, leaseOwner, leaseLive, checkpoint>>

\* Back to pending, for a temporary error or a shutdown.
HandBackJob(s, o) ==
  /\ HeldBy(s, o)
  /\ Move(s, "pending")
  /\ ReleaseLease
  /\ UNCHANGED <<attempts, checkpoint>>

\* JOB_LEASE_MS pass without a renewal.
LeaseExpires ==
  /\ leaseLive
  /\ leaseLive' = FALSE
  /\ UNCHANGED <<status, attempts, leaseOwner, checkpoint>>

\* Variant: only the first of the reaper's two queries.
Neglected_ExpiredOnly(s) == status[s] = "processing" /\ ~leaseLive

\* What the reaper's two queries find for a stage: an expired lease, or work
\* that has been pending for longer than PENDING_JOB_REENQUEUE_AFTER_MS.  The
\* passing of that time is what separates the two states of a pending job, so
\* every pending job is one the query may find.
Neglected(s) == Claimable(s)

-----------------------------------------------------------------------------
(* The backend's updates. *)

CreateJob ==
  /\ status["csv"] = "none"
  /\ Move("csv", "pending")
  /\ UNCHANGED <<attempts, leaseOwner, leaseLive, checkpoint>>

\* A photo archive is accepted once the CSV has finished and no earlier
\* archive is queued or running.
MarkImagesPending ==
  /\ status["csv"] = "completed"
  /\ status["images"] \notin Open
  /\ Move("images", "pending")
  /\ attempts' = [attempts EXCEPT !["images"] = 0]
  /\ UNCHANGED <<leaseOwner, leaseLive, checkpoint>>

\* Variant: any finished stage can be retried.
ResetFailedJob_AnyResult(s) ==
  /\ status[s] \in {"completed", "failed"}
  /\ Move(s, "pending")
  /\ attempts' = [attempts EXCEPT ![s] = 0]
  /\ ReleaseLease
  /\ UNCHANGED checkpoint

\* A dealer's retry of a failed stage, with a fresh attempt budget.
ResetFailedJob(s) ==
  /\ status[s] = "failed"
  /\ Move(s, "pending")
  /\ attempts' = [attempts EXCEPT ![s] = 0]
  /\ ReleaseLease
  /\ UNCHANGED checkpoint
=============================================================================
