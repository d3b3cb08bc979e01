--------------------------- MODULE UploadLifecycle ---------------------------
(***************************************************************************)
(* What an inventory upload promises the dealer, with nothing said about   *)
(* workers, leases, queues or faults: each stage goes from pending through *)
(* processing to a result, possibly set back on the way; the CSV import    *)
(* counts its batches one at a time and completes when all are counted;    *)
(* progress survives every set-back and every retry; and photos come after *)
(* a completed CSV.                                                        *)
(***************************************************************************)
EXTENDS Naturals

CONSTANT BatchCount

VARIABLES
  status,    \* [Stages -> StatusValues]
  imported   \* batches counted so far

lifecycleVars == <<status, imported>>

Stages == {"csv", "images"}
StatusValues == {"none", "pending", "processing", "completed", "failed"}
Open == {"pending", "processing"}

Init ==
  /\ status = [s \in Stages |-> "none"]
  /\ imported = 0

Move(s, from, to) ==
  /\ status[s] \in from
  /\ status' = [status EXCEPT ![s] = to]
  /\ UNCHANGED imported

Submit == Move("csv", {"none"}, "pending")
AddPhotos ==
  /\ status["csv"] = "completed"
  /\ Move("images", {"none", "completed", "failed"}, "pending")
Begin(s) == Move(s, {"pending"}, "processing")
SetBack(s) == Move(s, {"processing"}, "pending")
Fail(s) == Move(s, Open, "failed")
Retry(s) == Move(s, {"failed"}, "pending")

Advance ==
  /\ status["csv"] = "processing"
  /\ imported < BatchCount
  /\ imported' = imported + 1
  /\ UNCHANGED status

Complete(s) ==
  /\ s = "csv" => imported = BatchCount
  /\ Move(s, {"processing"}, "completed")

Settle(s) == Complete(s) \/ Fail(s)

Next ==
  \/ Submit \/ AddPhotos \/ Advance
  \/ \E s \in Stages : Begin(s) \/ SetBack(s) \/ Settle(s) \/ Retry(s)

Spec == Init /\ [][Next]_lifecycleVars
=============================================================================
