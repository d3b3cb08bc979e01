--------------------------- MODULE UploadPipeline ---------------------------
(***************************************************************************)
(* One inventory upload from the dealer's request to its result: the       *)
(* backend that records and enqueues it, the queue that delivers it, the   *)
(* worker attempts that import the CSV batch by batch and then the photos, *)
(* the leases that keep attempts apart, the reaper that recovers what was  *)
(* dropped, and the faults in between (JobStore holds the document,        *)
(* InventoryQueue the messages).                                           *)
(*                                                                         *)
(* An attempt is a call of extractInventoryUpload or                       *)
(* processInventoryImages.  Its steps are its awaited calls: everything    *)
(* between two awaits is one step.                                         *)
(***************************************************************************)
EXTENDS JobStore, InventoryQueue

CONSTANTS
  BatchCount,    \* batches of ETL_BATCH_SIZE rows in the CSV
  MaxReclaim,    \* JOB_MAX_RECLAIM_ATTEMPTS
  MaxFaults,     \* bound: crashes, lost messages, failed calls, slow leases
  MaxAsks        \* bound: retries and photo archives the dealer asks for

ASSUME BatchCountAssumption == BatchCount \in Nat
ASSUME MaxReclaimAssumption == MaxReclaim \in Nat \ {0}
ASSUME BoundsAssumption == MaxFaults \in Nat /\ MaxAsks \in Nat

VARIABLES
  run,      \* [Slots -> Run]: the attempt each slot is executing
  found,    \* [Reapers -> Finding]: what the reaper's queries returned
  written,  \* batches whose rows are in the listing or rejected collections
  told,     \* [Stages -> ToldValues]: the result the dealer was last sent
  faults, asks

pipelineVars == <<run, found, written, told>>
budgets == <<faults, asks>>
vars == <<storeVars, queueVars, pipelineVars, budgets>>

Batches == 1..BatchCount

Run ==
  [pc : {"idle", "taken", "work", "written", "tellDone", "tellFailed", "return", "throw"},
   stage : Stages,
   at : 0..(BatchCount + 1),  \* batches (photos: passes) this attempt has done
   lost : BOOLEAN,            \* a renewal found another owner
   attempt : Nat]             \* attemptCount as the claim returned it
Finding == [on : BOOLEAN, stage : Stages, attempts : Nat]
ToldValues == {"nothing", "completed", "failed"}

NoRun == [pc |-> "idle", stage |-> "csv", at |-> 0, lost |-> FALSE, attempt |-> 0]
NoFinding == [on |-> FALSE, stage |-> "csv", attempts |-> 0]

TypeOK ==
  /\ StoreTypeOK /\ checkpoint <= BatchCount
  /\ QueueTypeOK
  /\ run \in [Slots -> Run]
  /\ found \in [Reapers -> Finding]
  /\ written \subseteq Batches
  /\ told \in [Stages -> ToldValues]
  /\ faults \in 0..MaxFaults
  /\ asks \in 0..MaxAsks

Init ==
  /\ StoreInit
  /\ QueueInit
  /\ run = [a \in Slots |-> NoRun]
  /\ found = [r \in Reapers |-> NoFinding]
  /\ written = {}
  /\ told = [s \in Stages |-> "nothing"]
  /\ faults = 0
  /\ asks = 0

-----------------------------------------------------------------------------
(* Helpers. *)

\* An attempt between its claim and the end of its try block.
Working(a) == run[a].pc \in {"work", "written"}
Holds(a) == HeldBy(run[a].stage, a)

\* What the stage of an attempt consists of; the photo pass is one unit.
Units(a) == IF run[a].stage = "csv" THEN BatchCount ELSE 1

Goto(a, pc) == run' = [run EXCEPT ![a].pc = pc]
Rest(a) == run' = [run EXCEPT ![a] = NoRun]

Fault == faults < MaxFaults /\ faults' = faults + 1 /\ UNCHANGED asks
NoFault == UNCHANGED budgets

-----------------------------------------------------------------------------
(* A worker attempt: taking a message, claiming, the stage, its result. *)

\* The token an attempt draws is fresh: the document does not hold it.
TakeMessage(a, s) ==
  /\ run[a].pc = "idle" /\ leaseOwner # a
  /\ Deliver(a, s)
  /\ run' = [run EXCEPT ![a] = [@ EXCEPT !.pc = "taken", !.stage = s]]
  /\ NoFault /\ UNCHANGED <<storeVars, found, written, told>>

\* A first attempt starts at the beginning, a later one at the checkpoint;
\* photos have no checkpoint.
Claim(a) ==
  LET s == run[a].stage IN
  /\ run[a].pc = "taken"
  /\ ClaimJob(s, a)
  /\ run' = [run EXCEPT ![a] = [@ EXCEPT !.pc = "work",
                                         !.at = IF s = "csv" THEN checkpoint ELSE 0,
                                         !.attempt = attempts[s] + 1]]
  /\ NoFault /\ UNCHANGED <<queueVars, found, written, told>>

\* Already claimed, terminal, or under a live lease: nothing to do.
ClaimMiss(a) ==
  /\ run[a].pc = "taken" /\ ~Claimable(run[a].stage)
  /\ Goto(a, "return")
  /\ NoFault /\ UNCHANGED <<storeVars, queueVars, found, written, told>>

\* Variants of WriteBatch: past the end of the CSV, and with the failure of an
\* insert ignored.
WriteBatch_PastEnd(a) ==
  /\ run[a].pc = "work" /\ run[a].stage = "csv" /\ ~run[a].lost
  /\ written' = written \cup {run[a].at + 1}
  /\ Goto(a, "written")
  /\ NoFault /\ UNCHANGED <<storeVars, queueVars, found, told>>
WriteBatch_ErrorIgnored(a) ==
  /\ run[a].pc = "work" /\ run[a].stage = "csv" /\ ~run[a].lost
  /\ run[a].at < BatchCount
  /\ written' \in {written, written \cup {run[a].at + 1}}
  /\ Goto(a, "written")
  /\ NoFault /\ UNCHANGED <<storeVars, queueVars, found, told>>

\* The rows of the next batch reach the listing and rejected collections.
\* assertHeld comes first; it knows only what the last renewal learned.
WriteBatch(a) ==
  /\ run[a].pc = "work" /\ run[a].stage = "csv" /\ ~run[a].lost
  /\ run[a].at < BatchCount
  /\ written' = written \cup {run[a].at + 1}
  /\ Goto(a, "written")
  /\ NoFault /\ UNCHANGED <<storeVars, queueVars, found, told>>

SaveCheckpoint(a) ==
  /\ run[a].pc = "written"
  /\ IF Holds(a)
       THEN /\ SaveProgress(a, run[a].at + 1)
            /\ run' = [run EXCEPT ![a].pc = "work", ![a].at = @ + 1]
       ELSE Goto(a, "return") /\ UNCHANGED storeVars
  /\ NoFault /\ UNCHANGED <<queueVars, found, written, told>>

AttachPhotos(a) ==
  /\ run[a].pc = "work" /\ run[a].stage = "images" /\ ~run[a].lost
  /\ run[a].at = 0
  /\ run' = [run EXCEPT ![a].at = 1]
  /\ NoFault /\ UNCHANGED <<storeVars, queueVars, found, written, told>>

\* Variant: the result of the conditional update is not looked at.
FinishStage_Unchecked(a) ==
  /\ run[a].pc = "work" /\ ~run[a].lost
  /\ run[a].at = Units(a)
  /\ IF Holds(a) THEN CompleteJob(run[a].stage, a, run[a].at) ELSE UNCHANGED storeVars
  /\ Goto(a, "tellDone")
  /\ NoFault /\ UNCHANGED <<queueVars, found, written, told>>

FinishStage(a) ==
  /\ run[a].pc = "work" /\ ~run[a].lost
  /\ run[a].at = Units(a)
  /\ IF Holds(a)
       THEN CompleteJob(run[a].stage, a, run[a].at) /\ Goto(a, "tellDone")
       ELSE Goto(a, "return") /\ UNCHANGED storeVars
  /\ NoFault /\ UNCHANGED <<queueVars, found, written, told>>

\* assertHeld throws LeaseLostError.
StopWhenLost(a) ==
  /\ run[a].pc = "work" /\ run[a].lost
  /\ Goto(a, "return")
  /\ NoFault /\ UNCHANGED <<storeVars, queueVars, found, written, told>>

\* A temporary error with attempts left: back to pending, and throw so that
\* the queue schedules the next attempt.
GiveBack(a) ==
  /\ Working(a) /\ run[a].attempt < MaxReclaim
  /\ IF Holds(a) THEN HandBackJob(run[a].stage, a) ELSE UNCHANGED storeVars
  /\ Goto(a, "throw")
  /\ NoFault /\ UNCHANGED <<queueVars, found, written, told>>

\* A permanent error, or a temporary one in the last attempt.
GiveUp(a) ==
  /\ Working(a)
  /\ IF Holds(a)
       THEN FailJob(run[a].stage, a) /\ Goto(a, "tellFailed")
       ELSE Goto(a, "return") /\ UNCHANGED storeVars
  /\ NoFault /\ UNCHANGED <<queueVars, found, written, told>>

\* The database fails in the claim, or again while an error is handled: the
\* handler throws without having changed the document.
BreakOff(a) ==
  /\ run[a].pc = "taken" \/ Working(a)
  /\ Goto(a, "throw")
  /\ Fault /\ UNCHANGED <<storeVars, queueVars, found, written, told>>

Tell(a) ==
  /\ run[a].pc \in {"tellDone", "tellFailed"}
  /\ told' = [told EXCEPT ![run[a].stage] =
                 IF run[a].pc = "tellDone" THEN "completed" ELSE "failed"]
  /\ Goto(a, "return")
  /\ NoFault /\ UNCHANGED <<storeVars, queueVars, found, written>>

\* The notification cannot be stored: logged, never thrown.
TellFails(a) ==
  /\ run[a].pc \in {"tellDone", "tellFailed"}
  /\ Goto(a, "return")
  /\ Fault /\ UNCHANGED <<storeVars, queueVars, found, written, told>>

Return(a) ==
  /\ run[a].pc = "return"
  /\ Acknowledge(a, run[a].stage)
  /\ Rest(a)
  /\ NoFault /\ UNCHANGED <<storeVars, found, written, told>>

Throw(a) ==
  /\ run[a].pc = "throw"
  /\ Reject(a, run[a].stage)
  /\ Rest(a)
  /\ NoFault /\ UNCHANGED <<storeVars, found, written, told>>

-----------------------------------------------------------------------------
(* The renewal timer of an attempt, and the time a lease runs out. *)

Renew(a) ==
  /\ Working(a)
  /\ ~leaseLive /\ RenewLease(run[a].stage, a)
  /\ NoFault /\ UNCHANGED <<queueVars, pipelineVars>>

LearnLost(a) ==
  /\ Working(a) /\ ~Holds(a) /\ ~run[a].lost
  /\ run' = [run EXCEPT ![a].lost = TRUE]
  /\ NoFault /\ UNCHANGED <<storeVars, queueVars, found, written, told>>

\* The attempt that held the lease is gone.
AbandonedLeaseExpires ==
  /\ leaseOwner \in Slots /\ ~Working(leaseOwner)
  /\ LeaseExpires
  /\ NoFault /\ UNCHANGED <<queueVars, pipelineVars>>

\* A stalled process or an unreachable database keeps it from renewing.
RunningLeaseExpires ==
  /\ leaseOwner \in Slots /\ Working(leaseOwner)
  /\ LeaseExpires
  /\ Fault /\ UNCHANGED <<queueVars, pipelineVars>>

-----------------------------------------------------------------------------
(* Worker processes going away. *)

Crash(a) ==
  /\ run[a].pc # "idle"
  /\ Orphan(a)
  /\ Rest(a)
  /\ Fault /\ UNCHANGED <<storeVars, found, written, told>>

\* releaseActiveLeases at the shutdown deadline.  The attempt runs on until
\* the process exits (Crash).
HandBackAtShutdown(a) ==
  /\ Working(a)
  /\ HandBackJob(run[a].stage, a)
  /\ Fault /\ UNCHANGED <<queueVars, pipelineVars>>

-----------------------------------------------------------------------------
(* The reaper: its queries, then a decision per job from what they said. *)

ReaperScan(r, s) ==
  /\ ~found[r].on /\ adding[r].pc = "idle"
  /\ Neglected(s)
  /\ found' = [found EXCEPT ![r] = [on |-> TRUE, stage |-> s, attempts |-> attempts[s]]]
  /\ NoFault /\ UNCHANGED <<storeVars, queueVars, run, written, told>>

ReaperFails(r) ==
  /\ found[r].on /\ found[r].attempts >= MaxReclaim
  /\ IF status[found[r].stage] \in Open
       THEN ReapJob(found[r].stage) ELSE UNCHANGED storeVars
  /\ found' = [found EXCEPT ![r] = NoFinding]
  /\ NoFault /\ UNCHANGED <<queueVars, run, written, told>>

ReaperRequeues(r) ==
  /\ found[r].on /\ found[r].attempts < MaxReclaim
  /\ BeginEnsure(r, found[r].stage)
  /\ found' = [found EXCEPT ![r] = NoFinding]
  /\ NoFault /\ UNCHANGED <<storeVars, run, written, told>>

-----------------------------------------------------------------------------
(* The dealer's requests.  Each changes the document first and only then    *)
(* enqueues; enqueueOrDefer reports success whatever the queue does.        *)

CreateInventoryUpload(q) ==
  /\ CreateJob
  /\ BeginEnsure(q, "csv")
  /\ NoFault /\ UNCHANGED pipelineVars

Ask == asks < MaxAsks /\ asks' = asks + 1 /\ UNCHANGED faults

AttachInventoryImagesZip(q) ==
  /\ MarkImagesPending
  /\ BeginEnsure(q, "images")
  /\ told' = [told EXCEPT !["images"] = "nothing"]
  /\ Ask /\ UNCHANGED <<run, found, written>>

RetryDealerUpload(q, s) ==
  /\ ResetFailedJob(s)
  /\ BeginEnsure(q, s)
  /\ told' = [told EXCEPT ![s] = "nothing"]
  /\ Ask /\ UNCHANGED <<run, found, written>>

-----------------------------------------------------------------------------
(* The queue procedure's steps, and the queue's own. *)

EnsureQueued(p) ==
  /\ Look(p) \/ RemoveFinished(p) \/ Add(p)
  /\ NoFault /\ UNCHANGED <<storeVars, pipelineVars>>

\* Redis does not answer the producer, or its process dies.
ProducerFails(p) ==
  /\ AbandonEnsure(p)
  /\ Fault /\ UNCHANGED <<storeVars, pipelineVars>>

OrphanStalls(s) ==
  /\ message[s].by = NoSlot /\ Stall(s)
  /\ NoFault /\ UNCHANGED <<storeVars, pipelineVars>>

\* The lock of a running attempt runs out, or Redis loses the message.
MessageFault(s) ==
  /\ \/ message[s].by # NoSlot /\ Stall(s)
     \/ Lose(s)
  /\ Fault /\ UNCHANGED <<storeVars, pipelineVars>>

-----------------------------------------------------------------------------
Attempt(a) ==
  \/ \E s \in Stages : TakeMessage(a, s)
  \/ Claim(a) \/ ClaimMiss(a)
  \/ WriteBatch(a) \/ SaveCheckpoint(a) \/ AttachPhotos(a)
  \/ FinishStage(a) \/ StopWhenLost(a)
  \/ Tell(a) \/ Return(a) \/ Throw(a)

AttemptError(a) == GiveBack(a) \/ GiveUp(a) \/ BreakOff(a) \/ TellFails(a)

Lease(a) == Renew(a) \/ LearnLost(a)

Reaper(r) ==
  \/ \E s \in Stages : ReaperScan(r, s)
  \/ ReaperFails(r) \/ ReaperRequeues(r)

Dealer(q) ==
  \/ CreateInventoryUpload(q)
  \/ AttachInventoryImagesZip(q)
  \/ \E s \in Stages : RetryDealerUpload(q, s)

Next ==
  \/ \E a \in Slots : Attempt(a) \/ AttemptError(a) \/ Lease(a)
                        \/ Crash(a) \/ HandBackAtShutdown(a)
  \/ AbandonedLeaseExpires \/ RunningLeaseExpires
  \/ \E r \in Reapers : Reaper(r)
  \/ \E q \in Requests : Dealer(q)
  \/ \E p \in Producers : EnsureQueued(p) \/ ProducerFails(p)
  \/ \E s \in Stages : OrphanStalls(s) \/ MessageFault(s)

Spec == Init /\ [][Next]_vars

\* Workers keep taking and running messages, timers fire, and the reaper cycle
\* is an interval timer.  Errors, faults and the dealer owe nothing.
Fairness ==
  /\ \A a \in Slots : WF_vars(Attempt(a))
  /\ WF_vars(AbandonedLeaseExpires)
  /\ \A r \in Reapers : WF_vars(Reaper(r))
  /\ \A p \in Producers : WF_vars(EnsureQueued(p))
  /\ \A s \in Stages : WF_vars(OrphanStalls(s))

FairSpec == Spec /\ Fairness

-----------------------------------------------------------------------------
(* Safety. *)

\* The two stages share leaseOwner, leaseExpiresAt and processingStartedAt, so
\* the claims of one would corrupt the other if both could be open: photos are
\* queued only after the CSV has completed, and nothing reopens it.
OneStageAtATime == ~(status["csv"] \in Open /\ status["images"] \in Open)

\* A lease is recorded exactly while a stage is processing: no update forgets
\* to write it, and none leaves one behind that would block the next claim.
LeaseIffProcessing ==
  leaseOwner # NoSlot <=> \E s \in Stages : status[s] = "processing"

\* Every batch the checkpoint counts has its rows in the database, whichever
\* attempts wrote them; so resuming there skips nothing.
CheckpointIsDurable == \A b \in Batches : b <= checkpoint => b \in written

\* A CSV import that reports completion imported every batch.
CompletedIsWhole == status["csv"] = "completed" => written = Batches

\* The attempt that holds the lease continues from the checkpoint: its own
\* counters and the document's agree at every step.
HolderIsCurrent ==
  \A a \in Slots :
    Working(a) /\ run[a].stage = "csv" /\ Holds(a) => run[a].at = checkpoint

\* However often a lease changes hands, one attempt works under it, on one stage,
\* from where the document stands.
LeasesAreSound == OneStageAtATime /\ LeaseIffProcessing /\ HolderIsCurrent

\* No batch of an upload is skipped, whichever attempts wrote and saved it.
NothingIsSkipped == CheckpointIsDurable /\ CompletedIsWhole

\* The dealer is told of a completed import only if it is complete: an attempt
\* that lost its lease between the last batch and the completion stays silent.
TellersAreRight ==
  \A a \in Slots :
    run[a].pc = "tellDone" /\ run[a].stage = "csv" => status["csv"] = "completed"
ToldIsTrue == told["csv"] = "completed" => status["csv"] = "completed"

\* What the above rest on.  Photos are asked for only after the CSV completed;
\* and an attempt that is about to save its checkpoint has written the batch.
PhotosAfterCsv == status["images"] # "none" => status["csv"] = "completed"
WrittenBeforeSaved ==
  \A a \in Slots : run[a].pc = "written" =>
    run[a].stage = "csv" /\ run[a].at + 1 \in written
Groundwork == PhotosAfterCsv /\ WrittenBeforeSaved

\* Together with the types these are inductive (UploadPipeline_proofs).
Coherent ==
  /\ Groundwork
  /\ LeaseIffProcessing
  /\ CheckpointIsDurable
  /\ CompletedIsWhole
  /\ HolderIsCurrent
IndInv == TypeOK /\ Coherent

-----------------------------------------------------------------------------
(* Action properties. *)

\* The checkpoint never goes back, in particular not by an attempt that lost
\* its lease and wakes up with older counters.
CheckpointGrows == [][checkpoint' >= checkpoint]_vars

\* A completed CSV import stays completed, whatever late attempts, reapers and
\* dealers do: listings of a finished upload are never imported again.
CompletedIsFinal == [][status["csv"] = "completed" => status'["csv"] = "completed"]_vars

\* The reaper's verdict is on what its queries read, possibly long before.  By
\* the comment on failUploadJob it changes "only a job still in the expected
\* state": still neglected and still out of attempts.
ReaperFailsOnlyExpected ==
  [][\A r \in Reapers : ReaperFails(r) =>
       \A s \in Stages : status'[s] # status[s] =>
         Neglected(s) /\ attempts[s] >= MaxReclaim]_vars

\* The durable cap that the queue options' comment promises.
AttemptsAreCapped == \A s \in Stages : attempts[s] <= MaxReclaim

-----------------------------------------------------------------------------
(* The abstract specification, and liveness. *)

\* The pipeline keeps what the lifecycle promises.  The checkpoint is what
\* has been imported; everything else is hidden.
Lifecycle == INSTANCE UploadLifecycle WITH imported <- checkpoint
ImplementsLifecycle == Lifecycle!Spec

\* An upload that was accepted ends, in success or failure, with crashes,
\* lost messages and a lost enqueue in between.
UploadSettles ==
  \A s \in Stages : status[s] \in Open ~> status[s] \in {"completed", "failed"}
=============================================================================
