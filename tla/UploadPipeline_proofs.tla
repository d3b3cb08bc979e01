------------------------ MODULE UploadPipeline_proofs ------------------------
(***************************************************************************)
(* Proofs about UploadPipeline for any number of slots, reapers, requests  *)
(* and batches, any attempt limits and any number of faults.               *)
(***************************************************************************)
EXTENDS UploadPipeline, TLAPS

(***************************************************************************)
(* Type correctness.                                                       *)
(***************************************************************************)

USE DEF Stages, StatusValues, Open

\* The document's updates keep its fields well-formed.
LEMMA StoreUpdateType ==
  ASSUME StoreTypeOK, NEW s \in Stages, NEW o \in Slots, NEW n \in Nat,
         \/ ClaimJob(s, o) \/ RenewLease(s, o) \/ SaveProgress(o, n)
         \/ CompleteJob(s, o, n) \/ FailJob(s, o) \/ ReapJob(s)
         \/ HandBackJob(s, o) \/ LeaseExpires
         \/ CreateJob \/ MarkImagesPending \/ ResetFailedJob(s)
  PROVE  StoreTypeOK'
  <1> USE DEF StoreTypeOK, Move, ReleaseLease
  <1>1. CASE ClaimJob(s, o)
    BY <1>1 DEF ClaimJob
  <1>2. CASE RenewLease(s, o)
    BY <1>2 DEF RenewLease
  <1>3. CASE SaveProgress(o, n)
    BY <1>3 DEF SaveProgress
  <1>4. CASE CompleteJob(s, o, n)
    BY <1>4 DEF CompleteJob
  <1>5. CASE FailJob(s, o)
    BY <1>5 DEF FailJob
  <1>6. CASE ReapJob(s)
    BY <1>6 DEF ReapJob
  <1>7. CASE HandBackJob(s, o)
    BY <1>7 DEF HandBackJob
  <1>8. CASE LeaseExpires
    BY <1>8 DEF LeaseExpires
  <1>9. CASE CreateJob
    BY <1>9 DEF CreateJob
  <1>10. CASE MarkImagesPending
    BY <1>10 DEF MarkImagesPending
  <1>11. CASE ResetFailedJob(s)
    BY <1>11 DEF ResetFailedJob
  <1> QED
    BY <1>1, <1>2, <1>3, <1>4, <1>5, <1>6, <1>7, <1>8, <1>9, <1>10, <1>11

\* The queue's steps keep messages and producers well-formed.
LEMMA DeliveryType ==
  ASSUME QueueTypeOK, NEW c \in Slots, NEW s \in Stages,
         Deliver(c, s) \/ Acknowledge(c, s) \/ Reject(c, s) \/ Orphan(c)
  PROVE  QueueTypeOK'
  <1> USE DEF QueueTypeOK, Message, SetMessage
  <1>1. CASE Deliver(c, s)
    BY <1>1 DEF Deliver
  <1>2. CASE Acknowledge(c, s)
    BY <1>2 DEF Acknowledge
  <1>3. CASE Reject(c, s)
    BY <1>3, QueueAttemptsAssumption DEF Reject
  <1>4. CASE Orphan(c)
    BY <1>4 DEF Orphan
  <1> QED
    BY <1>1, <1>2, <1>3, <1>4

LEMMA RedisType ==
  ASSUME QueueTypeOK, NEW s \in Stages, Stall(s) \/ Lose(s)
  PROVE  QueueTypeOK'
  BY DEF QueueTypeOK, Message, SetMessage, Stall, Lose

LEMMA ProducerType ==
  ASSUME QueueTypeOK, NEW p \in Producers, NEW s \in Stages,
         BeginEnsure(p, s) \/ Look(p) \/ RemoveFinished(p) \/ Add(p) \/ AbandonEnsure(p)
  PROVE  QueueTypeOK'
  <1> USE DEF QueueTypeOK, Message, Adding, SetMessage, Continue, Stop, NotAdding
  <1>1. CASE BeginEnsure(p, s)
    BY <1>1 DEF BeginEnsure
  <1>2. CASE Look(p)
    BY <1>2 DEF Look
  <1>3. CASE RemoveFinished(p)
    BY <1>3 DEF RemoveFinished
  <1>4. CASE Add(p)
    BY <1>4 DEF Add
  <1>5. CASE AbandonEnsure(p)
    BY <1>5 DEF AbandonEnsure
  <1> QED
    BY <1>1, <1>2, <1>3, <1>4, <1>5
(***************************************************************************)
(* TypeOK is preserved; a written batch is what bounds the counters.       *)
(***************************************************************************)
LEMMA TypeStep ==
  ASSUME TypeOK, WrittenBeforeSaved, Next
  PROVE  TypeOK'
  <1> USE BatchCountAssumption, BoundsAssumption
      DEF TypeOK, Run, Batches, Finding, ToldValues
  <1>1. ASSUME NEW a \in Slots, NEW s \in Stages, TakeMessage(a, s) PROVE TypeOK'
    <2>1. QueueTypeOK'
      BY <1>1, DeliveryType DEF TakeMessage
    <2>2. [run[a] EXCEPT !.pc = "taken", !.stage = s] \in Run
      BY run[a] \in Run, s \in Stages
    <2> QED
      BY <1>1, <2>1, <2>2 DEF TakeMessage, NoFault, storeVars, budgets, StoreTypeOK
  <1>2. ASSUME NEW a \in Slots, Claim(a) PROVE TypeOK'
    <2>1. StoreTypeOK' /\ checkpoint' = checkpoint
      BY <1>2 DEF Claim, StoreTypeOK, Move, ReleaseLease, storeVars, ClaimJob
    <2>2. run' \in [Slots -> Run]
      <3> DEFINE start == IF run[a].stage = "csv" THEN checkpoint ELSE 0
      <3>1. start \in 0..(BatchCount + 1) /\ attempts[run[a].stage] + 1 \in Nat
        BY DEF StoreTypeOK
      <3> HIDE DEF start
      <3>2. [run[a] EXCEPT !.pc = "work", !.at = start,
                           !.attempt = attempts[run[a].stage] + 1] \in Run
        BY <3>1
      <3> QED
        BY <1>2, <3>2 DEF Claim, start
    <2> QED
      BY <1>2, <2>1, <2>2 DEF Claim, NoFault, queueVars, budgets, QueueTypeOK
  <1>3. ASSUME NEW a \in Slots, ClaimMiss(a) PROVE TypeOK'
    BY <1>3 DEF ClaimMiss, Goto, NoFault, storeVars, queueVars, budgets, StoreTypeOK, QueueTypeOK
  <1>4. ASSUME NEW a \in Slots, WriteBatch(a) PROVE TypeOK'
    BY <1>4 DEF WriteBatch, Goto, NoFault, storeVars, queueVars, budgets, StoreTypeOK, QueueTypeOK
  <1>5. ASSUME NEW a \in Slots, SaveCheckpoint(a) PROVE TypeOK'
    BY <1>5 DEF SaveCheckpoint, SaveProgress, Goto, NoFault, storeVars, queueVars, budgets, StoreTypeOK, QueueTypeOK, WrittenBeforeSaved
  <1>6. ASSUME NEW a \in Slots, AttachPhotos(a) PROVE TypeOK'
    BY <1>6 DEF AttachPhotos, NoFault, storeVars, queueVars, budgets, StoreTypeOK, QueueTypeOK
  <1>7. ASSUME NEW a \in Slots, FinishStage(a) PROVE TypeOK'
    <2>1. StoreTypeOK' /\ checkpoint' <= BatchCount
      <3>1. CASE UNCHANGED storeVars
        BY <3>1 DEF storeVars, StoreTypeOK
      <3>2. CASE CompleteJob(run[a].stage, a, run[a].at) /\ run[a].at = Units(a)
        <4>1. checkpoint' \in Nat /\ checkpoint' <= BatchCount
          BY <3>2 DEF CompleteJob, Units, StoreTypeOK
        <4> QED
          BY <3>2, <4>1 DEF CompleteJob, Move, ReleaseLease, StoreTypeOK
      <3> QED
        BY <1>7, <3>1, <3>2 DEF FinishStage
    <2> QED
      BY <1>7, <2>1 DEF FinishStage, Goto, NoFault, queueVars, budgets, QueueTypeOK
  <1>8. ASSUME NEW a \in Slots, StopWhenLost(a) PROVE TypeOK'
    BY <1>8 DEF StopWhenLost, Goto, NoFault, storeVars, queueVars, budgets, StoreTypeOK, QueueTypeOK
  <1>9. ASSUME NEW a \in Slots, Tell(a) PROVE TypeOK'
    BY <1>9 DEF Tell, Goto, NoFault, storeVars, queueVars, budgets, StoreTypeOK, QueueTypeOK
  <1>10. ASSUME NEW a \in Slots, Return(a) PROVE TypeOK'
    <2>1. QueueTypeOK'
      BY <1>10, DeliveryType DEF Return
    <2> QED
      BY <1>10, <2>1 DEF Return, Rest, NoRun, NoFault, storeVars, budgets, StoreTypeOK
  <1>11. ASSUME NEW a \in Slots, Throw(a) PROVE TypeOK'
    <2>1. QueueTypeOK'
      BY <1>11, DeliveryType DEF Throw
    <2> QED
      BY <1>11, <2>1 DEF Throw, Rest, NoRun, NoFault, storeVars, budgets, StoreTypeOK
  <1>12. ASSUME NEW a \in Slots, GiveBack(a) PROVE TypeOK'
    <2>1. StoreTypeOK' /\ checkpoint' = checkpoint
      BY <1>12 DEF GiveBack, StoreTypeOK, Move, ReleaseLease, storeVars, HandBackJob
    <2> QED
      BY <1>12, <2>1 DEF GiveBack, Goto, NoFault, storeVars, queueVars, budgets, QueueTypeOK
  <1>13. ASSUME NEW a \in Slots, GiveUp(a) PROVE TypeOK'
    <2>1. StoreTypeOK' /\ checkpoint' = checkpoint
      BY <1>13 DEF GiveUp, StoreTypeOK, Move, ReleaseLease, storeVars, FailJob
    <2> QED
      BY <1>13, <2>1 DEF GiveUp, Goto, NoFault, storeVars, queueVars, budgets, QueueTypeOK
  <1>14. ASSUME NEW a \in Slots, BreakOff(a) PROVE TypeOK'
    BY <1>14 DEF BreakOff, Goto, Fault, storeVars, queueVars, StoreTypeOK, QueueTypeOK
  <1>15. ASSUME NEW a \in Slots, TellFails(a) PROVE TypeOK'
    <2>1. run' \in [Slots -> Run]
      BY <1>15 DEF TellFails, Goto
    <2> QED
      BY <1>15, <2>1 DEF TellFails, Fault, storeVars, queueVars, StoreTypeOK, QueueTypeOK
  <1>16. ASSUME NEW a \in Slots, Renew(a) PROVE TypeOK'
    <2>1. StoreTypeOK' /\ checkpoint' = checkpoint
      BY <1>16 DEF Renew, StoreTypeOK, Move, ReleaseLease, storeVars, RenewLease
    <2> QED
      BY <1>16, <2>1 DEF Renew, NoFault, queueVars, pipelineVars, budgets, QueueTypeOK
  <1>17. ASSUME NEW a \in Slots, LearnLost(a) PROVE TypeOK'
    <2>1. [run[a] EXCEPT !.lost = TRUE] \in Run
      OBVIOUS
    <2>2. run' \in [Slots -> Run]
      BY <1>17, <2>1 DEF LearnLost
    <2> QED
      BY <1>17, <2>2 DEF LearnLost, NoFault, storeVars, queueVars, budgets, StoreTypeOK, QueueTypeOK
  <1>18. ASSUME NEW a \in Slots, Crash(a) PROVE TypeOK'
    <2>1. QueueTypeOK'
      BY <1>18, DeliveryType DEF Crash
    <2> QED
      BY <1>18, <2>1 DEF Crash, Rest, NoRun, Fault, storeVars, StoreTypeOK
  <1>19. ASSUME NEW a \in Slots, HandBackAtShutdown(a) PROVE TypeOK'
    <2>1. StoreTypeOK' /\ checkpoint' = checkpoint
      BY <1>19 DEF HandBackAtShutdown, StoreTypeOK, Move, ReleaseLease, storeVars, HandBackJob
    <2> QED
      BY <1>19, <2>1 DEF HandBackAtShutdown, Fault, queueVars, pipelineVars, QueueTypeOK
  <1>20. CASE AbandonedLeaseExpires
    <2>1. StoreTypeOK' /\ checkpoint' = checkpoint
      BY <1>20 DEF AbandonedLeaseExpires, StoreTypeOK, Move, ReleaseLease, storeVars, LeaseExpires
    <2> QED
      BY <1>20, <2>1 DEF AbandonedLeaseExpires, NoFault, queueVars, pipelineVars, budgets, QueueTypeOK
  <1>21. CASE RunningLeaseExpires
    <2>1. StoreTypeOK' /\ checkpoint' = checkpoint
      BY <1>21 DEF RunningLeaseExpires, StoreTypeOK, Move, ReleaseLease, storeVars, LeaseExpires
    <2> QED
      BY <1>21, <2>1 DEF RunningLeaseExpires, Fault, queueVars, pipelineVars, QueueTypeOK
  <1>22. ASSUME NEW r \in Reapers, NEW s \in Stages, ReaperScan(r, s) PROVE TypeOK'
    BY <1>22 DEF ReaperScan, NoFault, storeVars, queueVars, budgets, StoreTypeOK, QueueTypeOK
  <1>23. ASSUME NEW r \in Reapers, ReaperFails(r) PROVE TypeOK'
    <2>1. StoreTypeOK' /\ checkpoint' = checkpoint
      <3>1. CASE UNCHANGED storeVars
        BY <3>1 DEF StoreTypeOK, storeVars
      <3>2. CASE ReapJob(found[r].stage)
        BY <3>2 DEF ReapJob, StoreTypeOK, Move, ReleaseLease
      <3> QED
        BY <1>23, <3>1, <3>2 DEF ReaperFails
    <2> QED
      BY <1>23, <2>1 DEF ReaperFails, NoFinding, NoFault, storeVars, queueVars, budgets, QueueTypeOK
  <1>24. ASSUME NEW r \in Reapers, ReaperRequeues(r) PROVE TypeOK'
    <2>1. QueueTypeOK'
      BY <1>24, ProducerType DEF ReaperRequeues, Producers
    <2> QED
      BY <1>24, <2>1 DEF ReaperRequeues, NoFinding, NoFault, storeVars, budgets, StoreTypeOK
  <1>25. ASSUME NEW q \in Requests, CreateInventoryUpload(q) PROVE TypeOK'
    <2>1. QueueTypeOK'
      BY <1>25, ProducerType DEF CreateInventoryUpload, Producers
    <2>2. StoreTypeOK' /\ checkpoint' = checkpoint
      BY <1>25 DEF CreateInventoryUpload, StoreTypeOK, Move, ReleaseLease, storeVars, CreateJob
    <2> QED
      BY <1>25, <2>1, <2>2 DEF CreateInventoryUpload, NoFault, pipelineVars, budgets
  <1>26. ASSUME NEW q \in Requests, AttachInventoryImagesZip(q) PROVE TypeOK'
    <2>1. QueueTypeOK'
      BY <1>26, ProducerType DEF AttachInventoryImagesZip, Producers
    <2>2. StoreTypeOK' /\ checkpoint' = checkpoint
      BY <1>26 DEF AttachInventoryImagesZip, StoreTypeOK, Move, ReleaseLease, storeVars, MarkImagesPending
    <2> QED
      BY <1>26, <2>1, <2>2 DEF AttachInventoryImagesZip, Ask
  <1>27. ASSUME NEW q \in Requests, NEW s \in Stages, RetryDealerUpload(q, s) PROVE TypeOK'
    <2>1. QueueTypeOK'
      BY <1>27, ProducerType DEF RetryDealerUpload, Producers
    <2>2. StoreTypeOK' /\ checkpoint' = checkpoint
      BY <1>27 DEF RetryDealerUpload, StoreTypeOK, Move, ReleaseLease, storeVars, ResetFailedJob
    <2> QED
      BY <1>27, <2>1, <2>2 DEF RetryDealerUpload, Ask
  <1>28. ASSUME NEW p \in Producers, EnsureQueued(p) PROVE TypeOK'
    <2>1. QueueTypeOK'
      BY <1>28, ProducerType DEF EnsureQueued
    <2> QED
      BY <1>28, <2>1 DEF EnsureQueued, NoFault, storeVars, pipelineVars, budgets, StoreTypeOK
  <1>29. ASSUME NEW p \in Producers, ProducerFails(p) PROVE TypeOK'
    <2>1. QueueTypeOK'
      BY <1>29, ProducerType DEF ProducerFails
    <2> QED
      BY <1>29, <2>1 DEF ProducerFails, Fault, storeVars, pipelineVars, StoreTypeOK
  <1>30. ASSUME NEW s \in Stages, OrphanStalls(s) PROVE TypeOK'
    <2>1. QueueTypeOK'
      BY <1>30, RedisType DEF OrphanStalls
    <2> QED
      BY <1>30, <2>1 DEF OrphanStalls, NoFault, storeVars, pipelineVars, budgets, StoreTypeOK
  <1>31. ASSUME NEW s \in Stages, MessageFault(s) PROVE TypeOK'
    <2>1. QueueTypeOK'
      BY <1>31, RedisType DEF MessageFault
    <2> QED
      BY <1>31, <2>1 DEF MessageFault, Fault, storeVars, pipelineVars, StoreTypeOK
  <1> QED
    BY <1>1, <1>2, <1>3, <1>4, <1>5, <1>6, <1>7, <1>8, <1>9, <1>10, <1>11, <1>12, <1>13, <1>14, <1>15, <1>16, <1>17, <1>18, <1>19, <1>20, <1>21, <1>22, <1>23, <1>24, <1>25, <1>26, <1>27, <1>28, <1>29, <1>30, <1>31
       DEF Next, Attempt, AttemptError, Lease, Reaper, Dealer

(***************************************************************************)
(* The rest of the inductive invariant.  Most steps are quiet: they touch  *)
(* neither the document nor what a working attempt has done.               *)
(***************************************************************************)
SameWork(a) ==
  /\ run'[a].pc = run[a].pc
  /\ run'[a].stage = run[a].stage
  /\ run'[a].at = run[a].at
Idles(a) == run'[a].pc \notin {"work", "written"}

LEMMA QuietStep ==
  ASSUME IndInv, UNCHANGED <<status, leaseOwner, checkpoint, written>>,
         \A a \in Slots : SameWork(a) \/ Idles(a)
  PROVE  Coherent'
  BY DEF IndInv, Coherent, Groundwork, PhotosAfterCsv, WrittenBeforeSaved, LeaseIffProcessing,
         CheckpointIsDurable, CompletedIsWhole, HolderIsCurrent, Working, Holds, HeldBy,
         SameWork, Idles

\* A stage leaves "processing" or "pending" without completing: the lease goes
\* with it, and nothing else changes but the attempt that did it.
LEMMA YieldStep ==
  ASSUME IndInv, NEW s \in Stages, NEW to \in {"pending", "failed"},
         status[s] \in {"pending", "processing", "failed"},
         Move(s, to), ReleaseLease, UNCHANGED <<checkpoint, written>>,
         \A a \in Slots : SameWork(a) \/ Idles(a)
  PROVE  Coherent'
  <1> USE DEF IndInv, Coherent, TypeOK, StoreTypeOK, Move, ReleaseLease
  <1>1. Groundwork'
    BY DEF Groundwork, PhotosAfterCsv, WrittenBeforeSaved, SameWork, Idles
  <1>2. LeaseIffProcessing'
    BY DEF LeaseIffProcessing, Groundwork, PhotosAfterCsv
  <1>3. CheckpointIsDurable' /\ CompletedIsWhole'
    BY DEF CheckpointIsDurable, CompletedIsWhole
  <1>4. HolderIsCurrent'
    BY NoSlotAssumption DEF HolderIsCurrent, Holds, HeldBy
  <1> QED
    BY <1>1, <1>2, <1>3, <1>4

\* The steps of an attempt that are not quiet.
LEMMA ClaimStep ==
  ASSUME IndInv, NEW a \in Slots, Claim(a)
  PROVE  Coherent'
  <1> USE NoSlotAssumption
      DEF IndInv, Coherent, TypeOK, StoreTypeOK, Run, Claim, ClaimJob, Claimable, Move
  <1>1. Groundwork'
    BY DEF Groundwork, PhotosAfterCsv, WrittenBeforeSaved
  <1>2. LeaseIffProcessing'
    BY DEF LeaseIffProcessing
  <1>3. CheckpointIsDurable' /\ CompletedIsWhole'
    BY DEF CheckpointIsDurable, CompletedIsWhole
  <1>4. HolderIsCurrent'
    BY DEF HolderIsCurrent, Working, Holds, HeldBy
  <1> QED
    BY <1>1, <1>2, <1>3, <1>4

LEMMA WriteBatchStep ==
  ASSUME IndInv, NEW a \in Slots, WriteBatch(a)
  PROVE  Coherent'
  <1> USE DEF IndInv, Coherent, TypeOK, Run, WriteBatch, Goto, storeVars
  <1>1. Groundwork'
    BY DEF Groundwork, PhotosAfterCsv, WrittenBeforeSaved
  <1>2. LeaseIffProcessing' /\ CheckpointIsDurable'
    BY DEF LeaseIffProcessing, CheckpointIsDurable
  <1>3. CompletedIsWhole'
    BY BatchCountAssumption DEF CompletedIsWhole, Batches
  <1>4. HolderIsCurrent'
    BY DEF HolderIsCurrent, Working, Holds, HeldBy
  <1> QED
    BY <1>1, <1>2, <1>3, <1>4

LEMMA SaveCheckpointStep ==
  ASSUME IndInv, NEW a \in Slots, SaveCheckpoint(a)
  PROVE  Coherent'
  <1> USE DEF IndInv, Coherent, TypeOK, StoreTypeOK, Run
  <1>1. CASE ~Holds(a)
    BY <1>1, QuietStep DEF SaveCheckpoint, Goto, storeVars, SameWork, Idles
  <1>2. CASE Holds(a)
    <2> USE <1>2 DEF SaveCheckpoint, SaveProgress
    <2>1. run[a].stage = "csv" /\ run[a].at = checkpoint /\ run[a].at + 1 \in written
      BY DEF Groundwork, WrittenBeforeSaved, HolderIsCurrent, Working
    <2>2. Groundwork' /\ LeaseIffProcessing'
      BY <2>1 DEF Groundwork, PhotosAfterCsv, WrittenBeforeSaved, LeaseIffProcessing
    <2>3. CheckpointIsDurable' /\ CompletedIsWhole'
      BY <2>1 DEF CheckpointIsDurable, CompletedIsWhole, Batches
    <2>4. HolderIsCurrent'
      BY <2>1 DEF HolderIsCurrent, Working, Holds, HeldBy
    <2> QED
      BY <2>2, <2>3, <2>4
  <1> QED
    BY <1>1, <1>2

LEMMA AttachPhotosStep ==
  ASSUME IndInv, NEW a \in Slots, AttachPhotos(a)
  PROVE  Coherent'
  BY DEF IndInv, Coherent, TypeOK, Run, AttachPhotos, storeVars, Groundwork, PhotosAfterCsv,
         WrittenBeforeSaved, LeaseIffProcessing, CheckpointIsDurable, CompletedIsWhole,
         HolderIsCurrent, Working, Holds, HeldBy

LEMMA FinishStageStep ==
  ASSUME IndInv, NEW a \in Slots, FinishStage(a)
  PROVE  Coherent'
  <1> USE DEF IndInv, Coherent, TypeOK, StoreTypeOK, Run
  <1>1. CASE ~Holds(a)
    BY <1>1, QuietStep DEF FinishStage, Goto, storeVars, SameWork, Idles
  <1>2. CASE Holds(a)
    <2> USE <1>2 DEF FinishStage, CompleteJob, Move, ReleaseLease, Goto
    <2>1. Groundwork'
      BY DEF Groundwork, PhotosAfterCsv, WrittenBeforeSaved, Holds, HeldBy
    <2>2. LeaseIffProcessing'
      BY DEF LeaseIffProcessing, Groundwork, PhotosAfterCsv, Holds, HeldBy
    <2>3. checkpoint' = checkpoint
      BY DEF HolderIsCurrent, Working
    <2>4. CheckpointIsDurable' /\ CompletedIsWhole'
      <3>1. CASE run[a].stage = "csv"
        <4>1. checkpoint = BatchCount
          BY <3>1 DEF HolderIsCurrent, Working, Units
        <4>2. written = Batches
          <5>1. \A b \in Batches : b <= BatchCount
            BY BatchCountAssumption DEF Batches
          <5>2. \A b \in Batches : b \in written
            BY <4>1, <5>1 DEF CheckpointIsDurable
          <5> QED
            BY <5>2
        <4> QED
          BY <2>3, <4>2 DEF CheckpointIsDurable, CompletedIsWhole
      <3>2. CASE run[a].stage = "images"
        BY <2>3, <3>2 DEF CheckpointIsDurable, CompletedIsWhole
      <3> QED
        BY <3>1, <3>2
    <2>5. HolderIsCurrent'
      BY NoSlotAssumption DEF HolderIsCurrent, Working, Holds, HeldBy
    <2> QED
      BY <2>1, <2>2, <2>4, <2>5
  <1> QED
    BY <1>1, <1>2

LEMMA CoherentStep ==
  ASSUME IndInv, Next
  PROVE  Coherent'
  <1> USE DEF IndInv, TypeOK, StoreTypeOK, Run, Finding, SameWork, Idles
  <1>1. ASSUME NEW a \in Slots, NEW s \in Stages, TakeMessage(a, s) PROVE Coherent'
    BY <1>1, QuietStep DEF TakeMessage, NoFault, storeVars
  <1>2. ASSUME NEW a \in Slots, ClaimMiss(a) PROVE Coherent'
    BY <1>2, QuietStep DEF ClaimMiss, Goto, storeVars
  <1>3. ASSUME NEW a \in Slots, StopWhenLost(a) PROVE Coherent'
    BY <1>3, QuietStep DEF StopWhenLost, Goto, storeVars
  <1>4. ASSUME NEW a \in Slots, Tell(a) PROVE Coherent'
    BY <1>4, QuietStep DEF Tell, Goto, storeVars
  <1>5. ASSUME NEW a \in Slots, Return(a) PROVE Coherent'
    BY <1>5, QuietStep DEF Return, Rest, NoRun, storeVars
  <1>6. ASSUME NEW a \in Slots, Throw(a) PROVE Coherent'
    BY <1>6, QuietStep DEF Throw, Rest, NoRun, storeVars
  <1>7. ASSUME NEW a \in Slots, BreakOff(a) PROVE Coherent'
    BY <1>7, QuietStep DEF BreakOff, Goto, storeVars
  <1>8. ASSUME NEW a \in Slots, TellFails(a) PROVE Coherent'
    BY <1>8, QuietStep DEF TellFails, Goto, storeVars
  <1>9. ASSUME NEW a \in Slots, Renew(a) PROVE Coherent'
    BY <1>9, QuietStep DEF Renew, RenewLease, pipelineVars
  <1>10. ASSUME NEW a \in Slots, LearnLost(a) PROVE Coherent'
    BY <1>10, QuietStep DEF LearnLost, storeVars
  <1>11. ASSUME NEW a \in Slots, Crash(a) PROVE Coherent'
    BY <1>11, QuietStep DEF Crash, Rest, NoRun, storeVars
  <1>12. ASSUME NEW a \in Slots, Claim(a) PROVE Coherent'
    BY <1>12, ClaimStep
  <1>13. ASSUME NEW a \in Slots, WriteBatch(a) PROVE Coherent'
    BY <1>13, WriteBatchStep
  <1>14. ASSUME NEW a \in Slots, SaveCheckpoint(a) PROVE Coherent'
    BY <1>14, SaveCheckpointStep
  <1>15. ASSUME NEW a \in Slots, AttachPhotos(a) PROVE Coherent'
    BY <1>15, AttachPhotosStep
  <1>16. ASSUME NEW a \in Slots, FinishStage(a) PROVE Coherent'
    BY <1>16, FinishStageStep
  <1>17. ASSUME NEW a \in Slots, GiveBack(a) PROVE Coherent'
    <2>1. CASE ~Holds(a)
      BY <1>17, <2>1, QuietStep DEF GiveBack, Goto, storeVars
    <2>2. CASE Holds(a)
      BY <1>17, <2>2, YieldStep DEF GiveBack, HandBackJob, HeldBy, Goto
    <2> QED
      BY <2>1, <2>2
  <1>18. ASSUME NEW a \in Slots, GiveUp(a) PROVE Coherent'
    <2>1. CASE ~Holds(a)
      BY <1>18, <2>1, QuietStep DEF GiveUp, Goto, storeVars
    <2>2. CASE Holds(a)
      BY <1>18, <2>2, YieldStep DEF GiveUp, FailJob, HeldBy, Goto
    <2> QED
      BY <2>1, <2>2
  <1>19. ASSUME NEW a \in Slots, HandBackAtShutdown(a) PROVE Coherent'
    BY <1>19, YieldStep DEF HandBackAtShutdown, HandBackJob, HeldBy, pipelineVars
  <1>20. CASE AbandonedLeaseExpires
    BY <1>20, QuietStep DEF AbandonedLeaseExpires, LeaseExpires, pipelineVars
  <1>21. CASE RunningLeaseExpires
    BY <1>21, QuietStep DEF RunningLeaseExpires, LeaseExpires, pipelineVars
  <1>22. ASSUME NEW r \in Reapers, NEW s \in Stages, ReaperScan(r, s) PROVE Coherent'
    BY <1>22, QuietStep DEF ReaperScan, storeVars
  <1>23. ASSUME NEW r \in Reapers, ReaperRequeues(r) PROVE Coherent'
    BY <1>23, QuietStep DEF ReaperRequeues, storeVars
  <1>24. ASSUME NEW p \in Producers, EnsureQueued(p) PROVE Coherent'
    BY <1>24, QuietStep DEF EnsureQueued, storeVars, pipelineVars
  <1>25. ASSUME NEW p \in Producers, ProducerFails(p) PROVE Coherent'
    BY <1>25, QuietStep DEF ProducerFails, storeVars, pipelineVars
  <1>26. ASSUME NEW s \in Stages, OrphanStalls(s) PROVE Coherent'
    BY <1>26, QuietStep DEF OrphanStalls, storeVars, pipelineVars
  <1>27. ASSUME NEW s \in Stages, MessageFault(s) PROVE Coherent'
    BY <1>27, QuietStep DEF MessageFault, storeVars, pipelineVars
  <1>28. ASSUME NEW r \in Reapers, ReaperFails(r) PROVE Coherent'
    <2>1. CASE status[found[r].stage] \notin Open
      BY <1>28, <2>1, QuietStep DEF ReaperFails, storeVars
    <2>2. CASE status[found[r].stage] \in Open
      BY <1>28, <2>2, YieldStep DEF ReaperFails, ReapJob
    <2> QED
      BY <2>1, <2>2
  <1>29. ASSUME NEW q \in Requests, NEW s \in Stages, RetryDealerUpload(q, s) PROVE Coherent'
    BY <1>29, YieldStep DEF RetryDealerUpload, ResetFailedJob
  <1>30. ASSUME NEW q \in Requests, CreateInventoryUpload(q) PROVE Coherent'
    BY <1>30 DEF CreateInventoryUpload, CreateJob, Move, pipelineVars, Coherent, Groundwork, PhotosAfterCsv,
                  WrittenBeforeSaved, LeaseIffProcessing, CheckpointIsDurable, CompletedIsWhole,
                  HolderIsCurrent, Working, Holds, HeldBy
  <1>31. ASSUME NEW q \in Requests, AttachInventoryImagesZip(q) PROVE Coherent'
    BY <1>31 DEF AttachInventoryImagesZip, MarkImagesPending, Move, pipelineVars, Coherent, Groundwork, PhotosAfterCsv,
                  WrittenBeforeSaved, LeaseIffProcessing, CheckpointIsDurable, CompletedIsWhole,
                  HolderIsCurrent, Working, Holds, HeldBy
  <1> QED
    BY <1>1, <1>2, <1>3, <1>4, <1>5, <1>6, <1>7, <1>8, <1>9, <1>10, <1>11, <1>12, <1>13, <1>14, <1>15, <1>16, <1>17, <1>18, <1>19, <1>20, <1>21, <1>22, <1>23, <1>24, <1>25, <1>26, <1>27, <1>28, <1>29, <1>30, <1>31, Next
       DEF Next, Attempt, AttemptError, Lease, Reaper, Dealer

(***************************************************************************)
(* The invariant, and the safety properties it yields.                     *)
(***************************************************************************)

\* Whatever the numbers of slots, reapers, requests and batches, the limits and
\* the faults, the pipeline's state is coherent.
THEOREM Invariance == Spec => []IndInv
  <1>1. Init => IndInv
    <2> SUFFICES ASSUME Init PROVE IndInv
      OBVIOUS
    <2> USE DEF Init, StoreInit, QueueInit, NoRun, NoFinding, NoMessage, NotAdding
    <2>1. StoreTypeOK /\ checkpoint <= BatchCount /\ QueueTypeOK
      <3>1. StoreTypeOK /\ checkpoint <= BatchCount
        <4>1. leaseLive \in BOOLEAN
          BY Zenon
        <4> QED
          BY <4>1, BatchCountAssumption DEF StoreTypeOK
      <3>2. NoMessage \in Message /\ NotAdding \in Adding
        BY DEF Message, Adding
      <3> HIDE DEF NoMessage, NotAdding
      <3>3. QueueTypeOK
        BY <3>2 DEF QueueTypeOK
      <3> QED
        BY <3>1, <3>3
    <2>2. run \in [Slots -> Run] /\ found \in [Reapers -> Finding]
      BY BatchCountAssumption DEF Run, Finding
    <2>3. TypeOK
      BY <2>1, <2>2, BoundsAssumption DEF TypeOK, ToldValues
    <2>4. Coherent
      BY BatchCountAssumption
         DEF Coherent, Groundwork, PhotosAfterCsv, WrittenBeforeSaved, LeaseIffProcessing,
             CheckpointIsDurable, CompletedIsWhole, HolderIsCurrent, Working, Batches
    <2> QED
      BY <2>3, <2>4 DEF IndInv
  <1>2. IndInv /\ [Next]_vars => IndInv'
    <2> SUFFICES ASSUME IndInv, [Next]_vars PROVE IndInv'
      OBVIOUS
    <2>1. CASE Next
      BY <2>1, TypeStep, CoherentStep DEF IndInv, Coherent, Groundwork
    <2>2. CASE UNCHANGED vars
      BY <2>2 DEF IndInv, TypeOK, StoreTypeOK, QueueTypeOK, Coherent, Groundwork, PhotosAfterCsv,
         WrittenBeforeSaved, LeaseIffProcessing, CheckpointIsDurable, CompletedIsWhole,
         HolderIsCurrent, Working, Holds, HeldBy, vars, storeVars, queueVars, pipelineVars, budgets
    <2> QED
      BY <2>1, <2>2
  <1> QED
    BY <1>1, <1>2, PTL DEF Spec

\* The document, the queue, the attempts, reapers and requests keep their shape.
THEOREM PipelineTypes == Spec => []TypeOK
  <1>1. IndInv => TypeOK
    BY DEF IndInv
  <1> QED
    BY <1>1, Invariance, PTL

\* The stages are never open together, the lease is there exactly when it should
\* be, and its holder's counters are the document's.
THEOREM LeaseSoundness == Spec => []LeasesAreSound
  <1>1. IndInv => OneStageAtATime
    BY DEF IndInv, Coherent, Groundwork, PhotosAfterCsv, OneStageAtATime
  <1>2. IndInv => LeasesAreSound
    BY <1>1 DEF IndInv, Coherent, LeasesAreSound
  <1> QED
    BY <1>2, Invariance, PTL

\* What the checkpoint counts is written, and a completed import is whole.
THEOREM NoBatchIsSkipped == Spec => []NothingIsSkipped
  <1>1. IndInv => NothingIsSkipped
    BY DEF IndInv, Coherent, NothingIsSkipped
  <1> QED
    BY <1>1, Invariance, PTL

(***************************************************************************)
(* The pipeline implements the lifecycle: every step is a step of it, or   *)
(* changes nothing that it shows.                                          *)
(***************************************************************************)
LEMMA LifecycleStep ==
  ASSUME IndInv, Next
  PROVE  [Lifecycle!Next]_<<status, checkpoint>>
  <1> USE DEF IndInv, TypeOK, StoreTypeOK, Run, Finding, storeVars, Move, HeldBy,
              Lifecycle!Stages, Lifecycle!Open, Lifecycle!Next, Lifecycle!Move
  <1>1. ASSUME NEW a \in Slots, NEW s \in Stages, TakeMessage(a, s) PROVE UNCHANGED <<status, checkpoint>>
    BY <1>1 DEF TakeMessage
  <1>2. ASSUME NEW a \in Slots, ClaimMiss(a) PROVE UNCHANGED <<status, checkpoint>>
    BY <1>2 DEF ClaimMiss
  <1>3. ASSUME NEW a \in Slots, WriteBatch(a) PROVE UNCHANGED <<status, checkpoint>>
    BY <1>3 DEF WriteBatch
  <1>4. ASSUME NEW a \in Slots, AttachPhotos(a) PROVE UNCHANGED <<status, checkpoint>>
    BY <1>4 DEF AttachPhotos
  <1>5. ASSUME NEW a \in Slots, StopWhenLost(a) PROVE UNCHANGED <<status, checkpoint>>
    BY <1>5 DEF StopWhenLost
  <1>6. ASSUME NEW a \in Slots, Tell(a) PROVE UNCHANGED <<status, checkpoint>>
    BY <1>6 DEF Tell
  <1>7. ASSUME NEW a \in Slots, Return(a) PROVE UNCHANGED <<status, checkpoint>>
    BY <1>7 DEF Return
  <1>8. ASSUME NEW a \in Slots, Throw(a) PROVE UNCHANGED <<status, checkpoint>>
    BY <1>8 DEF Throw
  <1>9. ASSUME NEW a \in Slots, BreakOff(a) PROVE UNCHANGED <<status, checkpoint>>
    BY <1>9 DEF BreakOff
  <1>10. ASSUME NEW a \in Slots, TellFails(a) PROVE UNCHANGED <<status, checkpoint>>
    BY <1>10 DEF TellFails
  <1>11. ASSUME NEW a \in Slots, LearnLost(a) PROVE UNCHANGED <<status, checkpoint>>
    BY <1>11 DEF LearnLost
  <1>12. ASSUME NEW a \in Slots, Crash(a) PROVE UNCHANGED <<status, checkpoint>>
    BY <1>12 DEF Crash
  <1>13. ASSUME NEW a \in Slots, Renew(a) PROVE UNCHANGED <<status, checkpoint>>
    BY <1>13 DEF Renew, RenewLease
  <1>14. ASSUME NEW r \in Reapers, NEW s \in Stages, ReaperScan(r, s) PROVE UNCHANGED <<status, checkpoint>>
    BY <1>14 DEF ReaperScan
  <1>15. ASSUME NEW r \in Reapers, ReaperRequeues(r) PROVE UNCHANGED <<status, checkpoint>>
    BY <1>15 DEF ReaperRequeues
  <1>16. ASSUME NEW p \in Producers, EnsureQueued(p) PROVE UNCHANGED <<status, checkpoint>>
    BY <1>16 DEF EnsureQueued
  <1>17. ASSUME NEW p \in Producers, ProducerFails(p) PROVE UNCHANGED <<status, checkpoint>>
    BY <1>17 DEF ProducerFails
  <1>18. ASSUME NEW s \in Stages, OrphanStalls(s) PROVE UNCHANGED <<status, checkpoint>>
    BY <1>18 DEF OrphanStalls
  <1>19. ASSUME NEW s \in Stages, MessageFault(s) PROVE UNCHANGED <<status, checkpoint>>
    BY <1>19 DEF MessageFault
  <1>20. CASE AbandonedLeaseExpires \/ RunningLeaseExpires
    BY <1>20 DEF AbandonedLeaseExpires, RunningLeaseExpires, LeaseExpires
  <1>21. ASSUME NEW a \in Slots, Claim(a) PROVE [Lifecycle!Next]_<<status, checkpoint>>
    BY <1>21 DEF Claim, ClaimJob, Claimable, Lifecycle!Begin
  <1>22. ASSUME NEW a \in Slots, SaveCheckpoint(a) PROVE [Lifecycle!Next]_<<status, checkpoint>>
    <2>1. CASE Holds(a)
      <3>1. run[a].at = checkpoint /\ run[a].at + 1 \in Batches
        BY <1>22, <2>1 DEF SaveCheckpoint, Coherent, Groundwork, WrittenBeforeSaved,
                          HolderIsCurrent, Working
      <3> QED
        BY <1>22, <2>1, <3>1, BatchCountAssumption
           DEF SaveCheckpoint, SaveProgress, Batches, Lifecycle!Advance
    <2> QED
      BY <1>22, <2>1 DEF SaveCheckpoint
  <1>23. ASSUME NEW a \in Slots, FinishStage(a) PROVE [Lifecycle!Next]_<<status, checkpoint>>
    <2>1. CASE Holds(a)
      <3>1. checkpoint' = checkpoint /\ (run[a].stage = "csv" => checkpoint = BatchCount)
        BY <1>23, <2>1 DEF FinishStage, CompleteJob, Coherent, HolderIsCurrent, Working, Units
      <3> QED
        BY <1>23, <2>1, <3>1
           DEF FinishStage, CompleteJob, Lifecycle!Complete, Lifecycle!Settle
    <2> QED
      BY <1>23, <2>1 DEF FinishStage
  <1>24. ASSUME NEW a \in Slots, GiveBack(a) PROVE [Lifecycle!Next]_<<status, checkpoint>>
    BY <1>24 DEF GiveBack, HandBackJob, Lifecycle!SetBack
  <1>25. ASSUME NEW a \in Slots, GiveUp(a) PROVE [Lifecycle!Next]_<<status, checkpoint>>
    BY <1>25 DEF GiveUp, FailJob, Lifecycle!Fail, Lifecycle!Settle
  <1>26. ASSUME NEW a \in Slots, HandBackAtShutdown(a) PROVE [Lifecycle!Next]_<<status, checkpoint>>
    BY <1>26 DEF HandBackAtShutdown, HandBackJob, Lifecycle!SetBack
  <1>27. ASSUME NEW r \in Reapers, ReaperFails(r) PROVE [Lifecycle!Next]_<<status, checkpoint>>
    BY <1>27 DEF ReaperFails, ReapJob, Lifecycle!Fail, Lifecycle!Settle
  <1>28. ASSUME NEW q \in Requests, CreateInventoryUpload(q) PROVE [Lifecycle!Next]_<<status, checkpoint>>
    BY <1>28 DEF CreateInventoryUpload, CreateJob, Lifecycle!Submit
  <1>29. ASSUME NEW q \in Requests, AttachInventoryImagesZip(q) PROVE [Lifecycle!Next]_<<status, checkpoint>>
    BY <1>29 DEF AttachInventoryImagesZip, MarkImagesPending, Lifecycle!AddPhotos
  <1>30. ASSUME NEW q \in Requests, NEW s \in Stages, RetryDealerUpload(q, s)
          PROVE  [Lifecycle!Next]_<<status, checkpoint>>
    BY <1>30 DEF RetryDealerUpload, ResetFailedJob, Lifecycle!Retry
  <1> QED
    BY <1>1, <1>2, <1>3, <1>4, <1>5, <1>6, <1>7, <1>8, <1>9, <1>10, <1>11, <1>12, <1>13, <1>14, <1>15, <1>16, <1>17, <1>18, <1>19, <1>20, <1>21, <1>22, <1>23, <1>24, <1>25, <1>26, <1>27, <1>28, <1>29, <1>30, Next
       DEF Next, Attempt, AttemptError, Lease, Reaper, Dealer

\* The pipeline is an implementation of the lifecycle that the dealer is promised.
THEOREM PipelineImplementsLifecycle == Spec => ImplementsLifecycle
  <1>1. Init => Lifecycle!Init
    BY DEF Init, StoreInit, Lifecycle!Init, Lifecycle!Stages
  <1>2. IndInv /\ [Next]_vars => [Lifecycle!Next]_<<status, checkpoint>>
    BY LifecycleStep DEF vars, storeVars
  <1> QED
    BY <1>1, <1>2, Invariance, PTL DEF Spec, ImplementsLifecycle, Lifecycle!Spec, Lifecycle!lifecycleVars

\* No attempt, however late, takes the checkpoint back.
THEOREM CheckpointNeverGoesBack == Spec => CheckpointGrows
  <1>1. IndInv /\ [Next]_vars => [checkpoint' >= checkpoint]_vars
    <2> SUFFICES ASSUME IndInv, Next PROVE checkpoint' >= checkpoint
      OBVIOUS
    <2>1. checkpoint \in Nat
      BY DEF IndInv, TypeOK, StoreTypeOK
    <2> QED
      BY <2>1, LifecycleStep
         DEF Lifecycle!Next, Lifecycle!Submit, Lifecycle!AddPhotos, Lifecycle!Advance,
             Lifecycle!Begin, Lifecycle!SetBack, Lifecycle!Settle, Lifecycle!Complete,
             Lifecycle!Fail, Lifecycle!Retry, Lifecycle!Move
  <1> QED
    BY <1>1, Invariance, PTL DEF Spec, CheckpointGrows

\* Nothing reopens a completed CSV import.
THEOREM CompletionIsFinal == Spec => CompletedIsFinal
  <1>1. IndInv /\ [Next]_vars =>
          [status["csv"] = "completed" => status'["csv"] = "completed"]_vars
    <2> SUFFICES ASSUME IndInv, Next, status["csv"] = "completed"
                 PROVE  status'["csv"] = "completed"
      OBVIOUS
    <2>1. status \in [Stages -> StatusValues]
      BY DEF IndInv, TypeOK, StoreTypeOK
    <2> QED
      BY <2>1, LifecycleStep
         DEF Lifecycle!Next, Lifecycle!Submit, Lifecycle!AddPhotos, Lifecycle!Advance,
             Lifecycle!Begin, Lifecycle!SetBack, Lifecycle!Settle, Lifecycle!Complete,
             Lifecycle!Fail, Lifecycle!Retry, Lifecycle!Move, Lifecycle!Stages, Lifecycle!Open
  <1> QED
    BY <1>1, Invariance, PTL DEF Spec, CompletedIsFinal

(***************************************************************************)
(* Only these steps touch what the dealer is told or who is about to tell. *)
(***************************************************************************)
LEMMA TellStep ==
  ASSUME TypeOK, Next, TellersAreRight, ToldIsTrue,
         status["csv"] = "completed" => status'["csv"] = "completed"
  PROVE  TellersAreRight' /\ ToldIsTrue'
  <1> USE DEF TypeOK, Run, TellersAreRight, ToldIsTrue
  <1>1. ASSUME NEW a \in Slots, Tell(a) PROVE TellersAreRight' /\ ToldIsTrue'
    BY <1>1 DEF Tell, Goto
  <1>2. ASSUME NEW a \in Slots, FinishStage(a) PROVE TellersAreRight' /\ ToldIsTrue'
    <2>1. CASE Holds(a)
      BY <1>2, <2>1 DEF FinishStage, Goto, CompleteJob, Move, Holds, HeldBy, StoreTypeOK
    <2> QED
      BY <1>2, <2>1 DEF FinishStage, Goto
  <1>3. ASSUME NEW a \in Slots,
               \/ \E s \in Stages : TakeMessage(a, s)
               \/ Claim(a) \/ ClaimMiss(a) \/ WriteBatch(a) \/ SaveCheckpoint(a)
               \/ AttachPhotos(a) \/ StopWhenLost(a) \/ GiveBack(a) \/ GiveUp(a)
               \/ BreakOff(a) \/ TellFails(a) \/ Return(a) \/ Throw(a)
               \/ LearnLost(a) \/ Crash(a)
        PROVE  TellersAreRight' /\ ToldIsTrue'
    <2> DEFINE Kept == told' = told /\ \A b \in Slots :
                 run'[b].pc = "tellDone" => run[b].pc = "tellDone" /\ run'[b].stage = run[b].stage
    <2>1. ASSUME \E s \in Stages : TakeMessage(a, s) PROVE Kept
      BY <2>1 DEF TakeMessage
    <2>2. ASSUME Claim(a) PROVE Kept
      BY <2>2 DEF Claim
    <2>3. ASSUME ClaimMiss(a) \/ WriteBatch(a) \/ SaveCheckpoint(a) \/ AttachPhotos(a) PROVE Kept
      BY <2>3 DEF ClaimMiss, WriteBatch, SaveCheckpoint, AttachPhotos, Goto
    <2>4. ASSUME StopWhenLost(a) \/ GiveBack(a) \/ GiveUp(a) \/ BreakOff(a) PROVE Kept
      BY <2>4 DEF StopWhenLost, GiveBack, GiveUp, BreakOff, Goto
    <2>5. ASSUME TellFails(a) PROVE Kept
      BY <2>5 DEF TellFails, Goto
    <2>6. ASSUME LearnLost(a) PROVE Kept
      BY <2>6 DEF LearnLost
    <2>7. ASSUME Return(a) \/ Throw(a) \/ Crash(a) PROVE Kept
      BY <2>7 DEF Return, Throw, Crash, Rest, NoRun
    <2>8. Kept
      BY <1>3, <2>1, <2>2, <2>3, <2>4, <2>5, <2>6, <2>7
    <2>9. TellersAreRight'
      <3> SUFFICES ASSUME NEW b \in Slots, run'[b].pc = "tellDone", run'[b].stage = "csv"
                   PROVE  status'["csv"] = "completed"
        OBVIOUS
      <3> QED
        BY <2>8
    <2>10. ToldIsTrue'
      BY <2>8
    <2> QED
      BY <2>9, <2>10
  <1>4. ASSUME run' = run, \A s \in Stages : told'[s] = told[s] \/ told'[s] = "nothing"
        PROVE  TellersAreRight' /\ ToldIsTrue'
    BY <1>4
  <1>5. ASSUME NEW q \in Requests, Dealer(q) PROVE TellersAreRight' /\ ToldIsTrue'
    BY <1>4, <1>5 DEF Dealer, CreateInventoryUpload, AttachInventoryImagesZip,
                      RetryDealerUpload, pipelineVars
  <1>6. ASSUME \/ \E a \in Slots : Renew(a) \/ HandBackAtShutdown(a)
               \/ AbandonedLeaseExpires \/ RunningLeaseExpires
               \/ \E r \in Reapers : Reaper(r)
               \/ \E p \in Producers : EnsureQueued(p) \/ ProducerFails(p)
               \/ \E s \in Stages : OrphanStalls(s) \/ MessageFault(s)
        PROVE  TellersAreRight' /\ ToldIsTrue'
    <2>1. UNCHANGED <<run, told>>
      BY <1>6 DEF Renew, HandBackAtShutdown, AbandonedLeaseExpires, RunningLeaseExpires,
                  Reaper, ReaperScan, ReaperFails, ReaperRequeues, EnsureQueued,
                  ProducerFails, OrphanStalls, MessageFault, pipelineVars
    <2> QED
      BY <1>4, <2>1
  <1> QED
    BY <1>1, <1>2, <1>3, <1>5, <1>6 DEF Next, Attempt, AttemptError, Lease

\* A dealer who is told that the import completed can rely on it.
THEOREM NotificationIsTrue == Spec => []ToldIsTrue
  <1> DEFINE Inv == TellersAreRight /\ ToldIsTrue
  <1>1. Init => Inv
    BY DEF Init, NoRun, TellersAreRight, ToldIsTrue
  <1>2. IndInv /\ Inv /\ [Next]_vars
          /\ [status["csv"] = "completed" => status'["csv"] = "completed"]_vars => Inv'
    <2>1. CASE UNCHANGED vars
      BY <2>1 DEF TellersAreRight, ToldIsTrue, vars, storeVars, pipelineVars
    <2>2. CASE ~ UNCHANGED vars
      BY <2>2, TellStep DEF IndInv
    <2> QED
      BY <2>1, <2>2
  <1> QED
    BY <1>1, <1>2, Invariance, CompletionIsFinal, PTL DEF Spec, CompletedIsFinal
=============================================================================
