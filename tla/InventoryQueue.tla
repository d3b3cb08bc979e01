--------------------------- MODULE InventoryQueue ---------------------------
(***************************************************************************)
(* The BullMQ queue as this code uses it: one message per stage of an      *)
(* upload, under a fixed id (packages/shared-contracts/src/queue), and the *)
(* "ensure it is queued" procedure that backend and reaper both follow     *)
(* (inventory.queue.ts addUnderFixedId, reaper.job.ts ensureQueued): look  *)
(* at the message, remove it if it has finished, add a new one.  The three *)
(* calls are separate Redis round trips, so they interleave.               *)
(*                                                                         *)
(* BullMQ itself is external: waiting stands for waiting, delayed and      *)
(* prioritized, finished for completed and failed.                         *)
(***************************************************************************)
EXTENDS InventoryBase

CONSTANTS
  Reapers,        \* the reaper cycles, one per worker process
  Requests,       \* the HTTP requests a backend process serves at once
  QueueAttempts   \* INVENTORY_JOB_OPTIONS.attempts

ASSUME QueueAttemptsAssumption == QueueAttempts \in Nat \ {0}

\* Whoever runs the procedure.
Producers == Reapers \cup Requests

VARIABLES
  message,   \* [Stages -> [state, by, tries]]
  adding     \* [Producers -> [pc, stage]]: progress of the procedure

queueVars == <<message, adding>>

Message ==
  [state : {"none", "waiting", "active", "finished"},
   by : Slots \cup {NoSlot},
   tries : Nat]
Adding == [pc : {"idle", "look", "remove", "add"}, stage : Stages]

QueueTypeOK ==
  /\ message \in [Stages -> Message]
  /\ adding \in [Producers -> Adding]

NoMessage == [state |-> "none", by |-> NoSlot, tries |-> 0]
NotAdding == [pc |-> "idle", stage |-> "csv"]

QueueInit ==
  /\ message = [s \in Stages |-> NoMessage]
  /\ adding = [p \in Producers |-> NotAdding]

\* ALIVE_STATES: the queue will still run the message.
Alive(s) == message[s].state \in {"waiting", "active"}

SetMessage(s, state, by, tries) ==
  message' = [message EXCEPT ![s] = [state |-> state, by |-> by, tries |-> tries]]

Continue(p, pc) == adding' = [adding EXCEPT ![p].pc = pc]
Stop(p) == adding' = [adding EXCEPT ![p] = NotAdding]

-----------------------------------------------------------------------------
(* The procedure of a producer. *)

BeginEnsure(p, s) ==
  /\ adding[p].pc = "idle"
  /\ adding' = [adding EXCEPT ![p] = [pc |-> "look", stage |-> s]]
  /\ UNCHANGED message

\* getJob and getState: an alive message is left alone.
Look(p) ==
  /\ adding[p].pc = "look"
  /\ \/ Alive(adding[p].stage) /\ Stop(p)
     \/ message[adding[p].stage].state = "none" /\ Continue(p, "add")
     \/ message[adding[p].stage].state = "finished" /\ Continue(p, "remove")
  /\ UNCHANGED message

\* remove() throws only for a message a consumer has locked meanwhile.
RemoveFinished(p) ==
  LET s == adding[p].stage IN
  /\ adding[p].pc = "remove"
  /\ IF message[s].state = "active"
       THEN Stop(p) /\ UNCHANGED message
       ELSE Continue(p, "add") /\ SetMessage(s, "none", NoSlot, 0)

\* add() under an id that exists is ignored.
Add(p) ==
  LET s == adding[p].stage IN
  /\ adding[p].pc = "add"
  /\ IF message[s].state = "none"
       THEN SetMessage(s, "waiting", NoSlot, 0)
       ELSE UNCHANGED message
  /\ Stop(p)

\* Redis does not answer, or the process dies, before the procedure ends.
AbandonEnsure(p) ==
  /\ adding[p].pc # "idle"
  /\ Stop(p)
  /\ UNCHANGED message

-----------------------------------------------------------------------------
(* Delivery. *)

Deliver(c, s) ==
  /\ message[s].state = "waiting"
  /\ SetMessage(s, "active", c, message[s].tries)
  /\ UNCHANGED adding

\* The handler returned.  The move is refused unless c still has the lock.
Acknowledge(c, s) ==
  /\ IF message[s].state = "active" /\ message[s].by = c
       THEN SetMessage(s, "finished", NoSlot, message[s].tries)
       ELSE UNCHANGED message
  /\ UNCHANGED adding

\* The handler threw: delayed for another try, or out of tries.
Reject(c, s) ==
  /\ IF message[s].state = "active" /\ message[s].by = c
       THEN SetMessage(s, IF message[s].tries + 1 < QueueAttempts THEN "waiting" ELSE "finished",
                       NoSlot, message[s].tries + 1)
       ELSE UNCHANGED message
  /\ UNCHANGED adding

\* The consumer died holding the lock.
Orphan(c) ==
  /\ message' = [s \in Stages |->
       IF message[s].state = "active" /\ message[s].by = c
         THEN [message[s] EXCEPT !.by = NoSlot] ELSE message[s]]
  /\ UNCHANGED adding

\* BullMQ finds an active message whose lock has run out: it goes back to
\* waiting, or fails when it has stalled before.
Stall(s) ==
  /\ message[s].state = "active"
  /\ \/ SetMessage(s, "waiting", NoSlot, message[s].tries)
     \/ SetMessage(s, "finished", NoSlot, message[s].tries)
  /\ UNCHANGED adding

\* Redis loses a message.
Lose(s) ==
  /\ Alive(s)
  /\ SetMessage(s, "none", NoSlot, 0)
  /\ UNCHANGED adding
=============================================================================
