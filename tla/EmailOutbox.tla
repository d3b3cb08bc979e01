----------------------------- MODULE EmailOutbox -----------------------------
(***************************************************************************)
(* The email outbox: notifications that wait to be sent by email, and the  *)
(* cycles of runEmailOutbox (apps/worker/src/jobs/emailOutbox.job.ts) that *)
(* the worker processes run, one at a time in each.  A cycle claims the    *)
(* oldest due email, looks up the recipient, sends, and records what came  *)
(* of it, each step an await of its own.                                   *)
(***************************************************************************)
EXTENDS Naturals

CONSTANTS
  Workers,
  EmailCount,   \* emails are numbered in the order of createdAt
  Unknown,      \* emails whose recipient has no account any more
  MaxAttempts,  \* of RETRY_DELAYS_MS
  CycleSize,    \* MAX_EMAILS_PER_CYCLE
  MaxEvents     \* bound on crashes, database errors and overrun claims

ASSUME SizesAssumption ==
  /\ EmailCount \in Nat /\ MaxAttempts \in Nat \ {0}
  /\ CycleSize \in Nat \ {0} /\ MaxEvents \in Nat

Emails == 1..EmailCount

VARIABLES
  status,      \* [Emails -> emailStatus], "none" before the notification
  due,         \* [Emails -> nextEmailAttemptAt has come]
  claimed,     \* [Emails -> emailClaimedUntil lies in the future]
  attempts,    \* [Emails -> emailAttempts]
  worker,      \* [Workers -> Cycle]
  delivered,   \* [Emails -> how often the mail reached its recipient], history
  unrecorded,  \* [Emails -> how many of those went unrecorded], history
  overran,     \* a claim ran out while its email was being sent, history
  events

row == <<status, due, claimed, attempts>>
vars == <<row, worker, delivered, unrecorded, overran, events>>

\* What a cycle is about to do: to claim, to look up the recipient, to mark an
\* email whose recipient is gone, to send, to record success, or an error.
Working == {"lookup", "gone", "send", "sent", "caught"}
Cycle == [pc : {"idle", "claim"} \cup Working, email : Emails \cup {0},
          number : Nat, left : 0..CycleSize]
Asleep == [pc |-> "idle", email |-> 0, number |-> 0, left |-> 0]

TypeOK ==
  /\ status \in [Emails -> {"none", "pending", "sent", "failed"}]
  /\ due \in [Emails -> BOOLEAN] /\ claimed \in [Emails -> BOOLEAN]
  /\ attempts \in [Emails -> Nat]
  /\ worker \in [Workers -> Cycle]
  /\ \A w \in Workers : worker[w].pc \in Working =>
       worker[w].email \in Emails /\ worker[w].left > 0
  /\ delivered \in [Emails -> Nat] /\ unrecorded \in [Emails -> Nat]
  /\ overran \in BOOLEAN /\ events \in 0..MaxEvents

Init ==
  /\ status = [e \in Emails |-> "none"]
  /\ due = [e \in Emails |-> TRUE] /\ claimed = [e \in Emails |-> FALSE]
  /\ attempts = [e \in Emails |-> 0]
  /\ worker = [w \in Workers |-> Asleep]
  /\ delivered = [e \in Emails |-> 0] /\ unrecorded = [e \in Emails |-> 0]
  /\ overran = FALSE /\ events = 0

Counted == events < MaxEvents /\ events' = events + 1
Event == Counted /\ UNCHANGED overran
Overrun == Counted /\ overran' = TRUE
NoEvent == UNCHANGED <<events, overran>>

WorksOn(w, e) == worker[w].pc \in Working /\ worker[w].email = e

-----------------------------------------------------------------------------
(* The notification document. *)

CreateNotification(e) ==
  /\ status[e] = "none" /\ \A f \in Emails : f < e => status[f] # "none"
  /\ status' = [status EXCEPT ![e] = "pending"]
  /\ NoEvent /\ UNCHANGED <<due, claimed, attempts, worker, delivered, unrecorded>>

\* Variant: what is sent or given up is due again.
Due_AnyStatus == {e \in Emails : status[e] # "none" /\ due[e] /\ ~claimed[e]}

Due == {e \in Emails : status[e] = "pending" /\ due[e] /\ ~claimed[e]}
Oldest(e) == e \in Due /\ \A f \in Due : e <= f

\* Neither of the next three looks at the status or at who holds the claim.
MarkEmailSent(e) ==
  /\ status' = [status EXCEPT ![e] = "sent"]
  /\ claimed' = [claimed EXCEPT ![e] = FALSE]
  /\ due' = [due EXCEPT ![e] = TRUE]
  /\ UNCHANGED attempts
MarkEmailFailed(e) ==
  /\ status' = [status EXCEPT ![e] = "failed"]
  /\ claimed' = [claimed EXCEPT ![e] = FALSE]
  /\ due' = [due EXCEPT ![e] = TRUE]
  /\ UNCHANGED attempts
ScheduleEmailRetry(e) ==
  /\ due' = [due EXCEPT ![e] = FALSE]
  /\ claimed' = [claimed EXCEPT ![e] = FALSE]
  /\ UNCHANGED <<status, attempts>>

\* Time passes.  A claim that runs out under a working cycle is an event.
RetryComes(e) ==
  /\ ~due[e]
  /\ due' = [due EXCEPT ![e] = TRUE]
  /\ NoEvent /\ UNCHANGED <<status, claimed, attempts, worker, delivered, unrecorded>>

ClaimExpires(e) ==
  /\ claimed[e]
  /\ IF \E w \in Workers : WorksOn(w, e) THEN Overrun ELSE NoEvent
  /\ claimed' = [claimed EXCEPT ![e] = FALSE]
  /\ UNCHANGED <<status, due, attempts, worker, delivered, unrecorded>>

-----------------------------------------------------------------------------
(* A cycle. *)

GoOn(w, pc) == worker' = [worker EXCEPT ![w].pc = pc]
NextEmail(w) == worker' = [worker EXCEPT ![w].pc = "claim", ![w].left = @ - 1]
EndCycle(w) == worker' = [worker EXCEPT ![w] = Asleep]

StartCycle(w) ==
  /\ worker[w].pc = "idle"
  /\ worker' = [worker EXCEPT ![w] = [Asleep EXCEPT !.pc = "claim", !.left = CycleSize]]
  /\ NoEvent /\ UNCHANGED <<row, delivered, unrecorded>>

\* Variants of ClaimNextDueEmail: the claim is not stored, not counted, or made
\* by a cycle that is full.
ClaimNextDueEmail_Unbounded(w) ==
  \E e \in Due :
    /\ worker[w].pc = "claim" /\ Oldest(e)
    /\ claimed' = [claimed EXCEPT ![e] = TRUE]
    /\ attempts' = [attempts EXCEPT ![e] = @ + 1]
    /\ worker' = [worker EXCEPT ![w].pc = "lookup", ![w].email = e,
                                ![w].number = attempts[e] + 1]
    /\ NoEvent /\ UNCHANGED <<status, due, delivered, unrecorded>>
ClaimNextDueEmail_NotStored(w) ==
  \E e \in Due :
    /\ worker[w].pc = "claim" /\ worker[w].left > 0 /\ Oldest(e)
    /\ attempts' = [attempts EXCEPT ![e] = @ + 1]
    /\ worker' = [worker EXCEPT ![w].pc = "lookup", ![w].email = e,
                                ![w].number = attempts[e] + 1]
    /\ NoEvent /\ UNCHANGED <<status, due, claimed, delivered, unrecorded>>
ClaimNextDueEmail_NotCounted(w) ==
  \E e \in Due :
    /\ worker[w].pc = "claim" /\ worker[w].left > 0 /\ Oldest(e)
    /\ claimed' = [claimed EXCEPT ![e] = TRUE]
    /\ worker' = [worker EXCEPT ![w].pc = "lookup", ![w].email = e,
                                ![w].number = attempts[e]]
    /\ NoEvent /\ UNCHANGED <<status, due, attempts, delivered, unrecorded>>

ClaimNextDueEmail(w) ==
  \E e \in Due :
    /\ worker[w].pc = "claim" /\ worker[w].left > 0 /\ Oldest(e)
    /\ claimed' = [claimed EXCEPT ![e] = TRUE]
    /\ attempts' = [attempts EXCEPT ![e] = @ + 1]
    /\ worker' = [worker EXCEPT ![w].pc = "lookup", ![w].email = e,
                                ![w].number = attempts[e] + 1]
    /\ NoEvent /\ UNCHANGED <<status, due, delivered, unrecorded>>

NothingToClaim(w) ==
  /\ worker[w].pc = "claim" /\ (Due = {} \/ worker[w].left = 0)
  /\ EndCycle(w)
  /\ NoEvent /\ UNCHANGED <<row, delivered, unrecorded>>

FindRecipient(w) ==
  /\ worker[w].pc = "lookup"
  /\ GoOn(w, IF worker[w].email \in Unknown THEN "gone" ELSE "send")
  /\ NoEvent /\ UNCHANGED <<row, delivered, unrecorded>>

RecipientGone(w) ==
  /\ worker[w].pc = "gone"
  /\ MarkEmailFailed(worker[w].email) /\ NextEmail(w)
  /\ NoEvent /\ UNCHANGED <<delivered, unrecorded>>

SendMail(w) ==
  /\ worker[w].pc = "send"
  /\ delivered' = [delivered EXCEPT ![worker[w].email] = @ + 1]
  /\ GoOn(w, "sent")
  /\ NoEvent /\ UNCHANGED <<row, unrecorded>>

\* The mail server refuses, or takes the mail and its answer is lost.
SendFails(w) ==
  LET e == worker[w].email IN
  /\ worker[w].pc = "send" /\ GoOn(w, "caught")
  /\ \/ NoEvent /\ UNCHANGED <<delivered, unrecorded>>
     \/ /\ Event
        /\ delivered' = [delivered EXCEPT ![e] = @ + 1]
        /\ unrecorded' = [unrecorded EXCEPT ![e] = @ + 1]
  /\ UNCHANGED row

\* Variant: sent mail is put back as if it were not.
RecordSent_Retries(w) ==
  /\ worker[w].pc = "sent"
  /\ ScheduleEmailRetry(worker[w].email) /\ NextEmail(w)
  /\ NoEvent /\ UNCHANGED <<delivered, unrecorded>>

RecordSent(w) ==
  /\ worker[w].pc = "sent"
  /\ MarkEmailSent(worker[w].email) /\ NextEmail(w)
  /\ NoEvent /\ UNCHANGED <<delivered, unrecorded>>

\* Variant of the catch block: the last attempt is one early.
RecordError_OneEarly(w) ==
  LET e == worker[w].email IN
  /\ worker[w].pc = "caught"
  /\ IF worker[w].number >= MaxAttempts - 1 THEN MarkEmailFailed(e) ELSE ScheduleEmailRetry(e)
  /\ NextEmail(w)
  /\ NoEvent /\ UNCHANGED <<delivered, unrecorded>>

\* The catch block.
RecordError(w) ==
  LET e == worker[w].email IN
  /\ worker[w].pc = "caught"
  /\ IF worker[w].number >= MaxAttempts THEN MarkEmailFailed(e) ELSE ScheduleEmailRetry(e)
  /\ NextEmail(w)
  /\ NoEvent /\ UNCHANGED <<delivered, unrecorded>>

Forgotten(w) ==
  IF worker[w].pc = "sent"
    THEN unrecorded' = [unrecorded EXCEPT ![worker[w].email] = @ + 1]
    ELSE UNCHANGED unrecorded

\* A database error inside the try block is caught there, also that of an update
\* that was made and whose answer is lost; in the claim or in the catch block it
\* ends the cycle, as does a crash.
DatabaseError(w) ==
  LET e == worker[w].email IN
  /\ worker[w].pc \in {"lookup", "gone", "sent"} /\ Event
  /\ GoOn(w, "caught")
  /\ \/ Forgotten(w) /\ UNCHANGED row
     \/ worker[w].pc = "gone" /\ MarkEmailFailed(e) /\ UNCHANGED unrecorded
     \/ worker[w].pc = "sent" /\ MarkEmailSent(e) /\ UNCHANGED unrecorded
  /\ UNCHANGED delivered

BreakOff(w) ==
  /\ worker[w].pc # "idle" /\ Event
  /\ EndCycle(w) /\ Forgotten(w)
  /\ UNCHANGED <<row, delivered>>

-----------------------------------------------------------------------------
Run(w) ==
  \/ ClaimNextDueEmail(w) \/ NothingToClaim(w)
  \/ FindRecipient(w) \/ RecipientGone(w)
  \/ SendMail(w) \/ SendFails(w) \/ RecordSent(w) \/ RecordError(w)

Step(w) == StartCycle(w) \/ Run(w) \/ DatabaseError(w) \/ BreakOff(w)

Next ==
  \/ \E w \in Workers : Step(w)
  \/ \E e \in Emails : CreateNotification(e) \/ RetryComes(e) \/ ClaimExpires(e)

Spec == Init /\ [][Next]_vars

\* The timer starts cycles in every process, an awaited call returns, time passes.
Fairness ==
  /\ \A w \in Workers : WF_vars(StartCycle(w)) /\ WF_vars(Run(w))
  /\ \A e \in Emails : WF_vars(RetryComes(e)) /\ WF_vars(ClaimExpires(e))
FairSpec == Spec /\ Fairness

-----------------------------------------------------------------------------
(* However long sending takes. *)

\* An email is given up only when its recipient is gone or after the fifth
\* attempt, whichever cycle of whichever worker records it.
GivenUpForAReason ==
  \A e \in Emails : status[e] = "failed" => e \in Unknown \/ attempts[e] >= MaxAttempts

\* Every email that was recorded is in the end sent or given up, although
\* workers crash, the mail server refuses and the database fails.
EmailSettles ==
  \A e \in Emails : status[e] = "pending" ~> status[e] \in {"sent", "failed"}

(* As long as no claim has run out under a cycle that still sends. *)

\* Several workers never send the same email at once.
OneSender ==
  ~overran => \A e \in Emails : \A v, w \in Workers : WorksOn(v, e) /\ WorksOn(w, e) => v = w

\* A mail is repeated only when its delivery could not be recorded.
RepeatedOnlyIfUnrecorded ==
  ~overran => \A e \in Emails : delivered[e] <= 1 + unrecorded[e]

\* What is sent or given up is final, but for one case: "sent" was written
\* without an answer in the last attempt, whose catch block then gives the email
\* up.
OutcomesKept == \A e \in Emails : status[e] \in {"sent", "failed"} =>
  /\ attempts'[e] = attempts[e]
  /\ status'[e] # status[e] =>
       /\ status[e] = "sent" /\ status'[e] = "failed"
       /\ \E w \in Workers : /\ WorksOn(w, e) /\ worker[w].pc = "caught"
                            /\ worker[w].number >= MaxAttempts

OutcomeIsFinal == [][~overran => OutcomesKept]_vars
=============================================================================
