-------------------------- MODULE EmailOutbox_proofs --------------------------
(***************************************************************************)
(* Proofs about EmailOutbox for any number of workers, emails, attempts,   *)
(* errors and crashes.                                                     *)
(***************************************************************************)
EXTENDS EmailOutbox, TLAPS

\* What a working cycle knows of its email, however long it takes.
Informed ==
  \A w \in Workers :
    /\ worker[w].pc \in Working => worker[w].number <= attempts[worker[w].email]
    /\ worker[w].pc = "gone" => worker[w].email \in Unknown

\* Until a claim has overrun: who works on an email holds its claim, alone, unless
\* it wrote the outcome and is about to handle the error it got for an answer;
\* and a delivery is recorded, about to be, or counted as unrecorded.
Final(e) == status[e] \in {"sent", "failed"}
Holding ==
  \A w \in Workers, e \in Emails : WorksOn(w, e) =>
    (status[e] = "pending" /\ claimed[e]) \/ (worker[w].pc = "caught" /\ Final(e))
Reported(e) == Final(e) \/ \E w \in Workers : WorksOn(w, e) /\ worker[w].pc = "sent"
Accounted ==
  \A e \in Emails : delivered[e] <= unrecorded[e] + (IF Reported(e) THEN 1 ELSE 0)
Sole == \A e \in Emails : \A v, w \in Workers : WorksOn(v, e) /\ WorksOn(w, e) => v = w
PromptInv == TypeOK /\ Holding /\ Sole /\ Accounted

\* The parts of TypeOK that concern the document and the histories.
RowTypes ==
  /\ status \in [Emails -> {"none", "pending", "sent", "failed"}]
  /\ due \in [Emails -> BOOLEAN] /\ claimed \in [Emails -> BOOLEAN]
  /\ attempts \in [Emails -> Nat]
  /\ delivered \in [Emails -> Nat] /\ unrecorded \in [Emails -> Nat]
  /\ overran \in BOOLEAN /\ events \in 0..MaxEvents
CycleTypes ==
  /\ worker \in [Workers -> Cycle]
  /\ \A w \in Workers : worker[w].pc \in Working =>
       worker[w].email \in Emails /\ worker[w].left > 0

-----------------------------------------------------------------------------
(* Types. *)

\* A cycle that does not run is at rest.
LEMMA AsleepType == Asleep \in Cycle /\ Asleep.pc = "idle"
  BY SizesAssumption DEF Asleep, Cycle

\* A cycle that works on an email works on one that exists.
LEMMA AtWork ==
  ASSUME TypeOK, NEW w \in Workers, worker[w].pc \in Working
  PROVE  worker[w] \in Cycle /\ worker[w].email \in Emails /\ worker[w].left \in 1..CycleSize
  BY SizesAssumption DEF TypeOK, Cycle

\* The document's fields and the counts keep their types.
LEMMA RowStep ==
  ASSUME TypeOK, Next
  PROVE  RowTypes'
  <1> USE SizesAssumption DEF TypeOK, RowTypes
  <1>1. ASSUME NEW w \in Workers, Step(w) PROVE RowTypes'
    <2>1. CASE StartCycle(w) \/ NothingToClaim(w) \/ FindRecipient(w)
      BY <2>1 DEF StartCycle, NothingToClaim, FindRecipient, NoEvent, row
    <2>2. CASE ClaimNextDueEmail(w)
      <3>1. PICK e \in Emails :
              /\ claimed' = [claimed EXCEPT ![e] = TRUE]
              /\ attempts' = [attempts EXCEPT ![e] = @ + 1]
              /\ UNCHANGED <<status, due, delivered, unrecorded, overran, events>>
        BY <2>2 DEF ClaimNextDueEmail, Due, NoEvent
      <3>2. attempts[e] + 1 \in Nat
        OBVIOUS
      <3> QED
        BY <3>1, <3>2
    <2>3. CASE RecipientGone(w) \/ RecordSent(w) \/ RecordError(w)
      BY <2>3 DEF RecipientGone, RecordSent, RecordError, MarkEmailFailed, MarkEmailSent,
                  ScheduleEmailRetry, NoEvent
    <2>4. CASE SendMail(w) \/ SendFails(w)
      <3>1. worker[w].email \in Emails
        BY <2>4, AtWork DEF SendMail, SendFails, Working
      <3>2. delivered[worker[w].email] + 1 \in Nat /\ unrecorded[worker[w].email] + 1 \in Nat
        BY <3>1
      <3> QED
        BY <2>4, <3>1, <3>2 DEF SendMail, SendFails, NoEvent, Event, Counted, Overrun, row
    <2>5. CASE DatabaseError(w) \/ BreakOff(w)
      <3>1. ASSUME Forgotten(w) PROVE unrecorded' \in [Emails -> Nat]
        <4>1. CASE worker[w].pc = "sent"
          <5>1. worker[w].email \in Emails
            BY <4>1, AtWork DEF Working
          <5>2. unrecorded[worker[w].email] + 1 \in Nat
            BY <5>1
          <5> QED
            BY <3>1, <4>1, <5>2 DEF Forgotten
        <4> QED
          BY <3>1, <4>1 DEF Forgotten
      <3>2. Forgotten(w) \/ unrecorded' = unrecorded
        BY <2>5 DEF DatabaseError, BreakOff
      <3>3. unrecorded' \in [Emails -> Nat]
        BY <3>1, <3>2
      <3>4. /\ status' \in [Emails -> {"none", "pending", "sent", "failed"}]
            /\ due' \in [Emails -> BOOLEAN] /\ claimed' \in [Emails -> BOOLEAN]
            /\ attempts' = attempts
        BY <2>5 DEF DatabaseError, BreakOff, MarkEmailFailed, MarkEmailSent, row
      <3> QED
        BY <2>5, <3>3, <3>4 DEF DatabaseError, BreakOff, Event, Counted
    <2> QED
      BY <1>1, <2>1, <2>2, <2>3, <2>4, <2>5 DEF Step, Run
  <1>2. ASSUME NEW e \in Emails, CreateNotification(e) \/ RetryComes(e) \/ ClaimExpires(e)
        PROVE  RowTypes'
    <2>1. CASE CreateNotification(e)
      BY <2>1 DEF CreateNotification, NoEvent
    <2>2. CASE RetryComes(e)
      BY <2>2 DEF RetryComes, NoEvent
    <2>3. CASE ClaimExpires(e)
      <3>1. events' \in 0..MaxEvents
        BY <2>3 DEF ClaimExpires, Counted, Overrun, NoEvent
      <3>2. overran' = TRUE \/ overran' = overran
        BY <2>3 DEF ClaimExpires, Overrun, NoEvent
      <3>3. overran' \in BOOLEAN
        BY <3>2
      <3> QED
        BY <2>3, <3>1, <3>3 DEF ClaimExpires
    <2> QED
      BY <1>2, <2>1, <2>2, <2>3
  <1> HIDE DEF TypeOK, RowTypes
  <1> QED
    BY <1>1, <1>2 DEF Next

\* Cycles keep their type: a cycle claims an email only with some left to do.
LEMMA CycleStep ==
  ASSUME TypeOK, Next
  PROVE  CycleTypes'
  <1> USE SizesAssumption DEF CycleTypes
  <1>0. /\ worker \in [Workers -> Cycle]
        /\ \A w \in Workers : worker[w].pc \in Working =>
             worker[w].email \in Emails /\ worker[w].left > 0
        /\ Asleep \in Cycle /\ Asleep.pc \notin Working
    BY DEF TypeOK, Asleep, Cycle, Working
  <1>1. ASSUME NEW w \in Workers, NEW c \in Cycle, worker' = [worker EXCEPT ![w] = c],
               c.pc \in Working => c.email \in Emails /\ c.left > 0
        PROVE  CycleTypes'
    BY <1>0, <1>1
  <1>2. ASSUME NEW w \in Workers, Step(w) PROVE CycleTypes'
    <2>0. worker[w] \in Cycle
      BY <1>0
    <2>1. CASE StartCycle(w)
      <3> DEFINE c == [Asleep EXCEPT !.pc = "claim", !.left = CycleSize]
      <3>1. c \in Cycle /\ c.pc \notin Working
        <4>1. ASSUME NEW d \in Cycle
              PROVE  LET n == [d EXCEPT !.pc = "claim", !.left = CycleSize]
                     IN  n \in Cycle /\ n.pc \notin Working
          <5>1. CycleSize \in 0..CycleSize
            OBVIOUS
          <5> QED
            BY <5>1 DEF Cycle, Working
        <4> QED
          BY <1>0, <4>1
      <3>2. worker' = [worker EXCEPT ![w] = c]
        BY <2>1 DEF StartCycle
      <3> HIDE DEF c
      <3> QED
        BY <1>1, <3>1, <3>2
    <2>2. CASE ClaimNextDueEmail(w)
      <3>1. PICK e \in Emails :
              /\ worker' = [worker EXCEPT ![w].pc = "lookup", ![w].email = e,
                                          ![w].number = attempts[e] + 1]
              /\ worker[w].left > 0
        BY <2>2 DEF ClaimNextDueEmail, Due
      <3> DEFINE c == [worker[w] EXCEPT !.pc = "lookup", !.email = e,
                                        !.number = attempts[e] + 1]
      <3>2. attempts[e] + 1 \in Nat
        BY DEF TypeOK
      <3>3. c \in Cycle /\ c.email \in Emails /\ c.left > 0
        BY <2>0, <3>1, <3>2 DEF Cycle, Working
      <3>4. worker' = [worker EXCEPT ![w] = c]
        BY <1>0, <3>1
      <3> HIDE DEF c
      <3> QED
        BY <1>1, <3>3, <3>4
    <2>3. CASE NothingToClaim(w) \/ BreakOff(w)
      BY <1>0, <1>1, <2>3 DEF NothingToClaim, BreakOff, EndCycle
    <2>4. ASSUME worker[w].pc \in Working, NEW pc \in Working, GoOn(w, pc)
          PROVE  CycleTypes'
      <3> DEFINE c == [worker[w] EXCEPT !.pc = pc]
      <3>1. c \in Cycle /\ c.email \in Emails /\ c.left > 0
        BY <2>0, <2>4, <1>0 DEF Cycle
      <3>2. worker' = [worker EXCEPT ![w] = c]
        BY <1>0, <2>4 DEF GoOn
      <3> HIDE DEF c
      <3> QED
        BY <1>1, <3>1, <3>2
    <2>5. CASE FindRecipient(w) \/ SendMail(w) \/ SendFails(w) \/ DatabaseError(w)
      BY <2>4, <2>5 DEF FindRecipient, SendMail, SendFails, DatabaseError, Working
    <2>6. CASE RecipientGone(w) \/ RecordSent(w) \/ RecordError(w)
      <3>1. worker[w].pc \in Working /\ NextEmail(w)
        BY <2>6 DEF RecipientGone, RecordSent, RecordError, Working
      <3> DEFINE c == [worker[w] EXCEPT !.pc = "claim", !.left = @ - 1]
      <3>2. worker[w].left - 1 \in 0..CycleSize
        BY <3>1, AtWork
      <3>3. c \in Cycle /\ c.pc \notin Working
        BY <2>0, <3>2 DEF Cycle, Working
      <3>4. worker' = [worker EXCEPT ![w] = c]
        BY <1>0, <3>1 DEF NextEmail
      <3> HIDE DEF c
      <3> QED
        BY <1>1, <3>3, <3>4
    <2> QED
      BY <1>2, <2>1, <2>2, <2>3, <2>5, <2>6 DEF Step, Run
  <1>3. ASSUME NEW e \in Emails, CreateNotification(e) \/ RetryComes(e) \/ ClaimExpires(e)
        PROVE  CycleTypes'
    BY <1>0, <1>3 DEF CreateNotification, RetryComes, ClaimExpires
  <1> QED
    BY <1>2, <1>3 DEF Next

\* The type invariant is inductive.
LEMMA TypeStep ==
  ASSUME TypeOK, [Next]_vars
  PROVE  TypeOK'
  <1>1. CASE Next
    BY <1>1, RowStep, CycleStep DEF TypeOK, RowTypes, CycleTypes
  <1>2. CASE UNCHANGED vars
    BY <1>2 DEF TypeOK, vars, row
  <1> QED
    BY <1>1, <1>2

\* No cycle is awake at first.
LEMMA InitType ==
  ASSUME Init
  PROVE  TypeOK /\ \A w \in Workers : worker[w].pc = "idle"
  <1>1. overran \in BOOLEAN
    BY DEF Init
  <1> QED
    BY <1>1, AsleepType, SizesAssumption DEF Init, TypeOK, Working

\* Only the worker whose step it is moves.
LEMMA OneMoves ==
  ASSUME TypeOK, NEW w \in Workers, Step(w), NEW v \in Workers, v # w
  PROVE  worker'[v] = worker[v]
  BY DEF TypeOK, Step, Run, StartCycle, ClaimNextDueEmail, NothingToClaim, FindRecipient,
         RecipientGone, SendMail, SendFails, RecordSent, RecordError, DatabaseError,
         BreakOff, GoOn, NextEmail, EndCycle

\* Attempts are only added to, and only a notification that is recorded or a
\* cycle that reports changes the status of an email.
LEMMA AttemptsGrow ==
  ASSUME TypeOK, [Next]_vars, NEW e \in Emails
  PROVE  attempts[e] \in Nat /\ attempts'[e] \in Nat /\ attempts[e] <= attempts'[e]
  <1>1. attempts \in [Emails -> Nat]
    BY DEF TypeOK
  <1>2. CASE \E w \in Workers : ClaimNextDueEmail(w)
    BY <1>1, <1>2 DEF ClaimNextDueEmail
  <1>3. CASE attempts' = attempts
    BY <1>1, <1>3
  <1>4. attempts' = attempts \/ \E w \in Workers : ClaimNextDueEmail(w)
    BY DEF Next, Step, Run, StartCycle, NothingToClaim, FindRecipient, RecipientGone,
           SendMail, SendFails, RecordSent, RecordError, DatabaseError, BreakOff,
           CreateNotification, RetryComes, ClaimExpires, MarkEmailSent, MarkEmailFailed,
           ScheduleEmailRetry, vars, row
  <1> QED
    BY <1>2, <1>3, <1>4

-----------------------------------------------------------------------------
(* Giving up. *)

\* A step of a worker keeps what the worker knows.
LEMMA StillInformed ==
  ASSUME TypeOK, Informed, NEW w \in Workers, Step(w)
  PROVE  /\ worker'[w].pc \in Working => worker'[w].number <= attempts'[worker'[w].email]
         /\ worker'[w].pc = "gone" => worker'[w].email \in Unknown
  <1>0. /\ worker \in [Workers -> Cycle] /\ attempts \in [Emails -> Nat]
        /\ worker[w].pc \in Working => worker[w].number <= attempts[worker[w].email]
    BY DEF TypeOK, Informed
  <1>1. CASE StartCycle(w) \/ NothingToClaim(w) \/ BreakOff(w)
    <2>1. worker'[w].pc \in {"claim", "idle"}
      BY <1>0, <1>1, AsleepType DEF StartCycle, NothingToClaim, BreakOff, EndCycle, Cycle
    <2> QED
      BY <2>1 DEF Working
  <1>2. CASE ClaimNextDueEmail(w)
    <2>1. PICK e \in Emails : /\ attempts' = [attempts EXCEPT ![e] = @ + 1]
                              /\ worker' = [worker EXCEPT ![w].pc = "lookup", ![w].email = e,
                                                          ![w].number = attempts[e] + 1]
      BY <1>2 DEF ClaimNextDueEmail, Due
    <2>2. worker'[w].pc = "lookup" /\ worker'[w].email = e /\ worker'[w].number = attempts[e] + 1
      BY <1>0, <2>1 DEF Cycle
    <2>3. attempts'[e] = attempts[e] + 1 /\ attempts[e] + 1 \in Nat
      BY <1>0, <2>1
    <2> QED
      BY <2>2, <2>3
  <1>3. CASE FindRecipient(w) \/ SendMail(w) \/ SendFails(w) \/ DatabaseError(w)
    <2>1. /\ worker'[w].email = worker[w].email /\ worker'[w].number = worker[w].number
          /\ worker[w].pc \in Working /\ attempts' = attempts
          /\ worker'[w].pc = "gone" => worker[w].email \in Unknown
      BY <1>0, <1>3 DEF FindRecipient, SendMail, SendFails, DatabaseError, GoOn, Working,
                        MarkEmailSent, MarkEmailFailed, Cycle, row
    <2> QED
      BY <1>0, <2>1
  <1>4. CASE RecipientGone(w) \/ RecordSent(w) \/ RecordError(w)
    <2>1. worker'[w].pc = "claim"
      BY <1>0, <1>4 DEF RecipientGone, RecordSent, RecordError, NextEmail, Cycle
    <2> QED
      BY <2>1 DEF Working
  <1> QED
    BY <1>1, <1>2, <1>3, <1>4 DEF Step, Run

\* However long sending takes and whoever reports it, no email is given up
\* before its last attempt unless its recipient is gone.
THEOREM NoEarlyEnd == Spec => []GivenUpForAReason
  <1> DEFINE Inv == TypeOK /\ Informed /\ GivenUpForAReason
  <1>1. Init => Inv
    BY InitType DEF Init, Informed, GivenUpForAReason, Working
  <1>2. Inv /\ [Next]_vars => Inv'
    <2> SUFFICES ASSUME TypeOK, Informed, GivenUpForAReason, [Next]_vars
                 PROVE  TypeOK' /\ Informed' /\ GivenUpForAReason'
      OBVIOUS
    <2>1. TypeOK'
      BY TypeStep
    <2>2. ASSUME NEW v \in Workers, worker'[v] = worker[v]
          PROVE  /\ worker'[v].pc \in Working =>
                      worker'[v].number <= attempts'[worker'[v].email]
                 /\ worker'[v].pc = "gone" => worker'[v].email \in Unknown
      <3>1. CASE worker[v].pc \in Working
        <4>1. worker[v].email \in Emails /\ worker[v].number \in Nat
          BY <3>1, AtWork DEF Cycle
        <4>2. worker[v].number <= attempts[worker[v].email]
          BY <3>1 DEF Informed
        <4> QED
          BY <2>2, <4>1, <4>2, AttemptsGrow DEF Informed
      <3> QED
        BY <2>2, <3>1 DEF Informed, Working
    <2>3. CASE Next
      <3>1. ASSUME NEW w \in Workers, Step(w) PROVE Informed' /\ GivenUpForAReason'
        <4>1. Informed'
          BY <2>2, <3>1, StillInformed, OneMoves DEF Informed
        <4>2. ASSUME NEW e \in Emails, status'[e] = "failed", status[e] # "failed"
              PROVE  e \in Unknown \/ attempts[e] >= MaxAttempts
          <5>1. /\ worker[w].email = e
                /\ \/ worker[w].pc = "gone"
                   \/ worker[w].pc = "caught" /\ worker[w].number >= MaxAttempts
            BY <3>1, <4>2 DEF Step, Run, StartCycle, ClaimNextDueEmail, NothingToClaim,
               FindRecipient, RecipientGone, SendMail, SendFails, RecordSent, RecordError,
               DatabaseError, BreakOff, MarkEmailSent, MarkEmailFailed, ScheduleEmailRetry,
               row, TypeOK
          <5>2. CASE worker[w].pc = "gone"
            BY <5>1, <5>2 DEF Informed
          <5>3. CASE worker[w].pc = "caught" /\ worker[w].number >= MaxAttempts
            <6>1. worker[w].number \in Nat
              BY <5>3, AtWork DEF Cycle, Working
            <6>2. worker[w].number <= attempts[e] /\ attempts[e] \in Nat
              BY <5>1, <5>3, AttemptsGrow DEF Informed, Working
            <6> QED
              BY <5>3, <6>1, <6>2, SizesAssumption
          <5> QED
            BY <5>1, <5>2, <5>3
        <4>3. ASSUME NEW e \in Emails, status'[e] = "failed"
              PROVE  e \in Unknown \/ attempts'[e] >= MaxAttempts
          <5>1. e \in Unknown \/ attempts[e] >= MaxAttempts
            BY <4>2, <4>3 DEF GivenUpForAReason
          <5> QED
            BY <5>1, AttemptsGrow, SizesAssumption
        <4> QED
          BY <4>1, <4>3 DEF GivenUpForAReason
      <3>2. ASSUME NEW e \in Emails, CreateNotification(e) \/ RetryComes(e) \/ ClaimExpires(e)
            PROVE  Informed' /\ GivenUpForAReason'
        <4>1. worker' = worker /\ attempts' = attempts
              /\ \A f \in Emails : status'[f] = "failed" => status[f] = "failed"
          BY <3>2 DEF CreateNotification, RetryComes, ClaimExpires, TypeOK
        <4> QED
          BY <4>1, <2>2 DEF Informed, GivenUpForAReason
      <3> QED
        BY <2>1, <2>3, <3>1, <3>2 DEF Next
    <2>4. CASE UNCHANGED vars
      BY <2>1, <2>4 DEF vars, row, Informed, GivenUpForAReason
    <2> QED
      BY <2>1, <2>3, <2>4
  <1>3. Inv => GivenUpForAReason
    OBVIOUS
  <1> HIDE DEF Inv
  <1> QED
    BY <1>1, <1>2, <1>3, PTL DEF Spec
-----------------------------------------------------------------------------
(* While no claim overruns. *)

\* A step of a worker touches the document and the counts of no email but the one
\* it works on, unless to claim one.
LEMMA Elsewhere ==
  ASSUME TypeOK, NEW w \in Workers, Step(w), NEW e \in Emails, ~WorksOn(w, e)
  PROVE  /\ status'[e] = status[e] /\ (claimed[e] => claimed'[e])
         /\ delivered'[e] = delivered[e] /\ unrecorded'[e] = unrecorded[e]
  <1> USE DEF TypeOK, WorksOn
  <1>1. CASE StartCycle(w) \/ NothingToClaim(w) \/ FindRecipient(w) \/ ClaimNextDueEmail(w)
    BY <1>1 DEF StartCycle, NothingToClaim, FindRecipient, ClaimNextDueEmail, row
  <1>2. CASE RecipientGone(w) \/ RecordSent(w) \/ RecordError(w)
    <2>1. worker[w].email # e
      BY <1>2 DEF RecipientGone, RecordSent, RecordError, Working
    <2> QED
      BY <1>2, <2>1 DEF RecipientGone, RecordSent, RecordError, MarkEmailFailed, MarkEmailSent,
                        ScheduleEmailRetry
  <1>3. CASE SendMail(w) \/ SendFails(w)
    <2>1. worker[w].email # e
      BY <1>3 DEF SendMail, SendFails, Working
    <2> QED
      BY <1>3, <2>1 DEF SendMail, SendFails, row
  <1>4. CASE DatabaseError(w) \/ BreakOff(w)
    <2>1. worker[w].pc \in {"gone", "sent"} => worker[w].email # e
      BY DEF Working
    <2>2. unrecorded'[e] = unrecorded[e]
      BY <1>4, <2>1 DEF DatabaseError, BreakOff, Forgotten
    <2>3. status'[e] = status[e] /\ (claimed[e] => claimed'[e])
      BY <1>4, <2>1 DEF DatabaseError, BreakOff, MarkEmailFailed, MarkEmailSent, row
    <2> QED
      BY <1>4, <2>2, <2>3 DEF DatabaseError, BreakOff
  <1> QED
    BY <1>1, <1>2, <1>3, <1>4 DEF Step, Run

\* A worker that works on an email after its step did so before, with the
\* document as it was, has just claimed the email, or has written its outcome
\* without an answer.
LEMMA WhoWorks ==
  ASSUME TypeOK, NEW w \in Workers, Step(w), NEW e \in Emails, WorksOn(w, e)'
  PROVE  \/ WorksOn(w, e) /\ status'[e] = status[e] /\ claimed'[e] = claimed[e]
            /\ (worker[w].pc = "caught" => worker'[w].pc = "caught")
         \/ e \in Due /\ status'[e] = "pending" /\ claimed'[e]
         \/ WorksOn(w, e) /\ worker'[w].pc = "caught" /\ Final(e)'
  <1>0. worker \in [Workers -> Cycle]
    BY DEF TypeOK
  <1>1. CASE StartCycle(w) \/ NothingToClaim(w) \/ BreakOff(w)
    <2>1. worker'[w].pc \in {"claim", "idle"}
      BY <1>0, <1>1, AsleepType DEF StartCycle, NothingToClaim, BreakOff, EndCycle, Cycle
    <2> QED
      BY <2>1 DEF WorksOn, Working
  <1>2. CASE ClaimNextDueEmail(w)
    <2>1. PICK f \in Due : /\ claimed' = [claimed EXCEPT ![f] = TRUE]
                           /\ status' = status
                           /\ worker' = [worker EXCEPT ![w].pc = "lookup", ![w].email = f,
                                                       ![w].number = attempts[f] + 1]
      BY <1>2 DEF ClaimNextDueEmail
    <2>2. f = e
      BY <1>0, <2>1 DEF WorksOn, Cycle
    <2> QED
      BY <2>1, <2>2 DEF Due, TypeOK
  <1>3. CASE FindRecipient(w) \/ SendMail(w) \/ SendFails(w)
    BY <1>0, <1>3 DEF FindRecipient, SendMail, SendFails, GoOn, Working, Cycle, row, WorksOn
  <1>5. CASE DatabaseError(w)
    <2>1. /\ worker[w].pc \in {"lookup", "gone", "sent"} /\ worker'[w].pc = "caught"
          /\ worker'[w].email = worker[w].email
      BY <1>0, <1>5 DEF DatabaseError, GoOn, Cycle
    <2>2. WorksOn(w, e)
      BY <2>1 DEF WorksOn, Working
    <2>3. CASE UNCHANGED row
      BY <2>1, <2>2, <2>3 DEF row
    <2>4. CASE MarkEmailFailed(e) \/ MarkEmailSent(e)
      <3>1. Final(e)'
        BY <2>4 DEF MarkEmailFailed, MarkEmailSent, Final, TypeOK
      <3> QED
        BY <2>1, <2>2, <3>1
    <2> QED
      BY <1>5, <2>2, <2>3, <2>4 DEF DatabaseError, WorksOn
  <1>4. CASE RecipientGone(w) \/ RecordSent(w) \/ RecordError(w)
    <2>1. worker'[w].pc = "claim"
      BY <1>0, <1>4 DEF RecipientGone, RecordSent, RecordError, NextEmail, Cycle
    <2> QED
      BY <2>1 DEF WorksOn, Working
  <1> QED
    BY <1>1, <1>2, <1>3, <1>4, <1>5 DEF Step, Run

\* Who works on an email stays the only one to hold its claim.
LEMMA HolderStep ==
  ASSUME PromptInv, NEW w \in Workers, Step(w), TypeOK'
  PROVE  Holding' /\ Sole'
  <1> USE DEF PromptInv
  <1>1. ASSUME NEW v \in Workers, v # w, NEW e \in Emails, WorksOn(v, e)'
        PROVE  /\ WorksOn(v, e) /\ ~WorksOn(w, e) /\ e \notin Due
               /\ \/ status'[e] = "pending" /\ claimed'[e]
                  \/ worker'[v].pc = "caught" /\ Final(e)'
    <2>1. WorksOn(v, e) /\ worker'[v] = worker[v]
      BY <1>1, OneMoves DEF WorksOn
    <2>2. /\ ~WorksOn(w, e) /\ e \notin Due
          /\ (status[e] = "pending" /\ claimed[e]) \/ (worker[v].pc = "caught" /\ Final(e))
      BY <1>1, <2>1 DEF Sole, Holding, WorksOn, Due, Final
    <2>3. status'[e] = status[e] /\ (claimed[e] => claimed'[e])
      BY <2>2, Elsewhere
    <2> QED
      BY <2>1, <2>2, <2>3 DEF Final
  <1>2. ASSUME NEW e \in Emails, WorksOn(w, e)'
        PROVE  /\ WorksOn(w, e) \/ e \in Due
               /\ \/ status'[e] = "pending" /\ claimed'[e]
                  \/ worker'[w].pc = "caught" /\ Final(e)'
    <2>1. CASE /\ WorksOn(w, e) /\ status'[e] = status[e] /\ claimed'[e] = claimed[e]
               /\ (worker[w].pc = "caught" => worker'[w].pc = "caught")
      BY <2>1 DEF Holding, Final
    <2>2. CASE e \in Due /\ status'[e] = "pending" /\ claimed'[e]
      BY <2>2
    <2>3. CASE WorksOn(w, e) /\ worker'[w].pc = "caught" /\ Final(e)'
      BY <2>3
    <2> QED
      BY <1>2, <2>1, <2>2, <2>3, WhoWorks
  <1>3. Holding'
    BY <1>1, <1>2 DEF Holding
  <1>4. Sole'
    <2> SUFFICES ASSUME NEW e \in Emails, NEW u \in Workers, NEW v \in Workers,
                        WorksOn(u, e)', WorksOn(v, e)', u # v
                 PROVE  FALSE
      BY DEF Sole
    <2>1. CASE u # w /\ v # w
      BY <1>1, <2>1 DEF Sole
    <2>2. CASE u = w \/ v = w
      BY <1>1, <1>2, <2>2
    <2> QED
      BY <2>1, <2>2
  <1> QED
    BY <1>3, <1>4

\* Before the mail is sent, every earlier delivery is counted as unrecorded.
LEMMA NothingOwed ==
  ASSUME PromptInv, NEW w \in Workers, worker[w].pc \in Working, worker[w].pc # "sent",
         ~Final(worker[w].email)
  PROVE  delivered[worker[w].email] <= unrecorded[worker[w].email]
  <1>1. worker[w].email \in Emails /\ WorksOn(w, worker[w].email)
    BY AtWork DEF PromptInv, WorksOn
  <1>3. ~Reported(worker[w].email)
    BY <1>1 DEF PromptInv, Sole, Reported
  <1>4. delivered[worker[w].email] \in Nat /\ unrecorded[worker[w].email] \in Nat
    BY <1>1 DEF PromptInv, TypeOK
  <1> QED
    BY <1>1, <1>3, <1>4 DEF PromptInv, Accounted

\* No step of a worker takes an outcome back, whatever it reports.
LEMMA FinalStays ==
  ASSUME TypeOK, NEW w \in Workers, Step(w), NEW e \in Emails, Final(e)
  PROVE  Final(e)'
  BY DEF Step, Run, StartCycle, ClaimNextDueEmail, NothingToClaim,
         FindRecipient, RecipientGone, SendMail, SendFails, RecordSent, RecordError,
         DatabaseError, BreakOff, MarkEmailSent, MarkEmailFailed, ScheduleEmailRetry,
         row, TypeOK, Final

\* Every delivery stays accounted for.
LEMMA AccountStep ==
  ASSUME PromptInv, NEW w \in Workers, Step(w)
  PROVE  Accounted'
  <1> SUFFICES ASSUME NEW e \in Emails
               PROVE  delivered'[e] <= unrecorded'[e] + (IF Reported(e)' THEN 1 ELSE 0)
    BY DEF Accounted
  <1>0. /\ worker \in [Workers -> Cycle]
        /\ delivered \in [Emails -> Nat] /\ unrecorded \in [Emails -> Nat]
        /\ status \in [Emails -> {"none", "pending", "sent", "failed"}]
        /\ delivered[e] \in Nat /\ unrecorded[e] \in Nat
        /\ delivered[e] <= unrecorded[e] + (IF Reported(e) THEN 1 ELSE 0)
    BY DEF PromptInv, TypeOK, Accounted
  <1>1. CASE ~WorksOn(w, e)
    <2>1. status'[e] = status[e] /\ delivered'[e] = delivered[e] /\ unrecorded'[e] = unrecorded[e]
      BY <1>1, Elsewhere DEF PromptInv
    <2>2. ASSUME NEW v \in Workers, WorksOn(v, e), worker[v].pc = "sent"
          PROVE  WorksOn(v, e)' /\ worker'[v].pc = "sent"
      BY <1>1, <2>2, OneMoves DEF PromptInv, WorksOn
    <2>3. Reported(e) => Reported(e)'
      BY <2>1, <2>2 DEF Reported, Final
    <2> QED
      BY <1>0, <2>1, <2>3
  <1>2. CASE WorksOn(w, e)
    <2>0. worker[w].pc \in Working /\ worker[w].email = e
      BY <1>2 DEF WorksOn
    <2>1. CASE worker[w].pc = "sent"
      <3>1. delivered[e] <= unrecorded[e] + 1
        BY <1>0
      <3>2. CASE RecordSent(w)
        <4>1. status'[e] = "sent" /\ delivered' = delivered /\ unrecorded' = unrecorded
          BY <1>0, <2>0, <3>2 DEF RecordSent, MarkEmailSent
        <4> QED
          BY <1>0, <3>1, <4>1 DEF Reported, Final
      <3>3. CASE DatabaseError(w) \/ BreakOff(w)
        <4>1. delivered' = delivered
          BY <3>3 DEF DatabaseError, BreakOff
        <4>2. CASE Forgotten(w)
          <5>1. unrecorded'[e] = unrecorded[e] + 1
            BY <1>0, <2>0, <2>1, <4>2 DEF Forgotten
          <5> QED
            BY <1>0, <3>1, <4>1, <5>1
        <4>3. CASE MarkEmailSent(e) /\ unrecorded' = unrecorded
          <5>1. status'[e] = "sent"
            BY <1>0, <4>3 DEF MarkEmailSent
          <5> QED
            BY <1>0, <3>1, <4>1, <4>3, <5>1 DEF Reported, Final
        <4> QED
          BY <2>0, <2>1, <3>3, <4>2, <4>3 DEF DatabaseError, BreakOff
      <3> QED
        BY <2>1, <3>2, <3>3 DEF Step, Run, StartCycle, ClaimNextDueEmail, NothingToClaim,
           FindRecipient, RecipientGone, SendMail, SendFails, RecordError
    <2>2. CASE worker[w].pc # "sent"
      <3>1. delivered[e] <= unrecorded[e] \/ Final(e)
        BY <2>0, <2>2, NothingOwed
      <3>2. worker[w].pc = "send" => ~Final(e)
        BY <1>2, <2>0 DEF PromptInv, Holding, Final
      <3>3. CASE SendMail(w)
        <4>1. delivered'[e] = delivered[e] + 1 /\ unrecorded' = unrecorded
          BY <1>0, <2>0, <3>3 DEF SendMail
        <4>2. worker'[w].pc = "sent" /\ worker'[w].email = e
          BY <1>0, <2>0, <3>3 DEF SendMail, GoOn, Cycle
        <4>3. Reported(e)'
          BY <4>2 DEF Reported, WorksOn, Working
        <4>4. delivered[e] <= unrecorded[e]
          BY <3>1, <3>2, <3>3 DEF SendMail
        <4> QED
          BY <1>0, <4>1, <4>3, <4>4
      <3>4. CASE SendFails(w)
        <4>1. \/ delivered'[e] = delivered[e] /\ unrecorded'[e] = unrecorded[e]
              \/ delivered'[e] = delivered[e] + 1 /\ unrecorded'[e] = unrecorded[e] + 1
          BY <1>0, <2>0, <3>4 DEF SendFails
        <4>2. delivered[e] <= unrecorded[e]
          BY <3>1, <3>2, <3>4 DEF SendFails
        <4> QED
          BY <1>0, <4>1, <4>2
      <3>5. CASE ~SendMail(w) /\ ~SendFails(w)
        <4>1. delivered' = delivered /\ unrecorded' = unrecorded
          BY <2>2, <3>5 DEF Step, Run, StartCycle, ClaimNextDueEmail, NothingToClaim,
             FindRecipient, RecipientGone, RecordSent, RecordError, DatabaseError, BreakOff,
             Forgotten
        <4>2. Final(e) => Final(e)'
          BY <1>0, <2>2, <3>5, FinalStays DEF PromptInv
        <4>3. CASE Final(e)
          BY <1>0, <4>1, <4>2, <4>3 DEF Reported
        <4>4. CASE ~Final(e)
          BY <1>0, <3>1, <4>1, <4>4
        <4> QED
          BY <4>3, <4>4
      <3> QED
        BY <3>3, <3>4, <3>5
    <2> QED
      BY <2>1, <2>2
  <1> QED
    BY <1>1, <1>2

\* The invariant of the outbox whose claims outlast the sending.
LEMMA PromptStep ==
  ASSUME PromptInv, [Next]_vars, ~overran'
  PROVE  PromptInv'
  <1>1. TypeOK'
    BY TypeStep DEF PromptInv
  <1>2. ASSUME NEW w \in Workers, Step(w) PROVE PromptInv'
    BY <1>1, <1>2, HolderStep, AccountStep DEF PromptInv
  <1>3. ASSUME NEW e \in Emails, CreateNotification(e) \/ RetryComes(e) \/ ClaimExpires(e)
        PROVE  PromptInv'
    <2>1. worker' = worker /\ delivered' = delivered /\ unrecorded' = unrecorded
      BY <1>3 DEF CreateNotification, RetryComes, ClaimExpires
    <2>0. ~Overrun
      BY Zenon DEF Overrun
    <2>2. ASSUME NEW f \in Emails
          PROVE  /\ status[f] # "none" => status'[f] = status[f]
                 /\ claimed[f] /\ (\E v \in Workers : WorksOn(v, f)) => claimed'[f]
      BY <1>3, <2>0 DEF CreateNotification, RetryComes, ClaimExpires, PromptInv, TypeOK
    <2>3. Holding'
      BY <2>1, <2>2, AtWork DEF Holding, PromptInv, WorksOn, Final
    <2>4. Accounted'
      <3>1. ASSUME NEW f \in Emails PROVE Reported(f) => Reported(f)'
        BY <2>1, <2>2 DEF Reported, WorksOn, Final
      <3> QED
        BY <2>1, <3>1 DEF Accounted, PromptInv, TypeOK
    <2>5. Sole'
      BY <2>1 DEF Sole, PromptInv, WorksOn
    <2> QED
      BY <1>1, <2>3, <2>4, <2>5 DEF PromptInv
  <1>4. CASE UNCHANGED vars
    BY <1>1, <1>4 DEF vars, row, PromptInv, Holding, Sole, Accounted, Reported, WorksOn, Final
  <1> QED
    BY <1>2, <1>3, <1>4 DEF Next

\* The outbox starts with nothing sent and nobody sending.
LEMMA PromptInit ==
  ASSUME Init
  PROVE  PromptInv
  <1>1. TypeOK /\ \A w \in Workers : worker[w].pc = "idle"
    BY InitType
  <1>2. \A e \in Emails : delivered[e] = 0 /\ unrecorded[e] = 0
    BY DEF Init
  <1> QED
    BY <1>1, <1>2 DEF PromptInv, Holding, Sole, Accounted, WorksOn, Working

\* Once a claim has overrun this is remembered.
LEMMA OverrunStays ==
  ASSUME [Next]_vars, overran
  PROVE  overran'
  <1>1. CASE UNCHANGED vars
    BY <1>1 DEF vars
  <1>2. ASSUME NEW w \in Workers, Step(w) PROVE overran'
    BY <1>2 DEF Step, StartCycle, Run, ClaimNextDueEmail, NothingToClaim, FindRecipient,
       RecipientGone, SendMail, SendFails, RecordSent, RecordError, DatabaseError, BreakOff,
       Event, NoEvent
  <1>3. ASSUME NEW e \in Emails, CreateNotification(e) \/ RetryComes(e) \/ ClaimExpires(e)
        PROVE  overran'
    BY <1>3 DEF CreateNotification, RetryComes, ClaimExpires, Overrun, NoEvent
  <1> QED
    BY <1>1, <1>2, <1>3 DEF Next

\* Until then the outbox is in order.
OutboxInv == TypeOK /\ (~overran => PromptInv)

\* The invariant behind the next theorems holds throughout.
THEOREM OutboxInvariance == Spec => []OutboxInv
  <1>1. Init => OutboxInv
    BY PromptInit DEF OutboxInv, PromptInv
  <1>2. OutboxInv /\ [Next]_vars => OutboxInv'
    BY TypeStep, PromptStep, OverrunStays DEF OutboxInv
  <1> QED
    BY <1>1, <1>2, PTL DEF Spec

\* Several workers never send the same email at once, until a claim runs out
\* under a cycle that still sends.
THEOREM OneSenderAtATime == Spec => []OneSender
  <1>1. OutboxInv => OneSender
    BY DEF OutboxInv, PromptInv, Sole, OneSender
  <1> QED
    BY <1>1, OutboxInvariance, PTL

\* Until then an email reaches its recipient a second time only if a delivery
\* could not be recorded.
THEOREM RepeatsAreUnrecorded == Spec => []RepeatedOnlyIfUnrecorded
  <1>1. OutboxInv => RepeatedOnlyIfUnrecorded
    BY DEF OutboxInv, PromptInv, TypeOK, Accounted, RepeatedOnlyIfUnrecorded
  <1> QED
    BY <1>1, OutboxInvariance, PTL

\* Until then what is sent or given up is final, unless "sent" was written without
\* an answer in the last attempt: that attempt gives the email up.
THEOREM OutcomesAreFinal == Spec => OutcomeIsFinal
  <1> DEFINE Handled(e) == \E w \in Workers : /\ WorksOn(w, e) /\ worker[w].pc = "caught"
                                              /\ worker[w].number >= MaxAttempts
             Keeps(e) == /\ attempts'[e] = attempts[e]
                         /\ status'[e] # status[e] =>
                              status[e] = "sent" /\ status'[e] = "failed" /\ Handled(e)
  <1>1. ASSUME PromptInv, [Next]_vars PROVE OutcomesKept \/ UNCHANGED vars
    <2> SUFFICES ASSUME Next, NEW e \in Emails, status[e] \in {"sent", "failed"}
                 PROVE  Keeps(e)
      BY <1>1 DEF OutcomesKept
    <2>1. ASSUME NEW w \in Workers, WorksOn(w, e) PROVE worker[w].pc = "caught"
      BY <1>1, <2>1 DEF PromptInv, Holding
    <2>2. ASSUME NEW w \in Workers, Step(w)
          PROVE  Keeps(e)
      <3>1. attempts'[e] = attempts[e]
        <4>1. CASE ClaimNextDueEmail(w)
          BY <1>1, <4>1 DEF ClaimNextDueEmail, Due, PromptInv, TypeOK
        <4>2. CASE ~ClaimNextDueEmail(w)
          BY <2>2, <4>2 DEF Step, Run, StartCycle, NothingToClaim, FindRecipient,
             RecipientGone, SendMail, SendFails, RecordSent, RecordError, DatabaseError,
             BreakOff, MarkEmailSent, MarkEmailFailed, ScheduleEmailRetry, row
        <4> QED
          BY <4>1, <4>2
      <3>2. CASE status'[e] = status[e]
        BY <3>1, <3>2
      <3>3. CASE status'[e] # status[e]
        <4>1. WorksOn(w, e) /\ worker[w].pc = "caught"
          BY <1>1, <2>1, <2>2, <3>3, Elsewhere DEF PromptInv
        <4>2. RecordError(w) \/ BreakOff(w)
          BY <2>2, <4>1 DEF Step, Run, StartCycle, ClaimNextDueEmail, NothingToClaim,
             FindRecipient, RecipientGone, SendMail, SendFails, RecordSent, DatabaseError
        <4>3. worker[w].number >= MaxAttempts /\ status'[e] = "failed"
          BY <1>1, <3>3, <4>1, <4>2 DEF RecordError, BreakOff, MarkEmailFailed,
             ScheduleEmailRetry, row, WorksOn, PromptInv, TypeOK
        <4> QED
          BY <3>1, <3>3, <4>1, <4>3
      <3> QED
        BY <3>2, <3>3
    <2>3. ASSUME NEW f \in Emails, CreateNotification(f) \/ RetryComes(f) \/ ClaimExpires(f)
          PROVE  Keeps(e)
      BY <1>1, <2>3 DEF CreateNotification, RetryComes, ClaimExpires, PromptInv, TypeOK
    <2> QED
      BY <2>2, <2>3 DEF Next
  <1>2. ASSUME OutboxInv, [Next]_vars PROVE [~overran => OutcomesKept]_vars
    BY <1>1, <1>2 DEF OutboxInv
  <1> QED
    BY <1>2, OutboxInvariance, PTL DEF Spec, OutcomeIsFinal

\* Types hold whatever the database, the mail service and the clock do.
THEOREM OutboxTypes == Spec => []TypeOK
  <1>1. OutboxInv => TypeOK
    BY DEF OutboxInv
  <1> QED
    BY <1>1, OutboxInvariance, PTL

=============================================================================
