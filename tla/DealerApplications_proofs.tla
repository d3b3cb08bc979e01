----------------------- MODULE DealerApplications_proofs -----------------------
(***************************************************************************)
(* Proofs about DealerApplications for any number of submissions, reviews, *)
(* document views, workers and documents.                                  *)
(***************************************************************************)
EXTENDS DealerApplications, FiniteSetTheorems, TLAPS

-----------------------------------------------------------------------------
(* The inductive invariant. *)

\* Submissions whose documents the application has, or once had: no other request
\* writes documents of theirs any more.
UsedUp == {"replace", "unanswered", "accepted", "lost", "dead"}
Used(s) == submission[s].pc \in UsedUp

\* A submission owns the documents it stored until it is over; what it read of the
\* application it still knows to be rejected by a review that is over.
Holds(s) ==
  LET q == submission[s] IN
  /\ q.stored \subseteq KeysOf(s) /\ (q.pc = "idle" => q.stored = {})
  /\ q.pc \in {"find", "write", "replace", "unanswered"} => q.stored = KeysOf(s)
  /\ q.pc \in {"store", "find", "write"} => q.stored \subseteq store
Reads(s) ==
  LET q == submission[s] IN
  /\ q.seen # Nobody => dealer # Nobody /\ Used(q.seen.from) /\ q.seen.docs \subseteq KeysOf(q.seen.from)
  /\ q.pc \in {"write", "replace"} /\ q.seen # Nobody =>
       /\ q.seen.by \in Reviews /\ review[q.seen.by].pc = "done"
       /\ dealer.by = q.seen.by => dealer.docs \subseteq q.seen.docs
  /\ q.pc = "replace" => q.seen # Nobody /\ dealer.from # q.seen.from
\* The application belongs to a submission that is accepted; it has a decision
\* exactly when a review that is over made it.
DealerSound ==
  dealer # Nobody =>
    /\ Used(dealer.from) /\ dealer.docs \subseteq KeysOf(dealer.from)
    /\ dealer.status \in Decisions <=> dealer.by \in Reviews
    /\ dealer.by \in Reviews => review[dealer.by].pc = "done"
    /\ dealer.status = "approved" => verified
\* A sweep deletes documents of a version that was decided.
SweepSound(w) ==
  sweep[w].pc = "delete" =>
    /\ dealer # Nobody
    /\ \A k \in sweep[w].docs :
         /\ Used(k[1]) /\ (k \in store => k \in sweep[w].left)
         /\ dealer.status = "pending" => k[1] # dealer.from
    /\ sweep[w].left \subseteq sweep[w].docs
ReviewSound(r) == review[r].pc = "decide" /\ review[r].decision = "approved" => verified
ViewSound(v) == view[v].pc \in {"read", "released"} => <<"viewed", v>> \in audit
\* A review that is recorded is over.
AuditSound ==
  /\ \A d \in Decisions, r \in Reviews : <<d, r>> \in audit => review[r].pc = "done"
  /\ IsFiniteSet(Rejections)
  /\ dealer = Nobody => Rejections = {}

Parts ==
  /\ \A s \in Submissions : Holds(s) /\ Reads(s)
  /\ DealerSound
  /\ \A w \in Workers : SweepSound(w)
  /\ \A r \in Reviews : ReviewSound(r)
  /\ \A v \in Views : ViewSound(v)
  /\ AuditSound

IInv == TypeOK /\ Parts /\ DocumentsMatch /\ DealerIffApproved /\ HistoryKeepsDecisions

-----------------------------------------------------------------------------
(* Frames: what keeps the parts of the invariant that a step does not write. *)

\* A document key names its submission.
LEMMA KeyFacts ==
  /\ \A s \in Submissions : KeysOf(s) \subseteq Keys /\ KeysOf(s) # {} /\ \A k \in KeysOf(s) : k[1] = s
  /\ \A k \in Keys : k[1] \in Submissions /\ k \in KeysOf(k[1])
  <1>1. \A s \in Submissions : KeysOf(s) \subseteq Keys /\ \A k \in KeysOf(s) : k[1] = s
    BY DEF Keys, KeysOf
  <1>2. \A s \in Submissions : KeysOf(s) # {}
    <2>1. PICK f \in Files : TRUE
      BY FilesAssumption
    <2>2. \A s \in Submissions : <<s, f>> \in KeysOf(s)
      BY <2>1 DEF KeysOf
    <2> QED
      BY <2>2
  <1>3. \A k \in Keys : k[1] \in Submissions /\ k \in KeysOf(k[1])
    BY DEF Keys, KeysOf
  <1> QED
    BY <1>1, <1>2, <1>3

\* What every step respects: a submission that is over stays over, a review too; a
\* new version of the application is one of a submission that was not accepted yet,
\* a new decision one of a review that was not over; nothing stored is stored again.
Advance ==
  /\ \A t \in Submissions : Used(t) => Used(t)'
  /\ \A r \in Reviews : review[r].pc = "done" => review'[r].pc = "done"
  /\ verified => verified'
  /\ harm \subseteq harm'
  /\ dealer # Nobody =>
       /\ dealer' # Nobody
       /\ dealer'.from = dealer.from \/ ~Used(dealer'.from)
       /\ dealer'.status = "pending" =>
            (dealer.status = "pending" /\ dealer'.from = dealer.from) \/ ~Used(dealer'.from)
       /\ dealer'.by \in Reviews =>
            (dealer'.by = dealer.by /\ dealer'.docs \subseteq dealer.docs) \/ review[dealer'.by].pc # "done"
  /\ \A k \in Keys : k \in store' => k \in store \/ ~Used(k[1])

\* Nothing is deleted from the documents of submission s.
Spares(s) == \A k \in KeysOf(s) : k \in store => k \in store'

\* A submission that waits goes on owning its documents.
LEMMA HoldsFrame ==
  ASSUME NEW s \in Submissions, Holds(s), submission'[s] = submission[s],
         submission[s].pc \in {"store", "find", "write"} => Spares(s)
  PROVE  Holds(s)'
  BY DEF Holds, Spares

\* A submission that waits still knows the application it read to be rejected.
LEMMA ReadsFrame ==
  ASSUME TypeOK, Advance, NEW s \in Submissions, Reads(s), submission'[s] = submission[s]
  PROVE  Reads(s)'
  <1> DEFINE q == submission[s]
  <1>1. q \in Submission
    BY DEF TypeOK
  <1>2. ASSUME q.seen # Nobody
        PROVE  /\ dealer' # Nobody /\ Used(q.seen.from)' /\ q.seen.docs \subseteq KeysOf(q.seen.from)
               /\ q.seen.from \in Submissions /\ Used(q.seen.from)
    <2>1. q.seen.from \in Submissions
      BY <1>1, <1>2 DEF Submission, Application
    <2> QED
      BY <1>2, <2>1 DEF Advance, Reads
  <1>3. ASSUME q.pc \in {"write", "replace"}, q.seen # Nobody
        PROVE  /\ q.seen.by \in Reviews /\ review'[q.seen.by].pc = "done"
               /\ dealer'.by = q.seen.by => dealer'.docs \subseteq q.seen.docs
    BY <1>3 DEF Advance, Reads
  <1>4. ASSUME q.pc = "replace"
        PROVE  q.seen # Nobody /\ dealer'.from # q.seen.from
    BY <1>2, <1>4 DEF Advance, Reads
  <1> QED
    BY <1>2, <1>3, <1>4 DEF Reads

\* A sweep under way still deletes documents of a version that was decided.
LEMMA SweepFrame ==
  ASSUME TypeOK, Advance, NEW w \in Workers, SweepSound(w), sweep'[w] = sweep[w]
  PROVE  SweepSound(w)'
  <1> SUFFICES ASSUME sweep[w].pc = "delete"
               PROVE  SweepSound(w)'
    BY DEF SweepSound
  <1>1. sweep[w].docs \subseteq Keys
    BY DEF TypeOK, Sweep
  <1>2. ASSUME NEW k \in sweep[w].docs
        PROVE  /\ Used(k[1])' /\ (k \in store' => k \in sweep[w].left)
               /\ dealer'.status = "pending" => k[1] # dealer'.from
    <2>1. k \in Keys /\ k[1] \in Submissions
      BY <1>1, KeyFacts
    <2>2. dealer # Nobody /\ Used(k[1]) /\ (k \in store => k \in sweep[w].left)
          /\ (dealer.status = "pending" => k[1] # dealer.from)
      BY DEF SweepSound
    <2> QED
      BY <2>1, <2>2 DEF Advance
  <1> QED
    BY <1>2 DEF SweepSound, Advance

\* The parts of the invariant that follow when the application, the log, the reviews
\* and the views are as they were.
LEMMA DealerFrame ==
  ASSUME Parts, DealerIffApproved, HistoryKeepsDecisions, Advance,
         UNCHANGED <<dealer, role, audit, review>>, view' = view, TypeOK, verified' = verified
  PROVE  /\ DealerSound' /\ AuditSound' /\ DealerIffApproved' /\ HistoryKeepsDecisions'
         /\ \A r \in Reviews : ReviewSound(r)'
         /\ \A v \in Views : ViewSound(v)'
  <1>1. DealerSound'
    <2>1. dealer # Nobody => dealer.from \in Submissions
      BY DEF TypeOK, Application
    <2> QED
      BY <2>1 DEF Parts, DealerSound, Advance
  <1>2. AuditSound'
    BY DEF Parts, AuditSound, Rejections
  <1>3. DealerIffApproved'
    BY DEF DealerIffApproved
  <1>4. HistoryKeepsDecisions'
    BY DEF HistoryKeepsDecisions, Rejections, Advance
  <1>5. \A r \in Reviews : ReviewSound(r)'
    BY DEF Parts, ReviewSound
  <1>6. \A v \in Views : ViewSound(v)'
    BY DEF Parts, ViewSound
  <1> QED
    BY <1>1, <1>2, <1>3, <1>4, <1>5, <1>6

-----------------------------------------------------------------------------
(* Submissions. *)

\* Two facts of a step about the submission that takes it, and about the rest.
Takes(s, q) ==
  /\ submission' = [submission EXCEPT ![s] = q] /\ q \in Submission
  /\ ~Used(s) \/ q.pc \in UsedUp

\* The other submissions and the sweeps wait.
LEMMA OthersWait ==
  ASSUME IInv, Advance, NEW s \in Submissions, NEW q, Takes(s, q), sweep' = sweep,
         \A t \in Submissions \ {s} : submission[t].pc \in {"store", "find", "write"} => Spares(t)
  PROVE  /\ submission' \in [Submissions -> Submission] /\ submission'[s] = q
         /\ \A t \in Submissions \ {s} : submission'[t] = submission[t] /\ Holds(t)' /\ Reads(t)'
         /\ \A w \in Workers : SweepSound(w)'
  <1>1. submission \in [Submissions -> Submission]
    BY DEF IInv, TypeOK
  <1>2. submission' \in [Submissions -> Submission] /\ submission'[s] = q
        /\ \A t \in Submissions \ {s} : submission'[t] = submission[t]
    BY <1>1 DEF Takes
  <1>3. \A t \in Submissions \ {s} : Holds(t)'
    BY <1>2, HoldsFrame DEF IInv, Parts
  <1>4. \A t \in Submissions \ {s} : Reads(t)'
    BY <1>2, ReadsFrame DEF IInv, Parts
  <1>5. \A w \in Workers : SweepSound(w)'
    BY SweepFrame DEF IInv, Parts
  <1> QED
    BY <1>2, <1>3, <1>4, <1>5

\* Submissions that are over stay over when one takes a step.
LEMMA UsedStays ==
  ASSUME IInv, NEW s \in Submissions, NEW q, Takes(s, q)
  PROVE  \A t \in Submissions : Used(t) => Used(t)'
  BY DEF IInv, TypeOK, Takes, Used, UsedUp

\* The documents of a pending application stay when nothing stored is deleted.
LEMMA PendingWaits ==
  ASSUME IInv, dealer' = dealer, harm \subseteq harm', store \subseteq store',
         \A t \in Submissions : submission[t].pc = "lost" => submission'[t].pc = "lost"
  PROVE  PendingHasDocuments'
  <1>1. dealer # Nobody => dealer.from \in Submissions
    BY DEF IInv, TypeOK, Application
  <1> QED
    BY <1>1 DEF IInv, DocumentsMatch, PendingHasDocuments

\* A step of a submission that neither writes the application nor stores a document.
LEMMA SubmissionMoves ==
  ASSUME IInv, NEW s \in Submissions, NEW q, Takes(s, q), ~Used(s),
         UNCHANGED <<role, verified, dealer, store, review, view, sweep, audit>>,
         harm' = harm, q.stored = submission[s].stored, q.pc \in {"store", "find", "write", "undo"},
         Holds(s)', Reads(s)'
  PROVE  IInv'
  <1>1. Advance
    BY UsedStays DEF Advance
  <1>2. /\ submission' \in [Submissions -> Submission] /\ submission'[s] = q
        /\ \A t \in Submissions \ {s} : submission'[t] = submission[t] /\ Holds(t)' /\ Reads(t)'
        /\ \A w \in Workers : SweepSound(w)'
    <2>1. \A t \in Submissions : Spares(t)
      BY DEF Spares
    <2> QED
      BY <1>1, <2>1, OthersWait
  <1>3. TypeOK'
    BY <1>2 DEF IInv, TypeOK
  <1>4. /\ DealerSound' /\ AuditSound' /\ DealerIffApproved' /\ HistoryKeepsDecisions'
        /\ \A r \in Reviews : ReviewSound(r)'
        /\ \A v \in Views : ViewSound(v)'
    BY <1>1, DealerFrame DEF IInv
  <1>5. PendingHasDocuments'
    BY <1>2, PendingWaits DEF Used, UsedUp
  <1>6. NoOrphanDocuments'
    <2> SUFFICES ASSUME harm' = {}, NEW k \in store
                 PROVE  \/ dealer # Nobody /\ k \in dealer.docs
                        \/ k \in submission'[k[1]].stored /\ submission'[k[1]].pc \in {"store", "find", "write", "undo"}
                        \/ \E t \in Submissions : submission'[t].pc = "replace" /\ k \in submission'[t].seen.docs
      BY DEF NoOrphanDocuments
    <2>1. harm = {} /\ q.pc \in {"store", "find", "write", "undo"}
      OBVIOUS
    <2>2. k \in Keys /\ k[1] \in Submissions
      BY KeyFacts DEF IInv, TypeOK
    <2>3. \/ dealer # Nobody /\ k \in dealer.docs
          \/ k \in submission[k[1]].stored /\ submission[k[1]].pc \in {"store", "find", "write", "undo"}
          \/ \E t \in Submissions : submission[t].pc = "replace" /\ k \in submission[t].seen.docs
      BY <2>1 DEF IInv, DocumentsMatch, NoOrphanDocuments
    <2> QED
      BY <1>2, <2>1, <2>2, <2>3 DEF Used, UsedUp
  <1> QED
    BY <1>2, <1>3, <1>4, <1>5, <1>6 DEF IInv, Parts, DocumentsMatch

\* Admission, an upload that fails without a trace and a refused write move the submission on.
LEMMA GoStep ==
  ASSUME IInv, NEW s \in Submissions, Admit(s) \/ (StoringFails(s) /\ UNCHANGED <<store, harm>>) \/ WriteRefused(s)
  PROVE  IInv'
  <1> DEFINE pc == IF submission[s].pc = "idle" THEN "store" ELSE "undo"
             q == [submission[s] EXCEPT !.pc = pc]
  <1>1. /\ submission[s] \in Submission /\ submission \in [Submissions -> Submission]
        /\ Holds(s) /\ Reads(s)
    BY DEF IInv, TypeOK, Parts
  <1>2. submission' = [submission EXCEPT ![s] = q] /\ ~Used(s)
    BY <1>1 DEF Admit, StoringFails, WriteRefused, Go, Used, UsedUp
  <1>3. pc \in {"store", "undo"} /\ (pc = "store" => submission[s].pc = "idle")
    OBVIOUS
  <1> HIDE DEF pc
  <1>4. /\ q \in Submission /\ q.pc = pc /\ q.stored = submission[s].stored /\ q.seen = submission[s].seen
    BY <1>1, <1>3 DEF Submission
  <1> HIDE DEF q
  <1>5. submission'[s] = q /\ Takes(s, q)
    BY <1>1, <1>2, <1>4 DEF Takes
  <1>6. /\ UNCHANGED <<role, verified, dealer, store, review, view, sweep, audit>> /\ harm' = harm
    BY DEF Admit, StoringFails, WriteRefused
  <1>7. Holds(s)'
    BY <1>1, <1>3, <1>4, <1>5, <1>6 DEF Holds
  <1>8. Advance
    BY <1>5, <1>6, UsedStays DEF Advance
  <1>9. Reads(s)'
    <2>1. q.seen # Nobody => q.seen.from \in Submissions
      BY <1>4 DEF Submission, Application
    <2> QED
      BY <1>1, <1>3, <1>4, <1>5, <1>6, <1>8, <2>1 DEF Reads, Advance
  <1> QED
    BY <1>2, <1>3, <1>4, <1>5, <1>6, <1>7, <1>9, SubmissionMoves

\* An upload that reports an error may have left an object of the submission.
LEMMA StrayStep ==
  ASSUME IInv, NEW s \in Submissions, NEW k \in KeysOf(s), submission[s].pc = "store", Go(s, "undo"),
         store' = store \cup {k}, harm' = harm \cup {"answer"},
         UNCHANGED <<role, verified, dealer, review, view, sweep, audit>>
  PROVE  IInv'
  <1> DEFINE q == [submission[s] EXCEPT !.pc = "undo"]
  <1>1. /\ submission[s] \in Submission /\ submission \in [Submissions -> Submission] /\ ~Used(s)
        /\ Holds(s) /\ Reads(s) /\ k \in Keys /\ k[1] = s
    BY KeyFacts DEF IInv, TypeOK, Parts, Used, UsedUp
  <1>2. submission' = [submission EXCEPT ![s] = q]
    BY <1>1 DEF Go
  <1>3. /\ q \in Submission /\ q.pc = "undo" /\ q.stored = submission[s].stored /\ q.seen = submission[s].seen
    BY <1>1 DEF Submission
  <1> HIDE DEF q
  <1>4. submission'[s] = q /\ Takes(s, q)
    BY <1>1, <1>2, <1>3 DEF Takes
  <1>5. Holds(s)'
    BY <1>1, <1>3, <1>4 DEF Holds
  <1>6. Advance
    BY <1>1, <1>4, UsedStays DEF Advance
  <1>7. Reads(s)'
    <2>1. q.seen # Nobody => q.seen.from \in Submissions
      BY <1>3 DEF Submission, Application
    <2> QED
      BY <1>1, <1>3, <1>4, <1>6, <2>1 DEF Reads, Advance
  <1>8. /\ submission' \in [Submissions -> Submission]
        /\ \A t \in Submissions \ {s} : submission'[t] = submission[t] /\ Holds(t)' /\ Reads(t)'
        /\ \A w \in Workers : SweepSound(w)'
    <2>1. \A t \in Submissions : Spares(t)
      BY DEF Spares
    <2> QED
      BY <1>4, <1>6, <2>1, OthersWait
  <1>9. TypeOK'
    BY <1>1, <1>8 DEF IInv, TypeOK, Harms
  <1>10. /\ DealerSound' /\ AuditSound' /\ DealerIffApproved' /\ HistoryKeepsDecisions'
         /\ \A r \in Reviews : ReviewSound(r)'
         /\ \A v \in Views : ViewSound(v)'
    BY <1>6, DealerFrame DEF IInv
  <1>11. PendingHasDocuments' /\ NoOrphanDocuments'
    BY <1>8, PendingWaits DEF NoOrphanDocuments
  <1> QED
    BY <1>5, <1>7, <1>8, <1>9, <1>10, <1>11 DEF IInv, Parts, DocumentsMatch

\* A failing upload.
LEMMA StoringFailsStep ==
  ASSUME IInv, NEW s \in Submissions, StoringFails(s)
  PROVE  IInv'
  <1>1. CASE UNCHANGED <<store, harm>>
    BY <1>1, GoStep
  <1>2. ASSUME NEW k \in KeysOf(s), store' = store \cup {k}, harm' = harm \cup {"answer"}
        PROVE  IInv'
    BY <1>2, StrayStep DEF StoringFails
  <1> QED
    BY <1>1, <1>2 DEF StoringFails

\* A crash ends a submission wherever it is; its documents may be left behind.
LEMMA CrashStep ==
  ASSUME IInv, NEW s \in Submissions, BackendCrash(s)
  PROVE  IInv'
  <1> DEFINE q == [submission[s] EXCEPT !.pc = "dead", !.seen = Nobody]
  <1>1. /\ submission[s] \in Submission /\ submission \in [Submissions -> Submission]
        /\ Holds(s) /\ Reads(s) /\ submission[s].pc # "lost"
    BY DEF IInv, TypeOK, Parts, BackendCrash
  <1>2. submission' = [submission EXCEPT ![s] = q]
    BY <1>1 DEF BackendCrash, Ends
  <1>3. /\ q \in Submission /\ q.pc = "dead" /\ q.stored = submission[s].stored /\ q.seen = Nobody
    BY <1>1 DEF Submission
  <1> HIDE DEF q
  <1>4. submission'[s] = q /\ Takes(s, q)
    BY <1>1, <1>2, <1>3 DEF Takes, UsedUp
  <1>5. /\ UNCHANGED <<role, verified, dealer, store, review, view, sweep, audit>> /\ harm' = harm \cup {"crash"}
    BY DEF BackendCrash
  <1>6. Holds(s)'
    BY <1>1, <1>3, <1>4, <1>5 DEF Holds
  <1>7. Advance
    BY <1>4, <1>5, UsedStays DEF Advance
  <1>8. Reads(s)'
    BY <1>3, <1>4 DEF Reads
  <1>9. /\ submission' \in [Submissions -> Submission]
        /\ \A t \in Submissions \ {s} : submission'[t] = submission[t] /\ Holds(t)' /\ Reads(t)'
        /\ \A w \in Workers : SweepSound(w)'
    <2>1. \A t \in Submissions : Spares(t)
      BY <1>5 DEF Spares
    <2> QED
      BY <1>4, <1>5, <1>7, <2>1, OthersWait
  <1>10. TypeOK'
    BY <1>5, <1>9 DEF IInv, TypeOK, Harms
  <1>11. /\ DealerSound' /\ AuditSound' /\ DealerIffApproved' /\ HistoryKeepsDecisions'
         /\ \A r \in Reviews : ReviewSound(r)'
         /\ \A v \in Views : ViewSound(v)'
    BY <1>5, <1>7, DealerFrame DEF IInv
  <1>12. PendingHasDocuments' /\ NoOrphanDocuments'
    <2>1. \A t \in Submissions : submission[t].pc = "lost" => submission'[t].pc = "lost"
      BY <1>1, <1>9
    <2>2. harm \subseteq harm' /\ harm' # {} /\ store \subseteq store'
      BY <1>5
    <2>3. PendingHasDocuments'
      BY <1>5, <2>1, <2>2, PendingWaits
    <2> QED
      BY <2>2, <2>3 DEF NoOrphanDocuments
  <1> QED
    BY <1>6, <1>8, <1>9, <1>10, <1>11, <1>12 DEF IInv, Parts, DocumentsMatch

\* A submission reads the application, and goes on if there is none or it is rejected.
LEMMA FindExistingStep ==
  ASSUME IInv, NEW s \in Submissions, FindExisting(s)
  PROVE  IInv'
  <1> DEFINE pc == IF MaySubmit(dealer) THEN "write" ELSE "undo"
             q == [submission[s] EXCEPT !.seen = dealer, !.pc = pc]
  <1>1. /\ submission[s] \in Submission /\ submission \in [Submissions -> Submission]
        /\ Holds(s) /\ submission[s].pc = "find" /\ dealer \in Application \cup {Nobody} /\ DealerSound
    BY DEF IInv, TypeOK, Parts, FindExisting
  <1>2. submission' = [submission EXCEPT ![s] = q] /\ ~Used(s)
    BY <1>1 DEF FindExisting, Used, UsedUp
  <1>3. pc \in {"write", "undo"} /\ (pc = "write" => dealer = Nobody \/ dealer.status = "rejected")
    BY DEF MaySubmit
  <1> HIDE DEF pc
  <1>4. /\ q \in Submission /\ q.pc = pc /\ q.stored = submission[s].stored /\ q.seen = dealer
    BY <1>1, <1>3 DEF Submission
  <1> HIDE DEF q
  <1>5. submission'[s] = q /\ Takes(s, q)
    BY <1>1, <1>2, <1>4 DEF Takes
  <1>6. /\ UNCHANGED <<role, verified, dealer, store, review, view, sweep, audit>> /\ harm' = harm
    BY DEF FindExisting
  <1>7. Holds(s)'
    BY <1>1, <1>3, <1>4, <1>5, <1>6 DEF Holds
  <1>8. Advance
    BY <1>5, <1>6, UsedStays DEF Advance
  <1>9. Reads(s)'
    <2>1. dealer # Nobody => dealer.from \in Submissions
      BY <1>1 DEF Application
    <2> QED
      BY <1>1, <1>3, <1>4, <1>5, <1>6, <1>8, <2>1 DEF Reads, Advance, DealerSound, Decisions
  <1> QED
    BY <1>2, <1>3, <1>4, <1>5, <1>6, <1>7, <1>9, SubmissionMoves

\* A stored document belongs to the submission that stored it.
LEMMA StoreDocumentStep ==
  ASSUME IInv, NEW s \in Submissions, NEW k \in Keys, StoreDocument(s, k)
  PROVE  IInv'
  <1> DEFINE stored == submission[s].stored \cup {k}
             pc == IF stored = KeysOf(s) THEN "find" ELSE "store"
             q == [submission[s] EXCEPT !.stored = stored, !.pc = pc]
  <1>1. /\ submission[s] \in Submission /\ submission \in [Submissions -> Submission]
        /\ Holds(s) /\ Reads(s) /\ submission[s].pc = "store" /\ k \in KeysOf(s) /\ store' = store \cup {k}
    BY DEF IInv, TypeOK, Parts, StoreDocument
  <1>2. submission' = [submission EXCEPT ![s] = q] /\ ~Used(s)
    BY <1>1 DEF StoreDocument, Used, UsedUp
  <1>3. pc \in {"find", "store"} /\ (pc = "find" => stored = KeysOf(s))
    OBVIOUS
  <1>4. stored \subseteq Keys /\ stored \subseteq KeysOf(s) /\ stored \subseteq store'
    BY <1>1 DEF Holds, Submission
  <1>5. submission[s].stored \subseteq stored /\ k \in stored
    OBVIOUS
  <1> HIDE DEF pc, stored
  <1>6. /\ q \in Submission /\ q.pc = pc /\ q.stored = stored /\ q.seen = submission[s].seen
    BY <1>1, <1>3, <1>4 DEF Submission
  <1> HIDE DEF q
  <1>7. submission'[s] = q /\ Takes(s, q)
    BY <1>1, <1>2, <1>6 DEF Takes
  <1>8. /\ UNCHANGED <<role, verified, dealer, review, view, sweep, audit, harm>>
    BY DEF StoreDocument
  <1>9. Holds(s)'
    BY <1>3, <1>4, <1>6, <1>7 DEF Holds
  <1>10. k[1] = s
    BY <1>1, KeyFacts
  <1>11. Advance
    BY <1>1, <1>2, <1>7, <1>8, <1>10, UsedStays DEF Advance
  <1>12. Reads(s)'
    <2>1. q.seen # Nobody => q.seen.from \in Submissions
      BY <1>6 DEF Submission, Application
    <2> QED
      BY <1>1, <1>3, <1>6, <1>7, <1>8, <1>11, <2>1 DEF Reads, Advance
  <1>13. /\ submission' \in [Submissions -> Submission]
         /\ \A t \in Submissions \ {s} : submission'[t] = submission[t] /\ Holds(t)' /\ Reads(t)'
         /\ \A w \in Workers : SweepSound(w)'
    <2>1. \A t \in Submissions : Spares(t)
      BY <1>1 DEF Spares
    <2> QED
      BY <1>7, <1>8, <1>11, <2>1, OthersWait
  <1>14. TypeOK'
    BY <1>1, <1>8, <1>13 DEF IInv, TypeOK
  <1>15. /\ DealerSound' /\ AuditSound' /\ DealerIffApproved' /\ HistoryKeepsDecisions'
         /\ \A r \in Reviews : ReviewSound(r)'
         /\ \A v \in Views : ViewSound(v)'
    BY <1>8, <1>11, DealerFrame DEF IInv
  <1>16. PendingHasDocuments'
    BY <1>1, <1>8, <1>13, PendingWaits
  <1>17. NoOrphanDocuments'
    <2> SUFFICES ASSUME harm = {}, NEW j \in store \cup {k}
                 PROVE  \/ dealer # Nobody /\ j \in dealer.docs
                        \/ j \in submission'[j[1]].stored /\ submission'[j[1]].pc \in {"store", "find", "write", "undo"}
                        \/ \E t \in Submissions : submission'[t].pc = "replace" /\ j \in submission'[t].seen.docs
      BY <1>1, <1>8 DEF NoOrphanDocuments
    <2>1. CASE j = k
      BY <1>3, <1>5, <1>6, <1>7, <1>10, <2>1
    <2>2. CASE j # k
      <3>1. j \in store /\ j \in Keys /\ j[1] \in Submissions
        BY <2>2, KeyFacts DEF IInv, TypeOK
      <3>2. \/ dealer # Nobody /\ j \in dealer.docs
            \/ j \in submission[j[1]].stored /\ submission[j[1]].pc \in {"store", "find", "write", "undo"}
            \/ \E t \in Submissions : submission[t].pc = "replace" /\ j \in submission[t].seen.docs
        BY <3>1 DEF IInv, DocumentsMatch, NoOrphanDocuments
      <3> QED
        BY <1>2, <1>3, <1>5, <1>6, <1>7, <1>13, <3>1, <3>2 DEF Used, UsedUp
    <2> QED
      BY <2>1, <2>2
  <1> QED
    BY <1>9, <1>12, <1>13, <1>14, <1>15, <1>16, <1>17 DEF IInv, Parts, DocumentsMatch

\* A deletion of documents removes some of them and nothing else, and forgets none
\* without a trace.
LEMMA DeleteAllFacts ==
  ASSUME IInv, NEW keys, DeleteAll(keys)
  PROVE  /\ store' \subseteq store /\ \A k \in store : k \notin keys => k \in store'
         /\ harm \subseteq harm' /\ harm' \subseteq Harms
         /\ harm' = {} => \A k \in keys : k \notin store'
  BY DEF DeleteAll, IInv, TypeOK, Harms

\* The submissions that wait keep their documents when those of a submission that
\* is over, or of the one that undoes, are deleted.
LEMMA SparedFacts ==
  ASSUME IInv, NEW keys, NEW s \in Submissions, keys \subseteq KeysOf(s), store \ keys \subseteq store'
  PROVE  \A t \in Submissions \ {s} : Spares(t)
  BY KeyFacts DEF Spares

\* Deleting what a submission read, or what it stored itself, ends it; the documents
\* of a pending application are neither.
LEMMA DeletionStep ==
  ASSUME IInv, NEW s \in Submissions, DeleteReplaced(s) \/ Undo(s)
  PROVE  IInv'
  <1> DEFINE keys == IF submission[s].pc = "replace" THEN submission[s].seen.docs ELSE submission[s].stored
             pc == IF submission[s].pc = "replace" THEN "accepted"
                   ELSE IF submission[s].pc = "undo" THEN "refused" ELSE "lost"
             q == [submission[s] EXCEPT !.pc = pc, !.seen = Nobody]
  <1>1. /\ submission[s] \in Submission /\ submission \in [Submissions -> Submission]
        /\ Holds(s) /\ Reads(s) /\ submission[s].pc \in {"replace", "undo", "unanswered"}
    BY DEF IInv, TypeOK, Parts, DeleteReplaced, Undo
  <1>2. submission' = [submission EXCEPT ![s] = q] /\ DeleteAll(keys)
    BY <1>1 DEF DeleteReplaced, Undo, Replaced, OwnDocuments, Ends
  <1>3. /\ pc \in {"accepted", "refused", "lost"} /\ (pc = "accepted" <=> submission[s].pc = "replace")
        /\ pc = "refused" <=> submission[s].pc = "undo"
    BY <1>1
  <1>4. keys \subseteq Keys
    <2>1. submission[s].seen # Nobody => submission[s].seen.docs \subseteq Keys
      BY <1>1 DEF Submission, Application
    <2>2. submission[s].pc = "replace" => submission[s].seen # Nobody
      BY <1>1 DEF Reads
    <2> QED
      BY <1>1, <2>1, <2>2 DEF Submission
  <1>5. PICK u \in Submissions : /\ keys \subseteq KeysOf(u) /\ (dealer # Nobody => dealer.from # u \/ (u = s /\ pc = "lost"))
                                 /\ u = s \/ Used(u)
    <2>1. CASE submission[s].pc = "replace"
      <3>1. submission[s].seen # Nobody /\ submission[s].seen.from \in Submissions
        BY <1>1, <2>1 DEF Reads, Submission, Application
      <3> QED
        BY <1>1, <2>1, <3>1 DEF Reads
    <2>2. CASE submission[s].pc = "undo"
      <3>1. ~Used(s)
        BY <2>2 DEF Used, UsedUp
      <3>2. dealer # Nobody => dealer.from # s
        BY <3>1 DEF IInv, Parts, DealerSound
      <3> QED
        BY <1>1, <2>2, <3>2 DEF Holds
    <2>3. CASE submission[s].pc = "unanswered"
      BY <1>1, <2>3 DEF Holds
    <2> QED
      BY <1>1, <2>1, <2>2, <2>3
  <1>6. submission[s].pc = "replace" => keys = submission[s].seen.docs
    OBVIOUS
  <1>7. submission[s].pc = "undo" => keys = submission[s].stored
    OBVIOUS
  <1> HIDE DEF pc, keys
  <1>8. /\ q \in Submission /\ q.pc = pc /\ q.stored = submission[s].stored /\ q.seen = Nobody
    BY <1>1, <1>3 DEF Submission
  <1> HIDE DEF q
  <1>9. submission'[s] = q /\ Takes(s, q)
    BY <1>1, <1>2, <1>3, <1>8 DEF Takes, Used, UsedUp
  <1>10. /\ UNCHANGED <<role, verified, dealer, review, view, sweep, audit>>
         /\ store' \subseteq store /\ store \ keys \subseteq store'
         /\ harm \subseteq harm' /\ harm' \subseteq Harms
         /\ harm' = {} => \A k \in keys : k \notin store'
    BY <1>2, DeleteAllFacts DEF DeleteReplaced, Undo
  <1>11. Holds(s)'
    BY <1>1, <1>3, <1>8, <1>9 DEF Holds
  <1>12. Advance
    BY <1>9, <1>10, UsedStays DEF Advance
  <1>13. Reads(s)'
    BY <1>3, <1>8, <1>9 DEF Reads
  <1>14. /\ submission' \in [Submissions -> Submission]
         /\ \A t \in Submissions \ {s} : submission'[t] = submission[t] /\ Holds(t)' /\ Reads(t)'
         /\ \A w \in Workers : SweepSound(w)'
    <2>1. \A t \in Submissions \ {u} : Spares(t)
      BY <1>5, <1>10, SparedFacts
    <2>2. \A t \in Submissions \ {s} : submission[t].pc \in {"store", "find", "write"} => Spares(t)
      BY <1>5, <2>1 DEF Used, UsedUp
    <2> QED
      BY <1>9, <1>10, <1>12, <2>2, OthersWait
  <1>15. TypeOK'
    BY <1>10, <1>14 DEF IInv, TypeOK
  <1>16. /\ DealerSound' /\ AuditSound' /\ DealerIffApproved' /\ HistoryKeepsDecisions'
         /\ \A r \in Reviews : ReviewSound(r)'
         /\ \A v \in Views : ViewSound(v)'
    BY <1>10, <1>12, <1>15, DealerFrame DEF IInv
  <1>17. PendingHasDocuments'
    <2> SUFFICES ASSUME dealer # Nobody, dealer.status = "pending", "swept" \notin harm'
                 PROVE  /\ dealer.docs = KeysOf(dealer.from)
                        /\ submission'[dealer.from].pc # "lost" => dealer.docs \subseteq store'
      BY <1>10 DEF PendingHasDocuments
    <2>1. /\ dealer.docs = KeysOf(dealer.from) /\ dealer.from \in Submissions
          /\ submission[dealer.from].pc # "lost" => dealer.docs \subseteq store
      BY <1>10 DEF IInv, DocumentsMatch, PendingHasDocuments, TypeOK, Application
    <2> SUFFICES ASSUME submission'[dealer.from].pc # "lost"
                 PROVE  dealer.docs \subseteq store'
      BY <2>1
    <2>2. dealer.from # u
      BY <1>5, <1>8, <1>9
    <2>3. submission[dealer.from].pc # "lost"
      BY <1>1, <1>14, <2>1
    <2> QED
      BY <1>5, <1>10, <2>1, <2>2, <2>3, KeyFacts
  <1>18. NoOrphanDocuments'
    <2> SUFFICES ASSUME harm' = {}, NEW k \in store'
                 PROVE  \/ dealer # Nobody /\ k \in dealer.docs
                        \/ k \in submission'[k[1]].stored /\ submission'[k[1]].pc \in {"store", "find", "write", "undo"}
                        \/ \E t \in Submissions : submission'[t].pc = "replace" /\ k \in submission'[t].seen.docs
      BY <1>10 DEF NoOrphanDocuments
    <2>1. harm = {} /\ k \in store /\ k \notin keys /\ k \in Keys /\ k[1] \in Submissions
      BY <1>10, KeyFacts DEF IInv, TypeOK
    <2>2. \/ dealer # Nobody /\ k \in dealer.docs
          \/ k \in submission[k[1]].stored /\ submission[k[1]].pc \in {"store", "find", "write", "undo"}
          \/ \E t \in Submissions : submission[t].pc = "replace" /\ k \in submission[t].seen.docs
      BY <2>1 DEF IInv, DocumentsMatch, NoOrphanDocuments
    <2> QED
      BY <1>1, <1>6, <1>7, <1>14, <2>1, <2>2
  <1> QED
    BY <1>11, <1>13, <1>14, <1>15, <1>16, <1>17, <1>18 DEF IInv, Parts, DocumentsMatch

-----------------------------------------------------------------------------
(* New versions of the application. *)

\* What an accepted write of submission s makes of the parts that do not depend on
\* which application there was: a pending one, of the documents of s.
LEMMA NewVersion ==
  ASSUME IInv, NEW s \in Submissions, NEW pc \in {"accepted", "replace", "unanswered"}, submission[s].pc = "write",
         Go(s, pc), UNCHANGED <<role, verified, store, review, view, sweep, audit>>,
         harm \subseteq harm', harm' \subseteq Harms,
         dealer' \in Application, dealer'.status = "pending", dealer'.docs = submission[s].stored,
         dealer'.by = Nobody, dealer'.from = s,
         role # "dealer",
         pc = "replace" => submission[s].seen # Nobody,
         harm' = {} /\ dealer # Nobody => pc = "replace" /\ dealer.docs \subseteq submission[s].seen.docs,
         HistoryKeepsDecisions'
  PROVE  IInv'
  <1> DEFINE q == [submission[s] EXCEPT !.pc = pc]
  <1>1. /\ submission[s] \in Submission /\ submission \in [Submissions -> Submission] /\ Holds(s) /\ Reads(s)
        /\ ~Used(s) /\ dealer' # Nobody
    BY NobodyAssumption DEF IInv, TypeOK, Parts, Used, UsedUp
  <1>2. /\ submission' = [submission EXCEPT ![s] = q] /\ q \in Submission
        /\ q.pc = pc /\ q.stored = submission[s].stored /\ q.seen = submission[s].seen
    BY <1>1 DEF Go, Submission
  <1> HIDE DEF q
  <1>3. submission'[s] = q /\ Takes(s, q)
    BY <1>1, <1>2 DEF Takes
  <1>4. Advance
    BY <1>1, <1>3, UsedStays, NobodyAssumption DEF Advance
  <1>5. /\ submission' \in [Submissions -> Submission]
        /\ \A t \in Submissions \ {s} : submission'[t] = submission[t] /\ Holds(t)' /\ Reads(t)'
        /\ \A w \in Workers : SweepSound(w)'
    <2>1. \A t \in Submissions : Spares(t)
      BY DEF Spares
    <2> QED
      BY <1>3, <1>4, <2>1, OthersWait
  <1>6. Holds(s)'
    BY <1>1, <1>2, <1>3 DEF Holds
  <1>7. Reads(s)'
    <2>1. q.seen # Nobody => q.seen.from \in Submissions
      BY <1>2 DEF Submission, Application
    <2>2. q.seen # Nobody => Used(q.seen.from) /\ q.seen.docs \subseteq KeysOf(q.seen.from)
      BY <1>1, <1>2 DEF Reads
    <2>3. q.seen # Nobody => q.seen.from # s
      BY <1>1, <2>2
    <2>4. q.seen # Nobody => q.seen.by \in Reviews /\ review[q.seen.by].pc = "done"
      BY <1>1, <1>2 DEF Reads
    <2> QED
      BY <1>1, <1>2, <1>3, <1>4, <2>1, <2>2, <2>3, <2>4, NobodyAssumption DEF Reads, Advance
  <1>8. TypeOK'
    BY <1>5 DEF IInv, TypeOK
  <1>9. DealerSound'
    BY <1>1, <1>2, <1>3, NobodyAssumption DEF DealerSound, Decisions, Holds, Used, UsedUp
  <1>10. AuditSound'
    BY <1>1 DEF IInv, Parts, AuditSound, Rejections
  <1>11. DealerIffApproved'
    BY DEF DealerIffApproved
  <1>12. PendingHasDocuments'
    BY <1>1, <1>2 DEF PendingHasDocuments, Holds
  <1>13. NoOrphanDocuments'
    <2> SUFFICES ASSUME harm' = {}, NEW k \in store
                 PROVE  \/ k \in dealer'.docs
                        \/ k \in submission'[k[1]].stored /\ submission'[k[1]].pc \in {"store", "find", "write", "undo"}
                        \/ \E t \in Submissions : submission'[t].pc = "replace" /\ k \in submission'[t].seen.docs
      BY <1>1 DEF NoOrphanDocuments
    <2>1. harm = {} /\ k \in Keys /\ k[1] \in Submissions
      BY KeyFacts DEF IInv, TypeOK
    <2>2. \/ dealer # Nobody /\ k \in dealer.docs
          \/ k \in submission[k[1]].stored /\ submission[k[1]].pc \in {"store", "find", "write", "undo"}
          \/ \E t \in Submissions : submission[t].pc = "replace" /\ k \in submission[t].seen.docs
      BY <2>1 DEF IInv, DocumentsMatch, NoOrphanDocuments
    <2>3. CASE dealer # Nobody /\ k \in dealer.docs
      BY <1>2, <1>3, <2>3
    <2>4. CASE k \in submission[k[1]].stored /\ submission[k[1]].pc \in {"store", "find", "write", "undo"}
      BY <1>5, <2>1, <2>4
    <2>5. CASE \E t \in Submissions : submission[t].pc = "replace" /\ k \in submission[t].seen.docs
      BY <1>5, <2>5
    <2> QED
      BY <2>2, <2>3, <2>4, <2>5
  <1>14. (\A r \in Reviews : ReviewSound(r)') /\ \A v \in Views : ViewSound(v)'
    BY DEF IInv, Parts, ReviewSound, ViewSound
  <1> QED
    BY <1>5, <1>6, <1>7, <1>8, <1>9, <1>10, <1>11, <1>12, <1>13, <1>14 DEF IInv, Parts, DocumentsMatch

\* The first application.
LEMMA CreateDealerStep ==
  ASSUME IInv, NEW s \in Submissions, CreateDealer(s)
  PROVE  IInv'
  <1>1. /\ submission[s] \in Submission /\ submission[s].pc = "write" /\ submission[s].seen = Nobody /\ dealer = Nobody
        /\ dealer' = [status |-> "pending", docs |-> submission[s].stored, cleared |-> FALSE,
                      by |-> Nobody, old |-> FALSE, history |-> << >>, from |-> s]
        /\ UNCHANGED <<role, verified, store, review, view, sweep, audit>>
    BY DEF IInv, TypeOK, CreateDealer
  <1>2. submission[s].stored \subseteq Keys
    BY <1>1 DEF Submission
  <1>3. << >> \in Seq(Reviews)
    OBVIOUS
  <1>4. dealer' \in Application /\ dealer'.status = "pending" /\ dealer'.docs = submission[s].stored
        /\ dealer'.by = Nobody /\ dealer'.from = s /\ dealer'.history = << >>
    BY <1>1, <1>2, <1>3 DEF Application
  <1>5. role # "dealer" /\ Rejections = {}
    BY <1>1 DEF IInv, DealerIffApproved, Parts, AuditSound
  <1>6. Rejections' = Rejections
    BY <1>1 DEF Rejections
  <1>7. HistoryKeepsDecisions'
    BY <1>4, <1>5, <1>6, FS_EmptySet DEF HistoryKeepsDecisions
  <1>8. PICK pc \in {"accepted", "unanswered"} : Go(s, pc)
    BY DEF CreateDealer, Answers
  <1>9. harm \subseteq harm' /\ harm' \subseteq Harms
    BY DEF IInv, TypeOK, CreateDealer, Answers, Harms
  <1> QED
    BY <1>1, <1>4, <1>5, <1>7, <1>8, <1>9, NewVersion

\* The entry of a history is appended to those it had.
Elements(h) == {h[i] : i \in DOMAIN h}
LEMMA Appended ==
  ASSUME NEW S, NEW h \in Seq(S), NEW x \in S
  PROVE  /\ Append(h, x) \in Seq(S) /\ Len(Append(h, x)) = Len(h) + 1
         /\ Elements(Append(h, x)) = Elements(h) \cup {x}
  <1>1. /\ Append(h, x) \in Seq(S) /\ Len(Append(h, x)) = Len(h) + 1 /\ Len(h) \in Nat
        /\ \A i \in 1 .. Len(h) : Append(h, x)[i] = h[i]
        /\ Append(h, x)[Len(h) + 1] = x
    OBVIOUS
  <1>2. DOMAIN h = 1 .. Len(h) /\ DOMAIN Append(h, x) = 1 .. (Len(h) + 1)
    BY <1>1
  <1>3. 1 .. (Len(h) + 1) = (1 .. Len(h)) \cup {Len(h) + 1}
    BY <1>1
  <1> QED
    BY <1>1, <1>2, <1>3 DEF Elements

\* The decisions an application tells of, in terms of the elements of its history.
LEMMA HistoryElements ==
  HistoryKeepsDecisions <=>
    (dealer # Nobody /\ "overtaken" \notin harm =>
       /\ Rejections = Elements(dealer.history) \cup (IF dealer.status = "rejected" THEN {dealer.by} ELSE {})
       /\ Cardinality(Rejections) = Len(dealer.history) + (IF dealer.status = "rejected" THEN 1 ELSE 0))
  BY DEF HistoryKeepsDecisions, Elements

\* The same of the next state.
LEMMA NextHistoryElements ==
  HistoryKeepsDecisions' <=>
    (dealer' # Nobody /\ "overtaken" \notin harm' =>
       /\ Rejections' = Elements(dealer'.history) \cup (IF dealer'.status = "rejected" THEN {dealer'.by} ELSE {})
       /\ Cardinality(Rejections') = Len(dealer'.history) + (IF dealer'.status = "rejected" THEN 1 ELSE 0))
  BY DEF HistoryKeepsDecisions, Elements

\* A correction of a rejected application: the rejection goes to the history.
LEMMA ResubmitStep ==
  ASSUME IInv, NEW s \in Submissions, Resubmit(s)
  PROVE  IInv'
  <1> DEFINE seen == submission[s].seen
             history == Append(dealer.history, seen.by)
             harmed == IF dealer.by = seen.by THEN harm ELSE harm \cup {"overtaken"}
  <1>1. /\ submission[s] \in Submission /\ submission[s].pc = "write" /\ seen # Nobody /\ Reads(s)
        /\ dealer # Nobody /\ dealer \in Application /\ dealer.status = "rejected"
    BY DEF IInv, TypeOK, Parts, Resubmit, Resubmittable, Reads
  <1>2. /\ dealer' = [dealer EXCEPT !.status = "pending", !.docs = submission[s].stored, !.cleared = FALSE,
                                    !.by = Nobody, !.old = FALSE, !.from = s, !.history = history]
        /\ UNCHANGED <<role, verified, store, review, view, sweep, audit>>
    BY DEF Resubmit, History
  <1>3. submission[s].stored \subseteq Keys /\ seen.by \in Reviews /\ dealer.history \in Seq(Reviews)
    BY <1>1 DEF Submission, Reads, Application
  <1>4. /\ history \in Seq(Reviews) /\ Len(history) = Len(dealer.history) + 1
        /\ Elements(history) = Elements(dealer.history) \cup {seen.by}
    BY <1>3, Appended
  <1> HIDE DEF history
  <1>5. dealer' \in Application /\ dealer'.status = "pending" /\ dealer'.docs = submission[s].stored
        /\ dealer'.by = Nobody /\ dealer'.from = s /\ dealer'.history = history
    BY <1>1, <1>2, <1>3, <1>4 DEF Application
  <1>6. role # "dealer"
    BY <1>1 DEF IInv, DealerIffApproved
  <1>7. harm \subseteq harmed /\ harmed \subseteq Harms /\ (dealer.by # seen.by => "overtaken" \in harmed)
    BY DEF IInv, TypeOK, Harms
  <1>8. Answers(s, "replace", harmed)
    BY DEF Resubmit
  <1> HIDE DEF harmed
  <1>9. PICK pc \in {"replace", "unanswered"} :
           /\ Go(s, pc) /\ harmed \subseteq harm' /\ harm' \subseteq Harms /\ (harm' = {} => pc = "replace")
    BY <1>7, <1>8 DEF Answers, Harms
  <1>10. HistoryKeepsDecisions'
    <2> SUFFICES ASSUME "overtaken" \notin harm'
                 PROVE  Rejections = Elements(history) /\ Cardinality(Rejections) = Len(history)
      <3>1. Rejections' = Rejections /\ Len(history) \in Nat
        BY <1>2, <1>4 DEF Rejections
      <3> QED
        BY <1>5, <3>1, NextHistoryElements
    <2>1. dealer.by = seen.by /\ "overtaken" \notin harm
      BY <1>7, <1>9
    <2>2. /\ Rejections = Elements(dealer.history) \cup {dealer.by}
          /\ Cardinality(Rejections) = Len(dealer.history) + 1
      BY <1>1, <2>1, HistoryElements DEF IInv
    <2>3. Len(dealer.history) \in Nat
      BY <1>3
    <2> QED
      BY <1>4, <2>1, <2>2, <2>3
  <1>11. harm \subseteq harm' /\ harm' \subseteq Harms
    BY <1>7, <1>9
  <1>12. harm' = {} => pc = "replace" /\ dealer.docs \subseteq seen.docs
    BY <1>1, <1>7, <1>9 DEF Reads
  <1> QED
    BY <1>1, <1>2, <1>5, <1>6, <1>10, <1>11, <1>12, <1>9, NewVersion

-----------------------------------------------------------------------------
(* Reviews, views and verification: no submission takes a step. *)

\* Submissions and their documents wait while the application keeps its version.
LEMMA SubmissionsWait ==
  ASSUME IInv, UNCHANGED submission, store' \subseteq store,
         \A s \in Submissions : submission[s].pc \in {"store", "find", "write"} => Spares(s),
         \A r \in Reviews : review[r].pc = "done" => review'[r].pc = "done",
         verified => verified', harm \subseteq harm',
         \/ dealer' = dealer
         \/ /\ dealer # Nobody /\ dealer' # Nobody /\ dealer'.from = dealer.from
            /\ dealer'.status = "pending" => dealer.status = "pending"
            /\ dealer'.by \in Reviews =>
                 (dealer'.by = dealer.by /\ dealer'.docs \subseteq dealer.docs) \/ review[dealer'.by].pc # "done"
  PROVE  /\ Advance
         /\ \A s \in Submissions : Holds(s)' /\ Reads(s)'
         /\ sweep' = sweep => \A w \in Workers : SweepSound(w)'
  <1>1. \A s \in Submissions : (Used(s) <=> Used(s)') /\ submission'[s] = submission[s]
    BY DEF Used, UsedUp
  <1>2. Advance
    BY <1>1 DEF Advance
  <1>3. \A s \in Submissions : Holds(s)' /\ Reads(s)'
    BY <1>1, <1>2, HoldsFrame, ReadsFrame DEF IInv, Parts
  <1> QED
    BY <1>2, <1>3, SweepFrame DEF IInv, Parts

\* Steps that write neither the application nor documents nor a decision.
LEMMA Bystanders ==
  ASSUME IInv, UNCHANGED <<role, dealer, store, submission, sweep, harm>>,
         verified => verified',
         DealerIffApproved',
         \A r \in Reviews : review[r].pc = "done" => review'[r].pc = "done",
         \A r \in Reviews : ReviewSound(r)',
         \A v \in Views : ViewSound(v)',
         AuditSound', HistoryKeepsDecisions', TypeOK'
  PROVE  IInv'
  <1>1. Advance /\ (\A s \in Submissions : Holds(s)' /\ Reads(s)') /\ \A w \in Workers : SweepSound(w)'
    BY SubmissionsWait DEF Spares
  <1>2. DealerSound'
    <2>1. dealer # Nobody => dealer.from \in Submissions
      BY DEF IInv, TypeOK, Application
    <2> QED
      BY <1>1, <2>1 DEF IInv, Parts, DealerSound, Advance
  <1>3. PendingHasDocuments' /\ NoOrphanDocuments'
    BY PendingWaits DEF IInv, DocumentsMatch, NoOrphanDocuments
  <1> QED
    BY <1>1, <1>2, <1>3 DEF IInv, Parts, DocumentsMatch

\* Verification comes too late to make a dealer: the approval asked before.
LEMMA VerifyEmailStep ==
  ASSUME IInv, VerifyEmail
  PROVE  IInv'
  <1>1. /\ ~verified /\ verified' = TRUE
        /\ UNCHANGED <<role, dealer, store, submission, review, view, sweep, audit, harm>>
    BY DEF VerifyEmail
  <1>2. DealerIffApproved'
    BY <1>1 DEF IInv, DealerIffApproved, Parts, DealerSound
  <1>3. AuditSound' /\ HistoryKeepsDecisions' /\ TypeOK'
    BY <1>1 DEF IInv, Parts, AuditSound, HistoryKeepsDecisions, Rejections, TypeOK
  <1>4. (\A r \in Reviews : ReviewSound(r)') /\ \A v \in Views : ViewSound(v)'
    BY <1>1 DEF IInv, Parts, ReviewSound, ViewSound
  <1> QED
    BY <1>1, <1>2, <1>3, <1>4, Bystanders

\* A review asks for the address before it decides.
LEMMA CheckEmailStep ==
  ASSUME IInv, NEW r \in Reviews, CheckEmail(r)
  PROVE  IInv'
  <1> DEFINE pc == IF EmailSuffices(review[r].decision) THEN "decide" ELSE "refused"
             q == [review[r] EXCEPT !.pc = pc]
  <1>1. /\ review \in [Reviews -> Review] /\ review[r] \in Review /\ review[r].pc = "idle"
        /\ UNCHANGED <<role, verified, dealer, store, submission, view, sweep, audit, harm>>
    BY DEF IInv, TypeOK, CheckEmail
  <1>2. review' = [review EXCEPT ![r] = q]
    BY <1>1 DEF CheckEmail
  <1>3. pc \in {"decide", "refused"} /\ (pc = "decide" /\ review[r].decision = "approved" => verified)
    BY DEF EmailSuffices
  <1> HIDE DEF pc
  <1>4. q \in Review /\ q.pc = pc /\ q.decision = review[r].decision
    BY <1>1, <1>3 DEF Review
  <1> HIDE DEF q
  <1>5. review' \in [Reviews -> Review] /\ review'[r] = q /\ \A x \in Reviews \ {r} : review'[x] = review[x]
    BY <1>1, <1>2, <1>4
  <1>6. \A x \in Reviews : ReviewSound(x)'
    BY <1>1, <1>3, <1>4, <1>5 DEF IInv, Parts, ReviewSound
  <1>7. TypeOK' /\ DealerIffApproved' /\ HistoryKeepsDecisions'
    BY <1>1, <1>5 DEF IInv, TypeOK, DealerIffApproved, HistoryKeepsDecisions, Rejections
  <1>8. AuditSound'
    BY <1>1, <1>5 DEF IInv, Parts, AuditSound, Rejections
  <1>9. \A v \in Views : ViewSound(v)'
    BY <1>1 DEF IInv, Parts, ViewSound
  <1> QED
    BY <1>1, <1>5, <1>6, <1>7, <1>8, <1>9, Bystanders

\* A view is recorded before it reads, and what it reads is released then.
LEMMA ViewStep ==
  ASSUME IInv, NEW v \in Views, FindDocument(v) \/ AuditView(v) \/ ReadDocument(v)
  PROVE  IInv'
  <1>1. /\ view \in [Views -> View] /\ view[v] \in View
        /\ UNCHANGED <<role, verified, dealer, store, submission, review, sweep, harm>>
    BY DEF IInv, TypeOK, FindDocument, AuditView, ReadDocument
  <1>2. audit' = audit \/ audit' = audit \cup {<<"viewed", v>>}
    BY DEF FindDocument, AuditView, ReadDocument
  <1>3. /\ view' \in [Views -> View] /\ \A u \in Views \ {v} : view'[u] = view[u]
        /\ view'[v].pc \in {"read", "released"} => <<"viewed", v>> \in audit'
    <2>1. CASE FindDocument(v)
      <3>1. CASE \E k \in dealer.docs : view' = [view EXCEPT ![v] = [pc |-> "audit", key |-> k]]
        <4>1. PICK k \in dealer.docs : view' = [view EXCEPT ![v] = [pc |-> "audit", key |-> k]]
          BY <3>1
        <4>2. k \in Keys
          BY <2>1 DEF IInv, TypeOK, Application, FindDocument
        <4>3. [pc |-> "audit", key |-> k] \in View
          BY <4>2 DEF View
        <4> QED
          BY <1>1, <4>1, <4>3
      <3>2. CASE view' = [view EXCEPT ![v].pc = "failed"]
        BY <1>1, <3>2 DEF View
      <3> QED
        BY <2>1, <3>1, <3>2 DEF FindDocument
    <2>2. CASE AuditView(v)
      BY <1>1, <2>2 DEF AuditView, View
    <2>3. CASE ReadDocument(v)
      <3> DEFINE pc == IF view[v].key \in store THEN "released" ELSE "failed"
             q == [pc |-> pc, key |-> Nobody]
      <3>1. view' = [view EXCEPT ![v] = q] /\ pc \in {"released", "failed"} /\ audit' = audit
            /\ <<"viewed", v>> \in audit
        BY <2>3 DEF ReadDocument, AuditFirst, IInv, Parts, ViewSound
      <3> HIDE DEF pc
      <3>2. q \in View
        BY <3>1 DEF View
      <3> HIDE DEF q
      <3> QED
        BY <1>1, <3>1, <3>2
    <2> QED
      BY <2>1, <2>2, <2>3
  <1>4. Rejections' = Rejections /\ \A d \in Decisions, r \in Reviews : <<d, r>> \in audit' => <<d, r>> \in audit
    BY <1>2 DEF Rejections, Decisions
  <1>5. AuditSound' /\ HistoryKeepsDecisions' /\ DealerIffApproved'
    BY <1>1, <1>4 DEF IInv, Parts, AuditSound, HistoryKeepsDecisions, DealerIffApproved
  <1>6. TypeOK'
    BY <1>1, <1>2, <1>3 DEF IInv, TypeOK
  <1>7. \A u \in Views : ViewSound(u)'
    BY <1>2, <1>3 DEF IInv, Parts, ViewSound
  <1>8. \A r \in Reviews : ReviewSound(r)'
    BY <1>1 DEF IInv, Parts, ReviewSound
  <1> QED
    BY <1>1, <1>5, <1>6, <1>7, <1>8, Bystanders

-----------------------------------------------------------------------------
(* Decisions. *)

\* A decision adds its rejection, if it is one, to those of the audit log.
LEMMA RejectionsGrow ==
  ASSUME IInv, NEW r \in Reviews, NEW d \in Decisions, review[r].pc # "done",
         audit' = audit \cup {<<d, r>>}
  PROVE  /\ r \notin Rejections /\ <<d, r>> \notin audit
         /\ d = "rejected" => Rejections' = Rejections \cup {r}
         /\ d = "approved" => Rejections' = Rejections
  <1>1. <<d, r>> \notin audit
    BY DEF IInv, Parts, AuditSound
  <1>2. r \notin Rejections
    <2> SUFFICES ASSUME NEW e \in audit, e[1] = "rejected", e[2] = r
                 PROVE  FALSE
      BY DEF Rejections
    <2>1. e = <<"rejected", r>>
      BY DEF IInv, TypeOK
    <2> QED
      BY <2>1 DEF IInv, Parts, AuditSound, Decisions
  <1>3. d = "rejected" => Rejections' = Rejections \cup {r}
    <2> DEFINE e == <<d, r>>
    <2>1. e[1] = d /\ e[2] = r /\ audit' = audit \cup {e}
      OBVIOUS
    <2> HIDE DEF e
    <2>2. d = "rejected" => {x \in audit' : x[1] = "rejected"} = {x \in audit : x[1] = "rejected"} \cup {e}
      BY <2>1
    <2> QED
      BY <2>1, <2>2 DEF Rejections
  <1>4. d = "approved" => Rejections' = Rejections
    BY DEF Rejections
  <1> QED
    BY <1>1, <1>2, <1>3, <1>4

\* The parts about submissions when the application keeps its version and documents.
LEMMA SameDocuments ==
  ASSUME IInv, UNCHANGED <<store, submission, harm>>, dealer # Nobody, dealer' # Nobody,
         dealer'.docs = dealer.docs, dealer'.from = dealer.from,
         dealer'.status = "pending" => dealer.status = "pending"
  PROVE  PendingHasDocuments' /\ NoOrphanDocuments'
  <1>1. PendingHasDocuments'
    BY DEF IInv, DocumentsMatch, PendingHasDocuments
  <1>2. NoOrphanDocuments'
    BY DEF IInv, DocumentsMatch, NoOrphanDocuments
  <1> QED
    BY <1>1, <1>2

\* Application, role and log change together, once.
LEMMA DecideStep ==
  ASSUME IInv, NEW r \in Reviews, Decide(r)
  PROVE  IInv'
  <1> DEFINE d == review[r].decision
             role1 == IF d = "approved" THEN "dealer" ELSE role
  <1>1. /\ review \in [Reviews -> Review] /\ review[r] \in Review /\ review[r].pc = "decide" /\ d \in Decisions
        /\ UNCHANGED <<verified, store, submission, view, sweep, harm>>
    BY DEF IInv, TypeOK, Decide, Review
  <1>2. ASSUME NEW pc \in {"done", "refused"}, review' = [review EXCEPT ![r].pc = pc]
        PROVE  /\ review' \in [Reviews -> Review] /\ review'[r].pc = pc
               /\ \A x \in Reviews \ {r} : review'[x] = review[x]
               /\ \A x \in Reviews : review[x].pc = "done" => review'[x].pc = "done"
               /\ \A x \in Reviews : (verified => verified') => ReviewSound(x)'
    <2>1. /\ review' \in [Reviews -> Review] /\ review'[r].pc = pc
          /\ \A x \in Reviews \ {r} : review'[x] = review[x]
      BY <1>1, <1>2 DEF Review
    <2> QED
      BY <1>1, <2>1 DEF IInv, Parts, ReviewSound
  <1>3. CASE ~Undecided(dealer)
    <2>1. review' = [review EXCEPT ![r].pc = "refused"] /\ UNCHANGED <<role, dealer, audit>>
      BY <1>3 DEF Decide
    <2>2. AuditSound'
      BY <1>2, <2>1 DEF IInv, Parts, AuditSound, Rejections
    <2>3. TypeOK' /\ HistoryKeepsDecisions' /\ DealerIffApproved'
      <3>1. TypeOK'
        BY <1>1, <1>2, <2>1 DEF IInv, TypeOK
      <3>2. HistoryKeepsDecisions'
        BY <1>1, <2>1 DEF IInv, HistoryKeepsDecisions, Rejections
      <3>3. DealerIffApproved'
        BY <1>1, <2>1 DEF IInv, DealerIffApproved
      <3> QED
        BY <3>1, <3>2, <3>3
    <2>4. \A v \in Views : ViewSound(v)'
      BY <1>1, <2>1 DEF IInv, Parts, ViewSound
    <2> QED
      BY <1>1, <1>2, <2>1, <2>2, <2>3, <2>4, Bystanders
  <1>4. CASE Undecided(dealer)
    <2>1. /\ dealer' = [dealer EXCEPT !.status = d, !.by = r, !.old = FALSE] /\ role' = role1
          /\ audit' = audit \cup {<<d, r>>} /\ review' = [review EXCEPT ![r].pc = "done"]
      BY <1>4 DEF Decide, Promoted
    <2>2. dealer # Nobody /\ dealer \in Application /\ dealer.status = "pending"
      BY <1>4 DEF Undecided, IInv, TypeOK
    <2>3. /\ dealer' \in Application /\ dealer' # Nobody /\ dealer'.status = d /\ dealer'.by = r
          /\ dealer'.docs = dealer.docs /\ dealer'.from = dealer.from /\ dealer'.history = dealer.history
      BY <1>1, <2>1, <2>2, NobodyAssumption DEF Application
    <2>4. d # "pending"
      BY <1>1 DEF Decisions
    <2> HIDE DEF role1
    <2>5. role1 \in {"buyer", "dealer"} /\ (d = "approved" => role1 = "dealer") /\ (d = "rejected" => role1 = role)
      BY DEF role1, IInv, TypeOK
    <2>6. d \in {"approved", "rejected"} /\ review[r].pc # "done"
      BY <1>1 DEF Decisions
    <2> HIDE DEF d
    <2>7. /\ Advance /\ (\A s \in Submissions : Holds(s)' /\ Reads(s)') /\ (\A w \in Workers : SweepSound(w)')
      BY <1>1, <1>2, <2>1, <2>2, <2>3, <2>4, <2>6, SubmissionsWait DEF Spares
    <2>8. PendingHasDocuments' /\ NoOrphanDocuments'
      BY <1>1, <2>2, <2>3, <2>4, SameDocuments
    <2>9. DealerSound'
      <3>1. d = "approved" => verified
        BY <1>1 DEF d, IInv, Parts, ReviewSound
      <3>2. dealer.from \in Submissions
        BY <2>2 DEF Application
      <3> QED
        BY <1>1, <1>2, <2>1, <2>2, <2>3, <2>6, <2>7, <3>1, <3>2 DEF IInv, Parts, DealerSound, Advance
    <2>10. DealerIffApproved'
      <3>1. role # "dealer" /\ (d = "approved" => verified)
        BY <1>1, <2>2 DEF d, IInv, DealerIffApproved, Parts, ReviewSound
      <3> QED
        BY <1>1, <2>1, <2>3, <2>5, <2>6, <3>1 DEF DealerIffApproved
    <2>11. /\ r \notin Rejections
           /\ d = "rejected" => Rejections' = Rejections \cup {r}
           /\ d = "approved" => Rejections' = Rejections
      BY <1>1, <2>1, <2>6, RejectionsGrow
    <2>12. IsFiniteSet(Rejections)
      BY DEF IInv, Parts, AuditSound
    <2>13. AuditSound'
      <3>1. IsFiniteSet(Rejections')
        BY <2>6, <2>11, <2>12, FS_AddElement
      <3>2. \A e \in Decisions, x \in Reviews : <<e, x>> \in audit' => review'[x].pc = "done"
        BY <1>2, <2>1 DEF IInv, Parts, AuditSound
      <3> QED
        BY <2>3, <3>1, <3>2 DEF AuditSound
    <2>14. HistoryKeepsDecisions'
      <3> SUFFICES ASSUME "overtaken" \notin harm
                   PROVE  /\ Rejections' = Elements(dealer.history) \cup (IF d = "rejected" THEN {r} ELSE {})
                          /\ Cardinality(Rejections') = Len(dealer.history) + (IF d = "rejected" THEN 1 ELSE 0)
        BY <1>1, <2>3, NextHistoryElements
      <3>1. Rejections = Elements(dealer.history) /\ Cardinality(Rejections) = Len(dealer.history)
        <4>1. Len(dealer.history) \in Nat
          BY <2>2 DEF Application
        <4> QED
          BY <2>2, <4>1, HistoryElements DEF IInv
      <3>2. CASE d = "rejected"
        BY <2>11, <2>12, <3>1, <3>2, FS_AddElement
      <3>3. CASE d = "approved"
        <4>1. Len(dealer.history) \in Nat
          BY <2>2 DEF Application
        <4> QED
          BY <2>11, <3>1, <3>3, <4>1
      <3> QED
        BY <2>6, <3>2, <3>3
    <2>15. TypeOK'
      BY <1>1, <1>2, <2>1, <2>3, <2>5, <2>6 DEF IInv, TypeOK, Decisions
    <2>16. \A v \in Views : ViewSound(v)'
      BY <1>1, <2>1 DEF IInv, Parts, ViewSound
    <2> QED
      BY <1>1, <1>2, <2>1, <2>7, <2>8, <2>9, <2>10, <2>13, <2>14, <2>15, <2>16 DEF IInv, Parts, DocumentsMatch
  <1> QED
    BY <1>3, <1>4

\* A step of the application that leaves version, decision and history alone.
LEMMA SameVersion ==
  ASSUME IInv, UNCHANGED <<role, verified, store, submission, review, view, audit>>,
         dealer # Nobody, dealer' \in Application, dealer'.from = dealer.from,
         dealer'.status = dealer.status, dealer'.by = dealer.by, dealer'.history = dealer.history,
         dealer'.docs \subseteq dealer.docs, harm \subseteq harm', harm' \subseteq Harms
  PROVE  /\ Advance /\ DealerSound' /\ AuditSound' /\ DealerIffApproved' /\ HistoryKeepsDecisions'
         /\ \A s \in Submissions : Holds(s)' /\ Reads(s)'
         /\ \A r \in Reviews : ReviewSound(r)'
         /\ \A v \in Views : ViewSound(v)'
         /\ sweep' = sweep => \A w \in Workers : SweepSound(w)'
  <1>1. dealer' # Nobody
    BY NobodyAssumption
  <1>2. Advance /\ (\A s \in Submissions : Holds(s)' /\ Reads(s)') /\ (sweep' = sweep => \A w \in Workers : SweepSound(w)')
    BY <1>1, SubmissionsWait DEF Spares
  <1>3. DealerSound'
    <2>1. dealer.from \in Submissions
      BY DEF Application
    <2> QED
      BY <1>1, <1>2, <2>1 DEF IInv, Parts, DealerSound, Advance
  <1>4. AuditSound' /\ DealerIffApproved'
    BY <1>1 DEF IInv, Parts, AuditSound, DealerIffApproved, Rejections
  <1>5. HistoryKeepsDecisions'
    <2>1. Rejections' = Rejections
      BY DEF Rejections
    <2>2. HistoryKeepsDecisions
      BY DEF IInv
    <2> QED
      BY <1>1, <2>1, <2>2, HistoryElements, NextHistoryElements
  <1>6. (\A r \in Reviews : ReviewSound(r)') /\ \A v \in Views : ViewSound(v)'
    BY DEF IInv, Parts, ReviewSound, ViewSound
  <1> QED
    BY <1>2, <1>3, <1>4, <1>5, <1>6

\* A decision ages.
LEMMA DecisionAgesStep ==
  ASSUME IInv, DecisionAges
  PROVE  IInv'
  <1>1. /\ dealer # Nobody /\ dealer \in Application /\ dealer' = [dealer EXCEPT !.old = TRUE]
        /\ UNCHANGED <<role, verified, store, submission, review, view, sweep, audit, harm>>
    BY DEF DecisionAges, IInv, TypeOK
  <1>2. /\ dealer' \in Application /\ dealer'.status = dealer.status /\ dealer'.by = dealer.by
        /\ dealer'.docs = dealer.docs /\ dealer'.from = dealer.from /\ dealer'.history = dealer.history
    BY <1>1 DEF Application
  <1>3. dealer' # Nobody
    BY <1>2, NobodyAssumption
  <1>4. PendingHasDocuments' /\ NoOrphanDocuments'
    BY <1>1, <1>2, <1>3, SameDocuments
  <1>5. TypeOK' /\ harm' \subseteq Harms
    BY <1>1, <1>2 DEF IInv, TypeOK
  <1> QED
    BY <1>1, <1>2, <1>4, <1>5, SameVersion DEF IInv, Parts, DocumentsMatch

-----------------------------------------------------------------------------
(* Retention. *)

\* A sweep starts on the documents of a decision, and stops where it is.
LEMMA StartOrStop ==
  ASSUME IInv, NEW w \in Workers, StartSweep(w) \/ SweepBreaks(w)
  PROVE  IInv'
  <1>1. sweep \in [Workers -> Sweep] /\ UNCHANGED <<role, verified, dealer, store, submission, review, view, audit, harm>>
    BY DEF IInv, TypeOK, StartSweep, SweepBreaks
  <1>2. Advance /\ \A s \in Submissions : Holds(s)' /\ Reads(s)'
    BY <1>1, SubmissionsWait DEF Spares
  <1>3. PICK q \in Sweep : /\ sweep' = [sweep EXCEPT ![w] = q]
                           /\ q.pc = "idle" \/ (Expired(dealer) /\ q.docs = dealer.docs /\ q.left = dealer.docs)
    <2>1. CASE StartSweep(w)
      <3> DEFINE p == [pc |-> "delete", docs |-> dealer.docs, left |-> dealer.docs]
      <3>1. Expired(dealer) /\ sweep' = [sweep EXCEPT ![w] = p]
        BY <2>1 DEF StartSweep
      <3>2. dealer.docs \in SUBSET Keys
        BY <3>1 DEF Expired, IInv, TypeOK, Application
      <3>3. p \in Sweep /\ p.docs = dealer.docs /\ p.left = dealer.docs
        BY <3>2 DEF Sweep
      <3> HIDE DEF p
      <3> QED
        BY <3>1, <3>3
    <2>2. CASE SweepBreaks(w)
      <3> DEFINE p == [pc |-> "idle", docs |-> {}, left |-> {}]
      <3>1. p \in Sweep /\ p.pc = "idle" /\ sweep' = [sweep EXCEPT ![w] = p]
        BY <2>2 DEF Sweep, SweepBreaks
      <3> HIDE DEF p
      <3> QED
        BY <3>1
    <2> QED
      BY <2>1, <2>2
  <1>4. sweep' \in [Workers -> Sweep] /\ sweep'[w] = q /\ \A x \in Workers \ {w} : sweep'[x] = sweep[x]
    BY <1>1, <1>3
  <1>5. SweepSound(w)'
    <2> SUFFICES ASSUME Expired(dealer), q.docs = dealer.docs, q.left = dealer.docs
                 PROVE  SweepSound(w)'
      BY <1>3, <1>4 DEF SweepSound
    <2>1. /\ dealer # Nobody /\ dealer.status # "pending" /\ dealer.from \in Submissions
          /\ Used(dealer.from) /\ dealer.docs \subseteq KeysOf(dealer.from)
      BY DEF Expired, Decisions, IInv, TypeOK, Application, Parts, DealerSound
    <2>2. \A k \in dealer.docs : k[1] = dealer.from
      BY <2>1, KeyFacts
    <2> QED
      BY <1>1, <1>2, <1>4, <2>1, <2>2 DEF SweepSound, Advance
  <1>6. \A x \in Workers : SweepSound(x)'
    BY <1>2, <1>4, <1>5, SweepFrame DEF IInv, Parts
  <1>7. TypeOK'
    BY <1>1, <1>4 DEF IInv, TypeOK
  <1>8. /\ DealerSound' /\ AuditSound' /\ DealerIffApproved' /\ HistoryKeepsDecisions'
        /\ \A r \in Reviews : ReviewSound(r)'
        /\ \A v \in Views : ViewSound(v)'
    BY <1>1, <1>2, DealerFrame DEF IInv
  <1>9. PendingHasDocuments' /\ NoOrphanDocuments'
    BY <1>1, PendingWaits DEF IInv, DocumentsMatch, NoOrphanDocuments
  <1> QED
    BY <1>2, <1>6, <1>7, <1>8, <1>9 DEF IInv, Parts, DocumentsMatch

\* A sweep deletes no document of a submission that is not over, nor of a pending
\* application.
LEMMA DeleteDocumentStep ==
  ASSUME IInv, NEW w \in Workers, NEW k \in Keys, DeleteDocument(w, k)
  PROVE  IInv'
  <1> DEFINE left == sweep[w].left \ {k}
             q == [sweep[w] EXCEPT !.left = left]
  <1>1. /\ sweep \in [Workers -> Sweep] /\ sweep[w] \in Sweep /\ sweep[w].pc = "delete" /\ k \in sweep[w].left
        /\ store' = store \ {k} /\ SweepSound(w)
        /\ UNCHANGED <<role, verified, dealer, submission, review, view, audit, harm>>
    BY DEF IInv, TypeOK, DeleteDocument, Parts
  <1>2. sweep' = [sweep EXCEPT ![w] = q]
    BY <1>1 DEF DeleteDocument
  <1>3. left \subseteq sweep[w].left /\ k \notin left /\ \A x \in sweep[w].left : x # k => x \in left
    OBVIOUS
  <1> HIDE DEF left
  <1>4. q \in Sweep /\ q.pc = "delete" /\ q.docs = sweep[w].docs /\ q.left = left
    BY <1>1, <1>3 DEF Sweep
  <1> HIDE DEF q
  <1>5. sweep' \in [Workers -> Sweep] /\ sweep'[w] = q /\ \A x \in Workers \ {w} : sweep'[x] = sweep[x]
    BY <1>1, <1>2, <1>4
  <1>6. k[1] \in Submissions /\ Used(k[1]) /\ dealer # Nobody /\ (dealer.status = "pending" => k[1] # dealer.from)
    BY <1>1, KeyFacts DEF SweepSound
  <1>7. \A s \in Submissions : submission[s].pc \in {"store", "find", "write"} => Spares(s)
    BY <1>1, <1>6, KeyFacts DEF Spares, Used, UsedUp
  <1>8. Advance /\ \A s \in Submissions : Holds(s)' /\ Reads(s)'
    BY <1>1, <1>7, SubmissionsWait
  <1>9. SweepSound(w)'
    <2>1. \A x \in sweep[w].docs : x[1] \in Submissions
      BY <1>1, KeyFacts DEF Sweep
    <2> QED
      BY <1>1, <1>3, <1>4, <1>5, <1>8, <2>1 DEF SweepSound, Advance
  <1>10. \A x \in Workers : SweepSound(x)'
    BY <1>5, <1>8, <1>9, SweepFrame DEF IInv, Parts
  <1>11. TypeOK'
    BY <1>1, <1>5 DEF IInv, TypeOK
  <1>12. /\ DealerSound' /\ AuditSound' /\ DealerIffApproved' /\ HistoryKeepsDecisions'
         /\ \A r \in Reviews : ReviewSound(r)'
         /\ \A v \in Views : ViewSound(v)'
    BY <1>1, <1>8, DealerFrame DEF IInv
  <1>13. PendingHasDocuments'
    <2> SUFFICES ASSUME dealer.status = "pending", "swept" \notin harm
                 PROVE  /\ dealer.docs = KeysOf(dealer.from)
                        /\ submission[dealer.from].pc # "lost" => dealer.docs \subseteq store \ {k}
      BY <1>1 DEF PendingHasDocuments
    <2>1. /\ dealer.docs = KeysOf(dealer.from) /\ dealer.from \in Submissions
          /\ submission[dealer.from].pc # "lost" => dealer.docs \subseteq store
      BY <1>6 DEF IInv, DocumentsMatch, PendingHasDocuments, TypeOK, Application
    <2> QED
      BY <1>6, <2>1, KeyFacts
  <1>14. NoOrphanDocuments'
    BY <1>1 DEF IInv, DocumentsMatch, NoOrphanDocuments
  <1> QED
    BY <1>8, <1>10, <1>11, <1>12, <1>13, <1>14 DEF IInv, Parts, DocumentsMatch

\* Clearing the list is harmless to a decision whose files are gone; of a version
\* that is newer it shows.
LEMMA MarkDeletedStep ==
  ASSUME IInv, NEW w \in Workers, MarkDeleted(w)
  PROVE  IInv'
  <1> DEFINE q == [pc |-> "idle", docs |-> {}, left |-> {}]
  <1>1. /\ sweep \in [Workers -> Sweep] /\ SweepSound(w) /\ sweep[w].pc = "delete" /\ sweep[w].left = {}
        /\ dealer' = [dealer EXCEPT !.docs = {}, !.cleared = TRUE]
        /\ harm' = (IF dealer.docs \subseteq sweep[w].docs THEN harm ELSE harm \cup {"swept"})
        /\ sweep' = [sweep EXCEPT ![w] = q]
        /\ UNCHANGED <<role, verified, store, submission, review, view, audit>>
    BY DEF IInv, TypeOK, MarkDeleted, Parts
  <1>2. dealer # Nobody /\ dealer \in Application
    BY <1>1 DEF SweepSound, IInv, TypeOK
  <1>3. /\ dealer' \in Application /\ dealer'.status = dealer.status /\ dealer'.by = dealer.by
        /\ dealer'.docs = {} /\ dealer'.from = dealer.from /\ dealer'.history = dealer.history
    BY <1>1, <1>2 DEF Application
  <1>4. q \in Sweep /\ q.pc = "idle"
    BY DEF Sweep
  <1> HIDE DEF q
  <1>5. sweep' \in [Workers -> Sweep] /\ sweep'[w] = q /\ \A x \in Workers \ {w} : sweep'[x] = sweep[x]
    BY <1>1, <1>4
  <1>6. harm \subseteq harm' /\ harm' \subseteq Harms /\ ("swept" \notin harm' => dealer.docs \subseteq sweep[w].docs)
    BY <1>1 DEF IInv, TypeOK, Harms
  <1>7. /\ Advance /\ DealerSound' /\ AuditSound' /\ DealerIffApproved' /\ HistoryKeepsDecisions'
        /\ \A s \in Submissions : Holds(s)' /\ Reads(s)'
        /\ \A r \in Reviews : ReviewSound(r)'
        /\ \A v \in Views : ViewSound(v)'
    BY <1>1, <1>2, <1>3, <1>6, SameVersion
  <1>8. SweepSound(w)'
    BY <1>4, <1>5 DEF SweepSound
  <1>9. \A x \in Workers : SweepSound(x)'
    BY <1>5, <1>7, <1>8, SweepFrame DEF IInv, Parts
  <1>10. TypeOK'
    BY <1>1, <1>3, <1>5, <1>6 DEF IInv, TypeOK
  <1>11. PendingHasDocuments'
    <2> SUFFICES ASSUME dealer.status = "pending", "swept" \notin harm'
                 PROVE  FALSE
      BY <1>3 DEF PendingHasDocuments
    <2>1. dealer.docs = KeysOf(dealer.from) /\ dealer.from \in Submissions
      BY <1>2, <1>6 DEF IInv, DocumentsMatch, PendingHasDocuments, Application
    <2>2. PICK k \in dealer.docs : k[1] = dealer.from
      BY <2>1, KeyFacts
    <2> QED
      BY <1>1, <1>6, <2>2 DEF SweepSound
  <1>12. NoOrphanDocuments'
    <2> SUFFICES ASSUME harm' = {}, NEW k \in store
                 PROVE  \/ k \in submission[k[1]].stored /\ submission[k[1]].pc \in {"store", "find", "write", "undo"}
                        \/ \E t \in Submissions : submission[t].pc = "replace" /\ k \in submission[t].seen.docs
      BY <1>1 DEF NoOrphanDocuments
    <2>1. harm = {} /\ k \notin dealer.docs
      BY <1>1, <1>6 DEF SweepSound
    <2> QED
      BY <2>1 DEF IInv, DocumentsMatch, NoOrphanDocuments
  <1> QED
    BY <1>7, <1>9, <1>10, <1>11, <1>12 DEF IInv, Parts, DocumentsMatch

-----------------------------------------------------------------------------
(* The invariant is inductive. *)

\* At the start there is no application, or a rejected one with its documents.
LEMMA InitSound == Init => IInv
  <1> SUFFICES ASSUME Init PROVE IInv
    OBVIOUS
  <1>1. Earlier \in Submissions /\ EarlierReview \in Reviews /\ KeysOf(Earlier) \subseteq Keys
    BY EarlierAssumption, KeyFacts
  <1>2. /\ Rejected \in Application /\ Rejected # Nobody /\ Rejected.status = "rejected" /\ Rejected.by = EarlierReview
        /\ Rejected.docs = KeysOf(Earlier) /\ Rejected.from = Earlier /\ Rejected.history = << >>
    <2>1. << >> \in Seq(Reviews)
      OBVIOUS
    <2>2. Rejected \in Application
      BY <1>1, <2>1 DEF Rejected, Application, Decisions
    <2> QED
      BY <2>2, NobodyAssumption DEF Rejected
  <1> DEFINE first(s) == IF s # Earlier THEN [pc |-> "idle", stored |-> {}, seen |-> Nobody]
                         ELSE [pc |-> IF dealer = Nobody THEN "refused" ELSE "accepted",
                               stored |-> store, seen |-> Nobody]
  <1>3. /\ submission = [s \in Submissions |-> first(s)]
        /\ dealer \in {Nobody, Rejected} /\ harm = {} /\ role = "buyer" /\ verified \in BOOLEAN
        /\ store = (IF dealer = Nobody THEN {} ELSE KeysOf(Earlier))
        /\ audit = (IF dealer = Nobody THEN {} ELSE {<<"rejected", EarlierReview>>})
    BY DEF Init
  <1>4. store \subseteq Keys
    BY <1>1, <1>3
  <1>5. /\ \A s \in Submissions : first(s) \in Submission /\ first(s).seen = Nobody
        /\ \A s \in Submissions \ {Earlier} : first(s).pc = "idle" /\ first(s).stored = {}
        /\ first(Earlier).pc = (IF dealer = Nobody THEN "refused" ELSE "accepted") /\ first(Earlier).stored = store
    BY <1>4 DEF Submission
  <1> HIDE DEF first
  <1>6. /\ submission \in [Submissions -> Submission]
        /\ \A s \in Submissions : submission[s].seen = Nobody
        /\ \A s \in Submissions \ {Earlier} : submission[s].pc = "idle" /\ submission[s].stored = {}
        /\ submission[Earlier].pc = (IF dealer = Nobody THEN "refused" ELSE "accepted")
        /\ submission[Earlier].stored = store
    BY <1>1, <1>3, <1>5
  <1>7. /\ review \in [Reviews -> Review]
        /\ \A r \in Reviews : review[r].pc \in {"idle", "done"}
        /\ review[EarlierReview].pc = "done"
    BY <1>1 DEF Init, Review
  <1>8. view \in [Views -> View] /\ \A v \in Views : view[v].pc = "idle"
    BY DEF Init, View
  <1>9. sweep \in [Workers -> Sweep] /\ \A w \in Workers : sweep[w].pc = "idle"
    BY DEF Init, Sweep
  <1>10. TypeOK
    BY <1>1, <1>2, <1>3, <1>4, <1>6, <1>7, <1>8, <1>9 DEF TypeOK, Decisions
  <1>11. Rejections = (IF dealer = Nobody THEN {} ELSE {EarlierReview})
    <2> DEFINE e == <<"rejected", EarlierReview>>
    <2>1. e[1] = "rejected" /\ e[2] = EarlierReview /\ audit = (IF dealer = Nobody THEN {} ELSE {e})
      BY <1>3
    <2> HIDE DEF e
    <2> QED
      BY <2>1 DEF Rejections
  <1>12. \A s \in Submissions : Holds(s) /\ Reads(s)
    BY <1>3, <1>6 DEF Holds, Reads
  <1>13. DealerSound
    BY <1>1, <1>2, <1>3, <1>6, <1>7 DEF DealerSound, Decisions, Used, UsedUp
  <1>14. AuditSound
    <2>1. \A d \in Decisions, r \in Reviews : <<d, r>> \in audit => review[r].pc = "done"
      BY <1>3, <1>7
    <2> QED
      BY <1>11, <2>1, FS_EmptySet, FS_Singleton DEF AuditSound
  <1>15. /\ \A w \in Workers : SweepSound(w)
         /\ \A r \in Reviews : ReviewSound(r)
         /\ \A v \in Views : ViewSound(v)
    BY <1>7, <1>8, <1>9 DEF SweepSound, ReviewSound, ViewSound
  <1>16. PendingHasDocuments /\ DealerIffApproved
    BY <1>2, <1>3 DEF PendingHasDocuments, DealerIffApproved
  <1>17. NoOrphanDocuments
    BY <1>2, <1>3 DEF NoOrphanDocuments
  <1>18. HistoryKeepsDecisions
    <2>1. dealer # Nobody => Rejections = {EarlierReview} /\ Cardinality(Rejections) = 1
      BY <1>11, FS_Singleton
    <2>2. Elements(<< >>) = {} /\ Len(<< >>) = 0
      BY DEF Elements
    <2>3. CASE dealer = Nobody
      BY <2>3, HistoryElements
    <2>4. CASE dealer = Rejected
      <3>1. /\ Rejections = Elements(dealer.history) \cup {dealer.by} /\ dealer.status = "rejected"
            /\ Cardinality(Rejections) = Len(dealer.history) + 1
        BY <1>2, <2>1, <2>2, <2>4
      <3> QED
        BY <3>1, HistoryElements
    <2> QED
      BY <1>3, <2>3, <2>4
  <1> QED
    BY <1>10, <1>12, <1>13, <1>14, <1>15, <1>16, <1>17, <1>18 DEF IInv, Parts, DocumentsMatch

\* Every step keeps the invariant.
LEMMA NextSound == IInv /\ [Next]_vars => IInv'
  <1> SUFFICES ASSUME IInv, [Next]_vars PROVE IInv'
    OBVIOUS
  <1>1. ASSUME NEW s \in Submissions, Submit(s) PROVE IInv'
    BY <1>1, GoStep, StoringFailsStep, CrashStep, FindExistingStep, StoreDocumentStep, DeletionStep, CreateDealerStep, ResubmitStep
    DEF Submit
  <1>2. CASE VerifyEmail
    BY <1>2, VerifyEmailStep
  <1>3. CASE Administer
    BY <1>3, CheckEmailStep, DecideStep, ViewStep DEF Administer
  <1>4. CASE DecisionAges
    BY <1>4, DecisionAgesStep
  <1>5. ASSUME NEW w \in Workers, Retain(w) PROVE IInv'
    BY <1>5, StartOrStop, DeleteDocumentStep, MarkDeletedStep DEF Retain
  <1>6. CASE UNCHANGED vars
    <2>1. /\ UNCHANGED <<role, verified, dealer, store, submission, review, view, sweep, audit, harm>>
      BY <1>6 DEF vars
    <2>2. TypeOK' /\ AuditSound' /\ DealerIffApproved' /\ HistoryKeepsDecisions'
      <3>1. TypeOK' /\ AuditSound' /\ DealerIffApproved'
        BY <2>1 DEF IInv, Parts, TypeOK, AuditSound, Rejections, DealerIffApproved
      <3>2. HistoryKeepsDecisions'
        BY <2>1 DEF IInv, HistoryKeepsDecisions, Rejections
      <3> QED
        BY <3>1, <3>2
    <2>3. (\A r \in Reviews : ReviewSound(r)') /\ \A v \in Views : ViewSound(v)'
      BY <2>1 DEF IInv, Parts, ReviewSound, ViewSound
    <2> QED
      BY <2>1, <2>2, <2>3, Bystanders
  <1> QED
    BY <1>1, <1>2, <1>3, <1>4, <1>5, <1>6 DEF Next

\* The invariant holds in every state.
LEMMA AlwaysSound == Spec => []IInv
  BY InitSound, NextSound, PTL DEF Spec

-----------------------------------------------------------------------------
(* Theorems. *)

\* Every variable keeps its shape (dealer.model.ts).
THEOREM ApplicationTypes == Spec => []TypeOK
  BY AlwaysSound, PTL DEF IInv

\* A pending application has all its documents in storage unless the retention race
\* cleared a newer version or the answer to its own write was lost, and no document
\* stays behind without its application or its request unless a crash, a lost answer,
\* a failed deletion or a race left it.
THEOREM DocumentsAlwaysMatch == Spec => []DocumentsMatch
  BY AlwaysSound, PTL DEF IInv

\* The account is a dealer exactly when its application is approved and its address
\* verified, no rejection is lost, and nobody saw a document without a record.
THEOREM DecisionsAlwaysHold == Spec => []DecisionsHold
  <1>1. IInv => DecisionsHold
    <2>1. IInv => ViewsAreAudited
      BY DEF IInv, Parts, ViewSound, ViewsAreAudited
    <2> QED
      BY <2>1 DEF IInv, DecisionsHold
  <1> QED
    BY <1>1, AlwaysSound, PTL

\* Only a review decides, and it is recorded in the same step; only a rejected
\* application becomes pending again.
THEOREM DecidedOnlyOnce == Spec => DecidedOnce
  <1>1. IInv /\ [Next]_vars =>
          [dealer # Nobody /\ dealer'.status # dealer.status =>
             \/ dealer.status = "pending" /\ audit' \ audit = {<<dealer'.status, dealer'.by>>}
             \/ dealer.status = "rejected" /\ dealer'.status = "pending" /\ audit' = audit]_vars
    <2> SUFFICES ASSUME IInv, Next, dealer # Nobody, dealer'.status # dealer.status
                 PROVE  \/ dealer.status = "pending" /\ audit' \ audit = {<<dealer'.status, dealer'.by>>}
                        \/ dealer.status = "rejected" /\ dealer'.status = "pending" /\ audit' = audit
      BY DEF vars
    <2>1. dealer \in Application
      BY DEF IInv, TypeOK
    <2>2. ASSUME NEW r \in Reviews, Decide(r)
          PROVE  dealer.status = "pending" /\ audit' \ audit = {<<dealer'.status, dealer'.by>>}
      <3>1. /\ dealer.status = "pending" /\ review[r].decision \in Decisions /\ review[r].pc # "done"
            /\ dealer' = [dealer EXCEPT !.status = review[r].decision, !.by = r, !.old = FALSE]
            /\ audit' = audit \cup {<<review[r].decision, r>>}
        BY <2>2 DEF Decide, Undecided, IInv, TypeOK, Review
      <3>2. dealer'.status = review[r].decision /\ dealer'.by = r
        BY <2>1, <3>1 DEF Application
      <3>3. <<review[r].decision, r>> \notin audit
        BY <3>1, RejectionsGrow
      <3> QED
        BY <3>1, <3>2, <3>3
    <2>3. ASSUME NEW s \in Submissions, Resubmit(s)
          PROVE  dealer.status = "rejected" /\ dealer'.status = "pending" /\ audit' = audit
      BY <2>1, <2>3 DEF Resubmit, Resubmittable, Application
    <2>4. ~DecisionAges /\ \A w \in Workers : ~MarkDeleted(w)
      BY <2>1 DEF DecisionAges, MarkDeleted, Application
    <2>5. ~VerifyEmail /\ \A s \in Submissions : ~CreateDealer(s)
      BY DEF VerifyEmail, CreateDealer
    <2>6. /\ \A r \in Reviews : ~CheckEmail(r)
          /\ \A v \in Views : ~FindDocument(v) /\ ~AuditView(v) /\ ~ReadDocument(v)
      BY DEF CheckEmail, FindDocument, AuditView, ReadDocument
    <2>7. \A s \in Submissions : /\ ~Admit(s) /\ ~StoringFails(s) /\ ~FindExisting(s) /\ ~WriteRefused(s)
                                 /\ ~DeleteReplaced(s) /\ ~Undo(s) /\ ~BackendCrash(s)
                                 /\ \A k \in Keys : ~StoreDocument(s, k)
      BY DEF Admit, StoringFails, FindExisting, WriteRefused, DeleteReplaced, Undo, BackendCrash, StoreDocument
    <2>8. \A w \in Workers : ~StartSweep(w) /\ ~SweepBreaks(w) /\ \A k \in Keys : ~DeleteDocument(w, k)
      BY DEF StartSweep, SweepBreaks, DeleteDocument
    <2> QED
      BY <2>2, <2>3, <2>4, <2>5, <2>6, <2>7, <2>8 DEF Next, Submit, Administer, Retain
  <1> QED
    BY <1>1, AlwaysSound, PTL DEF Spec, DecidedOnce
=============================================================================
