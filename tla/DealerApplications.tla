--------------------------- MODULE DealerApplications ---------------------------
(***************************************************************************)
(* One account's dealer application: its submission and resubmission       *)
(* (dealer.controller.ts, dealer.service.ts, dealerDocument.storage.ts),   *)
(* the administrators' decisions and document views (admin.service.ts) and *)
(* the retention job of the worker, which deletes the documents of old     *)
(* decisions (documentRetention.job.ts).                                   *)
(*                                                                         *)
(* An account has at most one application (unique index on userId), so     *)
(* other accounts only matter as holders of the registration number: a     *)
(* write that meets their number fails.  A submission's documents carry    *)
(* its name, so a document key says which version it belongs to.           *)
(***************************************************************************)
EXTENDS Naturals, Sequences, FiniteSets

CONSTANTS
  Submissions,   \* requests POST /dealers/applications of the account
  Reviews,       \* requests of administrators that approve or reject
  Views,         \* requests of administrators that open a document
  Workers,       \* worker copies that run the retention job
  Files,         \* the documents of one submission
  Earlier, EarlierReview,   \* a submission and a review that are over at the start
  Nobody         \* no application; no decision

ASSUME FilesAssumption == Files # {} /\ IsFiniteSet(Files)
ASSUME EarlierAssumption == Earlier \in Submissions /\ EarlierReview \in Reviews

Keys == Submissions \X Files
KeysOf(s) == {s} \X Files
Decisions == {"approved", "rejected"}

\* status, verificationDocuments, documentsDeletedAt, the decision and whether it is older
\* than the retention period, reviewHistory; from names the submission of this version.
Application == [status : {"pending"} \cup Decisions, docs : SUBSET Keys, cleared : BOOLEAN,
                by : Reviews \cup {Nobody}, old : BOOLEAN, history : Seq(Reviews),
                from : Submissions]
ASSUME NobodyAssumption == Nobody \notin Reviews /\ Nobody \notin Application

\* unanswered: the write was applied but reported an error; lost: so its documents were deleted.
Submission == [pc : {"idle", "store", "find", "write", "replace", "undo", "unanswered",
                     "accepted", "refused", "lost", "dead"},
               stored : SUBSET Keys, seen : Application \cup {Nobody}]
Review == [pc : {"idle", "decide", "refused", "done"}, decision : Decisions]
View == [pc : {"idle", "audit", "read", "released", "failed"}, key : Keys \cup {Nobody}]
Sweep == [pc : {"idle", "delete"}, docs : SUBSET Keys, left : SUBSET Keys]

VARIABLES
  role,        \* the account's role
  verified,    \* Firebase: the account's email address is verified
  dealer,      \* the account's application, or Nobody
  store,       \* keys of the documents in object storage
  submission,  \* [Submissions -> Submission]
  review,      \* [Reviews -> Review]
  view,        \* [Views -> View]
  sweep,       \* [Workers -> Sweep]
  audit,       \* the audit log: <<event, the request that wrote it>>
  harm         \* history: what went wrong that no handler of this code could repair

vars == <<role, verified, dealer, store, submission, review, view, sweep, audit, harm>>

Harms == {"crash", "storage", "answer", "overtaken", "swept"}

\* The earlier submission was turned away, or it was rejected and its documents still exist.
Rejected == [status |-> "rejected", docs |-> KeysOf(Earlier), cleared |-> FALSE,
             by |-> EarlierReview, old |-> FALSE, history |-> << >>, from |-> Earlier]

Init ==
  /\ role = "buyer" /\ verified \in BOOLEAN
  /\ dealer \in {Nobody, Rejected} /\ harm = {}
  /\ store = IF dealer = Nobody THEN {} ELSE KeysOf(Earlier)
  /\ audit = IF dealer = Nobody THEN {} ELSE {<<"rejected", EarlierReview>>}
  /\ submission = [s \in Submissions |-> IF s # Earlier
                     THEN [pc |-> "idle", stored |-> {}, seen |-> Nobody]
                     ELSE [pc |-> IF dealer = Nobody THEN "refused" ELSE "accepted",
                           stored |-> store, seen |-> Nobody]]
  /\ review \in {f \in [Reviews -> [pc : {"idle", "done"}, decision : Decisions]] :
                   /\ \A r \in Reviews : f[r].pc = "done" <=> r = EarlierReview
                   /\ f[EarlierReview].decision = "rejected"}
  /\ view = [v \in Views |-> [pc |-> "idle", key |-> Nobody]]
  /\ sweep = [w \in Workers |-> [pc |-> "idle", docs |-> {}, left |-> {}]]

Go(s, pc) == submission' = [submission EXCEPT ![s].pc = pc]
\* A request that is over has forgotten what it read.
Ends(s, pc) == submission' = [submission EXCEPT ![s].pc = pc, ![s].seen = Nobody]

-----------------------------------------------------------------------------
(* Submission: createApplication, submitDealerApplication.                 *)

\* The request passed requireRole("buyer") and brought its documents.
Admit(s) ==
  /\ submission[s].pc = "idle" /\ role = "buyer"
  /\ Go(s, "store")
  /\ UNCHANGED <<role, verified, dealer, store, review, view, sweep, audit, harm>>

\* storeDealerDocuments: one upload after the other.
StoreDocument(s, k) ==
  /\ submission[s].pc = "store" /\ k \in KeysOf(s) \ submission[s].stored
  /\ store' = store \cup {k}
  /\ submission' = [submission EXCEPT ![s].stored = @ \cup {k},
                      ![s].pc = IF submission[s].stored \cup {k} = KeysOf(s) THEN "find" ELSE "store"]
  /\ UNCHANGED <<role, verified, dealer, review, view, sweep, audit, harm>>

\* An upload reports an error: nothing was stored, or an object nobody counts as stored.
StoringFails(s) ==
  /\ submission[s].pc = "store"
  /\ \/ UNCHANGED <<store, harm>>
     \/ \E k \in KeysOf(s) \ submission[s].stored :
          store' = store \cup {k} /\ harm' = harm \cup {"answer"}
  /\ Go(s, "undo")
  /\ UNCHANGED <<role, verified, dealer, review, view, sweep, audit>>

\* Only a first application and the correction of a rejected one go on.
MaySubmit_Pending(app) == app = Nobody \/ app.status # "approved"
MaySubmit(app) == app = Nobody \/ app.status = "rejected"

FindExisting(s) ==
  /\ submission[s].pc = "find"
  /\ submission' = [submission EXCEPT ![s].seen = dealer,
                                      ![s].pc = IF MaySubmit(dealer) THEN "write" ELSE "undo"]
  /\ UNCHANGED <<role, verified, dealer, store, review, view, sweep, audit, harm>>

\* The answer of an applied write arrives, or is lost; harmed is the harm otherwise done.
Answers(s, next, harmed) ==
  \/ Go(s, next) /\ harm' = harmed
  \/ Go(s, "unanswered") /\ harm' = harmed \cup {"answer"}

\* createDealer under the unique index on userId.
CreateDealer(s) ==
  /\ submission[s].pc = "write" /\ submission[s].seen = Nobody /\ dealer = Nobody
  /\ dealer' = [status |-> "pending", docs |-> submission[s].stored, cleared |-> FALSE,
                by |-> Nobody, old |-> FALSE, history |-> << >>, from |-> s]
  /\ Answers(s, "accepted", harm)
  /\ UNCHANGED <<role, verified, store, review, view, sweep, audit>>

\* The filter of resubmitRejectedApplication.
Resubmittable_Reviewed(app) == app.status # "pending"
Resubmittable(app) == app.status = "rejected"

\* The history entry is the decision the request read, not the one it replaces.
History_Set(s) == <<submission[s].seen.by>>
History(s) == Append(dealer.history, submission[s].seen.by)

Resubmit(s) ==
  /\ submission[s].pc = "write" /\ submission[s].seen # Nobody /\ Resubmittable(dealer)
  /\ dealer' = [dealer EXCEPT !.status = "pending", !.docs = submission[s].stored, !.cleared = FALSE,
                              !.by = Nobody, !.old = FALSE, !.from = s,
                              !.history = History(s)]
  /\ Answers(s, "replace", IF dealer.by = submission[s].seen.by THEN harm ELSE harm \cup {"overtaken"})
  /\ UNCHANGED <<role, verified, store, review, view, sweep, audit>>

\* The index, the filter or another account's registration number refuses the write.
WriteRefused(s) ==
  /\ submission[s].pc = "write"
  /\ Go(s, "undo")
  /\ UNCHANGED <<role, verified, dealer, store, review, view, sweep, audit, harm>>

\* deleteDealerDocuments: a failed deletion is dropped (allSettled).
DeleteAll(keys) ==
  \E kept \in SUBSET (keys \cap store) :
    /\ store' = (store \ keys) \cup kept
    /\ harm' = IF kept = {} THEN harm ELSE harm \cup {"storage"}

\* What a resubmission deletes: the documents it read before its write.
Replaced_Now(s) == dealer.docs
Replaced(s) == submission[s].seen.docs

DeleteReplaced(s) ==
  /\ submission[s].pc = "replace"
  /\ DeleteAll(Replaced(s))
  /\ Ends(s, "accepted")
  /\ UNCHANGED <<role, verified, dealer, review, view, sweep, audit>>

\* createApplication deletes its own documents on every error, whether or not the write was applied.
OwnDocuments(s) == submission[s].stored

Undo(s) ==
  /\ submission[s].pc \in {"undo", "unanswered"}
  /\ DeleteAll(OwnDocuments(s))
  /\ Ends(s, IF submission[s].pc = "undo" THEN "refused" ELSE "lost")
  /\ UNCHANGED <<role, verified, dealer, review, view, sweep, audit>>

BackendCrash(s) ==
  /\ submission[s].pc \in {"store", "find", "write", "replace", "undo", "unanswered"}
  /\ Ends(s, "dead")
  /\ harm' = harm \cup {"crash"}
  /\ UNCHANGED <<role, verified, dealer, store, review, view, sweep, audit>>

VerifyEmail ==
  /\ ~verified /\ verified' = TRUE
  /\ UNCHANGED <<role, dealer, store, submission, review, view, sweep, audit, harm>>

-----------------------------------------------------------------------------
(* Review: reviewDealerApplicationAsAdmin.                                 *)

\* assertApplicantEmailVerified, asked of Firebase for an approval only.
EmailSuffices(decision) == decision = "rejected" \/ verified

CheckEmail(r) ==
  /\ review[r].pc = "idle" /\ dealer # Nobody   \* the request names the application's id
  /\ review' = [review EXCEPT ![r].pc = IF EmailSuffices(review[r].decision) THEN "decide" ELSE "refused"]
  /\ UNCHANGED <<role, verified, dealer, store, submission, view, sweep, audit, harm>>

Undecided(app) == app # Nobody /\ app.status = "pending"

\* The decision, the promotion and the audit record commit as one transaction.
Promoted(decision) == IF decision = "approved" THEN "dealer" ELSE role

Decide(r) ==
  /\ review[r].pc = "decide"
  /\ \/ /\ Undecided(dealer)
        /\ dealer' = [dealer EXCEPT !.status = review[r].decision, !.by = r, !.old = FALSE]
        /\ role' = Promoted(review[r].decision)
        /\ audit' = audit \cup {<<review[r].decision, r>>}
        /\ review' = [review EXCEPT ![r].pc = "done"]
     \/ /\ ~Undecided(dealer)
        /\ review' = [review EXCEPT ![r].pc = "refused"]
        /\ UNCHANGED <<role, dealer, audit>>
  /\ UNCHANGED <<verified, store, submission, view, sweep, harm>>

-----------------------------------------------------------------------------
(* Document views: getDealerDocumentForAdmin, then readDealerDocument.     *)

FindDocument(v) ==
  /\ view[v].pc = "idle" /\ dealer # Nobody
  /\ \/ /\ ~dealer.cleared
        /\ \E k \in dealer.docs : view' = [view EXCEPT ![v] = [pc |-> "audit", key |-> k]]
     \/ /\ dealer.cleared \/ dealer.docs = {}
        /\ view' = [view EXCEPT ![v].pc = "failed"]
  /\ UNCHANGED <<role, verified, dealer, store, submission, review, sweep, audit, harm>>

\* No bytes leave before the record is written.
AuditFirst == "read"

AuditView(v) ==
  /\ view[v].pc = "audit"
  /\ audit' = audit \cup {<<"viewed", v>>}
  /\ view' = [view EXCEPT ![v].pc = "read"]
  /\ UNCHANGED <<role, verified, dealer, store, submission, review, sweep, harm>>

ReadDocument(v) ==
  /\ view[v].pc = AuditFirst
  /\ view' = [view EXCEPT ![v] = [pc |-> IF view[v].key \in store THEN "released" ELSE "failed",
                                  key |-> Nobody]]
  /\ UNCHANGED <<role, verified, dealer, store, submission, review, sweep, audit, harm>>

-----------------------------------------------------------------------------
(* Retention: runDocumentRetention.                                        *)

DecisionAges ==
  /\ dealer # Nobody /\ dealer.by # Nobody /\ ~dealer.old
  /\ dealer' = [dealer EXCEPT !.old = TRUE]
  /\ UNCHANGED <<role, verified, store, submission, review, view, sweep, audit, harm>>

\* findDealersWithExpiredDocuments
Expired_Approved(app) == app # Nobody /\ app.status = "approved" /\ app.old /\ app.docs # {}
Expired(app) == app # Nobody /\ app.status \in Decisions /\ app.old /\ app.docs # {}

StartSweep(w) ==
  /\ sweep[w].pc = "idle" /\ Expired(dealer)
  /\ sweep' = [sweep EXCEPT ![w] = [pc |-> "delete", docs |-> dealer.docs, left |-> dealer.docs]]
  /\ UNCHANGED <<role, verified, dealer, store, submission, review, view, audit, harm>>

DeleteDocument(w, k) ==
  /\ sweep[w].pc = "delete" /\ k \in sweep[w].left
  /\ store' = store \ {k}
  /\ sweep' = [sweep EXCEPT ![w].left = @ \ {k}]
  /\ UNCHANGED <<role, verified, dealer, submission, review, view, audit, harm>>

\* A deletion fails, or the worker stops: the next cycle begins again.
SweepBreaks(w) ==
  /\ sweep[w].pc = "delete"
  /\ sweep' = [sweep EXCEPT ![w] = [pc |-> "idle", docs |-> {}, left |-> {}]]
  /\ UNCHANGED <<role, verified, dealer, store, submission, review, view, audit, harm>>

\* markDealerDocumentsDeleted: by _id alone, whatever the application is by now.
MarkDeleted(w) ==
  /\ sweep[w].pc = "delete" /\ sweep[w].left = {}
  /\ dealer' = [dealer EXCEPT !.docs = {}, !.cleared = TRUE]
  /\ harm' = IF dealer.docs \subseteq sweep[w].docs THEN harm ELSE harm \cup {"swept"}
  /\ sweep' = [sweep EXCEPT ![w] = [pc |-> "idle", docs |-> {}, left |-> {}]]
  /\ UNCHANGED <<role, verified, store, submission, review, view, audit>>

-----------------------------------------------------------------------------
Submit(s) ==
  \/ Admit(s) \/ StoringFails(s) \/ FindExisting(s) \/ CreateDealer(s) \/ Resubmit(s)
  \/ WriteRefused(s) \/ DeleteReplaced(s) \/ Undo(s) \/ BackendCrash(s)
  \/ \E k \in Keys : StoreDocument(s, k)
Administer ==
  \/ \E r \in Reviews : CheckEmail(r) \/ Decide(r)
  \/ \E v \in Views : FindDocument(v) \/ AuditView(v) \/ ReadDocument(v)
Retain(w) == StartSweep(w) \/ SweepBreaks(w) \/ MarkDeleted(w) \/ \E k \in Keys : DeleteDocument(w, k)

Next ==
  \/ \E s \in Submissions : Submit(s)
  \/ VerifyEmail \/ Administer \/ DecisionAges
  \/ \E w \in Workers : Retain(w)

\* The job runs on an interval for as long as the worker lives, and storage answers now and then.
Fairness ==
  \A w \in Workers : /\ WF_vars(StartSweep(w))
                     /\ SF_vars(MarkDeleted(w))
                     /\ SF_vars(\E k \in Keys : DeleteDocument(w, k))

Spec == Init /\ [][Next]_vars
FairSpec == Spec /\ Fairness

-----------------------------------------------------------------------------
(* Properties *)

\* Every variable keeps its shape (dealer.model.ts, and the requests' own state).
TypeOK ==
  /\ role \in {"buyer", "dealer"} /\ verified \in BOOLEAN
  /\ dealer \in Application \cup {Nobody} /\ store \subseteq Keys
  /\ submission \in [Submissions -> Submission] /\ review \in [Reviews -> Review]
  /\ view \in [Views -> View] /\ sweep \in [Workers -> Sweep]
  /\ audit \subseteq (Decisions \X Reviews) \cup ({"viewed"} \X Views) /\ harm \subseteq Harms

\* The documents an administrator decides on exist: whatever submissions, undos and sweeps
\* overlap, nothing deletes the documents of a pending application, except the sweep that
\* dealerDocument.repository.ts:24 lets clear a newer version, and its own request when the
\* answer to its write was lost (dealer.controller.ts:17-20).
PendingHasDocuments ==
  dealer # Nobody /\ dealer.status = "pending" /\ "swept" \notin harm =>
    /\ dealer.docs = KeysOf(dealer.from)
    /\ submission[dealer.from].pc # "lost" => dealer.docs \subseteq store

\* The account is a dealer exactly when its application was approved, by an approval that found
\* the address verified (admin.service.ts:163-186).
DealerIffApproved ==
  (role = "dealer") <=> (dealer # Nobody /\ dealer.status = "approved" /\ verified)

\* No rejection is lost: each one in the audit log is the current decision or is in the history,
\* once, as long as no submission was overtaken by another and a review (dealer.service.ts:42-47).
Rejections == {e[2] : e \in {x \in audit : x[1] = "rejected"}}
HistoryKeepsDecisions ==
  dealer # Nobody /\ "overtaken" \notin harm =>
    /\ Rejections = {dealer.history[i] : i \in DOMAIN dealer.history}
                      \cup (IF dealer.status = "rejected" THEN {dealer.by} ELSE {})
    /\ Cardinality(Rejections) = Len(dealer.history) + (IF dealer.status = "rejected" THEN 1 ELSE 0)

\* Every stored document is the application's or belongs to a request that still runs, unless a
\* crash, a lost answer, a failed deletion or one of the two races lost it
\* (dealer.controller.ts:13-20).
NoOrphanDocuments ==
  harm = {} => \A k \in store :
    \/ dealer # Nobody /\ k \in dealer.docs
    \/ k \in submission[k[1]].stored /\ submission[k[1]].pc \in {"store", "find", "write", "undo"}
    \/ \E s \in Submissions : submission[s].pc = "replace" /\ k \in submission[s].seen.docs

\* Nobody has seen an identity document without an audit record (admin.service.ts:149-159).
ViewsAreAudited == \A v \in Views : view[v].pc = "released" => <<"viewed", v>> \in audit

\* A decision rests on documents that exist, and documents on an application.
DocumentsMatch == PendingHasDocuments /\ NoOrphanDocuments

\* Role, application, history and audit log tell the same story.
DecisionsHold == DealerIffApproved /\ HistoryKeepsDecisions /\ ViewsAreAudited

\* Only a review moves an application out of pending, and it writes its audit record in the same
\* step; an approval is final (admin.repository.ts:115-120, dealer.repository.ts:15-30).
DecidedOnce ==
  [][dealer # Nobody /\ dealer'.status # dealer.status =>
       \/ dealer.status = "pending" /\ audit' \ audit = {<<dealer'.status, dealer'.by>>}
       \/ dealer.status = "rejected" /\ dealer'.status = "pending" /\ audit' = audit]_vars

\* Personal documents do not stay: once a decision is old its documents are deleted, unless the
\* applicant submits again (documentRetention.job.ts:9-12).
Held == dealer # Nobody /\ dealer.status \in Decisions /\ dealer.old /\ dealer.docs \cap store # {}
DocumentsExpire == Held ~> ~Held

\* What dealerDocument.repository.ts:23 says: the list is cleared only after every file was
\* deleted, so an application without its documents has none left in storage.
ClearedOnlyWhenGone ==
  dealer # Nobody /\ dealer.cleared => store \cap KeysOf(dealer.from) = {}
=============================================================================
