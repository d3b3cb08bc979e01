---------------------------- MODULE UploadScreens ----------------------------
(***************************************************************************)
(* A dealer's upload pages, InventoryUpload and UploadDetails (apps/       *)
(* frontend/src/portals/dealer/pages), over TanStack Query: the details    *)
(* page polls the job while it takes a stage for queued or running, and    *)
(* fetches it again after each of its own requests that succeeded.         *)
(***************************************************************************)
EXTENDS Integers, FiniteSets

CONSTANTS
  Categories,      \* vehicle categories with a CSV template
  FirstCategory,   \* the one selected at first
  MaxDrafts,       \* bound: drafts that an import leaves
  MaxScreenFaults, \* bound on failed requests and lost answers
  MaxClicks        \* bound on the requests that change a job

ASSUME UploadScreensAssumption ==
  FirstCategory \in Categories /\
  MaxDrafts \in Nat /\ MaxScreenFaults \in Nat /\ MaxClicks \in Nat

VARIABLES
  job,         \* the server's upload: its two stages and the drafts it left
  chosen,      \* the category selected, and the one the file was picked under
  sent,        \* [Requests -> where it is]
  details,     \* the details page is shown, not the upload page
  seen,        \* the job in the query cache
  invalid,     \* ... which is to be fetched again when the page is next shown
  answer,      \* the answer to the query under way, as read when it was asked
  trouble,     \* the query failed last
  draftsSeen,  \* the number of drafts in the query cache, or Unknown
  history      \* what was sent as another category, carried out unheard, and the bounds

uploadPage == <<chosen, details>>
jobQuery == <<seen, invalid, answer, trouble>>
uploadVars == <<job, uploadPage, sent, jobQuery, draftsSeen, history>>

Unknown == -1
Stages == {"none", "pending", "processing", "completed", "failed"}
Jobs == [csv : Stages, photos : Stages, drafts : 0..MaxDrafts]
NoJob == [csv |-> "none", photos |-> "none", drafts |-> 0]
Nothing == [csv |-> "unknown", photos |-> "none", drafts |-> 0]
Requests == {"csv", "zip", "retryCsv", "retryPhotos", "publish"}
AnyCategory == Categories \cup {"nothing"}
NoChoice == [category |-> FirstCategory, file |-> "nothing"]

UploadScreensTypeOK ==
  /\ job \in Jobs /\ seen \in Jobs \cup {Nothing} /\ answer \in Jobs \cup {Nothing}
  /\ chosen \in [category : Categories, file : AnyCategory]
  /\ sent \in [Requests -> {"idle", "sent", "done", "refused"}]
  /\ details \in BOOLEAN /\ invalid \in BOOLEAN /\ trouble \in BOOLEAN
  /\ draftsSeen \in {Unknown} \cup 0..MaxDrafts
  /\ history \in [mixed : BOOLEAN, unheard : BOOLEAN, faults : 0..MaxScreenFaults, clicks : 0..MaxClicks]

\* No upload yet, or one imported on an earlier visit.
UploadScreensInit ==
  /\ job \in {NoJob} \cup [csv : {"completed"}, photos : {"none"}, drafts : {MaxDrafts}]
  /\ seen = Nothing /\ answer = Nothing
  /\ chosen = NoChoice
  /\ sent = [r \in Requests |-> "idle"]
  /\ details = FALSE /\ invalid = FALSE /\ trouble = FALSE /\ draftsSeen = Unknown
  /\ history = [mixed |-> FALSE, unheard |-> FALSE, faults |-> 0, clicks |-> 0]

Active(j) == {j.csv, j.photos} \cap {"pending", "processing"} # {}
Imported(j) == j.csv = "completed"
ScreenFault == history.faults < MaxScreenFaults
Failed(unheard) == [history EXCEPT !.faults = @ + 1, !.unheard = @ \/ unheard]

-----------------------------------------------------------------------------
(* The worker takes a stage and ends it, with drafts if it is the import;    *)
(* an import that failed half way has left some, too.                       *)

WorkerTakes ==
  /\ \/ job.csv = "pending" /\ job' = [job EXCEPT !.csv = "processing"]
     \/ job.photos = "pending" /\ job' = [job EXCEPT !.photos = "processing"]
  /\ UNCHANGED <<uploadPage, sent, jobQuery, draftsSeen, history>>
WorkerEnds ==
  /\ \/ /\ job.csv = "processing"
        /\ \E end \in {"completed", "failed"}, n \in job.drafts..MaxDrafts :
             job' = [job EXCEPT !.csv = end, !.drafts = n]
     \/ /\ job.photos = "processing"
        /\ \E end \in {"completed", "failed"} : job' = [job EXCEPT !.photos = end]
  /\ UNCHANGED <<uploadPage, sent, jobQuery, draftsSeen, history>>

-----------------------------------------------------------------------------
(* The query of the job.  Asking again drops the answer under way. *)

Ask == answer' = job
JobArrives ==
  /\ answer # Nothing
  /\ seen' = answer /\ answer' = Nothing /\ trouble' = FALSE
  /\ UNCHANGED <<job, uploadPage, sent, invalid, draftsSeen, history>>
JobFails ==
  /\ answer # Nothing /\ ScreenFault
  /\ answer' = Nothing /\ trouble' = TRUE /\ invalid' = TRUE /\ history' = Failed(FALSE)
  /\ UNCHANGED <<job, uploadPage, sent, seen, draftsSeen>>

\* refetchInterval, every 2 s
Poll ==
  /\ details /\ answer = Nothing /\ Active(seen) /\ Ask
  /\ UNCHANGED <<job, uploadPage, sent, seen, invalid, trouble, draftsSeen, history>>

\* An answer older than five minutes is fetched again when the page is shown.
Fetching(stale) ==
  /\ IF seen = Nothing \/ invalid \/ stale THEN Ask ELSE UNCHANGED answer
  /\ invalid' = FALSE /\ UNCHANGED <<seen, trouble>>
OpenDetails(stale) ==
  /\ ~details /\ job # NoJob /\ (seen = Nothing => ~stale)
  /\ details' = TRUE /\ chosen' = NoChoice /\ Fetching(stale)
  /\ UNCHANGED <<job, sent, draftsSeen, history>>
LeaveDetails ==
  /\ details
  /\ details' = FALSE
  /\ UNCHANGED <<job, chosen, sent, jobQuery, draftsSeen, history>>

\* PublishDraftsCard
CountDrafts ==
  /\ details /\ Imported(seen) /\ ~trouble /\ draftsSeen = Unknown
  /\ draftsSeen' = job.drafts
  /\ UNCHANGED <<job, uploadPage, sent, jobQuery, history>>

-----------------------------------------------------------------------------
(* Requests: the buttons are those of the job seen; the server decides by    *)
(* the job as it is; an answer may be lost.                                 *)

SelectCategory(c) ==
  /\ ~details
  /\ chosen' = [category |-> c, file |-> "nothing"]
  /\ UNCHANGED <<job, details, sent, jobQuery, draftsSeen, history>>
ChooseCsv ==
  /\ ~details /\ sent["csv"] = "idle"
  /\ chosen' = [chosen EXCEPT !.file = chosen.category]
  /\ UNCHANGED <<job, details, sent, jobQuery, draftsSeen, history>>

Offered(r) ==
  IF r = "csv" THEN ~details /\ chosen.file # "nothing"
  ELSE details /\ ~trouble /\
    CASE r = "retryCsv" -> seen.csv = "failed"
      [] r = "retryPhotos" -> Imported(seen) /\ seen.photos = "failed"
      [] r = "zip" -> Imported(seen) /\ seen.photos \notin {"pending", "processing"}
      [] r = "publish" -> Imported(seen) /\ draftsSeen > 0
Click(r) ==
  /\ Offered(r) /\ sent[r] = "idle" /\ history.clicks < MaxClicks
  /\ sent' = [sent EXCEPT ![r] = "sent"]
  /\ history' = [history EXCEPT !.clicks = @ + 1,
                   !.mixed = @ \/ (r = "csv" /\ chosen.file # chosen.category)]
  /\ UNCHANGED <<job, uploadPage, jobQuery, draftsSeen>>

Allowed(r) ==
  CASE r \in {"csv", "publish"} -> TRUE
    [] r = "retryCsv" -> job.csv = "failed"
    [] r = "retryPhotos" -> job.photos = "failed"
    [] r = "zip" -> Imported(job) /\ job.photos \notin {"pending", "processing"}
Carried(r) ==
  CASE r = "csv" -> [NoJob EXCEPT !.csv = "pending"]
    [] r = "retryCsv" -> [job EXCEPT !.csv = "pending"]
    [] r \in {"zip", "retryPhotos"} -> [job EXCEPT !.photos = "pending"]
    [] r = "publish" -> [job EXCEPT !.drafts = 0]
\* A new upload has a page, queries and requests of its own: the earlier one is left behind.
ServerDecides(r) ==
  /\ sent[r] = "sent"
  /\ sent' = IF r = "csv" THEN [s \in Requests |-> IF s = r THEN "done" ELSE "idle"]
             ELSE [sent EXCEPT ![r] = IF Allowed(r) THEN "done" ELSE "refused"]
  /\ job' = IF Allowed(r) THEN Carried(r) ELSE job
  /\ IF r = "csv"
       THEN seen' = Nothing /\ answer' = Nothing /\ invalid' = FALSE /\ trouble' = FALSE
              /\ draftsSeen' = Unknown
       ELSE UNCHANGED <<jobQuery, draftsSeen>>
  /\ UNCHANGED <<uploadPage, history>>

\* handleStartUpload goes to the new job's page; the others invalidate what they changed.
Succeeds(r) ==
  /\ sent[r] = "done"
  /\ sent' = [sent EXCEPT ![r] = "idle"]
  /\ IF r = "csv"
       THEN details' = TRUE /\ chosen' = NoChoice /\ Fetching(FALSE) /\ UNCHANGED draftsSeen
       ELSE IF r = "publish" THEN (draftsSeen' = IF details THEN job.drafts ELSE Unknown)
                                  /\ UNCHANGED <<uploadPage, jobQuery>>
       ELSE /\ IF details THEN Ask /\ UNCHANGED invalid ELSE invalid' = TRUE /\ UNCHANGED answer
            /\ UNCHANGED <<uploadPage, draftsSeen, seen, trouble>>
  /\ UNCHANGED <<job, history>>
\* Refused, never arrived, or its answer lost: an error is shown and nothing fetched.
Fails(r) ==
  /\ sent' = [sent EXCEPT ![r] = "idle"]
  /\ \/ sent[r] = "refused" /\ UNCHANGED history
     \/ sent[r] = "sent" /\ ScreenFault /\ history' = Failed(FALSE)
     \/ sent[r] = "done" /\ ScreenFault /\ history' = Failed(TRUE)
  /\ UNCHANGED <<job, uploadPage, jobQuery, draftsSeen>>

-----------------------------------------------------------------------------
JobSettles == JobArrives \/ JobFails
RequestSettles(r) == ServerDecides(r) \/ Succeeds(r) \/ Fails(r)
UploadScreensNext ==
  \/ WorkerTakes \/ WorkerEnds
  \/ JobSettles \/ Poll \/ CountDrafts \/ LeaveDetails
  \/ \E stale \in BOOLEAN : OpenDetails(stale)
  \/ \E c \in Categories : SelectCategory(c)
  \/ ChooseCsv
  \/ \E r \in Requests : Click(r) \/ RequestSettles(r)

UploadScreensSpec == UploadScreensInit /\ [][UploadScreensNext]_uploadVars

-----------------------------------------------------------------------------
\* A details page that no longer asks shows the job as it is: whatever the page itself changed,
\* it has fetched again, unless an answer was lost or the query failed.
QuietIsCurrent ==
  details /\ ~trouble /\ ~history.unheard /\ answer = Nothing
    /\ (\A r \in Requests : sent[r] = "idle") /\ seen # Nothing /\ ~Active(seen)
    => <<seen.csv, seen.photos>> = <<job.csv, job.photos>>

\* The card that counts no drafts tells the truth: the drafts of a running import are not
\* counted too early and then kept.
NoDraftForgotten == draftsSeen = 0 => job.drafts = 0

\* A file is never imported as of another category than the one it was picked for.
FileMatches == ~history.mixed

\* The details page still shows an upload that has ended as it was before.
EndNotShown ==
  /\ details /\ ~Active(job) /\ ~trouble /\ ~history.unheard
  /\ <<seen.csv, seen.photos>> # <<job.csv, job.photos>>
==============================================================================
