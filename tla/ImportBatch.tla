----------------------------- MODULE ImportBatch -----------------------------
(***************************************************************************)
(* The CSV import row by row: processInventoryBatch of                     *)
(* apps/worker/src/services/uploadJob.service.ts with the pipeline steps   *)
(* and collections it uses.  For each batch an attempt asks, in separate   *)
(* queries, which rows an earlier attempt imported, which plates are       *)
(* listed, and how many listings the dealer has; then it inserts the       *)
(* listings in row order while the rejected records are written, and saves *)
(* its counters.  Everything may change between two of these.  Promise.all *)
(* does not stop one of the two writes when the other fails: an attempt    *)
(* that has handed its job back may write on, beside the one that follows. *)
(*                                                                         *)
(* The job document is reduced to what the import sees of JobStore: a      *)
(* status, the attempt that holds the lease, and the counters.             *)
(***************************************************************************)
EXTENDS Naturals, FiniteSets

CONSTANTS
  Attempts,     \* attempts that may run at once
  NoAttempt,
  Plates,       \* normalized registration numbers
  Invalid,      \* a row that does not pass validation
  RowCount, BatchSize,
  Limit,        \* MAX_LISTINGS_PER_DEALER
  Outside,      \* what dealers do meanwhile: subset of OutsideEvents
  MaxEvents     \* bound: faults, retries and what dealers do

OutsideEvents == {"open", "close", "delete"}

ASSUME NamesAssumption == NoAttempt \notin Attempts /\ Invalid \notin Plates
ASSUME SizesAssumption ==
  RowCount \in Nat /\ BatchSize \in Nat \ {0} /\ Limit \in Nat /\ MaxEvents \in Nat
ASSUME OutsideAssumption == Outside \subseteq OutsideEvents

Rows == 1..RowCount

VARIABLES
  csv,        \* [Rows -> Plates or Invalid]: the file, which never changes
  status,     \* of the CSV stage
  owner,      \* the attempt whose token the job holds
  saved,      \* the job's counters
  listings,   \* [Rows -> state of the listing imported from the row]
  elsewhere,  \* [Plates -> state of another open listing of the plate]
  rejected,   \* [Rows -> the record written for the row]
  run,        \* [Attempts -> Run]
  disturbed,  \* an attempt began while another still ran or wrote, or a dealer
              \* changed listings: history
  events

job == <<status, owner, saved>>
vars == <<csv, job, listings, elsewhere, rejected, run, disturbed, events>>

Counts == [processed : Nat, valid : Nat, rejected : Nat, duplicate : Nat]
Zero == [processed |-> 0, valid |-> 0, rejected |-> 0, duplicate |-> 0]

Run ==
  [pc : {"idle", "work", "detect", "count", "persist", "late"},
   counts : Counts,
   seen : SUBSET Plates,      \* seenKeys
   resumed : SUBSET Rows,     \* rows found imported already
   unique : SUBSET Rows,      \* rows to insert
   duplicate : SUBSET Rows,
   overLimit : SUBSET Rows,
   insert : SUBSET Rows,      \* what of unique is not inserted yet
   recorded : BOOLEAN]        \* the rejected records are written

Start(counts) ==
  [pc |-> "work", counts |-> counts, seen |-> {}, resumed |-> {}, unique |-> {},
   duplicate |-> {}, overLimit |-> {}, insert |-> {}, recorded |-> FALSE]
NoRun == [Start(Zero) EXCEPT !.pc = "idle"]

TypeOK ==
  /\ csv \in [Rows -> Plates \cup {Invalid}]
  /\ status \in {"pending", "processing", "completed", "failed"}
  /\ owner \in Attempts \cup {NoAttempt}
  /\ saved \in Counts /\ saved.processed <= RowCount
  /\ listings \in [Rows -> {"none", "open", "closed", "deleted"}]
  /\ elsewhere \in [Plates -> {"none", "own", "other"}]
  /\ rejected \in [Rows -> {"none", "validation", "duplicate"}]
  /\ run \in [Attempts -> Run]
  /\ disturbed \in BOOLEAN /\ events \in 0..MaxEvents

Init ==
  /\ csv \in [Rows -> Plates \cup {Invalid}]
  /\ status = "pending" /\ owner = NoAttempt /\ saved = Zero
  /\ listings = [r \in Rows |-> "none"]
  /\ elsewhere = [p \in Plates |-> "none"]
  /\ rejected = [r \in Rows |-> "none"]
  /\ run = [a \in Attempts |-> NoRun]
  /\ disturbed = FALSE /\ events = 0

-----------------------------------------------------------------------------
(* The collections as the import's queries see them. *)

\* findActivelyListedRegistrations: drafts and active listings of any dealer.
ListedPlates ==
  {p \in Plates : elsewhere[p] # "none"} \cup
  {csv[r] : r \in {q \in Rows : listings[q] = "open"}}

\* countOpenDealerListings
OwnOpen ==
  Cardinality({p \in Plates : elsewhere[p] = "own"}) +
  Cardinality({r \in Rows : listings[r] = "open"})

\* findImportedRowNumbers: listings of this upload, whatever their status.
Imported(r) == listings[r] \in {"open", "closed"}

\* The rows of the batch that starts where an attempt is, and how
\* prepareInventoryBatch divides them.
Batch(a) == {r \in Rows : run[a].counts.processed < r /\ r <= run[a].counts.processed + BatchSize}
Valid(a) == {r \in Batch(a) : csv[r] # Invalid}
InvalidRows(a) == Batch(a) \ Valid(a)

Before(r, S) == {q \in S : q < r}
First(S) == CHOOSE r \in S : Before(r, S) = {}

Counted == events < MaxEvents /\ events' = events + 1
Event == Counted /\ UNCHANGED disturbed
Disturbs == Counted /\ disturbed' = TRUE
NoEvent == UNCHANGED <<events, disturbed>>

-----------------------------------------------------------------------------
(* The job. *)

Alone(a) == \A b \in Attempts \ {a} : run[b].pc = "idle"

\* Pending work, or a lease that ran out.  Attempts overlap (an event) when
\* another one still runs or writes: its lease ran out under it, it handed the
\* job back at shutdown, or it failed in one of its two writes and goes on with
\* the other.
Claim(a) ==
  /\ run[a].pc = "idle"
  /\ status \in {"pending", "processing"}
  /\ IF Alone(a) THEN NoEvent ELSE Disturbs
  /\ status' = "processing" /\ owner' = a
  /\ run' = [run EXCEPT ![a] = Start(saved)]
  /\ UNCHANGED <<csv, saved, listings, elsewhere, rejected>>

Holds(a) == status = "processing" /\ owner = a
End(a) == run' = [run EXCEPT ![a] = NoRun]

-----------------------------------------------------------------------------
(* One batch. *)

FindImported(a) ==
  LET resumed == {r \in Valid(a) : Imported(r)} IN
  /\ run[a].pc = "work" /\ run[a].counts.processed < RowCount
  /\ run' = [run EXCEPT ![a] = [run[a] EXCEPT !.pc = "detect", !.resumed = resumed,
                                         !.seen = @ \cup {csv[r] : r \in resumed}]]
  /\ NoEvent /\ UNCHANGED <<csv, job, listings, elsewhere, rejected>>

\* Variant: plates accepted earlier in the file are not remembered.
DetectDuplicates_Forgetful(a) ==
  LET fresh == Valid(a) \ run[a].resumed
      unique == {r \in fresh : csv[r] \notin run[a].seen \cup ListedPlates} IN
  /\ run[a].pc = "detect"
  /\ run' = [run EXCEPT ![a] = [run[a] EXCEPT !.pc = "count", !.unique = unique,
                                         !.duplicate = fresh \ unique]]
  /\ NoEvent /\ UNCHANGED <<csv, job, listings, elsewhere, rejected>>

\* A row is unique unless its plate is listed, was seen in this attempt, or
\* belongs to an earlier row of the batch.
DetectDuplicates(a) ==
  LET fresh == Valid(a) \ run[a].resumed
      known == run[a].seen \cup ListedPlates
      unique == {r \in fresh : csv[r] \notin known
                                 /\ \A q \in Before(r, fresh) : csv[q] # csv[r]} IN
  /\ run[a].pc = "detect"
  /\ run' = [run EXCEPT ![a] = [run[a] EXCEPT !.pc = "count", !.unique = unique,
                                         !.duplicate = fresh \ unique,
                                         !.seen = @ \cup {csv[r] : r \in unique}]]
  /\ NoEvent /\ UNCHANGED <<csv, job, listings, elsewhere, rejected>>

\* Variant: the rows past the limit are dropped.
CountOpen_DropsExcess(a) ==
  LET remaining == IF OwnOpen < Limit THEN Limit - OwnOpen ELSE 0
      kept == {r \in run[a].unique : Cardinality(Before(r, run[a].unique)) < remaining} IN
  /\ run[a].pc = "count"
  /\ run' = [run EXCEPT ![a] = [run[a] EXCEPT !.pc = "persist", !.unique = kept,
                                         !.overLimit = {},
                                         !.insert = kept, !.recorded = FALSE]]
  /\ NoEvent /\ UNCHANGED <<csv, job, listings, elsewhere, rejected>>

\* The first rows fill the dealer's remaining capacity, the rest are rejected.
CountOpen(a) ==
  LET remaining == IF OwnOpen < Limit THEN Limit - OwnOpen ELSE 0
      kept == {r \in run[a].unique : Cardinality(Before(r, run[a].unique)) < remaining} IN
  /\ run[a].pc = "count"
  /\ run' = [run EXCEPT ![a] = [run[a] EXCEPT !.pc = "persist", !.unique = kept,
                                         !.overLimit = run[a].unique \ kept,
                                         !.insert = kept, !.recorded = FALSE]]
  /\ NoEvent /\ UNCHANGED <<csv, job, listings, elsewhere, rejected>>

\* An attempt that is writing, or that left and is writing still.
Writing(a) == run[a].pc \in {"persist", "late"}

\* The unique indexes on the plate of open listings and on upload and row.
Refused(r) == csv[r] \in ListedPlates \/ Imported(r)

InsertListing(a) ==
  LET r == First(run[a].insert) IN
  /\ Writing(a) /\ run[a].insert # {}
  /\ ~Refused(r)
  /\ listings' = [listings EXCEPT ![r] = "open"]
  /\ run' = [run EXCEPT ![a].insert = @ \ {r}]
  /\ NoEvent /\ UNCHANGED <<csv, job, elsewhere, rejected>>

\* Insert-once per row.
Recorded(a) ==
  [r \in Rows |->
     IF rejected[r] # "none" THEN rejected[r]
     ELSE IF r \in InvalidRows(a) \cup run[a].overLimit THEN "validation"
     ELSE IF r \in run[a].duplicate THEN "duplicate"
     ELSE "none"]

WriteRejected(a) ==
  /\ Writing(a) /\ ~run[a].recorded
  /\ rejected' = Recorded(a)
  /\ run' = [run EXCEPT ![a].recorded = TRUE]
  /\ NoEvent /\ UNCHANGED <<csv, job, listings, elsewhere>>

\* Variants: the last batch counts as a full one, and resumed rows are not
\* counted.
Advanced_FullBatch(a) ==
  [processed |-> run[a].counts.processed + BatchSize,
   valid     |-> run[a].counts.valid + Cardinality(run[a].unique \cup run[a].resumed),
   rejected  |-> run[a].counts.rejected + Cardinality(InvalidRows(a) \cup run[a].overLimit),
   duplicate |-> run[a].counts.duplicate + Cardinality(run[a].duplicate)]
Advanced_NewOnly(a) ==
  [processed |-> run[a].counts.processed + Cardinality(Batch(a)),
   valid     |-> run[a].counts.valid + Cardinality(run[a].unique),
   rejected  |-> run[a].counts.rejected + Cardinality(InvalidRows(a) \cup run[a].overLimit),
   duplicate |-> run[a].counts.duplicate + Cardinality(run[a].duplicate)]

Advanced(a) ==
  [processed |-> run[a].counts.processed + Cardinality(Batch(a)),
   valid     |-> run[a].counts.valid + Cardinality(run[a].unique \cup run[a].resumed),
   rejected  |-> run[a].counts.rejected + Cardinality(InvalidRows(a) \cup run[a].overLimit),
   duplicate |-> run[a].counts.duplicate + Cardinality(run[a].duplicate)]

SaveCheckpoint(a) ==
  /\ run[a].pc = "persist" /\ run[a].insert = {} /\ run[a].recorded
  /\ IF Holds(a)
       THEN saved' = Advanced(a) /\ run' = [run EXCEPT ![a].pc = "work", ![a].counts = Advanced(a)]
       ELSE UNCHANGED saved /\ End(a)
  /\ NoEvent /\ UNCHANGED <<csv, status, owner, listings, elsewhere, rejected>>

Complete(a) ==
  /\ run[a].pc = "work" /\ run[a].counts.processed = RowCount
  /\ IF Holds(a)
       THEN status' = "completed" /\ owner' = NoAttempt /\ saved' = run[a].counts
       ELSE UNCHANGED job
  /\ End(a)
  /\ NoEvent /\ UNCHANGED <<csv, listings, elsewhere, rejected>>

\* A renewal found another owner.
StopWhenLost(a) ==
  /\ run[a].pc = "work" /\ ~Holds(a)
  /\ End(a)
  /\ NoEvent /\ UNCHANGED <<csv, job, listings, elsewhere, rejected>>

-----------------------------------------------------------------------------
(* Errors.  Of the rejected records that are being written when something   *)
(* breaks off, an unordered bulk write, any may have reached the database.  *)

PerhapsRecorded(a) ==
  IF Writing(a)
    THEN \E reached \in SUBSET Batch(a) :
           rejected' = [r \in Rows |-> IF r \in reached THEN Recorded(a)[r] ELSE rejected[r]]
    ELSE UNCHANGED rejected

HandOver(a, new) ==
  IF Holds(a) THEN status' = new /\ owner' = NoAttempt ELSE UNCHANGED <<status, owner>>

\* The rows in rest may be inserted yet: the embeddings of the batch are still
\* computed when its rejected records have failed.
Leave(a, new, rest) ==
  /\ HandOver(a, new)
  /\ PerhapsRecorded(a)
  /\ IF Writing(a)
       THEN run' = [run EXCEPT ![a].pc = "late", ![a].insert = rest]
       ELSE End(a)
  /\ UNCHANGED <<csv, saved, listings, elsewhere>>

\* E11000 is a permanent error; an ordered insertMany stops there.
InsertRefused(a) ==
  /\ Writing(a) /\ run[a].insert # {}
  /\ Refused(First(run[a].insert))
  /\ Leave(a, "failed", {})
  /\ NoEvent

\* A temporary error with attempts left, and any other.
HandBack(a) ==
  run[a].pc \notin {"idle", "late"} /\ Event /\ Leave(a, "pending", run[a].insert)
GiveUp(a) ==
  run[a].pc \notin {"idle", "late"} /\ Event /\ Leave(a, "failed", run[a].insert)

\* Shutdown hands the job back, and the attempt runs until the process ends.
Release(a) ==
  /\ run[a].pc \notin {"idle", "late"} /\ Holds(a) /\ Event
  /\ HandOver(a, "pending")
  /\ UNCHANGED <<csv, saved, listings, elsewhere, rejected, run>>

\* What was left to write has been written, or has failed too.
StopWriting(a) ==
  /\ run[a].pc = "late"
  /\ End(a)
  /\ NoEvent /\ UNCHANGED <<csv, job, listings, elsewhere, rejected>>

Crash(a) ==
  /\ run[a].pc # "idle" /\ Event
  /\ PerhapsRecorded(a)
  /\ End(a)
  /\ UNCHANGED <<csv, job, listings, elsewhere>>

-----------------------------------------------------------------------------
(* The dealer's retry, and what this and other dealers do meanwhile. *)

RetryUpload ==
  /\ status = "failed" /\ Event
  /\ status' = "pending" /\ owner' = NoAttempt
  /\ UNCHANGED <<csv, saved, listings, elsewhere, rejected, run>>

OpenListing(p, who) ==
  /\ "open" \in Outside /\ Disturbs
  /\ p \notin ListedPlates
  /\ who = "own" => OwnOpen < Limit
  /\ elsewhere' = [elsewhere EXCEPT ![p] = who]
  /\ UNCHANGED <<csv, job, listings, rejected, run>>

\* Sold, archived or deleted.
CloseListing(p) ==
  /\ "close" \in Outside /\ Disturbs
  /\ elsewhere[p] # "none"
  /\ elsewhere' = [elsewhere EXCEPT ![p] = "none"]
  /\ UNCHANGED <<csv, job, listings, rejected, run>>

CloseImported(r) ==
  /\ "close" \in Outside /\ Disturbs
  /\ listings[r] = "open"
  /\ listings' = [listings EXCEPT ![r] = "closed"]
  /\ UNCHANGED <<csv, job, elsewhere, rejected, run>>

\* Sold, and for sale again: no look at the dealer's capacity.
ReopenImported(r) ==
  /\ "open" \in Outside /\ Disturbs
  /\ listings[r] = "closed" /\ csv[r] \notin ListedPlates
  /\ listings' = [listings EXCEPT ![r] = "open"]
  /\ UNCHANGED <<csv, job, elsewhere, rejected, run>>

DeleteImported(r) ==
  /\ "delete" \in Outside /\ Disturbs
  /\ Imported(r)
  /\ listings' = [listings EXCEPT ![r] = "deleted"]
  /\ UNCHANGED <<csv, job, elsewhere, rejected, run>>

-----------------------------------------------------------------------------
Step(a) ==
  \/ Claim(a) \/ FindImported(a) \/ DetectDuplicates(a) \/ CountOpen(a)
  \/ InsertListing(a) \/ WriteRejected(a) \/ SaveCheckpoint(a)
  \/ Complete(a) \/ StopWhenLost(a)
  \/ InsertRefused(a) \/ HandBack(a) \/ GiveUp(a) \/ Release(a) \/ StopWriting(a)
  \/ Crash(a)

Others ==
  \/ \E p \in Plates : CloseListing(p) \/ \E who \in {"own", "other"} : OpenListing(p, who)
  \/ \E r \in Rows : CloseImported(r) \/ ReopenImported(r) \/ DeleteImported(r)

Next == (\E a \in Attempts : Step(a)) \/ RetryUpload \/ Others

Spec == Init /\ [][Next]_vars

-----------------------------------------------------------------------------
(* What holds whatever happens. *)

Decided(r) == listings[r] # "none" \/ rejected[r] # "none"
Done == 1..saved.processed

\* Every row the checkpoint counts was imported or has a rejected record: a
\* crash, a takeover or an insert that stops half-way loses no row.
RowsDecided == \A r \in Done : Decided(r)

\* The counters account for every row, and each is backed by rows: the dealer's
\* summary never claims more than the collections hold.
CountersAreBacked ==
  /\ saved.processed = saved.valid + saved.rejected + saved.duplicate
  /\ saved.valid <= Cardinality({r \in Done : listings[r] # "none"})
  /\ saved.rejected + saved.duplicate <= Cardinality({r \in Done : rejected[r] # "none"})

\* Why no row is lost: what an attempt has behind it is decided, stale or not,
\* and its batch is divided completely before anything of it is written.
AttemptOK(a) ==
  /\ run[a].counts.processed <= RowCount
  /\ \A r \in 1..run[a].counts.processed : Decided(r)
  /\ run[a].pc \in {"detect", "count", "persist", "late"} =>
       \A r \in run[a].resumed : listings[r] # "none"
  /\ run[a].pc = "count" =>
       Valid(a) \subseteq run[a].resumed \cup run[a].unique \cup run[a].duplicate
  /\ Writing(a) =>
       /\ Valid(a) \subseteq run[a].resumed \cup run[a].unique \cup run[a].duplicate
                              \cup run[a].overLimit
       /\ run[a].pc = "persist" \/ run[a].insert # {} =>
            \A r \in run[a].unique \ run[a].insert : listings[r] # "none"
       /\ run[a].recorded =>
            \A r \in InvalidRows(a) \cup run[a].overLimit \cup run[a].duplicate :
              rejected[r] # "none"
ImportInv == TypeOK /\ RowsDecided /\ \A a \in Attempts : AttemptOK(a)

-----------------------------------------------------------------------------
(* What holds until attempts overlap or a dealer interferes.  An attempt    *)
(* lasts as long as anything of it is still being written.                  *)

\* Each row becomes a listing or a rejected record, never both.
OneOutcome ==
  ~disturbed => \A r \in Rows : ~(listings[r] # "none" /\ rejected[r] # "none")

\* The counters are the collections', row by row.  Of the two kinds of rejected
\* rows only the sum is certain: an attempt that comes after another does not
\* know the plates of the rows past the limit, and takes for one more of those
\* what the other has recorded as their duplicate.
CountersAreExact == ~disturbed =>
  /\ saved.valid = Cardinality({r \in Done : listings[r] # "none"})
  /\ saved.rejected + saved.duplicate = Cardinality({r \in Done : rejected[r] # "none"})

\* Repeated batches count each row once, as imported or as rejected.
CountersHold == CountersAreBacked /\ OneOutcome /\ CountersAreExact

\* A row past the limit is rejected: the dealer never has more open listings.
LimitKept == ~disturbed => OwnOpen <= Limit

\* An attempt never tries to insert a row that is imported already.
NoRowTwice ==
  \A a \in Attempts : Writing(a) =>
    \A r \in run[a].insert : ~Imported(r)

\* Without interference the import cannot fail on a duplicate key: the checks
\* before the insert have ruled it out.
ChecksSuffice ==
  ~disturbed => \A a \in Attempts : Writing(a) => \A r \in run[a].insert : ~Refused(r)

\* What was read before the insert still holds at the insert: the index refuses
\* nothing, and the limit is kept.
ChecksHold == ChecksSuffice /\ LimitKept
=============================================================================
