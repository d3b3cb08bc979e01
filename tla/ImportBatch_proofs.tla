-------------------------- MODULE ImportBatch_proofs --------------------------
(***************************************************************************)
(* Proofs about ImportBatch for any CSV, any batch size and listing limit, *)
(* any number of attempts, overlapping or not, and any interference.       *)
(***************************************************************************)
EXTENDS ImportBatch, FiniteSetTheorems, WellFoundedInduction, TLAPS

\* Sets of rows are finite, so the counters are numbers.
LEMMA RowSets ==
  ASSUME NEW S \in SUBSET Rows
  PROVE  IsFiniteSet(S) /\ Cardinality(S) \in Nat
  <1>1. IsFiniteSet(Rows)
    BY SizesAssumption, FS_Interval DEF Rows
  <1> QED
    BY <1>1, FS_Subset, FS_CardinalityType

\* The rows up to the counters an attempt saves next are those up to its
\* present ones and its batch.
LEMMA BatchEnd ==
  ASSUME TypeOK, NEW a \in Attempts, run[a].counts.processed <= RowCount
  PROVE  /\ Advanced(a) \in Counts
         /\ Advanced(a).processed <= RowCount
         /\ \A r \in 1..Advanced(a).processed :
              r \in 1..run[a].counts.processed \/ r \in Batch(a)
         /\ Batch(a) \subseteq 1..Advanced(a).processed
         /\ run[a].counts.processed <= Advanced(a).processed
  <1> DEFINE p == run[a].counts.processed
             end == IF p + BatchSize <= RowCount THEN p + BatchSize ELSE RowCount
  <1>1. run[a] \in Run /\ p \in Nat /\ end \in Nat /\ p <= end /\ end <= RowCount
    BY SizesAssumption DEF TypeOK, Run, Counts
  <1>2. Batch(a) = (p + 1)..end
    BY <1>1, SizesAssumption DEF Batch, Rows
  <1>3. Cardinality(Batch(a)) = end - p
    <2>1. Cardinality((p + 1)..end) = IF p + 1 > end THEN 0 ELSE end - (p + 1) + 1
      <3>1. p + 1 \in Int /\ end \in Int
        BY <1>1
      <3> HIDE DEF p, end
      <3> QED
        BY <3>1, FS_Interval, Zenon
    <2>2. p + 1 > end => end - p = 0
      BY <1>1
    <2>3. p + 1 <= end => end - (p + 1) + 1 = end - p
      BY <1>1
    <2> HIDE DEF p, end
    <2> QED
      BY <1>1, <1>2, <2>1, <2>2, <2>3
  <1>4. Advanced(a).processed = end
    BY <1>1, <1>3 DEF Advanced
  <1>5. /\ Cardinality(run[a].unique \cup run[a].resumed) \in Nat
        /\ Cardinality(InvalidRows(a) \cup run[a].overLimit) \in Nat
        /\ Cardinality(run[a].duplicate) \in Nat
    <2>1. run[a].unique \cup run[a].resumed \in SUBSET Rows
      BY <1>1 DEF Run
    <2>2. InvalidRows(a) \cup run[a].overLimit \in SUBSET Rows
      BY <1>1 DEF Run, InvalidRows, Batch
    <2>3. run[a].duplicate \in SUBSET Rows
      BY <1>1 DEF Run
    <2> QED
      BY <2>1, <2>2, <2>3, RowSets
  <1>6. Advanced(a) \in Counts
    <2>1. run[a].counts \in Counts
      BY <1>1 DEF Run
    <2>2. run[a].counts.processed + Cardinality(Batch(a)) \in Nat
      BY <1>1, <1>3
    <2> HIDE DEF p, end
    <2> QED
      BY <1>5, <2>1, <2>2 DEF Counts, Advanced
  <1> QED
    BY <1>1, <1>2, <1>4, <1>6

-----------------------------------------------------------------------------
(* Rows that are decided stay decided. *)

Growing ==
  /\ csv' = csv
  /\ \A r \in Rows : listings[r] # "none" => listings'[r] # "none"
  /\ \A r \in Rows : rejected[r] # "none" => rejected'[r] # "none"

\* An attempt that does not move keeps what it relies on.
LEMMA Bystander ==
  ASSUME TypeOK, Growing, NEW a \in Attempts, AttemptOK(a), run'[a] = run[a]
  PROVE  AttemptOK(a)'
  <1>1. run[a] \in Run
    BY DEF TypeOK
  <1>2. 1..run[a].counts.processed \subseteq Rows
    BY <1>1, SizesAssumption DEF Run, Counts, Rows, AttemptOK
  <1>3. run[a].resumed \subseteq Rows /\ run[a].unique \subseteq Rows
        /\ run[a].overLimit \subseteq Rows /\ run[a].duplicate \subseteq Rows
        /\ InvalidRows(a) \subseteq Rows
    BY <1>1 DEF Run, InvalidRows, Batch
  <1>4. Valid(a)' = Valid(a) /\ InvalidRows(a)' = InvalidRows(a)
    BY DEF Valid, InvalidRows, Batch, Growing
  <1> QED
    BY <1>2, <1>3, <1>4 DEF AttemptOK, Growing, Decided, Writing

\* An attempt that is idle, or only past rows that are decided, relies on no more.
LEMMA AtRest ==
  ASSUME NEW a \in Attempts, run'[a].pc \in {"idle", "work"},
         run'[a].counts.processed <= RowCount,
         \A r \in 1..run'[a].counts.processed : Decided(r)'
  PROVE  AttemptOK(a)'
  BY DEF AttemptOK, Writing

\* The checkpoint keeps counting decided rows.
LEMMA SavedRows ==
  ASSUME TypeOK, Growing, RowsDecided, saved' = saved
  PROVE  RowsDecided'
  <1>1. Done \subseteq Rows
    BY SizesAssumption DEF TypeOK, Counts, Done, Rows
  <1> QED
    BY <1>1 DEF RowsDecided, Growing, Decided, Done

-----------------------------------------------------------------------------
(* Types. *)

LEMMA StartType ==
  ASSUME NEW c \in Counts
  PROVE  Start(c) \in Run
  BY DEF Start, Run

\* An attempt that breaks off runs on, ends, or goes on writing only.
LEMMA LeaveRuns ==
  ASSUME TypeOK, NEW a \in Attempts,
         \/ StopWhenLost(a) \/ InsertRefused(a) \/ HandBack(a) \/ GiveUp(a)
         \/ Release(a) \/ StopWriting(a) \/ Crash(a)
  PROVE  /\ run' \in [Attempts -> Run]
         /\ \/ run'[a] = run[a]
            \/ run'[a] = NoRun
            \/ \E rest \in {run[a].insert, {}} :
                 /\ Writing(a)
                 /\ run'[a] = [run[a] EXCEPT !.pc = "late", !.insert = rest]
         /\ \A b \in Attempts \ {a} : run'[b] = run[b]
  <1>0. run \in [Attempts -> Run] /\ run[a] \in Run /\ NoRun \in Run
    BY DEF TypeOK, NoRun, Start, Run, Counts, Zero
  <1>1. CASE run' = run
    BY <1>0, <1>1
  <1>2. CASE run' = [run EXCEPT ![a] = NoRun]
    BY <1>0, <1>2
  <1>3. ASSUME NEW rest \in {run[a].insert, {}}, Writing(a),
               run' = [run EXCEPT ![a].pc = "late", ![a].insert = rest]
        PROVE  /\ run' \in [Attempts -> Run]
               /\ run'[a] = [run[a] EXCEPT !.pc = "late", !.insert = rest]
               /\ \A b \in Attempts \ {a} : run'[b] = run[b]
    <2> DEFINE new == [run[a] EXCEPT !.pc = "late", !.insert = rest]
    <2>1. run' = [run EXCEPT ![a] = new]
      BY <1>0, <1>3
    <2>2. new \in Run
      BY <1>0 DEF Run
    <2> HIDE DEF new
    <2>3. run' \in [Attempts -> Run] /\ run'[a] = new /\ \A b \in Attempts \ {a} : run'[b] = run[b]
      BY <1>0, <2>1, <2>2
    <2> QED
      BY <2>3 DEF new
  <1>4. CASE StopWhenLost(a) \/ StopWriting(a) \/ Crash(a)
    BY <1>2, <1>4 DEF StopWhenLost, StopWriting, Crash, End
  <1>5. CASE Release(a)
    BY <1>1, <1>5 DEF Release
  <1>6. ASSUME NEW rest \in {run[a].insert, {}}, NEW new, Leave(a, new, rest)
        PROVE  \/ run' = [run EXCEPT ![a] = NoRun]
               \/ Writing(a) /\ run' = [run EXCEPT ![a].pc = "late", ![a].insert = rest]
    BY <1>6 DEF Leave, End
  <1>7. CASE InsertRefused(a) \/ HandBack(a) \/ GiveUp(a)
    <2>1. PICK rest \in {run[a].insert, {}} :
            \/ run' = [run EXCEPT ![a] = NoRun]
            \/ Writing(a) /\ run' = [run EXCEPT ![a].pc = "late", ![a].insert = rest]
      BY <1>6, <1>7 DEF InsertRefused, HandBack, GiveUp
    <2>2. CASE run' = [run EXCEPT ![a] = NoRun]
      BY <1>2, <2>2
    <2>3. CASE Writing(a) /\ run' = [run EXCEPT ![a].pc = "late", ![a].insert = rest]
      BY <1>3, <2>3
    <2> QED
      BY <2>1, <2>2, <2>3
  <1> QED
    BY <1>4, <1>5, <1>7

\* No step leaves the types.
LEMMA ImportTypes ==
  ASSUME TypeOK, \A a \in Attempts : AttemptOK(a), Next
  PROVE  TypeOK'
  <1> USE SizesAssumption, NamesAssumption DEF TypeOK
  <1>0. NoRun \in Run
    BY DEF NoRun, Start, Run, Counts, Zero
  <1>1. ASSUME NEW a \in Attempts, Claim(a) PROVE TypeOK'
    <2>1. run' \in [Attempts -> Run]
      BY <1>1, StartType DEF Claim
    <2>2. disturbed' \in BOOLEAN
      <3>1. disturbed' = TRUE \/ disturbed' = disturbed
        BY <1>1 DEF Claim, Disturbs, NoEvent
      <3> QED
        BY <3>1
    <2>3. events' \in 0..MaxEvents
      <3>1. Counted \/ events' = events
        BY <1>1 DEF Claim, Disturbs, NoEvent
      <3> QED
        BY <3>1 DEF Counted
    <2>4. status' = "processing" /\ owner' = a /\ UNCHANGED <<csv, saved, listings, elsewhere, rejected>>
      BY <1>1 DEF Claim
    <2> QED
      BY <2>1, <2>2, <2>3, <2>4
  <1>2. ASSUME NEW a \in Attempts, FindImported(a) PROVE TypeOK'
    <2> DEFINE resumed == {r \in Valid(a) : Imported(r)}
               new == [run[a] EXCEPT !.pc = "detect", !.resumed = resumed,
                                     !.seen = @ \cup {csv[r] : r \in resumed}]
    <2>1. resumed \subseteq Rows /\ {csv[r] : r \in resumed} \subseteq Plates
      BY DEF Valid, Batch
    <2>2. new \in Run
      <3> HIDE DEF resumed
      <3> QED
        BY <2>1 DEF Run
    <2>3. run' = [run EXCEPT ![a] = new]
      BY <1>2, Zenon DEF FindImported
    <2>4. run' \in [Attempts -> Run]
      <3> HIDE DEF new
      <3> QED
        BY <2>2, <2>3
    <2> QED
      BY <1>2, <2>4 DEF FindImported, NoEvent, job
  <1>3. ASSUME NEW a \in Attempts, DetectDuplicates(a) PROVE TypeOK'
    <2> DEFINE fresh == Valid(a) \ run[a].resumed
               unique == {r \in fresh : csv[r] \notin run[a].seen \cup ListedPlates
                                          /\ \A q \in Before(r, fresh) : csv[q] # csv[r]}
               duplicate == fresh \ unique
               plates == {csv[r] : r \in unique}
               new == [run[a] EXCEPT !.pc = "count", !.unique = unique,
                                     !.duplicate = duplicate, !.seen = @ \cup plates]
    <2>1. unique \subseteq Rows /\ duplicate \subseteq Rows /\ plates \subseteq Plates
      BY DEF Valid, Batch
    <2>2. new \in Run
      <3>1. run[a] \in Run
        OBVIOUS
      <3> HIDE DEF unique, fresh, duplicate, plates, TypeOK
      <3> QED
        BY <2>1, <3>1 DEF Run
    <2>3. run' = [run EXCEPT ![a] = new]
      BY <1>3, Zenon DEF DetectDuplicates
    <2>4. run' \in [Attempts -> Run]
      <3> HIDE DEF new
      <3> QED
        BY <2>2, <2>3
    <2> QED
      BY <1>3, <2>4 DEF DetectDuplicates, NoEvent, job
  <1>4. ASSUME NEW a \in Attempts, CountOpen(a) PROVE TypeOK'
    <2> PICK kept \in SUBSET run[a].unique :
          run' = [run EXCEPT ![a] = [run[a] EXCEPT !.pc = "persist", !.unique = kept,
                                                   !.overLimit = run[a].unique \ kept,
                                                   !.insert = kept, !.recorded = FALSE]]
      BY <1>4 DEF CountOpen
    <2>1. [run[a] EXCEPT !.pc = "persist", !.unique = kept,
                         !.overLimit = run[a].unique \ kept,
                         !.insert = kept, !.recorded = FALSE] \in Run
      BY DEF Run
    <2>2. run' \in [Attempts -> Run]
      BY <2>1
    <2> QED
      BY <1>4, <2>2 DEF CountOpen, NoEvent, job
  <1>5. ASSUME NEW a \in Attempts, InsertListing(a) PROVE TypeOK'
    <2> DEFINE r0 == First(run[a].insert)
               new == [run[a] EXCEPT !.insert = @ \ {r0}]
    <2>1. run' = [run EXCEPT ![a] = new]
      BY <1>5, Zenon DEF InsertListing
    <2>2. new \in Run
      BY DEF Run
    <2>3. run' \in [Attempts -> Run]
      <3> HIDE DEF new
      <3> QED
        BY <2>1, <2>2
    <2>4. listings' = [listings EXCEPT ![r0] = "open"]
      BY <1>5 DEF InsertListing
    <2>5. listings' \in [Rows -> {"none", "open", "closed", "deleted"}]
      <3> HIDE DEF r0
      <3> QED
        BY <2>4
    <2>6. UNCHANGED <<csv, status, owner, saved, elsewhere, rejected, events, disturbed>>
      BY <1>5 DEF InsertListing, NoEvent, job
    <2> HIDE DEF r0, new
    <2> QED
      BY <2>3, <2>5, <2>6
  <1>6. ASSUME NEW a \in Attempts, WriteRejected(a) PROVE TypeOK'
    <2> DEFINE new == [run[a] EXCEPT !.recorded = TRUE]
    <2>1. run' = [run EXCEPT ![a] = new]
      BY <1>6, Zenon DEF WriteRejected
    <2>2. new \in Run
      BY DEF Run
    <2>3. run' \in [Attempts -> Run]
      <3> HIDE DEF new
      <3> QED
        BY <2>1, <2>2
    <2>4. rejected' \in [Rows -> {"none", "validation", "duplicate"}]
      BY <1>6 DEF WriteRejected, Recorded
    <2> QED
      BY <1>6, <2>3, <2>4 DEF WriteRejected, NoEvent, job
  <1>7. ASSUME NEW a \in Attempts, SaveCheckpoint(a) PROVE TypeOK'
    <2>1. Advanced(a) \in Counts /\ Advanced(a).processed <= RowCount
      BY BatchEnd DEF AttemptOK
    <2>2. run' \in [Attempts -> Run]
      <3>1. CASE Holds(a)
        <4> DEFINE new == [run[a] EXCEPT !.pc = "work", !.counts = Advanced(a)]
        <4>1. new \in Run
          BY <2>1 DEF Run
        <4>2. run' = [run EXCEPT ![a] = new]
          BY <1>7, <3>1 DEF SaveCheckpoint
        <4> HIDE DEF new
        <4> QED
          BY <4>1, <4>2
      <3> QED
        BY <1>7, <1>0, <3>1 DEF SaveCheckpoint, End
    <2> QED
      BY <1>7, <2>1, <2>2 DEF SaveCheckpoint, NoEvent
  <1>8. ASSUME NEW a \in Attempts, Complete(a) PROVE TypeOK'
    <2>1. run[a].counts \in Counts /\ run[a].counts.processed <= RowCount
      BY DEF AttemptOK, Run
    <2>2. run' \in [Attempts -> Run]
      BY <1>8, <1>0 DEF Complete, End
    <2> QED
      BY <1>8, <2>1, <2>2 DEF Complete, NoEvent, job
  <1>9. ASSUME NEW a \in Attempts,
               \/ StopWhenLost(a) \/ InsertRefused(a) \/ HandBack(a) \/ GiveUp(a)
               \/ Release(a) \/ StopWriting(a) \/ Crash(a)
        PROVE  TypeOK'
    <2>1. run' \in [Attempts -> Run]
      BY <1>9, <1>0, LeaveRuns
    <2>2. rejected' \in [Rows -> {"none", "validation", "duplicate"}]
      BY <1>9 DEF StopWhenLost, InsertRefused, HandBack, GiveUp, Release, StopWriting, Crash,
                  Leave, PerhapsRecorded, Recorded
    <2>3. /\ status' \in {"pending", "processing", "completed", "failed"}
          /\ owner' \in Attempts \cup {NoAttempt}
      BY <1>9 DEF StopWhenLost, InsertRefused, HandBack, GiveUp, Release, StopWriting, Crash,
                  Leave, HandOver, job
    <2>4. UNCHANGED <<csv, saved, listings, elsewhere, disturbed>>
      BY <1>9 DEF StopWhenLost, InsertRefused, HandBack, GiveUp, Release, StopWriting, Crash,
                  Leave, Event, NoEvent, job
    <2>5. events' \in 0..MaxEvents
      BY <1>9 DEF StopWhenLost, InsertRefused, HandBack, GiveUp, Release, StopWriting, Crash,
                  Event, Counted, NoEvent
    <2> QED
      BY <2>1, <2>2, <2>3, <2>4, <2>5
  <1>10. CASE RetryUpload
    BY <1>10 DEF RetryUpload, Event, Disturbs, Counted
  <1>11. CASE Others
    <2>1. Disturbs /\ UNCHANGED <<csv, job, rejected, run>>
      BY <1>11 DEF Others, CloseListing, OpenListing, CloseImported, ReopenImported,
                  DeleteImported
    <2>2. disturbed' = TRUE /\ events' \in 0..MaxEvents
      BY <2>1 DEF Disturbs, Counted
    <2>3. /\ elsewhere' \in [Plates -> {"none", "own", "other"}]
          /\ listings' \in [Rows -> {"none", "open", "closed", "deleted"}]
      BY <1>11 DEF Others, CloseListing, OpenListing, CloseImported, ReopenImported,
                  DeleteImported
    <2>4. disturbed' \in BOOLEAN
      BY <2>2
    <2> QED
      BY <2>1, <2>2, <2>3, <2>4 DEF job
  <1> QED
    BY <1>1, <1>2, <1>3, <1>4, <1>5, <1>6, <1>7, <1>8, <1>9, <1>10, <1>11 DEF Next, Step

-----------------------------------------------------------------------------
(* Rows. *)

\* No step undecides a row.
LEMMA NextGrows ==
  ASSUME TypeOK, Next
  PROVE  Growing
  <1> USE DEF Growing, TypeOK
  <1>1. ASSUME NEW a \in Attempts, Step(a) PROVE Growing
    <2>1. CASE Claim(a) \/ FindImported(a) \/ DetectDuplicates(a) \/ CountOpen(a)
               \/ SaveCheckpoint(a) \/ Complete(a) \/ StopWhenLost(a)
               \/ Release(a) \/ StopWriting(a)
      BY <2>1 DEF Claim, FindImported, DetectDuplicates, CountOpen, SaveCheckpoint,
                  Complete, StopWhenLost, Release, StopWriting
    <2>2. CASE InsertListing(a)
      BY <2>2 DEF InsertListing
    <2>3. CASE WriteRejected(a)
      BY <2>3 DEF WriteRejected, Recorded
    <2>4. CASE InsertRefused(a) \/ HandBack(a) \/ GiveUp(a) \/ Crash(a)
      BY <2>4 DEF InsertRefused, HandBack, GiveUp, Crash, Leave, PerhapsRecorded, Recorded
    <2> QED
      BY <1>1, <2>1, <2>2, <2>3, <2>4 DEF Step
  <1>2. CASE RetryUpload
    BY <1>2 DEF RetryUpload
  <1>3. CASE Others
    BY <1>3 DEF Others, CloseListing, OpenListing, CloseImported, ReopenImported, DeleteImported
  <1> QED
    BY <1>1, <1>2, <1>3 DEF Next

\* A step of an attempt keeps what that attempt, and the checkpoint, rely on.
LEMMA StepKeeps ==
  ASSUME ImportInv, NEW a \in Attempts, Step(a), Growing
  PROVE  AttemptOK(a)' /\ RowsDecided'
  <1> USE DEF ImportInv
  <1>0. /\ run[a] \in Run /\ AttemptOK(a)
        /\ 1..run[a].counts.processed \subseteq Rows
        /\ \A r \in 1..run[a].counts.processed : Decided(r)'
        /\ run \in [Attempts -> Run]
    <2>1. run[a] \in Run /\ AttemptOK(a) /\ run \in [Attempts -> Run]
      BY DEF TypeOK
    <2>2. 1..run[a].counts.processed \subseteq Rows
      BY <2>1, SizesAssumption DEF AttemptOK, Run, Counts, Rows
    <2>3. \A r \in 1..run[a].counts.processed : Decided(r)
      BY <2>1 DEF AttemptOK
    <2>4. \A r \in 1..run[a].counts.processed : Decided(r)'
      BY <2>2, <2>3 DEF Growing, Decided
    <2> QED
      BY <2>1, <2>2, <2>4
  <1>1. CASE Claim(a)
    <2>1. RowsDecided'
      BY <1>1, SavedRows DEF Claim
    <2>2. run'[a] = Start(saved)
      BY <1>0, <1>1 DEF Claim
    <2>3. \A r \in 1..saved.processed : Decided(r)'
      BY <1>1, <2>1 DEF Claim, RowsDecided, Done
    <2> QED
      BY <2>1, <2>2, <2>3, AtRest DEF Start, TypeOK
  <1>2. CASE FindImported(a)
    <2>1. RowsDecided'
      BY <1>2, SavedRows DEF FindImported, job
    <2>2. run'[a].counts = run[a].counts /\ run'[a].pc = "detect"
          /\ run'[a].resumed = {r \in Valid(a) : Imported(r)}
      BY <1>0, <1>2 DEF FindImported, Run
    <2>3. \A r \in run'[a].resumed : listings'[r] # "none"
      BY <1>2, <2>2 DEF FindImported, Imported
    <2> QED
      BY <1>0, <2>1, <2>2, <2>3 DEF AttemptOK, Writing
  <1>3. CASE DetectDuplicates(a)
    <2>1. RowsDecided'
      BY <1>3, SavedRows DEF DetectDuplicates, job
    <2>2. /\ run'[a].counts = run[a].counts /\ run'[a].pc = "count"
          /\ run'[a].resumed = run[a].resumed
          /\ run'[a].duplicate = (Valid(a) \ run[a].resumed) \ run'[a].unique
          /\ run[a].pc = "detect"
      BY <1>0, <1>3 DEF DetectDuplicates, Run
    <2>3. Valid(a)' = Valid(a)
      BY <2>2 DEF Valid, Batch, Growing
    <2>4. \A r \in run'[a].resumed : listings'[r] # "none"
      BY <1>0, <2>2 DEF Growing, AttemptOK, Run
    <2> QED
      BY <1>0, <2>1, <2>2, <2>3, <2>4 DEF AttemptOK, Writing
  <1>4. CASE CountOpen(a)
    <2>1. RowsDecided'
      BY <1>4, SavedRows DEF CountOpen, job
    <2>2. /\ run'[a].counts = run[a].counts /\ run'[a].pc = "persist"
          /\ run'[a].resumed = run[a].resumed /\ run'[a].duplicate = run[a].duplicate
          /\ run'[a].overLimit = run[a].unique \ run'[a].unique
          /\ run'[a].insert = run'[a].unique /\ ~run'[a].recorded
          /\ run[a].pc = "count"
      BY <1>0, <1>4 DEF CountOpen, Run
    <2>3. Valid(a)' = Valid(a)
      BY <2>2 DEF Valid, Batch, Growing
    <2>4. \A r \in run'[a].resumed : listings'[r] # "none"
      BY <1>0, <2>2 DEF Growing, AttemptOK, Run
    <2> QED
      BY <1>0, <2>1, <2>2, <2>3, <2>4 DEF AttemptOK, Writing
  <1>5. CASE InsertListing(a)
    <2> DEFINE r0 == First(run[a].insert)
    <2>1. RowsDecided'
      BY <1>5, SavedRows DEF InsertListing, job
    <2>2. run'[a] = [run[a] EXCEPT !.insert = run[a].insert \ {r0}]
          /\ Writing(a) /\ run[a].insert # {}
          /\ listings' = [listings EXCEPT ![r0] = "open"]
      BY <1>0, <1>5 DEF InsertListing
    <2>3. Valid(a)' = Valid(a) /\ InvalidRows(a)' = InvalidRows(a)
      BY <1>0, <2>2 DEF Valid, InvalidRows, Batch, Growing, Run
    <2>4. \A r \in run'[a].unique \ run'[a].insert : listings'[r] # "none"
      <3> HIDE DEF r0
      <3> SUFFICES ASSUME NEW r \in run[a].unique \ (run[a].insert \ {r0})
                   PROVE  listings'[r] # "none"
        BY <1>0, <2>2 DEF Run
      <3>1. r \in Rows
        BY <1>0 DEF Run
      <3>2. CASE r = r0
        BY <2>2, <3>1, <3>2 DEF TypeOK
      <3>3. CASE r # r0
        BY <1>0, <2>2, <3>1, <3>3 DEF AttemptOK, Growing
      <3> QED
        BY <3>2, <3>3
    <2>5. \A r \in run[a].resumed : listings'[r] # "none"
      BY <1>0, <2>2 DEF Growing, AttemptOK, Run, Writing
    <2>6. rejected' = rejected
      BY <1>5 DEF InsertListing
    <2> HIDE DEF r0
    <2> QED
      BY <1>0, <2>1, <2>2, <2>3, <2>4, <2>5, <2>6 DEF AttemptOK, Run, Writing
  <1>6. CASE WriteRejected(a)
    <2>1. RowsDecided'
      BY <1>6, SavedRows DEF WriteRejected, job
    <2>2. run'[a] = [run[a] EXCEPT !.recorded = TRUE] /\ Writing(a)
          /\ rejected' = Recorded(a) /\ listings' = listings
      BY <1>0, <1>6 DEF WriteRejected
    <2>3. Valid(a)' = Valid(a) /\ InvalidRows(a)' = InvalidRows(a)
      BY <1>0, <2>2 DEF Valid, InvalidRows, Batch, Growing, Run
    <2>4. \A r \in InvalidRows(a) \cup run[a].overLimit \cup run[a].duplicate :
            rejected'[r] # "none"
      BY <1>0, <2>2 DEF Recorded, Run, InvalidRows, Batch
    <2> QED
      BY <1>0, <2>1, <2>2, <2>3, <2>4 DEF AttemptOK, Run, Writing
  <1>7. CASE SaveCheckpoint(a)
    <2>1. CASE Holds(a)
      <3>1. run'[a].pc = "work" /\ run'[a].counts = Advanced(a) /\ saved' = Advanced(a)
            /\ UNCHANGED <<listings, rejected>>
            /\ run[a].pc = "persist" /\ run[a].insert = {} /\ run[a].recorded
        BY <1>0, <1>7, <2>1 DEF SaveCheckpoint, Run
      <3>2. \A r \in Batch(a) : Decided(r)
        BY <1>0, <3>1 DEF AttemptOK, Decided, InvalidRows, Writing
      <3>3. \A r \in 1..Advanced(a).processed : Decided(r)'
        BY <1>0, <3>1, <3>2, BatchEnd DEF AttemptOK, Decided
      <3>4. Advanced(a).processed <= RowCount
        BY <1>0, BatchEnd DEF AttemptOK
      <3> QED
        BY <3>1, <3>3, <3>4, AtRest DEF RowsDecided, Done
    <2>2. CASE ~Holds(a)
      <3>1. run'[a] = NoRun /\ saved' = saved
        BY <1>0, <1>7, <2>2 DEF SaveCheckpoint, End
      <3> QED
        BY <3>1, SavedRows, AtRest, SizesAssumption DEF NoRun, Start, Zero
    <2> QED
      BY <2>1, <2>2
  <1>8. ASSUME run'[a] = NoRun, saved' = saved PROVE AttemptOK(a)' /\ RowsDecided'
    BY <1>8, SavedRows, AtRest, SizesAssumption DEF NoRun, Start, Zero
  <1>9. CASE Complete(a)
    <2>1. run'[a] = NoRun /\ (saved' = saved \/ saved' = run[a].counts)
      BY <1>0, <1>9 DEF Complete, End, job
    <2>2. RowsDecided'
      BY <1>0, <2>1, SavedRows DEF RowsDecided, Done
    <2> QED
      BY <2>1, <2>2, AtRest, SizesAssumption DEF NoRun, Start, Zero
  <1>10. CASE \/ StopWhenLost(a) \/ InsertRefused(a) \/ HandBack(a) \/ GiveUp(a)
              \/ Release(a) \/ StopWriting(a) \/ Crash(a)
    <2>1. saved' = saved
      BY <1>10 DEF StopWhenLost, InsertRefused, HandBack, GiveUp, Release, StopWriting, Crash,
                   Leave, job
    <2>2. CASE run'[a] = NoRun
      BY <1>8, <2>1, <2>2
    <2>3. CASE run'[a] = run[a]
      BY <1>0, <2>1, <2>3, SavedRows, Bystander
    <2>4. ASSUME NEW rest \in {run[a].insert, {}}, Writing(a),
                 run'[a] = [run[a] EXCEPT !.pc = "late", !.insert = rest]
          PROVE  AttemptOK(a)' /\ RowsDecided'
      <3>1. /\ run'[a].counts = run[a].counts /\ run'[a].pc = "late"
            /\ run'[a].resumed = run[a].resumed /\ run'[a].unique = run[a].unique
            /\ run'[a].duplicate = run[a].duplicate /\ run'[a].overLimit = run[a].overLimit
            /\ run'[a].insert = rest /\ run'[a].recorded = run[a].recorded
        BY <1>0, <2>4 DEF Run
      <3>2. Valid(a)' = Valid(a) /\ InvalidRows(a)' = InvalidRows(a)
        BY <3>1 DEF Valid, InvalidRows, Batch, Growing
      <3>3. \A r \in run[a].resumed : listings'[r] # "none"
        BY <1>0, <2>4 DEF Growing, AttemptOK, Run, Writing
      <3>4. rest # {} => \A r \in run[a].unique \ rest : listings'[r] # "none"
        <4>1. run[a].unique \subseteq Rows
          BY <1>0 DEF Run
        <4>2. rest # {} => rest = run[a].insert
          OBVIOUS
        <4>3. run[a].insert # {} => \A r \in run[a].unique \ run[a].insert : listings[r] # "none"
          BY <1>0, <2>4 DEF AttemptOK
        <4> QED
          BY <4>1, <4>2, <4>3 DEF Growing
      <3>5. run[a].recorded =>
              \A r \in InvalidRows(a) \cup run[a].overLimit \cup run[a].duplicate :
                rejected'[r] # "none"
        <4>1. InvalidRows(a) \cup run[a].overLimit \cup run[a].duplicate \subseteq Rows
          BY <1>0 DEF Run, InvalidRows, Batch
        <4> QED
          BY <1>0, <2>4, <4>1 DEF AttemptOK, Growing
      <3>6. Valid(a) \subseteq run[a].resumed \cup run[a].unique \cup run[a].duplicate
                                  \cup run[a].overLimit
        BY <1>0, <2>4 DEF AttemptOK
      <3>7. run[a].counts.processed <= RowCount
        BY <1>0 DEF AttemptOK
      <3> QED
        BY <1>0, <2>1, <3>1, <3>2, <3>3, <3>4, <3>5, <3>6, <3>7, SavedRows DEF AttemptOK, Writing
    <2> QED
      BY <1>10, <2>2, <2>3, <2>4, LeaveRuns, <1>0 DEF ImportInv
  <1> QED
    BY <1>1, <1>2, <1>3, <1>4, <1>5, <1>6, <1>7, <1>9, <1>10 DEF Step

\* Only the attempt whose step it is moves.
LEMMA OneMoves ==
  ASSUME TypeOK, NEW a \in Attempts, Step(a), NEW b \in Attempts, b # a
  PROVE  run'[b] = run[b]
  BY DEF TypeOK, Step, Claim, FindImported, DetectDuplicates, CountOpen, InsertListing,
         WriteRejected, SaveCheckpoint, Complete, StopWhenLost, InsertRefused, HandBack,
         GiveUp, Release, StopWriting, Crash, Leave, End

\* At first no row is counted.
LEMMA ImportInit ==
  ASSUME Init
  PROVE  ImportInv
  <1> USE SizesAssumption
  <1>1. NoRun \in Run /\ Zero \in Counts /\ Zero.processed = 0
    BY DEF NoRun, Start, Run, Counts, Zero
  <1>2. TypeOK
    <2>1. disturbed \in BOOLEAN
      BY DEF Init
    <2> QED
      BY <1>1, <2>1 DEF Init, TypeOK
  <1>3. RowsDecided
    BY <1>1 DEF Init, RowsDecided, Done
  <1>4. \A a \in Attempts : AttemptOK(a)
    BY DEF Init, AttemptOK, NoRun, Start, Zero, Writing
  <1> QED
    BY <1>2, <1>3, <1>4 DEF ImportInv

\* ImportInv is inductive.
LEMMA ImportStep ==
  ASSUME ImportInv, [Next]_vars
  PROVE  ImportInv'
  <1>1. CASE Next
    <2>1. TypeOK' /\ Growing
      BY <1>1, ImportTypes, NextGrows DEF ImportInv
    <2>2. ASSUME NEW a \in Attempts, Step(a) PROVE ImportInv'
      BY <2>1, <2>2, StepKeeps, OneMoves, Bystander DEF ImportInv
    <2>3. CASE RetryUpload \/ Others
      <3>1. run' = run /\ saved' = saved
        BY <2>3 DEF RetryUpload, Others, CloseListing, OpenListing, CloseImported,
                    ReopenImported, DeleteImported, job
      <3> QED
        BY <2>1, <3>1, SavedRows, Bystander DEF ImportInv
    <2> QED
      BY <1>1, <2>2, <2>3 DEF Next
  <1>2. CASE UNCHANGED vars
    <2>1. Growing /\ run' = run /\ saved' = saved
      BY <1>2 DEF vars, job, Growing
    <2>2. TypeOK'
      BY <1>2 DEF ImportInv, TypeOK, vars, job
    <2> QED
      BY <2>1, <2>2, SavedRows, Bystander DEF ImportInv
  <1> QED
    BY <1>1, <1>2

-----------------------------------------------------------------------------
(* What the counters count. *)

\* Counters that add up, and claim no more than the collections hold.
Tallied(c) ==
  /\ c.processed = c.valid + c.rejected + c.duplicate
  /\ c.valid <= Cardinality({r \in 1..c.processed : listings[r] # "none"})
  /\ c.rejected + c.duplicate <= Cardinality({r \in 1..c.processed : rejected[r] # "none"})

\* An attempt puts every valid row of its batch on one of its lists.
Divided(a) ==
  /\ run[a].pc \in {"detect", "count", "persist", "late"} => run[a].resumed \subseteq Valid(a)
  /\ run[a].pc = "count" =>
       /\ run[a].unique \cup run[a].duplicate = Valid(a) \ run[a].resumed
       /\ run[a].unique \cap run[a].duplicate = {}
  /\ Writing(a) =>
       /\ run[a].unique \cup run[a].overLimit \cup run[a].duplicate = Valid(a) \ run[a].resumed
       /\ run[a].unique \cap run[a].overLimit = {}
       /\ (run[a].unique \cup run[a].overLimit) \cap run[a].duplicate = {}
       /\ run[a].insert \subseteq run[a].unique

TallyInv ==
  /\ ImportInv
  /\ Tallied(saved)
  /\ \A a \in Attempts : Tallied(run[a].counts) /\ Divided(a)

-----------------------------------------------------------------------------
(* Which rows are imported, until attempts overlap or a dealer interferes: *)
(* the first of each plate, as far as the limit goes.                      *)

Firsts == {r \in Rows : csv[r] # Invalid /\ \A q \in Rows : q < r => csv[q] # csv[r]}
Chosen == {r \in Firsts : Cardinality(Before(r, Firsts)) < Limit}

Listed == {r \in Rows : listings[r] # "none"}

\* Nobody else touches listings.
Untouched ==
  /\ \A a, b \in Attempts : run[a].pc # "idle" /\ run[b].pc # "idle" => a = b
  /\ \A p \in Plates : elsewhere[p] = "none"
  /\ \A r \in Rows : listings[r] \in {"none", "open"}

\* Chosen rows are imported in order, and no chosen row is rejected.
InOrder ==
  /\ Listed \subseteq Chosen
  /\ \A r \in Listed : \A q \in Chosen : q < r => q \in Listed
  /\ \A r \in Chosen : rejected[r] = "none"

\* An attempt sorts its rows as they were chosen.
SeenRow(a, q) ==
  \/ q <= run[a].counts.processed
  \/ run[a].pc = "detect" /\ q \in run[a].resumed
  \/ run[a].pc \in {"count", "persist", "late"} /\ q \in Batch(a)
Sorted(a) ==
  /\ run[a].pc # "idle" =>
       \A p \in run[a].seen : \E q \in Rows : csv[q] = p /\ SeenRow(a, q)
  /\ run[a].pc = "detect" => Valid(a) \cap Listed \subseteq run[a].resumed
  /\ run[a].pc = "count" =>
       /\ \A r \in run[a].unique :
            csv[r] \notin ListedPlates /\ \A q \in run[a].unique : csv[q] = csv[r] => q = r
       /\ run[a].duplicate \cap Chosen = {}
  /\ Writing(a) =>
       /\ run[a].unique \subseteq Chosen
       /\ (run[a].overLimit \cup run[a].duplicate) \cap Chosen = {}
       /\ run[a].insert \cap Listed = {}

ChoiceInv == TallyInv /\ (~disturbed => Untouched /\ InOrder /\ \A a \in Attempts : Sorted(a))

-----------------------------------------------------------------------------
(* The counters add up. *)

\* Disjoint sets of rows have as many rows as both together.
LEMMA TwoSets ==
  ASSUME NEW S \in SUBSET Rows, NEW T \in SUBSET Rows, S \cap T = {}
  PROVE  Cardinality(S \cup T) = Cardinality(S) + Cardinality(T)
  <1>1. IsFiniteSet(S) /\ IsFiniteSet(T) /\ Cardinality(S) \in Nat /\ Cardinality(T) \in Nat
    BY RowSets
  <1>2. Cardinality(S \cup T) = Cardinality(S) + Cardinality(T) - Cardinality(S \cap T)
    BY <1>1, FS_Union
  <1>3. Cardinality(S \cap T) = 0
    BY FS_EmptySet
  <1> QED
    BY <1>1, <1>2, <1>3

\* Fewer rows are not more.
LEMMA FewerRows ==
  ASSUME NEW S \in SUBSET Rows, NEW T \in SUBSET S
  PROVE  Cardinality(T) <= Cardinality(S)
  BY RowSets, FS_Subset

\* Counters stay tallied: no step takes a listing or a record away.
LEMMA TallyGrows ==
  ASSUME TypeOK, Growing, NEW c \in Counts, c.processed <= RowCount, Tallied(c)
  PROVE  Tallied(c)'
  <1> DEFINE L == {r \in 1..c.processed : listings[r] # "none"}
             M == {r \in 1..c.processed : listings'[r] # "none"}
             J == {r \in 1..c.processed : rejected[r] # "none"}
             K == {r \in 1..c.processed : rejected'[r] # "none"}
  <1>1. 1..c.processed \subseteq Rows
    BY SizesAssumption DEF Counts, Rows
  <1>2. L \in SUBSET M /\ M \in SUBSET Rows /\ J \in SUBSET K /\ K \in SUBSET Rows
    BY <1>1 DEF Growing
  <1>3. /\ c.processed = c.valid + c.rejected + c.duplicate
        /\ c.valid <= Cardinality(L) /\ c.rejected + c.duplicate <= Cardinality(J)
    BY DEF Tallied
  <1>4. c.valid \in Nat /\ c.rejected + c.duplicate \in Nat
    BY DEF Counts
  <1> HIDE DEF L, M, J, K
  <1>5. Cardinality(L) <= Cardinality(M) /\ Cardinality(J) <= Cardinality(K)
    BY <1>2, FewerRows
  <1>6. /\ Cardinality(L) \in Nat /\ Cardinality(M) \in Nat
        /\ Cardinality(J) \in Nat /\ Cardinality(K) \in Nat
    BY <1>2, RowSets
  <1>7. c.valid <= Cardinality(M) /\ c.rejected + c.duplicate <= Cardinality(K)
    BY <1>3, <1>4, <1>5, <1>6
  <1> QED
    BY <1>3, <1>7 DEF Tallied, M, K

\* Before anything is counted the counters are tallied.
LEMMA TallyZero == Tallied(Zero)
  <1>1. {r \in 1..0 : listings[r] # "none"} = {} /\ {r \in 1..0 : rejected[r] # "none"} = {}
    OBVIOUS
  <1>2. Cardinality({r \in 1..0 : listings[r] # "none"}) = 0
        /\ Cardinality({r \in 1..0 : rejected[r] # "none"}) = 0
    BY <1>1, FS_EmptySet, Zenon
  <1> QED
    BY <1>2 DEF Tallied, Zero

\* The rows of a batch, each on one of the attempt's lists, are the rows by
\* which the counters advance.
LEMMA BatchTally ==
  ASSUME TypeOK, NEW a \in Attempts, AttemptOK(a), Divided(a), Tallied(run[a].counts),
         run[a].pc = "persist", run[a].insert = {}, run[a].recorded
  PROVE  Tallied(Advanced(a))
  <1> DEFINE c == run[a].counts
             d == Advanced(a)
             good == run[a].unique \cup run[a].resumed
             bad == InvalidRows(a) \cup run[a].overLimit
             dup == run[a].duplicate
             L == {r \in 1..c.processed : listings[r] # "none"}
             M == {r \in 1..d.processed : listings[r] # "none"}
             J == {r \in 1..c.processed : rejected[r] # "none"}
             K == {r \in 1..d.processed : rejected[r] # "none"}
  <1>1. run[a] \in Run /\ c \in Counts /\ c.processed <= RowCount
    BY DEF TypeOK, Run, AttemptOK
  <1>2. /\ d \in Counts /\ d.processed <= RowCount /\ c.processed <= d.processed
        /\ Batch(a) \subseteq 1..d.processed
    BY <1>1, BatchEnd
  <1>3. 1..c.processed \subseteq 1..d.processed /\ 1..d.processed \subseteq Rows
    BY <1>1, <1>2, SizesAssumption DEF Counts, Rows
  <1>4. /\ good \cup bad \cup dup = Batch(a)
        /\ good \cap bad = {} /\ (good \cup bad) \cap dup = {}
    BY DEF Divided, InvalidRows, Valid, Writing
  <1>5. (\A r \in good : listings[r] # "none") /\ \A r \in bad \cup dup : rejected[r] # "none"
    BY DEF AttemptOK, Writing
  <1>6. \A r \in Batch(a) : r \notin 1..c.processed
    BY <1>1 DEF Batch, Rows, Counts
  <1>7. /\ Batch(a) \in SUBSET Rows /\ M \in SUBSET Rows /\ K \in SUBSET Rows
        /\ L \in SUBSET Rows /\ J \in SUBSET Rows
    BY <1>3 DEF Batch
  <1>8. /\ d.processed = c.processed + Cardinality(Batch(a))
        /\ d.valid = c.valid + Cardinality(good)
        /\ d.rejected = c.rejected + Cardinality(bad)
        /\ d.duplicate = c.duplicate + Cardinality(dup)
    BY DEF Advanced
  <1>9. L \cup good \in SUBSET M /\ L \cap good = {}
    BY <1>2, <1>3, <1>4, <1>5, <1>6
  <1>10. J \cup (bad \cup dup) \in SUBSET K /\ J \cap (bad \cup dup) = {}
    BY <1>2, <1>3, <1>4, <1>5, <1>6
  <1>11. /\ c.processed = c.valid + c.rejected + c.duplicate
         /\ c.valid <= Cardinality(L) /\ c.rejected + c.duplicate <= Cardinality(J)
    BY DEF Tallied
  <1>12. /\ c.processed \in Nat /\ c.valid \in Nat /\ c.rejected \in Nat /\ c.duplicate \in Nat
    BY <1>1 DEF Counts
  <1>13. /\ good \in SUBSET Rows /\ bad \in SUBSET Rows /\ dup \in SUBSET Rows
         /\ bad \cup dup \in SUBSET Rows /\ bad \cap dup = {}
         /\ good \cap (bad \cup dup) = {} /\ good \cup (bad \cup dup) = Batch(a)
    BY <1>4, <1>7
  <1> HIDE DEF c, d, good, bad, dup, L, M, J, K
  <1>14. /\ Cardinality(L \cup good) = Cardinality(L) + Cardinality(good)
         /\ Cardinality(bad \cup dup) = Cardinality(bad) + Cardinality(dup)
         /\ Cardinality(J \cup (bad \cup dup)) = Cardinality(J) + Cardinality(bad \cup dup)
         /\ Cardinality(Batch(a)) = Cardinality(good) + Cardinality(bad \cup dup)
    <2>1. Cardinality(L \cup good) = Cardinality(L) + Cardinality(good)
      BY <1>7, <1>9, <1>13, TwoSets
    <2>2. Cardinality(bad \cup dup) = Cardinality(bad) + Cardinality(dup)
      BY <1>13, TwoSets
    <2>3. Cardinality(J \cup (bad \cup dup)) = Cardinality(J) + Cardinality(bad \cup dup)
      BY <1>7, <1>10, <1>13, TwoSets
    <2>4. Cardinality(good \cup (bad \cup dup)) = Cardinality(good) + Cardinality(bad \cup dup)
      BY <1>13, TwoSets
    <2> QED
      BY <1>13, <2>1, <2>2, <2>3, <2>4
  <1>15. /\ Cardinality(L \cup good) <= Cardinality(M)
         /\ Cardinality(J \cup (bad \cup dup)) <= Cardinality(K)
    BY <1>7, <1>9, <1>10, FewerRows
  <1>16. /\ Cardinality(L) \in Nat /\ Cardinality(M) \in Nat /\ Cardinality(J) \in Nat
         /\ Cardinality(K) \in Nat /\ Cardinality(good) \in Nat /\ Cardinality(bad) \in Nat
         /\ Cardinality(dup) \in Nat
    BY <1>7, <1>13, RowSets
  <1>17. /\ d.processed = d.valid + d.rejected + d.duplicate
         /\ d.valid <= Cardinality(M) /\ d.rejected + d.duplicate <= Cardinality(K)
    BY <1>8, <1>11, <1>12, <1>14, <1>15, <1>16
  <1>18. Tallied(d)
    BY <1>17 DEF Tallied, M, K
  <1> QED
    BY <1>18 DEF d

\* An attempt that does not move, or is at rest, divides nothing anew.
LEMMA DividedKept ==
  ASSUME NEW a \in Attempts, csv' = csv,
         run'[a].pc \in {"idle", "work"} \/ (Divided(a) /\ run'[a] = run[a])
  PROVE  Divided(a)'
  BY DEF Divided, Valid, Batch, Writing

\* Each step of an attempt hands the rows on from list to list.
LEMMA DividedStep ==
  ASSUME TypeOK, NEW a \in Attempts, Divided(a), Step(a), csv' = csv
  PROVE  Divided(a)'
  <1>0. run \in [Attempts -> Run] /\ run[a] \in Run
    BY DEF TypeOK
  <1>1. CASE Claim(a)
    <2>1. run'[a].pc = "work"
      BY <1>0, <1>1 DEF Claim, Start
    <2> QED
      BY <2>1, DividedKept
  <1>2. CASE FindImported(a)
    <2>1. run'[a].counts = run[a].counts /\ run'[a].pc = "detect"
          /\ run'[a].resumed = {r \in Valid(a) : Imported(r)}
      BY <1>0, <1>2 DEF FindImported, Run
    <2>2. Valid(a)' = Valid(a)
      BY <2>1 DEF Valid, Batch
    <2> QED
      BY <2>1, <2>2 DEF Divided, Writing
  <1>3. CASE DetectDuplicates(a)
    <2> DEFINE fresh == Valid(a) \ run[a].resumed
    <2>1. /\ run'[a].counts = run[a].counts /\ run'[a].pc = "count"
          /\ run'[a].resumed = run[a].resumed /\ run[a].pc = "detect"
          /\ run'[a].unique \subseteq fresh
          /\ run'[a].duplicate = fresh \ run'[a].unique
      BY <1>0, <1>3 DEF DetectDuplicates, Run
    <2>2. Valid(a)' = Valid(a)
      BY <2>1 DEF Valid, Batch
    <2> QED
      BY <2>1, <2>2 DEF Divided, Writing
  <1>4. CASE CountOpen(a)
    <2>1. /\ run'[a].counts = run[a].counts /\ run'[a].pc = "persist"
          /\ run'[a].resumed = run[a].resumed /\ run'[a].duplicate = run[a].duplicate
          /\ run'[a].unique \subseteq run[a].unique
          /\ run'[a].overLimit = run[a].unique \ run'[a].unique
          /\ run'[a].insert = run'[a].unique /\ run[a].pc = "count"
      BY <1>0, <1>4 DEF CountOpen, Run
    <2>2. Valid(a)' = Valid(a)
      BY <2>1 DEF Valid, Batch
    <2> QED
      BY <2>1, <2>2 DEF Divided, Writing
  <1>5. CASE InsertListing(a)
    <2>1. /\ run'[a].counts = run[a].counts /\ Writing(a) /\ run'[a].pc = run[a].pc
          /\ run'[a].resumed = run[a].resumed /\ run'[a].unique = run[a].unique
          /\ run'[a].overLimit = run[a].overLimit /\ run'[a].duplicate = run[a].duplicate
          /\ run'[a].insert \subseteq run[a].insert
      BY <1>0, <1>5 DEF InsertListing, Run
    <2>2. Valid(a)' = Valid(a)
      BY <2>1 DEF Valid, Batch
    <2> QED
      BY <2>1, <2>2 DEF Divided, Writing
  <1>6. CASE WriteRejected(a)
    <2>1. /\ run'[a].counts = run[a].counts /\ Writing(a) /\ run'[a].pc = run[a].pc
          /\ run'[a].resumed = run[a].resumed /\ run'[a].unique = run[a].unique
          /\ run'[a].overLimit = run[a].overLimit /\ run'[a].duplicate = run[a].duplicate
          /\ run'[a].insert = run[a].insert
      BY <1>0, <1>6 DEF WriteRejected, Run
    <2>2. Valid(a)' = Valid(a)
      BY <2>1 DEF Valid, Batch
    <2> QED
      BY <2>1, <2>2 DEF Divided, Writing
  <1>7. CASE SaveCheckpoint(a) \/ Complete(a)
    <2>1. run'[a].pc \in {"idle", "work"}
      BY <1>0, <1>7 DEF SaveCheckpoint, Complete, End, NoRun, Start, Run
    <2> QED
      BY <2>1, DividedKept
  <1>8. CASE \/ StopWhenLost(a) \/ InsertRefused(a) \/ HandBack(a) \/ GiveUp(a)
             \/ Release(a) \/ StopWriting(a) \/ Crash(a)
    <2>1. CASE run'[a] = NoRun
      <3>1. run'[a].pc = "idle"
        BY <2>1 DEF NoRun, Start
      <3> QED
        BY <3>1, DividedKept
    <2>2. CASE run'[a] = run[a]
      BY <2>2, DividedKept
    <2>3. ASSUME NEW rest \in {run[a].insert, {}}, Writing(a),
                 run'[a] = [run[a] EXCEPT !.pc = "late", !.insert = rest]
          PROVE  Divided(a)'
      <3>1. /\ run'[a].counts = run[a].counts /\ run'[a].pc = "late"
            /\ run'[a].resumed = run[a].resumed /\ run'[a].unique = run[a].unique
            /\ run'[a].overLimit = run[a].overLimit /\ run'[a].duplicate = run[a].duplicate
            /\ run'[a].insert \subseteq run[a].insert
        BY <1>0, <2>3 DEF Run
      <3>2. Valid(a)' = Valid(a)
        BY <3>1 DEF Valid, Batch
      <3> QED
        BY <2>3, <3>1, <3>2 DEF Divided, Writing
    <2> QED
      BY <1>8, <2>1, <2>2, <2>3, LeaveRuns
  <1> QED
    BY <1>1, <1>2, <1>3, <1>4, <1>5, <1>6, <1>7, <1>8 DEF Step

\* Counters change hands, start at zero, or advance by a batch.
LEMMA CountsStep ==
  ASSUME TypeOK, NEW a \in Attempts, Step(a)
  PROVE  \/ /\ run'[a].counts \in {run[a].counts, saved, Zero}
            /\ saved' \in {saved, run[a].counts}
         \/ /\ SaveCheckpoint(a)
            /\ run'[a].counts = Advanced(a) /\ saved' = Advanced(a)
  <1>0. run \in [Attempts -> Run] /\ run[a] \in Run /\ NoRun.counts = Zero
    BY DEF TypeOK, NoRun, Start
  <1>1. CASE Claim(a)
    BY <1>0, <1>1 DEF Claim, Start
  <1>2. CASE FindImported(a) \/ DetectDuplicates(a)
    <2>1. CASE FindImported(a)
      BY <1>0, <2>1 DEF FindImported, job, Run
    <2>2. CASE DetectDuplicates(a)
      <3>1. run'[a].counts = run[a].counts /\ saved' = saved
        BY <1>0, <2>2 DEF DetectDuplicates, job, Run
      <3> QED
        BY <3>1
    <2> QED
      BY <1>2, <2>1, <2>2
  <1>3. CASE CountOpen(a)
    BY <1>0, <1>3 DEF CountOpen, job, Run
  <1>4. CASE InsertListing(a) \/ WriteRejected(a)
    BY <1>0, <1>4 DEF InsertListing, WriteRejected, job, Run
  <1>5. CASE SaveCheckpoint(a)
    BY <1>0, <1>5 DEF SaveCheckpoint, End, Run
  <1>6. CASE Complete(a)
    BY <1>0, <1>6 DEF Complete, End, job
  <1>7. CASE \/ StopWhenLost(a) \/ InsertRefused(a) \/ HandBack(a) \/ GiveUp(a)
             \/ Release(a) \/ StopWriting(a) \/ Crash(a)
    <2>1. saved' = saved
      BY <1>7 DEF StopWhenLost, InsertRefused, HandBack, GiveUp, Release, StopWriting, Crash,
                  Leave, job
    <2>2. ASSUME NEW rest, run'[a] = [run[a] EXCEPT !.pc = "late", !.insert = rest]
          PROVE  run'[a].counts = run[a].counts
      BY <1>0, <2>2 DEF Run
    <2>3. run'[a].counts \in {run[a].counts, Zero}
      BY <1>0, <1>7, <2>2, LeaveRuns
    <2> QED
      BY <2>1, <2>3
  <1> QED
    BY <1>1, <1>2, <1>3, <1>4, <1>5, <1>6, <1>7 DEF Step

\* TallyInv is inductive.
LEMMA TallyStep ==
  ASSUME TallyInv, [Next]_vars
  PROVE  TallyInv'
  <1>1. ImportInv /\ TypeOK /\ ImportInv'
    BY ImportStep DEF TallyInv, ImportInv
  <1>2. Growing
    BY <1>1, NextGrows DEF Growing, vars, job
  \* Counters known before are tallied still.
  <1>3. ASSUME NEW c \in {saved, Zero} \cup {run[a].counts : a \in Attempts}
        PROVE  Tallied(c)'
    <2>1. c \in Counts /\ c.processed <= RowCount
      BY <1>1, SizesAssumption DEF ImportInv, TypeOK, Run, AttemptOK, Zero, Counts
    <2>2. Tallied(c)
      BY TallyZero DEF TallyInv
    <2> QED
      BY <1>1, <1>2, <2>1, <2>2, TallyGrows
  <1>4. ASSUME NEW a \in Attempts, run'[a] = run[a]
        PROVE  (Tallied(run[a].counts) /\ Divided(a))'
    <2>1. PICK c : c = run[a].counts
      OBVIOUS
    <2>2. Tallied(c)' /\ c = run'[a].counts
      BY <1>3, <1>4, <2>1
    <2>3. Tallied(run[a].counts)'
      BY <2>2 DEF Tallied
    <2>4. Divided(a)'
      BY <1>2, <1>4, DividedKept DEF Growing, TallyInv
    <2> QED
      BY <2>3, <2>4
  <1>5. ASSUME saved' = saved
        PROVE  Tallied(saved)'
    <2>1. PICK c : c = saved
      OBVIOUS
    <2>2. Tallied(c)' /\ c = saved'
      BY <1>3, <1>5, <2>1
    <2> QED
      BY <2>2 DEF Tallied
  <1>6. ASSUME NEW a \in Attempts, Step(a) PROVE TallyInv'
    <2>1. ASSUME NEW b \in Attempts, b # a PROVE (Tallied(run[b].counts) /\ Divided(b))'
      BY <1>1, <1>4, <1>6, <2>1, OneMoves
    <2>2. Divided(a)'
      BY <1>1, <1>2, <1>6, DividedStep DEF TallyInv, Growing
    <2>3. Tallied(run[a].counts)' /\ Tallied(saved)'
      <3>1. CASE /\ run'[a].counts \in {run[a].counts, saved, Zero}
                 /\ saved' \in {saved, run[a].counts}
        <4>1. PICK c \in {run[a].counts, saved, Zero}, d \in {saved, run[a].counts} :
                c = run'[a].counts /\ d = saved'
          BY <3>1
        <4>2. Tallied(c)' /\ Tallied(d)'
          BY <1>3, <4>1
        <4> QED
          BY <4>1, <4>2 DEF Tallied
      <3>2. CASE /\ SaveCheckpoint(a)
                 /\ run'[a].counts = Advanced(a) /\ saved' = Advanced(a)
        <4>1. Tallied(Advanced(a))
          BY <1>1, <3>2, BatchTally DEF SaveCheckpoint, TallyInv, ImportInv
        <4>2. listings' = listings /\ rejected' = rejected
          BY <3>2 DEF SaveCheckpoint
        <4> HIDE DEF Advanced
        <4> QED
          BY <3>2, <4>1, <4>2 DEF Tallied
      <3> QED
        BY <1>1, <1>6, <3>1, <3>2, CountsStep
    <2> QED
      BY <1>1, <2>1, <2>2, <2>3 DEF TallyInv
  <1>7. CASE run' = run /\ saved' = saved
    BY <1>1, <1>4, <1>5, <1>7 DEF TallyInv
  <1>8. CASE RetryUpload \/ Others \/ UNCHANGED vars
    BY <1>7, <1>8 DEF RetryUpload, Others, CloseListing, OpenListing, CloseImported,
                      ReopenImported, DeleteImported, job, vars
  <1> QED
    BY <1>6, <1>8 DEF Next

\* Nothing is counted at first.
LEMMA TallyInit ==
  ASSUME Init
  PROVE  TallyInv
  <1>1. saved = Zero /\ \A a \in Attempts : run[a].counts = Zero /\ run[a].pc = "idle"
    BY DEF Init, NoRun, Start
  <1> QED
    BY <1>1, ImportInit, TallyZero DEF TallyInv, Divided, Writing

-----------------------------------------------------------------------------
(* Rows in order. *)

\* A set of numbers with a member has a smallest one.
LEMMA Smallest ==
  ASSUME NEW S \in SUBSET Nat, S # {}
  PROVE  \E n \in S : \A m \in S : n <= m
  <1> DEFINE R == OpToRel(<, Nat)
  <1>1. IsWellFoundedOn(R, Nat)
    BY NatLessThanWellFounded, Zenon
  <1>2. \A x, y \in Nat : x < y => <<x, y>> \in R
    BY DEF OpToRel
  <1> HIDE DEF R
  <1>3. PICK x \in S : \A y \in S : ~(<<y, x>> \in R)
    BY <1>1, WFMin, Zenon
  <1>4. \A y \in S : ~(y < x)
    BY <1>2, <1>3
  <1>5. \A y \in S : x <= y
    BY <1>4
  <1> QED
    BY <1>5

\* Rows are numbers.
LEMMA RowNumbers ==
  /\ Rows \subseteq Nat
  /\ \A q \in Rows : \A r \in Rows : (q <= r <=> ~(r < q)) /\ (q = r \/ q < r \/ r < q)
  /\ \A q \in Rows : ~(q < q)
  /\ \A q \in Rows : \A r \in Rows : \A s \in Rows : q < r /\ r < s => q < s
  BY SizesAssumption DEF Rows

\* First finds the first row.
LEMMA FirstRow ==
  ASSUME NEW S \in SUBSET Rows, S # {}
  PROVE  First(S) \in S /\ \A q \in S : ~(q < First(S))
  <1>1. PICK n \in S : \A m \in S : n <= m
    BY RowNumbers, Smallest
  <1>2. Before(n, S) = {}
    BY <1>1, RowNumbers DEF Before
  <1>3. First(S) \in S /\ Before(First(S), S) = {}
    BY <1>2 DEF First
  <1> HIDE DEF First
  <1> QED
    BY <1>3 DEF Before

\* Every plate of the file has a first row.
LEMMA FirstOfPlate ==
  ASSUME NEW r \in Rows, csv[r] # Invalid
  PROVE  \E w \in Firsts : w <= r /\ csv[w] = csv[r]
  <1> DEFINE S == {q \in Rows : csv[q] = csv[r]}
  <1>1. PICK w \in S : \A m \in S : w <= m
    BY RowNumbers, Smallest
  <1>2. \A q \in Rows : q < w => csv[q] # csv[w]
    BY <1>1, RowNumbers
  <1> QED
    BY <1>1, <1>2 DEF Firsts

\* And only one.
LEMMA OnePerPlate ==
  ASSUME NEW q \in Firsts, NEW r \in Firsts, csv[q] = csv[r]
  PROVE  q = r
  BY RowNumbers DEF Firsts

\* Before a chosen row every first row is chosen.
LEMMA ChosenBelow ==
  ASSUME NEW r \in Chosen, NEW w \in Firsts, w < r
  PROVE  w \in Chosen
  <1>1. Before(r, Firsts) \in SUBSET Rows /\ Before(w, Firsts) \in SUBSET Before(r, Firsts)
    BY RowNumbers DEF Before, Firsts, Chosen
  <1>2. Cardinality(Before(w, Firsts)) <= Cardinality(Before(r, Firsts))
    BY <1>1, FewerRows
  <1>3. Cardinality(Before(w, Firsts)) \in Nat /\ Cardinality(Before(r, Firsts)) \in Nat
    BY <1>1, RowSets
  <1>4. Cardinality(Before(r, Firsts)) < Limit
    BY DEF Chosen
  <1> QED
    BY <1>2, <1>3, <1>4, SizesAssumption DEF Chosen

\* No more rows are chosen than the limit allows.
LEMMA ChosenFew == Cardinality(Chosen) <= Limit
  <1> DEFINE U == {n \in Nat : \A r \in Chosen : r <= n}
  <1>1. Chosen \in SUBSET Rows /\ Firsts \in SUBSET Rows
    BY DEF Chosen, Firsts
  <1>2. CASE Chosen = {}
    BY <1>2, FS_EmptySet, SizesAssumption
  <1>3. CASE Chosen # {}
    <2>1. RowCount \in U
      BY <1>1, SizesAssumption DEF Rows
    <2>2. PICK g \in U : \A n \in U : g <= n
      BY <2>1, Smallest
    <2>3. g \in Chosen
      <3>1. SUFFICES ASSUME g \notin Chosen PROVE FALSE
        OBVIOUS
      <3>2. PICK r \in Chosen : TRUE
        BY <1>3
      <3>3. \A q \in Chosen : q <= g - 1
        BY <1>1, <2>2, <3>1, RowNumbers
      <3>4. r \in Nat /\ 1 <= r /\ r <= g - 1
        BY <1>1, <3>3, SizesAssumption DEF Rows
      <3>5. g - 1 \in U
        BY <2>2, <3>3, <3>4
      <3> QED
        BY <2>2, <3>5
    <2> DEFINE B == Before(g, Firsts)
    <2>4. Chosen \in SUBSET (B \cup {g}) /\ B \in SUBSET Rows /\ {g} \in SUBSET Rows
          /\ B \cap {g} = {} /\ B \cup {g} \in SUBSET Rows
      <3>1. \A x \in Chosen : x \in Firsts /\ x \in Rows /\ (x < g \/ x = g)
        BY <1>1, <2>2, <2>3, RowNumbers DEF Chosen
      <3>2. g \in Rows /\ ~(g < g)
        BY <1>1, <2>3, RowNumbers
      <3> HIDE DEF U
      <3> QED
        BY <1>1, <3>1, <3>2 DEF Before
    <2>5. Cardinality(B) < Limit
      BY <2>3 DEF Chosen
    <2> HIDE DEF B, U
    <2>6. Cardinality(B \cup {g}) = Cardinality(B) + Cardinality({g})
      BY <2>4, TwoSets
    <2>7. Cardinality({g}) = 1
      BY FS_Singleton
    <2>8. Cardinality(Chosen) <= Cardinality(B \cup {g})
      BY <2>4, FewerRows
    <2>9. Cardinality(B) \in Nat /\ Cardinality(Chosen) \in Nat
      BY <1>1, <2>4, RowSets
    <2> QED
      BY <2>5, <2>6, <2>7, <2>8, <2>9, SizesAssumption
  <1> QED
    BY <1>2, <1>3

\* If a first row is not chosen, the limit is reached by chosen rows before it.
LEMMA ChosenFull ==
  ASSUME NEW w \in Firsts, w \notin Chosen
  PROVE  \E T \in SUBSET Chosen : Cardinality(T) >= Limit /\ \A x \in T : x < w
  <1>1. Firsts \in SUBSET Rows
    BY DEF Firsts
  <1>2. PICK v \in Firsts \ Chosen : \A m \in Firsts \ Chosen : v <= m
    BY <1>1, RowNumbers, Smallest
  <1>3. Before(v, Firsts) \in SUBSET Chosen
    BY <1>1, <1>2, RowNumbers DEF Before
  <1>4. Cardinality(Before(v, Firsts)) >= Limit
    <2>1. ~(Cardinality(Before(v, Firsts)) < Limit)
      BY <1>2 DEF Chosen
    <2>2. Before(v, Firsts) \in SUBSET Rows
      BY <1>1 DEF Before
    <2>3. Cardinality(Before(v, Firsts)) \in Nat
      BY <2>2, RowSets
    <2> QED
      BY <2>1, <2>3, SizesAssumption
  <1>5. v <= w
    BY <1>2
  <1>6. \A x \in Before(v, Firsts) : x < w
    BY <1>1, <1>2, <1>5, RowNumbers DEF Before
  <1> QED
    BY <1>3, <1>4, <1>6

-----------------------------------------------------------------------------
(* What the queries of an attempt find while nobody interferes. *)

\* Plates are listed by imported rows only.
LEMMA PlatesListed ==
  ASSUME Untouched
  PROVE  \A p : p \in ListedPlates <=> \E q \in Listed : csv[q] = p
  BY DEF Untouched, ListedPlates, Listed

\* The dealer's open listings are the imported rows.
LEMMA OpenAreListed ==
  ASSUME Untouched
  PROVE  OwnOpen = Cardinality(Listed) /\ OwnOpen \in Nat
  <1>1. {p \in Plates : elsewhere[p] = "own"} = {}
    BY DEF Untouched
  <1>2. {r \in Rows : listings[r] = "open"} = Listed
    BY DEF Untouched, Listed
  <1>3. Cardinality({p \in Plates : elsewhere[p] = "own"}) = 0
    BY <1>1, FS_EmptySet
  <1>4. Listed \in SUBSET Rows
    BY DEF Listed
  <1>5. Cardinality(Listed) \in Nat
    BY <1>4, RowSets
  <1> QED
    BY <1>2, <1>3, <1>5 DEF OwnOpen

\* A chosen row up to the end of the batch is imported already, or it is on the
\* attempt's list of rows to import.
LEMMA ChosenAreKnown ==
  ASSUME TypeOK, InOrder, NEW a \in Attempts, AttemptOK(a), Sorted(a), NEW x \in Chosen,
         x <= run[a].counts.processed + BatchSize
  PROVE  /\ run[a].pc = "count" => x \in Listed \cup run[a].unique
         /\ Writing(a) /\ run[a].insert # {} => x \in Listed \cup run[a].insert
  <1>1. run[a].counts.processed \in Nat /\ x \in Rows /\ x \in Nat /\ 1 <= x /\ csv[x] # Invalid
    BY SizesAssumption DEF TypeOK, Run, Counts, Chosen, Firsts, Rows
  <1>2. CASE x <= run[a].counts.processed
    <2>1. Decided(x)
      BY <1>1, <1>2 DEF AttemptOK
    <2> QED
      BY <1>1, <2>1 DEF Decided, InOrder, Listed
  <1>3. CASE ~(x <= run[a].counts.processed)
    <2>1. x \in Valid(a)
      BY <1>1, <1>3 DEF Valid, Batch
    <2>2. CASE run[a].pc = "count"
      BY <1>1, <2>1, <2>2 DEF AttemptOK, Sorted, Listed, Writing
    <2>3. CASE Writing(a) /\ run[a].insert # {}
      BY <1>1, <2>1, <2>3 DEF AttemptOK, Sorted, Listed, Writing
    <2> QED
      BY <2>2, <2>3
  <1> QED
    BY <1>2, <1>3

\* Counting finds the chosen ones among the unique rows: room is left for a row
\* exactly when it is chosen.
LEMMA RoomForChosen ==
  ASSUME TypeOK, Untouched, InOrder, NEW a \in Attempts, AttemptOK(a), Divided(a), Sorted(a),
         run[a].pc = "count", NEW r \in run[a].unique
  PROVE  r \in Chosen <=> Cardinality(Before(r, run[a].unique)) + OwnOpen < Limit
  <1> DEFINE unique == run[a].unique
             B == Before(r, unique)
  <1>1. /\ unique \in SUBSET Rows /\ Listed \in SUBSET Rows /\ Chosen \in SUBSET Firsts
        /\ Firsts \in SUBSET Rows /\ B \in SUBSET unique /\ B \in SUBSET Rows
    BY DEF TypeOK, Run, Listed, Chosen, Firsts, Before
  <1>2. \A u \in unique : u \in Valid(a) /\ u <= run[a].counts.processed + BatchSize /\ csv[u] # Invalid
    BY DEF Divided, Valid, Batch
  <1>3. unique \cap Listed = {}
    BY PlatesListed DEF Sorted
  <1>4. OwnOpen = Cardinality(Listed)
    BY OpenAreListed
  <1>5. Cardinality(B \cup Listed) = Cardinality(B) + Cardinality(Listed)
    <2>1. B \cap Listed = {}
      BY <1>1, <1>3
    <2> HIDE DEF B
    <2> QED
      BY <1>1, <2>1, TwoSets
  <1>6. Cardinality(B \cup Listed) \in Nat /\ B \cup Listed \in SUBSET Rows
    <2>1. B \cup Listed \in SUBSET Rows
      BY <1>1
    <2> HIDE DEF B
    <2> QED
      BY <2>1, RowSets
  <1>7. run[a].counts.processed + BatchSize \in Nat
    BY SizesAssumption DEF TypeOK, Run, Counts
  <1>8. ASSUME r \in Chosen
        PROVE  Cardinality(B \cup Listed) < Limit
    <2>1. B \subseteq Firsts
      <3>1. SUFFICES ASSUME NEW u \in B, u \notin Firsts PROVE FALSE
        OBVIOUS
      <3>2. u \in unique /\ u \in Rows /\ u < r
        BY <1>1 DEF Before
      <3>3. PICK w \in Firsts : w <= u /\ csv[w] = csv[u]
        BY <1>2, <3>2, FirstOfPlate
      <3>4. w \in Rows /\ w # u /\ w < r
        BY <1>1, <3>1, <3>2, <3>3, RowNumbers
      <3>5. w \in Chosen
        BY <1>8, <3>4, ChosenBelow
      <3>6. w <= run[a].counts.processed + BatchSize
        BY <1>1, <1>2, <1>7, <3>2, <3>3, <3>4, RowNumbers
      <3>7. w \in Listed \cup unique
        BY <3>5, <3>6, ChosenAreKnown
      <3> QED
        BY <3>2, <3>3, <3>4, <3>7, PlatesListed DEF Sorted
    <2>2. \A x \in Listed : x \in Firsts /\ x < r
      <3>1. SUFFICES ASSUME NEW x \in Listed PROVE x \in Firsts /\ x < r
        OBVIOUS
      <3>2. x \in Chosen /\ x # r /\ r \notin Listed
        BY <1>3 DEF InOrder
      <3>3. ~(r < x)
        BY <1>8, <3>2 DEF InOrder
      <3> QED
        BY <1>1, <3>2, <3>3, RowNumbers
    <2>3. B \cup Listed \in SUBSET Before(r, Firsts)
      BY <1>1, <2>1, <2>2 DEF Before
    <2>4. Before(r, Firsts) \in SUBSET Rows
      BY <1>1 DEF Before
    <2>5. Cardinality(Before(r, Firsts)) < Limit /\ Cardinality(Before(r, Firsts)) \in Nat
      BY <1>8, <2>4, RowSets DEF Chosen
    <2> HIDE DEF B
    <2>6. Cardinality(B \cup Listed) <= Cardinality(Before(r, Firsts))
      BY <2>3, <2>4, FewerRows
    <2> QED
      BY <1>6, <2>5, <2>6, SizesAssumption
  <1>9. ASSUME r \notin Chosen
        PROVE  Cardinality(B \cup Listed) >= Limit
    <2>1. PICK w \in Firsts : w <= r /\ csv[w] = csv[r]
      BY <1>1, <1>2, FirstOfPlate
    <2>2. w \notin Chosen
      <3>1. SUFFICES ASSUME w \in Chosen PROVE FALSE
        OBVIOUS
      <3>2. w <= run[a].counts.processed + BatchSize
        <4>1. w \in Nat /\ r \in Nat /\ w <= r /\ r <= run[a].counts.processed + BatchSize
          BY <1>1, <1>2, <2>1, RowNumbers
        <4> QED
          BY <1>7, <4>1
      <3>3. w \in Listed \cup unique
        BY <3>1, <3>2, ChosenAreKnown
      <3> QED
        BY <1>9, <2>1, <3>1, <3>3, PlatesListed DEF Sorted
    <2>3. PICK T \in SUBSET Chosen : Cardinality(T) >= Limit /\ \A x \in T : x < w
      BY <2>2, ChosenFull
    <2>4. T \in SUBSET (B \cup Listed)
      <3>1. SUFFICES ASSUME NEW x \in T PROVE x \in B \cup Listed
        OBVIOUS
      <3>2. x \in Rows /\ x < r /\ x <= run[a].counts.processed + BatchSize
        <4>1. x \in Nat /\ w \in Nat /\ r \in Nat /\ x < w /\ w <= r
              /\ r <= run[a].counts.processed + BatchSize /\ x \in Rows
          BY <1>1, <1>2, <2>1, <2>3, RowNumbers
        <4> QED
          BY <1>7, <4>1
      <3>3. x \in Listed \cup unique
        BY <2>3, <3>2, ChosenAreKnown
      <3> QED
        BY <3>2, <3>3 DEF Before
    <2> HIDE DEF B
    <2>5. T \in SUBSET Rows
      BY <1>1
    <2>6. Cardinality(T) <= Cardinality(B \cup Listed) /\ Cardinality(T) \in Nat
      BY <1>6, <2>4, <2>5, FewerRows, RowSets
    <2> QED
      BY <1>6, <2>3, <2>6, SizesAssumption
  <1> QED
    BY <1>4, <1>5, <1>6, <1>8, <1>9, SizesAssumption

-----------------------------------------------------------------------------
(* The steps, while nobody interferes. *)

\* Whoever overlaps or interferes leaves a mark for good.
LEMMA MarkStays ==
  ASSUME TypeOK, Next, ~disturbed'
  PROVE  ~disturbed /\ (RetryUpload \/ \E a \in Attempts : Step(a))
  <1>1. ~Others
    BY DEF Others, CloseListing, OpenListing, CloseImported, ReopenImported, DeleteImported,
           Disturbs
  <1>2. CASE RetryUpload
    BY <1>2 DEF RetryUpload, Event
  <1>3. ASSUME NEW a \in Attempts, Step(a) PROVE ~disturbed
    BY <1>3 DEF Step, Claim, FindImported, DetectDuplicates, CountOpen, InsertListing,
                WriteRejected, SaveCheckpoint, Complete, StopWhenLost, InsertRefused, HandBack,
                GiveUp, Release, StopWriting, Crash, NoEvent, Event, Disturbs
  <1> QED
    BY <1>1, <1>2, <1>3 DEF Next

\* What is chosen only depends on the file.
LEMMA ChosenStays ==
  ASSUME csv' = csv
  PROVE  Firsts' = Firsts /\ Chosen' = Chosen
  <1>1. Firsts' = Firsts
    BY DEF Firsts
  <1> QED
    BY <1>1 DEF Chosen, Before

\* One attempt works at a time, and listings are only opened.
LEMMA UntouchedStep ==
  ASSUME TypeOK, Untouched, NEW a \in Attempts, Step(a), ~disturbed'
  PROVE  Untouched' /\ \A b \in Attempts : b # a => run'[b].pc = "idle"
  <1>0. listings \in [Rows -> {"none", "open", "closed", "deleted"}]
    BY DEF TypeOK
  <1>1. \A b \in Attempts : b # a => run'[b] = run[b]
    BY OneMoves
  <1>2. \A b \in Attempts : b # a => run[b].pc = "idle"
    <2>1. CASE run[a].pc # "idle"
      BY <2>1 DEF Untouched
    <2>2. CASE Claim(a)
      BY <2>2 DEF Claim, Disturbs, Alone
    <2>3. run[a].pc # "idle" \/ Claim(a)
      BY DEF Step, FindImported, DetectDuplicates, CountOpen, InsertListing,
             WriteRejected, SaveCheckpoint, Complete, StopWhenLost, InsertRefused, HandBack,
             GiveUp, Release, StopWriting, Crash, Writing
    <2> QED
      BY <2>1, <2>2, <2>3
  <1>3. elsewhere' = elsewhere /\ \A r \in Rows : listings'[r] \in {listings[r], "open"}
    <2>1. CASE InsertListing(a)
      BY <1>0, <2>1 DEF InsertListing
    <2>2. CASE ~InsertListing(a)
      BY <2>2 DEF Step, Claim, FindImported, DetectDuplicates, CountOpen,
             WriteRejected, SaveCheckpoint, Complete, StopWhenLost, InsertRefused, HandBack,
             GiveUp, Release, StopWriting, Crash, Leave
    <2> QED
      BY <2>1, <2>2
  <1> QED
    BY <1>1, <1>2, <1>3 DEF Untouched

\* Rows are imported in order, and only chosen ones; only others are rejected.
LEMMA InOrderStep ==
  ASSUME TypeOK, InOrder, NEW a \in Attempts, AttemptOK(a), Divided(a), Sorted(a), Step(a),
         csv' = csv
  PROVE  InOrder'
  <1>0. /\ run[a] \in Run /\ listings \in [Rows -> {"none", "open", "closed", "deleted"}]
        /\ Chosen' = Chosen /\ Chosen \subseteq Rows
        /\ \A r \in Chosen : csv[r] # Invalid
    BY ChosenStays DEF TypeOK, Chosen, Firsts
  <1>1. CASE InsertListing(a)
    <2> DEFINE r0 == First(run[a].insert)
    <2>1. /\ Writing(a) /\ run[a].insert # {} /\ rejected' = rejected
          /\ listings' = [listings EXCEPT ![r0] = "open"]
      BY <1>1 DEF InsertListing
    <2>2. run[a].insert \in SUBSET Rows
      BY <1>0 DEF Run
    <2>3. r0 \in run[a].insert /\ \A q \in run[a].insert : ~(q < r0)
      BY <2>1, <2>2, FirstRow
    <2> HIDE DEF r0
    <2>4. r0 \in Chosen /\ r0 \in Batch(a) /\ r0 \in Rows
      BY <1>0, <2>1, <2>3 DEF Sorted, Divided, Valid
    <2>5. Listed' = Listed \cup {r0}
      BY <1>0, <2>1, <2>4 DEF Listed
    <2>6. ASSUME NEW q \in Chosen, q < r0 PROVE q \in Listed
      <3>1. q <= run[a].counts.processed + BatchSize
        <4>1. r0 <= run[a].counts.processed + BatchSize /\ q \in Nat /\ r0 \in Nat
          BY <1>0, <2>4, RowNumbers DEF Batch
        <4>2. run[a].counts.processed + BatchSize \in Nat
          BY <1>0, SizesAssumption DEF Run, Counts
        <4> QED
          BY <2>6, <4>1, <4>2
      <3>2. q \in Listed \cup run[a].insert
        BY <2>1, <3>1, ChosenAreKnown
      <3> QED
        BY <2>3, <2>6, <3>2
    <2> QED
      BY <1>0, <2>1, <2>4, <2>5, <2>6 DEF InOrder
  <1>2. CASE ~InsertListing(a)
    <2>1. Listed' = Listed
      BY <1>2 DEF Listed, Step, Claim, FindImported, DetectDuplicates, CountOpen,
             WriteRejected, SaveCheckpoint, Complete, StopWhenLost, InsertRefused, HandBack,
             GiveUp, Release, StopWriting, Crash, Leave
    <2>2. ASSUME NEW r \in Chosen PROVE rejected'[r] = "none"
      <3>1. \/ rejected'[r] = rejected[r]
            \/ Writing(a) /\ rejected'[r] = Recorded(a)[r]
        BY <1>0, <1>2 DEF Step, Claim, FindImported, DetectDuplicates, CountOpen,
             WriteRejected, SaveCheckpoint, Complete, StopWhenLost, InsertRefused, HandBack,
             GiveUp, Release, StopWriting, Crash, Leave, PerhapsRecorded
      <3>2. rejected[r] = "none"
        BY DEF InOrder
      <3>3. CASE Writing(a)
        <4>1. r \notin InvalidRows(a) \cup run[a].overLimit \cup run[a].duplicate
          BY <1>0, <3>3 DEF Sorted, InvalidRows, Valid, Batch
        <4>2. Recorded(a)[r] = "none"
          BY <1>0, <3>2, <4>1 DEF Recorded
        <4> QED
          BY <3>1, <3>2, <4>2
      <3> QED
        BY <3>1, <3>2, <3>3
    <2> QED
      BY <1>0, <2>1, <2>2 DEF InOrder
  <1> QED
    BY <1>1, <1>2

\* An attempt sorts as was chosen.
LEMMA SortedStep ==
  ASSUME TypeOK, Untouched, InOrder, NEW a \in Attempts, AttemptOK(a), Divided(a), Sorted(a),
         Step(a), csv' = csv
  PROVE  Sorted(a)'
  <1>0. /\ run \in [Attempts -> Run] /\ run[a] \in Run /\ Chosen' = Chosen /\ NoRun.pc = "idle"
        /\ csv \in [Rows -> Plates \cup {Invalid}]
        /\ listings \in [Rows -> {"none", "open", "closed", "deleted"}]
    BY ChosenStays DEF TypeOK, NoRun
  <1>1. CASE Claim(a)
    <2>1. run'[a].pc = "work" /\ run'[a].seen = {}
      BY <1>0, <1>1 DEF Claim, Start
    <2> QED
      BY <2>1 DEF Sorted, Writing
  <1>2. CASE FindImported(a)
    <2> DEFINE resumed == {r \in Valid(a) : Imported(r)}
    <2>1. /\ run'[a].counts = run[a].counts /\ run'[a].pc = "detect" /\ run[a].pc = "work"
          /\ run'[a].resumed = resumed /\ listings' = listings
          /\ run'[a].seen = run[a].seen \cup {csv[r] : r \in resumed}
      BY <1>0, <1>2 DEF FindImported, Run
    <2>2. Valid(a)' = Valid(a) /\ Listed' = Listed
      BY <2>1 DEF Valid, Batch, Listed
    <2>3. Valid(a) \cap Listed \subseteq resumed /\ resumed \subseteq Rows
      BY DEF Untouched, Listed, Imported, Valid, Batch
    <2>4. ASSUME NEW p \in run'[a].seen
          PROVE  \E q \in Rows : csv[q] = p /\ SeenRow(a, q)'
      <3>1. CASE p \in run[a].seen
        <4>1. PICK q \in Rows : csv[q] = p /\ SeenRow(a, q)
          BY <2>1, <3>1 DEF Sorted, Writing
        <4> QED
          BY <2>1, <4>1 DEF SeenRow
      <3>2. CASE p \notin run[a].seen
        <4>1. PICK q \in resumed : csv[q] = p
          BY <2>1, <2>4, <3>2
        <4> QED
          BY <2>1, <2>3, <4>1 DEF SeenRow
      <3> QED
        BY <3>1, <3>2
    <2> HIDE DEF resumed
    <2> QED
      BY <2>1, <2>2, <2>3, <2>4 DEF Sorted, Writing
  <1>3. CASE DetectDuplicates(a)
    <2> DEFINE fresh == Valid(a) \ run[a].resumed
               known == run[a].seen \cup ListedPlates
               unique == {r \in fresh : csv[r] \notin known
                                          /\ \A q \in Before(r, fresh) : csv[q] # csv[r]}
    <2>1. /\ run'[a].counts = run[a].counts /\ run'[a].pc = "count" /\ run[a].pc = "detect"
          /\ run'[a].resumed = run[a].resumed /\ run'[a].unique = unique
          /\ run'[a].duplicate = fresh \ unique
          /\ run'[a].seen = run[a].seen \cup {csv[r] : r \in unique}
          /\ UNCHANGED <<listings, elsewhere>>
      BY <1>0, <1>3 DEF DetectDuplicates, Run
    <2>2. /\ Valid(a)' = Valid(a) /\ Batch(a)' = Batch(a) /\ ListedPlates' = ListedPlates
          /\ fresh \subseteq Rows /\ fresh \subseteq Batch(a)
      BY <2>1 DEF Valid, Batch, ListedPlates
    <2>3. ASSUME NEW p \in run'[a].seen
          PROVE  \E q \in Rows : csv[q] = p /\ SeenRow(a, q)'
      <3>1. CASE p \in run[a].seen
        <4>1. PICK q \in Rows : csv[q] = p /\ SeenRow(a, q)
          BY <2>1, <3>1 DEF Sorted, Writing
        <4>2. run[a].resumed \subseteq Batch(a)
          BY <2>1 DEF Divided, Valid
        <4> QED
          BY <2>1, <2>2, <4>1, <4>2 DEF SeenRow
      <3>2. CASE p \notin run[a].seen
        <4>1. PICK q \in unique : csv[q] = p
          BY <2>1, <2>3, <3>2
        <4> QED
          BY <2>1, <2>2, <4>1 DEF SeenRow
      <3> QED
        BY <3>1, <3>2
    <2>4. ASSUME NEW r \in unique
          PROVE  csv[r] \notin ListedPlates /\ \A q \in unique : csv[q] = csv[r] => q = r
      BY <2>2, RowNumbers DEF Before
    <2>5. ASSUME NEW r \in fresh, r \notin unique, r \in Chosen PROVE FALSE
      <3>1. /\ r \in Rows /\ r \in Firsts /\ r \in Valid(a) /\ r \notin run[a].resumed
            /\ ~(r <= run[a].counts.processed) /\ r \notin Listed
        <4>1. r \in Batch(a) /\ r \in Firsts /\ r \in Valid(a) /\ r \notin run[a].resumed
          <5>1. r \in Valid(a) /\ r \notin run[a].resumed
            OBVIOUS
          <5>2. r \in Firsts
            BY <2>5 DEF Chosen
          <5>3. r \in Batch(a)
            BY <5>1 DEF Valid
          <5> QED
            BY <5>1, <5>2, <5>3
        <4>2. r \in Nat /\ run[a].counts.processed \in Nat /\ run[a].counts.processed < r
          BY <1>0, <4>1, RowNumbers DEF Batch, Run, Counts
        <4> QED
          BY <2>1, <4>1, <4>2, RowNumbers DEF Batch, Sorted
      <3>2. ASSUME NEW q \in Listed, csv[q] = csv[r] PROVE FALSE
        <4>1. q \in Firsts
          BY DEF InOrder, Chosen
        <4> QED
          BY <3>1, <3>2, <4>1, OnePerPlate
      <3>3. ASSUME NEW q \in Rows, q < r, csv[q] = csv[r] PROVE FALSE
        BY <3>1, <3>3 DEF Firsts
      <3>4. CASE csv[r] \in ListedPlates
        BY <3>2, <3>4, PlatesListed
      <3>5. CASE csv[r] \in run[a].seen
        <4>1. PICK q \in Rows : csv[q] = csv[r] /\ SeenRow(a, q)
          BY <2>1, <3>5 DEF Sorted, Writing
        <4>2. CASE q <= run[a].counts.processed
          <5>1. q \in Nat /\ r \in Nat /\ run[a].counts.processed \in Nat
            BY <1>0, <3>1, RowNumbers DEF Run, Counts
          <5>2. q < r
            BY <3>1, <4>2, <5>1
          <5> QED
            BY <3>3, <4>1, <5>2
        <4>3. CASE q \in run[a].resumed
          BY <2>1, <3>2, <4>1, <4>3 DEF AttemptOK, Listed
        <4> QED
          BY <2>1, <4>1, <4>2, <4>3 DEF SeenRow
      <3>6. CASE \E q \in Before(r, fresh) : csv[q] = csv[r]
        BY <2>2, <3>3, <3>6 DEF Before
      <3> QED
        BY <2>5, <3>4, <3>5, <3>6
    <2> HIDE DEF fresh, known, unique
    <2> QED
      BY <1>0, <2>1, <2>2, <2>3, <2>4, <2>5 DEF Sorted, Writing
  <1>4. CASE CountOpen(a)
    <2> DEFINE unique == run[a].unique
               remaining == IF OwnOpen < Limit THEN Limit - OwnOpen ELSE 0
               kept == {r \in unique : Cardinality(Before(r, unique)) < remaining}
    <2>1. /\ run'[a].counts = run[a].counts /\ run'[a].pc = "persist" /\ run[a].pc = "count"
          /\ run'[a].resumed = run[a].resumed /\ run'[a].duplicate = run[a].duplicate
          /\ run'[a].unique = kept /\ run'[a].overLimit = unique \ kept
          /\ run'[a].insert = kept /\ run'[a].seen = run[a].seen
          /\ UNCHANGED <<listings, elsewhere>>
      BY <1>0, <1>4 DEF CountOpen, Run
    <2>2. Batch(a)' = Batch(a) /\ Listed' = Listed
      BY <2>1 DEF Batch, Listed
    <2>3. ASSUME NEW r \in unique PROVE r \in kept <=> r \in Chosen
      <3>1. r \in Chosen <=> Cardinality(Before(r, unique)) + OwnOpen < Limit
        BY <2>1, RoomForChosen
      <3>2. Before(r, unique) \in SUBSET Rows
        BY <1>0 DEF Before, Run
      <3>3. Cardinality(Before(r, unique)) \in Nat /\ OwnOpen \in Nat
        BY <3>2, RowSets, OpenAreListed
      <3>4. Cardinality(Before(r, unique)) < remaining
              <=> Cardinality(Before(r, unique)) + OwnOpen < Limit
        BY <3>3, SizesAssumption
      <3> QED
        BY <3>1, <3>4
    <2>4. unique \cap Listed = {}
      BY <2>1, PlatesListed DEF Sorted, Writing
    <2>5. kept \subseteq unique
      OBVIOUS
    <2> HIDE DEF remaining, kept
    <2>6. ASSUME NEW p \in run'[a].seen
          PROVE  \E q \in Rows : csv[q] = p /\ SeenRow(a, q)'
      BY <2>1, <2>2 DEF Sorted, SeenRow, Writing
    <2> QED
      BY <1>0, <2>1, <2>2, <2>3, <2>4, <2>5, <2>6 DEF Sorted, Writing
  <1>5. CASE InsertListing(a)
    <2> DEFINE r0 == First(run[a].insert)
    <2>1. /\ run'[a].counts = run[a].counts /\ Writing(a) /\ run'[a].pc = run[a].pc
          /\ run'[a].unique = run[a].unique /\ run'[a].seen = run[a].seen
          /\ run'[a].overLimit = run[a].overLimit /\ run'[a].duplicate = run[a].duplicate
          /\ run'[a].insert = run[a].insert \ {r0}
          /\ listings' = [listings EXCEPT ![r0] = "open"]
      BY <1>0, <1>5 DEF InsertListing, Run
    <2> HIDE DEF r0
    <2>2. Batch(a)' = Batch(a) /\ Listed' \subseteq Listed \cup {r0}
      BY <1>0, <2>1 DEF Batch, Listed
    <2>3. ASSUME NEW p \in run'[a].seen
          PROVE  \E q \in Rows : csv[q] = p /\ SeenRow(a, q)'
      BY <2>1, <2>2 DEF Sorted, SeenRow, Writing
    <2> QED
      BY <1>0, <2>1, <2>2, <2>3 DEF Sorted, Writing
  <1>6. CASE WriteRejected(a)
    <2>1. /\ run'[a].counts = run[a].counts /\ Writing(a) /\ run'[a].pc = run[a].pc
          /\ run'[a].unique = run[a].unique /\ run'[a].seen = run[a].seen
          /\ run'[a].overLimit = run[a].overLimit /\ run'[a].duplicate = run[a].duplicate
          /\ run'[a].insert = run[a].insert /\ listings' = listings
      BY <1>0, <1>6 DEF WriteRejected, Run
    <2>2. Batch(a)' = Batch(a) /\ Listed' = Listed
      BY <2>1 DEF Batch, Listed
    <2>3. ASSUME NEW p \in run'[a].seen
          PROVE  \E q \in Rows : csv[q] = p /\ SeenRow(a, q)'
      BY <2>1, <2>2 DEF Sorted, SeenRow, Writing
    <2> QED
      BY <1>0, <2>1, <2>2, <2>3 DEF Sorted, Writing
  <1>7. CASE SaveCheckpoint(a)
    <2>1. CASE Holds(a)
      <3>1. /\ run'[a].pc = "work" /\ run'[a].counts = Advanced(a) /\ run[a].pc = "persist"
            /\ run'[a].seen = run[a].seen
        BY <1>0, <1>7, <2>1 DEF SaveCheckpoint, Run
      <3>2. /\ run[a].counts.processed <= Advanced(a).processed
            /\ Batch(a) \subseteq 1..Advanced(a).processed
            /\ Advanced(a).processed \in Nat /\ run[a].counts.processed \in Nat
        BY <1>0, BatchEnd DEF AttemptOK, Counts, Run
      <3>3. ASSUME NEW p \in run'[a].seen
            PROVE  \E q \in Rows : csv[q] = p /\ SeenRow(a, q)'
        <4>1. PICK q \in Rows : csv[q] = p /\ SeenRow(a, q)
          BY <3>1 DEF Sorted, Writing
        <4>2. q \in Nat
          BY RowNumbers
        <4>3. q <= run[a].counts.processed \/ q \in Batch(a)
          BY <3>1, <4>1 DEF SeenRow
        <4> HIDE DEF Advanced
        <4>4. q <= Advanced(a).processed
          BY <3>2, <4>2, <4>3
        <4> QED
          BY <3>1, <4>1, <4>4 DEF SeenRow
      <3> QED
        BY <1>0, <3>1, <3>3 DEF Sorted, Writing
    <2>2. CASE ~Holds(a)
      <3>1. run'[a].pc = "idle"
        BY <1>0, <1>7, <2>2 DEF SaveCheckpoint, End
      <3> QED
        BY <3>1 DEF Sorted, Writing
    <2> QED
      BY <2>1, <2>2
  <1>8. CASE Complete(a)
    <2>1. run'[a].pc = "idle"
      BY <1>0, <1>8 DEF Complete, End
    <2> QED
      BY <2>1 DEF Sorted, Writing
  <1>9. CASE \/ StopWhenLost(a) \/ InsertRefused(a) \/ HandBack(a) \/ GiveUp(a)
             \/ Release(a) \/ StopWriting(a) \/ Crash(a)
    <2>1. UNCHANGED <<listings, elsewhere>>
      BY <1>9 DEF StopWhenLost, InsertRefused, HandBack, GiveUp, Release, StopWriting, Crash, Leave
    <2>2. Listed' = Listed /\ ListedPlates' = ListedPlates
      BY <2>1 DEF Listed, ListedPlates
    <2>3. CASE run'[a] = NoRun
      BY <1>0, <2>3 DEF Sorted, Writing
    <2>4. CASE run'[a] = run[a]
      <3>1. Batch(a)' = Batch(a) /\ Valid(a)' = Valid(a)
        BY <2>4 DEF Batch, Valid
      <3> QED
        BY <1>0, <2>2, <2>4, <3>1 DEF Sorted, SeenRow, Writing
    <2>5. ASSUME NEW rest \in {run[a].insert, {}}, Writing(a),
                 run'[a] = [run[a] EXCEPT !.pc = "late", !.insert = rest]
          PROVE  Sorted(a)'
      <3>1. /\ run'[a].counts = run[a].counts /\ run'[a].pc = "late"
            /\ run'[a].unique = run[a].unique /\ run'[a].seen = run[a].seen
            /\ run'[a].overLimit = run[a].overLimit /\ run'[a].duplicate = run[a].duplicate
            /\ run'[a].insert \subseteq run[a].insert
        BY <1>0, <2>5 DEF Run
      <3>2. Batch(a)' = Batch(a)
        BY <3>1 DEF Batch
      <3>3. ASSUME NEW p \in run'[a].seen
            PROVE  \E q \in Rows : csv[q] = p /\ SeenRow(a, q)'
        BY <2>5, <3>1, <3>2 DEF Sorted, SeenRow, Writing
      <3> QED
        BY <1>0, <2>2, <2>5, <3>1, <3>3 DEF Sorted, Writing
    <2> QED
      BY <1>9, <2>3, <2>4, <2>5, LeaveRuns
  <1> QED
    BY <1>1, <1>2, <1>3, <1>4, <1>5, <1>6, <1>7, <1>8, <1>9 DEF Step

\* ChoiceInv is inductive.
LEMMA ChoiceStep ==
  ASSUME ChoiceInv, [Next]_vars
  PROVE  ChoiceInv'
  <1>1. TallyInv' /\ TallyInv /\ ImportInv /\ TypeOK
    BY TallyStep DEF ChoiceInv, TallyInv, ImportInv
  <1>2. SUFFICES ASSUME ~disturbed' PROVE Untouched' /\ InOrder' /\ \A a \in Attempts : Sorted(a)'
    BY <1>1 DEF ChoiceInv
  <1>3. ASSUME NEW a \in Attempts, Next, Step(a), ~disturbed
        PROVE  Untouched' /\ InOrder' /\ \A b \in Attempts : Sorted(b)'
    <2>1. csv' = csv /\ Untouched /\ InOrder /\ Sorted(a) /\ AttemptOK(a) /\ Divided(a)
      BY <1>1, <1>3, NextGrows DEF Growing, ChoiceInv, TallyInv, ImportInv
    <2>2. Untouched' /\ \A b \in Attempts : b # a => run'[b].pc = "idle"
      BY <1>1, <1>2, <1>3, <2>1, UntouchedStep
    <2>3. InOrder' /\ Sorted(a)'
      BY <1>1, <1>3, <2>1, InOrderStep, SortedStep
    <2> QED
      BY <2>2, <2>3 DEF Sorted, Writing
  <1>4. ASSUME ~disturbed, UNCHANGED <<csv, listings, elsewhere, rejected, run>>
        PROVE  Untouched' /\ InOrder' /\ \A a \in Attempts : Sorted(a)'
    <2>1. Chosen' = Chosen /\ Listed' = Listed /\ ListedPlates' = ListedPlates
      BY <1>4, ChosenStays DEF Listed, ListedPlates
    <2>2. \A a \in Attempts : Batch(a)' = Batch(a) /\ Valid(a)' = Valid(a)
      BY <1>4 DEF Batch, Valid
    <2>3. Untouched' /\ InOrder'
      BY <1>4, <2>1 DEF ChoiceInv, Untouched, InOrder
    <2>4. ASSUME NEW a \in Attempts PROVE Sorted(a)'
      BY <1>4, <2>1, <2>2 DEF ChoiceInv, Sorted, SeenRow, Writing
    <2> QED
      BY <2>3, <2>4
  <1>5. CASE UNCHANGED vars
    BY <1>2, <1>4, <1>5 DEF vars, job
  <1>6. CASE Next
    <2>1. ~disturbed /\ (RetryUpload \/ \E a \in Attempts : Step(a))
      BY <1>1, <1>2, <1>6, MarkStays
    <2>2. CASE RetryUpload
      BY <1>4, <2>1, <2>2 DEF RetryUpload
    <2> QED
      BY <1>3, <1>6, <2>1, <2>2
  <1> QED
    BY <1>5, <1>6

\* Nothing is imported or rejected at first.
LEMMA ChoiceInit ==
  ASSUME Init
  PROVE  ChoiceInv
  <1>1. /\ \A a \in Attempts : run[a].pc = "idle"
        /\ \A p \in Plates : elsewhere[p] = "none"
        /\ \A r \in Rows : listings[r] = "none" /\ rejected[r] = "none"
    <2>1. NoRun.pc = "idle"
      BY DEF NoRun, Start
    <2> QED
      BY <2>1 DEF Init
  <1>2. Listed = {} /\ Chosen \subseteq Rows
    BY <1>1 DEF Listed, Chosen, Firsts
  <1> QED
    BY <1>1, <1>2, TallyInit DEF ChoiceInv, Untouched, InOrder, Sorted, Writing

-----------------------------------------------------------------------------
(* The theorems. *)

\* The invariant that shows no row is lost.
THEOREM ImportInvariance == Spec => []ImportInv
  <1>1. Init => ImportInv
    BY ImportInit
  <1>2. ImportInv /\ [Next]_vars => ImportInv'
    BY ImportStep
  <1> QED
    BY <1>1, <1>2, PTL DEF Spec

\* No crash, takeover, refused insert or meddling dealer makes the import skip
\* a row that its checkpoint counts.
THEOREM NoRowIsLost == Spec => []RowsDecided
  <1>1. ImportInv => RowsDecided
    BY DEF ImportInv
  <1> QED
    BY <1>1, ImportInvariance, PTL
\* Types hold for any number of rows and attempts, and any faults.
THEOREM BatchTypes == Spec => []TypeOK
  <1>1. ImportInv => TypeOK
    BY DEF ImportInv
  <1> QED
    BY <1>1, ImportInvariance, PTL

\* Everything that is needed to show the counters and the checks.
THEOREM ChoiceInvariance == Spec => []ChoiceInv
  <1>1. Init => ChoiceInv
    BY ChoiceInit
  <1>2. ChoiceInv /\ [Next]_vars => ChoiceInv'
    BY ChoiceStep
  <1> QED
    BY <1>1, <1>2, PTL DEF Spec

\* A row has not both outcomes, so counters that add up are exact.
LEMMA ExactCounters ==
  ASSUME ChoiceInv
  PROVE  CountersAreBacked /\ OneOutcome /\ CountersAreExact
  <1> DEFINE L == {r \in Done : listings[r] # "none"}
             J == {r \in Done : rejected[r] # "none"}
  <1>1. /\ TypeOK /\ saved \in Counts /\ saved.processed \in Nat
        /\ Done \in SUBSET Rows /\ Tallied(saved)
    BY SizesAssumption DEF ChoiceInv, TallyInv, ImportInv, TypeOK, Counts, Done, Rows
  <1>2. CountersAreBacked
    BY <1>1 DEF CountersAreBacked, Tallied, Done
  <1>3. OneOutcome
    BY DEF OneOutcome, ChoiceInv, InOrder, Listed
  <1>4. ASSUME ~disturbed
        PROVE  saved.valid = Cardinality(L) /\ saved.rejected + saved.duplicate = Cardinality(J)
    <2>1. L \in SUBSET Rows /\ J \in SUBSET Rows /\ L \cup J \in SUBSET Done /\ L \cap J = {}
      BY <1>1, <1>3, <1>4 DEF OneOutcome
    <2>2. saved.valid <= Cardinality(L) /\ saved.rejected + saved.duplicate <= Cardinality(J)
          /\ saved.processed = saved.valid + saved.rejected + saved.duplicate
      BY <1>2 DEF CountersAreBacked
    <2>3. saved.valid \in Nat /\ saved.rejected \in Nat /\ saved.duplicate \in Nat
      BY <1>1 DEF Counts
    <2> HIDE DEF L, J
    <2>4. Cardinality(L \cup J) = Cardinality(L) + Cardinality(J)
      BY <2>1, TwoSets
    <2>5. Cardinality(L \cup J) <= Cardinality(Done)
      BY <1>1, <2>1, FewerRows
    <2>6. Cardinality(Done) = saved.processed
      BY <1>1, FS_Interval DEF Done
    <2>7. Cardinality(L) \in Nat /\ Cardinality(J) \in Nat
      BY <2>1, RowSets
    <2> QED
      BY <2>2, <2>3, <2>4, <2>5, <2>6, <2>7
  <1> QED
    BY <1>2, <1>3, <1>4 DEF CountersAreExact

\* However often batches are repeated, for any file, batch size and limit, the
\* counters add up to the rows behind the checkpoint and claim no more than the
\* collections hold; and until attempts overlap or a dealer interferes they are
\* exact, and no row is both imported and rejected.
THEOREM CountersAreRight == Spec => []CountersHold
  <1>1. ChoiceInv => CountersHold
    BY ExactCounters DEF CountersHold
  <1> QED
    BY <1>1, ChoiceInvariance, PTL

\* Until attempts overlap or a dealer interferes, what the checks before the
\* insert have found still holds at the insert, whatever fails or crashes between
\* batches and within them: no insert is refused, and the limit is kept.
THEOREM ChecksAreEnough == Spec => []ChecksHold
  <1>1. ASSUME ChoiceInv PROVE ChecksHold
    <2>1. ASSUME ~disturbed, NEW a \in Attempts, Writing(a), NEW r \in run[a].insert
          PROVE  ~Refused(r)
      <3>1. /\ Untouched /\ InOrder /\ Sorted(a) /\ Divided(a)
        BY <1>1, <2>1 DEF ChoiceInv, TallyInv
      <3>2. r \in Chosen /\ r \notin Listed /\ r \in Firsts /\ r \in Rows
        BY <2>1, <3>1 DEF Sorted, Divided, Chosen, Firsts
      <3>3. ASSUME NEW q \in Listed, csv[q] = csv[r] PROVE FALSE
        BY <3>1, <3>2, <3>3, OnePerPlate DEF InOrder, Chosen
      <3> QED
        BY <3>1, <3>2, <3>3, PlatesListed DEF Refused, Imported, Listed
    <2>2. ASSUME ~disturbed PROVE OwnOpen <= Limit
      <3>1. OwnOpen = Cardinality(Listed) /\ Listed \in SUBSET Chosen /\ Chosen \in SUBSET Rows
        BY <1>1, <2>2, OpenAreListed DEF ChoiceInv, InOrder, Chosen, Firsts
      <3>2. Cardinality(Listed) <= Cardinality(Chosen) /\ Cardinality(Listed) \in Nat
            /\ Cardinality(Chosen) \in Nat
        BY <3>1, FewerRows, RowSets
      <3> QED
        BY <3>1, <3>2, ChosenFew, SizesAssumption
    <2> QED
      BY <2>1, <2>2 DEF ChecksHold, ChecksSuffice, LimitKept
  <1> QED
    BY <1>1, ChoiceInvariance, PTL

=============================================================================
