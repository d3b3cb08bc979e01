------------------------- MODULE ListingPhotos_proofs -------------------------
(***************************************************************************)
(* Proofs about ListingPhotos for any number of attempts, requests and     *)
(* photos, any limit and any faults.                                       *)
(***************************************************************************)
EXTENDS ListingPhotos, FiniteSetTheorems, TLAPS

\* What holds of the array of the listing holds of every copy of it that a
\* request has read and may write back.
Array(S) ==
  /\ S \in SUBSET Entries
  /\ IsFiniteSet(S) /\ Cardinality(S) <= MaxImages
  /\ \A d, e \in S : d.key = e.key => d = e
Arrays == Array(images) /\ \A r \in Requests : Array(request[r].seen)

\* The key of a photo that is being added is in no array yet.
Absent(r, S) == \A e \in S : e.key # r
Fresh ==
  \A r \in Requests : request[r].pc \in {"new", "put", "push"} =>
    Absent(r, images) /\ \A q \in Requests : Absent(r, request[q].seen)

ArraysInv == TypeOK /\ (NothingPutBack => Arrays /\ Fresh)

-----------------------------------------------------------------------------
(* Arrays. *)

\* A listing without photos has an array.
LEMMA EmptyArray == Array({})
  BY FS_EmptySet, SizesAssumption DEF Array

\* So does one whose array has lost some of its photos.
LEMMA SmallerArray ==
  ASSUME NEW S, Array(S), NEW T \in SUBSET S
  PROVE  Array(T)
  <1>1. IsFiniteSet(T) /\ Cardinality(T) <= Cardinality(S)
    BY FS_Subset DEF Array
  <1>2. Cardinality(T) \in Nat /\ Cardinality(S) \in Nat
    BY <1>1, FS_CardinalityType DEF Array
  <1> QED
    BY <1>1, <1>2, SizesAssumption DEF Array

\* So is an array that had room for one more, and got it.
LEMMA ArrayWithOne ==
  ASSUME NEW S, Array(S), Cardinality(S) < MaxImages, NEW k \in Keys, Absent(k, S)
  PROVE  Array(S \cup {Entry(k)})
  <1>1. /\ IsFiniteSet(S \cup {Entry(k)})
        /\ Cardinality(S \cup {Entry(k)}) <= Cardinality(S) + 1
    <2>1. IsFiniteSet(S)
      BY DEF Array
    <2>2. Cardinality(S) \in Nat
      BY <2>1, FS_CardinalityType
    <2>3. /\ IsFiniteSet(S \cup {Entry(k)})
          /\ Cardinality(S \cup {Entry(k)}) =
               IF Entry(k) \in S THEN Cardinality(S) ELSE Cardinality(S) + 1
      BY <2>1, FS_AddElement
    <2> QED
      BY <2>2, <2>3
  <1>2. Cardinality(S) \in Nat /\ Cardinality(S \cup {Entry(k)}) \in Nat
    BY <1>1, FS_CardinalityType DEF Array
  <1>3. Entry(k) \in Entries /\ Entry(k).key = k
    BY DEF Entry, Entries
  <1> QED
    BY <1>1, <1>2, <1>3, SizesAssumption DEF Array, Absent

\* So is one that had room for a set of photos it did not hold.
LEMMA ArrayWithMany ==
  ASSUME NEW S, Array(S), NEW todo \in SUBSET Keys, IsFiniteSet(todo),
         KeysOf(S) \cap todo = {}, Cardinality(S) + Cardinality(todo) <= MaxImages
  PROVE  Array(S \cup {Entry(k) : k \in todo})
  <1> DEFINE new == {Entry(k) : k \in todo}
             f == [k \in todo |-> Entry(k)]
  <1>1. f \in Surjection(todo, new)
    <2>1. f \in [todo -> new]
      OBVIOUS
    <2>2. \A t \in new : \E k \in todo : f[k] = t
      OBVIOUS
    <2> QED
      BY <2>1, <2>2 DEF Surjection
  <1>2. IsFiniteSet(new) /\ Cardinality(new) <= Cardinality(todo)
    <2> HIDE DEF f, new
    <2> QED
      BY <1>1, FS_Surjection
  <1>3. \A e \in new : e \in Entries /\ e.key \in todo /\ e = Entry(e.key)
    <2>1. \A k \in todo : Entry(k) \in Entries /\ Entry(k).key = k
      BY DEF Entry, Entries
    <2> HIDE DEF Entry
    <2> QED
      BY <2>1
  <1> HIDE DEF new
  <1>4. IsFiniteSet(S)
    BY DEF Array
  <1>5. S \cap new = {}
    BY <1>3 DEF KeysOf
  <1>6. /\ IsFiniteSet(S \cup new)
        /\ Cardinality(S \cup new) = Cardinality(S) + Cardinality(new) - Cardinality(S \cap new)
    BY <1>2, <1>4, FS_Union
  <1>7. Cardinality(S \cap new) = 0
    BY <1>5, FS_EmptySet
  <1>8. /\ Cardinality(S) \in Nat /\ Cardinality(new) \in Nat /\ Cardinality(todo) \in Nat
        /\ Cardinality(S \cup new) \in Nat
    BY <1>2, <1>4, <1>6, FS_CardinalityType
  <1>9. Cardinality(S \cup new) <= MaxImages
    BY <1>2, <1>6, <1>7, <1>8, SizesAssumption
  <1>10. S \cup new \in SUBSET Entries
    BY <1>3 DEF Array
  <1>11. \A d, e \in S \cup new : d.key = e.key => d = e
    BY <1>3 DEF Array, KeysOf
  <1> QED
    BY <1>6, <1>9, <1>10, <1>11 DEF Array, new

-----------------------------------------------------------------------------
(* Types. *)

\* Only these fields decide the type of the worker's side.
WorkerTypes ==
  /\ status \in {"pending", "processing", "completed", "failed"}
  /\ owner \in Attempts \cup {NoAttempt}
  /\ status = "processing" => owner \in Attempts
  /\ run \in [Attempts -> Run]
  /\ \A a \in Attempts : run[a].pc \in {"upload", "append", "remove"} =>
       run[a].todo # {} /\ run[a].todo \subseteq ArchiveKeys

\* What an attempt finds missing is a part of the archive.
LEMMA ToAttachType == ToAttach \subseteq ArchiveKeys
  BY DEF ToAttach

\* The worker's steps keep their types.
LEMMA WorkerStep ==
  ASSUME TypeOK, NEW a \in Attempts, Work(a)
  PROVE  WorkerTypes'
  <1> USE DEF TypeOK, WorkerTypes, Run, Keys
  <1>1. CASE Claim(a)
    BY <1>1 DEF Claim, GoOn, NoFault
  <1>2. CASE FindListings(a)
    <2>1. CASE listed /\ ToAttach # {}
      <3>1. run' = [run EXCEPT ![a] = [pc |-> "upload", todo |-> ToAttach]]
        BY <1>2, <2>1 DEF FindListings
      <3>2. [pc |-> "upload", todo |-> ToAttach] \in Run
        BY ToAttachType
      <3> QED
        BY <1>2, <2>1, <3>1, <3>2, ToAttachType DEF FindListings, job
    <2>2. CASE ~(listed /\ ToAttach # {})
      BY <1>2, <2>2 DEF FindListings, GoOn, job
    <2> QED
      BY <2>1, <2>2
  <1>3. CASE UploadPhotos(a)
    BY <1>3 DEF UploadPhotos, GoOn, job
  <1>4. CASE UploadFails(a)
    BY <1>4 DEF UploadFails, End, NoRun, job
  <1>5. CASE AppendPhotos(a)
    BY <1>5 DEF AppendPhotos, GoOn, job
  <1>6. CASE RemovePhotos(a)
    BY <1>6 DEF RemovePhotos, GoOn, job
  <1>7. CASE CompleteImages(a)
    BY <1>7 DEF CompleteImages, End, NoRun, job
  <1>8. CASE StopWhenLost(a)
    BY <1>8 DEF StopWhenLost, End, NoRun, job
  <1>9. CASE CrashWorker(a)
    BY <1>9 DEF CrashWorker, End, NoRun, job
  <1> QED
    BY <1>1, <1>2, <1>3, <1>4, <1>5, <1>6, <1>7, <1>8, <1>9 DEF Work

\* So do those of the listing and of storage, whoever takes the step.
DocumentTypes ==
  /\ listed \in BOOLEAN /\ images \in SUBSET Entries
  /\ ~listed => images = {}
  /\ stored \in SUBSET Keys

\* The worker writes entries and objects of the archive only.
LEMMA WorkerDocument ==
  ASSUME TypeOK, NEW a \in Attempts, Work(a)
  PROVE  DocumentTypes' /\ UNCHANGED request
  <1> USE DEF TypeOK, DocumentTypes
  <1>1. CASE Claim(a)
    BY <1>1 DEF Claim, listing
  <1>2. CASE FindListings(a)
    BY <1>2 DEF FindListings, listing
  <1>3. CASE UploadPhotos(a)
    <2>1. run[a].todo \subseteq Keys
      BY <1>3 DEF UploadPhotos, Keys
    <2> QED
      BY <1>3, <2>1 DEF UploadPhotos, listing
  <1>4. CASE UploadFails(a)
    <2>1. run[a].todo \subseteq Keys
      BY <1>4 DEF UploadFails, Keys
    <2> QED
      BY <1>4, <2>1 DEF UploadFails, listing
  <1>5. CASE AppendPhotos(a)
    <2>1. run[a].todo \subseteq Keys
      BY <1>5 DEF AppendPhotos, Keys
    <2>2. \A k \in Keys : Entry(k) \in Entries
      BY DEF Entry, Entries
    <2>3. {Entry(k) : k \in run[a].todo} \subseteq Entries
      BY <2>1, <2>2
    <2> QED
      BY <1>5, <2>3 DEF AppendPhotos
  <1>6. CASE RemovePhotos(a)
    BY <1>6 DEF RemovePhotos, listing
  <1>7. CASE CompleteImages(a)
    BY <1>7 DEF CompleteImages, listing
  <1>8. CASE StopWhenLost(a)
    BY <1>8 DEF StopWhenLost, listing
  <1>9. CASE CrashWorker(a)
    BY <1>9 DEF CrashWorker, listing
  <1> QED
    BY <1>1, <1>2, <1>3, <1>4, <1>5, <1>6, <1>7, <1>8, <1>9 DEF Work

\* The requests keep their own types, those of the listing and of storage, and
\* leave the worker alone.
LEMMA ServeStep ==
  ASSUME TypeOK, NEW r \in Requests, Serve(r)
  PROVE  DocumentTypes' /\ request' \in [Requests -> Request] /\ UNCHANGED <<job, run>>
  <1> USE DEF TypeOK, DocumentTypes, Continue, Request
  <1>1. CASE StartAdd(r)
    BY <1>1 DEF StartAdd, listing
  <1>2. CASE PutObject(r)
    BY <1>2 DEF PutObject, listing, Keys
  <1>3. CASE PushImage(r)
    <2>1. Entry(r) \in Entries
      BY DEF Entry, Entries, Keys
    <2> QED
      BY <1>3, <2>1 DEF PushImage
  <1>4. CASE Discard(r)
    BY <1>4 DEF Discard, listing
  <1>5. CASE \E e \in images : RemoveImage(r, e)
    BY <1>5 DEF RemoveImage, Without, Entries, Begins
  <1>6. CASE DeleteObject(r)
    BY <1>6 DEF DeleteObject, listing
  <1>7. CASE RestoreImage(r)
    <2>1. [key |-> request[r].key, restored |-> TRUE] \in Entries
      BY DEF Entries
    <2> QED
      BY <1>7, <2>1 DEF RestoreImage
  <1>8. CASE Normalize(r) \/ SaveOrder(r)
    BY <1>8 DEF Normalize, SaveOrder, WriteBack
  <1>9. CASE StartReorder(r)
    BY <1>9 DEF StartReorder, listing
  <1>10. CASE DeleteListing(r)
    BY <1>10 DEF DeleteListing
  <1>11. CASE StartBulkDelete(r)
    BY <1>11 DEF StartBulkDelete, listing
  <1>12. CASE DeleteMany(r)
    BY <1>12 DEF DeleteMany
  <1>13. CASE Purge(r)
    BY <1>13 DEF Purge, listing
  <1>14. CASE CrashBackend(r)
    BY <1>14 DEF CrashBackend, listing
  <1> QED
    BY <1>1, <1>2, <1>3, <1>4, <1>5, <1>6, <1>7, <1>8, <1>9, <1>10, <1>11, <1>12, <1>13, <1>14
    DEF Serve

\* Every step counts a fault at most once, and only below the bound.
LEMMA FaultStep ==
  ASSUME TypeOK, Next
  PROVE  faults' \in 0..MaxFaults /\ (disturbed' = disturbed \/ disturbed' = TRUE)
  <1> USE SizesAssumption DEF TypeOK, Fault, Takeover, Counted, NoFault, Disturbs
  <1>1. CASE RetryImages
    BY <1>1 DEF RetryImages
  <1>2. ASSUME NEW a \in Attempts, Work(a)
        PROVE  faults' \in 0..MaxFaults /\ (disturbed' = disturbed \/ disturbed' = TRUE)
    BY <1>2 DEF Work, Claim, FindListings, UploadPhotos, UploadFails, AppendPhotos,
                RemovePhotos, CompleteImages, StopWhenLost, CrashWorker
  <1>3. ASSUME NEW r \in Requests, Serve(r)
        PROVE  faults' \in 0..MaxFaults /\ (disturbed' = disturbed \/ disturbed' = TRUE)
    BY <1>3 DEF Serve, StartAdd, PutObject, PushImage, Discard, RemoveImage, DeleteObject,
                RestoreImage, Normalize, SaveOrder, WriteBack, StartReorder, DeleteListing,
                StartBulkDelete, DeleteMany, Purge, CrashBackend
  <1> QED
    BY <1>1, <1>2, <1>3 DEF Next

\* So the history keeps its types.
LEMMA FlagStep ==
  ASSUME TypeOK, Next
  PROVE  faults' \in 0..MaxFaults /\ disturbed' \in BOOLEAN
  <1>1. disturbed' \in BOOLEAN
    <2>1. disturbed' = disturbed \/ disturbed' = TRUE
      BY FaultStep
    <2>2. disturbed \in BOOLEAN
      BY DEF TypeOK
    <2> QED
      BY <2>1, <2>2
  <1> QED
    BY <1>1, FaultStep

\* TypeOK is inductive by itself.
LEMMA TypeStep ==
  ASSUME TypeOK, [Next]_vars
  PROVE  TypeOK'
  <1>1. CASE UNCHANGED vars
    BY <1>1 DEF TypeOK, vars, listing, job
  <1>2. ASSUME NEW a \in Attempts, Work(a) PROVE TypeOK'
    <2>1. faults' \in 0..MaxFaults /\ disturbed' \in BOOLEAN
      BY <1>2, FlagStep DEF Next
    <2> QED
      BY <1>2, <2>1, WorkerStep, WorkerDocument DEF TypeOK, WorkerTypes, DocumentTypes
  <1>3. ASSUME NEW r \in Requests, Serve(r) PROVE TypeOK'
    <2>1. faults' \in 0..MaxFaults /\ disturbed' \in BOOLEAN
      BY <1>3, FlagStep DEF Next
    <2> QED
      BY <1>3, <2>1, ServeStep DEF TypeOK, DocumentTypes, job
  <1>4. CASE RetryImages
    <2>1. faults' \in 0..MaxFaults /\ disturbed' \in BOOLEAN
      BY <1>4, FlagStep DEF Next
    <2> QED
      BY <1>4, <2>1 DEF RetryImages, TypeOK, listing
  <1> QED
    BY <1>1, <1>2, <1>3, <1>4 DEF Next

-----------------------------------------------------------------------------
(* The arrays, until a photo is put back. *)

\* The worker only appends to the array, and only what the archive holds and
\* the array does not.
LEMMA WorkerArrays ==
  ASSUME ArraysInv, NothingPutBack', NEW a \in Attempts, Work(a)
  PROVE  (Arrays /\ Fresh)'
  <1>1. UNCHANGED request /\ NothingPutBack /\ Arrays /\ Fresh
    BY WorkerDocument DEF ArraysInv, NothingPutBack
  <1>2. CASE UNCHANGED images
    BY <1>1, <1>2 DEF ArraysInv, Arrays, Array, Fresh, Absent
  <1>3. CASE ~UNCHANGED images
    <2>1. AppendPhotos(a)
      BY <1>3 DEF Work, Claim, FindListings, UploadPhotos, UploadFails, RemovePhotos,
                  CompleteImages, StopWhenLost, CrashWorker, listing
    <2> DEFINE todo == run[a].todo
    <2>2. /\ KeysOf(images) \cap todo = {}
          /\ Cardinality(images) + Cardinality(todo) <= MaxImages
          /\ images' = images \cup {Entry(k) : k \in todo}
      BY <1>3, <2>1 DEF AppendPhotos
    <2>3. todo \subseteq ArchiveKeys
      BY <2>1 DEF ArraysInv, TypeOK, AppendPhotos
    <2>4. IsFiniteSet(todo)
      <3>1. IsFiniteSet(ArchiveKeys)
        BY FS_Interval, SizesAssumption DEF ArchiveKeys
      <3> QED
        BY <2>3, <3>1, FS_Subset
    <2>5. todo \in SUBSET Keys
      BY <2>3 DEF Keys
    <2>6. Array(images)
      BY <1>1 DEF Arrays
    <2> HIDE DEF todo
    <2>7. Array(images')
      BY <2>2, <2>4, <2>5, <2>6, ArrayWithMany
    <2>8. \A r \in Requests : Absent(r, images) => Absent(r, images')
      <3>1. \A k \in todo : Entry(k).key \notin Requests
        BY <2>3, NamesAssumption DEF Entry
      <3> QED
        BY <2>2, <3>1 DEF Absent
    <2> QED
      BY <1>1, <2>7, <2>8 DEF ArraysInv, Arrays, Array, Fresh, Absent
  <1> QED
    BY <1>2, <1>3

\* A step of a request leaves the other requests alone, and one that has failed
\* takes none.
LEMMA RequestAlone ==
  ASSUME TypeOK, NEW r \in Requests, Serve(r)
  PROVE  /\ \A q \in Requests : q # r => request'[q] = request[q]
         /\ request[r].pc # "failed"
  <1>1. request \in [Requests -> Request]
    BY DEF TypeOK
  <1> USE DEF Continue, Begins, Request
  <1>2. CASE StartAdd(r) \/ StartReorder(r) \/ DeleteListing(r) \/ StartBulkDelete(r) \/ DeleteMany(r)
    BY <1>1, <1>2 DEF StartAdd, StartReorder, DeleteListing, StartBulkDelete, DeleteMany
  <1>3. CASE PutObject(r) \/ PushImage(r) \/ Discard(r)
    BY <1>1, <1>3 DEF PutObject, PushImage, Discard
  <1>4. CASE \E e \in images : RemoveImage(r, e)
    BY <1>1, <1>4 DEF RemoveImage
  <1>5. CASE DeleteObject(r)
    BY <1>1, <1>5 DEF DeleteObject
  <1>6. CASE RestoreImage(r)
    BY <1>1, <1>6 DEF RestoreImage
  <1>7. CASE Normalize(r) \/ SaveOrder(r)
    BY <1>1, <1>7 DEF Normalize, SaveOrder, WriteBack
  <1>8. CASE Purge(r) \/ CrashBackend(r)
    BY <1>1, <1>8 DEF Purge, CrashBackend
  <1> QED
    BY <1>2, <1>3, <1>4, <1>5, <1>6, <1>7, <1>8 DEF Serve

\* A request writes the array with one photo more or less, or writes back one
\* that it has read.
LEMMA ServeArrays ==
  ASSUME ArraysInv, NothingPutBack', NEW r \in Requests, Serve(r)
  PROVE  (Arrays /\ Fresh)'
  <1>1. /\ request \in [Requests -> Request]
        /\ NothingPutBack /\ Arrays /\ Fresh /\ Array(images)
    <2>1. NothingPutBack
      BY RequestAlone DEF ArraysInv, NothingPutBack
    <2> QED
      BY <2>1 DEF ArraysInv, TypeOK, Arrays
  <1> USE DEF Arrays, Fresh, Absent
  <1> USE DEF Continue
  \* The array and what the request remembers of it stay.
  <1>2. CASE UNCHANGED images /\ \E pc \in {"push", "normalize", "restore", "done", "discard", "purge", "put"} :
               /\ Continue(r, pc)
               /\ pc \in {"put", "push"} => request[r].pc \in {"new", "put"}
    <2>1. PICK pc \in {"push", "normalize", "restore", "done", "discard", "purge", "put"} :
            /\ Continue(r, pc)
            /\ pc \in {"put", "push"} => request[r].pc \in {"new", "put"}
      BY <1>2
    <2>2. /\ \A q \in Requests : request'[q].seen = request[q].seen
          /\ \A q \in Requests : request'[q].pc = IF q = r THEN pc ELSE request[q].pc
      BY <1>1, <2>1 DEF Request
    <2> QED
      BY <1>1, <1>2, <2>1, <2>2
  <1>3. CASE StartAdd(r) \/ PutObject(r) \/ Discard(r) \/ DeleteObject(r) \/ Purge(r) \/ CrashBackend(r)
    BY <1>2, <1>3 DEF StartAdd, PutObject, Discard, DeleteObject, Purge, CrashBackend, listing,
                      Begins
  <1>4. CASE PushImage(r)
    <2>1. CASE UNCHANGED images
      BY <1>2, <1>4, <2>1 DEF PushImage
    <2>2. CASE ~UNCHANGED images
      <3>1. /\ images' = images \cup {Entry(r)} /\ Cardinality(images) < MaxImages
            /\ request[r].pc = "push" /\ Continue(r, "done")
        BY <1>4, <2>2 DEF PushImage
      <3>2. r \in Keys /\ Entry(r).key = r
        BY DEF Keys, Entry
      <3>3. Absent(r, images)
        BY <1>1, <3>1
      <3>4. Array(images')
        BY <1>1, <3>1, <3>2, <3>3, ArrayWithOne
      <3> QED
        BY <1>1, <3>1, <3>2, <3>4 DEF Request
    <2> QED
      BY <2>1, <2>2
  <1>5. CASE \E e \in images : RemoveImage(r, e)
    <2>1. PICK e \in images : RemoveImage(r, e)
      BY <1>5
    <2>2. images' \subseteq images
      BY <2>1 DEF RemoveImage, Without
    <2>3. Array(images')
      BY <1>1, <2>2, SmallerArray
    <2> QED
      BY <1>1, <2>1, <2>2, <2>3 DEF RemoveImage, Begins, Request
  <1>6. CASE RestoreImage(r)
    <2>1. request'[r].pc = "failed"
      BY <1>1, <1>6 DEF RestoreImage
    <2> QED
      BY <2>1 DEF NothingPutBack
  <1>7. CASE Normalize(r) \/ SaveOrder(r)
    BY <1>1, <1>7 DEF Normalize, SaveOrder, WriteBack, Request
  <1>8. CASE StartReorder(r) \/ StartBulkDelete(r)
    BY <1>1, <1>8 DEF StartReorder, StartBulkDelete, listing, Begins, Request
  <1>9. CASE DeleteListing(r) \/ DeleteMany(r)
    <2>1. images' = {} /\ Array(images')
      BY <1>9, EmptyArray DEF DeleteListing, DeleteMany
    <2>2. /\ \A q \in Requests : request'[q].seen \in {request[q].seen, images}
          /\ \A q \in Requests : request'[q].pc = IF q = r THEN "purge" ELSE request[q].pc
      BY <1>1, <1>9 DEF DeleteListing, DeleteMany, Request
    <2> QED
      BY <1>1, <2>1, <2>2
  <1> QED
    BY <1>3, <1>4, <1>5, <1>6, <1>7, <1>8, <1>9 DEF Serve

\* ArraysInv is inductive.
LEMMA ArraysStep ==
  ASSUME ArraysInv, [Next]_vars
  PROVE  ArraysInv'
  <1>1. TypeOK'
    BY TypeStep DEF ArraysInv
  <1>2. CASE UNCHANGED vars
    <2>1. UNCHANGED <<images, request>>
      BY <1>2 DEF vars, listing
    <2> QED
      BY <1>1, <2>1 DEF ArraysInv, Arrays, Array, Fresh, Absent, NothingPutBack
  <1>3. ASSUME NEW a \in Attempts, Work(a) PROVE ArraysInv'
    BY <1>1, <1>3, WorkerArrays DEF ArraysInv
  <1>4. ASSUME NEW r \in Requests, Serve(r) PROVE ArraysInv'
    BY <1>1, <1>4, ServeArrays DEF ArraysInv
  <1>5. CASE RetryImages
    <2>1. UNCHANGED <<images, request>>
      BY <1>5 DEF RetryImages, listing
    <2> QED
      BY <1>1, <2>1 DEF ArraysInv, Arrays, Array, Fresh, Absent, NothingPutBack
  <1> QED
    BY <1>2, <1>3, <1>4, <1>5 DEF Next

\* The listing starts without photos, and no request has read anything.
LEMMA ArraysInit ==
  ASSUME Init
  PROVE  ArraysInv
  <1>1. TypeOK
    <2>1. disturbed \in BOOLEAN
      BY DEF Init
    <2> QED
      BY <2>1, SizesAssumption DEF Init, TypeOK, NoRun, Run, NewRequest, Request, Keys
  <1>2. Arrays
    BY EmptyArray DEF Init, Arrays, NewRequest
  <1>3. Fresh 
    BY DEF Init, Fresh, Absent, NewRequest
  <1> QED
    BY <1>1, <1>2, <1>3 DEF ArraysInv

-----------------------------------------------------------------------------
(* Storage, until attempts overlap or an array is written back. *)

\* Only the holder of the job works, so two attempts never do.
Alone == \A a \in Attempts : run[a].pc # "idle" => Holds(a)

\* Requests only add photos, or delete what they saw of a deleted listing.
AddsOnly ==
  \A r \in Requests :
    /\ request[r].pc \in {"new", "put", "push", "discard", "purge", "done"}
    /\ request[r].pc = "purge" => ~listed

\* What is still to be attached, or to be thrown away, is not shown.
Unshown ==
  /\ \A a \in Attempts : run[a].pc \in {"upload", "append", "remove"} =>
       \A e \in images : e.key \notin run[a].todo
  /\ \A r \in Requests : request[r].pc \in {"new", "put", "push", "discard"} =>
       Absent(r, images)

\* While there is a listing, what is about to be attached is in storage.
Uploaded ==
  listed =>
    /\ \A a \in Attempts : run[a].pc = "append" => run[a].todo \subseteq stored
    /\ \A r \in Requests : request[r].pc = "push" => r \in stored

\* Every object is shown, or somebody is left to show or delete it.
Tended(k) ==
  \/ \E e \in images : e.key = k
  \/ \E a \in Attempts : run[a].pc \in {"append", "remove"} /\ k \in run[a].todo
  \/ \E r \in Requests : request[r].pc \in {"push", "discard"} /\ k = r
  \/ \E r \in Requests : request[r].pc = "purge" /\ \E e \in request[r].seen : e.key = k
Accounted == faults = 0 => \A k \in stored : Tended(k)

StorageInv ==
  TypeOK /\ (~disturbed => Alone /\ AddsOnly /\ Unshown /\ Uploaded /\ AllStored /\ Accounted)

\* The photos that a listing without any shows.
LEMMA NoneUnlisted ==
  ASSUME TypeOK, ~listed
  PROVE  images = {}
  BY DEF TypeOK

\* The worker, alone, attaches what it has uploaded and deletes only what is
\* not shown.
LEMMA WorkerStorage ==
  ASSUME StorageInv, ~disturbed, ~disturbed', NEW a \in Attempts, Work(a)
  PROVE  (Alone /\ AddsOnly /\ Unshown /\ Uploaded /\ AllStored /\ Accounted)'
  <1>1. /\ Alone /\ AddsOnly /\ Unshown /\ Uploaded /\ AllStored /\ Accounted
        /\ TypeOK /\ UNCHANGED request
    BY WorkerDocument DEF StorageInv
  <1>2. /\ run \in [Attempts -> Run]
        /\ \A b \in Attempts : run[b].pc \in {"upload", "append", "remove"} =>
             run[b].todo # {} /\ run[b].todo \subseteq ArchiveKeys
        /\ \A k \in ArchiveKeys : k \notin Requests
        /\ owner \in Attempts \cup {NoAttempt} /\ (status = "processing" => owner \in Attempts)
    BY <1>1, NamesAssumption DEF TypeOK
  <1>3. \A b \in Attempts : b # a => run[b].pc = "idle" \/ run[a].pc = "idle"
    BY <1>1 DEF Alone, Holds
  <1> USE DEF Alone, Holds, AddsOnly, Unshown, Absent, Uploaded, AllStored, Accounted, Tended, Run
  <1>4. CASE Claim(a)
    <2>1. NoFault /\ UNCHANGED <<listing, stored, request>>
      BY <1>4 DEF Claim, Takeover
    <2>2. \A b \in Attempts : run[b].pc = "idle"
      BY <1>1, <1>2, <1>4, <2>1 DEF Claim, Takeover
    <2>3. /\ \A b \in Attempts : b # a => run'[b] = run[b]
          /\ run'[a].pc = "read" /\ status' = "processing" /\ owner' = a
      BY <1>2, <1>4 DEF Claim, GoOn
    <2>4. \A b \in Attempts : run'[b].pc \notin {"upload", "append", "remove"}
      BY <2>2, <2>3
    <2> QED
      BY <1>1, <2>1, <2>2, <2>3, <2>4 DEF NoFault, listing
  <1>5. CASE FindListings(a)
    <2>1. NoFault /\ UNCHANGED <<listing, stored, job, request>> /\ run[a].pc = "read"
      BY <1>5 DEF FindListings
    <2>2. /\ \A b \in Attempts : b # a => run'[b] = run[b]
          /\ \/ run'[a].pc = "upload" /\ run'[a].todo = ToAttach
             \/ run'[a].pc = "finish"
      BY <1>2, <1>5 DEF FindListings, GoOn
    <2>3. \A e \in images : e.key \notin ToAttach
      BY DEF ToAttach, KeysOf
    <2> QED
      BY <1>1, <2>1, <2>2, <2>3 DEF NoFault, listing, job
  <1>6. CASE UploadPhotos(a)
    <2>1. /\ NoFault /\ UNCHANGED <<listing, job, request>> /\ run[a].pc = "upload"
          /\ stored' = stored \cup run[a].todo
      BY <1>6 DEF UploadPhotos
    <2>2. /\ \A b \in Attempts : b # a => run'[b] = run[b]
          /\ run'[a].pc = "append" /\ run'[a].todo = run[a].todo
      BY <1>2, <1>6 DEF UploadPhotos, GoOn
    <2> QED
      BY <1>1, <2>1, <2>2 DEF NoFault, listing, job
  <1>7. CASE UploadFails(a)
    <2>1. /\ faults' = faults + 1 /\ UNCHANGED <<listing, request>> /\ run[a].pc = "upload"
          /\ stored \subseteq stored'
      BY <1>7 DEF UploadFails, Fault, Counted
    <2>2. /\ \A b \in Attempts : b # a => run'[b] = run[b]
          /\ run'[a].pc = "idle"
      BY <1>2, <1>7 DEF UploadFails, End, NoRun
    <2>3. \A b \in Attempts : run'[b].pc = "idle"
      BY <1>3, <2>1, <2>2
    <2>4. faults' # 0
      BY <1>1, <2>1, SizesAssumption DEF TypeOK
    <2> QED
      BY <1>1, <2>1, <2>3, <2>4 DEF listing
  <1>8. CASE AppendPhotos(a)
    <2> DEFINE todo == run[a].todo
    <2>1. /\ NoFault /\ UNCHANGED <<listed, stored, job, request>> /\ run[a].pc = "append"
          /\ \/ /\ listed /\ run'[a].pc = "finish"
                /\ images' = images \cup {Entry(k) : k \in todo}
             \/ run'[a].pc = "remove" /\ images' = images
          /\ \A b \in Attempts : b # a => run'[b] = run[b]
          /\ run'[a].todo = todo
      BY <1>2, <1>8 DEF AppendPhotos, GoOn
    <2>2. todo \subseteq ArchiveKeys
      BY <1>2, <2>1
    <2>3. \A b \in Attempts : b # a => run'[b].pc = "idle"
      BY <1>3, <2>1
    <2>4. CASE images' = images /\ run'[a].pc = "remove"
      BY <1>1, <2>1, <2>3, <2>4 DEF NoFault, job
    <2>5. CASE /\ listed /\ run'[a].pc = "finish"
               /\ images' = images \cup {Entry(k) : k \in todo}
      <3>1. todo \subseteq stored
        BY <1>1, <2>1, <2>5
      <3>0. \A k \in todo : Entry(k).key = k
        BY DEF Entry
      <3>2. \A e \in images' : e \in images \/ e.key \in todo
        BY <2>5, <3>0
      <3>3. \A k \in todo : \E e \in images' : e.key = k
        BY <2>5, <3>0
      <3>4. images \subseteq images'
        BY <2>5
      <3> HIDE DEF todo
      <3>5. AllStored'
        BY <1>1, <2>1, <3>1, <3>2
      <3>6. Unshown'
        BY <1>1, <1>2, <2>1, <2>2, <2>3, <2>5, <3>2
      <3>7. \A b \in Attempts : run[b].pc \in {"append", "remove"} => b = a
        BY <1>3, <2>1
      <3>8. Accounted'
        BY <1>1, <2>1, <3>3, <3>4, <3>7 DEF NoFault, todo
      <3> QED
        BY <1>1, <2>1, <2>3, <2>5, <3>5, <3>6, <3>8 DEF NoFault, job
    <2> QED
      BY <2>1, <2>4, <2>5
  <1>9. CASE RemovePhotos(a)
    <2>1. /\ UNCHANGED <<listing, job, request>> /\ run[a].pc = "remove"
          /\ \/ faults' = faults /\ stored' = stored \ run[a].todo
             \/ /\ faults' = faults + 1
                /\ stored \ run[a].todo \subseteq stored' /\ stored' \subseteq stored
      BY <1>9 DEF RemovePhotos, NoFault, Fault, Counted
    <2>2. /\ \A b \in Attempts : b # a => run'[b] = run[b]
          /\ run'[a].pc = "finish"
      BY <1>2, <1>9 DEF RemovePhotos, GoOn
    <2>3. \A b \in Attempts : b # a => run'[b].pc = "idle" /\ run[b].pc = "idle"
      BY <1>3, <2>1, <2>2
    <2>4. faults \in Nat
      BY <1>1, SizesAssumption DEF TypeOK
    <2>5. stored \ run[a].todo \subseteq stored' /\ stored' \subseteq stored
      BY <2>1
    <2>6. faults' = 0 => faults = 0 /\ stored' = stored \ run[a].todo
      BY <2>1, <2>4
    <2>7. AllStored'
      BY <1>1, <2>1, <2>5 DEF listing
    <2>8. Uploaded'
      BY <1>1, <1>2, <2>1, <2>2, <2>3, <2>5 DEF listing
    <2>9. Accounted'
      BY <1>1, <2>1, <2>2, <2>3, <2>6 DEF listing
    <2> QED
      BY <1>1, <2>1, <2>2, <2>3, <2>7, <2>8, <2>9 DEF listing, job
  \* The attempt ends, with nothing in its hands.
  <1>10. CASE /\ NoFault \/ Fault("crash")
              /\ UNCHANGED <<listing, stored, request>> /\ run[a].pc # "idle" /\ End(a)
              /\ NoFault => run[a].pc \in {"read", "upload", "finish"}
    <2>1. run'[a].pc = "idle" /\ \A b \in Attempts : b # a => run'[b] = run[b]
      BY <1>2, <1>10 DEF End, NoRun
    <2>2. \A b \in Attempts : run'[b].pc = "idle"
      BY <1>3, <1>10, <2>1
    <2>3. faults' = 0 => NoFault /\ faults = 0
      BY <1>1, <1>10, SizesAssumption DEF TypeOK, NoFault, Fault, Counted
    <2>4. Accounted'
      BY <1>1, <1>3, <1>10, <2>2, <2>3 DEF listing
    <2> QED
      BY <1>1, <1>10, <2>2, <2>4 DEF listing
  <1>11. CASE CompleteImages(a) \/ StopWhenLost(a) \/ CrashWorker(a)
    <2>1. CASE CompleteImages(a)
      BY <1>10, <2>1 DEF CompleteImages
    <2>2. CASE StopWhenLost(a)
      BY <1>10, <2>2 DEF StopWhenLost, listing
    <2>3. CASE CrashWorker(a)
      <3>1. ~NoFault
        BY <1>1, <2>3, SizesAssumption DEF CrashWorker, Fault, Counted, NoFault, TypeOK
      <3> QED
        BY <1>10, <2>3, <3>1 DEF CrashWorker
    <2> QED
      BY <1>11, <2>1, <2>2, <2>3
  <1> QED
    BY <1>4, <1>5, <1>6, <1>7, <1>8, <1>9, <1>11 DEF Work

\* Requests that only add or delete with the listing show what is in storage,
\* and delete what is shown no more.
LEMMA ServeStorage ==
  ASSUME StorageInv, ~disturbed, ~disturbed', NEW r \in Requests, Serve(r)
  PROVE  (Alone /\ AddsOnly /\ Unshown /\ Uploaded /\ AllStored /\ Accounted)'
  <1>1. /\ Alone /\ AddsOnly /\ Unshown /\ Uploaded /\ AllStored /\ Accounted
        /\ TypeOK /\ UNCHANGED <<job, run>>
    BY ServeStep DEF StorageInv
  <1>2. /\ request \in [Requests -> Request]
        /\ \A a \in Attempts : run[a].pc \in {"upload", "append", "remove"} =>
             \A k \in run[a].todo : k \notin Requests
        /\ ~listed => images = {}
        /\ faults \in Nat /\ request[r].pc # "failed"
    BY <1>1, NamesAssumption, SizesAssumption DEF TypeOK, AddsOnly
  <1>3. Alone'
    BY <1>1 DEF Alone, Holds, job
  <1> USE DEF AddsOnly, Unshown, Absent, Uploaded, AllStored, Accounted, Tended
  \* A step of the request, or a fault that ends it.
  <1>4. ASSUME NEW pc, Continue(r, pc)
        PROVE  /\ \A q \in Requests : q # r => request'[q] = request[q]
               /\ request'[r].pc = pc /\ request'[r].seen = request[r].seen
    BY <1>2, <1>4 DEF Continue, Request
  <1>5. CASE StartAdd(r)
    <2>1. Continue(r, "put") /\ NoFault /\ UNCHANGED <<listing, stored>> /\ request[r].pc = "new"
      BY <1>5 DEF StartAdd, Begins
    <2> QED
      BY <1>1, <1>3, <1>4, <2>1 DEF NoFault, listing
  <1>6. CASE PutObject(r)
    <2>1. /\ UNCHANGED listing /\ request[r].pc = "put" /\ stored \subseteq stored'
          /\ \/ faults' = faults /\ stored' = stored \cup {r} /\ Continue(r, "push")
             \/ faults' = faults + 1 /\ Continue(r, "done")
      BY <1>6 DEF PutObject, NoFault, Fault, Counted
    <2>2. \A q \in Requests : request'[q].pc = request[q].pc \/ (q = r /\ request'[r].pc \in {"push", "done"})
      BY <1>4, <2>1
    <2>3. Uploaded'
      BY <1>1, <1>4, <2>1 DEF listing
    <2>4. Accounted'
      <3>1. SUFFICES ASSUME faults' = 0 PROVE \A k \in stored' : Tended(k)'
        OBVIOUS
      <3>2. faults = 0 /\ stored' = stored \cup {r} /\ Continue(r, "push")
        BY <1>2, <2>1, <3>1
      <3> QED
        BY <1>1, <1>4, <2>1, <3>2 DEF listing
    <2> QED
      BY <1>1, <1>2, <1>3, <1>4, <2>1, <2>2, <2>3, <2>4 DEF listing
  <1>7. CASE PushImage(r)
    <2>1. /\ NoFault /\ UNCHANGED <<listed, stored>> /\ request[r].pc = "push"
          /\ \/ listed /\ images' = images \cup {Entry(r)} /\ Continue(r, "done")
             \/ images' = images /\ Continue(r, "discard")
      BY <1>7 DEF PushImage
    <2>2. CASE images' = images /\ Continue(r, "discard")
      BY <1>1, <1>3, <1>4, <2>1, <2>2 DEF NoFault
    <2>3. CASE listed /\ images' = images \cup {Entry(r)} /\ Continue(r, "done")
      <3>1. Entry(r).key = r
        BY DEF Entry
      <3>2. /\ \A e \in images' : e \in images \/ e.key = r
            /\ images \subseteq images' /\ \E e \in images' : e.key = r
        BY <2>3, <3>1
      <3>3. r \in stored
        BY <1>1, <2>1, <2>3
      <3>4. Unshown'
        BY <1>1, <1>2, <1>4, <2>1, <2>3, <3>2
      <3>5. Accounted'
        BY <1>1, <1>4, <2>1, <2>3, <3>2 DEF NoFault
      <3> QED
        BY <1>1, <1>3, <1>4, <2>1, <2>3, <3>2, <3>3, <3>4, <3>5
    <2> QED
      BY <2>1, <2>2, <2>3
  <1>8. CASE Discard(r)
    <2>1. /\ UNCHANGED listing /\ request[r].pc = "discard" /\ Continue(r, "done")
          /\ \/ faults' = faults /\ stored' = stored \ {r}
             \/ faults' = faults + 1 /\ stored' = stored
      BY <1>8 DEF Discard, NoFault, Fault, Counted
    <2>2. faults' = 0 => faults = 0 /\ stored' = stored \ {r}
      BY <1>2, <2>1
    <2>3. Accounted'
      BY <1>1, <1>4, <2>1, <2>2 DEF listing
    <2>4. Uploaded'
      <3>1. \A a \in Attempts : run[a].pc = "append" => r \notin run[a].todo
        BY <1>2
      <3> QED
        BY <1>1, <1>4, <2>1, <3>1 DEF listing
    <2>5. AllStored'
      BY <1>1, <2>1 DEF listing
    <2> QED
      BY <1>1, <1>3, <1>4, <2>1, <2>3, <2>4, <2>5 DEF listing
  <1>9. CASE DeleteListing(r)
    <2>1. /\ NoFault /\ UNCHANGED stored /\ listed' = FALSE /\ images' = {}
          /\ request[r].pc = "new"
          /\ \A q \in Requests : q # r => request'[q] = request[q]
          /\ request'[r].pc = "purge" /\ request'[r].seen = images
      BY <1>2, <1>9 DEF DeleteListing, Begins, Request
    <2>2. Accounted'
      BY <1>1, <2>1 DEF NoFault
    <2> QED
      BY <1>1, <1>3, <2>1, <2>2
  <1>10. CASE Purge(r)
    <2> DEFINE gone == KeysOf(request[r].seen)
    <2>1. /\ UNCHANGED listing /\ request[r].pc = "purge" /\ Continue(r, "done")
          /\ \/ faults' = faults /\ stored' = stored \ gone
             \/ faults' = faults + 1
      BY <1>10 DEF Purge, NoFault, Fault, Counted
    <2>2. ~listed /\ images = {}
      BY <1>1, <1>2, <2>1
    <2>3. faults' = 0 => faults = 0 /\ stored' = stored \ gone
      BY <1>2, <2>1
    <2>4. \A k : k \in gone <=> \E e \in request[r].seen : e.key = k
      BY DEF KeysOf
    <2> HIDE DEF gone
    <2>5. Accounted'
      BY <1>1, <1>4, <2>1, <2>3, <2>4 DEF listing
    <2> QED
      BY <1>1, <1>3, <1>4, <2>1, <2>2, <2>5 DEF listing
  <1>11. CASE CrashBackend(r)
    <2>1. UNCHANGED <<listing, stored>> /\ Continue(r, "done") /\ faults' = faults + 1
      BY <1>11 DEF CrashBackend, Fault, Counted
    <2>2. faults' # 0
      BY <1>2, <2>1
    <2> QED
      BY <1>1, <1>3, <1>4, <2>1, <2>2 DEF listing
  \* These disturb, or follow on one that did.
  <1>12. ~((\E e \in images : RemoveImage(r, e)) \/ StartReorder(r) \/ StartBulkDelete(r))
    BY DEF RemoveImage, StartReorder, StartBulkDelete, Disturbs
  <1>13. ~(DeleteObject(r) \/ RestoreImage(r) \/ Normalize(r) \/ SaveOrder(r) \/ DeleteMany(r))
    BY <1>1 DEF DeleteObject, RestoreImage, Normalize, SaveOrder, WriteBack, DeleteMany
  <1> QED
    BY <1>5, <1>6, <1>7, <1>8, <1>9, <1>10, <1>11, <1>12, <1>13 DEF Serve

\* StorageInv is inductive.
LEMMA StorageStep ==
  ASSUME StorageInv, [Next]_vars
  PROVE  StorageInv'
  <1> DEFINE Parts == Alone /\ AddsOnly /\ Unshown /\ Uploaded /\ AllStored /\ Accounted
  <1>1. TypeOK' /\ TypeOK
    BY TypeStep DEF StorageInv
  <1>2. SUFFICES ASSUME ~disturbed' PROVE Parts'
    BY <1>1 DEF StorageInv
  <1>3. CASE UNCHANGED vars
    BY <1>2, <1>3 DEF StorageInv, vars, listing, job, Alone, Holds, AddsOnly, Unshown, Absent,
                      Uploaded, AllStored, Accounted, Tended
  <1>4. CASE Next
    <2>1. ~disturbed
      BY <1>1, <1>2, <1>4, FaultStep
    <2>2. ASSUME NEW a \in Attempts, Work(a) PROVE Parts'
      BY <1>2, <2>1, <2>2, WorkerStorage
    <2>3. ASSUME NEW r \in Requests, Serve(r) PROVE Parts'
      BY <1>2, <2>1, <2>3, ServeStorage
    <2>4. CASE RetryImages
      <3>1. UNCHANGED <<listed, images, stored, owner, run, request, faults>> /\ status = "failed"
        BY <2>4 DEF RetryImages, NoFault, listing
      <3> QED
        BY <2>1, <3>1 DEF StorageInv, Alone, Holds, AddsOnly, Unshown, Absent, Uploaded,
                          AllStored, Accounted, Tended
    <2> QED
      BY <1>4, <2>2, <2>3, <2>4 DEF Next
  <1> QED
    BY <1>3, <1>4

\* At first nothing is shown or stored.
LEMMA StorageInit ==
  ASSUME Init
  PROVE  StorageInv
  <1>1. TypeOK
    BY ArraysInit DEF ArraysInv
  <1> QED
    BY <1>1 DEF Init, StorageInv, NoRun, NewRequest, Alone, AddsOnly, Unshown, Absent, Uploaded,
                AllStored, Accounted, Tended

-----------------------------------------------------------------------------
(* The theorems. *)

\* Types hold whatever fails: any number of attempts and requests, all faults.
THEOREM PhotoTypes == Spec => []TypeOK
  <1>1. Init => TypeOK
    BY ArraysInit DEF ArraysInv
  <1>2. TypeOK /\ [Next]_vars => TypeOK'
    BY TypeStep
  <1> QED
    BY <1>1, <1>2, PTL DEF Spec

\* Until a failed deletion puts a photo back, no interleaving of worker attempts
\* and dealer requests takes a listing past the limit of photos or shows one twice.
THEOREM ArraysAreSound == Spec => []ArrayIsSound
  <1>1. Init => ArraysInv
    BY ArraysInit
  <1>2. ArraysInv /\ [Next]_vars => ArraysInv'
    BY ArraysStep
  <1>3. ArraysInv => PhotoLimit /\ DistinctKeys
    BY DEF ArraysInv, Arrays, Array, PhotoLimit, DistinctKeys
  <1>4. ArraysInv => ArrayIsSound
    BY <1>3 DEF ArrayIsSound
  <1> QED
    BY <1>1, <1>2, <1>4, PTL DEF Spec

\* Until attempts overlap or an array is written back, every photo shown is in
\* storage whatever crashes or fails; and when nothing failed, a completed upload
\* leaves no object behind that the listing does not show, though the listing was
\* full or was deleted meanwhile.
THEOREM StorageIsRight == Spec => []StorageMatches
  <1>1. Init => StorageInv
    BY StorageInit
  <1>2. StorageInv /\ [Next]_vars => StorageInv'
    BY StorageStep
  <1>3. ASSUME StorageInv PROVE StorageMatches
    <2>1. ShownExists
      BY <1>3 DEF StorageInv, ShownExists
    <2>2. ASSUME ~disturbed, faults = 0, Quiet, NEW k \in stored PROVE k \in KeysOf(images)
      <3>1. Tended(k)
        BY <1>3, <2>2 DEF StorageInv, Accounted
      <3> QED
        BY <2>2, <3>1 DEF Tended, Quiet, KeysOf
    <2> QED
      BY <2>1, <2>2 DEF StorageMatches, NoOrphans
  <1> QED
    BY <1>1, <1>2, <1>3, PTL DEF Spec

=============================================================================
