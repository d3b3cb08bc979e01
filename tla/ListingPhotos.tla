----------------------------- MODULE ListingPhotos -----------------------------
(***************************************************************************)
(* The photos of one listing: the images array of its document and the     *)
(* objects in storage.  The worker attaches the photos of the upload's     *)
(* archive (processInventoryImages) while the dealer adds, deletes and     *)
(* reorders photos, or deletes the listing (listingImage.service.ts,       *)
(* listing.service.ts of the backend).  Both write document and storage    *)
(* in separate steps, and nothing but the filters of the updates keeps     *)
(* them apart.                                                             *)
(*                                                                         *)
(* The order of the photos is left out: the array is a set of entries, and *)
(* saving an order writes back the set that was read.                      *)
(***************************************************************************)
EXTENDS Naturals, FiniteSets

CONSTANTS
  Attempts,     \* worker attempts that may run at once
  NoAttempt,
  Requests,     \* requests of the dealer, each made at most once
  PhotoCount,   \* photos of the archive for this listing
  MaxImages,    \* MAX_LISTING_IMAGES
  Ops,          \* what the dealer does: subset of AllOps
  Faults,       \* subset of AllFaults
  MaxFaults     \* bound on faults

AllOps == {"add", "delete", "reorder", "deleteListing", "bulkDelete"}
AllFaults == {"crash", "takeover", "storage"}

\* deterministicImageKey: the same photo of the archive has the same key in
\* every attempt.  A photo the dealer adds gets a new key, named here by the
\* request.
ArchiveKeys == 1..PhotoCount
Keys == ArchiveKeys \cup Requests

ASSUME NamesAssumption == NoAttempt \notin Attempts /\ ArchiveKeys \cap Requests = {}
ASSUME SizesAssumption == PhotoCount \in Nat /\ MaxImages \in Nat \ {0} /\ MaxFaults \in Nat
ASSUME OpsAssumption == Ops \subseteq AllOps /\ Faults \subseteq AllFaults

VARIABLES
  listed,    \* the listing exists
  images,    \* entries of its array
  stored,    \* keys whose objects are in storage
  status,    \* of the photo stage of the upload
  owner,     \* the attempt whose token the job holds
  run,       \* [Attempts -> Run]
  request,   \* [Requests -> Request]
  disturbed,  \* attempts overlapped or arrays were written back, history
  faults

listing == <<listed, images>>
job == <<status, owner>>
vars == <<listing, stored, job, run, request, disturbed, faults>>

\* A key that a failed deletion put back beside the same key is a second entry.
Entries == [key : Keys, restored : BOOLEAN]
Entry(k) == [key |-> k, restored |-> FALSE]
KeysOf(S) == {e.key : e \in S}
Without(S, k) == {e \in S : e.key # k}

Run == [pc : {"idle", "read", "upload", "append", "remove", "finish"}, todo : SUBSET Keys]
NoRun == [pc |-> "idle", todo |-> {}]

\* seen is the array as the request's last query or update returned it.
Request ==
  [pc : {"new", "put", "push", "discard", "unlink", "restore", "normalize",
         "write", "deleteMany", "purge", "done", "failed"},
   key : Keys, seen : SUBSET Entries]
NewRequest(r) == [pc |-> "new", key |-> r, seen |-> {}]

TypeOK ==
  /\ listed \in BOOLEAN /\ images \in SUBSET Entries
  /\ ~listed => images = {}
  /\ stored \in SUBSET Keys
  /\ status \in {"pending", "processing", "completed", "failed"}
  /\ owner \in Attempts \cup {NoAttempt}
  /\ status = "processing" => owner \in Attempts
  /\ run \in [Attempts -> Run]
  /\ \A a \in Attempts : run[a].pc \in {"upload", "append", "remove"} =>
       run[a].todo # {} /\ run[a].todo \subseteq ArchiveKeys
  /\ request \in [Requests -> Request]
  /\ disturbed \in BOOLEAN /\ faults \in 0..MaxFaults

Init ==
  /\ listed = TRUE /\ images = {} /\ stored = {}
  /\ status = "pending" /\ owner = NoAttempt
  /\ run = [a \in Attempts |-> NoRun]
  /\ request = [r \in Requests |-> NewRequest(r)]
  /\ disturbed = FALSE /\ faults = 0

Counted(kind) == kind \in Faults /\ faults < MaxFaults /\ faults' = faults + 1
Fault(kind) == Counted(kind) /\ UNCHANGED disturbed
Takeover == Counted("takeover") /\ disturbed' = TRUE
NoFault == UNCHANGED <<faults, disturbed>>
Disturbs == UNCHANGED faults /\ disturbed' = TRUE

-----------------------------------------------------------------------------
(* The worker. *)

Holds(a) == status = "processing" /\ owner = a
End(a) == run' = [run EXCEPT ![a] = NoRun]
GoOn(a, pc) == run' = [run EXCEPT ![a].pc = pc]

\* A lease runs out because its attempt is gone, or (a fault) under an attempt
\* that still runs.
Claim(a) ==
  /\ run[a].pc = "idle"
  /\ \/ status = "pending" /\ NoFault
     \/ status = "processing" /\ run[owner].pc = "idle" /\ NoFault
     \/ status = "processing" /\ run[owner].pc # "idle" /\ Takeover
  /\ status' = "processing" /\ owner' = a
  /\ GoOn(a, "read")
  /\ UNCHANGED <<listing, stored, request>>

\* The photos of the archive that the listing does not show, as many as fit.
ToAttach ==
  LET missing == ArchiveKeys \ KeysOf(images) IN
  {k \in missing : Cardinality({j \in missing : j < k}) + Cardinality(images) < MaxImages}

\* Variants: with nothing to attach the upload goes on, and photos attached by
\* an earlier attempt are not recognised.
FindListings_NeverSkips(a) ==
  /\ run[a].pc = "read"
  /\ run' = [run EXCEPT ![a] = [pc |-> "upload", todo |-> ToAttach]]
  /\ NoFault /\ UNCHANGED <<listing, stored, job, request>>
FindListings_Forgetful(a) ==
  /\ run[a].pc = "read"
  /\ IF listed /\ ArchiveKeys # {}
       THEN run' = [run EXCEPT ![a] = [pc |-> "upload", todo |-> ArchiveKeys]]
       ELSE GoOn(a, "finish")
  /\ NoFault /\ UNCHANGED <<listing, stored, job, request>>

FindListings(a) ==
  /\ run[a].pc = "read"
  /\ IF listed /\ ToAttach # {}
       THEN run' = [run EXCEPT ![a] = [pc |-> "upload", todo |-> ToAttach]]
       ELSE GoOn(a, "finish")
  /\ NoFault /\ UNCHANGED <<listing, stored, job, request>>

UploadPhotos(a) ==
  /\ run[a].pc = "upload"
  /\ stored' = stored \cup run[a].todo
  /\ GoOn(a, "append")
  /\ NoFault /\ UNCHANGED <<listing, job, request>>

\* Some objects were written before one failed.  The error is temporary with
\* attempts left, or the stage fails.
UploadFails(a) ==
  /\ run[a].pc = "upload" /\ Fault("storage")
  /\ \E written \in SUBSET run[a].todo : stored' = stored \cup written
  /\ IF Holds(a)
       THEN status' \in {"pending", "failed"} /\ owner' = NoAttempt
       ELSE UNCHANGED job
  /\ End(a)
  /\ UNCHANGED <<listing, request>>

\* Variant: room for one photo is taken for room for all.
AppendPhotos_RoomForOne(a) ==
  /\ run[a].pc = "append"
  /\ IF listed /\ KeysOf(images) \cap run[a].todo = {} /\ Cardinality(images) < MaxImages
       THEN images' = images \cup {Entry(k) : k \in run[a].todo} /\ GoOn(a, "finish")
       ELSE UNCHANGED images /\ GoOn(a, "remove")
  /\ NoFault /\ UNCHANGED <<listed, stored, job, request>>

AppendPhotos(a) ==
  /\ run[a].pc = "append"
  /\ IF /\ listed
        /\ KeysOf(images) \cap run[a].todo = {}
        /\ Cardinality(images) + Cardinality(run[a].todo) <= MaxImages
       THEN images' = images \cup {Entry(k) : k \in run[a].todo} /\ GoOn(a, "finish")
       ELSE UNCHANGED images /\ GoOn(a, "remove")
  /\ NoFault /\ UNCHANGED <<listed, stored, job, request>>

\* Failed deletions are ignored.
RemovePhotos(a) ==
  /\ run[a].pc = "remove"
  /\ \/ NoFault /\ stored' = stored \ run[a].todo
     \/ /\ Fault("storage")
        /\ \E removed \in SUBSET run[a].todo : stored' = stored \ removed
  /\ GoOn(a, "finish")
  /\ UNCHANGED <<listing, job, request>>

CompleteImages(a) ==
  /\ run[a].pc = "finish"
  /\ IF Holds(a) THEN status' = "completed" /\ owner' = NoAttempt ELSE UNCHANGED job
  /\ End(a)
  /\ NoFault /\ UNCHANGED <<listing, stored, request>>

\* assertHeld, after a renewal found another owner.
StopWhenLost(a) ==
  /\ run[a].pc \in {"upload", "finish"} /\ ~Holds(a)
  /\ End(a)
  /\ NoFault /\ UNCHANGED <<listing, stored, job, request>>

CrashWorker(a) ==
  /\ run[a].pc # "idle" /\ Fault("crash")
  /\ End(a)
  /\ UNCHANGED <<listing, stored, job, request>>

RetryImages ==
  /\ status = "failed"
  /\ status' = "pending"
  /\ NoFault /\ UNCHANGED <<listing, stored, owner, run, request>>

-----------------------------------------------------------------------------
(* The dealer's requests.  One that is refused at its first query changes   *)
(* nothing and is left out.                                                 *)

Begins(r, op) == request[r].pc = "new" /\ op \in Ops /\ listed
Continue(r, pc) == request' = [request EXCEPT ![r].pc = pc]

StartAdd(r) ==
  /\ Begins(r, "add") /\ Cardinality(images) < MaxImages
  /\ Continue(r, "put")
  /\ NoFault /\ UNCHANGED <<listing, stored, job, run>>

\* When an upload fails its objects are deleted, or what can be of them.
PutObject(r) ==
  /\ request[r].pc = "put"
  /\ \/ NoFault /\ stored' = stored \cup {r} /\ Continue(r, "push")
     \/ Fault("storage") /\ stored' \in {stored, stored \cup {r}} /\ Continue(r, "done")
  /\ UNCHANGED <<listing, job, run>>

PushImage(r) ==
  /\ request[r].pc = "push"
  /\ IF listed /\ Cardinality(images) < MaxImages
       THEN images' = images \cup {Entry(r)} /\ Continue(r, "done")
       ELSE UNCHANGED images /\ Continue(r, "discard")
  /\ NoFault /\ UNCHANGED <<listed, stored, job, run>>

Discard(r) ==
  /\ request[r].pc = "discard"
  /\ \/ NoFault /\ stored' = stored \ {r}
     \/ Fault("storage") /\ UNCHANGED stored
  /\ Continue(r, "done")
  /\ UNCHANGED <<listing, job, run>>

\* The query before the update only supplies the entry, which never changes.
RemoveImage(r, e) ==
  /\ Begins(r, "delete")
  /\ images' = Without(images, e.key)
  /\ request' = [request EXCEPT ![r] = [pc |-> "unlink", key |-> e.key, seen |-> images']]
  /\ Disturbs /\ UNCHANGED <<listed, stored, job, run>>

\* The photo and its small copy are deleted at once, and one may succeed when
\* the other fails.
DeleteObject(r) ==
  /\ request[r].pc = "unlink"
  /\ \/ NoFault /\ stored' = stored \ {request[r].key} /\ Continue(r, "normalize")
     \/ /\ Fault("storage")
        /\ stored' \in {stored, stored \ {request[r].key}}
        /\ Continue(r, "restore")
  /\ UNCHANGED <<listing, job, run>>

RestoreImage(r) ==
  /\ request[r].pc = "restore"
  /\ images' = IF listed THEN images \cup {[key |-> request[r].key, restored |-> TRUE]} ELSE images
  /\ Continue(r, "failed")
  /\ NoFault /\ UNCHANGED <<listed, stored, job, run>>

\* reorderOwnedListingImages, with the array read before.
WriteBack(r, pc) ==
  /\ request[r].pc = pc
  /\ images' = IF listed THEN request[r].seen ELSE images
  /\ Continue(r, "done")
  /\ NoFault /\ UNCHANGED <<listed, stored, job, run>>
Normalize(r) == WriteBack(r, "normalize")
SaveOrder(r) == WriteBack(r, "write")

\* The order must name every key once, which no order does of an array that
\* holds a key twice.
StartReorder(r) ==
  /\ Begins(r, "reorder") /\ images # {}
  /\ Cardinality(KeysOf(images)) = Cardinality(images)
  /\ request' = [request EXCEPT ![r].pc = "write", ![r].seen = images]
  /\ Disturbs /\ UNCHANGED <<listing, stored, job, run>>

DeleteListing(r) ==
  /\ Begins(r, "deleteListing")
  /\ listed' = FALSE /\ images' = {}
  /\ request' = [request EXCEPT ![r].pc = "purge", ![r].seen = images]
  /\ NoFault /\ UNCHANGED <<stored, job, run>>

\* The bulk action, on a listing that is archived and stays so.
StartBulkDelete(r) ==
  /\ Begins(r, "bulkDelete")
  /\ request' = [request EXCEPT ![r].pc = "deleteMany", ![r].seen = images]
  /\ Disturbs /\ UNCHANGED <<listing, stored, job, run>>
DeleteMany(r) ==
  /\ request[r].pc = "deleteMany"
  /\ listed' = FALSE /\ images' = {}
  /\ Continue(r, "purge")
  /\ NoFault /\ UNCHANGED <<stored, job, run>>

Purge(r) ==
  /\ request[r].pc = "purge"
  /\ \/ NoFault /\ stored' = stored \ KeysOf(request[r].seen)
     \/ /\ Fault("storage")
        /\ \E removed \in SUBSET KeysOf(request[r].seen) : stored' = stored \ removed
  /\ Continue(r, "done")
  /\ UNCHANGED <<listing, job, run>>

CrashBackend(r) ==
  /\ request[r].pc \notin {"new", "done", "failed"} /\ Fault("crash")
  /\ Continue(r, "done")
  /\ UNCHANGED <<listing, stored, job, run>>

-----------------------------------------------------------------------------
Work(a) ==
  \/ Claim(a) \/ FindListings(a) \/ UploadPhotos(a) \/ UploadFails(a)
  \/ AppendPhotos(a) \/ RemovePhotos(a) \/ CompleteImages(a)
  \/ StopWhenLost(a) \/ CrashWorker(a)

Serve(r) ==
  \/ StartAdd(r) \/ PutObject(r) \/ PushImage(r) \/ Discard(r)
  \/ (\E e \in images : RemoveImage(r, e)) \/ DeleteObject(r) \/ RestoreImage(r)
  \/ Normalize(r) \/ StartReorder(r) \/ SaveOrder(r)
  \/ DeleteListing(r) \/ StartBulkDelete(r) \/ DeleteMany(r) \/ Purge(r)
  \/ CrashBackend(r)

Next ==
  \/ \E a \in Attempts : Work(a)
  \/ \E r \in Requests : Serve(r)
  \/ RetryImages

Spec == Init /\ [][Next]_vars

-----------------------------------------------------------------------------
(* Whatever overlaps and fails, until a photo whose deletion failed is put   *)
(* back, which looks at nothing.                                            *)

NothingPutBack == \A r \in Requests : request[r].pc # "failed"

\* The limit of photos holds although the worker and several requests count at
\* one time and write at another, and saved orders bring old arrays back.
PhotoLimit == NothingPutBack => Cardinality(images) <= MaxImages

\* No photo is shown twice: overlapping attempts do not attach it again, and no
\* saved order brings it back beside itself.
DistinctKeys == NothingPutBack => \A d, e \in images : d.key = e.key => d = e

\* The array of photos is sound: short enough, and without duplicates.
ArrayIsSound == PhotoLimit /\ DistinctKeys

-----------------------------------------------------------------------------
(* Until attempts overlap, or the dealer does more than add photos or delete *)
(* the listing.                                                             *)

\* Every photo that the listing shows is in storage, whatever crashes or fails.
AllStored == \A e \in images : e.key \in stored
ShownExists == ~disturbed => AllStored

\* If nothing failed, then once the photo stage is completed and nothing is
\* under way storage holds nothing that no listing shows, whether photos were
\* refused meanwhile or the listing was deleted.
Quiet ==
  /\ status = "completed"
  /\ \A a \in Attempts : run[a].pc = "idle"
  /\ \A r \in Requests : request[r].pc \in {"new", "done", "failed"}
NoOrphans == ~disturbed /\ faults = 0 /\ Quiet => stored \subseteq KeysOf(images)

\* Storage and the listing agree: nothing shown is missing, nothing is left over.
StorageMatches == ShownExists /\ NoOrphans

\* The worker removes only objects that no listing shows, overlapped or not.
NoneRemovedWhileShown == AllStored
=============================================================================
