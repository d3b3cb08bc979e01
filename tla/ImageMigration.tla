----------------------------- MODULE ImageMigration -----------------------------
(***************************************************************************)
(* The maintenance command that moves the photos of a listing from the     *)
(* root of the bucket to listing-images/, gives each a small copy and      *)
(* records new URLs (apps/backend/src/scripts).  It may be stopped and run *)
(* again, with other options, while the dealer deletes a photo, which may  *)
(* fail.                                                                   *)
(***************************************************************************)
EXTENDS Naturals

CONSTANTS
  ImageCount,   \* photos of the listing, in their order
  Undecodable,  \* photos whose old object cannot be re-encoded
  RunOptions,   \* the options the command is run with
  MaxRuns,      \* bound on runs of the command
  MaxStops      \* bound on runs that are stopped

Images == 1..ImageCount

VARIABLES
  objects,    \* [Images -> what storage has: the old object, the full one and the small copy]
  listed,     \* [Images -> the entry in the listing: is it there, and its two URLs, by their base]
  script,     \* the run of the command
  deletion,   \* the dealer's request
  counts,     \* runs and stops so far
  left,       \* history: photos whose old object a run moved but left in place
  broken      \* history: photos that a deletion listed again, having removed some of their objects

migrationVars == <<objects, listed, script, deletion, counts, left, broken>>

Options == [dryRun : BOOLEAN, keepLegacy : BOOLEAN, publicUrl : BOOLEAN]
ASSUME MigrationAssumption ==
  /\ {ImageCount, MaxRuns, MaxStops} \subseteq Nat
  /\ Undecodable \subseteq Images /\ RunOptions \subseteq Options
NoOptions == [dryRun |-> FALSE, keepLegacy |-> FALSE, publicUrl |-> FALSE]
EntryAsStored == [there |-> TRUE, url |-> "api", thumbUrl |-> "none"]
AsStored == [p \in Images |-> EntryAsStored]
NoScript ==
  [pc |-> "idle", at |-> 1, thumbs |-> {}, failed |-> {}, options |-> NoOptions, read |-> AsStored,
   quiet |-> FALSE]
NoDeletion == [pc |-> "idle", photo |-> 0, entry |-> EntryAsStored, updated |-> AsStored]
\* The deletion changes nothing now.
Still == deletion.pc \in {"idle", "found", "done"}

\* Photos stored before the prefix existed, or before small copies did.
MigrationInit ==
  /\ objects \in [Images -> {{"legacy"}, {"full"}}]
  /\ listed = AsStored /\ script = NoScript /\ deletion = NoDeletion
  /\ counts = [runs |-> 0, stops |-> 0] /\ left = {} /\ broken = {}

-----------------------------------------------------------------------------
(* migrateListingImages: the listing as the cursor read it, photo by photo. *)

StepAt(n) == IF n > ImageCount THEN "urls" ELSE "look"

Start(options) ==
  /\ script.pc \in {"idle", "done"} /\ counts.runs < MaxRuns
  /\ script' = [pc |-> StepAt(1), at |-> 1, thumbs |-> {}, failed |-> {}, options |-> options,
                read |-> listed, quiet |-> Still]
  /\ counts' = [counts EXCEPT !.runs = @ + 1]
  /\ UNCHANGED <<objects, listed, deletion, left, broken>>

At(step) == script.pc = step
Photo == script.at
Base == IF script.options.publicUrl THEN "cdn" ELSE script.read[Photo].url

\* The script goes on to a step of this photo, or to the next one, with the small copies and the
\* failures it has noted.
Goes(step) == script' = [script EXCEPT !.pc = step]
Continues(thumbs, failed) ==
  script' = [script EXCEPT !.at = @ + 1, !.thumbs = thumbs, !.failed = failed, !.pc = StepAt(Photo + 1)]
Skips == Continues(script.thumbs, script.failed)
CountsFailed == Continues(script.thumbs, script.failed \cup {Photo})
\* newThumbUrls
NoteThumb ==
  Continues(IF script.read[Photo].thumbUrl = Base THEN script.thumbs ELSE script.thumbs \cup {Photo},
            script.failed)
Reads == UNCHANGED <<objects, listed, deletion, counts, left, broken>>

Look ==
  /\ At("look") /\ Reads
  /\ IF ~script.read[Photo].there THEN Skips
     ELSE IF "full" \in objects[Photo] THEN Goes("moved") ELSE Goes("legacy")

\* Moved before; it may lack the small copy.
AlreadyMoved ==
  /\ At("moved") /\ Reads
  /\ \/ script.read[Photo].thumbUrl = Base /\ "thumb" \in objects[Photo] /\ Skips
     \/ ~(script.read[Photo].thumbUrl = Base /\ "thumb" \in objects[Photo])
          /\ IF "full" \in objects[Photo] THEN Goes("thumb") ELSE Skips

ReadLegacy ==
  /\ At("legacy") /\ Reads
  /\ IF "legacy" \notin objects[Photo] THEN Skips
     ELSE IF Photo \in Undecodable THEN CountsFailed
     ELSE IF script.options.dryRun THEN Goes("thumb") ELSE Goes("write")

WriteFull ==
  /\ At("write")
  /\ objects' = [objects EXCEPT ![Photo] = @ \cup {"full"}]
  /\ left' = IF script.options.keepLegacy THEN left \cup {Photo} ELSE left
  /\ IF script.options.keepLegacy THEN Goes("thumb") ELSE Goes("remove")
  /\ UNCHANGED <<listed, deletion, counts, broken>>

RemoveLegacy ==
  /\ At("remove")
  /\ objects' = [objects EXCEPT ![Photo] = @ \ {"legacy"}]
  /\ Goes("thumb")
  /\ UNCHANGED <<listed, deletion, counts, left, broken>>

LookForThumb ==
  /\ At("thumb") /\ Reads
  /\ IF "thumb" \in objects[Photo] THEN NoteThumb ELSE Goes("small")

WithThumb == [objects EXCEPT ![Photo] = @ \cup {"thumb"}]
WriteThumb ==
  /\ At("small")
  /\ objects' = IF script.options.dryRun THEN objects ELSE WithThumb
  /\ NoteThumb
  /\ UNCHANGED <<listed, deletion, counts, left, broken>>

\* The small copy cannot be made or stored, or the answer to storing it is lost.
ThumbFails ==
  /\ At("small")
  /\ objects' = objects \/ (~script.options.dryRun /\ objects' = WithThumb)
  /\ CountsFailed
  /\ UNCHANGED <<listed, deletion, counts, left, broken>>

\* setImageUrls and setThumbUrls, each one update over the entries that are there by now.
RecordUrls ==
  /\ At("urls")
  /\ listed' = [p \in Images |->
       IF listed[p].there /\ script.read[p].there /\ script.options.publicUrl /\ ~script.options.dryRun
         THEN [listed[p] EXCEPT !.url = "cdn"] ELSE listed[p]]
  /\ Goes("thumbUrls")
  /\ UNCHANGED <<objects, deletion, counts, left, broken>>
RecordThumbUrls ==
  /\ At("thumbUrls")
  /\ listed' = [p \in Images |->
       IF listed[p].there /\ p \in script.thumbs /\ ~script.options.dryRun
         THEN [listed[p] EXCEPT !.thumbUrl = IF script.options.publicUrl THEN "cdn" ELSE script.read[p].url]
         ELSE listed[p]]
  /\ script' = [NoScript EXCEPT !.pc = "done", !.failed = script.failed, !.options = script.options,
                                !.quiet = script.quiet]
  /\ UNCHANGED <<objects, deletion, counts, left, broken>>

\* The operator, the host or an error of storage stops it.
Stops ==
  /\ script.pc \notin {"idle", "done"} /\ counts.stops < MaxStops
  /\ counts' = [counts EXCEPT !.stops = @ + 1]
  /\ script' = NoScript
  /\ left' = IF At("remove") THEN left \cup {Photo} ELSE left
  /\ UNCHANGED <<objects, listed, deletion, broken>>

-----------------------------------------------------------------------------
(* deleteDealerListingImage: the entry, the objects, and the other entries written back.  If storage
   fails, the entry is restored as it was read, while the calls that did not fail go on. *)

Disturbed == [script EXCEPT !.quiet = FALSE]

FindEntry(p) ==
  /\ deletion.pc = "idle" /\ listed[p].there
  /\ deletion' = [NoDeletion EXCEPT !.pc = "found", !.photo = p, !.entry = listed[p]]
  /\ UNCHANGED <<objects, listed, script, counts, left, broken>>
RemoveEntry ==
  /\ deletion.pc = "found"
  /\ listed' = [listed EXCEPT ![deletion.photo].there = FALSE]
  /\ deletion' = [deletion EXCEPT !.pc = "objects", !.updated = listed']
  /\ script' = Disturbed
  /\ UNCHANGED <<objects, counts, left, broken>>
DeleteObjects ==
  /\ deletion.pc = "objects"
  /\ objects' = [objects EXCEPT ![deletion.photo] = {}]
  /\ deletion' = [deletion EXCEPT !.pc = "reorder", !.entry = EntryAsStored]
  /\ UNCHANGED <<listed, script, counts, left, broken>>
WriteBack ==
  /\ deletion.pc = "reorder"
  /\ listed' = deletion.updated
  /\ deletion' = [NoDeletion EXCEPT !.pc = "done"]
  /\ script' = Disturbed
  /\ UNCHANGED <<objects, counts, left, broken>>

\* What storage has left of the photo.
Keeps(kept) ==
  /\ objects' = [objects EXCEPT ![deletion.photo] = kept]
  /\ broken' = IF kept = objects[deletion.photo] THEN broken ELSE broken \cup {deletion.photo}
DeletionFails ==
  /\ deletion.pc = "objects"
  /\ \E kept \in SUBSET objects[deletion.photo] : Keeps(kept)
  /\ deletion' = [deletion EXCEPT !.pc = "restore", !.updated = AsStored]
  /\ UNCHANGED <<listed, script, counts, left>>
RestoreEntry ==
  /\ deletion.pc = "restore"
  /\ listed' = [listed EXCEPT ![deletion.photo] = deletion.entry]
  /\ deletion' = [deletion EXCEPT !.pc = "late", !.entry = EntryAsStored]
  /\ script' = Disturbed
  /\ UNCHANGED <<objects, counts, left, broken>>
LateDelete ==
  /\ deletion.pc = "late"
  /\ \E kept \in SUBSET objects[deletion.photo] : Keeps(kept)
  /\ deletion' = [NoDeletion EXCEPT !.pc = "done"]
  /\ script' = Disturbed
  /\ UNCHANGED <<listed, counts, left>>

MigrationNext ==
  \/ \E options \in RunOptions : Start(options)
  \/ Look \/ AlreadyMoved \/ ReadLegacy \/ WriteFull \/ RemoveLegacy \/ LookForThumb
  \/ WriteThumb \/ ThumbFails \/ RecordUrls \/ RecordThumbUrls \/ Stops
  \/ (\E p \in Images : FindEntry(p)) \/ RemoveEntry \/ DeleteObjects \/ WriteBack
  \/ DeletionFails \/ RestoreEntry \/ LateDelete

-----------------------------------------------------------------------------
Entry == [there : BOOLEAN, url : {"api", "cdn"}, thumbUrl : {"none", "api", "cdn"}]
Listed == [Images -> Entry]
Script ==
  [pc : {"idle", "look", "moved", "legacy", "write", "remove", "thumb", "small", "urls", "thumbUrls", "done"},
   at : 1..(ImageCount + 1), thumbs : SUBSET Images, failed : SUBSET Images, options : Options,
   read : Listed, quiet : BOOLEAN]
Deletion ==
  [pc : {"idle", "found", "objects", "reorder", "restore", "late", "done"}, photo : 0..ImageCount,
   entry : Entry, updated : Listed]

MigrationTypeOK ==
  /\ objects \in [Images -> SUBSET {"legacy", "full", "thumb"}] /\ listed \in Listed
  /\ script \in Script /\ deletion \in Deletion
  /\ left \subseteq Images /\ broken \subseteq Images
  /\ counts \in [runs : 0..MaxRuns, stops : 0..MaxStops]

\* Wherever the command is stopped, and whatever the dealer deletes, a small copy that a listing
\* names is in storage: the URL is recorded after the object.  A deletion that failed half-way is
\* excepted, here and below.
ThumbsExist == \A p \in Images \ broken :
  listed[p].there /\ listed[p].thumbUrl # "none" => "thumb" \in objects[p]

\* "Idempotent": a run that ended, after any others, has moved each photo but those it counted as
\* failed, with a small copy and both URLs at one base, unless the dealer came between.
Complete == At("done") /\ ~script.options.dryRun /\ script.quiet
RunsMoveAll == Complete => \A p \in Images \ script.failed : listed[p].there =>
  /\ "legacy" \in objects[p] => p \in left \/ script.options.keepLegacy
  /\ "full" \in objects[p] => "thumb" \in objects[p] /\ listed[p].thumbUrl = listed[p].url

\* A photo is moved, never lost: as long as the listing shows it, it has an object.
PhotosStay == \A p \in Images \ broken : listed[p].there => objects[p] \cap {"legacy", "full"} # {}

\* What migrateListingImages.ts:7-10 says: another run deletes what --keep-legacy left, and stopping is safe.
NothingStays == Complete /\ ~script.options.keepLegacy => \A p \in Images :
  "legacy" \in objects[p] => p \in script.failed

\* The command moves photos and records true URLs, whenever it is stopped or the dealer intervenes.
PhotosMove == PhotosStay /\ ThumbsExist /\ RunsMoveAll
=============================================================================
