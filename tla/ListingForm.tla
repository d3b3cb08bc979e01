------------------------------ MODULE ListingForm ------------------------------
(***************************************************************************)
(* The photos of a dealer's listing form, ListingForm (apps/frontend/src/  *)
(* portals/dealer/pages): chosen, cropped one by one in ImageCropModal,    *)
(* stored one by one after the listing was saved, and removed or moved     *)
(* when the listing is edited.  Fields are those of VehicleRules.          *)
(***************************************************************************)
EXTENDS Naturals, Sequences, SequencesExt

CONSTANTS
  PhotoCount,     \* bound: photos the dealer chooses
  OldCount,       \* photos of a listing that is edited
  MaxImages,      \* photos the server stores of a listing
  AskCount,       \* bound: requests of the photos shown that are under way at once
  MaxAsks,        \* bound on such requests
  MaxFormFaults   \* bound on failed requests and lost answers

ASSUME ListingFormAssumption ==
  /\ {PhotoCount, OldCount, MaxImages, AskCount, MaxAsks, MaxFormFaults} \subseteq Nat
  /\ OldCount <= MaxImages /\ AskCount # 0

VARIABLES
  editing,      \* the page has a listingId
  savedId,      \* savedListingId is known
  chosenSoFar,  \* photos chosen up to now
  cropper,      \* cropQueue, croppedSoFar and the picture the modal opened with
  images,       \* photos to be stored, with the picture each holds
  saving,       \* the submission: its step, the photos left of its closure and all of them
  formSays,     \* error and successMessage
  existing,     \* existingImages
  asks,         \* [1..AskCount -> a request of a load, a removal or a new order]
  formLeft,     \* the page was left
  listed,       \* the server has the listing
  stored,       \* its photos
  formHistory   \* for the properties, and the bounds

photoPage == <<editing, savedId, chosenSoFar, cropper, images, saving, formSays, existing, asks, formLeft>>
listingFormVars == <<photoPage, listed, stored, formHistory>>

Photos == 1..PhotoCount
OldPhotos == PhotoCount + 1 .. PhotoCount + OldCount
Photo == [file : Photos, picture : Photos]
NoAsk == [op |-> "none", pc |-> "idle", keys |-> <<>>, at |-> 0]
NotSaving == [pc |-> "idle", left |-> <<>>, batch |-> {}]
NoCropper == [queue |-> <<>>, done |-> <<>>, picture |-> 0]
Files(photos) == {photos[i].file : i \in DOMAIN photos}

ListingFormTypeOK ==
  /\ {editing, savedId, formLeft, listed} \subseteq BOOLEAN
  /\ chosenSoFar \in 0..PhotoCount
  /\ IsInjective(images) /\ Range(images) \subseteq Photo
  /\ cropper.picture \in 0..PhotoCount /\ (cropper.queue = <<>> <=> cropper = NoCropper)
  /\ saving.pc \in {"idle", "save", "saved", "photo", "stored"} /\ Files(saving.left) \subseteq saving.batch
  /\ formSays \in {"nothing", "error", "success"}
  /\ Range(existing) \cup Range(stored) \subseteq Photos \cup OldPhotos /\ Len(stored) <= MaxImages
  /\ \A a \in DOMAIN asks : asks[a].pc \in {"idle", "sent", "done", "refused"}
  /\ (stored # <<>> => listed)

ListingFormInit ==
  /\ editing \in BOOLEAN /\ savedId = editing /\ listed = editing
  /\ stored = IF editing THEN [i \in 1..OldCount |-> PhotoCount + i] ELSE <<>>
  /\ chosenSoFar = 0 /\ cropper = NoCropper /\ images = <<>> /\ saving = NotSaving
  /\ formSays = "nothing" /\ existing = <<>> /\ formLeft = FALSE
  /\ asks = [a \in 1..AskCount |->
               IF a = 1 /\ editing THEN [NoAsk EXCEPT !.op = "load", !.pc = "sent"] ELSE NoAsk]
  /\ formHistory = [version |-> 0, seen |-> 0, asked |-> 0, faults |-> 0, unheard |-> FALSE,
                    crossed |-> FALSE, removed |-> {}, replaced |-> {}]

FormFault(unheard) ==
  /\ formHistory.faults < MaxFormFaults
  /\ formHistory' = [formHistory EXCEPT !.faults = @ + 1, !.unheard = @ \/ unheard]
ServerSame == UNCHANGED <<listed, stored>>

-----------------------------------------------------------------------------
(* Choosing and cropping.  The modal covers the page.  It creates the URL of *)
(* its picture once, when it is mounted, and stays mounted for the next one. *)

NotCovered == ~formLeft /\ cropper = NoCropper
CropPage == UNCHANGED <<editing, savedId, saving, formSays, existing, asks, formLeft, listed, stored>>

HandleFilesSelected ==
  /\ NotCovered /\ \A a \in DOMAIN asks : asks[a].op = "load" => asks[a].pc = "idle"
  /\ \E n \in 1..(PhotoCount - chosenSoFar) :
       /\ chosenSoFar' = chosenSoFar + n
       /\ cropper' = [queue |-> [i \in 1..n |-> chosenSoFar + i], done |-> <<>>, picture |-> chosenSoFar + 1]
  /\ CropPage /\ UNCHANGED <<images, formHistory>>

CropEnds(done) ==
  LET remaining == Tail(cropper.queue) IN
  /\ cropper' = IF remaining = <<>> THEN NoCropper ELSE [cropper EXCEPT !.queue = remaining, !.done = done]
  /\ IF remaining = <<>> /\ done # <<>>
       THEN images' = done /\ formHistory' = [formHistory EXCEPT !.replaced = @ \cup Files(images)]
       ELSE UNCHANGED <<images, formHistory>>
  /\ CropPage /\ UNCHANGED chosenSoFar
HandleCropConfirm ==
  /\ cropper # NoCropper
  /\ CropEnds(Append(cropper.done, [file |-> Head(cropper.queue), picture |-> cropper.picture]))
HandleCropSkip == cropper # NoCropper /\ CropEnds(cropper.done)

-----------------------------------------------------------------------------
(* handleSubmit: the listing, then the photos of this render one by one.     *)

HandleSubmit ==
  /\ NotCovered /\ saving.pc = "idle"
  /\ \A a \in DOMAIN asks : asks[a].op = "load" => asks[a].pc = "idle"
  /\ saving' = [pc |-> "save", left |-> images, batch |-> Files(images)]
  /\ formSays' = "nothing"
  /\ UNCHANGED <<editing, savedId, chosenSoFar, cropper, images, existing, asks, formLeft, listed, stored, formHistory>>
SubmitPage == UNCHANGED <<editing, chosenSoFar, cropper, existing, asks, formLeft>>

\* A second listing of the same registration number is refused.
ServerSaves ==
  /\ saving.pc = "save" /\ (savedId \/ ~listed)
  /\ listed' = TRUE /\ saving' = [saving EXCEPT !.pc = "saved"]
  /\ SubmitPage /\ UNCHANGED <<savedId, images, formSays, stored, formHistory>>
ServerStores ==
  /\ saving.pc = "photo" /\ Len(stored) < MaxImages
  /\ stored' = Append(stored, Head(saving.left).file) /\ saving' = [saving EXCEPT !.pc = "stored"]
  /\ formHistory' = [formHistory EXCEPT !.crossed = @ \/ editing]
  /\ SubmitPage /\ UNCHANGED <<savedId, images, formSays, listed>>

NextPhoto(left) ==
  IF left = <<>> THEN saving' = [saving EXCEPT !.pc = "idle", !.left = left] /\ formSays' = "success"
  ELSE saving' = [saving EXCEPT !.pc = "photo", !.left = left] /\ UNCHANGED formSays
ListingSaved ==
  /\ saving.pc = "saved"
  /\ savedId' = TRUE /\ NextPhoto(saving.left)
  /\ SubmitPage /\ ServerSame /\ UNCHANGED <<images, formHistory>>

\* Variant: the photos that were stored stay selected.
PhotoSaved_Kept ==
  /\ saving.pc = "stored"
  /\ NextPhoto(Tail(saving.left))
  /\ SubmitPage /\ ServerSame /\ UNCHANGED <<savedId, images, formHistory>>

\* The page filters by identity: a photo is selected in one place.
PhotoSaved ==
  /\ saving.pc = "stored"
  /\ images' = RemoveFirst(images, Head(saving.left))
  /\ NextPhoto(Tail(saving.left))
  /\ SubmitPage /\ ServerSame /\ UNCHANGED <<savedId, formHistory>>

\* Refused, never arrived, or done without an answer.
SubmitError ==
  /\ saving.pc # "idle"
  /\ \/ saving.pc = "save" /\ ~savedId /\ listed /\ UNCHANGED formHistory
     \/ saving.pc = "photo" /\ Len(stored) >= MaxImages /\ UNCHANGED formHistory
     \/ FormFault(saving.pc \in {"saved", "stored"})
  /\ saving' = [saving EXCEPT !.pc = "idle"] /\ formSays' = "error"
  /\ SubmitPage /\ ServerSame /\ UNCHANGED <<savedId, images>>

-----------------------------------------------------------------------------
(* The photos of a listing that is edited, and the ways out of the page.     *)

AskFor(a, op, keys) ==
  /\ asks[a].pc = "idle" /\ asks' = [asks EXCEPT ![a] = [op |-> op, pc |-> "sent", keys |-> keys, at |-> 0]]
AskPage ==
  /\ formHistory.asked < MaxAsks /\ formHistory' = [formHistory EXCEPT !.asked = @ + 1]
  /\ ServerSame /\ UNCHANGED <<savedId, chosenSoFar, cropper, images, saving, existing, formLeft>>
DeleteImage(a, i) ==
  /\ NotCovered /\ AskFor(a, "remove", <<existing[i]>>)
  /\ AskPage /\ UNCHANGED <<editing, formSays>>
MoveExistingImage(a, i) ==
  /\ NotCovered /\ i < Len(existing)
  /\ AskFor(a, "reorder", [existing EXCEPT ![i] = existing[i + 1], ![i + 1] = existing[i]])
  /\ formSays' = (IF formSays = "error" THEN "nothing" ELSE formSays)
  /\ AskPage /\ UNCHANGED editing
\* Retry images: the same page, which keeps its state and loads the listing.
RetryImages(a) ==
  /\ NotCovered /\ savedId /\ formSays = "error" /\ ~editing
  /\ editing' = TRUE /\ AskFor(a, "load", <<>>)
  /\ AskPage /\ UNCHANGED formSays

AskedPage == UNCHANGED <<editing, savedId, chosenSoFar, cropper, images, saving, formLeft, listed>>
Possible(ask) ==
  CASE ask.op = "remove" -> Range(ask.keys) \subseteq Range(stored)
    [] ask.op = "reorder" -> Len(ask.keys) = Len(stored) /\ Range(ask.keys) = Range(stored)
    [] OTHER -> TRUE
\* A key names one photo of the listing, so removing it removes one place.
Wanted(ask) ==
  CASE ask.op = "remove" -> RemoveFirst(stored, Head(ask.keys))
    [] ask.op = "reorder" -> ask.keys
    [] OTHER -> stored
ServerAnswers(a) ==
  /\ asks[a].pc = "sent"
  /\ IF Possible(asks[a])
       THEN /\ stored' = Wanted(asks[a])
            /\ asks' = [asks EXCEPT ![a].pc = "done", ![a].keys = stored', ![a].at = formHistory.version + 1]
            /\ formHistory' = [formHistory EXCEPT !.version = @ + 1,
                                 !.removed = @ \cup (Range(stored) \ Range(stored'))]
       ELSE asks' = [asks EXCEPT ![a].pc = "refused"] /\ UNCHANGED <<stored, formHistory>>
  /\ AskedPage /\ UNCHANGED <<formSays, existing>>

AnswerShown(a) ==
  /\ asks[a].pc = "done"
  /\ existing' = asks[a].keys /\ asks' = [asks EXCEPT ![a] = NoAsk]
  /\ formHistory' = [formHistory EXCEPT !.crossed = @ \/ asks[a].at < formHistory.seen, !.seen = asks[a].at]
  /\ AskedPage /\ UNCHANGED <<formSays, stored>>
AnswerFails(a) ==
  /\ \/ asks[a].pc = "refused" /\ UNCHANGED formHistory
     \/ asks[a].pc = "sent" /\ FormFault(asks[a].op = "load")
     \/ asks[a].pc = "done" /\ FormFault(TRUE)
  /\ asks' = [asks EXCEPT ![a] = NoAsk] /\ formSays' = "error"
  /\ AskedPage /\ UNCHANGED <<existing, stored>>

\* Cancel, or 600 ms after the listing was saved.
FormLeaves ==
  /\ ~formLeft /\ (formSays = "success" \/ NotCovered)
  /\ formLeft' = TRUE /\ cropper' = NoCropper
  /\ ServerSame /\ UNCHANGED <<editing, savedId, chosenSoFar, images, saving, formSays, existing, asks, formHistory>>

-----------------------------------------------------------------------------
SavingStep == ServerSaves \/ ListingSaved \/ ServerStores \/ PhotoSaved \/ SubmitError
AskStep(a) == ServerAnswers(a) \/ AnswerShown(a) \/ AnswerFails(a)
ListingFormNext ==
  \/ HandleFilesSelected \/ HandleCropConfirm \/ HandleCropSkip \/ HandleSubmit \/ FormLeaves
  \/ SavingStep
  \/ \E a \in 1..AskCount :
       \/ AskStep(a) \/ RetryImages(a)
       \/ \E i \in DOMAIN existing : DeleteImage(a, i) \/ MoveExistingImage(a, i)

ListingFormSpec == ListingFormInit /\ [][ListingFormNext]_listingFormVars

-----------------------------------------------------------------------------
\* However a submission failed half-way and was sent again, no photo is stored twice, unless
\* the answer to its upload was lost.
StoredOnce == ~formHistory.unheard => IsInjective(stored)

\* "Listing saved" is true of every photo of the submission, whatever was chosen meanwhile; and
\* after an error what is not stored is still selected, unless another choice replaced it.
NoneDropped ==
  saving.pc = "idle" =>
    \A f \in saving.batch :
      \/ f \in Range(stored) \cup formHistory.removed
      \/ formSays # "success" /\ f \in Files(images) \cup formHistory.replaced

\* The photos shown are those the server has, in its order, once every request is answered;
\* not after answers that came in another order or were lost, or once photos were added.
ExistingIsStored ==
  editing /\ ~formHistory.unheard /\ ~formHistory.crossed /\ (\A a \in DOMAIN asks : asks[a].pc = "idle")
    => existing = stored
==============================================================================
