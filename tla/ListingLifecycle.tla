---------------------------- MODULE ListingLifecycle ----------------------------
(***************************************************************************)
(* The listings of the marketplace as the requests of dealers and          *)
(* administrators change them: listing.service.ts and                      *)
(* listing.repository.ts of the backend, removeListingAsAdmin of           *)
(* admin.service.ts, and the drafts an upload inserts meanwhile.           *)
(*                                                                         *)
(* A request is a process.  What it reads and what it writes are separate  *)
(* steps, one per round trip to MongoDB, and requests overlap freely.  The *)
(* photos of a listing are the subject of ListingPhotos.                   *)
(***************************************************************************)
EXTENDS Naturals, FiniteSets

CONSTANTS
  Ids,          \* listing ids
  Dealers,
  Plates,       \* normalized registration numbers
  Fresh,        \* the ids no listing has at the start
  Nothing,      \* no listing, no plate
  Requests,     \* requests, each made at most once
  Clients,      \* the accounts that make requests: Dealers, and Admin
  Admin,
  Ops,          \* what they ask for: subset of AllOps
  MaxListings   \* MAX_LISTINGS_PER_DEALER

AllOps == {"create", "edit", "status", "delete", "bulk", "remove"}
ASSUME NamesAssumption == Admin \notin Dealers /\ Nothing \notin Ids \cup Plates /\ Clients \subseteq Dealers \cup {Admin}
ASSUME SizesAssumption == MaxListings \in Nat \ {0} /\ Ops \subseteq AllOps /\ IsFiniteSet(Ids)

Statuses == {"draft", "active", "sold", "archived"}
Open == {"draft", "active"}
Attributes == {"fuel", "mileage"}          \* two attributes, edited together or apart
Fields == Attributes \cup {"description"}  \* the searchable fields that matter here
Values == {"none", "old"} \cup Requests    \* a request writes a value of its own
NoEmbedding == [f \in Fields |-> "absent"]
Embeddings == [Fields -> Values] \cup {NoEmbedding}
Confirmations == {"never", "stale", "fresh"}

Listing == [dealer : Dealers, status : Statuses, plate : Plates, upload : BOOLEAN,
            published : BOOLEAN, confirmed : Confirmations, price : {"zero", "positive"},
            fields : [Fields -> Values], embedding : Embeddings]
NotYet == [status |-> "notYet"]
Gone == [status |-> "gone"]

Actions == {"publish", "mark-sold", "archive", "confirm-available", "reduce-price", "delete"}
Scopes == [ids : SUBSET Ids, upload : BOOLEAN]
Replies == {"none", "ok", "limit", "conflict", "notFound", "error"}
\* What a request asks, how far it is and what it has read; todo holds the open
\* listings it counted, or the listings a bulk action has not looked at yet.
Request == [op : AllOps, by : Dealers \cup {Admin}, pc : {"idle", "count", "check", "find", "write",
              "scope", "archived", "each", "done"}, reply : Replies,
            id : Ids \cup {Nothing}, plate : Plates \cup {Nothing}, status : Statuses,
            field : Fields \cup {"plate"}, value : Values, action : Actions, scope : Scopes,
            seen : Embeddings, from : Statuses, publish : BOOLEAN, todo : SUBSET Ids]

NoInput == [op |-> "edit", by |-> Admin, pc |-> "idle", reply |-> "none", id |-> Nothing,
            plate |-> Nothing, status |-> "draft", field |-> "plate", value |-> "none",
            action |-> "publish", scope |-> [ids |-> {}, upload |-> TRUE], seen |-> NoEmbedding,
            from |-> "draft", publish |-> FALSE, todo |-> {}]

VARIABLES
  listings,   \* [Ids -> Listing or NotYet or Gone]
  request,    \* [Requests -> what the request does and has read]
  acked,      \* history: [Ids -> the field values the last acknowledged edits wrote]
  raced,      \* history: listings whose edits overlapped
  uncounted   \* history: a listing opened that no count of the open ones saw

History == <<acked, raced, uncounted>>
vars == <<listings, request, History>>

Exists(i) == listings[i].status \in Statuses
Owned(i, d) == Exists(i) /\ listings[i].dealer = d
OpenOf(d) == {i \in Ids : Owned(i, d) /\ listings[i].status \in Open}

\* findActiveListingByRegistration: the listing on this plate, other than i.
Holders(p, i) == {j \in Ids \ {i} : listings[j].status \in Open /\ listings[j].plate = p}
\* Variant: the index covers active listings only.
IndexAllows_ActiveOnly(i, s, p) ==
  s = "active" => \A j \in Holders(p, i) : listings[j].status # "active"

\* The partial unique index, as a write of status s and plate p to listing i meets it.
IndexAllows(i, s, p) == s \in Open => Holders(p, i) = {}

\* An answered request is over: of what it carried only its kind and the answer are left.
Reply(r, answer) ==
  request' = [request EXCEPT ![r] = [NoInput EXCEPT !.op = request[r].op, !.pc = "done", !.reply = answer]]
Goto(r, pc) == request' = [request EXCEPT ![r].pc = pc]

-----------------------------------------------------------------------------
(* POST /: createDealerListing.                                             *)

\* assertDealerListingCapacity.
CountOpen(r) ==
  /\ request[r].pc = "count"
  /\ LET open == OpenOf(request[r].by) IN
     IF Cardinality(open) >= MaxListings
       THEN Reply(r, "limit")
       ELSE request' = [request EXCEPT ![r].pc = "check", ![r].todo = open]
  /\ UNCHANGED <<listings, History>>

\* assertRegistrationNotActivelyListed, of a request that wants a plate: the
\* cheap look before the write that the index decides.
CheckPlate(r) ==
  /\ request[r].pc = "check"
  /\ IF Holders(request[r].plate, request[r].id) # {}
       THEN Reply(r, "conflict") ELSE Goto(r, "write")
  /\ UNCHANGED <<listings, History>>

\* generateSearchEmbedding may fail; the listing is then saved without one.
EmbeddingsOf(values) == {values, NoEmbedding}

\* createListingRecord; a duplicate key is answered as a conflict.
Insert(r) ==
  LET q == request[r]
      values == [f \in Fields |-> IF f = "description" THEN "none" ELSE r]
  IN
  /\ q.pc = "write" /\ q.op = "create"
  /\ IF ~IndexAllows(Nothing, q.status, q.plate)
       THEN Reply(r, "conflict") /\ UNCHANGED <<listings, History>>
       ELSE \E i \in Ids, e \in EmbeddingsOf(values) :
            /\ listings[i] = NotYet
            /\ listings' = [listings EXCEPT ![i] =
                 [dealer |-> q.by, status |-> q.status, plate |-> q.plate, upload |-> FALSE,
                  published |-> q.status = "active", confirmed |-> "fresh",
                  price |-> "positive", fields |-> values, embedding |-> e]]
            /\ acked' = [acked EXCEPT ![i] = values]
            /\ uncounted' = (uncounted \/ ~(OpenOf(q.by) \subseteq q.todo))
            /\ Reply(r, "ok")
            /\ UNCHANGED raced

-----------------------------------------------------------------------------
(* PATCH /:listingId: updateDealerListing.                                  *)

\* findOwnedListing; the plate is looked up only when it changes.
FindForEdit(r) ==
  LET q == request[r] IN
  /\ q.pc = "find" /\ q.op = "edit"
  /\ IF ~Owned(q.id, q.by)
       THEN Reply(r, "notFound")
       ELSE LET wants == q.plate # listings[q.id].plate /\ q.field = "plate"
            IN request' = [request EXCEPT ![r].pc = IF wants THEN "check" ELSE "write",
                                          ![r].seen = listings[q.id].fields]
  /\ UNCHANGED <<listings, History>>

\* Variant: the attributes sent replace the stored ones.
EditedFields_NotMerged(q, stored) ==
  [f \in Fields |-> IF f = q.field THEN q.value
                    ELSE IF {f, q.field} \subseteq Attributes THEN "none" ELSE stored[f]]

\* The attributes are saved as a whole: those read, with the edited one put in.
\* A description that is cleared is removed by $unset.
EditedFields(q, stored) ==
  CASE q.field \in Attributes ->
         [f \in Fields |-> IF f = q.field THEN q.value
                           ELSE IF f \in Attributes THEN q.seen[f] ELSE stored[f]]
    [] q.field = "description" -> [stored EXCEPT !["description"] = q.value]
    [] OTHER -> stored

\* What the new embedding is computed from: the fields read, with the edited
\* ones put in.  A cleared description is not among the edited ones.
EmbeddedFields(q) ==
  IF q.field = "description" /\ q.value = "none" THEN q.seen
  ELSE [q.seen EXCEPT ![q.field] = q.value]

\* updateOwnedListing: by id and owner only, whatever happened to the listing
\* since it was read.  A duplicate plate here is an unexpected error.
WriteEdit(r) ==
  LET q == request[r]
      l == listings[q.id]
      plate == IF q.field = "plate" THEN q.plate ELSE l.plate
      searchable == q.field \in Fields
      outdated == l.fields # q.seen
  IN
  /\ q.pc = "write" /\ q.op = "edit"
  /\ IF ~Owned(q.id, q.by)
       THEN Reply(r, "notFound") /\ UNCHANGED <<listings, History>>
     ELSE IF ~IndexAllows(q.id, l.status, plate)
       THEN Reply(r, "error") /\ UNCHANGED <<listings, History>>
     ELSE /\ \E e \in IF searchable THEN EmbeddingsOf(EmbeddedFields(q)) ELSE {l.embedding} :
               listings' = [listings EXCEPT ![q.id] =
                 [l EXCEPT !.plate = plate, !.fields = EditedFields(q, l.fields),
                           !.embedding = e, !.confirmed = "fresh"]]
          /\ acked' = IF searchable THEN [acked EXCEPT ![q.id][q.field] = q.value] ELSE acked
          /\ raced' = IF searchable /\ outdated THEN raced \cup {q.id} ELSE raced
          /\ Reply(r, "ok")
          /\ UNCHANGED uncounted

-----------------------------------------------------------------------------
(* PATCH /:listingId/status: changeDealerListingStatus.                     *)

allowedTransitions ==
  [draft |-> {"active", "archived"}, active |-> {"sold", "archived"},
   sold |-> {"active", "archived"}, archived |-> {}]

FindForStatus(r) ==
  LET q == request[r]
      l == listings[q.id]
  IN
  /\ q.pc = "find" /\ q.op = "status"
  /\ IF ~Owned(q.id, q.by) THEN Reply(r, "notFound")
     ELSE IF q.status \notin allowedTransitions[l.status] THEN Reply(r, "conflict")
     ELSE request' = [request EXCEPT ![r].pc = IF q.status = "active" THEN "check" ELSE "write",
                                     ![r].plate = l.plate, ![r].from = l.status,
                                     ![r].publish = q.status = "active" /\ ~l.published]
  /\ UNCHANGED <<listings, History>>

\* The filter of transitionOwnedListingStatus: the status is still the one read.
AsRead_OwnedOnly(q) == Owned(q.id, q.by)
AsRead(q) == Owned(q.id, q.by) /\ listings[q.id].status = q.from

WriteStatus(r) ==
  LET q == request[r]
      l == listings[q.id]
  IN
  /\ q.pc = "write" /\ q.op = "status"
  /\ IF ~AsRead(q) \/ ~IndexAllows(q.id, q.status, l.plate)
       THEN Reply(r, "conflict") /\ UNCHANGED <<listings, uncounted>>
       ELSE /\ listings' = [listings EXCEPT ![q.id] =
                 [l EXCEPT !.status = q.status, !.published = l.published \/ q.publish,
                           !.confirmed = IF q.status = "active" THEN "fresh" ELSE @]]
            /\ uncounted' = (uncounted \/ (q.status \in Open /\ l.status \notin Open))
            /\ Reply(r, "ok")
  /\ UNCHANGED <<acked, raced>>

-----------------------------------------------------------------------------
(* DELETE /:listingId, and an administrator's removal.                      *)

\* deleteOwnedListing; its photos are removed from storage after that.
DeleteListing(r) ==
  LET q == request[r] IN
  /\ q.pc = "find" /\ q.op = "delete"
  /\ IF Owned(q.id, q.by)
       THEN listings' = [listings EXCEPT ![q.id] = Gone] /\ Reply(r, "ok")
       ELSE Reply(r, "notFound") /\ UNCHANGED listings
  /\ UNCHANGED History

\* archiveListingByAdmin: of any dealer, whatever the status.
RemoveByAdmin(r) ==
  LET q == request[r] IN
  /\ q.pc = "find" /\ q.op = "remove"
  /\ IF Exists(q.id)
       THEN listings' = [listings EXCEPT ![q.id].status = "archived"] /\ Reply(r, "ok")
       ELSE Reply(r, "notFound") /\ UNCHANGED listings
  /\ UNCHANGED History

-----------------------------------------------------------------------------
(* POST /mine/bulk: applyBulkListingAction.                                 *)

InScope(i, q) == Owned(i, q.by) /\ (IF q.scope.upload THEN listings[i].upload ELSE i \in q.scope.ids)

\* countListingsInScope; the numbers an answer reports are left out.
CountScope(r) ==
  LET q == request[r] IN
  /\ q.pc = "scope"
  /\ request' = [request EXCEPT ![r].pc = IF q.action = "delete" THEN "archived" ELSE "each",
                                ![r].todo = Ids]
  /\ UNCHANGED <<listings, History>>

\* deleteArchivedListingsInScope reads which ones to delete.
FindArchived(r) ==
  LET q == request[r] IN
  /\ q.pc = "archived"
  /\ request' = [request EXCEPT ![r].pc = "each",
       ![r].todo = {i \in Ids : InScope(i, q) /\ listings[i].status = "archived"}]
  /\ UNCHANGED <<listings, History>>

\* Variant: an archived listing gets a status of its own.
BulkResults_Closed(action, l) == IF action = "archive" THEN {[l EXCEPT !.status = "closed"]} ELSE {l}

\* The filter of the updateMany or deleteMany of each action ...
Eligible(action, l) ==
  CASE action = "publish" -> l.status = "draft"
    [] action \in {"mark-sold", "confirm-available"} -> l.status = "active"
    [] action = "archive" -> l.status # "archived"
    [] action = "reduce-price" -> l.status \in Open /\ l.price = "positive"
    [] action = "delete" -> l.status = "archived"

\* ... and what it makes of a listing.  Rounding may bring a price down to zero.
BulkResults(action, l) ==
  CASE action = "publish" -> {[l EXCEPT !.status = "active", !.published = TRUE, !.confirmed = "fresh"]}
    [] action = "mark-sold" -> {[l EXCEPT !.status = "sold"]}
    [] action = "archive" -> {[l EXCEPT !.status = "archived"]}
    [] action = "confirm-available" -> {[l EXCEPT !.confirmed = "fresh"]}
    [] action = "reduce-price" -> {[l EXCEPT !.price = p, !.confirmed = "fresh"] : p \in {"zero", "positive"}}
    [] action = "delete" -> {Gone}

\* The server goes through the listings one by one: each is matched and written
\* in one piece, the set of them is not.  A duplicate key ends the command.
BulkStep(r, i) ==
  LET q == request[r]
      l == listings[i]
  IN
  /\ q.pc = "each" /\ i \in q.todo
  /\ IF InScope(i, q) /\ Eligible(q.action, l)
       THEN \E after \in BulkResults(q.action, l) :
              IF after \in Listing /\ ~IndexAllows(i, after.status, after.plate)
                THEN Reply(r, "error") /\ UNCHANGED listings
                ELSE /\ listings' = [listings EXCEPT ![i] = after]
                     /\ request' = [request EXCEPT ![r].todo = @ \ {i}]
       ELSE request' = [request EXCEPT ![r].todo = @ \ {i}] /\ UNCHANGED listings
  /\ UNCHANGED History

BulkReply(r) ==
  /\ request[r].pc = "each" /\ request[r].todo = {}
  /\ Reply(r, "ok")
  /\ UNCHANGED <<listings, History>>

-----------------------------------------------------------------------------
(* What happens around the requests.                                        *)

\* The worker inserts a draft for a row (importBatch); it sets no confirmation.
ImportDraft(i, d, p) ==
  /\ listings[i] = NotYet /\ IndexAllows(i, "draft", p)
  /\ listings' = [listings EXCEPT ![i] =
       [dealer |-> d, status |-> "draft", plate |-> p, upload |-> TRUE, published |-> FALSE,
        confirmed |-> "never", price |-> "positive", fields |-> [f \in Fields |-> "old"],
        embedding |-> [f \in Fields |-> "old"]]]
  /\ acked' = [acked EXCEPT ![i] = [f \in Fields |-> "old"]]
  /\ uncounted' = TRUE
  /\ UNCHANGED <<request, raced>>

\* Sixty days (STALE_LISTING_DAYS) pass without a word from the dealer.
GoesStale(i) ==
  /\ Exists(i) /\ listings[i].confirmed = "fresh"
  /\ listings' = [listings EXCEPT ![i].confirmed = "stale"]
  /\ UNCHANGED <<request, History>>

-----------------------------------------------------------------------------
\* What a client asks, as the validation lets it through: the ids are those of
\* listings somebody saw.
Known == {i \in Ids : listings[i] # NotYet}
Asks(r, d) ==
  \/ /\ "create" \in Ops /\ d # Admin
     /\ \E s \in Open, p \in Plates : request' = [request EXCEPT ![r] = [NoInput EXCEPT
          !.op = "create", !.by = d, !.pc = "count", !.status = s, !.plate = p]]
  \/ /\ "edit" \in Ops /\ d # Admin
     /\ \E i \in Known :
          \/ \E p \in Plates : request' = [request EXCEPT ![r] = [NoInput EXCEPT
               !.by = d, !.pc = "find", !.id = i, !.field = "plate", !.plate = p]]
          \/ \E f \in Fields, v \in {r, "none"} : (v = "none" => f = "description") /\
               request' = [request EXCEPT ![r] = [NoInput EXCEPT
                 !.by = d, !.pc = "find", !.id = i, !.field = f, !.value = v]]
  \/ /\ "status" \in Ops /\ d # Admin
     /\ \E i \in Known, s \in Statuses \ {"draft"} : request' = [request EXCEPT ![r] = [NoInput EXCEPT
          !.op = "status", !.by = d, !.pc = "find", !.id = i, !.status = s]]
  \/ /\ d = Admin => "remove" \in Ops
     /\ d # Admin => "delete" \in Ops
     /\ \E i \in Known : request' = [request EXCEPT ![r] = [NoInput EXCEPT
          !.op = IF d = Admin THEN "remove" ELSE "delete", !.by = d, !.pc = "find", !.id = i]]
  \/ /\ "bulk" \in Ops /\ d # Admin
     /\ \E a \in Actions, c \in {[ids |-> {}, upload |-> TRUE], [ids |-> Known, upload |-> FALSE]} :
          request' = [request EXCEPT ![r] = [NoInput EXCEPT
            !.op = "bulk", !.by = d, !.pc = "scope", !.action = a, !.scope = c]]

Ask(r) ==
  /\ request[r].pc = "idle"
  /\ \E d \in Clients : Asks(r, d)
  /\ UNCHANGED <<listings, History>>

\* The listings there may be at the start; an imported draft was never confirmed.
OldText == [f \in Fields |-> "old"]
Stock ==
  UNION {{[dealer |-> d, status |-> s, plate |-> p, upload |-> u, published |-> s \in {"active", "sold"},
           confirmed |-> IF s = "draft" /\ u THEN "never" ELSE "stale", price |-> "positive",
           fields |-> OldText, embedding |-> OldText] : d \in Dealers, p \in Plates}
         : s \in Statuses, u \in BOOLEAN}

Init ==
  /\ listings \in [Ids -> {NotYet} \cup Stock]
  /\ \A i \in Fresh : listings[i] = NotYet
  /\ \A i \in Ids : Exists(i) => IndexAllows(i, listings[i].status, listings[i].plate)
  /\ \A d \in Dealers : Cardinality(OpenOf(d)) <= MaxListings
  /\ request = [r \in Requests |-> NoInput]
  /\ acked = [i \in Ids |-> OldText]
  /\ raced = {} /\ uncounted = FALSE

Serve(r) ==
  \/ CountOpen(r) \/ CheckPlate(r) \/ Insert(r) \/ FindForEdit(r) \/ WriteEdit(r)
  \/ FindForStatus(r) \/ WriteStatus(r) \/ DeleteListing(r) \/ RemoveByAdmin(r)
  \/ CountScope(r) \/ FindArchived(r) \/ (\E i \in Ids : BulkStep(r, i)) \/ BulkReply(r)

Next ==
  \/ \E r \in Requests : Ask(r) \/ Serve(r)
  \/ \E i \in Ids, d \in Dealers, p \in Plates : ImportDraft(i, d, p)
  \/ \E i \in Ids : GoesStale(i)

Spec == Init /\ [][Next]_vars

-----------------------------------------------------------------------------
(* Properties.                                                              *)

\* The stored listings and the requests have their shape.
TypeOK ==
  /\ listings \in [Ids -> Listing \cup {NotYet, Gone}]
  /\ uncounted \in BOOLEAN
  /\ request \in [Requests -> Request]
  /\ acked \in [Ids -> [Fields -> Values]] /\ raced \subseteq Ids

\* No two drafts or active listings, of whichever dealers, share a registration
\* number, however requests and imports overlap (listing.model.ts, the partial
\* unique index).
PlatesUnique == \A i, j \in Ids :
  i # j /\ listings[i].status \in Open /\ listings[j].status \in Open
    => listings[i].plate # listings[j].plate

\* Publishing drafts in bulk never meets the index: a draft holds its number
\* already.  Only an edit that lost the race for a number ends in an unexpected
\* error; the other requests that lose it are answered with a conflict.
BulkNeverClashes == \A r \in Requests : request[r].reply = "error" => request[r].op = "edit"

\* A listing that is on sale, or was sold, has been published and confirmed.
ActiveWasPublished == \A i \in Ids :
  listings[i].status \in {"active", "sold"} => listings[i].published /\ listings[i].confirmed # "never"

\* A dealer holds at most MaxListings drafts and active listings, as long as each
\* listing that opened was counted: two requests may count the same listings, and
\* neither a sold listing that is active again nor an import looks at this count.
LimitKept == ~uncounted => \A d \in Dealers : Cardinality(OpenOf(d)) <= MaxListings

\* The rules of the marketplace hold together, whichever single and bulk actions
\* overlap.
RulesKept == PlatesUnique /\ BulkNeverClashes /\ ActiveWasPublished /\ LimitKept

\* What an acknowledged edit of a field wrote stays until a later edit of that
\* field: editing one attribute does not undo another, nor does anything else.
EditsKept == \A i \in Ids \ raced : Exists(i) => listings[i].fields = acked[i]

\* The embedding a listing is searched by covers every text the listing shows.  It
\* may still hold a description that was cleared since.
EmbeddingTracks == \A i \in Ids \ raced :
  Exists(i) /\ listings[i].embedding # NoEmbedding =>
    \A f \in Fields : listings[i].fields[f] # "none"
                          => listings[i].embedding[f] = listings[i].fields[f]

\* An edit is whole: it undoes no other and searches find what it wrote.
EditsAreWhole == EditsKept /\ EmbeddingTracks

\* A listing moves along the transitions of the lifecycle only, whatever was read
\* before; an archived one never comes back and a deleted one neither.
FollowsLifecycle == [][\A i \in Ids :
  /\ listings[i] = Gone => listings'[i] = Gone
  /\ Exists(i) => listings'[i].status \in allowedTransitions[listings[i].status]
                     \cup {listings[i].status, "gone"}]_vars

\* Only a request of its dealer, or of an administrator, changes a listing.
OnlyTheOwner == [][\A r \in Requests, i \in Ids :
  request'[r] # request[r] /\ Exists(i) /\ listings'[i] # listings[i]
    => request[r].by \in {listings[i].dealer, Admin}]_vars

\* Both: only those allowed to move a listing do, along the allowed transitions.
MovesAreAllowed == FollowsLifecycle /\ OnlyTheOwner
=============================================================================
