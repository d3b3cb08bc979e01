---------------------------- MODULE Catalogue_proofs ----------------------------
(***************************************************************************)
(* Proofs about Catalogue for any number of listings, dealers, plates,     *)
(* requests, instances and photos, any vehicles and texts, and any limit:  *)
(* first the requests (ListingLifecycle), then which listings an instance  *)
(* hides (PublicVisibility), the migration of photos (ImageMigration),     *)
(* what searches and recommendations show (BuyerQueries), and at the end   *)
(* the four sides together.                                                *)
(***************************************************************************)
EXTENDS Catalogue, FiniteSetTheorems, SequenceTheorems, TLAPS

-----------------------------------------------------------------------------
(* The listing requests. The inductive invariant. *)

\* What a request carries from its earlier steps, and what it relies on at its write.
Creation(q) ==
  q.op = "create" /\ q.pc \in {"count", "check", "write"} =>
    /\ q.by \in Dealers /\ q.status \in Open /\ q.plate \in Plates
    /\ q.pc # "count" => Cardinality(q.todo) < MaxListings
Edition(q) ==
  q.op = "edit" /\ q.pc \in {"find", "check", "write"} =>
    /\ q.id \in Ids /\ q.by \in Dealers
    /\ q.field = "plate" => q.plate \in Plates
    /\ q.pc # "find" => q.seen \in [Fields -> Values]
Transition(q) ==
  q.op = "status" /\ q.pc \in {"find", "check", "write"} =>
    /\ q.id \in Ids /\ q.by \in Dealers
    /\ q.pc # "find" =>
         /\ q.status \in allowedTransitions[q.from]
         /\ listings[q.id] # NotYet
         /\ q.status = "active" /\ Exists(q.id) => q.publish \/ listings[q.id].published
Removal(q) ==
  q.op \in {"delete", "remove"} /\ q.pc = "find" => q.id \in Ids /\ (q.op = "remove" => q.by = Admin)
Steps(q) ==
  /\ q.pc = "count" => q.op = "create"
  /\ q.pc = "check" => q.op \in {"create", "edit", "status"}
  /\ q.pc \in {"scope", "archived", "each"} => q.op = "bulk" /\ q.by \in Dealers
Sound(q) == Creation(q) /\ Edition(q) /\ Transition(q) /\ Removal(q) /\ Steps(q)

IInv == TypeOK /\ RulesKept /\ \A r \in Requests : Sound(request[r])

-----------------------------------------------------------------------------
(* Listings. *)

\* Of what is stored under an id, a listing is what has one of the four statuses.
LEMMA ListingExists ==
  ASSUME TypeOK, NEW i \in Ids
  PROVE  /\ Exists(i) <=> listings[i] \in Listing
         /\ listings[i] \in Listing \cup {NotYet, Gone}
         /\ listings[i].status \in Open => Exists(i)
  BY DEF TypeOK, Exists, Listing, NotYet, Gone, Statuses, Open

\* Where a listing may stand after a step, beside where it stood.
Successor(l, m) ==
  /\ m.dealer = l.dealer
  /\ m.status \in allowedTransitions[l.status] \cup {l.status}
  /\ l.published => m.published

\* One listing is written: created, changed along the lifecycle, or deleted; with a
\* plate the index allows, and counted.
Accepted(i, m) ==
  /\ m \in Listing
  /\ IndexAllows(i, m.status, m.plate)
  /\ m.status \in {"active", "sold"} => m.published /\ m.confirmed # "never"
  /\ listings[i] = NotYet \/ (listings[i] \in Listing /\ Successor(listings[i], m))
Counted(i, m) ==
  \/ uncounted'
  \/ m.status \notin Open
  \/ listings[i] \in Listing /\ listings[i].status \in Open
  \/ Cardinality(OpenOf(m.dealer) \cup {i}) <= MaxListings
Writes(i, m) ==
  /\ listings' = [listings EXCEPT ![i] = m]
  /\ \/ m = Gone /\ listings[i] \in Listing
     \/ Accepted(i, m) /\ Counted(i, m)
ListingStep == UNCHANGED listings \/ \E i \in Ids, m \in Listing \cup {Gone} : Writes(i, m)

\* The rules about listings survive a write of one listing.
LEMMA WriteKeepsRules ==
  ASSUME IInv, NEW i \in Ids, NEW m \in Listing \cup {Gone}, Writes(i, m),
         uncounted => uncounted'
  PROVE  /\ listings' \in [Ids -> Listing \cup {NotYet, Gone}]
         /\ PlatesUnique' /\ ActiveWasPublished' /\ LimitKept'
         /\ \A j \in Ids : listings[j] # NotYet => listings'[j] # NotYet
         /\ \A j \in Ids : listings'[j] \in Listing =>
              listings[j] = NotYet \/ (listings[j] \in Listing /\ Successor(listings[j], listings'[j]))
  <1>1. /\ listings \in [Ids -> Listing \cup {NotYet, Gone}]
        /\ listings' \in [Ids -> Listing \cup {NotYet, Gone}]
        /\ listings'[i] = m
        /\ \A j \in Ids \ {i} : listings'[j] = listings[j]
    BY DEF IInv, TypeOK, Writes
  <1>2. Gone.status \notin Open /\ Gone.status \notin {"active", "sold"} /\ Gone \notin Listing /\ Gone # NotYet
    BY DEF Gone, NotYet, Open, Listing, Statuses
  <1>3. PlatesUnique'
    <2>1. ASSUME NEW j \in Ids \ {i}, m.status \in Open, listings[j].status \in Open
          PROVE  m.plate # listings[j].plate
      <3>1. Accepted(i, m)
        BY <2>1, <1>2 DEF Writes
      <3> QED
        BY <2>1, <3>1 DEF Accepted, IndexAllows, Holders
    <2> QED
      BY <1>1, <2>1 DEF IInv, RulesKept, PlatesUnique
  <1>4. ActiveWasPublished'
    BY <1>1, <1>2 DEF IInv, RulesKept, ActiveWasPublished, Writes, Accepted
  <1>5. LimitKept'
    <2> SUFFICES ASSUME ~uncounted', NEW d \in Dealers
                 PROVE  Cardinality(OpenOf(d)') <= MaxListings
      BY DEF LimitKept
    <2>1. ~uncounted /\ Cardinality(OpenOf(d)) <= MaxListings
      BY DEF IInv, RulesKept, LimitKept
    <2>2. IsFiniteSet(OpenOf(d)) /\ Cardinality(OpenOf(d)) \in Nat /\ MaxListings \in Nat
      <3>1. OpenOf(d) \subseteq Ids
        BY DEF OpenOf
      <3> QED
        BY <3>1, SizesAssumption, FS_Subset, FS_CardinalityType
    <2>3. CASE OpenOf(d)' \subseteq OpenOf(d)
      <3>1. IsFiniteSet(OpenOf(d)') /\ Cardinality(OpenOf(d)') <= Cardinality(OpenOf(d))
        BY <2>2, <2>3, FS_Subset
      <3>2. Cardinality(OpenOf(d)') \in Nat
        BY <3>1, FS_CardinalityType
      <3> QED
        BY <3>1, <3>2, <2>1, <2>2
    <2>4. CASE ~(OpenOf(d)' \subseteq OpenOf(d))
      <3>1. m.status \in Open /\ m.dealer = d /\ ~(listings[i] \in Listing /\ listings[i].status \in Open /\ listings[i].dealer = d)
        BY <1>1, <2>4 DEF OpenOf, Owned, Exists, Open, Statuses
      <3>2. Accepted(i, m) /\ Counted(i, m)
        BY <3>1, <1>2 DEF Writes
      <3>3. Cardinality(OpenOf(d) \cup {i}) <= MaxListings
        BY <3>1, <3>2 DEF Counted, Accepted, Successor, NotYet, Open
      <3>4. OpenOf(d)' = OpenOf(d) \cup {i} \/ OpenOf(d)' \subseteq OpenOf(d) \cup {i}
        BY <1>1 DEF OpenOf, Owned, Exists
      <3>5. OpenOf(d) \cup {i} \in SUBSET Ids
        BY DEF OpenOf
      <3>6. /\ IsFiniteSet(OpenOf(d) \cup {i}) /\ Cardinality(OpenOf(d) \cup {i}) \in Nat
        BY <3>5, SizesAssumption, FS_Subset, FS_CardinalityType
      <3>7. IsFiniteSet(OpenOf(d)') /\ Cardinality(OpenOf(d)') <= Cardinality(OpenOf(d) \cup {i})
        BY <3>4, <3>6, FS_Subset
      <3>8. Cardinality(OpenOf(d)') \in Nat
        BY <3>7, FS_CardinalityType
      <3> QED
        BY <3>3, <3>6, <3>7, <3>8, <2>2
    <2> QED
      BY <2>3, <2>4
  <1>6. \A j \in Ids : listings[j] # NotYet => listings'[j] # NotYet
    <2>1. m # NotYet
      BY DEF NotYet, Gone, Listing, Statuses
    <2> QED
      BY <1>1, <2>1
  <1>7. ASSUME NEW j \in Ids, listings'[j] \in Listing
        PROVE  listings[j] = NotYet \/ (listings[j] \in Listing /\ Successor(listings[j], listings'[j]))
    BY <1>1, <1>2, <1>7 DEF Writes, Accepted, Successor
  <1> QED
    BY <1>1, <1>3, <1>4, <1>5, <1>6, <1>7

-----------------------------------------------------------------------------
(* Requests. *)

\* What a step of request r does to the requests: the others wait, it stays sound.
RequestStep(r) ==
  /\ request' \in [Requests -> Request]
  /\ \A s \in Requests \ {r} : request'[s] = request[s]
  /\ Sound(request[r])'
  /\ request'[r].reply = "error" => request'[r].op = "edit"
HistoryStep ==
  /\ uncounted' \in BOOLEAN /\ (uncounted => uncounted')
  /\ acked' \in [Ids -> [Fields -> Values]] /\ raced' \subseteq Ids

\* A request that was answered relies on nothing any more.
LEMMA AnsweredIsSound ==
  ASSUME IInv, NEW r \in Requests, NEW reply \in Replies, Reply(r, reply),
         reply = "error" => request[r].op = "edit"
  PROVE  RequestStep(r)
  <1>1. request[r] \in Request /\ request \in [Requests -> Request]
    BY DEF IInv, TypeOK
  <1> DEFINE answered == [NoInput EXCEPT !.op = request[r].op, !.pc = "done", !.reply = reply]
  <1>2. request' = [request EXCEPT ![r] = answered]
    BY DEF Reply
  <1>3. NoInput \in Request
    BY DEF NoInput, Request, AllOps, Replies, Statuses, Fields, Values, Actions, Scopes, Embeddings
  <1> HIDE DEF NoInput
  <1>4. /\ answered \in Request
        /\ answered.pc = "done" /\ answered.reply = reply /\ answered.op = request[r].op
    <2>1. "done" \in {"idle", "count", "check", "find", "write", "scope", "archived", "each", "done"}
          /\ request[r].op \in AllOps
      BY <1>1 DEF Request
    <2> QED
      BY <1>3, <2>1 DEF Request
  <1> HIDE DEF answered
  <1>5. request'[r] = answered
    BY <1>1, <1>2
  <1>6. Sound(request[r])'
    BY <1>4, <1>5 DEF Sound, Creation, Edition, Transition, Removal, Steps
  <1> QED
    BY <1>1, <1>2, <1>4, <1>5, <1>6 DEF RequestStep

\* A step that leaves the listings and the history alone keeps their types.
LEMMA QuietHistory ==
  ASSUME IInv, UNCHANGED History
  PROVE  HistoryStep
  BY DEF IInv, TypeOK, History, HistoryStep

\* The count of a creation is what its insert relies on.
LEMMA CountOpenStep ==
  ASSUME IInv, NEW r \in Requests, CountOpen(r)
  PROVE  RequestStep(r) /\ ListingStep /\ HistoryStep
  <1> DEFINE open == OpenOf(request[r].by)
             q == [request[r] EXCEPT !.pc = "check", !.todo = open]
  <1>1. request[r] \in Request /\ request \in [Requests -> Request] /\ Sound(request[r])
    BY DEF IInv, TypeOK
  <1>2. ListingStep /\ HistoryStep
    BY QuietHistory DEF CountOpen, ListingStep
  <1>3. CASE Cardinality(open) >= MaxListings
    BY <1>2, <1>3, AnsweredIsSound DEF CountOpen, Replies
  <1>4. CASE ~(Cardinality(open) >= MaxListings)
    <2>1. open \in SUBSET Ids
      BY DEF OpenOf
    <2>2. Cardinality(open) < MaxListings
      BY <1>4, <2>1, SizesAssumption, FS_Subset, FS_CardinalityType
    <2>3. q \in Request /\ q.pc = "check" /\ q.todo = open /\ q.op = request[r].op /\ q.by = request[r].by
          /\ q.status = request[r].status /\ q.plate = request[r].plate /\ q.reply = request[r].reply
      BY <1>1, <2>1 DEF Request
    <2>4. request' = [request EXCEPT ![r] = q] /\ request[r].pc = "count"
      BY <1>1, <1>4 DEF CountOpen
    <2> HIDE DEF q
    <2>5. request'[r] = q /\ \A s \in Requests \ {r} : request'[s] = request[s]
      BY <1>1, <2>4
    <2>6. q.op = "create"
      BY <1>1, <2>3, <2>4 DEF Sound, Steps
    <2>7. Sound(request[r])'
      BY <1>1, <2>2, <2>3, <2>4, <2>5, <2>6 DEF Sound, Creation, Edition, Transition, Removal, Steps
    <2>8. q.reply = "error" => q.op = "edit"
      BY <2>3 DEF IInv, RulesKept, BulkNeverClashes
    <2> QED
      BY <1>1, <1>2, <2>3, <2>4, <2>5, <2>7, <2>8 DEF RequestStep
  <1> QED
    BY <1>3, <1>4

\* A request goes on with what it carries.
LEMMA GotoStep ==
  ASSUME IInv, NEW r \in Requests, request[r].pc = "check", Goto(r, "write")
  PROVE  listings' = listings => RequestStep(r)
  <1> DEFINE q == [request[r] EXCEPT !.pc = "write"]
  <1>1. request[r] \in Request /\ request \in [Requests -> Request] /\ Sound(request[r])
    BY DEF IInv, TypeOK
  <1>2. q \in Request /\ request' = [request EXCEPT ![r] = q]
    BY <1>1 DEF Request, Goto
  <1>3. /\ q.pc = "write" /\ q.op = request[r].op /\ q.by = request[r].by /\ q.id = request[r].id
        /\ q.status = request[r].status /\ q.plate = request[r].plate /\ q.reply = request[r].reply
        /\ q.todo = request[r].todo /\ q.seen = request[r].seen /\ q.from = request[r].from
        /\ q.publish = request[r].publish /\ q.field = request[r].field
    BY <1>1 DEF Request
  <1> HIDE DEF q
  <1>4. request'[r] = q /\ \A s \in Requests \ {r} : request'[s] = request[s]
    BY <1>1, <1>2
  <1>5. listings' = listings => Sound(request[r])'
    BY <1>1, <1>3, <1>4 DEF Sound, Creation, Edition, Transition, Removal, Steps, Exists
  <1>6. q.reply = "error" => q.op = "edit"
    BY <1>3 DEF IInv, RulesKept, BulkNeverClashes
  <1> QED
    BY <1>1, <1>2, <1>4, <1>5, <1>6 DEF RequestStep

\* The look for a plate decides nothing that the index does not decide again.
LEMMA CheckPlateStep ==
  ASSUME IInv, NEW r \in Requests, CheckPlate(r)
  PROVE  RequestStep(r) /\ ListingStep /\ HistoryStep
  <1>1. ListingStep /\ HistoryStep /\ listings' = listings
    BY QuietHistory DEF CheckPlate, ListingStep
  <1> QED
    BY <1>1, AnsweredIsSound, GotoStep DEF CheckPlate, Replies

\* An edit remembers the fields of the listing it found.
LEMMA FindForEditStep ==
  ASSUME IInv, NEW r \in Requests, FindForEdit(r)
  PROVE  RequestStep(r) /\ ListingStep /\ HistoryStep
  <1> DEFINE id == request[r].id
             wants == request[r].plate # listings[id].plate /\ request[r].field = "plate"
             pc == IF wants THEN "check" ELSE "write"
             q == [request[r] EXCEPT !.pc = pc, !.seen = listings[id].fields]
  <1>1. request[r] \in Request /\ request \in [Requests -> Request] /\ Sound(request[r])
    BY DEF IInv, TypeOK
  <1>2. ListingStep /\ HistoryStep
    BY QuietHistory DEF FindForEdit, ListingStep
  <1>3. id \in Ids /\ request[r].op = "edit" /\ request[r].pc = "find"
    BY <1>1 DEF FindForEdit, Sound, Edition
  <1>4. CASE ~Owned(id, request[r].by)
    BY <1>2, <1>4, AnsweredIsSound DEF FindForEdit, Replies
  <1>5. CASE Owned(id, request[r].by)
    <2>1. listings[id].fields \in [Fields -> Values]
      BY <1>3, <1>5, ListingExists DEF IInv, Owned, Listing
    <2>2. request' = [request EXCEPT ![r] = q] /\ pc \in {"check", "write"}
      BY <1>1, <1>5 DEF FindForEdit
    <2> HIDE DEF pc
    <2>3. q \in Request /\ q.pc \in {"check", "write"} /\ q.seen = listings[id].fields
          /\ q.op = request[r].op /\ q.by = request[r].by /\ q.id = id /\ q.field = request[r].field
          /\ q.plate = request[r].plate /\ q.reply = request[r].reply
      BY <1>1, <2>1, <2>2 DEF Request, Embeddings
    <2> HIDE DEF q
    <2>4. request'[r] = q /\ \A s \in Requests \ {r} : request'[s] = request[s]
      BY <1>1, <2>2
    <2>5. Sound(request[r])'
      BY <1>1, <1>3, <2>1, <2>3, <2>4 DEF Sound, Creation, Edition, Transition, Removal, Steps
    <2> QED
      BY <1>1, <1>2, <1>3, <2>2, <2>3, <2>4, <2>5 DEF RequestStep
  <1> QED
    BY <1>4, <1>5

\* A status change remembers the status it found, and whether it is the first publication.
LEMMA FindForStatusStep ==
  ASSUME IInv, NEW r \in Requests, FindForStatus(r)
  PROVE  RequestStep(r) /\ ListingStep /\ HistoryStep
  <1> DEFINE id == request[r].id
             l == listings[id]
             target == request[r].status
             publish == target = "active" /\ ~l.published
             pc == IF target = "active" THEN "check" ELSE "write"
             q == [request[r] EXCEPT !.pc = pc, !.plate = l.plate, !.from = l.status, !.publish = publish]
  <1>1. request[r] \in Request /\ request \in [Requests -> Request] /\ Sound(request[r])
    BY DEF IInv, TypeOK
  <1>2. ListingStep /\ HistoryStep /\ listings' = listings
    BY QuietHistory DEF FindForStatus, ListingStep
  <1>3. id \in Ids /\ request[r].op = "status" /\ request[r].pc = "find"
    BY <1>1 DEF FindForStatus, Sound, Transition
  <1>4. CASE ~Owned(id, request[r].by)
    BY <1>2, <1>4, AnsweredIsSound DEF FindForStatus, Replies
  <1>5. CASE Owned(id, request[r].by) /\ target \notin allowedTransitions[l.status]
    BY <1>2, <1>5, AnsweredIsSound DEF FindForStatus, Replies
  <1>6. CASE Owned(id, request[r].by) /\ target \in allowedTransitions[l.status]
    <2>1. l \in Listing /\ l # NotYet
      BY <1>3, <1>6, ListingExists DEF IInv, Owned, Listing, NotYet, Statuses
    <2>2. l.plate \in Plates /\ l.status \in Statuses /\ publish \in BOOLEAN
      BY <2>1 DEF Listing
    <2>3. request' = [request EXCEPT ![r] = q] /\ pc \in {"check", "write"}
      BY <1>1, <1>6 DEF FindForStatus
    <2>4. target = "active" => publish \/ l.published
      BY <2>1 DEF Listing
    <2> HIDE DEF publish, pc
    <2>5. q \in Request /\ q.pc \in {"check", "write"}
      BY <1>1, <2>2, <2>3 DEF Request
    <2>6. /\ q.op = request[r].op /\ q.by = request[r].by /\ q.id = id /\ q.status = target
          /\ q.from = l.status /\ q.publish = publish /\ q.reply = request[r].reply
      BY <1>1 DEF Request
    <2> HIDE DEF q
    <2>7. request'[r] = q /\ \A s \in Requests \ {r} : request'[s] = request[s]
      BY <1>1, <2>3
    <2>8. Transition(request[r])'
      BY <1>1, <1>2, <1>3, <1>6, <2>1, <2>4, <2>5, <2>6, <2>7 DEF Sound, Transition, Exists
    <2>9. Sound(request[r])'
      BY <1>3, <2>5, <2>6, <2>7, <2>8 DEF Sound, Creation, Edition, Removal, Steps
    <2>10. q.reply = "error" => q.op = "edit"
      BY <2>6 DEF IInv, RulesKept, BulkNeverClashes
    <2> QED
      BY <1>1, <1>2, <2>3, <2>5, <2>7, <2>9, <2>10 DEF RequestStep
  <1> QED
    BY <1>4, <1>5, <1>6

\* Both reads of a bulk action.
LEMMA BulkReadStep ==
  ASSUME IInv, NEW r \in Requests, CountScope(r) \/ FindArchived(r)
  PROVE  RequestStep(r) /\ ListingStep /\ HistoryStep
  <1>1. request[r] \in Request /\ request \in [Requests -> Request] /\ Sound(request[r])
    BY DEF IInv, TypeOK
  <1>2. ListingStep /\ HistoryStep
    BY QuietHistory DEF CountScope, FindArchived, ListingStep
  <1>3. request[r].op = "bulk" /\ request[r].by \in Dealers
    BY <1>1 DEF CountScope, FindArchived, Sound, Steps
  <1>4. ASSUME NEW q \in Request, request' = [request EXCEPT ![r] = q], q.op = request[r].op,
               q.by = request[r].by, q.reply = request[r].reply, q.pc \in {"archived", "each"}
        PROVE  RequestStep(r)
    <2>1. request'[r] = q /\ \A s \in Requests \ {r} : request'[s] = request[s]
      BY <1>1, <1>4
    <2>2. Sound(request[r])'
      BY <1>3, <1>4, <2>1 DEF Sound, Creation, Edition, Transition, Removal, Steps
    <2>3. q.reply = "error" => q.op = "edit"
      BY <1>4 DEF IInv, RulesKept, BulkNeverClashes
    <2> QED
      BY <1>1, <1>4, <2>1, <2>2, <2>3 DEF RequestStep
  <1>5. CASE CountScope(r)
    <2> DEFINE pc == IF request[r].action = "delete" THEN "archived" ELSE "each"
               q == [request[r] EXCEPT !.pc = pc, !.todo = Ids]
    <2>1. request' = [request EXCEPT ![r] = q] /\ pc \in {"archived", "each"}
      BY <1>1, <1>5 DEF CountScope
    <2> HIDE DEF pc
    <2>2. q \in Request /\ q.pc \in {"archived", "each"} /\ q.op = request[r].op /\ q.by = request[r].by
          /\ q.reply = request[r].reply
      BY <1>1, <2>1 DEF Request
    <2> HIDE DEF q
    <2> QED
      BY <1>2, <1>4, <2>1, <2>2
  <1>6. CASE FindArchived(r)
    <2> DEFINE found == {i \in Ids : InScope(i, request[r]) /\ listings[i].status = "archived"}
               q == [request[r] EXCEPT !.pc = "each", !.todo = found]
    <2>1. found \in SUBSET Ids
      OBVIOUS
    <2>2. request' = [request EXCEPT ![r] = q]
      BY <1>1, <1>6 DEF FindArchived
    <2> HIDE DEF found
    <2>3. q \in Request /\ q.pc \in {"archived", "each"} /\ q.op = request[r].op /\ q.by = request[r].by
          /\ q.reply = request[r].reply
      BY <1>1, <2>1 DEF Request
    <2> HIDE DEF q
    <2> QED
      BY <1>2, <1>4, <2>2, <2>3
  <1> QED
    BY <1>5, <1>6

\* Only the answer of a bulk action is left.
LEMMA BulkReplyStep ==
  ASSUME IInv, NEW r \in Requests, BulkReply(r)
  PROVE  RequestStep(r) /\ ListingStep /\ HistoryStep
  BY QuietHistory, AnsweredIsSound DEF BulkReply, Replies, ListingStep

-----------------------------------------------------------------------------
(* Writes. *)

\* An open listing is the only one on its plate, so the index lets it stay there.
LEMMA OwnPlate ==
  ASSUME IInv, NEW i \in Ids, listings[i].status \in Open
  PROVE  \A s : IndexAllows(i, s, listings[i].plate)
  BY DEF IInv, RulesKept, PlatesUnique, IndexAllows, Holders

\* A listing is created on a free plate, after the open ones were counted.
LEMMA InsertStep ==
  ASSUME IInv, NEW r \in Requests, Insert(r)
  PROVE  RequestStep(r) /\ ListingStep /\ HistoryStep
  <1> DEFINE q == request[r]
             values == [f \in Fields |-> IF f = "description" THEN "none" ELSE r]
             published == q.status = "active"
             new(e) == [dealer |-> q.by, status |-> q.status, plate |-> q.plate, upload |-> FALSE,
                        published |-> published, confirmed |-> "fresh",
                        price |-> "positive", fields |-> values, embedding |-> e]
  <1>1. q \in Request /\ q.op = "create" /\ q.pc = "write"
    BY DEF IInv, TypeOK, Insert
  <1>2. /\ q.by \in Dealers /\ q.status \in Open /\ q.plate \in Plates
        /\ Cardinality(q.todo) < MaxListings /\ q.todo \in SUBSET Ids
    BY <1>1 DEF IInv, Sound, Creation, Request
  <1>3. CASE ~IndexAllows(Nothing, q.status, q.plate)
    <2>1. ListingStep /\ HistoryStep
      BY <1>3, QuietHistory DEF Insert, ListingStep
    <2> QED
      BY <1>3, <2>1, AnsweredIsSound DEF Insert, Replies
  <1>4. CASE IndexAllows(Nothing, q.status, q.plate)
    <2>1. values \in [Fields -> Values]
      BY DEF Values
    <2>2. PICK i \in Ids, e \in EmbeddingsOf(values) :
            /\ listings[i] = NotYet
            /\ listings' = [listings EXCEPT ![i] = new(e)]
            /\ acked' = [acked EXCEPT ![i] = values]
            /\ uncounted' = (uncounted \/ ~(OpenOf(q.by) \subseteq q.todo))
            /\ Reply(r, "ok") /\ raced' = raced
      BY <1>4 DEF Insert
    <2> HIDE DEF values
    <2>3. e \in Embeddings
      BY <2>1, <2>2 DEF EmbeddingsOf, Embeddings
    <2>4. published \in BOOLEAN /\ (q.status \in {"active", "sold"} => published)
      <3>1. q.status \in {"active", "sold"} => q.status = "active"
        BY <1>2 DEF Open
      <3>2. published = TRUE \/ published = FALSE
        OBVIOUS
      <3> QED
        BY <3>1, <3>2
    <2> HIDE DEF published
    <2>5. /\ new(e) \in Listing /\ new(e).status = q.status /\ new(e).plate = q.plate /\ new(e).dealer = q.by
          /\ new(e).published = published /\ new(e).confirmed # "never"
      BY <1>2, <2>1, <2>3, <2>4 DEF Listing, Open, Statuses, Confirmations
    <2> HIDE DEF new
    <2>6. IndexAllows(i, q.status, q.plate)
      BY <1>4, NamesAssumption DEF IndexAllows, Holders
    <2>7. Accepted(i, new(e))
      BY <2>2, <2>5, <2>6, <2>4 DEF Accepted
    <2>8. Counted(i, new(e))
      <3>1. CASE OpenOf(q.by) \subseteq q.todo
        <4>1. IsFiniteSet(q.todo) /\ Cardinality(q.todo) \in Nat
          BY <1>2, SizesAssumption, FS_Subset, FS_CardinalityType
        <4>2. /\ IsFiniteSet(q.todo \cup {i})
              /\ Cardinality(q.todo \cup {i}) = IF i \in q.todo THEN Cardinality(q.todo) ELSE Cardinality(q.todo) + 1
          BY <4>1, FS_AddElement
        <4>3. OpenOf(q.by) \cup {i} \subseteq q.todo \cup {i}
          BY <3>1
        <4>4. IsFiniteSet(OpenOf(q.by) \cup {i}) /\ Cardinality(OpenOf(q.by) \cup {i}) <= Cardinality(q.todo \cup {i})
          BY <4>2, <4>3, FS_Subset
        <4>5. Cardinality(OpenOf(q.by) \cup {i}) \in Nat
          BY <4>4, FS_CardinalityType
        <4>6. Cardinality(OpenOf(q.by) \cup {i}) <= MaxListings
          BY <1>2, <4>1, <4>2, <4>4, <4>5, SizesAssumption
        <4> QED
          BY <2>5, <4>6 DEF Counted
      <3>2. CASE ~(OpenOf(q.by) \subseteq q.todo)
        BY <2>2, <3>2 DEF Counted
      <3> QED
        BY <3>1, <3>2
    <2>9. ListingStep
      BY <2>2, <2>5, <2>7, <2>8 DEF ListingStep, Writes
    <2>10. HistoryStep
      BY <2>1, <2>2 DEF HistoryStep, IInv, TypeOK
    <2> QED
      BY <2>2, <2>9, <2>10, AnsweredIsSound DEF Replies
  <1> QED
    BY <1>3, <1>4

\* An edit leaves the status alone and takes only a plate the index allows.
LEMMA WriteEditStep ==
  ASSUME IInv, NEW r \in Requests, WriteEdit(r)
  PROVE  RequestStep(r) /\ ListingStep /\ HistoryStep
  <1> DEFINE q == request[r]
             l == listings[q.id]
             plate == IF q.field = "plate" THEN q.plate ELSE l.plate
             searchable == q.field \in Fields
             outdated == l.fields # q.seen
             new(e) == [l EXCEPT !.plate = plate, !.fields = EditedFields(q, l.fields),
                                 !.embedding = e, !.confirmed = "fresh"]
  <1>1. q \in Request /\ q.op = "edit" /\ q.pc = "write"
    BY DEF IInv, TypeOK, WriteEdit
  <1>2. /\ q.id \in Ids /\ q.by \in Dealers /\ q.seen \in [Fields -> Values]
        /\ q.field = "plate" => q.plate \in Plates
        /\ q.field \in Fields \cup {"plate"} /\ q.value \in Values
    BY <1>1 DEF IInv, Sound, Edition, Request
  <1>3. CASE ~Owned(q.id, q.by)
    <2>1. ListingStep /\ HistoryStep
      BY <1>3, QuietHistory DEF WriteEdit, ListingStep
    <2> QED
      BY <1>3, <2>1, AnsweredIsSound DEF WriteEdit, Replies
  <1>4. CASE Owned(q.id, q.by) /\ ~IndexAllows(q.id, l.status, plate)
    <2>1. ListingStep /\ HistoryStep
      BY <1>4, QuietHistory DEF WriteEdit, ListingStep
    <2> QED
      BY <1>1, <1>4, <2>1, AnsweredIsSound DEF WriteEdit, Replies
  <1>5. CASE Owned(q.id, q.by) /\ IndexAllows(q.id, l.status, plate)
    <2>1. l \in Listing
      BY <1>2, <1>5, ListingExists DEF IInv, Owned
    <2>2. plate \in Plates /\ l.fields \in [Fields -> Values] /\ l.embedding \in Embeddings
      BY <1>2, <2>1 DEF Listing
    <2>3. EditedFields(q, l.fields) \in [Fields -> Values]
      BY <1>2, <2>2 DEF EditedFields, Fields, Attributes
    <2>4. EmbeddedFields(q) \in [Fields -> Values]
      BY <1>2 DEF EmbeddedFields
    <2>5. PICK e \in IF searchable THEN EmbeddingsOf(EmbeddedFields(q)) ELSE {l.embedding} :
            listings' = [listings EXCEPT ![q.id] = new(e)]
      BY <1>5 DEF WriteEdit
    <2>6. /\ acked' = IF searchable THEN [acked EXCEPT ![q.id][q.field] = q.value] ELSE acked
          /\ raced' = IF searchable /\ outdated THEN raced \cup {q.id} ELSE raced
          /\ Reply(r, "ok") /\ uncounted' = uncounted
      BY <1>5 DEF WriteEdit
    <2>7. e \in Embeddings
      BY <2>2, <2>4, <2>5 DEF EmbeddingsOf, Embeddings
    <2> HIDE DEF plate
    <2>8. new(e) \in Listing /\ new(e).status = l.status /\ new(e).plate = plate /\ new(e).dealer = l.dealer
          /\ new(e).published = l.published /\ new(e).confirmed = "fresh"
      BY <2>1, <2>2, <2>3, <2>7 DEF Listing, Confirmations
    <2> HIDE DEF new
    <2>9. l.status \in {"active", "sold"} => l.published
      BY <1>2 DEF IInv, RulesKept, ActiveWasPublished
    <2>10. Accepted(q.id, new(e)) /\ Counted(q.id, new(e))
      BY <1>5, <2>1, <2>8, <2>9 DEF Accepted, Counted, Successor
    <2>11. ListingStep
      BY <1>2, <2>5, <2>8, <2>10 DEF ListingStep, Writes
    <2>12. HistoryStep
      BY <1>2, <2>6 DEF HistoryStep, IInv, TypeOK
    <2> QED
      BY <2>6, <2>11, <2>12, AnsweredIsSound DEF Replies
  <1> QED
    BY <1>3, <1>4, <1>5

\* A status is written only over the status that was read, from which it may follow.
LEMMA WriteStatusStep ==
  ASSUME IInv, NEW r \in Requests, WriteStatus(r)
  PROVE  RequestStep(r) /\ ListingStep /\ HistoryStep
  <1> DEFINE q == request[r]
             l == listings[q.id]
             published == l.published \/ q.publish
             confirmed == IF q.status = "active" THEN "fresh" ELSE l.confirmed
             new == [l EXCEPT !.status = q.status, !.published = published, !.confirmed = confirmed]
  <1>1. q \in Request /\ q.op = "status" /\ q.pc = "write"
    BY DEF IInv, TypeOK, WriteStatus
  <1>2. /\ q.id \in Ids /\ q.status \in allowedTransitions[q.from] /\ q.status \in Statuses
        /\ q.status = "active" /\ Exists(q.id) => q.publish \/ l.published
    BY <1>1 DEF IInv, Sound, Transition, Request
  <1>3. CASE ~AsRead(q) \/ ~IndexAllows(q.id, q.status, l.plate)
    <2>1. listings' = listings /\ UNCHANGED History /\ Reply(r, "conflict")
      BY <1>3 DEF WriteStatus, History
    <2> QED
      BY <2>1, QuietHistory, AnsweredIsSound DEF Replies, ListingStep
  <1>4. CASE AsRead(q) /\ IndexAllows(q.id, q.status, l.plate)
    <2>1. /\ listings' = [listings EXCEPT ![q.id] = new]
          /\ uncounted' = (uncounted \/ (q.status \in Open /\ l.status \notin Open))
          /\ Reply(r, "ok") /\ acked' = acked /\ raced' = raced
      BY <1>4 DEF WriteStatus
    <2>2. l \in Listing /\ Exists(q.id) /\ l.status = q.from
      BY <1>2, <1>4, ListingExists DEF IInv, AsRead, Owned
    <2>3. l.published \in BOOLEAN /\ q.publish \in BOOLEAN /\ l.confirmed \in Confirmations
      BY <1>1, <2>2 DEF Listing, Request
    <2>4. published \in BOOLEAN /\ confirmed \in Confirmations /\ (l.published => published)
      BY <2>3 DEF Confirmations
    <2>5. q.status \in {"active", "sold"} => published /\ confirmed # "never"
      <3>1. CASE q.status = "active"
        BY <1>2, <2>2, <3>1
      <3>2. CASE q.status = "sold"
        <4>1. l.status = "active"
          BY <1>2, <2>2, <3>2 DEF allowedTransitions, Listing, Statuses
        <4> QED
          BY <1>2, <3>2, <4>1 DEF IInv, RulesKept, ActiveWasPublished
      <3> QED
        BY <3>1, <3>2
    <2> HIDE DEF published, confirmed
    <2>6. /\ new \in Listing /\ new.status = q.status /\ new.plate = l.plate /\ new.dealer = l.dealer
          /\ new.published = published /\ new.confirmed = confirmed
      BY <1>2, <2>2, <2>4 DEF Listing
    <2> HIDE DEF new
    <2>7. Accepted(q.id, new)
      BY <1>2, <1>4, <2>2, <2>4, <2>5, <2>6 DEF Accepted, Successor
    <2>8. Counted(q.id, new)
      BY <2>1, <2>2, <2>6 DEF Counted
    <2>9. ListingStep
      BY <1>2, <2>1, <2>6, <2>7, <2>8 DEF ListingStep, Writes
    <2>10. HistoryStep
      BY <2>1 DEF HistoryStep, IInv, TypeOK
    <2> QED
      BY <2>1, <2>9, <2>10, AnsweredIsSound DEF Replies
  <1> QED
    BY <1>3, <1>4

\* A deletion leaves no listing, an administrator's removal an archived one.
LEMMA RemovalStep ==
  ASSUME IInv, NEW r \in Requests, DeleteListing(r) \/ RemoveByAdmin(r)
  PROVE  RequestStep(r) /\ ListingStep /\ HistoryStep
  <1> DEFINE id == request[r].id
             l == listings[id]
             new == [l EXCEPT !.status = "archived"]
  <1>1. id \in Ids
    BY DEF IInv, Sound, Removal, DeleteListing, RemoveByAdmin
  <1>2. HistoryStep
    BY QuietHistory DEF DeleteListing, RemoveByAdmin
  <1>3. RequestStep(r)
    BY AnsweredIsSound DEF DeleteListing, RemoveByAdmin, Replies
  <1>4. CASE listings' = listings
    BY <1>2, <1>3, <1>4 DEF ListingStep
  <1>5. CASE listings' = [listings EXCEPT ![id] = Gone] /\ Owned(id, request[r].by)
    <2>1. l \in Listing
      BY <1>1, <1>5, ListingExists DEF IInv, Owned
    <2> QED
      BY <1>1, <1>2, <1>3, <1>5, <2>1 DEF ListingStep, Writes
  <1>6. CASE listings' = [listings EXCEPT ![id] = new] /\ Exists(id)
    <2>1. l \in Listing
      BY <1>1, <1>6, ListingExists DEF IInv
    <2>2. /\ new \in Listing /\ new.status = "archived" /\ new.dealer = l.dealer /\ new.published = l.published
      BY <2>1 DEF Listing, Statuses
    <2> HIDE DEF new
    <2>3. "archived" \in allowedTransitions[l.status] \cup {l.status}
      BY <2>1 DEF allowedTransitions, Listing, Statuses
    <2>4. Accepted(id, new) /\ Counted(id, new)
      BY <2>1, <2>2, <2>3 DEF Accepted, Counted, Successor, IndexAllows, Open
    <2> QED
      BY <1>1, <1>2, <1>3, <1>6, <2>2, <2>4 DEF ListingStep, Writes
  <1> QED
    BY <1>4, <1>5, <1>6 DEF DeleteListing, RemoveByAdmin

\* What a bulk action makes of a listing it is meant for: an open listing stays one
\* only if it was one, and keeps its plate.
LEMMA BulkResultsFollow ==
  ASSUME NEW l \in Listing, NEW action \in Actions, Eligible(action, l), NEW m \in BulkResults(action, l),
         l.status \in {"active", "sold"} => l.published /\ l.confirmed # "never"
  PROVE  \/ m = Gone
         \/ /\ m \in Listing /\ m.plate = l.plate /\ Successor(l, m)
            /\ m.status \in {"active", "sold"} => m.published /\ m.confirmed # "never"
            /\ m.status \in Open => l.status \in Open
  <1>1. CASE action = "publish"
    <2>1. l.status = "draft" /\ m = [l EXCEPT !.status = "active", !.published = TRUE, !.confirmed = "fresh"]
      BY <1>1 DEF Eligible, BulkResults
    <2>2. /\ m \in Listing /\ m.plate = l.plate /\ m.dealer = l.dealer /\ m.status = "active"
          /\ m.published = TRUE /\ m.confirmed = "fresh"
      BY <2>1 DEF Listing, Statuses, Confirmations
    <2> QED
      BY <2>1, <2>2 DEF Successor, allowedTransitions, Open
  <1>2. CASE action = "mark-sold"
    <2>1. l.status = "active" /\ m = [l EXCEPT !.status = "sold"]
      BY <1>2 DEF Eligible, BulkResults
    <2>2. /\ m \in Listing /\ m.plate = l.plate /\ m.dealer = l.dealer /\ m.status = "sold"
          /\ m.published = l.published /\ m.confirmed = l.confirmed
      BY <2>1 DEF Listing, Statuses
    <2> QED
      BY <2>1, <2>2 DEF Successor, allowedTransitions, Open
  <1>3. CASE action = "archive"
    <2>1. l.status \in Statuses /\ m = [l EXCEPT !.status = "archived"]
      BY <1>3 DEF BulkResults, Listing
    <2>2. /\ m \in Listing /\ m.plate = l.plate /\ m.dealer = l.dealer /\ m.status = "archived"
          /\ m.published = l.published
      BY <2>1 DEF Listing, Statuses
    <2> QED
      BY <2>1, <2>2 DEF Successor, allowedTransitions, Open, Statuses
  <1>4. CASE action = "confirm-available"
    <2>1. m = [l EXCEPT !.confirmed = "fresh"]
      BY <1>4 DEF BulkResults
    <2>2. /\ m \in Listing /\ m.plate = l.plate /\ m.dealer = l.dealer /\ m.status = l.status
          /\ m.published = l.published /\ m.confirmed = "fresh"
      BY <2>1 DEF Listing, Confirmations
    <2> QED
      BY <2>2 DEF Successor
  <1>5. CASE action = "reduce-price"
    <2>1. PICK p \in {"zero", "positive"} : m = [l EXCEPT !.price = p, !.confirmed = "fresh"]
      BY <1>5 DEF BulkResults
    <2>2. /\ m \in Listing /\ m.plate = l.plate /\ m.dealer = l.dealer /\ m.status = l.status
          /\ m.published = l.published /\ m.confirmed = "fresh"
      BY <2>1 DEF Listing, Confirmations
    <2> QED
      BY <2>2 DEF Successor
  <1>6. CASE action = "delete"
    BY <1>6 DEF BulkResults
  <1> QED
    BY <1>1, <1>2, <1>3, <1>4, <1>5, <1>6 DEF Actions

\* A bulk action goes on with the listings it has not looked at yet.
LEMMA BulkGoesOn ==
  ASSUME IInv, NEW r \in Requests, request[r].pc = "each", NEW q \in Request,
         request' = [request EXCEPT ![r] = q], q.pc = "each", q.op = request[r].op,
         q.by = request[r].by, q.reply = request[r].reply
  PROVE  RequestStep(r)
  <1>1. request \in [Requests -> Request] /\ Sound(request[r])
    BY DEF IInv, TypeOK
  <1>2. request'[r] = q /\ \A s \in Requests \ {r} : request'[s] = request[s]
    BY <1>1
  <1>3. Sound(request[r])'
    BY <1>1, <1>2 DEF Sound, Creation, Edition, Transition, Removal, Steps
  <1>4. q.reply = "error" => q.op = "edit"
    BY DEF IInv, RulesKept, BulkNeverClashes
  <1> QED
    BY <1>1, <1>2, <1>3, <1>4 DEF RequestStep

\* A step of a bulk action writes one listing, and never meets the index.
LEMMA BulkStepStep ==
  ASSUME IInv, NEW r \in Requests, NEW i \in Ids, BulkStep(r, i)
  PROVE  RequestStep(r) /\ ListingStep /\ HistoryStep
  <1> DEFINE rest == request[r].todo \ {i}
             q == [request[r] EXCEPT !.todo = rest]
             l == listings[i]
  <1>1. request[r] \in Request /\ request \in [Requests -> Request] /\ request[r].pc = "each"
    BY DEF IInv, TypeOK, BulkStep
  <1>2. HistoryStep
    BY QuietHistory DEF BulkStep
  <1>3. rest \in SUBSET Ids
    BY <1>1 DEF Request
  <1>4. CASE ~(InScope(i, request[r]) /\ Eligible(request[r].action, l))
    <2>1. request' = [request EXCEPT ![r] = q] /\ listings' = listings
      BY <1>1, <1>4 DEF BulkStep
    <2>2. q \in Request /\ q.pc = "each" /\ q.op = request[r].op /\ q.by = request[r].by /\ q.reply = request[r].reply
      BY <1>1, <1>3 DEF Request
    <2> HIDE DEF q
    <2> QED
      BY <1>1, <1>2, <2>1, <2>2, BulkGoesOn DEF ListingStep
  <1>5. CASE InScope(i, request[r]) /\ Eligible(request[r].action, l)
    <2>1. l \in Listing /\ request[r].action \in Actions
      BY <1>1, <1>5, ListingExists DEF IInv, InScope, Owned, Request
    <2>2. PICK m \in BulkResults(request[r].action, l) :
            IF m \in Listing /\ ~IndexAllows(i, m.status, m.plate)
              THEN Reply(r, "error") /\ UNCHANGED listings
              ELSE /\ listings' = [listings EXCEPT ![i] = m]
                   /\ request' = [request EXCEPT ![r].todo = rest]
      BY <1>5 DEF BulkStep
    <2>3. l.status \in {"active", "sold"} => l.published /\ l.confirmed # "never"
      BY DEF IInv, RulesKept, ActiveWasPublished
    <2>4. \/ m = Gone
          \/ /\ m \in Listing /\ m.plate = l.plate /\ Successor(l, m)
             /\ m.status \in {"active", "sold"} => m.published /\ m.confirmed # "never"
             /\ m.status \in Open => l.status \in Open
      BY <1>5, <2>1, <2>3, BulkResultsFollow
    <2>5. m # Gone => IndexAllows(i, m.status, m.plate)
      BY <2>4, OwnPlate DEF IndexAllows
    <2>6. Gone \notin Listing
      BY DEF Gone, Listing, Statuses
    <2>7. listings' = [listings EXCEPT ![i] = m] /\ request' = [request EXCEPT ![r] = q]
      BY <1>1, <2>2, <2>4, <2>5, <2>6
    <2>8. ListingStep
      <3>1. m # Gone => Accepted(i, m) /\ Counted(i, m)
        BY <2>1, <2>4, <2>5 DEF Accepted, Counted
      <3> QED
        BY <2>1, <2>4, <2>7, <3>1 DEF ListingStep, Writes
    <2>9. q \in Request /\ q.pc = "each" /\ q.op = request[r].op /\ q.by = request[r].by /\ q.reply = request[r].reply
      BY <1>1, <1>3 DEF Request
    <2> HIDE DEF q
    <2> QED
      BY <1>1, <1>2, <2>7, <2>8, <2>9, BulkGoesOn
  <1> QED
    BY <1>4, <1>5

-----------------------------------------------------------------------------
(* What happens around the requests, and what clients ask. *)

\* An import inserts a draft on a free plate; no limit counts it.
LEMMA ImportDraftStep ==
  ASSUME IInv, NEW i \in Ids, NEW d \in Dealers, NEW p \in Plates, ImportDraft(i, d, p)
  PROVE  ListingStep /\ HistoryStep
  <1> DEFINE text == [f \in Fields |-> "old"]
             new == [dealer |-> d, status |-> "draft", plate |-> p, upload |-> TRUE, published |-> FALSE,
                     confirmed |-> "never", price |-> "positive", fields |-> text, embedding |-> text]
  <1>1. /\ listings[i] = NotYet /\ IndexAllows(i, "draft", p) /\ listings' = [listings EXCEPT ![i] = new]
        /\ acked' = [acked EXCEPT ![i] = text] /\ uncounted' = TRUE /\ raced' = raced
    BY DEF ImportDraft
  <1>2. text \in [Fields -> Values] /\ text \in Embeddings
    BY DEF Values, Embeddings
  <1> HIDE DEF text
  <1>3. /\ new \in Listing /\ new.status = "draft" /\ new.plate = p
    BY <1>2 DEF Listing, Statuses, Confirmations
  <1> HIDE DEF new
  <1>4. Accepted(i, new) /\ Counted(i, new)
    BY <1>1, <1>3 DEF Accepted, Counted
  <1> QED
    BY <1>1, <1>2, <1>3, <1>4 DEF ListingStep, Writes, HistoryStep, IInv, TypeOK

\* Time makes a confirmation stale, not a listing unconfirmed.
LEMMA GoesStaleStep ==
  ASSUME IInv, NEW i \in Ids, GoesStale(i)
  PROVE  ListingStep /\ HistoryStep
  <1> DEFINE l == listings[i]
             new == [l EXCEPT !.confirmed = "stale"]
  <1>1. listings' = [listings EXCEPT ![i] = new] /\ Exists(i)
    BY DEF GoesStale
  <1>2. l \in Listing
    BY <1>1, ListingExists DEF IInv
  <1>3. /\ new \in Listing /\ new.status = l.status /\ new.plate = l.plate /\ new.dealer = l.dealer
        /\ new.published = l.published /\ new.confirmed = "stale"
    BY <1>2 DEF Listing, Confirmations
  <1> HIDE DEF new
  <1>4. l.status \in {"active", "sold"} => l.published
    BY DEF IInv, RulesKept, ActiveWasPublished
  <1>5. IndexAllows(i, l.status, l.plate)
    BY OwnPlate DEF IndexAllows
  <1>6. Accepted(i, new) /\ Counted(i, new)
    BY <1>2, <1>3, <1>4, <1>5 DEF Accepted, Counted, Successor
  <1>7. HistoryStep
    BY QuietHistory DEF GoesStale
  <1> QED
    BY <1>1, <1>3, <1>6, <1>7 DEF ListingStep, Writes

\* A request starts with nothing read, and with the ids of listings.
LEMMA AskStep ==
  ASSUME IInv, NEW r \in Requests, Ask(r)
  PROVE  RequestStep(r) /\ ListingStep /\ HistoryStep
  <1>1. request \in [Requests -> Request]
    BY DEF IInv, TypeOK
  <1>2. ListingStep /\ HistoryStep
    BY QuietHistory DEF Ask, ListingStep
  <1>3. NoEmbedding \in Embeddings /\ "none" \in Values /\ r \in Values
    BY DEF Embeddings, Values
  <1> DEFINE scope == [ids |-> {}, upload |-> TRUE]
  <1>4. scope \in Scopes /\ [ids |-> Known, upload |-> FALSE] \in Scopes
    BY DEF Scopes, Known
  <1>5. NoInput \in Request /\ NoInput.op = "edit" /\ NoInput.by = Admin /\ NoInput.reply = "none"
    BY <1>3, <1>4 DEF NoInput, Request, AllOps, Replies, Statuses, Fields, Actions
  <1>6. ASSUME NEW q \in Request, request' = [request EXCEPT ![r] = q], q.reply = "none",
               \/ q.op = "create" /\ q.pc = "count" /\ q.by \in Dealers /\ q.status \in Open /\ q.plate \in Plates
               \/ /\ q.op \in {"edit", "status", "delete"} /\ q.pc = "find" /\ q.by \in Dealers /\ q.id \in Ids
                  /\ q.op = "edit" /\ q.field = "plate" => q.plate \in Plates
               \/ q.op = "remove" /\ q.pc = "find" /\ q.by = Admin /\ q.id \in Ids
               \/ q.op = "bulk" /\ q.pc = "scope" /\ q.by \in Dealers
        PROVE  RequestStep(r)
    <2>1. request'[r] = q /\ \A s \in Requests \ {r} : request'[s] = request[s]
      BY <1>1, <1>6
    <2>2. Sound(request[r])'
      BY <1>6, <2>1 DEF Sound, Creation, Edition, Transition, Removal, Steps
    <2> QED
      BY <1>1, <1>6, <2>1, <2>2 DEF RequestStep
  <1>7. PICK d \in Clients : Asks(r, d)
    BY DEF Ask
  <1>8. d \in Dealers \/ d = Admin
    BY <1>7, NamesAssumption
  <1>9. Known \subseteq Ids /\ Open \subseteq Statuses
    BY DEF Known, Open, Statuses
  <1>10. CASE d # Admin /\ \E s \in Open, p \in Plates : request' = [request EXCEPT ![r] = [NoInput EXCEPT
                !.op = "create", !.by = d, !.pc = "count", !.status = s, !.plate = p]]
    <2>1. PICK s \in Open, p \in Plates : request' = [request EXCEPT ![r] = [NoInput EXCEPT
            !.op = "create", !.by = d, !.pc = "count", !.status = s, !.plate = p]]
      BY <1>10
    <2> DEFINE q == [NoInput EXCEPT !.op = "create", !.by = d, !.pc = "count", !.status = s, !.plate = p]
    <2>2. /\ q \in Request /\ request' = [request EXCEPT ![r] = q]
          /\ q.op = "create" /\ q.pc = "count" /\ q.by = d /\ q.status = s /\ q.plate = p /\ q.reply = "none"
      BY <2>1, <1>5, <1>8, <1>9 DEF Request, AllOps
    <2> HIDE DEF q
    <2> QED
      BY <1>2, <1>6, <1>8, <1>10, <2>1, <2>2
  <1>11. CASE d # Admin /\ \E i \in Known, p \in Plates : request' = [request EXCEPT ![r] = [NoInput EXCEPT
               !.by = d, !.pc = "find", !.id = i, !.field = "plate", !.plate = p]]
    <2>1. PICK i \in Known, p \in Plates : request' = [request EXCEPT ![r] = [NoInput EXCEPT
            !.by = d, !.pc = "find", !.id = i, !.field = "plate", !.plate = p]]
      BY <1>11
    <2> DEFINE q == [NoInput EXCEPT !.by = d, !.pc = "find", !.id = i, !.field = "plate", !.plate = p]
    <2>2. /\ q \in Request /\ request' = [request EXCEPT ![r] = q]
          /\ q.op = "edit" /\ q.pc = "find" /\ q.by = d /\ q.id = i /\ q.plate = p /\ q.reply = "none"
      BY <2>1, <1>5, <1>8, <1>9 DEF Request
    <2> HIDE DEF q
    <2> QED
      BY <1>2, <1>6, <1>8, <1>9, <1>11, <2>1, <2>2
  <1>12. CASE d # Admin /\ \E i \in Known, f \in Fields, v \in {r, "none"} : request' = [request EXCEPT ![r] =
               [NoInput EXCEPT !.by = d, !.pc = "find", !.id = i, !.field = f, !.value = v]]
    <2>1. PICK i \in Known, f \in Fields, v \in {r, "none"} : request' = [request EXCEPT ![r] =
            [NoInput EXCEPT !.by = d, !.pc = "find", !.id = i, !.field = f, !.value = v]]
      BY <1>12
    <2> DEFINE q == [NoInput EXCEPT !.by = d, !.pc = "find", !.id = i, !.field = f, !.value = v]
    <2>2. /\ q \in Request /\ request' = [request EXCEPT ![r] = q]
          /\ q.op = "edit" /\ q.pc = "find" /\ q.by = d /\ q.id = i /\ q.field = f /\ q.reply = "none"
      BY <2>1, <1>3, <1>5, <1>8, <1>9 DEF Request
    <2> HIDE DEF q
    <2>3. f # "plate"
      BY DEF Fields, Attributes
    <2> QED
      BY <1>2, <1>6, <1>8, <1>9, <1>12, <2>1, <2>2, <2>3
  <1>13. CASE d # Admin /\ \E i \in Known, s \in Statuses \ {"draft"} : request' = [request EXCEPT ![r] =
               [NoInput EXCEPT !.op = "status", !.by = d, !.pc = "find", !.id = i, !.status = s]]
    <2>1. PICK i \in Known, s \in Statuses \ {"draft"} : request' = [request EXCEPT ![r] =
            [NoInput EXCEPT !.op = "status", !.by = d, !.pc = "find", !.id = i, !.status = s]]
      BY <1>13
    <2> DEFINE q == [NoInput EXCEPT !.op = "status", !.by = d, !.pc = "find", !.id = i, !.status = s]
    <2>2. /\ q \in Request /\ request' = [request EXCEPT ![r] = q]
          /\ q.op = "status" /\ q.pc = "find" /\ q.by = d /\ q.id = i /\ q.reply = "none"
      BY <2>1, <1>5, <1>8, <1>9 DEF Request, AllOps
    <2> HIDE DEF q
    <2> QED
      BY <1>2, <1>6, <1>8, <1>9, <1>13, <2>1, <2>2
  <1>14. CASE \E i \in Known : request' = [request EXCEPT ![r] = [NoInput EXCEPT
                !.op = IF d = Admin THEN "remove" ELSE "delete", !.by = d, !.pc = "find", !.id = i]]
    <2> DEFINE op == IF d = Admin THEN "remove" ELSE "delete"
    <2>1. PICK i \in Known : request' = [request EXCEPT ![r] = [NoInput EXCEPT
            !.op = op, !.by = d, !.pc = "find", !.id = i]]
      BY <1>14
    <2>2. (op = "remove" /\ d = Admin) \/ (op = "delete" /\ d \in Dealers)
      BY <1>8
    <2>3. op \in AllOps
      BY DEF AllOps
    <2> HIDE DEF op
    <2> DEFINE q == [NoInput EXCEPT !.op = op, !.by = d, !.pc = "find", !.id = i]
    <2>4. /\ q \in Request /\ request' = [request EXCEPT ![r] = q]
          /\ q.op = op /\ q.pc = "find" /\ q.by = d /\ q.id = i /\ q.reply = "none"
      BY <2>1, <1>5, <1>8, <1>9, <2>3 DEF Request
    <2> HIDE DEF q
    <2> QED
      BY <1>2, <1>6, <1>8, <1>9, <2>1, <2>2, <2>4
  <1>15. CASE d # Admin /\ \E a \in Actions, c \in {scope, [ids |-> Known, upload |-> FALSE]} :
               request' = [request EXCEPT ![r] = [NoInput EXCEPT
                 !.op = "bulk", !.by = d, !.pc = "scope", !.action = a, !.scope = c]]
    <2>1. PICK a \in Actions, c \in {scope, [ids |-> Known, upload |-> FALSE]} :
            request' = [request EXCEPT ![r] = [NoInput EXCEPT
              !.op = "bulk", !.by = d, !.pc = "scope", !.action = a, !.scope = c]]
      BY <1>15
    <2> DEFINE q == [NoInput EXCEPT !.op = "bulk", !.by = d, !.pc = "scope", !.action = a, !.scope = c]
    <2>2. c \in Scopes
      BY <1>4
    <2>3. /\ q \in Request /\ request' = [request EXCEPT ![r] = q]
          /\ q.op = "bulk" /\ q.pc = "scope" /\ q.by = d /\ q.reply = "none"
      BY <2>1, <1>5, <1>8, <2>2 DEF Request, AllOps
    <2> HIDE DEF q
    <2> QED
      BY <1>2, <1>6, <1>8, <1>15, <2>1, <2>3
  <1> QED
    BY <1>7, <1>10, <1>11, <1>12, <1>13, <1>14, <1>15 DEF Asks

-----------------------------------------------------------------------------
(* The invariant is inductive. *)

\* The listings of the start are listings, published where they must have been.
LEMMA StockIsSound ==
  ASSUME NEW l \in Stock
  PROVE  l \in Listing /\ (l.status \in {"active", "sold"} => l.published /\ l.confirmed # "never")
  <1>1. PICK s \in Statuses, u \in BOOLEAN, d \in Dealers, p \in Plates :
          l = [dealer |-> d, status |-> s, plate |-> p, upload |-> u, published |-> s \in {"active", "sold"},
               confirmed |-> IF s = "draft" /\ u THEN "never" ELSE "stale", price |-> "positive",
               fields |-> OldText, embedding |-> OldText]
    BY DEF Stock
  <1> DEFINE published == s \in {"active", "sold"}
             confirmed == IF s = "draft" /\ u THEN "never" ELSE "stale"
  <1>2. OldText \in [Fields -> Values] /\ OldText \in Embeddings
    BY DEF OldText, Values, Embeddings
  <1>3. published = TRUE \/ published = FALSE
    OBVIOUS
  <1>4. confirmed \in Confirmations /\ (s \in {"active", "sold"} => confirmed # "never")
    BY DEF Confirmations
  <1>5. s \in {"active", "sold"} => published
    OBVIOUS
  <1>6. l = [dealer |-> d, status |-> s, plate |-> p, upload |-> u, published |-> published,
             confirmed |-> confirmed, price |-> "positive", fields |-> OldText, embedding |-> OldText]
    BY <1>1
  <1> HIDE DEF published, confirmed
  <1>7. l \in Listing
    BY <1>2, <1>3, <1>4, <1>6 DEF Listing
  <1>8. l.status = s /\ l.published = published /\ l.confirmed = confirmed
    BY <1>6
  <1> QED
    BY <1>4, <1>5, <1>7, <1>8

\* The invariant holds at the start.
LEMMA InitSound == Init => IInv
  <1> SUFFICES ASSUME Init PROVE IInv
    OBVIOUS
  <1>1. listings \in [Ids -> Listing \cup {NotYet, Gone}]
    BY StockIsSound DEF Init
  <1>2. NoInput \in Request
    <2>1. NoEmbedding \in Embeddings /\ "none" \in Values
      BY DEF Embeddings, Values
    <2>2. [ids |-> {}, upload |-> TRUE] \in Scopes
      BY DEF Scopes
    <2> QED
      BY <2>1, <2>2 DEF NoInput, Request, AllOps, Replies, Statuses, Fields, Actions
  <1>3. OldText \in [Fields -> Values]
    BY DEF OldText, Values
  <1>4. TypeOK
    BY <1>1, <1>2, <1>3 DEF Init, TypeOK
  <1>5. PlatesUnique
    <2> SUFFICES ASSUME NEW i \in Ids, NEW j \in Ids, i # j, listings[i].status \in Open,
                        listings[j].status \in Open
                 PROVE  listings[i].plate # listings[j].plate
      BY DEF PlatesUnique
    <2>1. Exists(i)
      BY DEF Exists, Open, Statuses
    <2>2. Holders(listings[i].plate, i) = {}
      BY <2>1 DEF Init, IndexAllows
    <2> QED
      BY <2>2 DEF Holders
  <1>6. ActiveWasPublished
    BY StockIsSound DEF Init, ActiveWasPublished, NotYet
  <1>7. LimitKept
    BY DEF Init, LimitKept
  <1>8. \A r \in Requests : request[r] = NoInput /\ NoInput.pc = "idle" /\ NoInput.reply = "none"
    BY DEF Init, NoInput
  <1>9. BulkNeverClashes /\ \A r \in Requests : Sound(request[r])
    BY <1>8 DEF BulkNeverClashes, Sound, Creation, Edition, Transition, Removal, Steps
  <1> QED
    BY <1>4, <1>5, <1>6, <1>7, <1>9 DEF IInv, RulesKept

\* A request that waits relies on nothing that the others can undo: a listing that
\* was published stays published.
LEMMA OthersStaySound ==
  ASSUME IInv, ListingStep, HistoryStep, NEW s \in Requests, request'[s] = request[s]
  PROVE  Sound(request[s])'
  <1>1. Sound(request[s])
    BY DEF IInv
  <1>2. CASE listings' = listings
    BY <1>1, <1>2 DEF Sound, Creation, Edition, Transition, Removal, Steps, Exists
  <1>3. CASE \E i \in Ids, m \in Listing \cup {Gone} : Writes(i, m)
    <2>1. /\ listings' \in [Ids -> Listing \cup {NotYet, Gone}]
          /\ \A j \in Ids : listings[j] # NotYet => listings'[j] # NotYet
          /\ \A j \in Ids : listings'[j] \in Listing =>
               listings[j] = NotYet \/ (listings[j] \in Listing /\ Successor(listings[j], listings'[j]))
      BY <1>3, WriteKeepsRules DEF HistoryStep
    <2>2. Transition(request[s])'
      <3> SUFFICES ASSUME request[s].op = "status", request[s].pc \in {"find", "check", "write"}
                   PROVE  Transition(request[s])'
        BY DEF Transition
      <3>1. request[s].id \in Ids /\ request[s].by \in Dealers
        BY <1>1 DEF Sound, Transition
      <3>2. CASE request[s].pc = "find"
        BY <3>1, <3>2 DEF Transition
      <3>3. CASE request[s].pc # "find"
        <4>1. /\ request[s].status \in allowedTransitions[request[s].from]
              /\ listings[request[s].id] # NotYet
              /\ request[s].status = "active" /\ Exists(request[s].id) =>
                   request[s].publish \/ listings[request[s].id].published
          BY <1>1, <3>3 DEF Sound, Transition
        <4>2. Exists(request[s].id)' => listings'[request[s].id] \in Listing
          BY <2>1, <3>1 DEF Exists, NotYet, Gone, Statuses
        <4>3. Exists(request[s].id)' =>
                Exists(request[s].id) /\ (listings[request[s].id].published => listings'[request[s].id].published)
          BY <2>1, <3>1, <4>1, <4>2 DEF Exists, Successor, Listing
        <4> QED
          BY <2>1, <3>1, <4>1, <4>3 DEF Transition
      <3> QED
        BY <3>2, <3>3
    <2> QED
      BY <1>1, <2>2 DEF Sound, Creation, Edition, Removal, Steps
  <1> QED
    BY <1>2, <1>3 DEF ListingStep

\* Every step writes at most one listing, and keeps the history.
LEMMA EveryStepWrites ==
  ASSUME IInv, [Next]_vars
  PROVE  /\ ListingStep /\ HistoryStep
         /\ UNCHANGED request \/ \E r \in Requests : RequestStep(r)
  <1>1. ASSUME NEW r \in Requests, Ask(r)
        PROVE  RequestStep(r) /\ ListingStep /\ HistoryStep
    BY <1>1, AskStep
  <1>2. ASSUME NEW r \in Requests, Serve(r)
        PROVE  RequestStep(r) /\ ListingStep /\ HistoryStep
    BY <1>2, CountOpenStep, CheckPlateStep, InsertStep, FindForEditStep, WriteEditStep, FindForStatusStep,
       WriteStatusStep, RemovalStep, BulkReadStep, BulkStepStep, BulkReplyStep DEF Serve
  <1>3. ASSUME NEW i \in Ids, NEW d \in Dealers, NEW p \in Plates, ImportDraft(i, d, p)
        PROVE  ListingStep /\ HistoryStep /\ UNCHANGED request
    BY <1>3, ImportDraftStep DEF ImportDraft
  <1>4. ASSUME NEW i \in Ids, GoesStale(i)
        PROVE  ListingStep /\ HistoryStep /\ UNCHANGED request
    BY <1>4, GoesStaleStep DEF GoesStale
  <1>5. CASE UNCHANGED vars
    BY <1>5, QuietHistory DEF vars, ListingStep
  <1> QED
    BY <1>1, <1>2, <1>3, <1>4, <1>5 DEF Next

\* Every step keeps the invariant.
LEMMA NextSound == IInv /\ [Next]_vars => IInv'
  <1> SUFFICES ASSUME IInv, [Next]_vars PROVE IInv'
    OBVIOUS
  <1>1. ListingStep /\ HistoryStep
    BY EveryStepWrites
  <1>2. UNCHANGED request \/ \E r \in Requests : RequestStep(r)
    BY EveryStepWrites
  <1>3. /\ listings' \in [Ids -> Listing \cup {NotYet, Gone}]
        /\ PlatesUnique' /\ ActiveWasPublished' /\ LimitKept'
    <2>1. CASE listings' = listings
      BY <1>1, <2>1 DEF IInv, TypeOK, RulesKept, PlatesUnique, ActiveWasPublished, LimitKept, OpenOf, Owned,
         Exists, HistoryStep
    <2>2. CASE \E i \in Ids, m \in Listing \cup {Gone} : Writes(i, m)
      BY <1>1, <2>2, WriteKeepsRules DEF HistoryStep
    <2> QED
      BY <1>1, <2>1, <2>2 DEF ListingStep
  <1>4. \A s \in Requests : request'[s] = request[s] => Sound(request[s])'
    BY <1>1, OthersStaySound
  <1>5. request' \in [Requests -> Request] /\ BulkNeverClashes' /\ \A s \in Requests : Sound(request[s])'
    <2>1. CASE UNCHANGED request
      BY <1>4, <2>1 DEF IInv, TypeOK, RulesKept, BulkNeverClashes
    <2>2. CASE \E r \in Requests : RequestStep(r)
      BY <1>4, <2>2 DEF RequestStep, IInv, RulesKept, BulkNeverClashes
    <2> QED
      BY <1>2, <2>1, <2>2
  <1> QED
    BY <1>1, <1>3, <1>5 DEF IInv, TypeOK, RulesKept, HistoryStep

\* The invariant holds in every state.
LEMMA AlwaysSound == Spec => []IInv
  BY InitSound, NextSound, PTL DEF Spec

-----------------------------------------------------------------------------
(* Who moves a listing, and where to. *)

\* A write leads along the lifecycle, and what was deleted stays deleted.
LEMMA StepsFollow ==
  ASSUME IInv, ListingStep, HistoryStep, NEW i \in Ids
  PROVE  /\ listings[i] = Gone => listings'[i] = Gone
         /\ Exists(i) => listings'[i].status \in allowedTransitions[listings[i].status]
                            \cup {listings[i].status, "gone"}
  <1>1. CASE listings' = listings
    BY <1>1
  <1>2. CASE \E j \in Ids, m \in Listing \cup {Gone} : Writes(j, m)
    <2>1. /\ listings' \in [Ids -> Listing \cup {NotYet, Gone}]
          /\ listings[i] # NotYet => listings'[i] # NotYet
          /\ listings'[i] \in Listing =>
               listings[i] = NotYet \/ (listings[i] \in Listing /\ Successor(listings[i], listings'[i]))
      BY <1>2, WriteKeepsRules DEF HistoryStep
    <2>2. Gone \notin Listing /\ Gone # NotYet /\ NotYet \notin Listing /\ Gone.status = "gone"
      BY DEF Gone, NotYet, Listing, Statuses
    <2>3. Exists(i) <=> listings[i] \in Listing
      BY ListingExists DEF IInv
    <2> QED
      BY <2>1, <2>2, <2>3 DEF Successor
  <1> QED
    BY <1>1, <1>2 DEF ListingStep

\* A request writes a listing of its dealer only, or is an administrator's.
LEMMA ServeByOwner ==
  ASSUME IInv, NEW r \in Requests, Serve(r), NEW i \in Ids, Exists(i), listings'[i] # listings[i]
  PROVE  request[r].by \in {listings[i].dealer, Admin}
  <1>1. listings \in [Ids -> Listing \cup {NotYet, Gone}] /\ listings[i] # NotYet
    BY DEF IInv, TypeOK, Exists, NotYet, Statuses
  <1>2. CASE Insert(r)
    BY <1>1, <1>2 DEF Insert
  <1>3. CASE WriteEdit(r)
    BY <1>1, <1>3 DEF WriteEdit, Owned
  <1>4. CASE WriteStatus(r)
    BY <1>1, <1>4 DEF WriteStatus, AsRead, Owned
  <1>5. CASE DeleteListing(r)
    BY <1>1, <1>5 DEF DeleteListing, Owned
  <1>6. CASE RemoveByAdmin(r)
    BY <1>6 DEF RemoveByAdmin, IInv, Sound, Removal
  <1>7. ASSUME NEW j \in Ids, BulkStep(r, j)
        PROVE  request[r].by \in {listings[i].dealer, Admin}
    BY <1>1, <1>7 DEF BulkStep, InScope, Owned
  <1> QED
    BY <1>2, <1>3, <1>4, <1>5, <1>6, <1>7 DEF Serve, CountOpen, CheckPlate, FindForEdit, FindForStatus,
       CountScope, FindArchived, BulkReply

\* A step that writes a listing and moves a request is a step of that request.
LEMMA OnlyTheRequestMoves ==
  ASSUME IInv, [Next]_vars, NEW r \in Requests, request'[r] # request[r], listings' # listings
  PROVE  Serve(r)
  <1>1. ASSUME NEW s \in Requests, Serve(s)
        PROVE  s = r
    <2>1. RequestStep(s)
      BY <1>1, CountOpenStep, CheckPlateStep, InsertStep, FindForEditStep, WriteEditStep, FindForStatusStep,
         WriteStatusStep, RemovalStep, BulkReadStep, BulkStepStep, BulkReplyStep DEF Serve
    <2> QED
      BY <2>1 DEF RequestStep
  <1>2. ~UNCHANGED vars /\ \A s \in Requests : ~Ask(s)
    BY DEF Ask, vars
  <1>3. \A i \in Ids : ~GoesStale(i) /\ \A d \in Dealers, p \in Plates : ~ImportDraft(i, d, p)
    BY DEF GoesStale, ImportDraft
  <1> QED
    BY <1>1, <1>2, <1>3 DEF Next

-----------------------------------------------------------------------------
(* Edits. *)

\* Of one listing: its fields are those the acknowledged edits wrote, and an
\* embedding it has covers them.
Whole(i) ==
  /\ listings[i].fields = acked[i]
  /\ listings[i].embedding # NoEmbedding =>
       \A f \in Fields : listings[i].fields[f] # "none" => listings[i].embedding[f] = listings[i].fields[f]

\* A step may write a listing anew, as a whole, or leave its text and what was acknowledged.
TextStep(i) ==
  /\ i \in raced => i \in raced'
  /\ \/ i \in raced' \/ ~Exists(i)' \/ Whole(i)'
     \/ /\ Exists(i) /\ acked'[i] = acked[i]
        /\ listings'[i].fields = listings[i].fields /\ listings'[i].embedding = listings[i].embedding

\* Such steps keep every edit whole.
LEMMA TextStepsKeep ==
  ASSUME EditsAreWhole, \A i \in Ids : TextStep(i)
  PROVE  EditsAreWhole'
  BY DEF EditsAreWhole, EditsKept, EmbeddingTracks, TextStep, Whole, Exists

\* A step that leaves the history alone writes at most one listing, and its text stays.
LEMMA SameText ==
  ASSUME IInv, UNCHANGED <<acked, raced>>,
         \/ UNCHANGED listings
         \/ \E i \in Ids, m \in Listing \cup {Gone} :
              /\ listings' = [listings EXCEPT ![i] = m] /\ Exists(i)
              /\ m # Gone => m.fields = listings[i].fields /\ m.embedding = listings[i].embedding
  PROVE  \A i \in Ids : TextStep(i)
  <1>1. Gone.status \notin Statuses
    BY DEF Gone, Statuses
  <1>2. listings \in [Ids -> Listing \cup {NotYet, Gone}]
    BY DEF IInv, TypeOK
  <1> QED
    BY <1>1, <1>2 DEF TextStep, Exists

\* A new listing is whole.
LEMMA InsertText ==
  ASSUME IInv, NEW r \in Requests, Insert(r)
  PROVE  \A i \in Ids : TextStep(i)
  <1> DEFINE q == request[r]
             values == [f \in Fields |-> IF f = "description" THEN "none" ELSE r]
             published == q.status = "active"
             new(e) == [dealer |-> q.by, status |-> q.status, plate |-> q.plate, upload |-> FALSE,
                        published |-> published, confirmed |-> "fresh",
                        price |-> "positive", fields |-> values, embedding |-> e]
  <1>1. /\ listings \in [Ids -> Listing \cup {NotYet, Gone}] /\ acked \in [Ids -> [Fields -> Values]]
    BY DEF IInv, TypeOK
  <1>2. CASE ~IndexAllows(Nothing, q.status, q.plate)
    BY <1>2, SameText DEF Insert, History
  <1>3. CASE IndexAllows(Nothing, q.status, q.plate)
    <2>1. PICK i \in Ids, e \in {values, NoEmbedding} :
            /\ listings' = [listings EXCEPT ![i] = new(e)]
            /\ acked' = [acked EXCEPT ![i] = values] /\ raced' = raced
      BY <1>3 DEF Insert, EmbeddingsOf
    <2> HIDE DEF values, published
    <2>2. new(e).fields = values /\ new(e).embedding = e
      OBVIOUS
    <2> HIDE DEF new
    <2>3. TextStep(i)
      BY <1>1, <2>1, <2>2 DEF TextStep, Whole
    <2>4. \A j \in Ids \ {i} : listings'[j] = listings[j] /\ acked'[j] = acked[j]
      BY <1>1, <2>1
    <2> QED
      BY <2>1, <2>3, <2>4 DEF TextStep, Exists
  <1> QED
    BY <1>2, <1>3

\* An imported draft is whole.
LEMMA ImportText ==
  ASSUME IInv, NEW i \in Ids, NEW d \in Dealers, NEW p \in Plates, ImportDraft(i, d, p)
  PROVE  \A j \in Ids : TextStep(j)
  <1> DEFINE text == [f \in Fields |-> "old"]
             new == [dealer |-> d, status |-> "draft", plate |-> p, upload |-> TRUE, published |-> FALSE,
                     confirmed |-> "never", price |-> "positive", fields |-> text, embedding |-> text]
  <1>1. /\ listings \in [Ids -> Listing \cup {NotYet, Gone}] /\ acked \in [Ids -> [Fields -> Values]]
    BY DEF IInv, TypeOK
  <1>2. listings' = [listings EXCEPT ![i] = new] /\ acked' = [acked EXCEPT ![i] = text] /\ raced' = raced
    BY DEF ImportDraft
  <1> HIDE DEF text
  <1>3. new.fields = text /\ new.embedding = text
    OBVIOUS
  <1> HIDE DEF new
  <1>4. TextStep(i)
    BY <1>1, <1>2, <1>3 DEF TextStep, Whole
  <1>5. \A j \in Ids \ {i} : listings'[j] = listings[j] /\ acked'[j] = acked[j]
    BY <1>1, <1>2
  <1> QED
    BY <1>2, <1>4, <1>5 DEF TextStep, Exists

\* An edit of what it read is whole; one of what has changed since counts as raced.
LEMMA WriteEditText ==
  ASSUME IInv, EditsAreWhole, NEW r \in Requests, WriteEdit(r)
  PROVE  \A i \in Ids : TextStep(i)
  <1> DEFINE q == request[r]
             l == listings[q.id]
             plate == IF q.field = "plate" THEN q.plate ELSE l.plate
             searchable == q.field \in Fields
             outdated == l.fields # q.seen
             new(e) == [l EXCEPT !.plate = plate, !.fields = EditedFields(q, l.fields),
                                 !.embedding = e, !.confirmed = "fresh"]
  <1>1. q \in Request /\ q.op = "edit" /\ q.pc = "write"
    BY DEF IInv, TypeOK, WriteEdit
  <1>2. /\ q.id \in Ids /\ q.seen \in [Fields -> Values] /\ q.field \in Fields \cup {"plate"}
        /\ q.value \in Values
    BY <1>1 DEF IInv, Sound, Edition, Request
  <1>3. /\ listings \in [Ids -> Listing \cup {NotYet, Gone}] /\ acked \in [Ids -> [Fields -> Values]]
    BY DEF IInv, TypeOK
  <1>4. CASE ~Owned(q.id, q.by) \/ ~IndexAllows(q.id, l.status, plate)
    BY <1>4, SameText DEF WriteEdit, History
  <1>5. CASE Owned(q.id, q.by) /\ IndexAllows(q.id, l.status, plate)
    <2>1. l \in Listing /\ Exists(q.id)
      BY <1>2, <1>5, ListingExists DEF IInv, Owned
    <2>2. PICK e \in IF searchable THEN EmbeddingsOf(EmbeddedFields(q)) ELSE {l.embedding} :
            listings' = [listings EXCEPT ![q.id] = new(e)]
      BY <1>5 DEF WriteEdit
    <2>3. /\ acked' = IF searchable THEN [acked EXCEPT ![q.id][q.field] = q.value] ELSE acked
          /\ raced' = IF searchable /\ outdated THEN raced \cup {q.id} ELSE raced
      BY <1>5 DEF WriteEdit
    <2> DEFINE fields == EditedFields(q, l.fields)
    <2>4. new(e).fields = fields /\ new(e).embedding = e
      <3> HIDE DEF plate
      <3> QED
        BY <2>1 DEF Listing
    <2>5. PICK i \in Ids : i = q.id
      BY <1>2
    <2>6. listings'[i].fields = fields /\ listings'[i].embedding = e
      BY <1>2, <1>3, <2>2, <2>4, <2>5
    <2>7. CASE ~searchable
      <3>1. q.field \notin Attributes /\ q.field # "description"
        BY <2>7 DEF Fields
      <3>2. fields = l.fields /\ e = l.embedding /\ acked' = acked /\ raced' = raced
        BY <2>2, <2>3, <2>7, <3>1 DEF EditedFields
      <3>3. \A j \in Ids \ {i} : listings'[j] = listings[j]
        BY <1>3, <2>2, <2>5
      <3> HIDE DEF fields
      <3>4. TextStep(i)
        BY <2>1, <2>5, <2>6, <3>2 DEF TextStep
      <3> QED
        BY <3>2, <3>3, <3>4 DEF TextStep, Exists
    <2>8. CASE searchable
      <3>1. \A j \in Ids \ {i} : listings'[j] = listings[j] /\ acked'[j] = acked[j]
        BY <1>3, <2>2, <2>3, <2>5
      <3>2. raced \subseteq raced'
        BY <2>3
      <3>3. ASSUME i \notin raced'
            PROVE  Whole(i)'
        <4>1. i \notin raced /\ l.fields = q.seen /\ acked[i] = q.seen
          BY <1>2, <2>1, <2>3, <2>5, <2>8, <3>3 DEF EditsAreWhole, EditsKept
        <4>2. acked'[i] = [q.seen EXCEPT ![q.field] = q.value]
          BY <1>2, <1>3, <2>3, <2>5, <2>8, <4>1
        <4>3. fields = [q.seen EXCEPT ![q.field] = q.value]
          <5>1. CASE q.field \in Attributes
            <6>1. fields = [f \in Fields |-> IF f = q.field THEN q.value
                                             ELSE IF f \in Attributes THEN q.seen[f] ELSE l.fields[f]]
              BY <5>1 DEF EditedFields, Attributes
            <6> HIDE DEF fields
            <6> QED
              BY <1>2, <4>1, <6>1
          <5>2. CASE q.field \notin Attributes
            <6>1. q.field = "description"
              BY <2>8, <5>2 DEF Fields
            <6> QED
              BY <4>1, <5>2, <6>1 DEF EditedFields
          <5> QED
            BY <5>1, <5>2
        <4>4. ASSUME e # NoEmbedding, NEW f \in Fields, fields[f] # "none"
              PROVE  e[f] = fields[f]
          <5>1. e = EmbeddedFields(q)
            BY <2>2, <2>8, <4>4 DEF EmbeddingsOf
          <5>2. CASE q.field = "description" /\ q.value = "none"
            <6>1. e = q.seen
              BY <5>1, <5>2 DEF EmbeddedFields
            <6> QED
              BY <1>2, <2>8, <4>3, <4>4, <5>2, <6>1
          <5>3. CASE ~(q.field = "description" /\ q.value = "none")
            BY <4>3, <5>1, <5>3 DEF EmbeddedFields
          <5> QED
            BY <5>2, <5>3
        <4> HIDE DEF fields
        <4> QED
          BY <2>6, <4>2, <4>3, <4>4 DEF Whole
      <3> QED
        BY <3>1, <3>2, <3>3 DEF TextStep, Exists
    <2> QED
      BY <2>7, <2>8
  <1> QED
    BY <1>4, <1>5

\* Moves of a listing, and confirmations, leave its text.
LEMMA MovesKeepText ==
  ASSUME IInv, NEW r \in Requests,
         WriteStatus(r) \/ DeleteListing(r) \/ RemoveByAdmin(r) \/ \E i \in Ids : BulkStep(r, i)
  PROVE  \A i \in Ids : TextStep(i)
  <1>1. CASE WriteStatus(r)
    <2> DEFINE q == request[r]
               l == listings[q.id]
               published == l.published \/ q.publish
               confirmed == IF q.status = "active" THEN "fresh" ELSE l.confirmed
               new == [l EXCEPT !.status = q.status, !.published = published, !.confirmed = confirmed]
    <2>1. UNCHANGED <<acked, raced>>
      BY <1>1 DEF WriteStatus
    <2>2. CASE ~AsRead(q) \/ ~IndexAllows(q.id, q.status, l.plate)
      BY <1>1, <2>1, <2>2, SameText DEF WriteStatus
    <2>3. CASE AsRead(q) /\ IndexAllows(q.id, q.status, l.plate)
      <3>1. listings' = [listings EXCEPT ![q.id] = new]
        BY <1>1, <2>3 DEF WriteStatus
      <3>2. q.id \in Ids /\ q \in Request
        BY <1>1 DEF WriteStatus, IInv, TypeOK, Sound, Transition
      <3>3. l \in Listing /\ Exists(q.id)
        BY <2>3, <3>2, ListingExists DEF IInv, AsRead, Owned
      <3>4. published \in BOOLEAN /\ confirmed \in Confirmations /\ q.status \in Statuses
        <4>1. l.published \in BOOLEAN /\ q.publish \in BOOLEAN /\ l.confirmed \in Confirmations /\ q.status \in Statuses
          BY <3>2, <3>3 DEF Listing, Request
        <4> QED
          BY <4>1 DEF Confirmations
      <3> HIDE DEF published, confirmed
      <3>5. new \in Listing /\ new.fields = l.fields /\ new.embedding = l.embedding
        BY <3>3, <3>4 DEF Listing
      <3> HIDE DEF new
      <3> QED
        BY <2>1, <3>1, <3>2, <3>3, <3>5, SameText
    <2> QED
      BY <2>2, <2>3
  <1>2. CASE DeleteListing(r) \/ RemoveByAdmin(r)
    <2> DEFINE id == request[r].id
               new == [listings[id] EXCEPT !.status = "archived"]
    <2>1. UNCHANGED <<acked, raced>> /\ id \in Ids
      BY <1>2 DEF DeleteListing, RemoveByAdmin, IInv, Sound, Removal, History
    <2>2. \/ listings' = listings
          \/ listings' = [listings EXCEPT ![id] = Gone] /\ Exists(id)
          \/ listings' = [listings EXCEPT ![id] = new] /\ Exists(id)
      BY <1>2 DEF DeleteListing, RemoveByAdmin, Owned
    <2>3. Exists(id) => new \in Listing /\ new.fields = listings[id].fields /\ new.embedding = listings[id].embedding
      BY <2>1, ListingExists DEF IInv, Listing, Statuses
    <2> HIDE DEF new
    <2> QED
      BY <2>1, <2>2, <2>3, SameText
  <1>3. ASSUME NEW i \in Ids, BulkStep(r, i)
        PROVE  \A j \in Ids : TextStep(j)
    <2> DEFINE q == request[r]
               l == listings[i]
    <2>1. UNCHANGED <<acked, raced>>
      BY <1>3 DEF BulkStep, History
    <2>2. CASE listings' = listings
      BY <2>1, <2>2, SameText
    <2>3. CASE listings' # listings
      <3>1. PICK m \in BulkResults(q.action, l) : listings' = [listings EXCEPT ![i] = m]
        BY <1>3, <2>3 DEF BulkStep
      <3>2. Owned(i, q.by) /\ Eligible(q.action, l) /\ q.action \in Actions
        BY <1>3, <2>3 DEF BulkStep, InScope, IInv, TypeOK, Request
      <3>3. l \in Listing /\ Exists(i)
        BY <3>2, ListingExists DEF IInv, Owned
      <3>4. l.status \in {"active", "sold"} => l.published /\ l.confirmed # "never"
        BY DEF IInv, RulesKept, ActiveWasPublished
      <3>5. m \in Listing \cup {Gone}
        BY <3>2, <3>3, <3>4, BulkResultsFollow
      <3>6. m # Gone => m.fields = l.fields /\ m.embedding = l.embedding
        BY <3>2, <3>3 DEF BulkResults, Actions, Listing
      <3> QED
        BY <2>1, <3>1, <3>3, <3>5, <3>6, SameText
    <2> QED
      BY <2>2, <2>3
  <1> QED
    BY <1>1, <1>2, <1>3

\* Every step keeps the edits whole.
LEMMA NextKeepsText == IInv /\ EditsAreWhole /\ [Next]_vars => EditsAreWhole'
  <1> SUFFICES ASSUME IInv, EditsAreWhole, [Next]_vars
               PROVE  \A i \in Ids : TextStep(i)
    BY TextStepsKeep
  <1>1. ASSUME NEW r \in Requests, Serve(r)
        PROVE  \A i \in Ids : TextStep(i)
    <2>1. CASE UNCHANGED <<listings, History>>
      BY <2>1, SameText DEF History
    <2>2. CASE ~UNCHANGED <<listings, History>>
      BY <1>1, <2>2, InsertText, WriteEditText, MovesKeepText DEF Serve, CountOpen, CheckPlate, FindForEdit,
         FindForStatus, CountScope, FindArchived, BulkReply
    <2> QED
      BY <2>1, <2>2
  <1>2. ASSUME NEW i \in Ids, GoesStale(i)
        PROVE  \A j \in Ids : TextStep(j)
    <2> DEFINE new == [listings[i] EXCEPT !.confirmed = "stale"]
    <2>1. listings' = [listings EXCEPT ![i] = new] /\ UNCHANGED <<acked, raced>> /\ listings[i] \in Listing /\ Exists(i)
      BY <1>2, ListingExists DEF GoesStale, History, IInv
    <2>2. new \in Listing /\ new.fields = listings[i].fields /\ new.embedding = listings[i].embedding
      BY <2>1 DEF Listing, Confirmations
    <2> HIDE DEF new
    <2> QED
      BY <2>1, <2>2, SameText
  <1>3. ASSUME UNCHANGED <<listings, History>>
        PROVE  \A i \in Ids : TextStep(i)
    BY <1>3, SameText DEF History
  <1> QED
    BY <1>1, <1>2, <1>3, ImportText DEF Next, Ask, vars

\* At the start no edit was made and the embeddings are those of the old text.
LEMMA InitWhole == Init => EditsAreWhole
  <1> SUFFICES ASSUME Init, NEW i \in Ids, Exists(i)
               PROVE  listings[i].fields = OldText /\ listings[i].embedding = OldText /\ acked[i] = OldText
    BY DEF EditsAreWhole, EditsKept, EmbeddingTracks
  <1>1. listings[i] \in Stock
    BY DEF Init, Exists, NotYet, Statuses
  <1>2. PICK s \in Statuses, u \in BOOLEAN, d \in Dealers, p \in Plates :
          listings[i] = [dealer |-> d, status |-> s, plate |-> p, upload |-> u, published |-> s \in {"active", "sold"},
               confirmed |-> IF s = "draft" /\ u THEN "never" ELSE "stale", price |-> "positive",
               fields |-> OldText, embedding |-> OldText]
    BY <1>1 DEF Stock
  <1>3. \A a, b : [dealer |-> d, status |-> s, plate |-> p, upload |-> u, published |-> a,
               confirmed |-> b, price |-> "positive", fields |-> OldText, embedding |-> OldText].fields = OldText
    OBVIOUS
  <1>4. \A a, b : [dealer |-> d, status |-> s, plate |-> p, upload |-> u, published |-> a,
               confirmed |-> b, price |-> "positive", fields |-> OldText, embedding |-> OldText].embedding = OldText
    OBVIOUS
  <1> QED
    BY <1>2, <1>3, <1>4 DEF Init

-----------------------------------------------------------------------------
(* Theorems. *)

\* The stored listings and the requests keep their shape (listing.model.ts).
THEOREM ListingTypes == Spec => []TypeOK
  BY AlwaysSound, PTL DEF IInv

\* No two open listings share a plate, bulk actions never meet the unique index,
\* what is on sale was published and confirmed, and the limit holds while every
\* listing that opens is counted, however requests and imports overlap.
THEOREM RulesAreKept == Spec => []RulesKept
  BY AlwaysSound, PTL DEF IInv

\* An edit that no other overlapped is undone by nothing, and the embedding a
\* listing is searched by covers its text, whatever happens between the read and
\* the write of a request.
THEOREM EditsStayWhole == Spec => []EditsAreWhole
  BY AlwaysSound, InitWhole, NextKeepsText, PTL DEF Spec

\* A listing moves along the transitions of the lifecycle, archived and deleted
\* ones never come back, and only its dealer or an administrator moves it.
THEOREM MovesFollow == Spec => MovesAreAllowed
  <1>1. IInv /\ [Next]_vars =>
          [\A i \in Ids :
            /\ listings[i] = Gone => listings'[i] = Gone
            /\ Exists(i) => listings'[i].status \in allowedTransitions[listings[i].status]
                               \cup {listings[i].status, "gone"}]_vars
    BY EveryStepWrites, StepsFollow
  <1>2. IInv /\ [Next]_vars =>
          [\A r \in Requests, i \in Ids :
            request'[r] # request[r] /\ Exists(i) /\ listings'[i] # listings[i]
              => request[r].by \in {listings[i].dealer, Admin}]_vars
    BY OnlyTheRequestMoves, ServeByOwner
  <1>3. Spec => FollowsLifecycle
    BY <1>1, AlwaysSound, PTL DEF Spec, FollowsLifecycle
  <1>4. Spec => OnlyTheOwner
    BY <1>2, AlwaysSound, PTL DEF Spec, OnlyTheOwner
  <1> QED
    BY <1>3, <1>4 DEF MovesAreAllowed

-----------------------------------------------------------------------------
(* The copies of the suspended dealers' ids. *)

\* A copy ends CacheMs after the moment it was stored, and one that disagrees with the database
\* ends by the time that was promised when the database changed.
Kept(i) ==
  /\ cached[i].until <= clock + CacheMs
  /\ i \notin overtaken /\ cached[i].ids # suspended => cached[i].until <= promised[i]

VisibilityInv ==
  /\ VisibilityTypeOK
  /\ \A i \in Instances : Kept(i)
  /\ \A b \in Browses : browse[b].pc = "read" => browse[b].at \in Instances
  /\ \A c \in Changes : change[c].pc = "committed" => change[c].at \in Instances

\* The initial state satisfies the invariant.
LEMMA VisibilityStarts ==
  ASSUME VisibilityInit
  PROVE  VisibilityInv
  <1> DEFINE b0 == [pc |-> "idle", at |-> Nowhere, ids |-> {}]
             c0 == [pc |-> "idle", at |-> Nowhere]
  <1>1. /\ b0 \in Browse /\ b0.pc = "idle" /\ c0 \in Change /\ c0.pc = "idle"
        /\ NoCopy \in [ids : SUBSET Sellers, until : Nat] /\ NoCopy.until = 0
    BY DEF Browse, Change, NoCopy
  <1>2. /\ browse = [b \in Browses |-> b0] /\ change = [c \in Changes |-> c0]
        /\ cached = [i \in Instances |-> NoCopy] /\ promised = [i \in Instances |-> 0]
        /\ clock = 1 /\ suspended = {} /\ overtaken = {}
    BY DEF VisibilityInit
  <1> HIDE DEF b0, c0
  <1>3. VisibilityTypeOK
    BY <1>1, <1>2 DEF VisibilityTypeOK
  <1>4. \A i \in Instances : Kept(i)
    BY <1>1, <1>2, ClockAssumption DEF Kept
  <1> QED
    BY <1>1, <1>2, <1>3, <1>4 DEF VisibilityInv

\* The copies and the promises do not change, nor does what they are about.
LEMMA CopiesStay ==
  ASSUME VisibilityInv, UNCHANGED <<suspended, cached, overtaken, promised>>, clock' \in Nat, clock' >= clock
  PROVE  \A i \in Instances : Kept(i)'
  <1> SUFFICES ASSUME NEW i \in Instances PROVE Kept(i)'
    OBVIOUS
  <1>1. Kept(i) /\ cached[i].until \in Nat /\ clock \in Nat
    BY DEF VisibilityInv, VisibilityTypeOK
  <1> QED
    BY <1>1, ClockAssumption DEF Kept

\* A public request uses a valid copy, or reads the database, or stores what it read.
LEMMA BrowseSteps ==
  ASSUME VisibilityInv, NEW b \in Browses,
         BrowseStores(b) \/ \E i \in Instances : BrowseFromCopy(b, i) \/ BrowseReads(b, i)
  PROVE  VisibilityInv'
  <1> USE ClockAssumption
  <1>1. /\ clock \in Nat /\ suspended \subseteq Sellers /\ overtaken \subseteq Instances
        /\ cached \in [Instances -> [ids : SUBSET Sellers, until : Nat]] /\ browse[b] \in Browse
        /\ browse \in [Browses -> Browse] /\ change \in [Changes -> Change] /\ promised \in [Instances -> Nat]
    BY DEF VisibilityInv, VisibilityTypeOK
  <1>2. UNCHANGED <<clock, suspended, change, promised>>
    BY DEF BrowseStores, BrowseFromCopy, BrowseReads
  <1>3. ASSUME NEW i \in Instances, BrowseFromCopy(b, i) \/ BrowseReads(b, i)
        PROVE  VisibilityInv'
    <2> DEFINE pc == IF BrowseFromCopy(b, i) THEN "done" ELSE "read"
               ids == IF BrowseFromCopy(b, i) THEN cached[i].ids ELSE suspended
               n == [pc |-> pc, at |-> i, ids |-> ids]
    <2>1. UNCHANGED <<cached, overtaken>> /\ browse' = [browse EXCEPT ![b] = n]
      BY <1>3 DEF BrowseFromCopy, BrowseReads
    <2>2. pc \in {"done", "read"} /\ ids \subseteq Sellers
      BY <1>1
    <2> HIDE DEF pc, ids
    <2>3. n \in Browse /\ n.at \in Instances
      BY <2>2 DEF Browse
    <2> HIDE DEF n
    <2>4. browse' \in [Browses -> Browse] /\ \A d \in Browses : browse'[d].pc = "read" => browse'[d].at \in Instances
      BY <1>1, <2>1, <2>3 DEF VisibilityInv
    <2>5. \A j \in Instances : Kept(j)'
      BY <1>1, <1>2, <2>1, CopiesStay
    <2>6. VisibilityTypeOK'
      BY <1>1, <1>2, <2>1, <2>4 DEF VisibilityTypeOK
    <2> QED
      BY <1>2, <2>4, <2>5, <2>6 DEF VisibilityInv
  <1>4. CASE BrowseStores(b)
    <2> DEFINE i == browse[b].at
               ids == browse[b].ids
               copy == Copy(ids)
               n == [browse[b] EXCEPT !.pc = "done"]
    <2>1. /\ i \in Instances /\ ids \subseteq Sellers /\ browse[b].pc = "read"
          /\ cached' = [cached EXCEPT ![i] = copy]
          /\ overtaken' = IF ids = suspended THEN overtaken \ {i} ELSE overtaken \cup {i}
          /\ browse' = [browse EXCEPT ![b].pc = "done"]
      BY <1>1, <1>4 DEF BrowseStores, VisibilityInv, Browse
    <2>2. n \in Browse /\ n.pc = "done" /\ browse' = [browse EXCEPT ![b] = n]
      BY <1>1, <2>1 DEF Browse
    <2>3. copy \in [ids : SUBSET Sellers, until : Nat] /\ copy.ids = ids /\ copy.until = clock + CacheMs
      BY <1>1, <2>1 DEF Copy
    <2> HIDE DEF n, copy
    <2>4. browse' \in [Browses -> Browse] /\ \A d \in Browses : browse'[d].pc = "read" => browse'[d].at \in Instances
      BY <1>1, <2>2 DEF VisibilityInv
    <2>5. VisibilityTypeOK'
      BY <1>1, <1>2, <2>1, <2>3, <2>4 DEF VisibilityTypeOK
    <2>6. ASSUME NEW j \in Instances PROVE Kept(j)'
      <3>1. CASE j = i
        BY <1>1, <1>2, <2>1, <2>3, <3>1 DEF Kept
      <3>2. CASE j # i
        <4>1. Kept(j) /\ cached'[j] = cached[j] /\ (j \in overtaken' <=> j \in overtaken)
          BY <1>1, <2>1, <3>2 DEF VisibilityInv
        <4> QED
          BY <1>2, <4>1 DEF Kept
      <3> QED
        BY <3>1, <3>2
    <2> QED
      BY <1>2, <2>4, <2>5, <2>6 DEF VisibilityInv
  <1> QED
    BY <1>3, <1>4

\* A status change commits, and then drops the copy of its instance.
LEMMA ChangeSteps ==
  ASSUME VisibilityInv, NEW c \in Changes,
         Invalidate(c) \/ \E d \in Sellers, i \in Instances : Commit(c, d, i)
  PROVE  VisibilityInv'
  <1> USE ClockAssumption
  <1>1. /\ clock \in Nat /\ suspended \subseteq Sellers /\ overtaken \subseteq Instances
        /\ cached \in [Instances -> [ids : SUBSET Sellers, until : Nat]] /\ change[c] \in Change
        /\ browse \in [Browses -> Browse] /\ change \in [Changes -> Change] /\ promised \in [Instances -> Nat]
    BY DEF VisibilityInv, VisibilityTypeOK
  <1>2. UNCHANGED <<clock, browse>>
    BY DEF Invalidate, Commit
  <1>3. ASSUME NEW d \in Sellers, NEW i \in Instances, Commit(c, d, i)
        PROVE  VisibilityInv'
    <2> DEFINE n == [pc |-> "committed", at |-> i]
    <2>1. n \in Change /\ n.at \in Instances
      BY DEF Change
    <2>2. /\ UNCHANGED <<cached, overtaken>> /\ change' = [change EXCEPT ![c] = n]
          /\ suspended' \subseteq Sellers /\ promised' = [j \in Instances |-> clock + CacheMs]
      BY <1>1, <1>3 DEF Commit
    <2> HIDE DEF n
    <2>3. change' \in [Changes -> Change] /\ \A e \in Changes : change'[e].pc = "committed" => change'[e].at \in Instances
      BY <1>1, <2>1, <2>2 DEF VisibilityInv
    <2>4. VisibilityTypeOK'
      BY <1>1, <1>2, <2>2, <2>3 DEF VisibilityTypeOK
    <2>5. \A j \in Instances : Kept(j)'
      BY <1>1, <1>2, <2>2 DEF Kept, VisibilityInv
    <2> QED
      BY <1>2, <2>3, <2>4, <2>5 DEF VisibilityInv
  <1>4. CASE Invalidate(c)
    <2> DEFINE i == change[c].at
               n == [change[c] EXCEPT !.pc = "done"]
    <2>1. /\ i \in Instances /\ UNCHANGED suspended
          /\ cached' = [j \in Instances |-> IF j = i THEN NoCopy ELSE cached[j]]
          /\ overtaken' = overtaken \ {i}
          /\ promised' = promised \/ promised' = [promised EXCEPT ![i] = clock]
          /\ change' = [change EXCEPT ![c].pc = "done"]
      BY <1>4 DEF Invalidate, Dropped, VisibilityInv
    <2>2. n \in Change /\ n.pc = "done" /\ change' = [change EXCEPT ![c] = n]
      BY <1>1, <2>1 DEF Change
    <2>3. NoCopy \in [ids : SUBSET Sellers, until : Nat] /\ NoCopy.until = 0
      BY DEF NoCopy
    <2> HIDE DEF n
    <2>4. change' \in [Changes -> Change] /\ \A e \in Changes : change'[e].pc = "committed" => change'[e].at \in Instances
      BY <1>1, <2>2 DEF VisibilityInv
    <2>5. cached' \in [Instances -> [ids : SUBSET Sellers, until : Nat]] /\ promised' \in [Instances -> Nat]
      BY <1>1, <2>1, <2>3
    <2>6. VisibilityTypeOK'
      BY <1>1, <1>2, <2>1, <2>4, <2>5 DEF VisibilityTypeOK
    <2>7. ASSUME NEW j \in Instances PROVE Kept(j)'
      <3>1. CASE j = i
        BY <1>1, <1>2, <2>1, <2>3, <2>5, <3>1 DEF Kept
      <3>2. CASE j # i
        <4>1. Kept(j) /\ cached'[j] = cached[j] /\ promised'[j] = promised[j] /\ (j \in overtaken' <=> j \in overtaken)
          BY <1>1, <2>1, <3>2 DEF VisibilityInv
        <4> QED
          BY <1>2, <2>1, <4>1 DEF Kept
      <3> QED
        BY <3>1, <3>2
    <2> QED
      BY <1>2, <2>4, <2>6, <2>7 DEF VisibilityInv
  <1> QED
    BY <1>3, <1>4

\* Nothing of the copies changes.
LEMMA VisibilityStill ==
  ASSUME VisibilityInv, UNCHANGED visibilityVars
  PROVE  VisibilityInv'
  <1>1. VisibilityTypeOK'
    BY DEF VisibilityInv, VisibilityTypeOK, visibilityVars
  <1>2. \A i \in Instances : Kept(i)'
    BY CopiesStay DEF VisibilityInv, VisibilityTypeOK, visibilityVars
  <1> QED
    BY <1>1, <1>2 DEF VisibilityInv, visibilityVars

\* Every step keeps the invariant.
LEMMA VisibilityKeeps ==
  ASSUME VisibilityInv, VisibilityNext
  PROVE  VisibilityInv'
  <1>1. CASE Tick
    <2>1. clock' \in Nat /\ clock' >= clock /\ UNCHANGED <<suspended, cached, browse, change, overtaken, promised>>
      BY <1>1 DEF Tick, VisibilityInv, VisibilityTypeOK
    <2>2. \A i \in Instances : Kept(i)'
      BY <2>1, CopiesStay
    <2> QED
      BY <2>1, <2>2 DEF VisibilityInv, VisibilityTypeOK
  <1> QED
    BY <1>1, BrowseSteps, ChangeSteps DEF VisibilityNext

\* The invariant says what the run checks.
LEMMA VisibilityImplies ==
  ASSUME VisibilityInv
  PROVE  HiddenAsPromised
  <1> SUFFICES ASSUME NEW i \in Instances, Valid(i), i \notin overtaken, clock >= promised[i],
                      cached[i].ids # suspended
               PROVE  FALSE
    BY DEF HiddenAsPromised
  <1>1. Kept(i) /\ cached[i].until \in Nat /\ clock \in Nat /\ promised[i] \in Nat
    BY DEF VisibilityInv, VisibilityTypeOK
  <1> QED
    BY <1>1 DEF Kept, Valid

-----------------------------------------------------------------------------
(* The migration of the photos. *)

\* A photo that a deletion has removed for good, or failed to remove: its objects may be missing.
Deleted(p) ==
  /\ deletion.pc \in {"reorder", "done"} /\ ~listed[p].there
  /\ deletion.pc = "reorder" => ~deletion.updated[p].there
Bare(p) == p \in broken \/ Deleted(p)

\* The photo of an entry, and the small copy the entry names, are among the objects.
ShownEntry(entry, stored) ==
  entry.there => /\ stored \cap {"legacy", "full"} # {}
                 /\ entry.thumbUrl # "none" => "thumb" \in stored
Shown(L, stored, excepted) == \A p \in Images \ excepted : ShownEntry(L[p], stored[p])

\* So it is with the listing, with the copy of it that the deletion writes back, and with the entry
\* that it restores.
Arrays ==
  /\ Shown(listed, objects, broken)
  /\ deletion.pc \notin {"idle", "done"} => deletion.photo \in Images
  /\ deletion.pc \in {"objects", "reorder"} =>
       /\ Shown(deletion.updated, objects, broken)
       /\ ~deletion.updated[deletion.photo].there /\ ~listed[deletion.photo].there
  /\ deletion.pc \in {"found", "objects", "restore"} =>
       deletion.photo \in broken \/ ShownEntry(deletion.entry, objects[deletion.photo])

\* Which photo the command works on, and what it has found or put there.
OnPhoto ==
  /\ script.pc \in {"look", "moved", "legacy", "write", "remove", "thumb", "small"} => script.at \in Images
  /\ script.pc \in {"urls", "thumbUrls"} => script.at = ImageCount + 1
  /\ script.pc = "legacy" => "full" \notin objects[script.at]
  /\ script.pc = "remove" => "full" \in objects[script.at] \/ Bare(script.at)

\* The small copies whose URLs it will record.
Copies == ~script.options.dryRun => \A p \in script.thumbs : "thumb" \in objects[p] \/ Bare(p)

\* Why an old object is still beside the new one.
OldOnes == \A p \in Images :
  {"legacy", "full"} \subseteq objects[p] => p \in left \/ (script.pc = "remove" /\ script.at = p)

\* A photo that a run has done with, and the URL it gets.
BaseOf(p) == IF script.options.publicUrl THEN "cdn" ELSE script.read[p].url
Moved(p) == p \notin script.failed =>
  /\ "legacy" \in objects[p] => p \in left \/ script.options.keepLegacy
  /\ "full" \in objects[p] =>
       "thumb" \in objects[p] /\ (p \in script.thumbs \/ script.read[p].thumbUrl = BaseOf(p))

\* A run that writes and that no deletion has disturbed.
Undisturbed == script.quiet /\ ~script.options.dryRun
Calm == script.quiet => Still /\ script.pc # "idle"
ReadSince == Undisturbed /\ script.pc \notin {"thumbUrls", "done"} => listed = script.read
Renamed == Undisturbed /\ script.pc = "thumbUrls" => \A p \in Images :
  /\ listed[p].there = script.read[p].there /\ listed[p].thumbUrl = script.read[p].thumbUrl
  /\ listed[p].there => listed[p].url = BaseOf(p)
Full == Undisturbed /\ script.pc \in {"moved", "remove", "thumb", "small"} => "full" \in objects[script.at]
Earlier == Undisturbed /\ script.pc # "done" => \A p \in Images :
  p < script.at /\ script.read[p].there => Moved(p)

MigrationInv ==
  /\ MigrationTypeOK /\ Arrays /\ OnPhoto /\ Copies /\ OldOnes
  /\ Calm /\ ReadSince /\ Renamed /\ Full /\ Earlier /\ RunsMoveAll

-----------------------------------------------------------------------------
(* The steps of the command. *)

PhotoSteps == {"look", "moved", "legacy", "write", "remove", "thumb", "small"}
RunSteps == PhotoSteps \cup {"idle", "urls", "thumbUrls", "done"}
SameRun ==
  script'.options = script.options /\ script'.read = script.read /\ script'.quiet = script.quiet

\* The command goes on to a step of the same photo.
LEMMA SamePhoto ==
  ASSUME MigrationTypeOK, NEW s \in RunSteps, Goes(s)
  PROVE  /\ script' \in Script /\ SameRun
         /\ script'.pc = s /\ script'.at = script.at /\ script'.thumbs = script.thumbs
         /\ script'.failed = script.failed
  BY DEF MigrationTypeOK, Goes, Script, RunSteps, PhotoSteps, SameRun

\* The command goes on to the next photo.
LEMMA NextPhoto ==
  ASSUME MigrationTypeOK, script.at \in Images, NEW T \in SUBSET Images,
         NEW F \in SUBSET Images, Continues(T, F)
  PROVE  /\ script' \in Script /\ SameRun /\ script'.at = script.at + 1 /\ script'.thumbs = T
         /\ script'.failed = F /\ script'.pc \in {"look", "urls"} /\ (script'.pc = "look" => script'.at \in Images)
         /\ script'.pc = "urls" => script'.at = ImageCount + 1
  <1> USE MigrationAssumption
  <1> DEFINE s == StepAt(script.at + 1)
  <1>3. /\ ImageCount \in Nat /\ script.at \in Nat /\ script.at >= 1 /\ script.at <= ImageCount
        /\ script.at + 1 \in 1..(ImageCount + 1)
    BY DEF Images
  <1>1. s \in {"look", "urls"} /\ (s = "look" => script.at + 1 <= ImageCount) /\ (s = "urls" => script.at + 1 > ImageCount)
    BY <1>3 DEF StepAt
  <1>2. script' = [script EXCEPT !.at = script.at + 1, !.thumbs = T, !.failed = F, !.pc = s]
    BY DEF Continues, Photo, MigrationTypeOK, Script
  <1> HIDE DEF s
  <1>4. script' \in Script
    <2>1. s \in {"idle", "look", "moved", "legacy", "write", "remove", "thumb", "small", "urls", "thumbUrls", "done"}
      BY <1>1
    <2>2. script \in Script
      BY DEF MigrationTypeOK
    <2> HIDE MigrationAssumption
    <2> QED
      BY <1>2, <1>3, <2>1, <2>2 DEF Script
  <1>5. SameRun /\ script'.at = script.at + 1 /\ script'.thumbs = T /\ script'.failed = F /\ script'.pc = s
    BY <1>2 DEF MigrationTypeOK, Script, SameRun
  <1> QED
    BY <1>1, <1>3, <1>4, <1>5 DEF Images

\* What a step on a photo does to what storage has of it.
OnlyOf(p) ==
  /\ objects' \in [Images -> SUBSET {"legacy", "full", "thumb"}]
  /\ \A q \in Images \ {p} : objects'[q] = objects[q]
  /\ objects[p] \cap {"full", "thumb"} \subseteq objects'[p]
  /\ "legacy" \in objects'[p] => "legacy" \in objects[p]
  /\ "legacy" \in objects[p] /\ "legacy" \notin objects'[p] => "full" \in objects[p] \/ Bare(p)
  /\ left \subseteq left' /\ left' \subseteq Images
  /\ {"legacy", "full"} \subseteq objects'[p] => p \in left' \/ (script'.pc = "remove" /\ script'.at = p)

\* How it goes on: with the same photo, or with the next one when it has done with this.
GoesOn(p) ==
  \/ /\ script'.at = p /\ script'.pc \in PhotoSteps /\ script'.thumbs = script.thumbs
     /\ script'.failed = script.failed
     /\ Undisturbed /\ script'.pc \in {"moved", "remove", "thumb", "small"} => "full" \in objects'[p]
  \/ /\ script'.at = p + 1 /\ script'.pc \in {"look", "urls"}
     /\ script.thumbs \subseteq script'.thumbs /\ script'.thumbs \subseteq script.thumbs \cup {p}
     /\ script.failed \subseteq script'.failed /\ script'.failed \subseteq script.failed \cup {p}
     /\ ~script.options.dryRun /\ p \in script'.thumbs => "thumb" \in objects'[p] \/ Bare(p)
     /\ Undisturbed /\ script.read[p].there => Moved(p)'

\* Every such step keeps the invariant.
LEMMA StepOnPhoto ==
  ASSUME MigrationInv, NEW p \in Images, p = script.at, script.pc \in PhotoSteps,
         UNCHANGED <<listed, deletion, counts, broken>>, script' \in Script, SameRun,
         OnlyOf(p), GoesOn(p), OnPhoto'
  PROVE  MigrationInv'
  <1> USE MigrationAssumption
  <1>1. MigrationTypeOK'
    BY DEF MigrationInv, MigrationTypeOK, OnlyOf
  <1>2. \A q \in Images : Bare(q)' <=> Bare(q)
    BY DEF Bare, Deleted
  <1>3. \A q \in Images : ~Bare(q) => (objects[q] \cap {"legacy", "full"} # {} => objects'[q] \cap {"legacy", "full"} # {})
    BY DEF OnlyOf
  <1>4. \A q \in Images : "thumb" \in objects[q] => "thumb" \in objects'[q]
    BY DEF OnlyOf
  <1>5. Arrays'
    <2>1. ASSUME NEW L, Shown(L, objects, broken), \A q \in Images \ broken : L[q].there => ~Bare(q)
          PROVE  Shown(L, objects', broken)
      BY <2>1, <1>3, <1>4 DEF Shown, ShownEntry
    <2>2. Shown(listed, objects', broken)
      BY <2>1 DEF MigrationInv, Arrays, Bare, Deleted
    <2>3. deletion.pc \in {"objects", "reorder"} => Shown(deletion.updated, objects', broken)
      BY <2>1 DEF MigrationInv, Arrays, Bare, Deleted
    <2>4. deletion.pc \in {"found", "objects", "restore"} =>
            deletion.photo \in broken \/ ShownEntry(deletion.entry, objects'[deletion.photo])
      <3> SUFFICES ASSUME deletion.pc \in {"found", "objects", "restore"}, deletion.photo \notin broken
                   PROVE  ShownEntry(deletion.entry, objects'[deletion.photo])
        OBVIOUS
      <3>1. PICK q \in Images : q = deletion.photo
        BY DEF MigrationInv, Arrays
      <3>2. ~Bare(q)
        BY <3>1 DEF Bare, Deleted
      <3>3. ShownEntry(deletion.entry, objects[q])
        BY <3>1 DEF MigrationInv, Arrays
      <3> QED
        BY <3>1, <3>2, <3>3, <1>3, <1>4 DEF ShownEntry
    <2> QED
      BY <2>2, <2>3, <2>4 DEF MigrationInv, Arrays
  <1>6. Copies'
    <2> SUFFICES ASSUME ~script.options.dryRun, NEW q \in script'.thumbs
                 PROVE  "thumb" \in objects'[q] \/ Bare(q)'
      BY DEF Copies, SameRun
    <2>1. q \in Images
      BY DEF Script
    <2>2. q \in script.thumbs => "thumb" \in objects[q] \/ Bare(q)
      BY DEF MigrationInv, Copies
    <2>3. q \in script.thumbs \/ (q = p /\ ("thumb" \in objects'[p] \/ Bare(p)))
      BY DEF GoesOn
    <2> QED
      BY <1>2, <1>4, <2>1, <2>2, <2>3
  <1>7. OldOnes'
    <2> SUFFICES ASSUME NEW q \in Images, {"legacy", "full"} \subseteq objects'[q]
                 PROVE  q \in left' \/ (script'.pc = "remove" /\ script'.at = q)
      BY DEF OldOnes
    <2>1. CASE q = p
      BY <2>1 DEF OnlyOf
    <2>2. CASE q # p
      BY <2>2 DEF OnlyOf, MigrationInv, OldOnes
    <2> QED
      BY <2>1, <2>2
  <1>8. Calm'
    BY DEF MigrationInv, Calm, Still, SameRun, GoesOn, PhotoSteps
  <1>9. Undisturbed' <=> Undisturbed
    BY DEF Undisturbed, SameRun
  <1>10. ReadSince'
    BY <1>9 DEF MigrationInv, ReadSince, SameRun, PhotoSteps
  <1>11. Renamed' /\ RunsMoveAll'
    BY DEF Renamed, RunsMoveAll, Complete, At, GoesOn, PhotoSteps
  <1>12. Full'
    BY <1>9 DEF Full, GoesOn
  <1>13. Earlier'
    <2> SUFFICES ASSUME Undisturbed, NEW q \in Images, q < script'.at, script.read[q].there
                 PROVE  Moved(q)'
      BY <1>9 DEF Earlier, SameRun
    <2>1. CASE q = p
      BY <2>1 DEF GoesOn, Images
    <2>2. CASE q # p
      <3>1. q < script.at
        BY <2>2 DEF GoesOn, Images
      <3>2. Moved(q)
        BY <3>1 DEF MigrationInv, Earlier, PhotoSteps
      <3>3. objects'[q] = objects[q] /\ left \subseteq left' /\ script.thumbs \subseteq script'.thumbs
            /\ script.failed \subseteq script'.failed
        BY <2>2 DEF OnlyOf, GoesOn
      <3> QED
        BY <3>2, <3>3 DEF Moved, BaseOf, SameRun
    <2> QED
      BY <2>1, <2>2
  <1> QED
    BY <1>1, <1>5, <1>6, <1>7, <1>8, <1>10, <1>11, <1>12, <1>13 DEF MigrationInv


\* Storage stays as it is while the command looks at a photo.
LEMMA OnlyLooks ==
  ASSUME MigrationInv, NEW p \in Images, p = script.at, script.pc \in PhotoSteps \ {"remove"},
         UNCHANGED <<objects, left>>
  PROVE  OnlyOf(p)
  <1>1. objects \in [Images -> SUBSET {"legacy", "full", "thumb"}] /\ left \subseteq Images
    BY DEF MigrationInv, MigrationTypeOK
  <1>2. {"legacy", "full"} \subseteq objects[p] => p \in left
    BY DEF MigrationInv, OldOnes
  <1> QED
    BY <1>1, <1>2 DEF OnlyOf

\* The command is done with the photo, and may have noted its small copy, or counted it as failed.
LEMMA PhotoDone ==
  ASSUME MigrationInv, NEW p \in Images, p = script.at, script.pc \in PhotoSteps,
         UNCHANGED <<listed, deletion, counts, broken>>, OnlyOf(p),
         NEW T \in SUBSET Images, NEW F \in SUBSET Images, Continues(T, F),
         T \in {script.thumbs, script.thumbs \cup {p}}, F \in {script.failed, script.failed \cup {p}},
         ~script.options.dryRun /\ p \in T => "thumb" \in objects'[p] \/ Bare(p),
         Undisturbed /\ script.read[p].there /\ p \notin F =>
           /\ "legacy" \in objects'[p] => p \in left' \/ script.options.keepLegacy
           /\ "full" \in objects'[p] =>
                "thumb" \in objects'[p] /\ (p \in T \/ script.read[p].thumbUrl = BaseOf(p))
  PROVE  MigrationInv'
  <1>1. MigrationTypeOK
    BY DEF MigrationInv
  <1>2. /\ script' \in Script /\ SameRun /\ script'.at = p + 1 /\ script'.thumbs = T /\ script'.failed = F
        /\ script'.pc \in {"look", "urls"} /\ (script'.pc = "look" => script'.at \in Images)
        /\ script'.pc = "urls" => script'.at = ImageCount + 1
    BY <1>1, NextPhoto
  <1>3. Undisturbed /\ script.read[p].there => Moved(p)'
    BY <1>2 DEF Moved, BaseOf, SameRun
  <1>4. GoesOn(p)
    BY <1>2, <1>3 DEF GoesOn
  <1>5. OnPhoto'
    BY <1>2 DEF OnPhoto
  <1> QED
    BY <1>2, <1>4, <1>5, StepOnPhoto

\* The command goes on with the photo.
LEMMA PhotoGoesOn ==
  ASSUME MigrationInv, NEW p \in Images, p = script.at, script.pc \in PhotoSteps,
         UNCHANGED <<listed, deletion, counts, broken>>, NEW s \in PhotoSteps, Goes(s), OnlyOf(p),
         Undisturbed /\ s \in {"moved", "remove", "thumb", "small"} => "full" \in objects'[p],
         s = "legacy" => "full" \notin objects'[p],
         s = "remove" => "full" \in objects'[p]
  PROVE  MigrationInv'
  <1>1. MigrationTypeOK /\ s \in RunSteps
    BY DEF MigrationInv, RunSteps
  <1>2. /\ script' \in Script /\ SameRun
        /\ script'.pc = s /\ script'.at = p /\ script'.thumbs = script.thumbs
        /\ script'.failed = script.failed
    BY <1>1, SamePhoto
  <1>3. GoesOn(p)
    BY <1>2 DEF GoesOn
  <1>4. OnPhoto'
    BY <1>2 DEF OnPhoto, PhotoSteps
  <1> QED
    BY <1>2, <1>3, <1>4, StepOnPhoto

\* It leaves the photo as it is.
LEMMA SkipStep ==
  ASSUME MigrationInv, NEW p \in Images, p = script.at, script.pc \in PhotoSteps \ {"remove"}, Reads, Skips,
         Undisturbed /\ script.read[p].there => Moved(p)
  PROVE  MigrationInv'
  <1>1. /\ script.thumbs \in SUBSET Images /\ script.failed \in SUBSET Images
        /\ Continues(script.thumbs, script.failed)
    BY DEF MigrationInv, MigrationTypeOK, Script, Skips
  <1>2. UNCHANGED <<objects, listed, deletion, counts, left, broken>>
    BY DEF Reads
  <1>3. OnlyOf(p)
    BY <1>2, OnlyLooks
  <1>4. ~script.options.dryRun /\ p \in script.thumbs => "thumb" \in objects'[p] \/ Bare(p)
    BY <1>2 DEF MigrationInv, Copies
  <1> QED
    BY <1>1, <1>2, <1>3, <1>4, PhotoDone DEF Moved

\* It counts the photo as failed.
LEMMA FailStep ==
  ASSUME MigrationInv, NEW p \in Images, p = script.at, script.pc \in PhotoSteps,
         UNCHANGED <<listed, deletion, counts, broken>>, OnlyOf(p), CountsFailed
  PROVE  MigrationInv'
  <1> DEFINE F == script.failed \cup {p}
  <1>1. /\ script.thumbs \in SUBSET Images /\ F \in SUBSET Images /\ Continues(script.thumbs, F)
    BY DEF MigrationInv, MigrationTypeOK, Script, CountsFailed, Photo
  <1>2. p \in F /\ F \in {script.failed, script.failed \cup {p}}
    OBVIOUS
  <1> HIDE DEF F
  <1>3. ~script.options.dryRun /\ p \in script.thumbs => "thumb" \in objects'[p] \/ Bare(p)
    BY DEF MigrationInv, Copies, OnlyOf
  <1> QED
    BY <1>1, <1>2, <1>3, PhotoDone

\* Which photo a step is about.
LEMMA AtAPhoto ==
  ASSUME MigrationInv, script.pc \in PhotoSteps
  PROVE  script.at \in Images
  BY DEF MigrationInv, OnPhoto, PhotoSteps

\* The command looks for the new object.
LEMMA LookStep ==
  ASSUME MigrationInv, Look
  PROVE  MigrationInv'
  <1>1. script.pc = "look" /\ Reads /\ script.pc \in PhotoSteps \ {"remove"}
    BY DEF Look, At, PhotoSteps
  <1>2. PICK p \in Images : p = script.at
    BY <1>1, AtAPhoto
  <1>3. UNCHANGED <<objects, listed, deletion, counts, left, broken>>
    BY <1>1 DEF Reads
  <1>4. CASE ~script.read[p].there /\ Skips
    BY <1>1, <1>2, <1>4, SkipStep
  <1>5. CASE "full" \in objects[p] /\ Goes("moved")
    <2>1. "moved" \in PhotoSteps
      BY DEF PhotoSteps
    <2> QED
      BY <1>1, <1>2, <1>3, <1>5, <2>1, OnlyLooks, PhotoGoesOn
  <1>6. CASE "full" \notin objects[p] /\ Goes("legacy")
    <2>1. "legacy" \in PhotoSteps
      BY DEF PhotoSteps
    <2> QED
      BY <1>1, <1>2, <1>3, <1>6, <2>1, OnlyLooks, PhotoGoesOn
  <1> QED
    BY <1>2, <1>4, <1>5, <1>6 DEF Look, Photo

\* It finds the new object.
LEMMA AlreadyMovedStep ==
  ASSUME MigrationInv, AlreadyMoved
  PROVE  MigrationInv'
  <1>1. script.pc = "moved" /\ Reads /\ script.pc \in PhotoSteps \ {"remove"}
    BY DEF AlreadyMoved, At, PhotoSteps
  <1>2. PICK p \in Images : p = script.at
    BY <1>1, AtAPhoto
  <1>3. UNCHANGED <<objects, listed, deletion, counts, left, broken>>
    BY <1>1 DEF Reads
  <1>4. Undisturbed => "full" \in objects[p]
    BY <1>1, <1>2 DEF MigrationInv, Full
  <1>5. CASE script.read[p].thumbUrl = BaseOf(p) /\ "thumb" \in objects[p] /\ Skips
    <2>1. {"legacy", "full"} \subseteq objects[p] => p \in left
      BY <1>1 DEF MigrationInv, OldOnes
    <2>2. Undisturbed => Moved(p)
      BY <1>4, <1>5, <2>1 DEF Moved
    <2> QED
      BY <1>1, <1>2, <1>5, <2>2, SkipStep
  <1>6. CASE "full" \in objects[p] /\ Goes("thumb")
    <2>1. "thumb" \in PhotoSteps
      BY DEF PhotoSteps
    <2> QED
      BY <1>1, <1>2, <1>3, <1>6, <2>1, OnlyLooks, PhotoGoesOn
  <1>7. CASE "full" \notin objects[p] /\ Skips
    BY <1>1, <1>2, <1>4, <1>7, SkipStep
  <1> QED
    BY <1>2, <1>5, <1>6, <1>7 DEF AlreadyMoved, Photo, Base, BaseOf

\* It reads the old object.
LEMMA ReadLegacyStep ==
  ASSUME MigrationInv, ReadLegacy
  PROVE  MigrationInv'
  <1>1. script.pc = "legacy" /\ Reads /\ script.pc \in PhotoSteps \ {"remove"}
    BY DEF ReadLegacy, At, PhotoSteps
  <1>2. PICK p \in Images : p = script.at
    BY <1>1, AtAPhoto
  <1>3. UNCHANGED <<objects, listed, deletion, counts, left, broken>>
    BY <1>1 DEF Reads
  <1>4. "full" \notin objects[p]
    BY <1>1, <1>2 DEF MigrationInv, OnPhoto
  <1>5. CASE "legacy" \notin objects[p] /\ Skips
    <2>1. Moved(p)
      BY <1>4, <1>5 DEF Moved
    <2> QED
      BY <1>1, <1>2, <1>5, <2>1, SkipStep
  <1>8. CASE CountsFailed
    BY <1>1, <1>2, <1>3, <1>8, OnlyLooks, FailStep
  <1>6. CASE script.options.dryRun /\ Goes("thumb")
    <2>1. "thumb" \in PhotoSteps /\ ~Undisturbed
      BY <1>6 DEF PhotoSteps, Undisturbed
    <2> QED
      BY <1>1, <1>2, <1>3, <1>6, <2>1, OnlyLooks, PhotoGoesOn
  <1>7. CASE Goes("write")
    <2>1. "write" \in PhotoSteps
      BY DEF PhotoSteps
    <2> QED
      BY <1>1, <1>2, <1>3, <1>7, <2>1, OnlyLooks, PhotoGoesOn
  <1> QED
    BY <1>2, <1>5, <1>6, <1>7, <1>8 DEF ReadLegacy, Photo

\* It writes the new object.
LEMMA WriteFullStep ==
  ASSUME MigrationInv, WriteFull
  PROVE  MigrationInv'
  <1>1. script.pc = "write" /\ script.pc \in PhotoSteps
    BY DEF WriteFull, At, PhotoSteps
  <1>2. PICK p \in Images : p = script.at
    BY <1>1, AtAPhoto
  <1>3. /\ UNCHANGED <<listed, deletion, counts, broken>>
        /\ objects' = [objects EXCEPT ![p] = objects[p] \cup {"full"}]
        /\ \/ script.options.keepLegacy /\ left' = left \cup {p} /\ Goes("thumb")
           \/ left' = left /\ Goes("remove")
    BY <1>2 DEF WriteFull, Photo
  <1>4. objects \in [Images -> SUBSET {"legacy", "full", "thumb"}] /\ left \subseteq Images /\ MigrationTypeOK
    BY DEF MigrationInv, MigrationTypeOK
  <1>5. objects'[p] = objects[p] \cup {"full"}
    BY <1>3, <1>4
  <1>6. {"thumb", "remove"} \subseteq PhotoSteps /\ PhotoSteps \subseteq RunSteps
    BY DEF PhotoSteps, RunSteps
  <1>7. CASE left' = left \cup {p} /\ Goes("thumb")
    <2>1. OnlyOf(p)
      BY <1>3, <1>4, <1>5, <1>7 DEF OnlyOf
    <2> QED
      BY <1>1, <1>2, <1>3, <1>5, <1>6, <1>7, <2>1, PhotoGoesOn
  <1>8. CASE left' = left /\ Goes("remove")
    <2>1. script'.pc = "remove" /\ script'.at = p
      BY <1>2, <1>4, <1>6, <1>8, SamePhoto
    <2>2. OnlyOf(p)
      BY <1>3, <1>4, <1>5, <1>8, <2>1 DEF OnlyOf
    <2> QED
      BY <1>1, <1>2, <1>3, <1>5, <1>6, <1>8, <2>2, PhotoGoesOn
  <1> QED
    BY <1>3, <1>7, <1>8

\* It removes the old object, when the new one is there or nobody shows the photo.
LEMMA RemoveLegacyStep ==
  ASSUME MigrationInv, RemoveLegacy
  PROVE  MigrationInv'
  <1>1. script.pc = "remove" /\ script.pc \in PhotoSteps
    BY DEF RemoveLegacy, At, PhotoSteps
  <1>2. PICK p \in Images : p = script.at
    BY <1>1, AtAPhoto
  <1>3. /\ UNCHANGED <<listed, deletion, counts, left, broken>> /\ Goes("thumb")
        /\ objects' = [objects EXCEPT ![p] = objects[p] \ {"legacy"}]
    BY <1>2 DEF RemoveLegacy, Photo
  <1>4. objects \in [Images -> SUBSET {"legacy", "full", "thumb"}] /\ left \subseteq Images
    BY DEF MigrationInv, MigrationTypeOK
  <1>5. objects'[p] = objects[p] \ {"legacy"}
    BY <1>3, <1>4
  <1>6. "full" \in objects[p] \/ Bare(p)
    BY <1>1, <1>2 DEF MigrationInv, OnPhoto
  <1>7. Undisturbed => "full" \in objects[p]
    BY <1>1, <1>2 DEF MigrationInv, Full
  <1>8. OnlyOf(p)
    BY <1>3, <1>4, <1>5, <1>6 DEF OnlyOf
  <1>9. "thumb" \in PhotoSteps
    BY DEF PhotoSteps
  <1> QED
    BY <1>1, <1>2, <1>3, <1>5, <1>7, <1>8, <1>9, PhotoGoesOn

\* The small copy is there, so its URL is noted where it is another one.
LEMMA NoteStep ==
  ASSUME MigrationInv, NEW p \in Images, p = script.at, script.pc \in {"thumb", "small"},
         UNCHANGED <<listed, deletion, counts, left, broken>>, OnlyOf(p), NoteThumb,
         objects'[p] \in {objects[p], objects[p] \cup {"thumb"}},
         ~script.options.dryRun => "thumb" \in objects'[p]
  PROVE  MigrationInv'
  <1> DEFINE T == IF script.read[p].thumbUrl = BaseOf(p) THEN script.thumbs ELSE script.thumbs \cup {p}
  <1>1. Continues(T, script.failed)
    BY DEF NoteThumb, Photo, Base, BaseOf
  <1>2. script.thumbs \in SUBSET Images /\ script.failed \in SUBSET Images
    BY DEF MigrationInv, MigrationTypeOK, Script
  <1>3. T \in SUBSET Images /\ T \in {script.thumbs, script.thumbs \cup {p}} /\ (p \in T \/ script.read[p].thumbUrl = BaseOf(p))
    BY <1>2
  <1> HIDE DEF T
  <1>4. Undisturbed => "full" \in objects[p]
    BY DEF MigrationInv, Full
  <1>5. {"legacy", "full"} \subseteq objects[p] => p \in left
    BY DEF MigrationInv, OldOnes
  <1>6. Undisturbed =>
           /\ "legacy" \in objects'[p] => p \in left'
           /\ "full" \in objects'[p] =>
                "thumb" \in objects'[p] /\ (p \in T \/ script.read[p].thumbUrl = BaseOf(p))
    BY <1>3, <1>4, <1>5 DEF Undisturbed
  <1>7. script.pc \in PhotoSteps
    BY DEF PhotoSteps
  <1>8. ~script.options.dryRun /\ p \in T => "thumb" \in objects'[p] \/ Bare(p)
    OBVIOUS
  <1> QED
    BY <1>1, <1>2, <1>3, <1>6, <1>7, <1>8, PhotoDone

\* The command looks for the small copy.
LEMMA LookForThumbStep ==
  ASSUME MigrationInv, LookForThumb
  PROVE  MigrationInv'
  <1>1. script.pc = "thumb" /\ Reads /\ script.pc \in PhotoSteps \ {"remove"}
    BY DEF LookForThumb, At, PhotoSteps
  <1>2. PICK p \in Images : p = script.at
    BY <1>1, AtAPhoto
  <1>3. UNCHANGED <<objects, listed, deletion, counts, left, broken>>
    BY <1>1 DEF Reads
  <1>4. OnlyOf(p)
    BY <1>1, <1>2, <1>3, OnlyLooks
  <1>5. CASE "thumb" \in objects[p] /\ NoteThumb
    BY <1>1, <1>2, <1>3, <1>4, <1>5, NoteStep
  <1>6. CASE Goes("small")
    <2>1. Undisturbed => "full" \in objects[p]
      BY <1>1, <1>2 DEF MigrationInv, Full
    <2>2. "small" \in PhotoSteps
      BY DEF PhotoSteps
    <2> QED
      BY <1>1, <1>2, <1>3, <1>4, <1>6, <2>1, <2>2, PhotoGoesOn
  <1> QED
    BY <1>2, <1>5, <1>6 DEF LookForThumb, Photo

\* What writing the small copy does to storage.
LEMMA WithThumbOnly ==
  ASSUME MigrationInv, NEW p \in Images, p = script.at, script.pc = "small", UNCHANGED left,
         objects' = objects \/ objects' = WithThumb
  PROVE  /\ OnlyOf(p) /\ objects'[p] \in {objects[p], objects[p] \cup {"thumb"}}
         /\ objects' = WithThumb => "thumb" \in objects'[p]
  <1>1. objects \in [Images -> SUBSET {"legacy", "full", "thumb"}] /\ left \subseteq Images
    BY DEF MigrationInv, MigrationTypeOK
  <1>2. {"legacy", "full"} \subseteq objects[p] => p \in left
    BY DEF MigrationInv, OldOnes
  <1>3. ASSUME objects' = objects PROVE OnlyOf(p) /\ objects'[p] = objects[p]
    BY <1>1, <1>2, <1>3 DEF OnlyOf
  <1>4. ASSUME objects' = WithThumb
        PROVE  OnlyOf(p) /\ objects'[p] = objects[p] \cup {"thumb"}
    <2>1. objects' = [objects EXCEPT ![p] = objects[p] \cup {"thumb"}]
      BY <1>4 DEF WithThumb, Photo
    <2>2. objects'[p] = objects[p] \cup {"thumb"}
      BY <1>1, <2>1
    <2> QED
      BY <1>1, <1>2, <2>1, <2>2 DEF OnlyOf
  <1> QED
    BY <1>3, <1>4

\* It writes the small copy.
LEMMA WriteThumbStep ==
  ASSUME MigrationInv, WriteThumb
  PROVE  MigrationInv'
  <1>1. script.pc = "small" /\ script.pc \in PhotoSteps
    BY DEF WriteThumb, At, PhotoSteps
  <1>2. PICK p \in Images : p = script.at
    BY <1>1, AtAPhoto
  <1>3. /\ UNCHANGED <<listed, deletion, counts, left, broken>> /\ NoteThumb
        /\ objects' = objects \/ objects' = WithThumb
        /\ ~script.options.dryRun => objects' = WithThumb
    BY DEF WriteThumb
  <1>4. /\ OnlyOf(p) /\ objects'[p] \in {objects[p], objects[p] \cup {"thumb"}}
        /\ objects' = WithThumb => "thumb" \in objects'[p]
    BY <1>1, <1>2, <1>3, WithThumbOnly
  <1> QED
    BY <1>1, <1>2, <1>3, <1>4, NoteStep

\* It cannot make or write it.
LEMMA ThumbFailsStep ==
  ASSUME MigrationInv, ThumbFails
  PROVE  MigrationInv'
  <1>1. script.pc = "small" /\ script.pc \in PhotoSteps
    BY DEF ThumbFails, At, PhotoSteps
  <1>2. PICK p \in Images : p = script.at
    BY <1>1, AtAPhoto
  <1>3. /\ UNCHANGED <<listed, deletion, counts, left, broken>> /\ CountsFailed
        /\ objects' = objects \/ objects' = WithThumb
    BY DEF ThumbFails
  <1>4. OnlyOf(p)
    BY <1>1, <1>2, <1>3, WithThumbOnly
  <1> QED
    BY <1>1, <1>2, <1>3, <1>4, FailStep

-----------------------------------------------------------------------------
(* A run begins, records the URLs, and stops. *)

\* The state of a listing nobody has touched, and of a command that does not run.
LEMMA Untouched ==
  /\ AsStored \in Listed /\ NoScript \in Script /\ NoDeletion \in Deletion
  /\ NoScript.pc = "idle" /\ NoScript.thumbs = {} /\ NoScript.failed = {} /\ ~NoScript.quiet
  /\ NoDeletion.pc = "idle" /\ EntryAsStored \in Entry
  <1> USE MigrationAssumption
  <1>1. AsStored \in Listed /\ EntryAsStored \in Entry
    BY DEF AsStored, EntryAsStored, Listed, Entry
  <1>2. NoOptions \in Options
    BY DEF NoOptions, Options
  <1>3. ImageCount \in Nat
    OBVIOUS
  <1> HIDE MigrationAssumption
  <1>4. NoScript \in Script /\ NoScript.pc = "idle" /\ NoScript.thumbs = {} /\ NoScript.failed = {} /\ ~NoScript.quiet
    BY <1>1, <1>2, <1>3 DEF NoScript, Script
  <1>5. NoDeletion \in Deletion /\ NoDeletion.pc = "idle"
    BY <1>1, <1>3 DEF NoDeletion, Deletion
  <1> QED
    BY <1>1, <1>4, <1>5

\* The initial states satisfy the invariant.
LEMMA MigrationStarts ==
  ASSUME MigrationInit
  PROVE  MigrationInv
  <1> USE MigrationAssumption
  <1>1. objects \in [Images -> {{"legacy"}, {"full"}}] /\ listed = AsStored /\ script = NoScript /\ deletion = NoDeletion
        /\ counts = [runs |-> 0, stops |-> 0] /\ left = {} /\ broken = {}
    BY DEF MigrationInit
  <1>2. \A p \in Images : objects[p] \in {{"legacy"}, {"full"}}
    BY <1>1
  <1>3. MigrationTypeOK
    <2>1. objects \in [Images -> SUBSET {"legacy", "full", "thumb"}]
      BY <1>1
    <2>2. counts \in [runs : 0..MaxRuns, stops : 0..MaxStops]
      BY <1>1
    <2> QED
      BY <1>1, <2>1, <2>2, Untouched DEF MigrationTypeOK
  <1>4. \A p \in Images : AsStored[p].thumbUrl = "none"
    BY DEF AsStored, EntryAsStored
  <1>5. Arrays
    BY <1>1, <1>2, <1>4, Untouched DEF Arrays, Shown, ShownEntry
  <1>6. OnPhoto /\ Copies /\ Calm /\ ReadSince /\ Renamed /\ Full /\ Earlier /\ RunsMoveAll
    BY <1>1, Untouched DEF OnPhoto, Copies, Calm, Still, ReadSince, Renamed, Full, Earlier, RunsMoveAll, Undisturbed, Complete, At
  <1>7. OldOnes
    BY <1>2 DEF OldOnes
  <1> QED
    BY <1>3, <1>5, <1>6, <1>7 DEF MigrationInv

\* A run begins with the listing as it is now.
LEMMA StartStep ==
  ASSUME MigrationInv, NEW options \in RunOptions, Start(options)
  PROVE  MigrationInv'
  <1> USE MigrationAssumption
  <1> DEFINE s == StepAt(1)
             q == Still
  <1>1. /\ UNCHANGED <<objects, listed, deletion, left, broken>> /\ counts.runs < MaxRuns /\ script.pc \in {"idle", "done"}
        /\ script' = [pc |-> s, at |-> 1, thumbs |-> {}, failed |-> {}, options |-> options, read |-> listed, quiet |-> q]
        /\ counts' = [counts EXCEPT !.runs = counts.runs + 1]
    BY DEF Start
  <1>2. ImageCount \in Nat /\ MaxRuns \in Nat /\ MaxStops \in Nat
    OBVIOUS
  <1>3. s \in {"look", "urls"} /\ (s = "look" => 1 \in Images) /\ (s = "urls" => ImageCount + 1 = 1)
    BY <1>2 DEF StepAt, Images
  <1>4. q \in BOOLEAN /\ (q <=> Still) /\ options \in Options
    BY DEF Still
  <1> HIDE DEF s, q
  <1>5. script' \in Script
    <2>1. 1 \in 1..(ImageCount + 1) /\ listed \in Listed
      BY <1>2 DEF MigrationInv, MigrationTypeOK
    <2> HIDE MigrationAssumption
    <2> QED
      BY <1>1, <1>3, <1>4, <2>1 DEF Script
  <1>6. counts' \in [runs : 0..MaxRuns, stops : 0..MaxStops]
    BY <1>1, <1>2 DEF MigrationInv, MigrationTypeOK
  <1>7. MigrationTypeOK'
    BY <1>1, <1>5, <1>6 DEF MigrationInv, MigrationTypeOK
  <1>8. /\ script'.pc = s /\ script'.at = 1 /\ script'.thumbs = {} /\ script'.read = listed /\ script'.quiet = q
    BY <1>1
  <1> HIDE MigrationAssumption
  <1>9. Arrays'
    BY <1>1 DEF MigrationInv, Arrays
  <1>10. OnPhoto' /\ Copies' /\ Renamed' /\ Full' /\ RunsMoveAll'
    BY <1>3, <1>8 DEF OnPhoto, Copies, Renamed, Full, RunsMoveAll, Complete, At
  <1>11. Calm' /\ ReadSince'
    BY <1>1, <1>3, <1>4, <1>8 DEF Calm, Still, ReadSince
  <1>12. OldOnes'
    BY <1>1 DEF MigrationInv, OldOnes
  <1>13. Earlier'
    BY <1>8 DEF Earlier, Images
  <1> QED
    BY <1>7, <1>9, <1>10, <1>11, <1>12, <1>13 DEF MigrationInv

\* The run is stopped; if it was about to remove an old object, that stays.
LEMMA StopStep ==
  ASSUME MigrationInv, Stops
  PROVE  MigrationInv'
  <1> USE MigrationAssumption
  <1>1. /\ UNCHANGED <<objects, listed, deletion, broken>> /\ script' = NoScript
        /\ left' = IF script.pc = "remove" THEN left \cup {script.at} ELSE left
        /\ counts.stops < MaxStops /\ counts' = [counts EXCEPT !.stops = counts.stops + 1]
    BY DEF Stops, At, Photo
  <1>2. script.pc = "remove" => script.at \in Images
    BY DEF MigrationInv, OnPhoto
  <1>3. counts' \in [runs : 0..MaxRuns, stops : 0..MaxStops]
    BY <1>1 DEF MigrationInv, MigrationTypeOK
  <1>4. MigrationTypeOK'
    BY <1>1, <1>2, <1>3, Untouched DEF MigrationInv, MigrationTypeOK
  <1> HIDE MigrationAssumption
  <1>5. Arrays'
    BY <1>1 DEF MigrationInv, Arrays
  <1>6. OnPhoto' /\ Copies' /\ Calm' /\ ReadSince' /\ Renamed' /\ Full' /\ Earlier' /\ RunsMoveAll'
    BY <1>1, Untouched DEF OnPhoto, Copies, Calm, Still, ReadSince, Renamed, Full, Earlier, RunsMoveAll, Undisturbed, Complete, At
  <1>7. OldOnes'
    BY <1>1 DEF MigrationInv, OldOnes
  <1> QED
    BY <1>4, <1>5, <1>6, <1>7 DEF MigrationInv

\* The URLs of the photos that are still there.
LEMMA RecordUrlsStep ==
  ASSUME MigrationInv, RecordUrls
  PROVE  MigrationInv'
  <1> DEFINE W(p) == listed[p].there /\ script.read[p].there /\ script.options.publicUrl /\ ~script.options.dryRun
  <1>1. /\ UNCHANGED <<objects, deletion, counts, left, broken>> /\ script.pc = "urls" /\ Goes("thumbUrls")
        /\ listed' = [p \in Images |-> IF W(p) THEN [listed[p] EXCEPT !.url = "cdn"] ELSE listed[p]]
    BY DEF RecordUrls, At
  <1> HIDE DEF W
  <1>2. MigrationTypeOK /\ "thumbUrls" \in RunSteps
    BY DEF MigrationInv, RunSteps
  <1>3. /\ script' \in Script /\ SameRun
        /\ script'.pc = "thumbUrls" /\ script'.at = script.at /\ script'.thumbs = script.thumbs
        /\ script'.failed = script.failed
    BY <1>1, <1>2, SamePhoto
  <1>4. \A p \in Images :
          /\ listed'[p] \in Entry
          /\ listed'[p].there = listed[p].there /\ listed'[p].thumbUrl = listed[p].thumbUrl
          /\ listed'[p].url = IF W(p) THEN "cdn" ELSE listed[p].url
    BY <1>1, <1>2 DEF MigrationTypeOK, Listed, Entry
  <1>5. MigrationTypeOK'
    <2>1. listed' \in Listed
      BY <1>1, <1>4 DEF Listed
    <2> QED
      BY <1>1, <1>2, <1>3, <2>1 DEF MigrationTypeOK
  <1>6. \A p \in Images : Bare(p)' <=> Bare(p)
    BY <1>1, <1>4 DEF Bare, Deleted
  <1>7. Arrays'
    BY <1>1, <1>4 DEF MigrationInv, Arrays, Shown, ShownEntry
  <1>8. OnPhoto' /\ Calm' /\ ReadSince' /\ Full' /\ RunsMoveAll'
    BY <1>1, <1>3 DEF MigrationInv, OnPhoto, Calm, Still, ReadSince, Full, RunsMoveAll, Complete, At, SameRun
  <1>9. Copies'
    <2>1. \A p \in script.thumbs : p \in Images
      BY <1>2 DEF MigrationTypeOK, Script
    <2> QED
      BY <1>1, <1>3, <1>6, <2>1 DEF MigrationInv, Copies, SameRun
  <1>10. OldOnes'
    BY <1>1 DEF MigrationInv, OldOnes
  <1>11. Undisturbed' <=> Undisturbed
    BY <1>3 DEF Undisturbed, SameRun
  <1>12. Renamed'
    <2> SUFFICES ASSUME Undisturbed, NEW p \in Images
                 PROVE  /\ listed'[p].there = script.read[p].there /\ listed'[p].thumbUrl = script.read[p].thumbUrl
                        /\ listed'[p].there => listed'[p].url = BaseOf(p)
      BY <1>3, <1>11 DEF Renamed, BaseOf, SameRun
    <2>1. listed = script.read
      BY <1>1 DEF MigrationInv, ReadSince
    <2>2. listed[p].there => (W(p) <=> script.options.publicUrl)
      BY <2>1 DEF W, Undisturbed
    <2> QED
      BY <1>4, <2>1, <2>2 DEF BaseOf
  <1>13. Earlier'
    BY <1>1, <1>3, <1>11 DEF MigrationInv, Earlier, Moved, BaseOf, SameRun
  <1> QED
    BY <1>5, <1>7, <1>8, <1>9, <1>10, <1>12, <1>13 DEF MigrationInv

\* The URLs of the small copies; the run ends.
LEMMA RecordThumbUrlsStep ==
  ASSUME MigrationInv, RecordThumbUrls
  PROVE  MigrationInv'
  <1> DEFINE W(p) == listed[p].there /\ p \in script.thumbs /\ ~script.options.dryRun
             U(p) == IF script.options.publicUrl THEN "cdn" ELSE script.read[p].url
  <1>1. /\ UNCHANGED <<objects, deletion, counts, left, broken>> /\ script.pc = "thumbUrls"
        /\ listed' = [p \in Images |-> IF W(p) THEN [listed[p] EXCEPT !.thumbUrl = U(p)] ELSE listed[p]]
        /\ script' = [NoScript EXCEPT !.pc = "done", !.failed = script.failed, !.options = script.options, !.quiet = script.quiet]
    BY DEF RecordThumbUrls, At
  <1>2. MigrationTypeOK
    BY DEF MigrationInv
  <1>3. /\ script' \in Script /\ script'.options = script.options /\ script'.quiet = script.quiet
        /\ script'.pc = "done" /\ script'.thumbs = {} /\ script'.failed = script.failed
    BY <1>1, <1>2, Untouched DEF Script, MigrationTypeOK
  <1>4. \A p \in Images : U(p) \in {"api", "cdn"} /\ U(p) = BaseOf(p)
    BY <1>2 DEF MigrationTypeOK, Script, Listed, Entry, BaseOf
  <1> HIDE DEF W, U
  <1>5. \A p \in Images :
          /\ listed'[p] \in Entry
          /\ listed'[p].there = listed[p].there /\ listed'[p].url = listed[p].url
          /\ listed'[p].thumbUrl = IF W(p) THEN BaseOf(p) ELSE listed[p].thumbUrl
    BY <1>1, <1>2, <1>4 DEF MigrationTypeOK, Listed, Entry
  <1>6. MigrationTypeOK'
    <2>1. listed' \in Listed
      BY <1>1, <1>5 DEF Listed
    <2> QED
      BY <1>1, <1>2, <1>3, <2>1 DEF MigrationTypeOK
  <1>7. \A p \in Images : Bare(p)' <=> Bare(p)
    BY <1>1, <1>5 DEF Bare, Deleted
  <1>8. Arrays'
    <2>1. \A p \in Images \ broken : W(p) => "thumb" \in objects[p]
      BY DEF W, MigrationInv, Copies, Bare, Deleted
    <2>2. Shown(listed', objects', broken')
      BY <1>1, <1>5, <2>1 DEF MigrationInv, Arrays, Shown, ShownEntry
    <2> QED
      BY <1>1, <1>5, <2>2 DEF MigrationInv, Arrays
  <1>9. OnPhoto' /\ Copies' /\ Calm' /\ ReadSince' /\ Renamed' /\ Full' /\ Earlier'
    BY <1>1, <1>3 DEF MigrationInv, OnPhoto, Copies, Calm, Still, ReadSince, Renamed, Full, Earlier
  <1>10. OldOnes'
    BY <1>1 DEF MigrationInv, OldOnes
  <1>11. RunsMoveAll'
    <2> SUFFICES ASSUME Undisturbed, NEW p \in Images \ script.failed, listed'[p].there
                 PROVE  /\ "legacy" \in objects[p] => p \in left \/ script.options.keepLegacy
                        /\ "full" \in objects[p] => "thumb" \in objects[p] /\ listed'[p].thumbUrl = listed'[p].url
      BY <1>1, <1>3 DEF RunsMoveAll, Complete, At, Undisturbed
    <2>1. /\ listed[p].there = script.read[p].there /\ listed[p].thumbUrl = script.read[p].thumbUrl
          /\ listed[p].there => listed[p].url = BaseOf(p)
      BY <1>1 DEF MigrationInv, Renamed
    <2>2. listed[p].there
      BY <1>5
    <2>3. p < script.at
      <3>1. script.at = ImageCount + 1 /\ ImageCount \in Nat
        BY <1>1, MigrationAssumption DEF MigrationInv, OnPhoto
      <3> QED
        BY <3>1 DEF Images
    <2>4. Moved(p)
      BY <1>1, <2>1, <2>2, <2>3 DEF MigrationInv, Earlier
    <2>5. W(p) <=> p \in script.thumbs
      BY <2>2 DEF W, Undisturbed
    <2> QED
      BY <1>5, <2>1, <2>2, <2>4, <2>5 DEF Moved
  <1> QED
    BY <1>6, <1>8, <1>9, <1>10, <1>11 DEF MigrationInv

-----------------------------------------------------------------------------
(* The dealer deletes a photo. *)

\* A deletion disturbs the run there is.
LEMMA DisturbedRun ==
  ASSUME MigrationTypeOK, script' = Disturbed
  PROVE  /\ script' \in Script /\ script'.quiet = FALSE /\ script'.pc = script.pc /\ script'.at = script.at
         /\ script'.thumbs = script.thumbs /\ script'.options = script.options
  BY DEF MigrationTypeOK, Disturbed, Script

\* What a step of a deletion has to show that disturbs the run, or follows one that did: objects go
\* only of photos that may lack them.
LEMMA DeletionStep ==
  ASSUME MigrationInv, script' = Disturbed \/ (script' = script /\ ~script.quiet), UNCHANGED <<counts, left>>,
         listed' \in Listed, deletion' \in Deletion, broken' \subseteq Images, Arrays',
         objects' \in [Images -> SUBSET {"legacy", "full", "thumb"}],
         \A q \in Images : objects'[q] \subseteq objects[q],
         \A q \in Images : Bare(q) \/ objects'[q] # objects[q] => Bare(q)'
  PROVE  MigrationInv'
  <1>1. MigrationTypeOK
    BY DEF MigrationInv
  <1>2. /\ script' \in Script /\ ~script'.quiet /\ script'.pc = script.pc /\ script'.at = script.at
        /\ script'.thumbs = script.thumbs /\ script'.options = script.options
    BY <1>1, DisturbedRun DEF MigrationTypeOK
  <1>3. MigrationTypeOK'
    BY <1>1, <1>2 DEF MigrationTypeOK
  <1>4. OnPhoto'
    <2>1. script.pc \in {"legacy", "remove"} => script.at \in Images
      BY DEF MigrationInv, OnPhoto
    <2>2. ASSUME NEW q \in Images, q = script.at, script.pc = "remove"
          PROVE  "full" \in objects'[q] \/ Bare(q)'
      BY <2>2 DEF MigrationInv, OnPhoto
    <2>3. ASSUME NEW q \in Images, q = script.at, script.pc = "legacy"
          PROVE  "full" \notin objects'[q]
      BY <2>3 DEF MigrationInv, OnPhoto
    <2>4. (script.pc = "remove" => "full" \in objects[script.at] \/ Bare(script.at))'
      BY <1>2, <2>1, <2>2
    <2>5. (script.pc = "legacy" => "full" \notin objects[script.at])'
      BY <1>2, <2>1, <2>3
    <2> QED
      BY <1>2, <2>4, <2>5 DEF MigrationInv, OnPhoto
  <1>5. Copies'
    <2>1. \A q \in script.thumbs : q \in Images
      BY <1>1 DEF MigrationTypeOK, Script
    <2>2. \A q \in Images : "thumb" \in objects[q] \/ Bare(q) => "thumb" \in objects'[q] \/ Bare(q)'
      OBVIOUS
    <2> QED
      BY <1>2, <2>1, <2>2 DEF MigrationInv, Copies
  <1>6. OldOnes'
    BY <1>2 DEF MigrationInv, OldOnes
  <1>7. Calm' /\ ReadSince' /\ Renamed' /\ Full' /\ Earlier' /\ RunsMoveAll'
    BY <1>2 DEF Calm, ReadSince, Renamed, Full, Earlier, RunsMoveAll, Undisturbed, Complete
  <1> QED
    BY <1>3, <1>4, <1>5, <1>6, <1>7 DEF MigrationInv

\* What storage keeps of a photo, if some of its objects go.
LEMMA KeepsPart ==
  ASSUME MigrationTypeOK, NEW p \in Images, p = deletion.photo, NEW kept \in SUBSET objects[p], Keeps(kept)
  PROVE  /\ objects' \in [Images -> SUBSET {"legacy", "full", "thumb"}]
         /\ \A q \in Images : objects'[q] \subseteq objects[q]
         /\ \A q \in Images : objects'[q] # objects[q] => q \in broken'
         /\ broken \subseteq broken' /\ broken' \subseteq Images
  <1>1. /\ objects \in [Images -> SUBSET {"legacy", "full", "thumb"}] /\ broken \subseteq Images
        /\ objects' = [objects EXCEPT ![p] = kept]
        /\ broken' = IF kept = objects[p] THEN broken ELSE broken \cup {p}
    BY DEF MigrationTypeOK, Keeps
  <1>2. objects'[p] = kept /\ \A q \in Images \ {p} : objects'[q] = objects[q]
    BY <1>1
  <1>3. objects' \in [Images -> SUBSET {"legacy", "full", "thumb"}]
    BY <1>1
  <1> QED
    BY <1>1, <1>2, <1>3

\* A list of entries that is shown stays so if objects go of excepted photos only.
LEMMA StaysShown ==
  ASSUME NEW L, NEW S, NEW T, NEW X, NEW Y, Shown(L, S, X), X \subseteq Y,
         \A q \in Images : T[q] # S[q] => q \in Y
  PROVE  Shown(L, T, Y)
  BY DEF Shown, ShownEntry

\* The deletion finds the listing.
LEMMA FindEntryStep ==
  ASSUME MigrationInv, NEW p \in Images, FindEntry(p)
  PROVE  MigrationInv'
  <1>1. /\ UNCHANGED <<objects, listed, script, counts, left, broken>> /\ deletion.pc = "idle" /\ listed[p].there
        /\ deletion' = [NoDeletion EXCEPT !.pc = "found", !.photo = p, !.entry = listed[p]]
    BY DEF FindEntry
  <1>2. listed[p] \in Entry /\ p \in 0..ImageCount
    BY MigrationAssumption DEF MigrationInv, MigrationTypeOK, Listed, Images
  <1>3. deletion' \in Deletion /\ deletion'.pc = "found" /\ deletion'.photo = p /\ deletion'.entry = listed[p]
    BY <1>1, <1>2, Untouched DEF Deletion
  <1>4. MigrationTypeOK'
    BY <1>1, <1>3 DEF MigrationInv, MigrationTypeOK
  <1>5. Arrays'
    <2>1. p \in broken \/ ShownEntry(listed[p], objects[p])
      BY DEF MigrationInv, Arrays, Shown
    <2> QED
      BY <1>1, <1>3, <2>1 DEF MigrationInv, Arrays
  <1>6. \A q \in Images : Bare(q)' <=> Bare(q)
    BY <1>1, <1>3 DEF Bare, Deleted
  <1>7. OnPhoto'
    <2>1. script.pc = "remove" => script.at \in Images
      BY DEF MigrationInv, OnPhoto
    <2>2. (script.pc = "remove" => "full" \in objects[script.at] \/ Bare(script.at))'
      <3>1. ASSUME NEW q \in Images, q = script.at, script.pc = "remove"
            PROVE  "full" \in objects[q] \/ Bare(q)'
        BY <3>1, <1>6 DEF MigrationInv, OnPhoto
      <3> QED
        BY <1>1, <2>1, <3>1
    <2> QED
      BY <1>1, <2>2 DEF MigrationInv, OnPhoto
  <1>8. Copies'
    <2>1. \A q \in script.thumbs : q \in Images
      BY DEF MigrationInv, MigrationTypeOK, Script
    <2> QED
      BY <1>1, <1>6, <2>1 DEF MigrationInv, Copies
  <1>9. OldOnes'
    BY <1>1 DEF MigrationInv, OldOnes
  <1>10. Calm' /\ ReadSince' /\ Renamed' /\ Full' /\ Earlier' /\ RunsMoveAll'
    BY <1>1, <1>3 DEF MigrationInv, Calm, Still, ReadSince, Renamed, Full, Earlier, RunsMoveAll, Undisturbed, Complete, At,
       Moved, BaseOf
  <1> QED
    BY <1>4, <1>5, <1>7, <1>8, <1>9, <1>10 DEF MigrationInv

\* The entry goes.
LEMMA RemoveEntryStep ==
  ASSUME MigrationInv, RemoveEntry
  PROVE  MigrationInv'
  <1>1. PICK p \in Images : p = deletion.photo
    BY DEF MigrationInv, Arrays, RemoveEntry
  <1>2. /\ UNCHANGED <<objects, counts, left, broken>> /\ script' = Disturbed /\ deletion.pc = "found"
        /\ listed' = [listed EXCEPT ![p].there = FALSE]
        /\ deletion' = [deletion EXCEPT !.pc = "objects", !.updated = listed']
    BY <1>1 DEF RemoveEntry
  <1>3. /\ listed' \in Listed /\ ~listed'[p].there
        /\ \A q \in Images : (listed'[q].there => listed[q].there) /\ listed'[q].thumbUrl = listed[q].thumbUrl
    BY <1>2 DEF MigrationInv, MigrationTypeOK, Listed, Entry
  <1>4. /\ deletion' \in Deletion /\ deletion'.pc = "objects" /\ deletion'.photo = p /\ deletion'.updated = listed'
        /\ deletion'.entry = deletion.entry
    BY <1>1, <1>2, <1>3 DEF MigrationInv, MigrationTypeOK, Deletion
  <1>5. Shown(listed', objects, broken)
    BY <1>3 DEF MigrationInv, Arrays, Shown, ShownEntry
  <1>6. Arrays'
    BY <1>1, <1>2, <1>3, <1>4, <1>5 DEF MigrationInv, Arrays
  <1>7. \A q \in Images : Bare(q) => Bare(q)'
    BY <1>2 DEF Bare, Deleted
  <1>8. MigrationTypeOK
    BY DEF MigrationInv
  <1> QED
    BY <1>2, <1>3, <1>4, <1>6, <1>7, <1>8, DeletionStep DEF MigrationTypeOK

\* The objects of the photo go.
LEMMA DeleteObjectsStep ==
  ASSUME MigrationInv, DeleteObjects
  PROVE  MigrationInv'
  <1>1. PICK p \in Images : p = deletion.photo
    BY DEF MigrationInv, Arrays, DeleteObjects
  <1>2. /\ UNCHANGED <<listed, script, counts, left, broken>> /\ deletion.pc = "objects"
        /\ objects' = [objects EXCEPT ![p] = {}]
        /\ deletion' = [deletion EXCEPT !.pc = "reorder", !.entry = EntryAsStored]
    BY <1>1 DEF DeleteObjects
  <1>3. /\ deletion' \in Deletion /\ deletion'.pc = "reorder" /\ deletion'.photo = p /\ deletion'.updated = deletion.updated
    BY <1>1, <1>2, Untouched DEF MigrationInv, MigrationTypeOK, Deletion
  <1>4. /\ objects' \in [Images -> SUBSET {"legacy", "full", "thumb"}] /\ objects'[p] = {}
        /\ \A q \in Images \ {p} : objects'[q] = objects[q]
    BY <1>2 DEF MigrationInv, MigrationTypeOK
  <1>5. ~listed[p].there /\ ~deletion.updated[p].there
    BY <1>1, <1>2 DEF MigrationInv, Arrays
  <1>6. Bare(p)' /\ \A q \in Images : Bare(q) => Bare(q)'
    BY <1>2, <1>3, <1>5 DEF Bare, Deleted
  <1>7. Shown(listed, objects', broken) /\ Shown(deletion.updated, objects', broken)
    BY <1>2, <1>4, <1>5 DEF MigrationInv, Arrays, Shown, ShownEntry
  <1>8. Arrays'
    BY <1>2, <1>3, <1>5, <1>7 DEF Arrays
  <1>9. ~script.quiet
    BY <1>2 DEF MigrationInv, Calm, Still
  <1>10. \A q \in Images : objects'[q] \subseteq objects[q] /\ (objects'[q] # objects[q] => Bare(q)')
    BY <1>4, <1>6
  <1>11. MigrationTypeOK
    BY DEF MigrationInv
  <1> QED
    BY <1>2, <1>3, <1>4, <1>6, <1>8, <1>9, <1>10, <1>11, DeletionStep DEF MigrationTypeOK

\* The other entries are written back as they were read.
LEMMA WriteBackStep ==
  ASSUME MigrationInv, WriteBack
  PROVE  MigrationInv'
  <1>1. /\ UNCHANGED <<objects, counts, left, broken>> /\ script' = Disturbed /\ deletion.pc = "reorder"
        /\ listed' = deletion.updated /\ deletion' = [NoDeletion EXCEPT !.pc = "done"]
    BY DEF WriteBack
  <1>2. deletion' \in Deletion /\ deletion'.pc = "done"
    BY <1>1, Untouched DEF Deletion
  <1>3. listed' \in Listed
    BY <1>1 DEF MigrationInv, MigrationTypeOK, Deletion
  <1>4. \A q \in Images : Bare(q) => Bare(q)'
    BY <1>1, <1>2 DEF Bare, Deleted
  <1>5. Arrays'
    BY <1>1, <1>2 DEF MigrationInv, Arrays
  <1>6. MigrationTypeOK
    BY DEF MigrationInv
  <1> QED
    BY <1>1, <1>2, <1>3, <1>4, <1>5, <1>6, DeletionStep DEF MigrationTypeOK

\* Some of the objects cannot be removed.
LEMMA DeletionFailsStep ==
  ASSUME MigrationInv, DeletionFails
  PROVE  MigrationInv'
  <1>1. PICK p \in Images : p = deletion.photo
    BY DEF MigrationInv, Arrays, DeletionFails
  <1>2. MigrationTypeOK
    BY DEF MigrationInv
  <1>3. PICK kept \in SUBSET objects[p] : Keeps(kept)
    BY <1>1 DEF DeletionFails
  <1>4. /\ UNCHANGED <<listed, script, counts, left>> /\ deletion.pc = "objects"
        /\ deletion' = [deletion EXCEPT !.pc = "restore", !.updated = AsStored]
    BY DEF DeletionFails
  <1>5. /\ objects' \in [Images -> SUBSET {"legacy", "full", "thumb"}]
        /\ \A q \in Images : objects'[q] \subseteq objects[q]
        /\ \A q \in Images : objects'[q] # objects[q] => q \in broken'
        /\ broken \subseteq broken' /\ broken' \subseteq Images
    BY <1>1, <1>2, <1>3, KeepsPart
  <1>6. /\ deletion' \in Deletion /\ deletion'.pc = "restore" /\ deletion'.photo = p /\ deletion'.entry = deletion.entry
    BY <1>1, <1>2, <1>4, Untouched DEF MigrationTypeOK, Deletion
  <1>7. Shown(listed, objects', broken')
    BY <1>5, StaysShown DEF MigrationInv, Arrays
  <1>8. p \in broken' \/ ShownEntry(deletion.entry, objects'[p])
    BY <1>1, <1>4, <1>5 DEF MigrationInv, Arrays
  <1>9. Arrays'
    BY <1>4, <1>6, <1>7, <1>8 DEF Arrays
  <1>10. \A q \in Images : Bare(q) \/ objects'[q] # objects[q] => Bare(q)'
    BY <1>4, <1>5 DEF Bare, Deleted
  <1>11. ~script.quiet
    BY <1>4 DEF MigrationInv, Calm, Still
  <1> QED
    BY <1>2, <1>4, <1>5, <1>6, <1>9, <1>10, <1>11, DeletionStep DEF MigrationTypeOK

\* The entry is restored.
LEMMA RestoreEntryStep ==
  ASSUME MigrationInv, RestoreEntry
  PROVE  MigrationInv'
  <1>1. PICK p \in Images : p = deletion.photo
    BY DEF MigrationInv, Arrays, RestoreEntry
  <1>2. MigrationTypeOK
    BY DEF MigrationInv
  <1>3. /\ UNCHANGED <<objects, counts, left, broken>> /\ script' = Disturbed /\ deletion.pc = "restore"
        /\ listed' = [listed EXCEPT ![p] = deletion.entry]
        /\ deletion' = [deletion EXCEPT !.pc = "late", !.entry = EntryAsStored]
    BY <1>1 DEF RestoreEntry
  <1>4. /\ deletion' \in Deletion /\ deletion'.pc = "late" /\ deletion'.photo = p /\ deletion.entry \in Entry
    BY <1>1, <1>2, <1>3, Untouched DEF MigrationTypeOK, Deletion
  <1>5. listed' \in Listed /\ listed'[p] = deletion.entry /\ \A q \in Images \ {p} : listed'[q] = listed[q]
    BY <1>2, <1>3, <1>4 DEF MigrationTypeOK, Listed
  <1>6. p \in broken \/ ShownEntry(deletion.entry, objects[p])
    BY <1>1, <1>3 DEF MigrationInv, Arrays
  <1>7. Shown(listed', objects, broken)
    BY <1>5, <1>6 DEF MigrationInv, Arrays, Shown
  <1>8. Arrays'
    BY <1>3, <1>4, <1>7 DEF Arrays
  <1>9. \A q \in Images : Bare(q) => Bare(q)'
    BY <1>3 DEF Bare, Deleted
  <1> QED
    BY <1>2, <1>3, <1>4, <1>5, <1>8, <1>9, DeletionStep DEF MigrationTypeOK

\* The other calls to storage come to an end.
LEMMA LateDeleteStep ==
  ASSUME MigrationInv, LateDelete
  PROVE  MigrationInv'
  <1>1. PICK p \in Images : p = deletion.photo
    BY DEF MigrationInv, Arrays, LateDelete
  <1>2. MigrationTypeOK
    BY DEF MigrationInv
  <1>3. PICK kept \in SUBSET objects[p] : Keeps(kept)
    BY <1>1 DEF LateDelete
  <1>4. /\ UNCHANGED <<listed, counts, left>> /\ script' = Disturbed /\ deletion.pc = "late"
        /\ deletion' = [NoDeletion EXCEPT !.pc = "done"]
    BY DEF LateDelete
  <1>5. /\ objects' \in [Images -> SUBSET {"legacy", "full", "thumb"}]
        /\ \A q \in Images : objects'[q] \subseteq objects[q]
        /\ \A q \in Images : objects'[q] # objects[q] => q \in broken'
        /\ broken \subseteq broken' /\ broken' \subseteq Images
    BY <1>1, <1>2, <1>3, KeepsPart
  <1>6. deletion' \in Deletion /\ deletion'.pc = "done"
    BY <1>4, Untouched DEF Deletion
  <1>7. Shown(listed, objects', broken')
    BY <1>5, StaysShown DEF MigrationInv, Arrays
  <1>8. Arrays'
    BY <1>4, <1>6, <1>7 DEF Arrays
  <1>9. \A q \in Images : Bare(q) \/ objects'[q] # objects[q] => Bare(q)'
    BY <1>4, <1>5 DEF Bare, Deleted
  <1> QED
    BY <1>2, <1>4, <1>5, <1>6, <1>8, <1>9, DeletionStep DEF MigrationTypeOK

-----------------------------------------------------------------------------
(* All of the migration. *)

\* Nothing of it changes.
LEMMA MigrationStill ==
  ASSUME MigrationInv, UNCHANGED migrationVars
  PROVE  MigrationInv'
  <1>1. UNCHANGED <<objects, listed, script, deletion, counts, left, broken>>
    BY DEF migrationVars
  <1>2. MigrationTypeOK' /\ Arrays' /\ OnPhoto' /\ Copies' /\ OldOnes'
    BY <1>1 DEF MigrationInv, MigrationTypeOK, Arrays, OnPhoto, Copies, OldOnes, Bare, Deleted
  <1>3. Calm' /\ ReadSince' /\ Renamed' /\ Full' /\ Earlier' /\ RunsMoveAll'
    BY <1>1 DEF MigrationInv, Calm, Still, ReadSince, Renamed, Full, Earlier, RunsMoveAll, Undisturbed, Complete, At, Moved,
       BaseOf
  <1> QED
    BY <1>2, <1>3 DEF MigrationInv

\* Every step keeps the invariant.
LEMMA MigrationKeeps ==
  ASSUME MigrationInv, MigrationNext
  PROVE  MigrationInv'
  BY StartStep, LookStep, AlreadyMovedStep, ReadLegacyStep, WriteFullStep, RemoveLegacyStep, LookForThumbStep,
     WriteThumbStep, ThumbFailsStep, RecordUrlsStep, RecordThumbUrlsStep, StopStep, FindEntryStep, RemoveEntryStep,
     DeleteObjectsStep, WriteBackStep, DeletionFailsStep, RestoreEntryStep, LateDeleteStep
     DEF MigrationNext

\* The invariant says what the run checks.
LEMMA MigrationImplies ==
  ASSUME MigrationInv
  PROVE  PhotosMove
  BY DEF MigrationInv, Arrays, Shown, ShownEntry, PhotosMove, PhotosStay, ThumbsExist

-----------------------------------------------------------------------------
(* Searches and recommendations. The inductive invariant. *)

Modes == {"structured", "hybrid", "lexical-fallback"}
Sorts == {"relevance", "newest", "price-asc"}
SearchRequests ==
  [pc : {"idle", "asked", "answered"}, text : Seq(STRING), chosen : FilterChoices \cup {NoFilters},
   sort : Sorts, page : Nat \ {0}, hidden : SUBSET Vehicles, left : SUBSET {"find", "count", "vector"},
   mode : Modes \cup {"none"}, found : Seq(Vehicles), total : Nat, near : SUBSET Vehicles]
AskTypes ==
  /\ ask \in SearchRequests
  /\ answer \in [shown : Seq(Vehicles), total : Nat, mode : Modes \cup {"none"}]
  /\ readSoFar \in Seq(Vehicles)
PickRecords ==
  [pc : {"idle", "asked", "wider", "answered"}, seeds : Seq(Vehicles), hidden : SUBSET Vehicles,
   near : Seq(Vehicles), shown : Seq(Vehicles)]
PickTypes ==
  /\ pick \in PickRecords
  /\ pick.pc \in {"asked", "wider"} => Len(pick.seeds) \in {1, 2}
OfferTypes ==
  /\ status \in [Vehicles -> {"active", "sold", "draft"}] /\ blocked \in SUBSET Vehicles
  /\ changesMade \in 0..MaxChanges /\ calm \in BOOLEAN
  /\ visible \in [active : SUBSET Vehicles, open : SUBSET Vehicles]

\* What has been asked for, and what was answered.
AskedFor == ask.mode # "none" /\ (ask.mode = "structured" <=> Structured(ask))
AskStages ==
  /\ ask.pc = "idle" => answer.mode = "none"
  /\ ask.pc = "answered" => answer.mode = ask.mode /\ ask.left = {}
  /\ ask.pc # "idle" =>
       /\ AskedFor /\ pick.pc = "idle"
       /\ "vector" \in ask.left => ask.mode = "hybrid"
       /\ "vector" \in ask.left \/ ask.mode # "hybrid" => ask.near = {}
       /\ answer.mode # "none" => (answer.mode = "structured" <=> ask.mode = "structured")
       /\ answer.mode = "none" => readSoFar = <<>> /\ ask.page = 1

\* Nothing was found that was not seen since it was asked for.
SeenAll(S) == S \subseteq SeenSince
Unhidden(hidden) == Vehicles \ hidden \subseteq visible.open
FoundSince ==
  /\ Active \subseteq visible.active /\ Unhidden(blocked)
  /\ ask.pc # "idle" =>
       /\ Unhidden(ask.hidden) /\ SeenAll(Elements(ask.found)) /\ SeenAll(ask.near)
       /\ \A v \in Elements(ask.found) : Fits(v, ask)
  /\ pick.pc \in {"asked", "wider"} => Unhidden(pick.hidden) /\ SeenAll(Elements(pick.near))

\* What a request finds, and the list of which it shows a page, as the listings are now.
FoundNow == Newest({v \in Public : Fits(v, ask)}, CandidateLimit)
NearNow == Elements(Nearest(Filters(ask.text, ask.chosen))) \ blocked
StructuredNow == SortedBy({v \in Public : StructuredFilter(v, ask)}, ask.sort)
RankedNow(near) == Ranked([text |-> ask.text, chosen |-> ask.chosen, found |-> FoundNow, near |-> near])
HybridNow == RankedNow(NearNow)
FallbackNow == RankedNow({})
\* The list that the last answer showed a page of.
ListNow ==
  IF answer.mode = "structured" THEN StructuredNow
  ELSE IF answer.mode = "hybrid" THEN HybridNow ELSE FallbackNow
PagesRead == IF ask.pc = "answered" THEN ask.page ELSE ask.page - 1
\* While nothing changes, requests find what there is, and the pages read are the first of that list.
CalmSearch ==
  calm /\ ask.pc # "idle" =>
    /\ ask.hidden = blocked
    /\ "find" \notin ask.left =>
         ask.found = IF ask.mode = "structured" THEN PageOf(StructuredNow, ask.page) ELSE FoundNow
    /\ "count" \notin ask.left => ask.total = Cardinality(Matching)
    /\ "vector" \notin ask.left => ask.near = IF ask.mode = "hybrid" THEN NearNow ELSE {}
    /\ answer.mode # "none" =>
         /\ readSoFar = AtMost(ListNow, PagesRead * PageLimit)
         /\ answer.total = Len(ListNow)
CalmPick ==
  /\ pick.pc = "wider" =>
       /\ Distinct(pick.near) /\ \A v \in Elements(pick.near) : SameKind(v)
       /\ calm => Cardinality({v \in Public : SameKind(v) /\ InBand(v)}) < PageLimit
  /\ pick.pc \in {"asked", "wider"} /\ calm => pick.hidden = blocked

QueriesInv ==
  /\ AskTypes /\ PickTypes /\ OfferTypes /\ AskStages /\ FoundSince /\ CalmSearch /\ CalmPick
  /\ NoEmptyPage /\ PicksAreSound /\ ShownIsPublic

-----------------------------------------------------------------------------
(* Orders, and the lists they make of finite sets. *)

\* Of two elements of a set one comes before the other.
Arranges(order, S) ==
  /\ \A v \in S : <<v, v>> \notin order
  /\ \A v, w \in S : v # w => <<v, w>> \in order \/ <<w, v>> \in order
  /\ \A u, v, w \in S : <<u, v>> \in order /\ <<v, w>> \in order => <<u, w>> \in order

\* How many come before an element.
Place(S, order, v) == Cardinality({w \in S : <<w, v>> \in order})

\* The number that come before an element tells it apart, and every such number occurs.
LEMMA PlacesAreTaken ==
  ASSUME NEW S, IsFiniteSet(S), NEW order, Arranges(order, S)
  PROVE  /\ Cardinality(S) \in Nat
         /\ \A v \in S : Place(S, order, v) \in Nat /\ Place(S, order, v) + 1 \in 1..Cardinality(S)
         /\ \A v, w \in S : Place(S, order, v) = Place(S, order, w) => v = w
         /\ \A i \in 1..Cardinality(S) : \E v \in S : Place(S, order, v) = i - 1
  <1> DEFINE before(v) == {w \in S : <<w, v>> \in order}
             size == Cardinality(S)
             rank == [v \in S |-> Cardinality(before(v)) + 1]
  <1>1. size \in Nat
    BY FS_CardinalityType
  <1>2. \A v \in S : IsFiniteSet(before(v)) /\ Cardinality(before(v)) \in Nat
    BY FS_Subset, FS_CardinalityType
  <1>3. ASSUME NEW v \in S
        PROVE  Cardinality(before(v)) + 1 \in 1..size
    <2>1. before(v) \in SUBSET S /\ before(v) # S
      BY DEF Arranges
    <2> HIDE DEF before
    <2>2. Cardinality(before(v)) <= Cardinality(S) /\ Cardinality(before(v)) # Cardinality(S)
      BY <2>1, FS_Subset
    <2> QED
      BY <1>1, <1>2, <2>2
  <1>4. ASSUME NEW v \in S, NEW w \in S, <<v, w>> \in order
        PROVE  Cardinality(before(v)) < Cardinality(before(w))
    <2>1. before(v) \in SUBSET before(w) /\ v \in before(w) /\ v \notin before(v)
      BY <1>4 DEF Arranges
    <2> HIDE DEF before
    <2>2. Cardinality(before(v)) <= Cardinality(before(w)) /\ Cardinality(before(v)) # Cardinality(before(w))
      BY <1>2, <2>1, FS_Subset
    <2> QED
      BY <1>2, <2>2
  <1>5. ASSUME NEW v \in S, NEW w \in S, Cardinality(before(v)) = Cardinality(before(w))
        PROVE  v = w
    <2> HIDE DEF before
    <2>1. ~(<<v, w>> \in order) /\ ~(<<w, v>> \in order)
      BY <1>2, <1>4, <1>5
    <2> QED
      BY <2>1 DEF Arranges
  <1> HIDE DEF before, size
  <1>6. rank \in Injection(S, 1..size)
    <2>1. rank \in [S -> 1..size]
      BY <1>3
    <2>2. \A v, w \in S : rank[v] = rank[w] => v = w
      BY <1>2, <1>5
    <2> QED
      BY <2>1, <2>2 DEF Injection, IsInjective
  <1>7. IsFiniteSet(1..size) /\ Cardinality(1..size) = size
    <2>1. 1 \in Int /\ size \in Int /\ (1 > size => size = 0) /\ size - 1 + 1 = size
      BY <1>1
    <2> QED
      BY <2>1, FS_Interval
  <1>8. rank \in Surjection(S, 1..size)
    <2> HIDE DEF rank
    <2> QED
      BY <1>6, <1>7, FS_Injection DEF size
  <1>9. \A i \in 1..size : \E v \in S : Cardinality(before(v)) = i - 1
    <2>1. \A i \in 1..size : \E v \in S : rank[v] = i
      BY <1>8 DEF Surjection
    <2> QED
      BY <1>1, <1>2, <2>1
  <1>10. \A v \in S : Place(S, order, v) = Cardinality(before(v))
    BY DEF before, Place
  <1> QED
    BY <1>1, <1>2, <1>3, <1>5, <1>9, <1>10 DEF size

\* A list in which nothing is repeated.
Once(s) == \A i, j \in DOMAIN s : s[i] = s[j] => i = j

\* The list of a finite set has each of its elements once.
LEMMA OrderedHasAll ==
  ASSUME NEW S, IsFiniteSet(S), NEW order, Arranges(order, S)
  PROVE  /\ Ordered(S, order) \in Seq(S)
         /\ Len(Ordered(S, order)) = Cardinality(S)
         /\ Once(Ordered(S, order))
         /\ Elements(Ordered(S, order)) = S
  <1> DEFINE place(v) == Place(S, order, v)
             size == Cardinality(S)
             list == Ordered(S, order)
  <1>1. size \in Nat /\ \A v \in S : place(v) \in Nat /\ place(v) + 1 \in 1..size
    BY PlacesAreTaken
  <1>2. \A v, w \in S : place(v) = place(w) => v = w
    BY PlacesAreTaken
  <1>3. \A i \in 1..size : \E v \in S : place(v) = i - 1
    BY PlacesAreTaken
  <1>4. list = [i \in 1..size |-> CHOOSE v \in S : place(v) = i - 1]
    BY DEF Ordered, Place
  <1> HIDE DEF place, size, list
  <1>5. \A i \in 1..size : list[i] \in S /\ place(list[i]) = i - 1
    BY <1>3, <1>4
  <1>6. list \in [1..size -> S] /\ DOMAIN list = 1..size
    BY <1>4, <1>5
  <1>7. list \in Seq(S) /\ Len(list) = size
    BY <1>1, <1>6
  <1>8. Once(list)
    BY <1>5, <1>6 DEF Once
  <1>9. ASSUME NEW v \in S
        PROVE  v \in Elements(list)
    <2>1. place(v) + 1 \in 1..size /\ place(v) \in Int
      BY <1>1
    <2>2. place(list[place(v) + 1]) = place(v)
      BY <1>5, <2>1
    <2>3. list[place(v) + 1] = v
      BY <1>2, <1>5, <2>1, <2>2
    <2> QED
      BY <1>6, <2>1, <2>3 DEF Elements
  <1>10. Elements(list) \subseteq S
    BY <1>5, <1>6 DEF Elements
  <1> QED
    BY <1>7, <1>8, <1>9, <1>10 DEF list, size

\* A list without repetition has as many elements as places.
LEMMA OnceIsDistinct ==
  ASSUME NEW S, NEW s \in Seq(S)
  PROVE  /\ Cardinality(Elements(s)) \in Nat
         /\ Once(s) <=> Distinct(s)
  <1>1. Len(s) \in Nat /\ DOMAIN s = 1..Len(s) /\ s \in [1..Len(s) -> S]
    OBVIOUS
  <1>2. IsFiniteSet(1..Len(s)) /\ Cardinality(1..Len(s)) = Len(s)
    <2>1. 1 \in Int /\ Len(s) \in Int /\ (1 > Len(s) => Len(s) = 0) /\ Len(s) - 1 + 1 = Len(s)
      BY <1>1
    <2> QED
      BY <2>1, FS_Interval
  <1>3. s \in Surjection(1..Len(s), Elements(s))
    BY <1>1 DEF Surjection, Elements
  <1>4. /\ IsFiniteSet(Elements(s))
        /\ Cardinality(Elements(s)) = Len(s) <=> s \in Injection(1..Len(s), Elements(s))
    BY <1>2, <1>3, FS_Surjection
  <1>5. s \in Injection(1..Len(s), Elements(s)) <=> Once(s)
    BY <1>1, <1>3 DEF Injection, IsInjective, Surjection, Once
  <1> QED
    BY <1>4, <1>5, FS_CardinalityType DEF Distinct

-----------------------------------------------------------------------------
(* The first of a list, and its pages. *)

\* The first elements of a list, up to a number of them.
LEMMA FirstOfList ==
  ASSUME NEW S, NEW s \in Seq(S), NEW n \in Nat
  PROVE  /\ AtMost(s, n) \in Seq(S)
         /\ Len(AtMost(s, n)) \in Nat
         /\ Len(s) <= n => Len(AtMost(s, n)) = Len(s)
         /\ n <= Len(s) => Len(AtMost(s, n)) = n
         /\ \A i \in 1..Len(AtMost(s, n)) : i \in 1..Len(s) /\ AtMost(s, n)[i] = s[i]
         /\ Elements(AtMost(s, n)) \subseteq Elements(s)
         /\ Once(s) => Once(AtMost(s, n))
         /\ Len(s) <= n => AtMost(s, n) = s
  <1>1. PICK len \in Nat : len = Len(s)
    OBVIOUS
  <1>2. PICK m \in Nat : (len < n => m = len) /\ (~(len < n) => m = n)
    <2>1. CASE len < n
      BY <2>1
    <2>2. CASE ~(len < n)
      BY <2>2
    <2> QED
      BY <2>1, <2>2
  <1>3. Len(s) \in Nat /\ m <= Len(s) /\ DOMAIN s = 1..Len(s)
    BY <1>1, <1>2
  <1> DEFINE t == SubSeq(s, 1, m)
  <1>4. t = AtMost(s, n)
    <2>1. m = IF len < n THEN len ELSE n
      BY <1>2
    <2> QED
      BY <1>1, <2>1 DEF AtMost
  <1>5. t \in Seq(S) /\ Len(t) = m /\ DOMAIN t = 1..m /\ \A i \in 1..m : t[i] = s[i]
    BY <1>3
  <1> HIDE DEF t
  <1>6. \A i \in 1..m : i \in 1..Len(s)
    BY <1>3
  <1>7. Elements(t) \subseteq Elements(s)
    BY <1>3, <1>5, <1>6 DEF Elements
  <1>8. Once(s) => Once(t)
    BY <1>3, <1>5, <1>6 DEF Once
  <1>9. Len(s) <= n => t = s
    <2>1. Len(s) <= n => m = Len(s)
      BY <1>1, <1>2
    <2> QED
      BY <1>3, <1>5, <2>1, SeqEqual
  <1>10. (Len(s) <= n => m = Len(s)) /\ (n <= Len(s) => m = n)
    BY <1>1, <1>2
  <1> QED
    BY <1>2, <1>4, <1>5, <1>6, <1>7, <1>8, <1>9, <1>10

\* The part of a list from one place to another follows the part before it.
LEMMA PartsJoin ==
  ASSUME NEW S, NEW s \in Seq(S), NEW m \in Nat, NEW n \in Nat, m <= n
  PROVE  LET middle == SubSeq(s, m + 1, IF n < Len(s) THEN n ELSE Len(s)) IN
         /\ middle \in Seq(S) /\ Elements(middle) \subseteq Elements(s)
         /\ Once(s) => Once(middle)
         /\ m < Len(s) /\ m < n => middle # <<>>
         /\ AtMost(s, m) \o middle = AtMost(s, n)
  <1>1. PICK len \in Nat : len = Len(s)
    OBVIOUS
  <1>2. PICK k \in Nat : (n < len => k = n) /\ (~(n < len) => k = len)
    <2>1. CASE n < len
      BY <2>1
    <2>2. CASE ~(n < len)
      BY <2>2
    <2> QED
      BY <2>1, <2>2
  <1>3. Len(s) \in Nat /\ k <= Len(s) /\ k <= len /\ DOMAIN s = 1..Len(s)
    BY <1>1, <1>2
  <1> DEFINE middle == SubSeq(s, m + 1, k)
             start  == AtMost(s, m)
             all    == AtMost(s, n)
  <1>4. PICK l \in Nat : (m < k => m + l = k) /\ (k <= m => l = 0)
    <2>1. CASE m < k
      <3>1. k - m \in Nat /\ m + (k - m) = k
        BY <2>1
      <3> QED
        BY <2>1, <3>1
    <2>2. CASE k <= m
      BY <2>2
    <2> QED
      BY <2>1, <2>2
  <1>5. \A i \in 1..l : i + m \in 1..Len(s)
    BY <1>3, <1>4
  <1>6. middle \in Seq(S) /\ Len(middle) = l /\ DOMAIN middle = 1..l /\ \A i \in 1..l : middle[i] = s[i + m]
    <2>1. CASE m < k
      <3>1. k - (m + 1) + 1 = l /\ m + 1 <= k /\ \A i \in (m + 1)..k : i \in 1..Len(s)
        BY <1>3, <1>4, <2>1
      <3>2. m + 1 \in Int /\ k \in Int /\ \A i \in (m + 1)..k : s[i] \in S
        BY <3>1
      <3>3. /\ middle \in Seq(S) /\ Len(middle) = k - (m + 1) + 1
            /\ \A i \in 1..(k - (m + 1) + 1) : middle[i] = s[m + 1 + i - 1]
        BY <3>1, <3>2, SubSeqProperties
      <3>4. \A i \in 1..l : m + 1 + i - 1 = i + m
        OBVIOUS
      <3> QED
        <4>1. middle \in Seq(S) /\ Len(middle) = l /\ \A i \in 1..l : middle[i] = s[m + 1 + i - 1]
          BY <3>1, <3>3
        <4> HIDE DEF middle
        <4>2. DOMAIN middle = 1..l
          BY <4>1
        <4> QED
          BY <3>4, <4>1, <4>2
    <2>2. CASE k <= m
      <3>1. middle = <<>>
        BY <2>2, SubSeqEmpty
      <3> QED
        BY <1>4, <2>2, <3>1
    <2> QED
      BY <2>1, <2>2
  <1>7. PICK first \in Nat :
          /\ start \in Seq(S) /\ Len(start) = first /\ \A i \in 1..first : start[i] = s[i]
          /\ (len <= m => first = len) /\ (m <= len => first = m)
    BY <1>1, FirstOfList
  <1>8. all \in Seq(S) /\ Len(all) = k /\ \A i \in 1..k : all[i] = s[i]
    <2>1. PICK last \in Nat :
            /\ all \in Seq(S) /\ Len(all) = last /\ \A i \in 1..last : all[i] = s[i]
            /\ (len <= n => last = len) /\ (n <= len => last = n)
      BY <1>1, FirstOfList
    <2>2. last = k
      BY <1>2, <2>1
    <2> QED
      BY <2>1, <2>2
  <1> HIDE DEF middle, start, all
  <1>9. Elements(middle) \subseteq Elements(s)
    BY <1>3, <1>6, <1>5 DEF Elements
  <1>10. Once(s) => Once(middle)
    <2> SUFFICES ASSUME Once(s), NEW i \in 1..l, NEW j \in 1..l, middle[i] = middle[j]
                 PROVE  i = j
      BY <1>6 DEF Once
    <2>1. s[i + m] = s[j + m] /\ i + m \in 1..Len(s) /\ j + m \in 1..Len(s)
      BY <1>6, <1>5
    <2>2. i + m = j + m
      BY <1>3, <2>1 DEF Once
    <2> QED
      BY <2>2
  <1>11. m < Len(s) /\ m < n => middle # <<>>
    <2>1. m < Len(s) /\ m < n => l # 0
      BY <1>1, <1>2, <1>4
    <2> QED
      BY <1>6, <2>1
  <1>12. start \o middle = all
    <2>1. /\ start \o middle \in Seq(S) /\ Len(start \o middle) = Len(start) + Len(middle)
          /\ \A i \in 1..(Len(start) + Len(middle)) :
               (start \o middle)[i] = IF i <= Len(start) THEN start[i] ELSE middle[i - Len(start)]
      BY <1>6, <1>7, ConcatProperties
    <2>2. first + l = k
      BY <1>2, <1>3, <1>4, <1>7
    <2>3. Len(start \o middle) = k /\ \A i \in 1..k : (start \o middle)[i] = IF i <= first THEN start[i] ELSE middle[i - first]
      BY <1>6, <1>7, <2>1, <2>2
    <2>4. ASSUME NEW i \in 1..k
          PROVE  (start \o middle)[i] = all[i]
      <3>1. CASE i <= first
        <4>1. (start \o middle)[i] = start[i] /\ i \in 1..first
          BY <2>3, <3>1
        <4> QED
          BY <1>7, <1>8, <4>1
      <3>2. CASE ~(i <= first)
        <4>1. first = m
          BY <1>3, <1>7, <3>2
        <4>2. i - m \in 1..l /\ i - m + m = i
          BY <2>2, <3>2, <4>1
        <4>3. (start \o middle)[i] = middle[i - m]
          BY <2>3, <3>2, <4>1
        <4> QED
          BY <1>6, <1>8, <4>2, <4>3
      <3> QED
        BY <3>1, <3>2
    <2> QED
      BY <1>8, <2>1, <2>3, <2>4, SeqEqual
  <1>13. k = IF n < Len(s) THEN n ELSE Len(s)
    BY <1>1, <1>2
  <1>14. m < Len(s) => m < len
    BY <1>1
  <1> QED
    BY <1>6, <1>9, <1>10, <1>11, <1>12, <1>13, <1>14 DEF middle, start, all

\* The number of elements before a page, and on the pages up to it.
LEMMA PagesBefore ==
  ASSUME NEW p \in Nat \ {0}
  PROVE  /\ (p - 1) * PageLimit \in Nat /\ p * PageLimit \in Nat
         /\ p * PageLimit = (p - 1) * PageLimit + PageLimit
         /\ (p - 1) * PageLimit < p * PageLimit
  <1>1. PageLimit \in Nat \ {0}
    BY QueriesAssumption
  <1>2. PICK q \in Nat : q = p - 1
    OBVIOUS
  <1>3. p = q + 1 /\ (q + 1) * PageLimit = q * PageLimit + PageLimit
    BY <1>1, <1>2
  <1>4. q * PageLimit \in Nat
    BY <1>1
  <1> QED
    BY <1>1, <1>2, <1>3, <1>4

\* A page is a part of the list, has something while the list goes on, and follows the pages before.
LEMMA PagesJoin ==
  ASSUME NEW S, NEW s \in Seq(S), NEW p \in Nat \ {0}
  PROVE  /\ PageOf(s, p) \in Seq(S) /\ Elements(PageOf(s, p)) \subseteq Elements(s)
         /\ (p - 1) * PageLimit < Len(s) => PageOf(s, p) # <<>>
         /\ AtMost(s, (p - 1) * PageLimit) \o PageOf(s, p) = AtMost(s, p * PageLimit)
  <1>1. PICK m \in Nat : m = (p - 1) * PageLimit
    BY PagesBefore
  <1>2. PICK n \in Nat : n = p * PageLimit
    BY PagesBefore
  <1>3. m < n
    BY <1>1, <1>2, PagesBefore
  <1>4. PageOf(s, p) = SubSeq(s, m + 1, IF n < Len(s) THEN n ELSE Len(s))
    BY <1>1, <1>2 DEF PageOf
  <1>5. m <= n /\ Len(s) \in Nat
    BY <1>3
  <1> DEFINE middle == SubSeq(s, m + 1, IF n < Len(s) THEN n ELSE Len(s))
  <1>6. /\ middle \in Seq(S) /\ Elements(middle) \subseteq Elements(s)
        /\ m < Len(s) /\ m < n => middle # <<>>
        /\ AtMost(s, m) \o middle = AtMost(s, n)
    BY <1>5, PartsJoin
  <1> HIDE DEF middle
  <1>7. PageOf(s, p) = middle
    BY <1>4 DEF middle
  <1> QED
    BY <1>1, <1>2, <1>3, <1>6, <1>7

\* A page that the pager offers begins before the end, and the last one ends there.
LEMMA PagesEnd ==
  ASSUME NEW p \in Nat \ {0}, NEW total \in Nat
  PROVE  p <= (total + PageLimit - 1) \div PageLimit <=> (p - 1) * PageLimit < total
  <1>1. PageLimit \in Nat \ {0}
    BY QueriesAssumption
  <1>2. PICK q \in Int : q = (total + PageLimit - 1) \div PageLimit
    BY <1>1
  <1>3. q * PageLimit <= total + PageLimit - 1 /\ total + PageLimit - 1 < (q + 1) * PageLimit
    BY <1>2, <1>1
  <1>4. (q + 1) * PageLimit = q * PageLimit + PageLimit
    BY <1>1
  <1>5. CASE p <= q
    <2>1. p * PageLimit <= q * PageLimit
      BY <1>1, <1>5
    <2> QED
      BY <1>2, <1>1, <1>3, <1>5, <2>1, PagesBefore
  <1>6. CASE q < p
    <2>1. (q + 1) * PageLimit <= p * PageLimit
      BY <1>1, <1>6
    <2> QED
      BY <1>2, <1>1, <1>3, <1>6, <2>1, PagesBefore
  <1> QED
    BY <1>5, <1>6

-----------------------------------------------------------------------------
(* The orders of the queries. *)

\* Greater keys come first; of equal ones the greater number.
LEMMA KeyArranges ==
  ASSUME NEW V \in SUBSET Nat, NEW key \in [V -> Int], NEW order,
         order = {p \in V \X V : key[p[1]] > key[p[2]] \/ (key[p[1]] = key[p[2]] /\ p[1] > p[2])}
  PROVE  Arranges(order, V)
  <1>1. \A v, w \in V : <<v, w>> \in order <=> key[v] > key[w] \/ (key[v] = key[w] /\ v > w)
    OBVIOUS
  <1>2. \A v \in V : key[v] \in Int /\ v \in Int
    OBVIOUS
  <1> QED
    BY <1>1, <1>2 DEF Arranges

\* Greater keys come first; of equal ones the smaller number.
LEMMA KeyArrangesUp ==
  ASSUME NEW V \in SUBSET Nat, NEW key \in [V -> Int], NEW order,
         order = {p \in V \X V : key[p[1]] > key[p[2]] \/ (key[p[1]] = key[p[2]] /\ p[1] < p[2])}
  PROVE  Arranges(order, V)
  <1>1. \A v, w \in V : <<v, w>> \in order <=> key[v] > key[w] \/ (key[v] = key[w] /\ v < w)
    OBVIOUS
  <1>2. \A v \in V : key[v] \in Int /\ v \in Int
    OBVIOUS
  <1> QED
    BY <1>1, <1>2 DEF Arranges

\* What arranges a set arranges each part of it.
LEMMA ArrangesPart ==
  ASSUME NEW V, NEW S \in SUBSET V, NEW order, Arranges(order, V)
  PROVE  Arranges(order, S)
  BY DEF Arranges

\* The vehicles are finitely many numbers.
LEMMA VehiclesAreFinite ==
  /\ Vehicles \in SUBSET Nat /\ IsFiniteSet(Vehicles)
  /\ \A S \in SUBSET Vehicles : IsFiniteSet(S) /\ Cardinality(S) \in Nat
  BY QueriesAssumption, FS_Subset, FS_CardinalityType

\* The dates arrange the vehicles.
LEMMA DatesArrange == Arranges(ByDate, Vehicles)
  <1>1. \A v, w \in Vehicles : <<v, w>> \in ByDate <=> v > w
    BY DEF ByDate
  <1>2. \A v \in Vehicles : v \in Int
    BY VehiclesAreFinite
  <1> QED
    BY <1>1, <1>2 DEF Arranges

\* The prices arrange the vehicles.
LEMMA PricesArrange == Arranges(ByPrice, Vehicles)
  <1>1. \A v, w \in Vehicles :
          <<v, w>> \in ByPrice <=> (Offers[v].price < Offers[w].price \/ (Offers[v].price = Offers[w].price /\ v < w))
    BY DEF ByPrice
  <1>2. \A v \in Vehicles : v \in Int /\ Offers[v].price \in Int
    BY QueriesAssumption, VehiclesAreFinite
  <1> QED
    BY <1>1, <1>2 DEF Arranges

\* The vector search arranges the vehicles.
LEMMA NearnessArranges == Arranges(ByNearness, Vehicles)
  <1>1. Nearness \in [Vehicles -> Int]
    BY QueriesAssumption
  <1> QED
    BY <1>1, VehiclesAreFinite, KeyArrangesUp DEF ByNearness

\* The scores of a request are numbers, and arrange the vehicles.
LEMMA ScoresArrange ==
  ASSUME NEW a, a.text \in Seq(STRING)
  PROVE  Arranges(ByScore(a), Vehicles)
  <1>1. ASSUME NEW v \in Vehicles
        PROVE  Score(v, a) \in Int
    <2> DEFINE hits == {i \in DOMAIN a.text : a.text[i] \in Elements(Offers[v].words)}
    <2>1. PICK n \in Nat : n = Len(a.text) /\ DOMAIN a.text = 1..n
      OBVIOUS
    <2>2. Cardinality(hits) \in Nat
      <3>1. IsFiniteSet(1..n)
        BY <2>1, FS_Interval
      <3>2. hits \in SUBSET (1..n)
        BY <2>1
      <3> HIDE DEF hits
      <3> QED
        BY <3>1, <3>2, FS_Subset, FS_CardinalityType
    <2> HIDE DEF hits
    <2>3. PICK matched \in Nat : matched = Cardinality(hits)
      BY <2>2
    <2>4. PICK semantic \in Nat : semantic = IF v \in a.near THEN Nearness[v] ELSE 0
      <3>1. Nearness[v] \in Nat
        BY QueriesAssumption
      <3> QED
        BY <3>1
    <2>5. Score(v, a) = 65 * semantic * n + 350 * matched
      BY <2>1, <2>3, <2>4 DEF Score, hits
    <2>6. 65 * semantic * n \in Int
      BY <2>1
    <2> QED
      BY <2>5, <2>6
  <1> DEFINE key == [v \in Vehicles |-> Score(v, a)]
  <1>2. key \in [Vehicles -> Int]
    BY <1>1
  <1>3. \A v \in Vehicles : key[v] = Score(v, a)
    OBVIOUS
  <1> HIDE DEF key
  <1>4. ByScore(a) = {p \in Vehicles \X Vehicles : key[p[1]] > key[p[2]] \/ (key[p[1]] = key[p[2]] /\ p[1] > p[2])}
    BY <1>3 DEF ByScore
  <1> QED
    BY <1>2, <1>4, KeyArranges, VehiclesAreFinite

-----------------------------------------------------------------------------
(* What the queries return. *)

\* A list of some vehicles, in an order of all of them, has each once.
LEMMA ListOfVehicles ==
  ASSUME NEW S \in SUBSET Vehicles, NEW order, Arranges(order, Vehicles)
  PROVE  /\ Ordered(S, order) \in Seq(Vehicles) /\ Len(Ordered(S, order)) = Cardinality(S)
         /\ Once(Ordered(S, order)) /\ Elements(Ordered(S, order)) = S
  <1>1. IsFiniteSet(S) /\ Arranges(order, S)
    BY VehiclesAreFinite, ArrangesPart
  <1>2. Ordered(S, order) \in Seq(S) /\ Len(Ordered(S, order)) = Cardinality(S)
        /\ Once(Ordered(S, order)) /\ Elements(Ordered(S, order)) = S
    BY <1>1, OrderedHasAll
  <1> QED
    BY <1>2, SeqMonotonic

\* A pool has the newest of what matches, each once, and something if anything matches.
LEMMA NewestOf ==
  ASSUME NEW S \in SUBSET Vehicles, NEW n \in Nat \ {0}
  PROVE  /\ Newest(S, n) \in Seq(Vehicles) /\ Once(Newest(S, n)) /\ Elements(Newest(S, n)) \subseteq S
         /\ Cardinality(S) <= n => Len(Newest(S, n)) = Cardinality(S)
         /\ n <= Cardinality(S) => Len(Newest(S, n)) = n
         /\ S # {} => Newest(S, n) # <<>>
  <1> DEFINE list == Ordered(S, ByDate)
  <1>1. list \in Seq(Vehicles) /\ Len(list) = Cardinality(S) /\ Once(list) /\ Elements(list) = S
    BY DatesArrange, ListOfVehicles
  <1>2. Newest(S, n) = AtMost(list, n)
    BY DEF Newest
  <1>3. Cardinality(S) \in Nat /\ (S # {} => Cardinality(S) # 0)
    BY VehiclesAreFinite, FS_EmptySet
  <1> HIDE DEF list
  <1>4. /\ AtMost(list, n) \in Seq(Vehicles) /\ Once(AtMost(list, n)) /\ Elements(AtMost(list, n)) \subseteq S
        /\ Cardinality(S) <= n => Len(AtMost(list, n)) = Cardinality(S)
        /\ n <= Cardinality(S) => Len(AtMost(list, n)) = n
    BY <1>1, FirstOfList
  <1>5. S # {} => Len(AtMost(list, n)) # 0
    BY <1>3, <1>4
  <1> QED
    BY <1>2, <1>4, <1>5

\* A sorted result has all that matches, each once.
LEMMA SortedOf ==
  ASSUME NEW S \in SUBSET Vehicles, NEW sort
  PROVE  /\ SortedBy(S, sort) \in Seq(Vehicles) /\ Len(SortedBy(S, sort)) = Cardinality(S)
         /\ Once(SortedBy(S, sort)) /\ Elements(SortedBy(S, sort)) = S
  <1>1. PICK order : order = (IF sort = "price-asc" THEN ByPrice ELSE ByDate) /\ Arranges(order, Vehicles)
    BY DatesArrange, PricesArrange
  <1> QED
    BY <1>1, ListOfVehicles DEF SortedBy

\* The vector search finds active vehicles that pass its filter.
LEMMA NearestOf ==
  ASSUME NEW f
  PROVE  Elements(Nearest(f)) \subseteq {v \in Active : VectorFilter(v, f)}
  <1> DEFINE S == {v \in Active : VectorFilter(v, f)}
             list == Ordered(S, ByNearness)
  <1>1. S \in SUBSET Vehicles
    BY DEF Active
  <1> HIDE DEF S
  <1>2. list \in Seq(Vehicles) /\ Elements(list) = S
    BY <1>1, NearnessArranges, ListOfVehicles
  <1> HIDE DEF list
  <1>3. Elements(AtMost(list, VectorLimit)) \subseteq S
    BY <1>2, QueriesAssumption, FirstOfList
  <1> QED
    BY <1>3 DEF Nearest, list, S

\* The ranking has what was found and what is near and fits, each once.
LEMMA RankedOf ==
  ASSUME NEW a, a.text \in Seq(STRING), a.found \in Seq(Vehicles), a.near \in SUBSET Vehicles
  PROVE  /\ Merged(a) \in SUBSET Vehicles /\ Ranked(a) \in Seq(Vehicles) /\ Len(Ranked(a)) = Cardinality(Merged(a))
         /\ Once(Ranked(a)) /\ Elements(Ranked(a)) = Merged(a)
  <1>1. Merged(a) \in SUBSET Vehicles
    BY DEF Merged, Elements
  <1> QED
    BY <1>1, ScoresArrange, ListOfVehicles DEF Ranked

\* The ranking depends on nothing else of a request.
LEMMA SameRanking ==
  ASSUME NEW a, NEW b, a.text = b.text, a.chosen = b.chosen, a.found = b.found, a.near = b.near
  PROVE  Ranked(a) = Ranked(b)
  <1>1. Merged(a) = Merged(b)
    BY DEF Merged, Fits
  <1>2. \A v : Score(v, a) = Score(v, b)
    BY DEF Score
  <1>3. ByScore(a) = ByScore(b)
    BY <1>2 DEF ByScore
  <1> QED
    BY <1>1, <1>3 DEF Ranked

-----------------------------------------------------------------------------
(* The ranking of recommendations. *)

\* The likeness of two vehicles is a number.
LEMMA LikenessIsNumber ==
  ASSUME NEW s \in Vehicles, NEW v \in Vehicles
  PROVE  SimilarityScore(s, v) \in Int
  <1>1. PICK x \in Nat : x = Offers[v].price
    BY QueriesAssumption
  <1>2. PICK y \in Nat : y = Offers[s].price
    BY QueriesAssumption
  <1>3. PICK apart \in Nat : apart = IF x > y THEN x - y ELSE y - x
    <2>1. CASE x > y
      <3>1. x - y \in Nat
        BY <2>1
      <3> QED
        BY <2>1, <3>1
    <2>2. CASE ~(x > y)
      <3>1. y - x \in Nat
        BY <2>2
      <3> QED
        BY <2>2, <3>1
    <2> QED
      BY <2>1, <2>2
  <1>4. PICK most \in Nat \ {0} : most = IF y < 1 THEN 1 ELSE y
    OBVIOUS
  <1>5. PICK alike \in Int : alike = IF Offers[v].category = Offers[s].category THEN 20 ELSE 0
    OBVIOUS
  <1>6. PICK made \in Int : made = IF Offers[v].make = Offers[s].make THEN 30 ELSE 0
    OBVIOUS
  <1>7. PICK close \in Int : close = IF 2 * apart < most THEN (25 * (most - 2 * apart)) \div most ELSE 0
    OBVIOUS
  <1>8. SimilarityScore(s, v) = alike + made + close
    BY <1>1, <1>2, <1>3, <1>4, <1>5, <1>6, <1>7, Zenon DEF SimilarityScore
  <1> QED
    BY <1>8

\* A row of recommendations has some of the pool, each once, and something if there is anything.
LEMMA RowOf ==
  ASSUME pick.seeds \in Seq(Vehicles), Len(pick.seeds) \in {1, 2},
         NEW pool \in Seq(Vehicles), Once(pool)
  PROVE  /\ RankByScore(pool) \in Seq(Vehicles) /\ Once(RankByScore(pool))
         /\ Elements(RankByScore(pool)) \subseteq Elements(pool)
         /\ pool # <<>> => RankByScore(pool) # <<>>
  <1>1. PICK n \in Nat : n = Len(pool)
    OBVIOUS
  <1>2. PICK D \in SUBSET Nat : D = 1..n
    OBVIOUS
  <1>3. DOMAIN pool = D /\ \A i \in D : pool[i] \in Vehicles
    BY <1>1, <1>2
  <1>4. ASSUME NEW v \in Vehicles
        PROVE  ProfileScore(v) \in Int
    <2>1. CASE Len(pick.seeds) = 1
      <3>1. pick.seeds[1] \in Vehicles
        BY <2>1
      <3> QED
        BY <2>1, <3>1, LikenessIsNumber DEF ProfileScore
    <2>2. CASE Len(pick.seeds) = 2
      <3>1. pick.seeds[1] \in Vehicles /\ pick.seeds[2] \in Vehicles
        BY <2>2
      <3>2. SimilarityScore(pick.seeds[1], v) \in Int /\ SimilarityScore(pick.seeds[2], v) \in Int
        BY <3>1, LikenessIsNumber
      <3>3. ProfileScore(v) = 100 * SimilarityScore(pick.seeds[1], v) + 85 * SimilarityScore(pick.seeds[2], v)
        BY <2>2 DEF ProfileScore
      <3> QED
        BY <3>2, <3>3
    <2> QED
      BY <2>1, <2>2
  <1> DEFINE key == [i \in D |-> ProfileScore(pool[i])]
             order == Ordered(D, ByLikeness(pool))
             row == [i \in DOMAIN order |-> pool[order[i]]]
  <1>5. Arranges(ByLikeness(pool), D)
    <2>1. key \in [D -> Int] /\ \A i \in D : key[i] = ProfileScore(pool[i])
      BY <1>3, <1>4
    <2> HIDE DEF key
    <2>2. ByLikeness(pool) = {p \in D \X D : key[p[1]] > key[p[2]] \/ (key[p[1]] = key[p[2]] /\ p[1] < p[2])}
      BY <1>3, <2>1 DEF ByLikeness
    <2> QED
      BY <2>1, <2>2, KeyArrangesUp
  <1>6. IsFiniteSet(D) /\ Cardinality(D) = n
    <2>1. 1 \in Int /\ n \in Int /\ (1 > n => n = 0) /\ n - 1 + 1 = n
      OBVIOUS
    <2> QED
      BY <1>2, <2>1, FS_Interval
  <1>7. order \in Seq(D) /\ Len(order) = n /\ Once(order)
    BY <1>5, <1>6, OrderedHasAll
  <1> HIDE DEF order
  <1>8. DOMAIN order = 1..n /\ \A i \in 1..n : order[i] \in D
    BY <1>7
  <1>9. row \in [1..n -> Vehicles] /\ \A i \in 1..n : row[i] = pool[order[i]]
    BY <1>3, <1>8
  <1> HIDE DEF row
  <1>10. row \in Seq(Vehicles) /\ Len(row) = n /\ DOMAIN row = 1..n
    BY <1>9
  <1>11. Once(row)
    <2> SUFFICES ASSUME NEW i \in 1..n, NEW j \in 1..n, row[i] = row[j]
                 PROVE  i = j
      BY <1>10 DEF Once
    <2>1. order[i] = order[j]
      BY <1>3, <1>8, <1>9 DEF Once
    <2> QED
      BY <1>7, <1>8, <2>1 DEF Once
  <1>12. Elements(row) \subseteq Elements(pool)
    BY <1>3, <1>8, <1>9, <1>10 DEF Elements
  <1>13. RankByScore(pool) = AtMost(row, PageLimit)
    BY <1>3 DEF RankByScore, row, order
  <1>14. PageLimit \in Nat \ {0}
    BY QueriesAssumption
  <1>15. PICK last \in Nat :
           /\ AtMost(row, PageLimit) \in Seq(Vehicles) /\ Once(AtMost(row, PageLimit))
           /\ Elements(AtMost(row, PageLimit)) \subseteq Elements(row)
           /\ Len(AtMost(row, PageLimit)) = last /\ (n <= PageLimit => last = n) /\ (PageLimit <= n => last = PageLimit)
    BY <1>10, <1>11, <1>14, FirstOfList
  <1>16. pool # <<>> => last # 0
    <2>1. pool # <<>> => n # 0
      BY <1>1
    <2> QED
      BY <1>14, <1>15, <2>1
  <1>17. AtMost(row, PageLimit) = <<>> => last = 0
    BY <1>15
  <1> QED
    BY <1>12, <1>13, <1>15, <1>16, <1>17

-----------------------------------------------------------------------------
(* The start, changes of listings and dealers, and requests that begin. *)

\* It holds before anything is asked.
LEMMA QueriesStart == QueriesInit => QueriesInv
  <1> SUFFICES ASSUME QueriesInit
               PROVE  QueriesInv
    OBVIOUS
  <1>1. ask = NoAsk /\ answer = NoAnswer /\ readSoFar = <<>> /\ pick = NoPick
    BY DEF QueriesInit
  <1>2. AskTypes
    <2>1. <<>> \in Seq(Vehicles) /\ <<>> \in Seq(STRING)
      OBVIOUS
    <2> QED
      BY <1>1, <2>1 DEF AskTypes, SearchRequests, NoAsk, NoAnswer, Modes, Sorts
  <1>3. PickTypes
    <2>1. <<>> \in Seq(Vehicles)
      OBVIOUS
    <2> QED
      BY <1>1, <2>1 DEF PickTypes, PickRecords, NoPick
  <1>4. OfferTypes
    <2>1. MaxChanges \in Nat
      BY QueriesAssumption
    <2> QED
      BY <2>1 DEF OfferTypes, QueriesInit, Now, Active
  <1>5. ask.pc = "idle" /\ pick.pc = "idle" /\ answer.mode = "none"
    BY <1>1 DEF NoAsk, NoAnswer, NoPick
  <1>6. AskStages
    BY <1>5 DEF AskStages
  <1>7. FoundSince
    BY <1>5 DEF FoundSince, QueriesInit, Now, Unhidden
  <1>8. CalmSearch /\ CalmPick
    BY <1>5 DEF CalmSearch, CalmPick
  <1>9. NoEmptyPage /\ PicksAreSound /\ ShownIsPublic
    BY <1>5 DEF NoEmptyPage, PicksAreSound, ShownIsPublic
  <1> QED
    BY <1>2, <1>3, <1>4, <1>6, <1>7, <1>8, <1>9 DEF QueriesInv

\* A change of a listing or a dealer ends the calm, and what was seen stays so.
LEMMA ChangesKeep ==
  ASSUME QueriesInv, NEW v \in Vehicles,
         DealerChanges(v) \/ \E s \in {"active", "sold", "draft"} : ListingChanges(v, s)
  PROVE  QueriesInv'
  <1>1. OfferChanges /\ ask' = ask /\ answer' = answer /\ readSoFar' = readSoFar /\ pick' = pick /\ calm' = FALSE
    BY DEF DealerChanges, ListingChanges, OfferChanges
  <1>2. status' \in [Vehicles -> {"active", "sold", "draft"}] /\ blocked' \in SUBSET Vehicles
    BY DEF QueriesInv, OfferTypes, DealerChanges, ListingChanges
  <1>3. OfferTypes'
    <2>1. changesMade' \in 0..MaxChanges
      BY <1>1, QueriesAssumption DEF OfferChanges, QueriesInv, OfferTypes
    <2>2. Active' \in SUBSET Vehicles
      BY DEF Active
    <2>3. visible' \in [active : SUBSET Vehicles, open : SUBSET Vehicles]
      BY <1>1, <2>2 DEF OfferChanges, QueriesInv, OfferTypes
    <2> QED
      BY <1>1, <1>2, <2>1, <2>3 DEF OfferTypes
  <1>4. /\ visible.active \subseteq visible'.active /\ visible.open \subseteq visible'.open
        /\ Active' \subseteq visible'.active /\ Vehicles \ blocked' \subseteq visible'.open
    BY <1>1 DEF OfferChanges, QueriesInv, OfferTypes
  <1>5. SeenSince \subseteq SeenSince'
    BY <1>4 DEF SeenSince
  <1>6. AskTypes' /\ PickTypes'
    BY <1>1 DEF QueriesInv, AskTypes, PickTypes
  <1>7. AskStages'
    BY <1>1 DEF QueriesInv, AskStages, AskedFor
  <1>8. FoundSince'
    BY <1>1, <1>4, <1>5 DEF QueriesInv, FoundSince, SeenAll, Unhidden
  <1>9. CalmSearch' /\ CalmPick'
    <2>1. \A w : SameKind(w)' = SameKind(w)
      BY <1>1 DEF SameKind, Seeds
    <2> QED
      BY <1>1, <2>1 DEF QueriesInv, CalmSearch, CalmPick
  <1>10. NoEmptyPage'
    BY <1>1 DEF QueriesInv, NoEmptyPage, TotalPages
  <1>11. PicksAreSound'
    <2>1. \A w : SameKind(w)' = SameKind(w)
      BY <1>1 DEF SameKind, Seeds
    <2> QED
      BY <1>1, <2>1 DEF QueriesInv, PicksAreSound
  <1>12. ShownIsPublic'
    BY <1>1, <1>5 DEF QueriesInv, ShownIsPublic
  <1> QED
    BY <1>3, <1>6, <1>7, <1>8, <1>9, <1>10, <1>11, <1>12 DEF QueriesInv

\* A step of the other sides leaves all this alone.
LEMMA QueriesStill ==
  ASSUME QueriesInv, UNCHANGED queryVars
  PROVE  QueriesInv'
  <1>1. /\ status' = status /\ blocked' = blocked /\ changesMade' = changesMade /\ ask' = ask /\ answer' = answer
        /\ readSoFar' = readSoFar /\ pick' = pick /\ visible' = visible /\ calm' = calm
    BY DEF queryVars, catalogueVars
  <1>2. Active' = Active /\ Public' = Public /\ SeenSince' = SeenSince
    BY <1>1 DEF Active, Public, PublicBut, SeenSince
  <1>3. AskTypes' /\ PickTypes' /\ OfferTypes'
    BY <1>1 DEF QueriesInv, AskTypes, PickTypes, OfferTypes
  <1>4. AskStages' /\ FoundSince'
    BY <1>1, <1>2 DEF QueriesInv, AskStages, AskedFor, FoundSince, SeenAll, Unhidden
  <1>5. FoundNow' = FoundNow /\ NearNow' = NearNow
    BY <1>1, <1>2 DEF FoundNow, NearNow, Nearest
  <1>6. ListNow' = ListNow /\ StructuredNow' = StructuredNow
    BY <1>1, <1>2, <1>5 DEF ListNow, StructuredNow, HybridNow, FallbackNow, RankedNow
  <1>7. Matching' = Matching
    BY <1>1, <1>2 DEF Matching, PublicBut
  <1>8. CalmSearch'
    BY <1>1, <1>5, <1>6, <1>7 DEF QueriesInv, CalmSearch, PagesRead
  <1>9. \A w : SameKind(w)' = SameKind(w) /\ InBand(w)' = InBand(w)
    BY <1>1 DEF SameKind, InBand, Seeds
  <1>10. CalmPick' /\ PicksAreSound'
    BY <1>1, <1>2, <1>9 DEF QueriesInv, CalmPick, PicksAreSound
  <1>11. NoEmptyPage' /\ ShownIsPublic'
    BY <1>1, <1>2 DEF QueriesInv, NoEmptyPage, TotalPages, ShownIsPublic
  <1> QED
    BY <1>3, <1>4, <1>8, <1>10, <1>11 DEF QueriesInv

\* What there is now is read from the listings, the dealers and what was asked for.
LEMMA SameNow ==
  ASSUME status' = status, blocked' = blocked, ask'.text = ask.text, ask'.chosen = ask.chosen, ask'.sort = ask.sort
  PROVE  /\ Active' = Active /\ Public' = Public
         /\ FoundNow' = FoundNow /\ NearNow' = NearNow /\ StructuredNow' = StructuredNow
         /\ HybridNow' = HybridNow /\ FallbackNow' = FallbackNow
         /\ \A v : Fits(v, ask)' <=> Fits(v, ask)
  <1>1. Active' = Active /\ Public' = Public
    BY DEF Active, Public, PublicBut
  <1>2. \A v : Fits(v, ask)' <=> Fits(v, ask)
    BY DEF Fits
  <1>3. FoundNow' = FoundNow /\ NearNow' = NearNow
    BY <1>1 DEF FoundNow, NearNow, Nearest, Fits
  <1>4. StructuredNow' = StructuredNow
    BY <1>1 DEF StructuredNow, StructuredFilter, Fits
  <1>5. HybridNow' = HybridNow /\ FallbackNow' = FallbackNow
    BY <1>3 DEF HybridNow, FallbackNow, RankedNow
  <1> QED
    BY <1>1, <1>2, <1>3, <1>4, <1>5

\* Nothing is picked while a search runs, and nothing was shown before its answer.
LEMMA NothingShown ==
  ASSUME ask'.pc = "asked", pick'.pc = "idle"
  PROVE  NoEmptyPage' /\ PicksAreSound' /\ ShownIsPublic' /\ CalmPick'
  BY DEF NoEmptyPage, PicksAreSound, ShownIsPublic, CalmPick

\* A request begins: it has found nothing yet, and nobody hidden is forgotten.
LEMMA BeginHolds ==
  ASSUME QueriesInv, NEW text \in Seq(STRING), NEW chosen \in FilterChoices \cup {NoFilters}, NEW sort \in Sorts,
         NEW page \in Nat \ {0}, Begin(text, chosen, sort, page), calm' \in BOOLEAN
  PROVE  /\ ask' \in SearchRequests
         /\ ask'.pc = "asked" /\ ask'.text = text /\ ask'.chosen = chosen /\ ask'.sort = sort /\ ask'.page = page
         /\ ask'.hidden = blocked /\ ask'.near = {}
         /\ ask'.mode \in {"structured", "hybrid"} /\ {"find", "count"} \subseteq ask'.left
         /\ "vector" \in ask'.left <=> ask'.mode = "hybrid"
         /\ ask'.mode = "structured" <=> (sort # "relevance" \/ AnalyzeSearchQuery(text).intent = <<>>)
         /\ pick'.pc = "idle" /\ PickTypes' /\ OfferTypes' /\ AskedFor' /\ FoundSince'
  <1> DEFINE a == [NoAsk EXCEPT !.pc = "asked", !.text = text, !.chosen = chosen, !.sort = sort,
                                !.page = page, !.hidden = blocked]
             Plain == sort # "relevance" \/ AnalyzeSearchQuery(text).intent = <<>>
  <1>1. blocked \in SUBSET Vehicles /\ <<>> \in Seq(Vehicles) /\ <<>> \in Seq(STRING)
    BY DEF QueriesInv, OfferTypes
  <1>2. NoAsk \in SearchRequests /\ NoAsk.found = <<>> /\ NoAsk.near = {}
    BY <1>1 DEF NoAsk, Sorts, SearchRequests
  <1>3. /\ a \in SearchRequests /\ a.pc = "asked" /\ a.text = text /\ a.chosen = chosen /\ a.sort = sort /\ a.page = page
        /\ a.hidden = blocked /\ a.found = <<>> /\ a.near = {}
    BY <1>1, <1>2 DEF SearchRequests
  <1>4. ask' = IF Plain THEN [a EXCEPT !.left = {"find", "count"}, !.mode = "structured"]
               ELSE [a EXCEPT !.left = {"find", "count", "vector"}, !.mode = "hybrid"]
    <2>1. Structured(a) <=> Plain
      BY <1>3 DEF Structured
    <2> QED
      BY <2>1 DEF Begin
  <1> HIDE DEF a, Plain
  <1>5. /\ ask' \in SearchRequests
        /\ ask'.pc = "asked" /\ ask'.text = text /\ ask'.chosen = chosen /\ ask'.sort = sort /\ ask'.page = page
        /\ ask'.hidden = blocked /\ ask'.near = {} /\ ask'.found = <<>>
        /\ ask'.mode \in {"structured", "hybrid"} /\ {"find", "count"} \subseteq ask'.left
        /\ "vector" \in ask'.left <=> ask'.mode = "hybrid"
        /\ ask'.mode = "structured" <=> Plain
    <2>1. CASE Plain
      <3>1. ask' = [a EXCEPT !.left = {"find", "count"}, !.mode = "structured"]
        BY <1>4, <2>1
      <3> QED
        BY <1>3, <2>1, <3>1 DEF Modes, SearchRequests
    <2>2. CASE ~Plain
      <3>1. ask' = [a EXCEPT !.left = {"find", "count", "vector"}, !.mode = "hybrid"]
        BY <1>4, <2>2
      <3> QED
        BY <1>3, <2>2, <3>1 DEF Modes, SearchRequests
    <2> QED
      BY <2>1, <2>2
  <1>6. pick' = NoPick /\ visible' = Now /\ status' = status /\ blocked' = blocked /\ changesMade' = changesMade
    BY DEF Begin, catalogueVars
  <1>7. pick'.pc = "idle" /\ PickTypes'
    BY <1>1, <1>6 DEF NoPick, PickTypes, PickRecords
  <1>8. Active' = Active /\ visible'.active = Active /\ visible'.open = Vehicles \ blocked
    BY <1>6 DEF Active, Now
  <1>9. OfferTypes'
    <2>1. visible' \in [active : SUBSET Vehicles, open : SUBSET Vehicles]
      BY <1>6 DEF Now, Active
    <2> QED
      BY <1>6, <2>1 DEF OfferTypes, QueriesInv
  <1>10. AskedFor'
    BY <1>5 DEF AskedFor, Structured, Plain
  <1>11. FoundSince'
    <2>1. Elements(ask'.found) = {}
      BY <1>5 DEF Elements
    <2> QED
      BY <1>5, <1>6, <1>7, <1>8, <2>1 DEF FoundSince, Unhidden, SeenAll
  <1> QED
    BY <1>5, <1>7, <1>9, <1>10, <1>11 DEF Plain

\* A search begins without an answer.
LEMMA SearchKeeps ==
  ASSUME QueriesInv, NEW text \in Texts, NEW chosen \in FilterChoices, NEW sort \in Sorts,
         Search(text, chosen, sort)
  PROVE  QueriesInv'
  <1>1. text \in Seq(STRING)
    BY QueriesAssumption
  <1>2. Begin(text, chosen, sort, 1) /\ answer' = NoAnswer /\ readSoFar' = <<>> /\ calm' = TRUE
    BY DEF Search
  <1>3. /\ ask' \in SearchRequests
        /\ ask'.pc = "asked" /\ ask'.page = 1 /\ ask'.hidden = blocked /\ ask'.near = {}
        /\ ask'.mode \in {"structured", "hybrid"} /\ {"find", "count"} \subseteq ask'.left
        /\ "vector" \in ask'.left <=> ask'.mode = "hybrid"
        /\ pick'.pc = "idle" /\ PickTypes' /\ OfferTypes' /\ AskedFor' /\ FoundSince'
    BY <1>1, <1>2, BeginHolds
  <1>4. blocked' = blocked
    BY <1>2 DEF Begin, catalogueVars
  <1>5. answer'.mode = "none"
    BY <1>2 DEF NoAnswer
  <1>6. AskTypes'
    BY <1>2, <1>3 DEF AskTypes, NoAnswer
  <1>7. AskStages'
    BY <1>2, <1>3, <1>5 DEF AskStages
  <1>8. CalmSearch'
    BY <1>3, <1>4, <1>5 DEF CalmSearch
  <1> QED
    BY <1>3, <1>6, <1>7, <1>8, NothingShown DEF QueriesInv

\* The next page: what was read is still the first of the same list.
LEMMA NextResultsKeeps ==
  ASSUME QueriesInv, NextResults
  PROVE  QueriesInv'
  <1>1. /\ ask.text \in Seq(STRING) /\ ask.chosen \in FilterChoices \cup {NoFilters} /\ ask.sort \in Sorts
        /\ ask.page \in Nat \ {0} /\ ask.page + 1 \in Nat \ {0} /\ calm \in BOOLEAN
    BY DEF QueriesInv, AskTypes, SearchRequests, OfferTypes
  <1>2. /\ ask.pc = "answered" /\ Begin(ask.text, ask.chosen, ask.sort, ask.page + 1)
        /\ answer' = answer /\ readSoFar' = readSoFar /\ calm' = calm
    BY DEF NextResults
  <1>3. /\ ask' \in SearchRequests
        /\ ask'.pc = "asked" /\ ask'.text = ask.text /\ ask'.chosen = ask.chosen /\ ask'.sort = ask.sort
        /\ ask'.page = ask.page + 1
        /\ ask'.hidden = blocked /\ ask'.near = {}
        /\ ask'.mode \in {"structured", "hybrid"} /\ {"find", "count"} \subseteq ask'.left
        /\ "vector" \in ask'.left <=> ask'.mode = "hybrid"
        /\ ask'.mode = "structured" <=> (ask.sort # "relevance" \/ AnalyzeSearchQuery(ask.text).intent = <<>>)
        /\ pick'.pc = "idle" /\ PickTypes' /\ OfferTypes' /\ AskedFor' /\ FoundSince'
    <2>1. calm' \in BOOLEAN
      BY <1>1, <1>2
    <2>2. PICK page \in Nat \ {0} : page = ask.page + 1
      BY <1>1
    <2>3. PICK text \in Seq(STRING) : text = ask.text
      BY <1>1
    <2>4. PICK chosen \in FilterChoices \cup {NoFilters} : chosen = ask.chosen
      BY <1>1
    <2>5. PICK sort \in Sorts : sort = ask.sort
      BY <1>1
    <2>6. Begin(text, chosen, sort, page)
      BY <1>2, <2>2, <2>3, <2>4, <2>5
    <2>7. /\ ask' \in SearchRequests
          /\ ask'.pc = "asked" /\ ask'.text = text /\ ask'.chosen = chosen /\ ask'.sort = sort /\ ask'.page = page
          /\ ask'.hidden = blocked /\ ask'.near = {}
          /\ ask'.mode \in {"structured", "hybrid"} /\ {"find", "count"} \subseteq ask'.left
          /\ "vector" \in ask'.left <=> ask'.mode = "hybrid"
          /\ ask'.mode = "structured" <=> (sort # "relevance" \/ AnalyzeSearchQuery(text).intent = <<>>)
          /\ pick'.pc = "idle" /\ PickTypes' /\ OfferTypes' /\ AskedFor' /\ FoundSince'
      BY <2>1, <2>6, BeginHolds
    <2> QED
      BY <2>2, <2>3, <2>4, <2>5, <2>7
  <1>4. blocked' = blocked /\ status' = status
    BY <1>2 DEF Begin, catalogueVars
  <1>5. answer.mode = ask.mode /\ ask.mode # "none" /\ (ask.mode = "structured" <=> ask'.mode = "structured")
    BY <1>2, <1>3 DEF QueriesInv, AskStages, AskedFor, Structured
  <1>6. AskTypes'
    BY <1>2, <1>3 DEF AskTypes, QueriesInv
  <1>7. AskStages'
    BY <1>2, <1>3, <1>5 DEF AskStages
  <1>8. ListNow' = ListNow
    BY <1>2, <1>3, <1>4, SameNow DEF ListNow
  <1>9. PagesRead = ask.page /\ PagesRead' = ask.page
    BY <1>1, <1>2, <1>3 DEF PagesRead
  <1>10. CalmSearch'
    <2> SUFFICES ASSUME calm
                 PROVE  readSoFar' = AtMost(ListNow', PagesRead' * PageLimit) /\ answer'.total = Len(ListNow')
      BY <1>2, <1>3, <1>4 DEF CalmSearch
    <2>1. readSoFar = AtMost(ListNow, PagesRead * PageLimit) /\ answer.total = Len(ListNow)
      BY <1>2, <1>5 DEF QueriesInv, CalmSearch
    <2> QED
      BY <1>2, <1>8, <1>9, <2>1
  <1> QED
    BY <1>3, <1>6, <1>7, <1>10, NothingShown DEF QueriesInv

-----------------------------------------------------------------------------
(* The queries of a search. *)

\* A query moves a search on: what it found was seen and fits, and while nothing changes is what
\* there is.
LEMMA AskMoves ==
  ASSUME QueriesInv, ask.pc = "asked", UNCHANGED <<catalogueVars, answer, readSoFar, pick, visible, calm>>,
         ask' \in SearchRequests, ask'.pc = "asked",
         ask'.text = ask.text, ask'.chosen = ask.chosen, ask'.sort = ask.sort, ask'.page = ask.page,
         ask'.hidden = ask.hidden, ask'.mode # "none", ask'.mode = "structured" <=> ask.mode = "structured",
         "vector" \in ask'.left => ask'.mode = "hybrid",
         "vector" \in ask'.left \/ ask'.mode # "hybrid" => ask'.near = {},
         SeenAll(Elements(ask'.found)), SeenAll(ask'.near), \A v \in Elements(ask'.found) : Fits(v, ask),
         calm => /\ "find" \notin ask'.left =>
                      ask'.found = IF ask.mode = "structured" THEN PageOf(StructuredNow, ask.page) ELSE FoundNow
                 /\ "count" \notin ask'.left => ask'.total = Cardinality(Matching)
                 /\ "vector" \notin ask'.left => ask'.near = IF ask'.mode = "hybrid" THEN NearNow ELSE {}
  PROVE  QueriesInv'
  <1>1. /\ status' = status /\ blocked' = blocked /\ changesMade' = changesMade /\ answer' = answer
        /\ readSoFar' = readSoFar /\ pick' = pick /\ visible' = visible /\ calm' = calm
    BY DEF catalogueVars
  <1>2. /\ Active' = Active /\ FoundNow' = FoundNow /\ NearNow' = NearNow /\ StructuredNow' = StructuredNow
        /\ HybridNow' = HybridNow /\ FallbackNow' = FallbackNow
        /\ \A v : Fits(v, ask)' <=> Fits(v, ask)
    BY <1>1, SameNow
  <1>3. SeenSince' = SeenSince
    BY <1>1 DEF SeenSince
  <1>4. AskTypes' /\ PickTypes' /\ OfferTypes'
    BY <1>1 DEF QueriesInv, AskTypes, PickTypes, OfferTypes
  <1>5. AskedFor'
    BY DEF QueriesInv, AskStages, AskedFor, Structured
  <1>6. AskStages'
    <2>1. /\ pick.pc = "idle" /\ (answer.mode # "none" => (answer.mode = "structured" <=> ask.mode = "structured"))
          /\ answer.mode = "none" => readSoFar = <<>> /\ ask.page = 1
      BY DEF QueriesInv, AskStages
    <2> QED
      BY <1>1, <1>5, <2>1 DEF AskStages
  <1>7. FoundSince'
    <2>1. Active \subseteq visible.active /\ Unhidden(blocked) /\ Unhidden(ask.hidden) /\ pick.pc = "idle"
      BY DEF QueriesInv, FoundSince, AskStages
    <2> QED
      BY <1>1, <1>2, <1>3, <2>1 DEF FoundSince, SeenAll, Unhidden
  <1>8. Matching' = Matching
    BY <1>1, <1>2 DEF Matching, PublicBut, StructuredFilter, Fits
  <1>9. ListNow' = ListNow
    BY <1>1, <1>2 DEF ListNow
  <1>10. PagesRead' = PagesRead
    BY DEF PagesRead
  <1>11. CalmSearch'
    <2> SUFFICES ASSUME calm
                 PROVE  /\ ask'.hidden = blocked'
                        /\ "find" \notin ask'.left =>
                             ask'.found = IF ask'.mode = "structured" THEN PageOf(StructuredNow', ask'.page) ELSE FoundNow'
                        /\ "count" \notin ask'.left => ask'.total = Cardinality(Matching')
                        /\ "vector" \notin ask'.left => ask'.near = IF ask'.mode = "hybrid" THEN NearNow' ELSE {}
                        /\ answer'.mode # "none" =>
                             readSoFar' = AtMost(ListNow', PagesRead' * PageLimit) /\ answer'.total = Len(ListNow')
      BY <1>1 DEF CalmSearch, PageOf
    <2>1. /\ ask.hidden = blocked
          /\ answer.mode # "none" => readSoFar = AtMost(ListNow, PagesRead * PageLimit) /\ answer.total = Len(ListNow)
      BY DEF QueriesInv, CalmSearch
    <2>2. "find" \notin ask'.left =>
            ask'.found = IF ask'.mode = "structured" THEN PageOf(StructuredNow', ask'.page) ELSE FoundNow'
      BY <1>2
    <2>3. "count" \notin ask'.left => ask'.total = Cardinality(Matching')
      BY <1>8
    <2>4. "vector" \notin ask'.left => ask'.near = IF ask'.mode = "hybrid" THEN NearNow' ELSE {}
      BY <1>2
    <2> QED
      BY <1>1, <1>9, <1>10, <2>1, <2>2, <2>3, <2>4
  <1>12. pick'.pc = "idle"
    BY <1>1 DEF QueriesInv, AskStages
  <1> QED
    BY <1>4, <1>6, <1>7, <1>11, <1>12, NothingShown DEF QueriesInv

\* What a running search has so far.
LEMMA Asking ==
  ASSUME QueriesInv, ask.pc = "asked"
  PROVE  /\ ask \in SearchRequests /\ ask.mode # "none"
         /\ "vector" \in ask.left => ask.mode = "hybrid"
         /\ "vector" \in ask.left \/ ask.mode # "hybrid" => ask.near = {}
         /\ SeenAll(Elements(ask.found)) /\ SeenAll(ask.near) /\ \A v \in Elements(ask.found) : Fits(v, ask)
         /\ Active \subseteq visible.active /\ Unhidden(blocked) /\ Unhidden(ask.hidden)
         /\ calm => /\ ask.hidden = blocked
                    /\ "find" \notin ask.left =>
                         ask.found = IF ask.mode = "structured" THEN PageOf(StructuredNow, ask.page) ELSE FoundNow
                    /\ "count" \notin ask.left => ask.total = Cardinality(Matching)
                    /\ "vector" \notin ask.left => ask.near = IF ask.mode = "hybrid" THEN NearNow ELSE {}
  BY DEF QueriesInv, AskTypes, AskStages, AskedFor, FoundSince, CalmSearch

\* What a query of listings can match, and what that is while nothing changes.
LEMMA MatchingIs ==
  /\ Matching \in SUBSET {v \in Active \ ask.hidden : Fits(v, ask)} /\ Matching \in SUBSET Vehicles
  /\ ask.hidden = blocked =>
       Matching = IF ask.mode = "structured" THEN {v \in Public : StructuredFilter(v, ask)} ELSE {v \in Public : Fits(v, ask)}
  BY DEF Matching, PublicBut, Public, Active, StructuredFilter

\* The query of listings.
LEMMA FindListingsKeeps ==
  ASSUME QueriesInv, FindListings
  PROVE  QueriesInv'
  <1> DEFINE result == IF ask.mode = "structured" THEN PageOf(SortedBy(Matching, ask.sort), ask.page)
                       ELSE Newest(Matching, CandidateLimit)
  <1>1. ask.pc = "asked" /\ ask' = [ask EXCEPT !.left = @ \ {"find"}, !.found = result]
    BY DEF FindListings, Waits
  <1>2. ask \in SearchRequests
    BY <1>1, Asking
  <1>3. result \in Seq(Vehicles) /\ Elements(result) \subseteq Matching
    <2>1. CASE ask.mode = "structured"
      <3>1. SortedBy(Matching, ask.sort) \in Seq(Vehicles) /\ Elements(SortedBy(Matching, ask.sort)) = Matching
        BY MatchingIs, SortedOf
      <3>2. ask.page \in Nat \ {0}
        BY <1>2 DEF SearchRequests
      <3>3. /\ PageOf(SortedBy(Matching, ask.sort), ask.page) \in Seq(Vehicles)
            /\ Elements(PageOf(SortedBy(Matching, ask.sort), ask.page)) \subseteq Matching
        BY <3>1, <3>2, PagesJoin
      <3> QED
        BY <2>1, <3>3
    <2>2. CASE ask.mode # "structured"
      <3>1. CandidateLimit \in Nat \ {0}
        BY QueriesAssumption
      <3>2. Newest(Matching, CandidateLimit) \in Seq(Vehicles) /\ Elements(Newest(Matching, CandidateLimit)) \subseteq Matching
        BY <3>1, MatchingIs, NewestOf
      <3> QED
        BY <2>2, <3>2
    <2> QED
      BY <2>1, <2>2
  <1>4. calm => result = IF ask.mode = "structured" THEN PageOf(StructuredNow, ask.page) ELSE FoundNow
    <2> SUFFICES ASSUME calm
                 PROVE  result = IF ask.mode = "structured" THEN PageOf(StructuredNow, ask.page) ELSE FoundNow
      OBVIOUS
    <2>1. ask.hidden = blocked
      BY <1>1, Asking
    <2>2. CASE ask.mode = "structured"
      <3>1. Matching = {v \in Public : StructuredFilter(v, ask)}
        BY <2>1, <2>2, MatchingIs
      <3> QED
        BY <2>2, <3>1 DEF StructuredNow
    <2>3. CASE ask.mode # "structured"
      <3>1. Matching = {v \in Public : Fits(v, ask)}
        BY <2>1, <2>3, MatchingIs
      <3> QED
        BY <2>3, <3>1 DEF FoundNow
    <2> QED
      BY <2>2, <2>3
  <1> HIDE DEF result
  <1>5. /\ ask' \in SearchRequests /\ ask'.pc = "asked"
        /\ ask'.text = ask.text /\ ask'.chosen = ask.chosen /\ ask'.sort = ask.sort /\ ask'.page = ask.page
        /\ ask'.hidden = ask.hidden /\ ask'.mode = ask.mode /\ ask'.left = ask.left \ {"find"} /\ ask'.found = result
        /\ ask'.total = ask.total /\ ask'.near = ask.near
    BY <1>1, <1>2, <1>3 DEF SearchRequests
  <1>6. SeenAll(Elements(result)) /\ \A v \in Elements(result) : Fits(v, ask)
    <2>1. Active \subseteq visible.active /\ Vehicles \ ask.hidden \subseteq visible.open
      BY <1>1, Asking DEF Unhidden
    <2>2. Active \subseteq Vehicles
      BY DEF Active
    <2> QED
      BY <1>3, <2>1, <2>2, MatchingIs DEF SeenAll, SeenSince
  <1>7. UNCHANGED <<catalogueVars, answer, readSoFar, pick, visible, calm>>
    BY DEF FindListings
  <1>8. /\ ask.mode # "none" /\ ("vector" \in ask.left => ask.mode = "hybrid")
        /\ "vector" \in ask.left \/ ask.mode # "hybrid" => ask.near = {}
        /\ SeenAll(ask.near)
        /\ calm => /\ "count" \notin ask.left => ask.total = Cardinality(Matching)
                   /\ "vector" \notin ask.left => ask.near = IF ask.mode = "hybrid" THEN NearNow ELSE {}
    BY <1>1, Asking
  <1> QED
    BY <1>1, <1>4, <1>5, <1>6, <1>7, <1>8, AskMoves

\* The count.
LEMMA CountListingsKeeps ==
  ASSUME QueriesInv, CountListings
  PROVE  QueriesInv'
  <1>1. ask.pc = "asked" /\ ask' = [ask EXCEPT !.left = @ \ {"count"}, !.total = Cardinality(Matching)]
    BY DEF CountListings, Waits
  <1>2. ask \in SearchRequests
    BY <1>1, Asking
  <1>3. Cardinality(Matching) \in Nat
    BY MatchingIs, VehiclesAreFinite
  <1>4. /\ ask' \in SearchRequests /\ ask'.pc = "asked"
        /\ ask'.text = ask.text /\ ask'.chosen = ask.chosen /\ ask'.sort = ask.sort /\ ask'.page = ask.page
        /\ ask'.hidden = ask.hidden /\ ask'.mode = ask.mode /\ ask'.left = ask.left \ {"count"} /\ ask'.found = ask.found
        /\ ask'.total = Cardinality(Matching) /\ ask'.near = ask.near
    BY <1>1, <1>2, <1>3 DEF SearchRequests
  <1>5. UNCHANGED <<catalogueVars, answer, readSoFar, pick, visible, calm>>
    BY DEF CountListings
  <1>6. /\ ask.mode # "none" /\ ("vector" \in ask.left => ask.mode = "hybrid")
        /\ "vector" \in ask.left \/ ask.mode # "hybrid" => ask.near = {}
        /\ SeenAll(Elements(ask.found)) /\ SeenAll(ask.near) /\ \A v \in Elements(ask.found) : Fits(v, ask)
        /\ calm => /\ "find" \notin ask.left =>
                        ask.found = IF ask.mode = "structured" THEN PageOf(StructuredNow, ask.page) ELSE FoundNow
                   /\ "vector" \notin ask.left => ask.near = IF ask.mode = "hybrid" THEN NearNow ELSE {}
    BY <1>1, Asking
  <1> QED
    BY <1>1, <1>4, <1>5, <1>6, AskMoves

\* The vector search, whenever it read who is hidden.
LEMMA ListVectorCandidatesKeeps ==
  ASSUME QueriesInv, ListVectorCandidates
  PROVE  QueriesInv'
  <1> DEFINE found == Elements(Nearest(Filters(ask.text, ask.chosen)))
  <1>1. PICK hidden \in {ask.hidden, blocked} : ask' = [ask EXCEPT !.left = @ \ {"vector"}, !.near = found \ hidden]
    BY DEF ListVectorCandidates
  <1>2. ask.pc = "asked" /\ "vector" \in ask.left
    BY DEF ListVectorCandidates, Waits
  <1>3. ask \in SearchRequests
    BY <1>2, Asking
  <1>4. found \subseteq Active /\ found \ hidden \in SUBSET Vehicles
    BY NearestOf DEF Active
  <1>5. calm => found \ hidden = NearNow
    BY <1>2, <1>1, Asking DEF NearNow
  <1> HIDE DEF found
  <1>6. /\ ask' \in SearchRequests /\ ask'.pc = "asked"
        /\ ask'.text = ask.text /\ ask'.chosen = ask.chosen /\ ask'.sort = ask.sort /\ ask'.page = ask.page
        /\ ask'.hidden = ask.hidden /\ ask'.mode = ask.mode /\ ask'.left = ask.left \ {"vector"} /\ ask'.found = ask.found
        /\ ask'.total = ask.total /\ ask'.near = found \ hidden
    BY <1>2, <1>1, <1>3, <1>4 DEF SearchRequests
  <1>7. SeenAll(found \ hidden)
    <2>1. Active \subseteq visible.active /\ Vehicles \ hidden \subseteq visible.open
      BY <1>2, <1>1, Asking DEF Unhidden
    <2> QED
      BY <1>4, <2>1 DEF SeenAll, SeenSince
  <1>8. UNCHANGED <<catalogueVars, answer, readSoFar, pick, visible, calm>>
    BY DEF ListVectorCandidates
  <1>9. /\ ask.mode = "hybrid"
        /\ SeenAll(Elements(ask.found)) /\ \A v \in Elements(ask.found) : Fits(v, ask)
        /\ calm => /\ "find" \notin ask.left =>
                        ask.found = IF ask.mode = "structured" THEN PageOf(StructuredNow, ask.page) ELSE FoundNow
                   /\ "count" \notin ask.left => ask.total = Cardinality(Matching)
    BY <1>2, Asking
  <1> QED
    BY <1>2, <1>5, <1>6, <1>7, <1>8, <1>9, AskMoves

\* The vector search fails.
LEMMA VectorFailsKeeps ==
  ASSUME QueriesInv, VectorFails
  PROVE  QueriesInv'
  <1>1. /\ ask.pc = "asked" /\ "vector" \in ask.left
        /\ ask' = [ask EXCEPT !.left = @ \ {"vector"}, !.mode = "lexical-fallback"]
    BY DEF VectorFails, Waits
  <1>2. ask \in SearchRequests
    BY <1>1, Asking
  <1>3. /\ ask' \in SearchRequests /\ ask'.pc = "asked"
        /\ ask'.text = ask.text /\ ask'.chosen = ask.chosen /\ ask'.sort = ask.sort /\ ask'.page = ask.page
        /\ ask'.hidden = ask.hidden /\ ask'.mode = "lexical-fallback" /\ ask'.left = ask.left \ {"vector"}
        /\ ask'.found = ask.found /\ ask'.total = ask.total /\ ask'.near = ask.near
    BY <1>1, <1>2 DEF SearchRequests, Modes
  <1>4. UNCHANGED <<catalogueVars, answer, readSoFar, pick, visible, calm>>
    BY DEF VectorFails
  <1>5. /\ ask.mode = "hybrid" /\ ask.near = {}
        /\ SeenAll(Elements(ask.found)) /\ SeenAll(ask.near) /\ \A v \in Elements(ask.found) : Fits(v, ask)
        /\ calm => /\ "find" \notin ask.left =>
                        ask.found = IF ask.mode = "structured" THEN PageOf(StructuredNow, ask.page) ELSE FoundNow
                   /\ "count" \notin ask.left => ask.total = Cardinality(Matching)
    BY <1>1, Asking
  <1> QED
    BY <1>1, <1>3, <1>4, <1>5, AskMoves

-----------------------------------------------------------------------------
(* The answer to a search. *)

\* The first page of a list has no other before it.
LEMMA FirstPage ==
  ASSUME NEW S, NEW s \in Seq(S)
  PROVE  AtMost(s, (1 - 1) * PageLimit) = <<>>
  <1>1. PICK zero \in Nat : zero = (1 - 1) * PageLimit /\ zero = 0
    BY QueriesAssumption
  <1>2. AtMost(s, zero) \in Seq(S) /\ (zero <= Len(s) => Len(AtMost(s, zero)) = zero)
    BY FirstOfList
  <1>3. zero <= Len(s)
    BY <1>1
  <1> QED
    BY <1>1, <1>2, <1>3

\* The ranking of a search, the page of it that is shown, and how many it says there are.
LEMMA RankingAnswers ==
  ASSUME QueriesInv, ask.pc = "asked", ask.left = {}, ask.mode # "structured"
  PROVE  /\ Ranked(ask) \in Seq(Vehicles) /\ Len(Ranked(ask)) \in Nat /\ Total \in Nat /\ Total <= Len(Ranked(ask))
         /\ Elements(Ranked(ask)) = Merged(ask)
         /\ SeenAll(Merged(ask)) /\ \A v \in Merged(ask) : Fits(v, ask)
         /\ calm => /\ Total = Len(Ranked(ask))
                    /\ Ranked(ask) = IF ask.mode = "hybrid" THEN HybridNow ELSE FallbackNow
  <1>1. /\ ask \in SearchRequests /\ SeenAll(Elements(ask.found)) /\ SeenAll(ask.near)
        /\ \A v \in Elements(ask.found) : Fits(v, ask)
        /\ calm => /\ ask.hidden = blocked /\ ask.found = FoundNow /\ ask.total = Cardinality(Matching)
                   /\ ask.near = IF ask.mode = "hybrid" THEN NearNow ELSE {}
    BY Asking
  <1>2. /\ ask.text \in Seq(STRING) /\ ask.found \in Seq(Vehicles) /\ ask.near \in SUBSET Vehicles /\ ask.total \in Nat
    BY <1>1 DEF SearchRequests
  <1>3. /\ Merged(ask) \in SUBSET Vehicles /\ Ranked(ask) \in Seq(Vehicles)
        /\ Len(Ranked(ask)) = Cardinality(Merged(ask)) /\ Elements(Ranked(ask)) = Merged(ask)
    BY <1>2, RankedOf
  <1>4. PICK len \in Nat : len = Len(Ranked(ask))
    BY <1>3
  <1>5. PICK total \in Nat : total = ask.total
    BY <1>2
  <1>6. (total < len => Total = total) /\ (~(total < len) => Total = len)
    BY <1>4, <1>5 DEF Total
  <1>7. SeenAll(Merged(ask)) /\ \A v \in Merged(ask) : Fits(v, ask)
    BY <1>1 DEF Merged, SeenAll
  <1>8. ASSUME calm
        PROVE  len <= total
    <2>1. Matching = {v \in Public : Fits(v, ask)}
      BY <1>1, <1>8, MatchingIs
    <2>2. Matching \in SUBSET Vehicles /\ IsFiniteSet(Matching)
      BY MatchingIs, VehiclesAreFinite
    <2>3. Elements(ask.found) \subseteq Matching
      <3>1. Elements(FoundNow) \subseteq {v \in Public : Fits(v, ask)}
        <4>1. CandidateLimit \in Nat \ {0}
          BY QueriesAssumption
        <4>2. {v \in Public : Fits(v, ask)} \in SUBSET Vehicles
          BY <2>1, <2>2
        <4> QED
          BY <4>1, <4>2, NewestOf DEF FoundNow
      <3> QED
        BY <1>1, <1>8, <2>1, <3>1
    <2>4. ask.near \subseteq Public
      <3>1. NearNow \subseteq Public
        BY NearestOf DEF NearNow, Public, PublicBut
      <3> QED
        BY <1>1, <1>8, <3>1
    <2>5. Merged(ask) \subseteq Matching
      BY <2>1, <2>3, <2>4 DEF Merged
    <2>6. Cardinality(Merged(ask)) <= Cardinality(Matching)
      BY <2>2, <2>5, FS_Subset
    <2> QED
      BY <1>1, <1>3, <1>4, <1>5, <1>8, <2>6
  <1>9. ASSUME calm
        PROVE  Ranked(ask) = IF ask.mode = "hybrid" THEN HybridNow ELSE FallbackNow
    <2>1. CASE ask.mode = "hybrid"
      <3>1. PICK b : b = [text |-> ask.text, chosen |-> ask.chosen, found |-> FoundNow, near |-> NearNow]
        OBVIOUS
      <3>2. b.text = ask.text /\ b.chosen = ask.chosen /\ b.found = ask.found /\ b.near = ask.near
        BY <1>1, <1>9, <2>1, <3>1
      <3>3. Ranked(ask) = Ranked(b)
        BY <3>2, SameRanking
      <3>4. Ranked(b) = HybridNow
        BY <3>1 DEF HybridNow, RankedNow
      <3> QED
        BY <2>1, <3>3, <3>4
    <2>2. CASE ask.mode # "hybrid"
      <3>1. PICK b : b = [text |-> ask.text, chosen |-> ask.chosen, found |-> FoundNow, near |-> {}]
        OBVIOUS
      <3>2. b.text = ask.text /\ b.chosen = ask.chosen /\ b.found = ask.found /\ b.near = ask.near
        BY <1>1, <1>9, <2>2, <3>1
      <3>3. Ranked(ask) = Ranked(b)
        BY <3>2, SameRanking
      <3>4. Ranked(b) = FallbackNow
        BY <3>1 DEF FallbackNow, RankedNow
      <3> QED
        BY <2>2, <3>3, <3>4
    <2> QED
      BY <2>1, <2>2
  <1>10. Len(Ranked(ask)) \in Nat /\ Total \in Nat /\ Total <= Len(Ranked(ask))
    BY <1>4, <1>5, <1>6
  <1>11. calm => Total = Len(Ranked(ask))
    BY <1>4, <1>5, <1>6, <1>8
  <1> QED
    BY <1>3, <1>7, <1>9, <1>10, <1>11

\* Of a search by the structured filters.
LEMMA SortingAnswers ==
  ASSUME QueriesInv, ask.pc = "asked", ask.left = {}, ask.mode = "structured"
  PROVE  /\ StructuredNow \in Seq(Vehicles) /\ Len(StructuredNow) \in Nat
         /\ ask.found \in Seq(Vehicles) /\ ask.total \in Nat
         /\ SeenAll(Elements(ask.found)) /\ \A v \in Elements(ask.found) : Fits(v, ask)
         /\ calm => ask.found = PageOf(StructuredNow, ask.page) /\ ask.total = Len(StructuredNow)
  <1>1. /\ ask \in SearchRequests /\ SeenAll(Elements(ask.found)) /\ \A v \in Elements(ask.found) : Fits(v, ask)
        /\ calm => /\ ask.hidden = blocked /\ ask.found = PageOf(StructuredNow, ask.page)
                   /\ ask.total = Cardinality(Matching)
    BY Asking
  <1>2. {v \in Public : StructuredFilter(v, ask)} \in SUBSET Vehicles
    BY DEF Public, PublicBut, Active
  <1>3. /\ StructuredNow \in Seq(Vehicles)
        /\ Len(StructuredNow) = Cardinality({v \in Public : StructuredFilter(v, ask)})
    BY <1>2, SortedOf DEF StructuredNow
  <1>4. calm => Matching = {v \in Public : StructuredFilter(v, ask)}
    BY <1>1, MatchingIs
  <1>5. ask.found \in Seq(Vehicles) /\ ask.total \in Nat
    BY <1>1 DEF SearchRequests
  <1>6. Len(StructuredNow) \in Nat
    BY <1>3
  <1> QED
    BY <1>1, <1>3, <1>4, <1>5, <1>6

\* What an answer shows fits, was seen, is the page of the list that there is while nothing changes,
\* and is not empty before the end.
LEMMA AnswersShow ==
  ASSUME QueriesInv, Answers
  PROVE  /\ answer' \in [shown : Seq(Vehicles), total : Nat, mode : Modes \cup {"none"}] /\ answer'.mode = ask.mode
         /\ SeenAll(Elements(answer'.shown)) /\ \A v \in Elements(answer'.shown) : Fits(v, ask)
         /\ calm => \E list \in Seq(Vehicles) :
              /\ list = IF ask.mode = "structured" THEN StructuredNow
                        ELSE IF ask.mode = "hybrid" THEN HybridNow ELSE FallbackNow
              /\ answer'.shown = PageOf(list, ask.page) /\ answer'.total = Len(list)
         /\ calm \/ ask.mode # "structured" =>
              (ask.page <= (answer'.total + PageLimit - 1) \div PageLimit => answer'.shown # <<>>)
  <1>1. ask.pc = "asked" /\ ask.left = {}
    BY DEF Answers
  <1>2. ask \in SearchRequests /\ ask.mode # "none" /\ ask.page \in Nat \ {0} /\ ask.mode \in Modes
    BY <1>1, Asking DEF SearchRequests
  <1>3. CASE ask.mode = "structured"
    <2>1. answer' = [shown |-> ask.found, total |-> ask.total, mode |-> ask.mode]
      BY <1>3 DEF Answers
    <2>2. answer'.shown = ask.found /\ answer'.total = ask.total /\ answer'.mode = ask.mode
      BY <2>1
    <2>3. /\ StructuredNow \in Seq(Vehicles) /\ Len(StructuredNow) \in Nat
          /\ ask.found \in Seq(Vehicles) /\ ask.total \in Nat
          /\ SeenAll(Elements(ask.found)) /\ \A v \in Elements(ask.found) : Fits(v, ask)
          /\ calm => ask.found = PageOf(StructuredNow, ask.page) /\ ask.total = Len(StructuredNow)
      BY <1>1, <1>3, SortingAnswers
    <2>4. answer' \in [shown : Seq(Vehicles), total : Nat, mode : Modes \cup {"none"}]
      BY <1>2, <2>1, <2>3
    <2>5. calm => (ask.page <= (answer'.total + PageLimit - 1) \div PageLimit => answer'.shown # <<>>)
      <3>1. ask.page <= (ask.total + PageLimit - 1) \div PageLimit => (ask.page - 1) * PageLimit < ask.total
        BY <1>2, <2>3, PagesEnd
      <3>2. (ask.page - 1) * PageLimit < Len(StructuredNow) => PageOf(StructuredNow, ask.page) # <<>>
        BY <1>2, <2>3, PagesJoin
      <3> QED
        BY <2>2, <2>3, <3>1, <3>2
    <2> QED
      BY <1>3, <2>2, <2>3, <2>4, <2>5
  <1>4. CASE ask.mode # "structured"
    <2>1. answer' = [shown |-> PageOf(Ranked(ask), ask.page), total |-> Total, mode |-> ask.mode]
      BY <1>4 DEF Answers
    <2>2. answer'.shown = PageOf(Ranked(ask), ask.page) /\ answer'.total = Total /\ answer'.mode = ask.mode
      BY <2>1
    <2>3. /\ Ranked(ask) \in Seq(Vehicles) /\ Len(Ranked(ask)) \in Nat /\ Total \in Nat /\ Total <= Len(Ranked(ask))
          /\ Elements(Ranked(ask)) = Merged(ask)
          /\ SeenAll(Merged(ask)) /\ \A v \in Merged(ask) : Fits(v, ask)
          /\ calm => /\ Total = Len(Ranked(ask))
                     /\ Ranked(ask) = IF ask.mode = "hybrid" THEN HybridNow ELSE FallbackNow
      BY <1>1, <1>4, RankingAnswers
    <2>4. /\ PageOf(Ranked(ask), ask.page) \in Seq(Vehicles)
          /\ Elements(PageOf(Ranked(ask), ask.page)) \subseteq Merged(ask)
          /\ (ask.page - 1) * PageLimit < Len(Ranked(ask)) => PageOf(Ranked(ask), ask.page) # <<>>
      <3>1. PICK list \in Seq(Vehicles) : list = Ranked(ask)
        BY <2>3
      <3>2. PICK page \in Nat \ {0} : page = ask.page
        BY <1>2
      <3>3. /\ PageOf(list, page) \in Seq(Vehicles) /\ Elements(PageOf(list, page)) \subseteq Elements(list)
            /\ (page - 1) * PageLimit < Len(list) => PageOf(list, page) # <<>>
        BY PagesJoin
      <3> QED
        BY <2>3, <3>1, <3>2, <3>3
    <2>5. answer' \in [shown : Seq(Vehicles), total : Nat, mode : Modes \cup {"none"}]
      BY <1>2, <2>1, <2>3, <2>4
    <2>6. SeenAll(Elements(answer'.shown)) /\ \A v \in Elements(answer'.shown) : Fits(v, ask)
      BY <2>2, <2>3, <2>4 DEF SeenAll
    <2>7. ask.page <= (answer'.total + PageLimit - 1) \div PageLimit => answer'.shown # <<>>
      <3>1. ask.page <= (Total + PageLimit - 1) \div PageLimit => (ask.page - 1) * PageLimit < Total
        BY <1>2, <2>3, PagesEnd
      <3>2. (ask.page - 1) * PageLimit \in Nat
        BY <1>2, PagesBefore
      <3>3. (ask.page - 1) * PageLimit < Total => (ask.page - 1) * PageLimit < Len(Ranked(ask))
        BY <2>3, <3>2
      <3> QED
        BY <2>2, <2>4, <3>1, <3>3
    <2> QED
      BY <1>4, <2>2, <2>3, <2>5, <2>6, <2>7
  <1> QED
    BY <1>3, <1>4

\* An answer keeps it all.
LEMMA AnswersKeeps ==
  ASSUME QueriesInv, Answers
  PROVE  QueriesInv'
  <1>1. /\ ask.pc = "asked" /\ ask.left = {} /\ ask' = [ask EXCEPT !.pc = "answered"]
        /\ readSoFar' = readSoFar \o answer'.shown
        /\ calm' = (calm /\ answer.mode \in {"none", ask.mode})
    BY DEF Answers
  <1>2. /\ status' = status /\ blocked' = blocked /\ changesMade' = changesMade /\ pick' = pick /\ visible' = visible
    BY DEF Answers, catalogueVars
  <1>3. /\ ask \in SearchRequests /\ ask.mode # "none" /\ pick.pc = "idle"
    BY <1>1, Asking DEF QueriesInv, AskStages
  <1>4. /\ ask' \in SearchRequests /\ ask'.pc = "answered" /\ ask'.text = ask.text /\ ask'.chosen = ask.chosen
        /\ ask'.sort = ask.sort /\ ask'.page = ask.page /\ ask'.hidden = ask.hidden /\ ask'.left = {}
        /\ ask'.mode = ask.mode /\ ask'.found = ask.found /\ ask'.total = ask.total /\ ask'.near = ask.near
    BY <1>1, <1>3 DEF SearchRequests
  <1>5. /\ Active' = Active /\ FoundNow' = FoundNow /\ NearNow' = NearNow /\ StructuredNow' = StructuredNow
        /\ HybridNow' = HybridNow /\ FallbackNow' = FallbackNow
        /\ \A v : Fits(v, ask)' <=> Fits(v, ask)
    BY <1>2, <1>4, SameNow
  <1>6. SeenSince' = SeenSince
    BY <1>2 DEF SeenSince
  <1>7. /\ answer' \in [shown : Seq(Vehicles), total : Nat, mode : Modes \cup {"none"}] /\ answer'.mode = ask.mode
        /\ SeenAll(Elements(answer'.shown)) /\ \A v \in Elements(answer'.shown) : Fits(v, ask)
        /\ calm \/ ask.mode # "structured" =>
             (ask.page <= (answer'.total + PageLimit - 1) \div PageLimit => answer'.shown # <<>>)
    BY AnswersShow
  <1>8. AskTypes' /\ PickTypes' /\ OfferTypes'
    <2>1. AskTypes'
      <3>1. readSoFar \in Seq(Vehicles) /\ answer'.shown \in Seq(Vehicles)
        BY <1>7 DEF QueriesInv, AskTypes
      <3>2. readSoFar' \in Seq(Vehicles)
        BY <1>1, <3>1, ConcatProperties
      <3> QED
        BY <1>4, <1>7, <3>2 DEF AskTypes
    <2>2. calm' \in BOOLEAN
      BY <1>1
    <2> QED
      BY <1>2, <2>1, <2>2 DEF QueriesInv, PickTypes, OfferTypes
  <1>9. AskStages'
    <2>1. AskedFor' /\ (ask.mode # "hybrid" => ask.near = {})
      BY <1>1, <1>4 DEF QueriesInv, AskStages, AskedFor, Structured
    <2> QED
      BY <1>2, <1>3, <1>4, <1>7, <2>1 DEF AskStages
  <1>10. FoundSince'
    <2>1. /\ Active \subseteq visible.active /\ Unhidden(blocked) /\ Unhidden(ask.hidden) /\ SeenAll(Elements(ask.found))
          /\ SeenAll(ask.near) /\ \A v \in Elements(ask.found) : Fits(v, ask)
      BY <1>1, Asking
    <2> QED
      BY <1>2, <1>3, <1>4, <1>5, <1>6, <2>1 DEF FoundSince, SeenAll, Unhidden
  <1>11. CalmSearch'
    <2> SUFFICES ASSUME calm'
                 PROVE  CalmSearch'
      BY DEF CalmSearch
    <2>1. calm /\ answer.mode \in {"none", ask.mode}
      BY <1>1
    <2>2. PICK list \in Seq(Vehicles) :
            /\ list = IF ask.mode = "structured" THEN StructuredNow
                      ELSE IF ask.mode = "hybrid" THEN HybridNow ELSE FallbackNow
            /\ answer'.shown = PageOf(list, ask.page) /\ answer'.total = Len(list)
      BY <2>1, AnswersShow
    <2>3. ListNow' = list
      BY <1>5, <1>7, <2>2 DEF ListNow
    <2>4. readSoFar = AtMost(list, (ask.page - 1) * PageLimit)
      <3>1. CASE answer.mode = "none"
        <4>1. readSoFar = <<>> /\ ask.page = 1
          BY <1>1, <3>1 DEF QueriesInv, AskStages
        <4>2. AtMost(list, (1 - 1) * PageLimit) = <<>>
          BY FirstPage
        <4> QED
          BY <4>1, <4>2
      <3>2. CASE answer.mode = ask.mode
        <4>1. readSoFar = AtMost(ListNow, PagesRead * PageLimit)
          BY <1>1, <1>3, <2>1, <3>2 DEF QueriesInv, CalmSearch
        <4>2. ListNow = list
          BY <2>2, <3>2 DEF ListNow
        <4>3. PagesRead = ask.page - 1
          BY <1>1 DEF PagesRead
        <4> QED
          BY <4>1, <4>2, <4>3
      <3> QED
        BY <2>1, <3>1, <3>2
    <2>5. ask.page \in Nat \ {0}
      BY <1>3 DEF SearchRequests
    <2>6. readSoFar' = AtMost(list, ask.page * PageLimit)
      <3>1. AtMost(list, (ask.page - 1) * PageLimit) \o PageOf(list, ask.page) = AtMost(list, ask.page * PageLimit)
        BY <2>5, PagesJoin
      <3> QED
        BY <1>1, <2>2, <2>4, <3>1
    <2>7. PagesRead' = ask.page
      BY <1>4 DEF PagesRead
    <2>8. /\ ask.hidden = blocked
          /\ ask.found = IF ask.mode = "structured" THEN PageOf(StructuredNow, ask.page) ELSE FoundNow
          /\ ask.total = Cardinality(Matching) /\ ask.near = IF ask.mode = "hybrid" THEN NearNow ELSE {}
      BY <1>1, <2>1, Asking
    <2>9. Matching' = Matching
      BY <1>4, <1>5 DEF Matching, PublicBut, StructuredFilter, Fits
    <2>10. ask'.found = IF ask'.mode = "structured" THEN PageOf(StructuredNow', ask'.page) ELSE FoundNow'
      BY <1>4, <1>5, <2>8
    <2>11. ask'.near = IF ask'.mode = "hybrid" THEN NearNow' ELSE {}
      BY <1>4, <1>5, <2>8
    <2>12. ask'.hidden = blocked' /\ ask'.total = Cardinality(Matching')
      BY <1>2, <1>4, <2>8, <2>9
    <2>13. readSoFar' = AtMost(ListNow', PagesRead' * PageLimit) /\ answer'.total = Len(ListNow')
      BY <2>2, <2>3, <2>6, <2>7
    <2> QED
      BY <2>10, <2>11, <2>12, <2>13 DEF CalmSearch, PageOf
  <1>12. CalmPick' /\ PicksAreSound'
    BY <1>2, <1>3 DEF CalmPick, PicksAreSound
  <1>13. NoEmptyPage'
    <2>1. TotalPages' = (answer'.total + PageLimit - 1) \div PageLimit
      BY DEF TotalPages
    <2> QED
      BY <1>1, <1>4, <1>7, <2>1 DEF NoEmptyPage
  <1>14. ShownIsPublic'
    BY <1>2, <1>3, <1>5, <1>6, <1>7 DEF ShownIsPublic, SeenAll
  <1> QED
    BY <1>8, <1>9, <1>10, <1>11, <1>12, <1>13, <1>14 DEF QueriesInv

-----------------------------------------------------------------------------
(* Recommendations. *)

\* Two lists with nothing in common make a list without repetition.
LEMMA OnceJoins ==
  ASSUME NEW S, NEW s \in Seq(S), NEW t \in Seq(S), Once(s), Once(t), Elements(s) \cap Elements(t) = {}
  PROVE  s \o t \in Seq(S) /\ Once(s \o t) /\ Elements(s \o t) = Elements(s) \cup Elements(t)
  <1>1. PICK m \in Nat : m = Len(s) /\ DOMAIN s = 1..m
    OBVIOUS
  <1>2. PICK n \in Nat : n = Len(t) /\ DOMAIN t = 1..n
    OBVIOUS
  <1>3. PICK st : st = s \o t
    OBVIOUS
  <1>4. /\ st \in Seq(S) /\ Len(st) = m + n
        /\ \A i \in 1..m : st[i] = s[i]
        /\ \A i \in 1..(m + n) : i > m => st[i] = t[i - m]
    BY <1>1, <1>2, <1>3, ConcatProperties
  <1>5. DOMAIN st = 1..(m + n)
    BY <1>4
  <1>6. \A i \in 1..(m + n) : (i <= m => i \in 1..m) /\ (i > m => i - m \in 1..n)
    BY <1>1, <1>2
  <1>7. \A i \in 1..m : s[i] \in Elements(s)
    BY <1>1 DEF Elements
  <1>8. \A i \in 1..n : t[i] \in Elements(t)
    BY <1>2 DEF Elements
  <1>9. Once(st)
    <2> SUFFICES ASSUME NEW i \in 1..(m + n), NEW j \in 1..(m + n), st[i] = st[j]
                 PROVE  i = j
      BY <1>5 DEF Once
    <2>1. CASE i <= m /\ j <= m
      BY <1>1, <1>4, <1>6, <2>1 DEF Once
    <2>2. CASE i > m /\ j > m
      <3>1. t[i - m] = t[j - m] /\ i - m \in 1..n /\ j - m \in 1..n
        BY <1>4, <1>6, <2>2
      <3>2. i - m = j - m
        BY <1>2, <3>1 DEF Once
      <3> QED
        BY <1>1, <3>2
    <2>3. CASE i <= m /\ j > m
      BY <1>4, <1>6, <1>7, <1>8, <2>3
    <2>4. CASE i > m /\ j <= m
      BY <1>4, <1>6, <1>7, <1>8, <2>4
    <2> QED
      BY <1>1, <2>1, <2>2, <2>3, <2>4
  <1>10. Elements(st) \subseteq Elements(s) \cup Elements(t)
    <2> SUFFICES ASSUME NEW i \in 1..(m + n)
                 PROVE  st[i] \in Elements(s) \cup Elements(t)
      BY <1>5 DEF Elements
    <2> QED
      BY <1>1, <1>4, <1>6, <1>7, <1>8
  <1>11. Elements(s) \subseteq Elements(st)
    <2> SUFFICES ASSUME NEW i \in 1..m
                 PROVE  s[i] \in Elements(st)
      BY <1>1 DEF Elements
    <2>1. i \in 1..(m + n) /\ st[i] = s[i]
      BY <1>1, <1>2, <1>4
    <2> QED
      BY <1>5, <2>1 DEF Elements
  <1>12. Elements(t) \subseteq Elements(st)
    <2> SUFFICES ASSUME NEW i \in 1..n
                 PROVE  t[i] \in Elements(st)
      BY <1>2 DEF Elements
    <2>1. m + i \in 1..(m + n) /\ m + i > m /\ (m + i) - m = i
      BY <1>1, <1>2
    <2>2. st[m + i] = t[i]
      BY <1>4, <2>1
    <2> QED
      BY <1>5, <2>1, <2>2 DEF Elements
  <1> QED
    BY <1>3, <1>4, <1>9, <1>10, <1>11, <1>12

\* One or two vehicles, in the order of the views, are what a recommendation starts from.
LEMMA SeedsOf ==
  ASSUME NEW v \in Vehicles, NEW w \in Vehicles, NEW S \in SUBSET {v, w}
  PROVE  LET seeds == Ordered(S, {<<v, w>>} \ {<<v, v>>}) IN
         seeds \in Seq(Vehicles) /\ (seeds # <<>> => Len(seeds) \in {1, 2})
  <1> DEFINE order == {<<v, w>>} \ {<<v, v>>}
             seeds == Ordered(S, order)
  <1>1. Arranges(order, {v, w})
    BY DEF Arranges
  <1>2. S \in SUBSET Vehicles /\ IsFiniteSet(S) /\ Cardinality(S) \in Nat
    BY VehiclesAreFinite
  <1>3. Arranges(order, S)
    BY <1>1, ArrangesPart
  <1> HIDE DEF order
  <1>4. seeds \in Seq(S) /\ Len(seeds) = Cardinality(S)
    BY <1>2, <1>3, OrderedHasAll
  <1>5. Cardinality(S) <= 2
    <2>1. IsFiniteSet({v}) /\ Cardinality({v}) = 1
      BY FS_Singleton
    <2>2. IsFiniteSet({v} \cup {w}) /\ Cardinality({v} \cup {w}) <= 2
      <3>1. /\ IsFiniteSet({v} \cup {w})
            /\ Cardinality({v} \cup {w}) = IF w \in {v} THEN Cardinality({v}) ELSE Cardinality({v}) + 1
        BY <2>1, FS_AddElement
      <3> QED
        BY <2>1, <3>1
    <2>3. S \subseteq {v} \cup {w}
      OBVIOUS
    <2>4. Cardinality(S) <= Cardinality({v} \cup {w}) /\ Cardinality({v} \cup {w}) \in Nat
      BY <2>2, <2>3, FS_Subset, FS_CardinalityType
    <2> QED
      BY <1>2, <2>2, <2>4
  <1> HIDE DEF seeds
  <1>6. seeds \in Seq(Vehicles)
    BY <1>2, <1>4, SeqMonotonic
  <1>7. seeds # <<>> => Len(seeds) # 0
    BY <1>4
  <1>8. Len(seeds) \in Nat
    BY <1>4
  <1>9. seeds # <<>> => Len(seeds) \in {1, 2}
    BY <1>2, <1>4, <1>5, <1>7, <1>8
  <1> QED
    BY <1>6, <1>9 DEF seeds, order

\* A request for recommendations starts from its vehicles, and has found nothing.
LEMMA PickStarts ==
  ASSUME QueriesInv, PickBegins, pick' \in PickRecords, pick'.pc \in {"asked", "answered"},
         pick'.pc = "asked" => Len(pick'.seeds) \in {1, 2}, pick'.pc = "answered" => pick'.seeds = <<>>,
         pick'.hidden = blocked, pick'.near = <<>>, pick'.shown = <<>>
  PROVE  QueriesInv'
  <1>1. /\ ask' = NoAsk /\ answer' = NoAnswer /\ readSoFar' = <<>> /\ calm' = TRUE /\ visible' = Now
        /\ status' = status /\ blocked' = blocked /\ changesMade' = changesMade
    BY DEF PickBegins, catalogueVars
  <1>2. /\ <<>> \in Seq(Vehicles) /\ <<>> \in Seq(STRING) /\ Elements(<<>>) = {}
    BY DEF Elements
  <1>3. ask'.pc = "idle" /\ answer'.mode = "none" /\ ask' \in SearchRequests
    BY <1>1, <1>2 DEF NoAsk, NoAnswer, SearchRequests, Sorts
  <1>4. AskTypes' /\ PickTypes' /\ OfferTypes'
    <2>1. AskTypes'
      BY <1>1, <1>2, <1>3 DEF AskTypes, NoAnswer
    <2>2. PickTypes'
      BY DEF PickTypes, PickRecords
    <2>3. visible' \in [active : SUBSET Vehicles, open : SUBSET Vehicles]
      BY <1>1 DEF Now, Active
    <2>4. OfferTypes'
      BY <1>1, <2>3 DEF QueriesInv, OfferTypes
    <2> QED
      BY <2>1, <2>2, <2>4
  <1>5. AskStages' /\ CalmSearch'
    BY <1>3 DEF AskStages, CalmSearch
  <1>6. FoundSince'
    <2>1. Active' = Active /\ visible'.active = Active /\ visible'.open = Vehicles \ blocked
      BY <1>1 DEF Active, Now
    <2> QED
      BY <1>1, <1>2, <1>3, <2>1 DEF FoundSince, Unhidden, SeenAll
  <1>7. CalmPick'
    BY <1>1 DEF CalmPick
  <1>8. NoEmptyPage' /\ ShownIsPublic'
    BY <1>2, <1>3 DEF NoEmptyPage, ShownIsPublic
  <1>9. PicksAreSound'
    <2> SUFFICES ASSUME pick'.pc = "answered"
                 PROVE  PicksAreSound'
      BY DEF PicksAreSound
    <2>1. Seeds' = {}
      BY <1>2 DEF Seeds
    <2>2. \A v : ~SameKind(v)'
      BY <2>1 DEF SameKind
    <2>3. Distinct(<<>>)
      <3>1. Once(<<>>)
        BY DEF Once
      <3> QED
        BY <1>2, <3>1, OnceIsDistinct
    <2>4. Distinct(pick'.shown) /\ Elements(pick'.shown) = {}
      BY <1>2, <2>3
    <2> QED
      BY <2>2, <2>4 DEF PicksAreSound, Distinct
  <1> QED
    BY <1>4, <1>5, <1>6, <1>7, <1>8, <1>9 DEF QueriesInv

\* The similar vehicles of one.
LEMMA SimilarListingsKeeps ==
  ASSUME QueriesInv, NEW v \in Vehicles, SimilarListings(v)
  PROVE  QueriesInv'
  <1>1. PickBegins /\ pick' = [NoPick EXCEPT !.pc = "asked", !.seeds = <<v>>, !.hidden = blocked]
    BY DEF SimilarListings
  <1>2. blocked \in SUBSET Vehicles
    BY DEF QueriesInv, OfferTypes
  <1>3. PICK seeds : seeds = <<v>> /\ seeds \in Seq(Vehicles) /\ Len(seeds) \in {1, 2}
    <2>1. <<v>> \in Seq(Vehicles) /\ Len(<<v>>) = 1
      OBVIOUS
    <2> QED
      BY <2>1
  <1>4. NoPick \in PickRecords /\ NoPick.near = <<>> /\ NoPick.shown = <<>>
    BY DEF NoPick, PickRecords
  <1>5. /\ pick' \in PickRecords /\ pick'.pc = "asked" /\ pick'.seeds = seeds /\ pick'.hidden = blocked
        /\ pick'.near = <<>> /\ pick'.shown = <<>>
    BY <1>1, <1>2, <1>3, <1>4 DEF PickRecords
  <1> QED
    BY <1>1, <1>3, <1>5, PickStarts

\* The recommendations of what was viewed.
LEMMA RecommendedListingsKeeps ==
  ASSUME QueriesInv, NEW v \in Vehicles, NEW w \in Vehicles, RecommendedListings(v, w)
  PROVE  QueriesInv'
  <1>1. PICK S \in SUBSET {v, w} : S = {x \in {v, w} : status[x] \in {"active", "sold"}}
    OBVIOUS
  <1>2. PICK seeds : seeds = Ordered(S, {<<v, w>>} \ {<<v, v>>})
    OBVIOUS
  <1>3. seeds \in Seq(Vehicles) /\ (seeds # <<>> => Len(seeds) \in {1, 2})
    BY <1>2, SeedsOf
  <1>4. PICK pc \in {"asked", "answered"} : pc = IF seeds = <<>> THEN "answered" ELSE "asked"
    OBVIOUS
  <1>5. PickBegins /\ pick' = [NoPick EXCEPT !.pc = pc, !.seeds = seeds, !.hidden = blocked]
    BY <1>1, <1>2, <1>4 DEF RecommendedListings
  <1>6. blocked \in SUBSET Vehicles
    BY DEF QueriesInv, OfferTypes
  <1>7. NoPick \in PickRecords /\ NoPick.near = <<>> /\ NoPick.shown = <<>>
    BY DEF NoPick, PickRecords
  <1>8. /\ pick' \in PickRecords /\ pick'.pc = pc /\ pick'.seeds = seeds /\ pick'.hidden = blocked
        /\ pick'.near = <<>> /\ pick'.shown = <<>>
    BY <1>3, <1>5, <1>6, <1>7 DEF PickRecords
  <1> QED
    BY <1>3, <1>4, <1>5, <1>8, PickStarts

\* A row is shown: it was seen, has no vehicle twice, and while nothing changes is in the price band
\* if that fills it, and empty only if there is nothing.
LEMMA PickAnswers ==
  ASSUME QueriesInv, pick.pc \in {"asked", "wider"}, pick' \in PickRecords, pick'.pc = "answered",
         pick'.seeds = pick.seeds,
         status' = status, blocked' = blocked, changesMade' = changesMade, ask' = ask, answer' = answer,
         readSoFar' = readSoFar, visible' = visible, calm' = calm,
         NEW S \in SUBSET Vehicles, SeenAll(S), \A v \in S : SameKind(v),
         Distinct(pick'.shown), Elements(pick'.shown) \subseteq S,
         calm => /\ {v \in Public : SameKind(v)} # {} => pick'.shown # <<>>
                 /\ Cardinality({v \in Public : SameKind(v) /\ InBand(v)}) >= PageLimit =>
                      S = {v \in Public : SameKind(v) /\ InBand(v)}
  PROVE  QueriesInv'
  <1>1. /\ Active' = Active /\ Public' = Public /\ SeenSince' = SeenSince
        /\ \A v : (SameKind(v)' <=> SameKind(v)) /\ (InBand(v)' <=> InBand(v))
    BY DEF Active, Public, PublicBut, SeenSince, SameKind, InBand, Seeds
  <1>2. ask.pc = "idle"
    BY DEF QueriesInv, AskStages, PickTypes
  <1>3. AskTypes' /\ PickTypes' /\ OfferTypes'
    BY DEF QueriesInv, AskTypes, PickTypes, PickRecords, OfferTypes
  <1>4. AskStages' /\ CalmSearch'
    BY <1>2 DEF QueriesInv, AskStages, CalmSearch
  <1>5. FoundSince'
    BY <1>1, <1>2 DEF QueriesInv, FoundSince, Unhidden
  <1>6. CalmPick' /\ NoEmptyPage'
    BY <1>2 DEF CalmPick, NoEmptyPage
  <1>7. ShownIsPublic'
    BY <1>1, <1>2 DEF ShownIsPublic, SeenAll
  <1>8. PicksAreSound'
    <2> DEFINE fit == {v \in Public : SameKind(v)}
               band == {v \in Public : SameKind(v) /\ InBand(v)}
    <2>1. {v \in fit : InBand(v)} = band
      OBVIOUS
    <2>2. {v \in Public' : SameKind(v)'} = fit /\ {v \in {w \in Public' : SameKind(w)'} : InBand(v)'} = band
      BY <1>1
    <2>3. calm' => /\ fit # {} => pick'.shown # <<>>
                   /\ Cardinality(band) >= PageLimit => Elements(pick'.shown) \subseteq band
      OBVIOUS
    <2>4. \A v \in Elements(pick'.shown) : SameKind(v)'
      BY <1>1
    <2> HIDE DEF fit, band
    <2> QED
      BY <2>2, <2>3, <2>4 DEF PicksAreSound, Distinct
  <1> QED
    BY <1>3, <1>4, <1>5, <1>6, <1>7, <1>8 DEF QueriesInv

\* The pool of a similar price is large enough, or the others are asked for.
LEMMA FindNearbyKeeps ==
  ASSUME QueriesInv, FindNearby
  PROVE  QueriesInv'
  <1>1. PICK hidden \in {pick.hidden, blocked} :
          LET near == Newest({v \in PublicBut(hidden) : SameKind(v) /\ InBand(v)}, CandidateLimit) IN
          pick' = IF Len(near) >= PageLimit
                    THEN [pick EXCEPT !.pc = "answered", !.shown = RankByScore(near)]
                    ELSE [pick EXCEPT !.pc = "wider", !.near = near, !.hidden = blocked]
    BY DEF FindNearby
  <1>2. PICK S : S = {v \in PublicBut(hidden) : SameKind(v) /\ InBand(v)}
    OBVIOUS
  <1>3. PICK near : near = Newest(S, CandidateLimit)
    OBVIOUS
  <1>4. pick' = IF Len(near) >= PageLimit
                  THEN [pick EXCEPT !.pc = "answered", !.shown = RankByScore(near)]
                  ELSE [pick EXCEPT !.pc = "wider", !.near = near, !.hidden = blocked]
    BY <1>1, <1>2, <1>3
  <1>5. /\ pick.pc = "asked" /\ pick \in PickRecords /\ Len(pick.seeds) \in {1, 2} /\ pick.seeds \in Seq(Vehicles)
    BY DEF FindNearby, QueriesInv, PickTypes, PickRecords
  <1>6. /\ Unhidden(pick.hidden) /\ Unhidden(blocked) /\ Active \subseteq visible.active
        /\ blocked \in SUBSET Vehicles /\ (calm => pick.hidden = blocked)
    BY <1>5 DEF QueriesInv, FoundSince, CalmPick, OfferTypes
  <1>7. S \in SUBSET Vehicles /\ SeenAll(S) /\ \A v \in S : SameKind(v) /\ InBand(v)
    BY <1>2, <1>6 DEF PublicBut, Active, SeenAll, SeenSince, Unhidden
  <1>8. calm => S = {v \in Public : SameKind(v) /\ InBand(v)}
    BY <1>2, <1>6 DEF Public
  <1>9. PICK limit \in Nat : limit = CandidateLimit /\ limit # 0 /\ PageLimit \in Nat \ {0} /\ PageLimit <= limit
    BY QueriesAssumption
  <1>10. /\ near \in Seq(Vehicles) /\ Once(near) /\ Elements(near) \subseteq S
         /\ Cardinality(S) <= limit => Len(near) = Cardinality(S)
         /\ limit <= Cardinality(S) => Len(near) = limit
    BY <1>3, <1>7, <1>9, NewestOf
  <1>11. Len(near) \in Nat /\ Cardinality(S) \in Nat
    BY <1>7, <1>10, VehiclesAreFinite
  <1>12. /\ status' = status /\ blocked' = blocked /\ changesMade' = changesMade /\ ask' = ask /\ answer' = answer
         /\ readSoFar' = readSoFar /\ visible' = visible /\ calm' = calm
    BY DEF FindNearby, catalogueVars
  <1>13. CASE Len(near) >= PageLimit
    <2>1. pick' = [pick EXCEPT !.pc = "answered", !.shown = RankByScore(near)]
      BY <1>4, <1>13
    <2>2. /\ RankByScore(near) \in Seq(Vehicles) /\ Once(RankByScore(near))
          /\ Elements(RankByScore(near)) \subseteq Elements(near)
          /\ near # <<>> => RankByScore(near) # <<>>
      BY <1>5, <1>10, RowOf
    <2>3. near # <<>>
      BY <1>9, <1>11, <1>13
    <2>4. /\ pick' \in PickRecords /\ pick'.pc = "answered" /\ pick'.seeds = pick.seeds
          /\ pick'.shown = RankByScore(near)
      BY <1>5, <2>1, <2>2 DEF PickRecords
    <2>5. Distinct(pick'.shown) /\ Elements(pick'.shown) \subseteq S /\ pick'.shown # <<>>
      BY <1>10, <2>2, <2>3, <2>4, OnceIsDistinct
    <2> QED
      BY <1>5, <1>7, <1>8, <1>12, <2>4, <2>5, PickAnswers
  <1>14. CASE ~(Len(near) >= PageLimit)
    <2>1. pick' = [pick EXCEPT !.pc = "wider", !.near = near, !.hidden = blocked]
      BY <1>4, <1>14
    <2>2. /\ pick' \in PickRecords /\ pick'.pc = "wider" /\ pick'.seeds = pick.seeds /\ pick'.near = near
          /\ pick'.hidden = blocked
      BY <1>5, <1>6, <1>10, <2>1 DEF PickRecords
    <2>3. calm => Cardinality({v \in Public : SameKind(v) /\ InBand(v)}) < PageLimit
      <3>1. Cardinality(S) < PageLimit
        BY <1>9, <1>10, <1>11, <1>14
      <3> QED
        BY <1>8, <3>1
    <2>4. Distinct(near) /\ (\A v \in Elements(near) : SameKind(v)) /\ SeenAll(Elements(near))
      BY <1>7, <1>10, OnceIsDistinct DEF SeenAll
    <2>5. /\ Active' = Active /\ Public' = Public /\ SeenSince' = SeenSince
          /\ \A v : (SameKind(v)' <=> SameKind(v)) /\ (InBand(v)' <=> InBand(v))
      BY <1>12, <2>2 DEF Active, Public, PublicBut, SeenSince, SameKind, InBand, Seeds
    <2>6. ask.pc = "idle"
      BY <1>5 DEF QueriesInv, AskStages
    <2>7. AskTypes' /\ PickTypes' /\ OfferTypes'
      BY <1>5, <1>12, <2>2 DEF QueriesInv, AskTypes, PickTypes, PickRecords, OfferTypes
    <2>8. AskStages' /\ CalmSearch'
      BY <1>12, <2>6 DEF QueriesInv, AskStages, CalmSearch
    <2>9. FoundSince'
      BY <1>6, <1>12, <2>2, <2>4, <2>5, <2>6 DEF FoundSince, Unhidden, SeenAll
    <2>10. CalmPick'
      BY <1>12, <2>2, <2>3, <2>4, <2>5 DEF CalmPick, Distinct
    <2>11. NoEmptyPage' /\ PicksAreSound' /\ ShownIsPublic'
      BY <1>12, <2>2, <2>6 DEF NoEmptyPage, PicksAreSound, ShownIsPublic
    <2> QED
      BY <2>7, <2>8, <2>9, <2>10, <2>11 DEF QueriesInv
  <1> QED
    BY <1>13, <1>14

\* The others fill the row.
LEMMA FindWiderKeeps ==
  ASSUME QueriesInv, FindWider
  PROVE  QueriesInv'
  <1>1. PICK hidden \in {pick.hidden, blocked} :
          LET wider == Newest({v \in PublicBut(hidden) : SameKind(v)}, CandidateLimit)
              others == Ordered(Elements(wider) \ Elements(pick.near), ByDate)
          IN pick' = [pick EXCEPT !.pc = "answered", !.shown = RankByScore(pick.near \o others)]
    BY DEF FindWider
  <1>2. PICK S : S = {v \in PublicBut(hidden) : SameKind(v)}
    OBVIOUS
  <1>3. PICK wider : wider = Newest(S, CandidateLimit)
    OBVIOUS
  <1>4. PICK others : others = Ordered(Elements(wider) \ Elements(pick.near), ByDate)
    OBVIOUS
  <1>5. PICK pool : pool = pick.near \o others
    OBVIOUS
  <1>6. pick' = [pick EXCEPT !.pc = "answered", !.shown = RankByScore(pool)]
    BY <1>1, <1>2, <1>3, <1>4, <1>5
  <1>7. /\ pick.pc = "wider" /\ pick \in PickRecords /\ Len(pick.seeds) \in {1, 2} /\ pick.seeds \in Seq(Vehicles)
        /\ pick.near \in Seq(Vehicles)
    BY DEF FindWider, QueriesInv, PickTypes, PickRecords
  <1>8. /\ Unhidden(pick.hidden) /\ Unhidden(blocked) /\ Active \subseteq visible.active
        /\ blocked \in SUBSET Vehicles /\ (calm => pick.hidden = blocked) /\ SeenAll(Elements(pick.near))
        /\ Distinct(pick.near) /\ \A v \in Elements(pick.near) : SameKind(v)
        /\ calm => Cardinality({v \in Public : SameKind(v) /\ InBand(v)}) < PageLimit
    BY <1>7 DEF QueriesInv, FoundSince, CalmPick, OfferTypes
  <1>9. S \in SUBSET Vehicles /\ SeenAll(S) /\ \A v \in S : SameKind(v)
    BY <1>2, <1>8 DEF PublicBut, Active, SeenAll, SeenSince, Unhidden
  <1>10. calm => S = {v \in Public : SameKind(v)}
    BY <1>2, <1>8 DEF Public
  <1>11. wider \in Seq(Vehicles) /\ Elements(wider) \subseteq S /\ (S # {} => wider # <<>>)
    <2>1. CandidateLimit \in Nat \ {0}
      BY QueriesAssumption
    <2> QED
      BY <1>3, <1>9, <2>1, NewestOf
  <1>12. others \in Seq(Vehicles) /\ Once(others) /\ Elements(others) = Elements(wider) \ Elements(pick.near)
    <2>1. Elements(wider) \ Elements(pick.near) \in SUBSET Vehicles
      BY <1>9, <1>11
    <2> QED
      BY <1>4, <2>1, DatesArrange, ListOfVehicles
  <1>13. pool \in Seq(Vehicles) /\ Once(pool) /\ Elements(pool) = Elements(pick.near) \cup Elements(wider)
    <2>1. Once(pick.near)
      BY <1>7, <1>8, OnceIsDistinct
    <2>2. PICK near \in Seq(Vehicles) : near = pick.near
      BY <1>7
    <2>3. near \o others \in Seq(Vehicles) /\ Once(near \o others)
          /\ Elements(near \o others) = Elements(near) \cup Elements(others)
      BY <1>12, <2>1, <2>2, OnceJoins
    <2> QED
      BY <1>5, <1>12, <2>2, <2>3
  <1>14. S # {} => pool # <<>>
    <2>1. wider # <<>> => Elements(wider) # {}
      <3>1. wider # <<>> => 1 \in DOMAIN wider
        BY <1>11
      <3> QED
        BY <3>1 DEF Elements
    <2>2. Elements(<<>>) = {}
      BY DEF Elements
    <2> QED
      BY <1>11, <1>13, <2>1, <2>2
  <1>15. /\ RankByScore(pool) \in Seq(Vehicles) /\ Once(RankByScore(pool))
         /\ Elements(RankByScore(pool)) \subseteq Elements(pool)
         /\ pool # <<>> => RankByScore(pool) # <<>>
    BY <1>7, <1>13, RowOf
  <1>16. /\ pick' \in PickRecords /\ pick'.pc = "answered" /\ pick'.seeds = pick.seeds
         /\ pick'.shown = RankByScore(pool)
    BY <1>6, <1>7, <1>15 DEF PickRecords
  <1>17. PICK T : T = Elements(pool)
    OBVIOUS
  <1>18. T \in SUBSET Vehicles /\ SeenAll(T) /\ \A v \in T : SameKind(v)
    <2>1. T = Elements(pick.near) \cup Elements(wider) /\ Elements(wider) \subseteq Vehicles
      BY <1>9, <1>11, <1>13, <1>17
    <2>2. Elements(pick.near) \subseteq Vehicles
      BY <1>7 DEF Elements
    <2> QED
      BY <1>8, <1>9, <1>11, <2>1, <2>2 DEF SeenAll
  <1>19. Distinct(pick'.shown) /\ Elements(pick'.shown) \subseteq T
    BY <1>15, <1>16, <1>17, OnceIsDistinct
  <1>20. calm => /\ {v \in Public : SameKind(v)} # {} => pick'.shown # <<>>
                 /\ ~(Cardinality({v \in Public : SameKind(v) /\ InBand(v)}) >= PageLimit)
    <2>1. PageLimit \in Nat
      BY QueriesAssumption
    <2>2. Cardinality({v \in Public : SameKind(v) /\ InBand(v)}) \in Nat
      <3>1. {v \in Public : SameKind(v) /\ InBand(v)} \in SUBSET Vehicles
        BY DEF Public, PublicBut, Active
      <3> QED
        BY <3>1, VehiclesAreFinite
    <2>3. calm => ~(Cardinality({v \in Public : SameKind(v) /\ InBand(v)}) >= PageLimit)
      BY <1>8, <2>1, <2>2
    <2> QED
      BY <1>10, <1>14, <1>15, <1>16, <2>3
  <1>21. /\ status' = status /\ blocked' = blocked /\ changesMade' = changesMade /\ ask' = ask /\ answer' = answer
         /\ readSoFar' = readSoFar /\ visible' = visible /\ calm' = calm
    BY DEF FindWider, catalogueVars
  <1> QED
    BY <1>7, <1>16, <1>18, <1>19, <1>20, <1>21, PickAnswers

-----------------------------------------------------------------------------
(* What holds of searches and recommendations. *)

\* Every step of searches and recommendations, and of what changes meanwhile.
LEMMA QueriesStep ==
  ASSUME QueriesInv, [QueriesNext]_queryVars
  PROVE  QueriesInv'
  <1>1. CASE UNCHANGED queryVars
    BY <1>1, QueriesStill
  <1>2. ASSUME NEW text \in Texts, NEW chosen \in FilterChoices, NEW sort \in {"relevance", "newest", "price-asc"},
               Search(text, chosen, sort)
        PROVE  QueriesInv'
    <2>1. sort \in Sorts
      BY DEF Sorts
    <2> QED
      BY <1>2, <2>1, SearchKeeps
  <1>3. CASE NextResults
    BY <1>3, NextResultsKeeps
  <1>4. CASE FindListings
    BY <1>4, FindListingsKeeps
  <1>5. CASE CountListings
    BY <1>5, CountListingsKeeps
  <1>6. CASE ListVectorCandidates
    BY <1>6, ListVectorCandidatesKeeps
  <1>7. CASE VectorFails
    BY <1>7, VectorFailsKeeps
  <1>8. CASE Answers
    BY <1>8, AnswersKeeps
  <1>9. ASSUME NEW v \in Vehicles, SimilarListings(v)
        PROVE  QueriesInv'
    BY <1>9, SimilarListingsKeeps
  <1>10. ASSUME NEW v \in Vehicles, DealerChanges(v)
         PROVE  QueriesInv'
    BY <1>10, ChangesKeep
  <1>11. ASSUME NEW v \in Vehicles, NEW w \in Vehicles, RecommendedListings(v, w)
         PROVE  QueriesInv'
    BY <1>11, RecommendedListingsKeeps
  <1>12. CASE FindNearby
    BY <1>12, FindNearbyKeeps
  <1>13. CASE FindWider
    BY <1>13, FindWiderKeeps
  <1>14. ASSUME NEW v \in Vehicles, NEW s \in {"active", "sold", "draft"}, ListingChanges(v, s)
         PROVE  QueriesInv'
    BY <1>14, ChangesKeep
  <1> QED
    BY <1>1, <1>2, <1>3, <1>4, <1>5, <1>6, <1>7, <1>8, <1>9, <1>10, <1>11, <1>12, <1>13, <1>14 DEF QueriesNext

\* The list of which a search showed pages has no vehicle twice.
LEMMA ListNowOnce ==
  ASSUME QueriesInv, ask.pc = "answered"
  PROVE  ListNow \in Seq(Vehicles) /\ Once(ListNow)
  <1>1. ask.text \in Seq(STRING)
    BY DEF QueriesInv, AskTypes, SearchRequests
  <1>2. StructuredNow \in Seq(Vehicles) /\ Once(StructuredNow)
    <2>1. {v \in Public : StructuredFilter(v, ask)} \in SUBSET Vehicles
      BY DEF Public, PublicBut, Active
    <2> QED
      BY <2>1, SortedOf DEF StructuredNow
  <1>3. FoundNow \in Seq(Vehicles)
    <2>1. {v \in Public : Fits(v, ask)} \in SUBSET Vehicles /\ CandidateLimit \in Nat \ {0}
      BY QueriesAssumption DEF Public, PublicBut, Active
    <2> QED
      BY <2>1, NewestOf DEF FoundNow
  <1>4. NearNow \in SUBSET Vehicles
    BY NearestOf DEF NearNow, Active
  <1>5. ASSUME NEW near \in SUBSET Vehicles
        PROVE  RankedNow(near) \in Seq(Vehicles) /\ Once(RankedNow(near))
    <2>1. PICK b : b = [text |-> ask.text, chosen |-> ask.chosen, found |-> FoundNow, near |-> near]
      OBVIOUS
    <2>2. b.text \in Seq(STRING) /\ b.found \in Seq(Vehicles) /\ b.near \in SUBSET Vehicles
      BY <1>1, <1>3, <2>1
    <2> QED
      BY <2>1, <2>2, RankedOf DEF RankedNow
  <1>6. HybridNow \in Seq(Vehicles) /\ Once(HybridNow) /\ FallbackNow \in Seq(Vehicles) /\ Once(FallbackNow)
    BY <1>4, <1>5 DEF HybridNow, FallbackNow
  <1> QED
    BY <1>2, <1>6 DEF ListNow

\* The invariant is what the buyers are promised.
LEMMA QueriesImply == QueriesInv => QueriesHold
  <1> SUFFICES ASSUME QueriesInv
               PROVE  PagesAddUp
    BY DEF QueriesInv, QueriesHold
  <1> SUFFICES ASSUME ask.pc = "answered", calm
               PROVE  Distinct(readSoFar) /\ (ask.page >= TotalPages => Len(readSoFar) = answer.total)
    BY DEF PagesAddUp
  <1>1. answer.mode # "none" /\ ask.page \in Nat \ {0}
    BY DEF QueriesInv, AskStages, AskedFor, AskTypes, SearchRequests
  <1>2. readSoFar = AtMost(ListNow, ask.page * PageLimit) /\ answer.total = Len(ListNow)
    BY <1>1 DEF QueriesInv, CalmSearch, PagesRead
  <1>3. PICK list \in Seq(Vehicles) : list = ListNow /\ Once(list)
    BY ListNowOnce
  <1>4. PICK read \in Nat : read = ask.page * PageLimit
    BY <1>1, PagesBefore
  <1>5. PICK len \in Nat : len = Len(list)
    OBVIOUS
  <1>6. /\ readSoFar \in Seq(Vehicles) /\ Once(readSoFar)
        /\ len <= read => Len(readSoFar) = len
    BY <1>2, <1>3, <1>4, <1>5, FirstOfList
  <1>7. Distinct(readSoFar)
    BY <1>6, OnceIsDistinct
  <1>8. ASSUME ask.page >= TotalPages
        PROVE  len <= read
    <2>1. PICK next \in Nat \ {0} : next = ask.page + 1
      BY <1>1
    <2>2. next <= (len + PageLimit - 1) \div PageLimit <=> (next - 1) * PageLimit < len
      BY PagesEnd
    <2>3. (next - 1) * PageLimit = read
      BY <1>1, <1>4, <2>1
    <2>4. PICK pages \in Int : pages = (len + PageLimit - 1) \div PageLimit
      BY QueriesAssumption
    <2>5. TotalPages = pages
      BY <1>2, <1>3, <1>5, <2>4 DEF TotalPages
    <2>6. ~(next <= pages)
      BY <1>1, <1>8, <2>1, <2>4, <2>5
    <2> QED
      BY <1>4, <1>5, <2>2, <2>3, <2>4, <2>6
  <1> QED
    BY <1>2, <1>3, <1>5, <1>6, <1>7, <1>8

\* And keeps the shapes.
LEMMA QueriesKeepTypes == QueriesInv => QueriesTypeOK
  <1> SUFFICES ASSUME QueriesInv
               PROVE  QueriesTypeOK
    OBVIOUS
  <1>1. status \in [Vehicles -> {"active", "sold", "draft"}] /\ blocked \subseteq Vehicles /\ changesMade \in 0..MaxChanges
    BY DEF QueriesInv, OfferTypes
  <1>2. ask.pc \in {"idle", "asked", "answered"} /\ ask.page \in Nat \ {0}
    BY DEF QueriesInv, AskTypes, SearchRequests
  <1>3. answer.mode \in {"none", "structured", "hybrid", "lexical-fallback"} /\ answer.total \in Nat
    BY DEF QueriesInv, AskTypes, Modes
  <1>4. /\ answer.shown \in Seq(Vehicles) /\ readSoFar \in Seq(Vehicles) /\ pick.seeds \in Seq(Vehicles)
        /\ pick.shown \in Seq(Vehicles) /\ pick.pc \in {"idle", "asked", "wider", "answered"}
    BY DEF QueriesInv, AskTypes, SearchRequests, PickTypes, PickRecords
  <1>5. \A s \in Seq(Vehicles) : Elements(s) \subseteq Vehicles
    BY DEF Elements
  <1>6. visible.active \cup visible.open \subseteq Vehicles /\ calm \in BOOLEAN
    BY DEF QueriesInv, OfferTypes
  <1> QED
    BY <1>1, <1>2, <1>3, <1>4, <1>5, <1>6 DEF QueriesTypeOK, Seeds

-----------------------------------------------------------------------------
(* The four sides together. *)

\* A step of the catalogue is one of the requests or leaves their state alone; and
\* so for the other sides.
LEMMA EverySide ==
  ASSUME [CatalogueNext]_catalogueSides
  PROVE  /\ [Next]_vars /\ [VisibilityNext]_visibilityVars
         /\ [QueriesNext]_queryVars /\ [MigrationNext]_migrationVars
  <1> DEFINE VS == visibilityVars
             QS == queryVars
             MS == migrationVars
             RS == vars
  <1>1. CASE UNCHANGED catalogueSides
    <2>1. UNCHANGED RS /\ UNCHANGED VS /\ UNCHANGED QS /\ UNCHANGED MS
      BY <1>1 DEF catalogueSides
    <2> QED
      BY <2>1
  <1>2. CASE OfSide("requests", Next)
    <2>1. Next /\ UNCHANGED VS /\ UNCHANGED QS /\ UNCHANGED MS
      BY <1>2 DEF OfSide, Rest
    <2> QED
      BY <2>1
  <1>3. CASE OfSide("visibility", VisibilityNext)
    <2>1. VisibilityNext /\ UNCHANGED RS /\ UNCHANGED QS /\ UNCHANGED MS
      BY <1>3 DEF OfSide, Rest
    <2> QED
      BY <2>1
  <1>4. CASE OfSide("queries", QueriesNext)
    <2>1. QueriesNext /\ UNCHANGED RS /\ UNCHANGED VS /\ UNCHANGED MS
      BY <1>4 DEF OfSide, Rest
    <2> QED
      BY <2>1
  <1>5. CASE OfSide("photos", MigrationNext)
    <2>1. MigrationNext /\ UNCHANGED RS /\ UNCHANGED VS /\ UNCHANGED QS
      BY <1>5 DEF OfSide, Rest
    <2> QED
      BY <2>1
  <1> QED
    BY <1>1, <1>2, <1>3, <1>4, <1>5 DEF CatalogueNext

\* The catalogue implements the listing requests: its initial states are initial
\* states of theirs, and each of its steps is one of theirs or a stutter.
THEOREM CatalogueImplementsRequests == CatalogueSpec => Spec
  <1>1. CatalogueInit => Init
    BY DEF CatalogueInit
  <1>2. [CatalogueNext]_catalogueSides => [Next]_vars
    BY EverySide
  <1> QED
    BY <1>1, <1>2, PTL DEF CatalogueSpec, Spec

\* The rules about listings hold in the catalogue.
THEOREM CatalogueKeepsRules == CatalogueSpec => []RulesKept
  BY CatalogueImplementsRequests, RulesAreKept, PTL

\* No edit of a listing is undone in the catalogue.
THEOREM CatalogueKeepsEdits == CatalogueSpec => []EditsAreWhole
  BY CatalogueImplementsRequests, EditsStayWhole, PTL

\* Listings move along their lifecycle in the catalogue.
THEOREM CatalogueMovesFollow == CatalogueSpec => MovesAreAllowed
  BY CatalogueImplementsRequests, MovesFollow

\* The inductive invariant of the sides that no theorem above is about.
SidesInv ==
  /\ side \in {"requests", "visibility", "queries", "photos"}
  /\ VisibilityInv /\ QueriesInv /\ MigrationInv

\* It holds in every state of the catalogue.
LEMMA SidesHold == CatalogueSpec => []SidesInv
  <1>1. CatalogueInit => SidesInv
    BY VisibilityStarts, QueriesStart, MigrationStarts DEF CatalogueInit, SidesInv
  <1>2. ASSUME SidesInv, [CatalogueNext]_catalogueSides
        PROVE  SidesInv'
    <2>1. side' = side
      BY <1>2 DEF CatalogueNext, OfSide, catalogueSides
    <2>2. VisibilityInv'
      BY <1>2, EverySide, VisibilityStill, VisibilityKeeps DEF SidesInv
    <2>3. QueriesInv'
      BY <1>2, EverySide, QueriesStep DEF SidesInv
    <2>4. MigrationInv'
      BY <1>2, EverySide, MigrationStill, MigrationKeeps DEF SidesInv
    <2> QED
      BY <1>2, <2>1, <2>2, <2>3, <2>4 DEF SidesInv
  <1> QED
    BY <1>1, <1>2, PTL DEF CatalogueSpec

\* Every instance that served a change of a dealer's status shows or hides the
\* dealer's listings at once, the others within the life of a copy, unless a
\* request stored what it had read before the change (publicVisibility.ts:4-7).
THEOREM HiddenInTime == CatalogueSpec => []HiddenAsPromised
  <1>1. SidesInv => HiddenAsPromised
    BY VisibilityImplies DEF SidesInv
  <1> QED
    BY <1>1, SidesHold, PTL

\* As long as a listing shows a photo it has an object, a small copy that a listing
\* names is in storage, and a run of the command that ended has moved what it could,
\* wherever earlier runs stopped and whatever the dealer deletes
\* (listingImageMigration.ts).
THEOREM PhotosAreMoved == CatalogueSpec => []PhotosMove
  <1>1. SidesInv => PhotosMove
    BY MigrationImplies DEF SidesInv
  <1> QED
    BY <1>1, SidesHold, PTL

\* For any vehicles, texts and limits, and whatever changes between the queries of a
\* request: an answer shows only what was public and fits what was asked for, the pager
\* offers no empty page, the pages of a search add up to the number it says while
\* nothing changes, and recommendations repeat nothing and stay in the price band if
\* that fills the row (search.service.ts, buyer.service.ts).
THEOREM SearchesAreSound == CatalogueSpec => []QueriesHold
  <1>1. SidesInv => QueriesHold
    BY QueriesImply DEF SidesInv
  <1> QED
    BY <1>1, SidesHold, PTL

\* What the public pages hide and show, whichever side a behaviour is about.
THEOREM PublicPagesAlwaysHold == CatalogueSpec => []PublicPagesHold
  <1>1. SidesInv => PublicPagesHold
    BY VisibilityImplies, QueriesImply, MigrationImplies DEF SidesInv, PublicPagesHold
  <1> QED
    BY <1>1, SidesHold, PTL

\* The variables of each side keep their shapes.
THEOREM CatalogueTypes == CatalogueSpec => []CatalogueTypeOK
  <1>1. SidesInv /\ TypeOK => CatalogueTypeOK
    BY QueriesKeepTypes DEF SidesInv, VisibilityInv, MigrationInv, CatalogueTypeOK
  <1>2. CatalogueSpec => []TypeOK
    BY CatalogueImplementsRequests, ListingTypes, PTL
  <1> QED
    BY <1>1, <1>2, SidesHold, PTL
=============================================================================
