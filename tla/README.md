# MotorX: a verification development

TLA+ models of MotorX, the second-hand vehicle marketplace in this repository, with the TLC
configurations that check them on small instances and TLAPS proofs of what matters most for every
size. Paths below are relative to the repository.

## 1. The system

A React frontend talks to an Express backend (a modular monolith, two copies behind Caddy). Durable
state is in MongoDB; files (CSV uploads, photo archives, listing photos, verification documents) are
in an S3-compatible store; Redis holds the BullMQ queue and the rate-limit counters. An ETL worker
(two processes, one queue, two jobs at once each) imports what dealers upload and runs periodic jobs.

### Components, their state and their operations

| Component | State | Operations | Talks to |
|---|---|---|---|
| Upload job store (`apps/worker/src/repositories/uploadJob.repository.ts`, `apps/backend/src/modules/inventory/inventory.repository.ts`) | one document per upload: status of the CSV stage and of the photo stage, attempt counts, one lease (owner, expiry) shared by both, progress counters | claim, renew, progress, complete, fail, hand back (each stage); create, attach archive, reset a failed stage | MongoDB |
| Inventory queue (`inventory.queue.ts`, `reaper.job.ts` ensureQueued, `packages/shared-contracts/src/queue`) | one BullMQ message per stage under a fixed id | look, remove a finished one, add; delivery, retry with backoff, stall | Redis |
| Worker attempts (`uploadJob.service.ts`, `imageProcessing.service.ts`, `jobLease.ts`, `worker.ts`) | in memory: owner token, counters, lost flag, the active leases of the process | import a CSV batch by batch, attach photos, notify, give back, give up, shut down | store, queue, S3, listings |
| Lease reaper (`reaper.job.ts`) | what its four queries returned | fail what is out of attempts, re-queue the rest | store, queue |
| Row import (`processInventoryBatch`, `pipeline/*`, `listing.repository.ts`, `rejectedRecord.repository.ts`) | listings, rejected records | find imported rows, detect duplicates, count capacity, insert, record rejections | MongoDB |
| Photo attachment and listing photos (`imageProcessing.service.ts`, `modules/marketplace/listingImage.*`) | photo objects, `images` of the listings | upload under deterministic keys, append, remove what was not appended; add, delete, reorder | S3, MongoDB |
| Email outbox (`emailOutbox.job.ts`, `notification.repository.ts`) | notifications with email status, claim time, attempt count | claim the next due email, send, mark sent, schedule a retry, mark failed | MongoDB, SMTP |
| Listings (`modules/marketplace/listing.*`) | status draft/active/sold/archived, plate, attributes, embedding | create, edit, status change, delete, bulk actions, removal by an administrator | MongoDB |
| Dealer applications (`modules/dealers`, `modules/admin`) | application status, documents, history, role, audit log | submit, submit again, review, view a document | MongoDB, Firebase, S3 |
| Document retention (`documentRetention.job.ts`) | documents of old decisions | delete the objects, then clear the list | S3, MongoDB |
| Public visibility (`publicVisibility.ts`, `admin.service.ts`) | suspended dealers; a copy of their ids on each instance | browse, suspend, let back in | MongoDB |
| Search and recommendations (`modules/search`, `modules/buyers`) | none of their own | interpret a query, structured and hybrid search, similar and recommended vehicles | MongoDB, embedding service |
| Request gate and shutdown (`shared/middleware`, `server.ts`) | verified tokens, uploads in flight, connections | authenticate, admit, release, drain, exit | Firebase, Redis, MongoDB |
| Reminders and notification inbox (`staleListingReminder.job.ts`, `modules/notifications`, `NotificationCenter.tsx`) | time of the last reminder, read flags, the bell's badge | remind, poll, mark read | MongoDB |
| Photo migration (`scripts/listingImageMigration.ts`) | none of its own; photo objects and their URLs | move, make small copies, record URLs; dry run, keep the old objects, new base | MongoDB, S3 |
| Session (`AuthProvider.tsx`, `LoginForm.tsx`) | the user shown, Firebase's user, the query cache | sign in, register, sign out | Firebase, backend |
| Pages (`portals/*`, `features/*`) | forms, filters, pages, selections, polls, browser storage | section 2 | backend |
| Vehicle rules (`packages/shared-contracts`, `ListingForm.tsx`, CSV templates, `normalize.ts`) | none | which attributes a vehicle must and may have | - |

### What is hard

* Several workers, a reaper and HTTP requests write one upload document with no lock but the filters of
  their updates; a queue message may be delivered twice, late, or never.
* A worker can crash, or lose its lease, between any two database calls; what it has already written
  stays, and the next attempt starts from the checkpoint.
* Decisions are taken from reads that may be stale when they are used: the reaper's queries, the
  duplicate and capacity checks of the import, the claim of an email, a listing read before it is edited, the
  documents a new submission replaces.
* Two stores that no transaction spans must agree: MongoDB and the photos or documents in S3.
* The frontend's requests are answered late, in any order or never, after the user, the page, the filters
  or the text have changed.
* Whatever has been accepted must end although Redis, MongoDB or the process fails in between.

### What makes the components correct

* Store and attempts: one stage open at a time; a lease exactly while a stage is processing; the
  checkpoint counts only what is in the database and never goes back; a completed import is whole and
  stays completed; the dealer is told nothing that is not so. Queue and reaper: an accepted upload always ends.
* Row import: each row has one outcome, none is imported twice, counters agree with the collections,
  the listing limit and the uniqueness of open plates hold.
* Photos: a photo that a listing shows exists in storage; their number is bounded; nothing stays behind.
* Outbox: an email is sent, at most as often as the claims allow; a sent one is not marked failed, unless its last attempt got no answer to "sent".
* Listings: allowed transitions only, by those allowed to, one open listing per plate, no acknowledged edit undone.
* Applications: a decision is applied once, role, history and audit log agree with it; documents that are
  still needed are kept and the others go.
* Public pages: suspended dealers disappear within CACHE_MS; results fit the query, pages add up; a photo
  that is moved is never lost, and a URL is recorded only when its object exists.
* Gate: tokens, slots and connections are given up exactly when they should be.
* Frontend: the data shown is the signed-in user's; what is stored is told and told once; pages at rest show what
  the server has; nothing stays busy for ever.

## 2. Modules

Beside each component's module stand, where there are any, `<module>_proofs` with its theorems and `MC<module>` with what TLC
needs (symmetry, tuples a cfg cannot write).

| Module | Models |
|---|---|
| `InventoryBase` | the names that store and queue share: stages, attempt slots |
| `JobStore` | the upload document and every conditional update on it, one atomic step each |
| `InventoryQueue` | the messages, the look/remove/add procedure of the producers, delivery |
| `UploadPipeline` | composes the two with attempts, leases, reaper, dealer requests and faults |
| `UploadLifecycle` | abstract: what an upload promises the dealer; `UploadPipeline` implements it |
| `ImportBatch` | the CSV import row by row |
| `EmailOutbox` | the notifications that wait for email and the cycles that send them |
| `ListingPhotos` | the photos of a listing: worker against dealer, document against storage |
| `ListingLifecycle` | requests of dealers and administrators, and imports, over shared listings |
| `DealerApplications` | one account's application: submissions, reviews, document views, retention job, storage |
| `PublicVisibility` | each instance's copy of the suspended dealers |
| `BuyerQueries` | what search and recommendations answer while listings change |
| `ImageMigration` | the command that moves listing photos, its options, stops and runs, beside a photo deletion |
| `Catalogue` | composes `ListingLifecycle`, `PublicVisibility`, `BuyerQueries` and `ImageMigration`: a behaviour is about one side |
| `RequestGate` | an upload request from its token to the end of its handler, and the shutdown |
| `Inbox` | reminders, notifications and the bell that polls and marks them |
| `BackendEdge` | composes the last two: a behaviour is about one of them |
| `Session` | sign-in, registration and sign-out of a tab beside the loads they start |
| `ApplicationForm` | RegisterPage: the buyer's form, the dealer's application and its lookup |
| `UploadScreens` | InventoryUpload and UploadDetails: upload, polling, photos, retries, publishing |
| `VehicleRules` | which attributes the schemas, the form, the CSV templates and the worker know |
| `ListingForm` | photos chosen, cropped, stored one by one, removed, moved |
| `ListingManager` | a dealer's table: URL, debounced text, ticks, bulk actions, and the query cache it shares with the pages that change listings |
| `Marketplace` | the buyers' search page: debounced text, filters, sort, pages, queries |
| `Shortlist` | compare list in several tabs and their storage, recently viewed, gallery |
| `AdminScreens` | the administrator's tables: filters, loads, decisions |
| `PortalShell` | routes and guards, status page, verification banner, drawer, dealer profile |
| `Browser` | composes the last ten: a tab of the browser on one of its pages |

Some definitions are preceded by a variant (`HandBackJob_LeaseKept`, `Total_OfCandidates` and others). Variants are not part of
any specification; each is a plausible mistake in the definition it is named after, and `PROJECT.json` records which
property notices it.

### UploadPipeline and its parts

One upload document is modelled, with both of its stages. Uploads share no state but the listings
(a matter of the row import) and the worker's slots, so one upload with several slots is what can
interfere with itself. `status`, `attempts`, `leaseOwner`, `leaseLive` and `checkpoint` are the
document; `leaseLive` is "leaseExpiresAt lies in the future", so the passing of JOB_LEASE_MS is a step.
`completed` stands for completed and completedWithErrors, which no filter tells apart. The checkpoint
counts batches, because the code saves it once per batch.

An attempt (`run[a]`) is a call of `extractInventoryUpload` or `processInventoryImages`. `pc` is where
it waits: `taken` (message received, not claimed), `work`, `written` (a batch's rows are in the
database, the checkpoint is not saved), `tellDone`/`tellFailed` (status written, notification not yet),
`return`/`throw` (what BullMQ is about to see). Actions are what happens between two awaits.
`lost` is the flag of `holdLease`, set only by a renewal that found another owner.
`found` is what a reaper cycle read; the decision is a later step on a document that may have changed.
`adding` is where a producer is between getJob, remove and add. `written` and `told` are what has
reached the listing and rejected collections and what the dealer was last told.

Faults are counted by `faults` and bounded by `MaxFaults`: a crash, a database error in the claim or
in the error handler, a lease that expires under a working attempt, a lost message, a producer that
fails half-way, a notification that cannot be stored, a hand-back at shutdown. Errors of the import
itself (temporary or permanent) are not bounded: the attempt limit bounds them. `MaxAsks` bounds
retries and photo archives.

### ImportBatch

`UploadPipeline` treats the rows of a batch as one step; this module opens it. `processInventoryBatch`
asks which rows are imported (`FindImported`), which plates are listed (`DetectDuplicates`), how many
listings the dealer has (`CountOpen`), inserts listings in row order (`InsertListing`, the ordered
`insertMany`) while the rejected records are written beside them (`WriteRejected`), and saves its counters
(`SaveCheckpoint`). Each is a step, and everything may change in between. A row is reduced to its
normalized plate or `Invalid`; the file `csv` is any assignment of these. `elsewhere` holds the other open
listings by plate, `listings` those imported from the file. `Leave` is what an error does: it hands the job back or fails it,
and since `Promise.all` does not stop the other write, the run becomes `late`: its inserts (the embeddings of a batch come
first) or its rejected records may still be written, one by one, until `StopWriting`, beside the attempt that follows.
`InsertRefused` is the E11000 of the two unique indexes, which is permanent; `Release` the hand-back at shutdown, under which the attempt runs on until
the process ends. `disturbed` records that an attempt began while another one still ran or wrote, or that a dealer changed
listings; what is stated only until then is false afterwards, also of the code: the second attempt may take rows that the first is
still inserting for its own and be refused, or find them listed and record them as duplicates. The job document is a status, an owner and the counters:
what the import sees of `JobStore`. `Outside` selects what dealers do meanwhile: open listings,
change their status, delete imported drafts.

### EmailOutbox

A cycle (`worker[w]`) goes through claim, look up, send, report; `Due` and `Oldest` are the claim's
filter and sort. `claimed` is "emailClaimedUntil lies in the future", `due` the same of the retry date, so
two minutes and retry delays pass by steps (`ClaimExpires`, `RetryComes`). The three reports look at neither
status nor claim, as in the code. A write the driver answers with an error may have been applied (`DatabaseError`), so that the
catch block of a cycle may meet an email it has itself marked sent or failed. Any send may outlast its claim. `delivered` and
`unrecorded` are histories: how often the mail went out, and how many of these no cycle could record.

### ListingPhotos

One listing and its objects in storage. `run[a]` is an attempt of `processInventoryImages` at this
listing: read the array (`FindListings`), upload what is missing and fits (`UploadPhotos`), append under the
filter of `appendListingImages`, remove the objects if the append was refused, complete. `request[r]` is a call of the
dealer: add, delete, reorder, delete the listing, bulk deletion. `seen` is the array its last query or
update returned, which it may write back. A photo of the archive has one key in all attempts
(`deterministicImageKey`), an added one a key of its own. The position numbers and the order are left out, so
the array is a set; an entry that is put back after a failed deletion carries a flag, because it can
stand beside one with the same key. A photo and its small copy are one object. A lost answer of MongoDB
is not modelled here.

### ListingLifecycle

Every request of `listing.service.ts` is a process that reads and writes in separate steps (`pc`), beside the drafts an
import inserts. `Open` are the statuses that the partial unique index covers; a write that meets it is the E11000 path of the
code. `bulk` changes listing after listing, as `updateMany` does. `acked` remembers what acknowledged edits wrote, `raced` which
listings had edits that overlapped, `uncounted` whether a listing opened that no count saw.

### DealerApplications

One account with at most one application, its files in `store` under keys that name the submission they came with. A submission stores
files, looks, writes and deletes what it read as replaced, or undoes what it stored. A write may be applied and its answer lost
(`Answers`): the request then deletes the documents of the application it has just made pending (`unanswered`, `lost`); an upload may
store an object and report an error, which nothing removes (`StoringFails`). A review checks the address and decides in a
transaction; a view writes its audit record before it reads the object; a sweep of the retention job deletes file by file and then
clears the list. `harm` collects the crashes, lost answers, failed deletions and races after which an exception is stated.

### Catalogue: PublicVisibility, BuyerQueries, ImageMigration

`PublicVisibility` has a clock in ticks; `overtaken` are the instances whose copy was stored after the ids it was read from had
changed. `BuyerQueries` takes a vehicle as a number that says its age, and a text as a sequence of words: `AnalyzeSearchQuery`
applies the rules of `analyzeSearchQuery` in their order, each taking its first match out of the text. A search is asked, finds, counts
and asks the vector index in separate steps, and every further page is a request of its own; the ids hidden are those read when the
request began. A sorted result is a set in an order (`Ordered`), the order being the set of its pairs. `visible` says which vehicles were
active, and which not hidden with their dealer, at some moment since the request.

`ImageMigration` is the maintenance command at one listing. `script` is where its loop stands, with the listing as the cursor read it
and the options of this run; `objects` is what storage has of each photo, `listed` the entries with their two URLs, reduced to the
base they begin with. Every call to storage or MongoDB is a step; `Stops` ends a run anywhere, and a second run may have other options. A
photo that cannot be re-encoded, or whose small copy cannot be made or stored (`ThumbFails`, any photo in any run), is counted as failed
and passed over (`script.failed`); what a finished run promises is of the others. The dealer's deletion of a photo takes its steps in
between, the last of which writes back the entries it read (`WriteBack`). If one of its three calls to storage fails, the entry is listed
again while the others go on (`DeletionFails`, `RestoreEntry`, `LateDelete`): photos that have lost an object that way (`broken`) are excepted.

These three and `ListingLifecycle` share no variable: each has its own view of the listings, as detailed as its question needs, and
is told of changes by steps of its own. So a behaviour of `Catalogue` moves one of them (`side`).

### BackendEdge: RequestGate, Inbox

`RequestGate` has the token cache as a sequence (a JavaScript `Map` in insertion order), calls that authenticate, enter the
gate, finish or are closed, and the phases of the shutdown with its two timers. `Inbox` has the database's notifications, numbered
as they were created, the page's copy and its polls, each with two queries that the server runs side by side: all unread ones are
counted, the newest `PageSize` (20 in the code) are listed. A reminder is claimed in one step and recorded, or lost, in another; that the
claim also asks for the account's role and suspension, and so may be refused more often, is left out. The two share no variable either (`part`).

### Browser and its parts

The ten parts of the frontend are composed in the same way: a page is mounted with its own state. In each, a request is sent in one step and
answered, or failed, in a later one; effects and timers are steps that act on the values of the render that set them up
(`Marketplace` and `ListingManager` keep what a pending debounce closed over). What a page does not show, such as layout and wording, is left out.
`Session` is the only one that knows tokens: `firebase` is whose token a request carries, `shown` the user loaded last.
The cache of queries belongs to the tab (`providers.tsx`), so `ListingManager` has visits to other pages too: the dealer saves a listing in the form,
which leaves every key of the table as it is (`SaveInForm`; any of them may have passed its five minutes meanwhile), or publishes the drafts of
an upload, which makes them all invalid (`PublishUpload`), and comes back to a table mounted anew over the cache. Both happen only while no action is
under way and no dialog is open. `missed` is the set of keys that may lack a change until they are asked for again.
`UploadScreens` abstracts the worker to steps of the job document; `AdminScreens` has the records' truth beside the rows shown.
`VehicleRules` is not about concurrency but about four tables that were written apart: what one asks for, another must accept.

## 3. Runs

| Run | Instance | Shows |
|---|---|---|
| `UploadSafety` | 2 slots, 1 reaper, 1 request, 2 batches, 2 attempts per stage, 1 per queue message, 2 faults, 1 ask | one open stage, a lease exactly while processing, the holder's counters are the document's (`LeasesAreSound`); durable checkpoint, whole completion (`NothingIsSkipped`); `ToldIsTrue`; `CheckpointGrows`; every step is one of `UploadLifecycle` |
| `UploadLiveness` | 1 batch, 2 attempts per stage and per message, 1 fault, 1 ask | whatever is accepted ends |
| `Import` | every CSV of 3 rows over 3 plates and Invalid, batches of 2, limit 2, 2 attempts, dealers who open, close and delete, 3 events | no counted row is undecided (`RowsDecided`); counters are backed by rows, and exact in number while attempts do not overlap or go on after a hand-back (`CountersHold`); limit and checks suffice while nobody interferes (`ChecksHold`) |
| `ImportOwnRow` (violated) | 2 attempts, no dealers, 2 events | an overtaken attempt inserts rows that are imported |
| `Outbox` | 2 workers, 2 emails (one without recipient), 2 attempts, cycles of 2, 3 events | given up for a reason, ends sent or given up; until a claim runs out under a running send: one sender, repeats only after an unrecorded delivery, outcomes final |
| `Photos` | 2 attempts, 3 requests of any kind, 2 archive photos, limit 2, 2 faults of any kind | limit and distinctness until a failed deletion is put back; shown photos exist until an attempt is overtaken or an order written over another; nothing stays behind without a fault |
| `PhotosTakeover` (violated) | 2 attempts, no request, 1 lease taken over | the overtaken attempt deletes objects that the listing shows |
| `Listings` | 2 requests of a dealer or an administrator, 2 listings, 2 plates, limit 1; 2 instances, 2 status changes; 4 vehicles of which 1 changes, pools of 2, pages of 1; 2 photos, one undecodable, 2 runs (a dry run or any writing options), 1 stop | unique plates, limit, published before sold (`RulesKept`); acknowledged edits stay and are searchable (`EditsAreWhole`); transitions and owners (`MovesAreAllowed`); suspended dealers are hidden, results fit and add up, photos that did not fail are moved and exist (`PublicPagesHold`) |
| `Applications` | 2 submissions, perhaps an earlier rejected one, 1 review beside the earlier, 1 view, 1 retention worker, 1 file | documents of a pending application exist, but for a lost answer, none is orphaned; role, history and audit log agree; a decision is taken once; old documents go |
| `RetentionRace` (violated) | the same | the job clears the list of a submission it has not deleted |
| `Edge` | 2 upload requests, 2 tokens, a cache of 1, a gate of 1; 2 notifications and a page of 1, 2 polls, 1 click | revoked tokens stop, slots are given back once, connections outlive the requests, one reminder per period; the bell and a shutdown end where they should |
| `Browser` | each of ten parts with 1 to 3 items of a kind and 1 fault; the table with a draft, an archived listing and one the form may create | data shown is the user's, forms keep what they say, pages at rest are current (the table unless the form saved a listing since it was asked for), nothing is busy for ever |

`UploadSafety` is symmetric in the slots, `Import` in attempts and plates, `Photos` in attempts and requests, `Listings` in requests
and plates; the runs with liveness use no symmetry. Deadlock checking is off where the system may stop: when an upload has ended and
nobody asks for more, or all requests of an instance have been made. The outbox run checks for deadlock: its timer never stops.

Why the bounds suffice. With two slots one attempt can lose its lease to another, be overtaken by a batch and wake up; two batches
make a checkpoint that is neither the beginning nor the end; a limit of two attempts separates the first from the last; a message
with one attempt is used up by the first failure, which makes the reaper's way the usual one, and one with two is delivered again by
BullMQ; two faults allow a crash on top of a lost lease. Three rows in batches of two make a first batch, a short last one, and a plate
that occurs twice in one batch or across two; a limit below the number of rows leaves some over. Two emails let one overtake the
other. With room for two photos and two in the archive, an added photo takes room the worker counted on; three requests suffice for
one to read, one to change and one to write back. Two requests over two listings and two plates are one that decides on what another
changes, and a limit of one is reached by the first listing. Two browse requests and two changes let a late store overtake a drop of the
copy. Pools of two among four vehicles leave some out of each pool, and pages of one make two pages out of two results. Two runs of the
migration are one that stopped and one that takes up. One token more than the cache holds makes it evict, though a cache of one has no order to keep (`GateAlwaysHolds` is about every size); one upload more than the
gate admits makes it refuse. In the browser two requests of a kind are what can be answered in the wrong order, and one fault is what a
page must survive; a listing created in the form, a draft an upload's page publishes and an archived one are the changes that pages beside the table make. An active
listing that is long unconfirmed is not in that instance, which would take too long; the table alone has been checked with one of each kind, and the theorem covers it. The proofs remove the bounds for most of the safety properties of the backend and worker.

Fairness, and what in the code justifies it:

* `UploadPipeline`: the steps of an attempt, the expiry of a lease nobody renews, the reaper cycle (an interval timer, `worker.ts`),
  the queue procedure once begun, BullMQ's stalled check. Errors, faults, the dealer and the renewal timer owe nothing.
* `EmailOutbox`: the interval timer starts cycles (`worker.ts`), awaited calls return, claims and retry dates pass.
* `DealerApplications`: the retention timer starts sweeps (weak), and a sweep that is retried day after day is not for ever stopped by
  failing deletions (strong, on the deletion and on the final update).
* `BackendEdge`: the timers of the shutdown fire; the bell polls, and its polls are answered again and again; clicks, departures and
  handlers owe nothing.
* `Browser`: effects and timers of the page run; a request that was sent is answered or fails. The poll of an upload
  succeeds if it is sent for ever (strong). What the user does owes nothing.

## 4. Proofs

A run checks a small instance; the theorems below hold for every value of the constants, under the named ASSUMEs of the modules
(bounds are natural numbers, limits that the code keeps positive are positive, the names of nobody and nothing are none of the
real ones, the listings and files of an instance are finitely many). Every invariant below was checked by TLC on the instance of the run
before it was proved. Of the 40 properties of the passing runs, these are theorems:

| Module | Theorems (and the property of the run) |
|---|---|
| `UploadPipeline_proofs` | `PipelineTypes` (`TypeOK`), `LeaseSoundness` (`LeasesAreSound`), `NoBatchIsSkipped` (`NothingIsSkipped`), `NotificationIsTrue` (`ToldIsTrue`), `CheckpointNeverGoesBack` (`CheckpointGrows`), `PipelineImplementsLifecycle` (`ImplementsLifecycle`); beside them `CompletionIsFinal` |
| `ImportBatch_proofs` | `BatchTypes` (`TypeOK`), `NoRowIsLost` (`RowsDecided`), `CountersAreRight` (`CountersHold`), `ChecksAreEnough` (`ChecksHold`) |
| `EmailOutbox_proofs` | `OutboxTypes` (`TypeOK`), `NoEarlyEnd` (`GivenUpForAReason`), `OneSenderAtATime` (`OneSender`), `RepeatsAreUnrecorded` (`RepeatedOnlyIfUnrecorded`), `OutcomesAreFinal` (`OutcomeIsFinal`) |
| `ListingPhotos_proofs` | `PhotoTypes` (`TypeOK`), `ArraysAreSound` (`ArrayIsSound`), `StorageIsRight` (`StorageMatches`) |
| `Catalogue_proofs` | `CatalogueKeepsRules` (`RulesKept`), `CatalogueKeepsEdits` (`EditsAreWhole`), `CatalogueMovesFollow` (`MovesAreAllowed`), `CatalogueImplementsRequests`, `PublicPagesAlwaysHold` (`PublicPagesHold`; its parts are `HiddenInTime`, `SearchesAreSound`, `PhotosAreMoved`), `CatalogueTypes` (`CatalogueTypeOK`) |
| `DealerApplications_proofs` | `ApplicationTypes` (`TypeOK`), `DocumentsAlwaysMatch` (`DocumentsMatch`), `DecisionsAlwaysHold` (`DecisionsHold`), `DecidedOnlyOnce` (`DecidedOnce`) |
| `BackendEdge_proofs` | `EdgeTypes` (`EdgeTypeOK`), `GateAlwaysHolds` (`GateHolds`), `InboxAlwaysHolds` (`InboxHolds`) |
| `Browser_proofs` | `TabTypes` (`BrowserTypeOK`), `SessionIsTrue` (`SessionHolds`), `FormsAreKept` (`FormsHold`), `ScreensAreTrue` (`ScreensHold`), `AnswersAreOwn` (`BrowserActs`) |

All are laid out alike: what a property needs beside itself is a conjunction of named parts, lemmas say for each action what it does
to them, and the theorem combines the initial state, the steps and the consequence.

**UploadPipeline.** `CompletedIsWhole` is not inductive: that completion implies every batch is written needs the checkpoint to be
durable and the completing attempt to have counted what the document counts (`HolderIsCurrent`). That in turn needs a lease to be held
exactly while processing (`LeaseIffProcessing`), because a claim is what sets the attempt's counter, and needs that an attempt about to
save its checkpoint has written the batch (`WrittenBeforeSaved`). `OneStageAtATime`, which keeps the two stages from sharing the lease,
follows from photos being asked for only after the CSV has completed (`PhotosAfterCsv`) and from nothing reopening it. `Coherent` is
their conjunction and `IndInv` is `TypeOK /\ Coherent`. `QuietStep` and `YieldStep` deal with the steps that leave the document alone or
give it up, `ClaimStep`, `WriteBatchStep`, `SaveCheckpointStep` and `FinishStageStep` with the four that matter. The action properties
and the refinement follow from the invariant by `LifecycleStep`, which says which step of the lifecycle each action is.

**ImportBatch.** `RowsDecided` is not inductive: an overtaken attempt saves its own, possibly older, view of the batch only while it
holds the lease, and what it saves was decided by others. `AttemptOK` says of every attempt, stale or not, that what it has behind it is
decided and that its batch is divided completely; since decisions are never withdrawn (`Growing`), one attempt's steps cannot spoil
another's. `TallyInv` adds that counters add up and claim no more than the collections hold. The exact statements, which hold until
attempts overlap or dealers interfere, need to know which rows are imported at all, whoever decides it and however often: those that
come first with their plate, as far as the limit goes (`Firsts`, `Chosen`). `ChoiceInv` says that these are inserted in order, that no chosen row
is rejected, and that an attempt between two of its queries sorts its batch as they were chosen (`Sorted`); `RoomForChosen` shows
that the capacity count agrees. The proof corrected the model's property: the counters of rejected and of duplicate rows are exact
only together. With a limit of one and a plate three times in a file, an attempt that is handed back
has recorded a row as duplicate of a row past the limit; the next attempt no longer knows the plates of rows past the limit and counts the row as
rejected, while its record stays what it was (`detectDuplicates.ts:14`, `uploadJob.service.ts:52`).

**EmailOutbox.** A cycle knows the number of its attempt and the document's count only grows (`Informed`), hence `NoEarlyEnd`. Until a
claim has run out under a running send, whoever works on an email holds its claim and finds it pending (`Holding`), alone (`Sole`), so
nobody else can claim it unless its own write ended the email without an answer, and each delivery is recorded, about to be recorded, or counted as unrecorded (`Accounted`).

**ListingPhotos.** The limit is not inductive, because requests write back arrays they have read: `Arrays` states limit and
distinctness of every array that any request remembers, and `Fresh` that the key of a photo still being added is in none of them, or pushing
it could double it. `ArrayWithOne` and `ArrayWithMany` are the counting behind the two filters. That shown photos are stored needs that
what waits to be attached, or to be thrown away, is not shown (`Unshown`) and that what is about to be attached is stored (`Uploaded`);
that nothing stays behind needs somebody for every object that is not shown (`Tended`).

**Catalogue.** A request relies, between its read and its write, on what it read only as far as the filter of the write repeats it: `Sound`
says what that is, for each operation (`Creation`, `Edition`, `Transition`, `Removal`). With it every step is a write of one listing that
the index accepts, that follows the lifecycle and that was counted (`Writes`), and `WriteKeepsRules` shows that such a write keeps the
rules. For the copies of suspended ids (`VisibilityInv`) the point is that one that disagrees with the database and was not stored over a drop
ends by the time promised when the database changed (`Kept`). For the migration, `MigrationInv` says what a run has found out about
photos it has done with (`Earlier`) and that a disturbed run still harms nothing: a photo whose object it removes has another or has
been deleted for good (`OnPhoto`, `Deleted`); the array that a deletion writes back must be as sound as the listing's (`Arrays`).

Searches need facts about lists first. An order is the set of its pairs (`ByDate`, `ByPrice`, `ByNearness`, `ByScore`, `ByLikeness`);
each of them arranges all vehicles (`Arranges`), and in a set so arranged the number of elements that come before one tells it apart and takes every value
(`PlacesAreTaken`). So every result has what it was made of, each once (`OrderedHasAll`), whichever the order. `PagesJoin` says that the
pages up to one, and that one, are a longer beginning of the list, and `PagesEnd` when a page is past the end. The invariant
(`QueriesInv`) has two halves. Whatever changes, what a request has found was public at some moment since it was asked for and fits
(`FoundSince`), because those it hides are at least the ones hidden all the time. While nothing changes (`CalmSearch`), what it has found
is what there is (`FoundNow`, `NearNow`), so that each request ranks the same list (`ListNow`), the total is its length, although it is
the smaller of two counts (`RankingAnswers`), and the pages read so far are its beginning. The last page offered is then not empty, nothing is
repeated and nothing left out. For recommendations `CalmPick` keeps, between the two queries for a pool, that the first was too small.
Here the proof assumes that a page, or a row, is not longer than the pool it is taken from (`PageLimit <= CandidateLimit`): pools have
300 and 200 vehicles in the code, and the validated limits stay far below (`search.validation.ts`, `buyer.validation.ts`).

`EverySide` says that a step of the catalogue is a step of each side or leaves it alone; so the catalogue implements the listing
requests, and each side's invariant is one of the catalogue.

**DealerApplications.** A submission owns the files it stored until it is over (`Holds`), and what it read of the application was rejected by a review
that is over (`Reads`), so that a late deletion of replaced documents meets only a version nobody will show again; a sweep holds documents
of a decided version only (`SweepSound`), and a decision in the audit log means a review that is over (`AuditSound`), so each rejection
in the log is one of the history. Frame lemmas (`HoldsFrame`, `ReadsFrame`, `SweepFrame`, `DealerFrame`) carry these over the steps
of the others. A submission whose answer was lost counts as one whose documents are in use (`Used`), also when it deletes them.

**BackendEdge.** `Asked` relates the moment Firebase was asked to now and to the revocation, `Cached` keeps the map of tokens without
repetition (`Tidy`) and every entry within the life it may have (`Sound`), over lookups, evictions and insertions (`Removed`, `OneLess`);
`Slots` counts the holders of the gate; `InboxInv` relates reminders to their period and read flags to clicks.

**Browser.** Each of the ten parts has an inductive invariant of its own. `PartInv` joins them, and `EveryPart` says that a step of the tab is
a step of the part it is on or leaves it alone. What most of them have to say is that what a page shows is current *or will be*: an answer that
makes it so is under way. For the session that is `ShownFollows` and `CacheFollows`: as long as no answer was shown after its account had
left, the user shown is the one signed in, or the load of the last callback is still to be answered, or a load failed and nobody is shown. For the listing form, `ChosenOnce` keeps a chosen
photo in one place on its way to the server, `StoredApart` says that what is still to be stored is not stored (but for the one whose
answer has not been read, `Answering`), `BatchStays` that every photo of a submission is stored or still selected, and `ShownSettles` that the photos
shown are the server's or an answer with them is to come. For the dealer's upload `SeenSettles`, for the listing table `AnswersHold` (of the keys that have missed no change) and for the
administration `RowsSettle` say the same of the job or rows shown; that a page of a table is never past its end rests on
`PlaceIsTaken`, a fact about ranks in a finite set. `RemovedOnce`, `AddedOnce` and `Swapped` are about lists without repetition, which the
form and the shortlist keep. The proof strengthened a property: `FieldsAreCurrent` used to be limited to profile forms whose last save had
not failed, and holds without that limit.

Only model-checked:

* Liveness (`UploadSettles`, `EmailSettles`, `DocumentsExpire`, `EdgeSettles`, and of `Browser` `BrowserSettles`): the prover has no
  backend here for ENABLED.
* Induction over data and RECURSIVE operators are out of the prover's reach; no module here needs them.

## 5. Findings

Three runs are expected to be violated; `PROJECT.json` quotes the lines that say otherwise.

1. `ImportOwnRow`: an attempt that asked which rows are imported before another one imported them inserts
   them again; the duplicate key is a permanent error, so the import fails although nothing is wrong. The other one need not have
   lost its lease: one whose rejected records failed is handed back while its inserts go on.
2. `PhotosTakeover`: a refused append is taken for a changed listing, but it is also what an attempt meets whose photos
   another one has attached; it then deletes their objects.
3. `RetentionRace`: the job clears the documents of an application by its id; one that was submitted again since the query
   loses its new list, whose files stay in storage out of everybody's sight.

Properties that stand beside the others in the modules and that the code does not keep; they are not among the runs:

* `AttemptsAreCapped` (UploadPipeline): a hand-back at shutdown in the last attempt, then a redelivery, claims a job once
  more than the limit. `ReaperFailsOnlyExpected`: the reaper fails a job by its id and an open status; a lease renewed, or a
  dealer's retry, after the query is not noticed.
* `DisappearAtOnce` (PublicVisibility): a browse request that read the suspended ids before a suspension stores them over the copy the
  suspension dropped; the dealer stays visible on that instance for CACHE_MS more.
* `BuffersCapped` (RequestGate): the slot of an upload whose client left is free while its handler still holds the buffers.
* `NothingStays` (ImageMigration): `migrateListingImages.ts:7` says that originals kept by `--keep-legacy` can be deleted by running
  again without it, and line 10 that stopping is safe. A photo that is under the prefix is taken for done, so an original
  that was kept, or not yet removed when a run stopped, stays for ever, with the metadata the move was to strip.

Observed while modelling the backend and the worker:

* An upload the reaper fails is followed by no notification, although `README.md:44` lists a failed CSV upload
  among those that send one.
* A row has two outcomes when a plate or capacity is freed between two attempts: the rejected record stays and the
  row is imported. The limit is exceeded when the dealer creates listings between count and insert, or makes a sold one active
  again. A draft deleted before its batch is repeated is imported again.
* A send that outlasts its claim is repeated by a second worker, and the later of two reports wins.
* An email whose "sent" was written, but not answered, in the last attempt ends as failed: the catch block gives it up (`emailOutbox.job.ts:32-36`).
* When the answer to the write of an application is lost, the catch block of `dealer.controller.ts:17-20` deletes the documents of the
  application that is now pending; the administrator finds a list whose files are gone.
* With reordering or deletion of photos beside an addition or the migration, an array written back drops the added photo, shows
  a deleted one again or brings back old URLs. A failed deletion restores the entry without regard to the limit and possibly
  without its object. A bulk deletion misses photos attached after its query.
* Overlapping edits of two attributes of a listing undo each other, because the attributes are written as a whole.
* The location of a query swallows the words behind it ("near kandy suv" looks for the place "kandy suv"); a text that names two kinds of
  vehicle matches none; with a sort order the words that are left are ignored; only the newest candidates take part in a text search; an
  embedding service that fails between two pages reorders them. Recommendations are ranked over the whole pool, so that the nearby
  price band does not come first, as `buyer.service.ts` says it does.

Observed while modelling the frontend:

* An answer that arrives between Firebase's sign-in and the next account's load may show the previous user, for which
  `AuthProvider.tsx:32` has a comment; `ShownIsSignedIn` and `CacheIsOwn` are stated up to that (`outdated`). The status page keeps
  the previous user's application; a verification answer that comes late hides the next user's banner.
* `UploadDetails` fetches the rejected rows once and never again; the list of uploads is not refetched after an upload.
* The crop dialog has no key per photo (`ListingForm.tsx:218`, `ImageCropModal.tsx:18`), so the second of several photos may be
  shown with the first one's URL.
* A debounce that fires late writes an older text over a filter chosen since (`ListingManager.tsx:58-61`, `Marketplace.tsx:29-36`).
  Rows ticked during a refetch stay ticked. After a listing was created or edited in the form, a table shown from the cache lacks it for up to
  five minutes (`queryClient.ts:6`), because `ListingForm.tsx:137-146` makes nothing invalid; `TableIsCurrent` is stated up to that. A price reduction whose answer was lost is made twice when retried.
* Edits of a listing merge attributes of the former category and ignore category and status; zero passes `min="0"`; the import
  accepts the fuel "other", which neither the guide nor the form knows; the category links of the footer are read by no page.
* Tables of administrators show the answer that came last, not the one asked last, on the pages without an `active` flag. The dealer
  profile's text typed during a save is overwritten by its answer. Two tabs overwrite each other's comparison.

## 6. Not modelled

* Validation schemas, serializers, normalization of a row: parsing of single values. The import takes the verdict as its input, and which
  attributes there are is in `VehicleRules`.
* Read endpoints and controllers: one read of one document, passed on.
* `updateMyDealerProfile`, saved listings and view counters: one conditional update each, which nothing else reads in between.
* Configuration, health endpoints and heartbeats; landing page, dashboards, layouts, wording and translations: no state, or state that is loaded once.
* File validation and storage of an upload before its document exists.
* Of the frontend: the submit button of `ListingForm` can be used while "Retry images" loads (`ListingForm.tsx:32`; `HandleSubmit` waits for that
  load); the tables of administrators disable only the row being saved (`UserManagement.tsx:64`, `ListingMonitoring.tsx:76`,
  `DealerApprovals.tsx:75`), while `Decide` takes one action at a time; `SaveProfile` sends and is answered in one step
  (`AuthProvider.tsx:71-72`). Listings that the worker imports, or another tab changes, while the table is open are not noticed by it and not modelled.
* Relevance: which vehicles are near a query is a table (`Nearness`); spelling corrections and most filters are left out.
* MongoDB's transactions, BullMQ, Redis, S3, Firebase and React appear only as what the code sees of them.
* Each model has one upload, one batch file, one listing with photos, one application, one tab: what several have in common is
  the subject of `ListingLifecycle` and `ImportBatch`, and nothing else is shared.
