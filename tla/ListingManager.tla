----------------------------- MODULE ListingManager -----------------------------
(***************************************************************************)
(* A dealer's inventory table, ListingManager and ReducePriceDialog (apps/ *)
(* frontend/src), over TanStack Query: the URL says which rows are asked   *)
(* for, a text typed reaches it after 300 ms, and bulk actions act on the  *)
(* rows that are ticked.  The query cache is the tab's: other pages change  *)
(* the listings, and one of them leaves the cache as it is.                *)
(***************************************************************************)
EXTENDS Naturals, Sequences, FiniteSets

CONSTANTS
  Rows,              \* the dealer's listings, a set of numbers: the order of the table
  Unconfirmed,       \* those active and long unconfirmed at first
  Archived,          \* those archived at first
  Unwritten,         \* those not there at first, the others being drafts
  Found,             \* those the text typed finds
  RowsPerPage,
  MaxMoves,          \* bound on clicks that change the URL, changes of the text and visits to other pages
  MaxActions,        \* bound on bulk actions
  MaxManagerFaults   \* bound on failed requests and lost answers

ASSUME ListingManagerAssumption ==
  /\ Rows \subseteq Nat /\ Found \cup Unconfirmed \cup Archived \cup Unwritten \subseteq Rows /\ RowsPerPage \in Nat \ {0}
  /\ {MaxMoves, MaxActions, MaxManagerFaults} \subseteq Nat

VARIABLES
  inventory,  \* the listings of the server
  url,        \* searchParams
  typed,      \* search: the text in the field
  timer,      \* the searchParams of the render the debounce closed over
  ticked,     \* selected
  table,      \* the query cache: [url |-> answer] of those asked for so far
  tableStale, \* the keys to be asked for again when shown
  tableAsks,  \* answers of queries under way, as read when asked
  bulk,       \* the bulk action under way; busy
  dialog,     \* the listings of the open price dialog
  wanted,     \* the view clicked last, history
  managerHistory

managerPage == <<url, typed, timer, ticked, table, tableStale, tableAsks, dialog, wanted>>
managerVars == <<managerPage, inventory, bulk, managerHistory>>

Views == {"all", "stale", "archived"}
Actions == {"publish", "mark-sold", "archive", "confirm-available", "reduce-price", "delete"}
Urls == [view : Views, status : {"all", "draft"}, q : BOOLEAN, page : Nat \ {0}]
FirstUrl == [view |-> "all", status |-> "all", q |-> FALSE, page |-> 1]
NoUrl == [FirstUrl EXCEPT !.page = 0]
Items == [status : {"draft", "active", "sold", "archived", "gone"}, stale : BOOLEAN]
NoBulk == [pc |-> "idle", action |-> "none", ids |-> {}]

ManagerTypeOK ==
  /\ inventory \in [Rows -> Items]
  /\ url \in Urls /\ typed \in BOOLEAN /\ timer \in Urls \cup {NoUrl} /\ wanted \in Views
  /\ ticked \subseteq Rows /\ dialog \subseteq Rows
  /\ DOMAIN table \subseteq Urls /\ tableStale \subseteq DOMAIN table
  /\ \A a \in tableAsks : a.url \in Urls /\ a.rows \subseteq Rows
  /\ bulk.pc \in {"idle", "sent", "done", "refresh"}
  /\ managerHistory.missed \subseteq Urls

\* A tab opens on the table with nothing cached.
ManagerInit ==
  /\ inventory = [l \in Rows |-> [status |-> CASE l \in Unconfirmed -> "active" [] l \in Archived -> "archived"
                                              [] l \in Unwritten -> "gone" [] OTHER -> "draft",
                                 stale |-> l \in Unconfirmed]]
  /\ url = FirstUrl /\ typed = FALSE /\ timer = NoUrl /\ wanted = "all"
  /\ ticked = {} /\ dialog = {} /\ table = <<>> /\ tableStale = {} /\ tableAsks = {}
  /\ bulk = NoBulk
  /\ managerHistory = [moves |-> 0, actions |-> 0, faults |-> 0, early |-> FALSE, hasty |-> FALSE, missed |-> {}]

-----------------------------------------------------------------------------
(* listMyListings: the rows of a view and filters, and of one page.          *)

Matches(u, l) ==
  /\ u.q => l \in Found
  /\ CASE u.view = "archived" -> inventory[l].status = "archived"
       [] u.view = "stale" -> inventory[l].status = "active" /\ inventory[l].stale
       [] u.status = "all" -> inventory[l].status \notin {"archived", "gone"}
       [] OTHER -> inventory[l].status = u.status
Listed(u) == {l \in Rows : Matches(u, l)}
TotalPages(u) == (Cardinality(Listed(u)) + RowsPerPage - 1) \div RowsPerPage
OnPage(u) ==
  {l \in Listed(u) : LET before == Cardinality({k \in Listed(u) : k < l}) IN
                     before >= (u.page - 1) * RowsPerPage /\ before < u.page * RowsPerPage}

Answered == url \in DOMAIN table
Shown == IF Answered THEN table[url].rows ELSE {}
Pages == IF Answered /\ table[url].pages > 0 THEN table[url].pages ELSE 1
Fetches == \E a \in tableAsks : a.url = url
Question(u) == [url |-> u, rows |-> OnPage(u), pages |-> TotalPages(u)]

Asked == {a.url : a \in tableAsks}
AskTable(u) == tableAsks' = {a \in tableAsks : a.url # u} \cup {Question(u)}
\* A key never asked for, or invalidated, is asked for when it is shown; a query that failed, again.
AskForRows ==
  /\ ~Fetches /\ (~Answered \/ url \in tableStale)
  /\ AskTable(url) /\ tableStale' = tableStale \ {url}
  /\ managerHistory' = [managerHistory EXCEPT !.missed = @ \ {url}]
  /\ UNCHANGED <<inventory, url, typed, timer, ticked, table, bulk, dialog, wanted>>
\* A failure, after which the answers for these keys may lack a change.
ManagerFault(keys) ==
  /\ managerHistory.faults < MaxManagerFaults
  /\ managerHistory' = [managerHistory EXCEPT !.faults = @ + 1, !.missed = @ \cup keys]
\* An answer makes its key valid, even one asked for before the key was invalidated.
RowsArrive(a) ==
  /\ tableAsks' = tableAsks \ {a}
  /\ \/ table' = [u \in DOMAIN table \cup {a.url} |-> IF u = a.url THEN [rows |-> a.rows, pages |-> a.pages] ELSE table[u]]
        /\ tableStale' = tableStale \ {a.url} /\ UNCHANGED managerHistory
     \/ ManagerFault({}) /\ tableStale' = tableStale \cup ({a.url} \cap DOMAIN table) /\ UNCHANGED table
  /\ UNCHANGED <<inventory, url, typed, timer, ticked, bulk, dialog, wanted>>

-----------------------------------------------------------------------------
(* The URL.  Another view, filter, page or text unticks every row.           *)

\* Variant: only another view unticks the rows.
GoTo_KeepsTicks(next) == url' = next /\ ticked' = (IF next.view = url.view THEN ticked ELSE {})

GoTo(next) == url' = next /\ ticked' = (IF next = url THEN ticked ELSE {})
Move ==
  /\ managerHistory.moves < MaxMoves /\ dialog = {}
  /\ managerHistory' = [managerHistory EXCEPT !.moves = @ + 1, !.hasty = @ \/ timer # NoUrl]
  /\ UNCHANGED <<inventory, typed, timer, table, tableStale, tableAsks, bulk, dialog>>
ChooseView == Move /\ \E v \in Views : wanted' = v /\ GoTo([url EXCEPT !.view = v, !.status = "all", !.page = 1])
ChooseStatus ==
  /\ url.view = "all" /\ Move /\ UNCHANGED wanted
  /\ \E s \in {"all", "draft"} : GoTo([url EXCEPT !.status = s, !.page = 1])
TurnPage ==
  /\ Answered /\ Move /\ UNCHANGED wanted
  /\ \/ url.page > 1 /\ GoTo([url EXCEPT !.page = @ - 1])
     \/ url.page < Pages /\ GoTo([url EXCEPT !.page = @ + 1])

\* The effect of the text is that of the render in which it changed.
Type ==
  /\ managerHistory.moves < MaxMoves /\ dialog = {}
  /\ typed' = ~typed /\ timer' = url
  /\ managerHistory' = [managerHistory EXCEPT !.moves = @ + 1]
  /\ UNCHANGED <<inventory, url, ticked, table, tableStale, tableAsks, bulk, dialog, wanted>>
TimerFires ==
  /\ timer # NoUrl /\ timer' = NoUrl
  /\ IF timer.q # typed THEN GoTo([timer EXCEPT !.q = typed, !.page = 1]) ELSE UNCHANGED <<url, ticked>>
  /\ UNCHANGED <<inventory, typed, table, tableStale, tableAsks, bulk, dialog, wanted, managerHistory>>

-----------------------------------------------------------------------------
(* Ticks, the price dialog and bulk actions; the buttons wait for the one    *)
(* under way.                                                               *)

\* toggleOne, toggleAll and Clear
Tick ==
  /\ dialog = {}
  /\ \/ \E l \in Shown : ticked' = IF l \in ticked THEN ticked \ {l} ELSE ticked \cup {l}
     \/ Shown # {} /\ ticked' = IF Shown \subseteq ticked THEN {} ELSE Shown
     \/ ticked # {} /\ ticked' = {}
  /\ managerHistory' = [managerHistory EXCEPT !.early = @ \/ Fetches \/ url \in tableStale]
  /\ UNCHANGED <<inventory, url, typed, timer, table, tableStale, tableAsks, bulk, dialog, wanted>>

Run(action, ids) ==
  /\ managerHistory.actions < MaxActions
  /\ managerHistory' = [managerHistory EXCEPT !.actions = @ + 1]
  /\ bulk' = [pc |-> "sent", action |-> action, ids |-> ids]
\* Those ticked, or one by the buttons of its row, whatever status it shows.
RunOnRows ==
  /\ bulk = NoBulk /\ dialog = {}
  /\ \E ids \in {ticked} \cup {{l} : l \in Shown},
        action \in IF url.view = "archived" THEN {"delete"}
                   ELSE {"confirm-available", "mark-sold", "archive"} \cup (IF url.view = "all" THEN {"publish"} ELSE {}) :
       ids # {} /\ Run(action, ids)
  /\ UNCHANGED <<inventory, url, typed, timer, ticked, table, tableStale, tableAsks, dialog, wanted>>
OpenDialog ==
  /\ bulk = NoBulk /\ dialog = {} /\ url.view # "archived"
  /\ dialog' \in {ticked \cap Shown} \cup (IF url.view = "stale" THEN {{l} : l \in Shown} ELSE {})
  /\ dialog' # {}
  /\ UNCHANGED <<inventory, url, typed, timer, ticked, table, tableStale, tableAsks, bulk, wanted, managerHistory>>
\* Its button waits for its own request; Escape and the backdrop do not.
ConfirmDialog ==
  /\ bulk = NoBulk /\ dialog # {} /\ Run("reduce-price", dialog)
  /\ UNCHANGED <<inventory, url, typed, timer, ticked, table, tableStale, tableAsks, dialog, wanted>>
CloseDialog ==
  /\ dialog # {} /\ dialog' = {}
  /\ UNCHANGED <<inventory, url, typed, timer, ticked, table, tableStale, tableAsks, bulk, wanted, managerHistory>>

After(action, item) ==
  CASE action = "publish" /\ item.status = "draft" -> [item EXCEPT !.status = "active", !.stale = FALSE]
    [] action = "mark-sold" /\ item.status = "active" -> [item EXCEPT !.status = "sold", !.stale = FALSE]
    [] action = "archive" /\ item.status \in {"draft", "active", "sold"} -> [item EXCEPT !.status = "archived", !.stale = FALSE]
    [] action = "confirm-available" /\ item.status = "active" -> [item EXCEPT !.stale = FALSE]
    [] action = "reduce-price" /\ item.status \in {"draft", "active"} -> [item EXCEPT !.stale = FALSE]
    [] action = "delete" /\ item.status = "archived" -> [item EXCEPT !.status = "gone"]
    [] OTHER -> item
ServerActs ==
  /\ bulk.pc = "sent"
  /\ inventory' = [l \in Rows |-> IF l \in bulk.ids THEN After(bulk.action, inventory[l]) ELSE inventory[l]]
  /\ bulk' = [bulk EXCEPT !.pc = "done"]
  /\ UNCHANGED <<managerPage, managerHistory>>

\* refresh: every key is invalid, and the one shown is asked for.
BulkSucceeds ==
  /\ bulk.pc = "done"
  /\ ticked' = {} /\ bulk' = [bulk EXCEPT !.pc = "refresh"]
  /\ AskTable(url) /\ tableStale' = DOMAIN table \ {url}
  /\ managerHistory' = [managerHistory EXCEPT !.missed = (@ \cup Asked) \ {url}]
  /\ UNCHANGED <<inventory, url, typed, timer, table, dialog, wanted>>
\* Its end closes the dialog that asked for it.
RefreshEnds ==
  /\ bulk.pc = "refresh" /\ ~Fetches
  /\ dialog' = (IF bulk.action = "reduce-price" THEN {} ELSE dialog)
  /\ bulk' = NoBulk
  /\ UNCHANGED <<inventory, url, typed, timer, ticked, table, tableStale, tableAsks, wanted, managerHistory>>
BulkFails ==
  /\ bulk.pc \in {"sent", "done"} /\ ManagerFault(IF bulk.pc = "done" THEN DOMAIN table \cup Asked ELSE {})
  /\ bulk' = NoBulk
  /\ UNCHANGED <<inventory, url, typed, timer, ticked, table, tableStale, tableAsks, dialog, wanted>>

-----------------------------------------------------------------------------
(* The rest of the tab: the dealer goes to another page and comes back, to a *)
(* table mounted anew over the cache there is.                              *)

ComeBack ==
  /\ managerHistory.moves < MaxMoves /\ bulk = NoBulk /\ dialog = {}
  /\ url' \in {url, FirstUrl} /\ typed' = url'.q /\ wanted' = url'.view
  /\ timer' = NoUrl /\ ticked' = {}
  /\ UNCHANGED <<table, tableAsks, bulk, dialog>>
Remounts(missed) ==
  managerHistory' = [managerHistory EXCEPT !.moves = @ + 1, !.early = FALSE, !.hasty = FALSE, !.missed = @ \cup missed]

\* What the form saves: a new listing, which comes first, or an edit, which confirms one.
NewListing ==
  \E l \in Rows, s \in {"draft", "active"} :
    /\ inventory[l].status = "gone" /\ \A k \in Rows : inventory[k].status # "gone" => l < k
    /\ inventory' = [inventory EXCEPT ![l] = [status |-> s, stale |-> FALSE]]
EditedListing ==
  \E l \in Rows : inventory[l].status # "gone" /\ inventory' = [inventory EXCEPT ![l] = [@ EXCEPT !.stale = FALSE]]
\* The form leaves every key as it is: an answer younger than five minutes is shown without asking.
SaveInForm ==
  /\ ComeBack /\ (NewListing \/ EditedListing)
  /\ \E old \in SUBSET DOMAIN table : tableStale' = tableStale \cup old
  /\ Remounts(DOMAIN table \cup Asked)

\* Publishing an upload's drafts makes every key invalid; a query under way is not asked again.
PublishUpload ==
  /\ ComeBack
  /\ \E drafts \in SUBSET {l \in Rows : inventory[l].status = "draft"} :
       inventory' = [l \in Rows |-> IF l \in drafts THEN After("publish", inventory[l]) ELSE inventory[l]]
  /\ tableStale' = DOMAIN table
  /\ Remounts(Asked)

-----------------------------------------------------------------------------
BulkStep == ServerActs \/ BulkSucceeds \/ RefreshEnds \/ BulkFails
RowsStep == \E a \in tableAsks : RowsArrive(a)
ManagerNext ==
  \/ AskForRows \/ RowsStep
  \/ ChooseView \/ ChooseStatus \/ TurnPage \/ Type \/ TimerFires
  \/ Tick \/ RunOnRows \/ OpenDialog \/ ConfirmDialog \/ CloseDialog
  \/ SaveInForm \/ PublishUpload
  \/ BulkStep

ManagerSpec == ManagerInit /\ [][ManagerNext]_managerVars

-----------------------------------------------------------------------------
\* "A selection only makes sense for the rows on screen": an action never reaches a row that is
\* not, unless it was ticked while the rows were being fetched again.
TickedIsShown == ~managerHistory.early => ticked \subseteq Shown

\* Rows at rest are those the server has, in whichever view and on whichever visit: what an action or
\* an upload's page changed is asked for again.  Some views miss a change until they are asked for
\* again: one asked for while it was made, every one when the answer of the action is lost, and
\* every one when the form saved a listing, for it invalidates nothing.
TableIsCurrent ==
  Answered /\ ~Fetches /\ url \notin tableStale \cup managerHistory.missed /\ bulk = NoBulk
    => Shown = OnPage(url)

\* The view stays the one clicked, unless it was clicked while a text was waiting to be searched for:
\* that text then brings back the filters of its own render.
ViewStays == ~managerHistory.hasty => url.view = wanted
==============================================================================
