---------------------------- MODULE AdminScreens ----------------------------
(***************************************************************************)
(* The tables of the administrator's portal (portals/admin/pages), between *)
(* the filters on the screen and the server.  A page of the "guarded" kind *)
(* (UploadMonitoring, AuditLogs, UploadCollection, AccountDetails) ignores *)
(* the answer to filters that have changed since; UserManagement,          *)
(* ListingMonitoring and DealerApprovals show whatever answer comes, and   *)
(* let the administrator act on a row meanwhile.                           *)
(***************************************************************************)
EXTENDS Naturals, FiniteSets

CONSTANTS
  Records,       \* users, listings, applications or log records, as numbers
  Marked,        \* those a filter by a fixed attribute (role, event) finds as "open"
  SlotCount,     \* bound: loads of the table under way at once
  MaxFilters,    \* bound on changes of the filters and pages
  MaxDecisions,  \* bound on actions of the administrator
  MaxAdminFaults

ASSUME AdminAssumption ==
  /\ Records \subseteq Nat /\ IsFiniteSet(Records) /\ Marked \subseteq Records
  /\ SlotCount \in Nat \ {0}
  /\ MaxFilters \in Nat /\ MaxDecisions \in Nat /\ MaxAdminFaults \in Nat

Slots == 1..SlotCount
Desks == {"users", "listings", "dealers", "guarded"}
AdminFilters == {"all", "open", "done"}

VARIABLES
  desk,          \* the page
  truth,         \* [Records -> status of the record on the server]
  filter,
  sheet,         \* page of the table, on a guarded page
  loads,         \* [Slots -> load of the table]
  tableRows,     \* rows of the table, with the status they show
  spinning,      \* loading
  adminTrouble,  \* error
  decision,      \* action under way
  misled,        \* the rows are those of other filters or of before an action, history
  filtered, decided, adminFaults

adminVars == <<desk, truth, filter, sheet, loads, tableRows, spinning, adminTrouble, decision, misled,
               filtered, decided, adminFaults>>
choiceVars == <<desk, filter, sheet, filtered>>
tableVars == <<tableRows, spinning, misled>>

Row == [id : Records, status : {"open", "done"}]
NoLoading == [pc |-> "idle", filter |-> "all", sheet |-> 1, live |-> FALSE, decided |-> 0,
              rows |-> {}]
NoDecision == [pc |-> "idle", id |-> CHOOSE i \in Records : TRUE, to |-> "done", filter |-> "all"]

AdminTypeOK ==
  /\ desk \in Desks /\ truth \in [Records -> {"open", "done"}]
  /\ filter \in AdminFilters /\ sheet \in Nat \ {0}
  /\ loads \in [Slots -> [pc : {"idle", "sent", "answered"}, filter : AdminFilters,
                          sheet : Nat \ {0}, live : BOOLEAN,
                          decided : 0..MaxDecisions, rows : SUBSET Row]]
  /\ tableRows \subseteq Row /\ spinning \in BOOLEAN /\ adminTrouble \in BOOLEAN
  /\ decision \in [pc : {"idle", "sent", "answered", "reload"}, id : Records \cup {NoDecision.id},
                   to : {"open", "done"}, filter : AdminFilters]
  /\ misled \in BOOLEAN
  /\ filtered \in 0..MaxFilters /\ decided \in 0..MaxDecisions /\ adminFaults \in 0..MaxAdminFaults

ByStatus == desk \in {"listings", "dealers"}
Fits(i, f) ==
  f = "all" \/ (IF ByStatus THEN truth[i] = f ELSE (i \in Marked) = (f = "open"))
FoundBy(f) == {i \in Records : Fits(i, f)}

\* A guarded page shows one record at a time, in the order of their numbers.
Table(f, p) ==
  {[id |-> i, status |-> truth[i]] :
     i \in {j \in FoundBy(f) : desk = "guarded" => Cardinality({k \in FoundBy(f) : k <= j}) = p}}

AdminFault == adminFaults < MaxAdminFaults /\ adminFaults' = adminFaults + 1
AdminFine == UNCHANGED adminFaults

-----------------------------------------------------------------------------
(* The effect that loads the table again when a filter has changed. *)

TableLoad(f, p) ==
  [pc |-> "sent", filter |-> f, sheet |-> p, live |-> TRUE, decided |-> decided, rows |-> {}]

AdminInit ==
  /\ desk \in Desks
  /\ truth \in [Records -> {"open", "done"}]
  /\ filter = IF desk = "dealers" THEN "open" ELSE "all"
  /\ sheet = 1
  /\ loads = [s \in Slots |->
       IF s = 1 THEN [NoLoading EXCEPT !.pc = "sent", !.filter = filter, !.live = TRUE]
       ELSE NoLoading]
  /\ tableRows = {} /\ spinning = TRUE /\ adminTrouble = FALSE
  /\ decision = NoDecision /\ misled = FALSE
  /\ filtered = 0 /\ decided = 0 /\ adminFaults = 0

\* The cleanup of the effect before: its answer will be ignored.
Abandoned == [s \in Slots |-> IF desk = "guarded" THEN [loads[s] EXCEPT !.live = FALSE] ELSE loads[s]]
FreeSlot == {s \in Slots : loads[s].pc = "idle" /\ \A r \in Slots : r < s => loads[r].pc # "idle"}
LoadTable(f, p) ==
  /\ \E s \in FreeSlot : loads' = [Abandoned EXCEPT ![s] = TableLoad(f, p)]
  /\ spinning' = TRUE /\ adminTrouble' = FALSE

ChooseFilter(f) ==
  /\ filtered < MaxFilters /\ filtered' = filtered + 1
  /\ f # filter /\ (desk = "dealers" => f # "all")
  /\ filter' = f /\ sheet' = 1
  /\ LoadTable(f, 1)
  /\ AdminFine /\ UNCHANGED <<desk, truth, tableRows, decision, misled, decided>>
TurnSheet ==
  /\ desk = "guarded" /\ filtered < MaxFilters /\ filtered' = filtered + 1
  /\ \E p \in 1..Cardinality(FoundBy(filter)) :
       p \in {sheet - 1, sheet + 1} /\ sheet' = p /\ LoadTable(filter, p)
  /\ AdminFine /\ UNCHANGED <<desk, truth, filter, tableRows, decision, misled, decided>>

ServerLists(s) ==
  /\ loads[s].pc = "sent"
  /\ loads' = [loads EXCEPT ![s].pc = "answered", ![s].decided = decided,
                            ![s].rows = Table(loads[s].filter, loads[s].sheet)]
  /\ AdminFine /\ UNCHANGED <<choiceVars, truth, tableVars, adminTrouble, decision, decided>>

Outdated(s) == loads[s].filter # filter \/ loads[s].decided # decided

\* DealerApprovals waits for its own load after a decision.
Settle(s) == decision' = IF decision.pc = "reload" THEN NoDecision ELSE decision

Shows(s) == loads[s].live
TableArrives(s) ==
  /\ loads[s].pc = "answered"
  /\ loads' = [loads EXCEPT ![s] = NoLoading]
  /\ IF Shows(s)
       THEN tableRows' = loads[s].rows /\ misled' = Outdated(s) /\ spinning' = FALSE
       ELSE UNCHANGED tableVars
  /\ Settle(s)
  /\ AdminFine /\ UNCHANGED <<choiceVars, truth, adminTrouble, decided>>

\* A guarded page then shows no rows; the others keep those they have.
TableFails(s) ==
  /\ loads[s].pc # "idle" /\ AdminFault
  /\ loads' = [loads EXCEPT ![s] = NoLoading]
  /\ IF ~Shows(s)
       THEN UNCHANGED <<tableVars, adminTrouble>>
       ELSE /\ adminTrouble' = TRUE /\ spinning' = FALSE
            /\ tableRows' = IF desk = "guarded" THEN {} ELSE tableRows
            /\ misled' = (desk # "guarded")
  /\ Settle(s)
  /\ UNCHANGED <<choiceVars, truth, decided>>

-----------------------------------------------------------------------------
(* toggleStatus, removeListing and decide. *)

Offers(row) ==
  CASE desk = "users"    -> TRUE
    [] desk = "listings" -> row.status = "open"
    [] desk = "dealers"  -> filter = "open"
    [] OTHER             -> FALSE
Decide(row) ==
  /\ ~spinning /\ row \in tableRows /\ Offers(row)
  /\ decision.pc = "idle" /\ decided < MaxDecisions
  /\ decision' = [pc |-> "sent", id |-> row.id, filter |-> filter,
                  to |-> IF desk = "users" /\ row.status = "done" THEN "open" ELSE "done"]
  /\ adminTrouble' = FALSE
  /\ AdminFine /\ UNCHANGED <<choiceVars, truth, loads, tableVars, decided>>

\* An application that has been decided before is refused.
DecidedBefore == desk = "dealers" /\ truth[decision.id] # "open"
AdminServerActs ==
  /\ decision.pc = "sent" /\ ~DecidedBefore
  /\ truth' = [truth EXCEPT ![decision.id] = decision.to]
  /\ decided' = decided + 1
  /\ decision' = [decision EXCEPT !.pc = "answered"]
  /\ AdminFine /\ UNCHANGED <<choiceVars, loads, tableVars, adminTrouble>>

\* The rows after the answer; the filter is the one of the click.
Replaced == {IF r.id = decision.id THEN [r EXCEPT !.status = decision.to] ELSE r : r \in tableRows}

AfterDecision ==
  IF desk = "listings" /\ decision.filter = "open"
    THEN {r \in tableRows : r.id # decision.id}
    ELSE Replaced
InTable == \E r \in tableRows : r.id = decision.id
DecisionArrives ==
  /\ decision.pc = "answered"
  /\ IF desk = "dealers"
       THEN /\ decision' = [decision EXCEPT !.pc = "reload"]
            /\ \E s \in FreeSlot : loads' = [loads EXCEPT ![s] = TableLoad(decision.filter, 1)]
            /\ adminTrouble' = FALSE
            /\ UNCHANGED tableVars
       ELSE /\ decision' = NoDecision
            /\ tableRows' = AfterDecision
            /\ misled' = (misled \/ (desk = "listings" /\ (decision.filter # filter \/ ~InTable)))
            /\ UNCHANGED <<loads, spinning, adminTrouble>>
  /\ AdminFine /\ UNCHANGED <<choiceVars, truth, decided>>

\* DecidedBefore, failed, or done with its answer lost.
DecisionFails ==
  /\ \/ decision.pc = "sent" /\ DecidedBefore /\ AdminFine
     \/ decision.pc \in {"sent", "answered"} /\ AdminFault
  /\ decision' = NoDecision /\ adminTrouble' = TRUE
  /\ misled' = (misled \/ decision.pc = "answered")
  /\ UNCHANGED <<choiceVars, truth, loads, tableRows, spinning, decided>>

TableAnswers == \E s \in Slots : ServerLists(s) \/ TableArrives(s) \/ TableFails(s)
DecisionEnds == AdminServerActs \/ DecisionArrives \/ DecisionFails
AdminNext ==
  \/ \E f \in AdminFilters : ChooseFilter(f)
  \/ TurnSheet
  \/ TableAnswers
  \/ \E row \in tableRows : Decide(row)
  \/ DecisionEnds

AdminSpec == AdminInit /\ [][AdminNext]_adminVars

-----------------------------------------------------------------------------
NothingUnderWay == decision.pc = "idle" /\ \A s \in Slots : loads[s].pc = "idle"

\* Once every answer has come, the table shows the records that fit the filters,
\* as they are on the server, unless a page that takes any answer has shown one
\* of other filters or of before an action, or an answer has failed.
TableIsTrue ==
  NothingUnderWay /\ ~misled /\ ~adminTrouble => tableRows = Table(filter, sheet)

\* A guarded page never shows rows of other filters, and it shows an empty table
\* only when nothing fits them or the load has failed.
GuardedIsCurrent ==
  desk = "guarded" =>
    /\ ~misled
    /\ NothingUnderWay /\ tableRows = {} => adminTrouble \/ FoundBy(filter) = {}
==============================================================================
