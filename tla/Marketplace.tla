------------------------------ MODULE Marketplace ------------------------------
(***************************************************************************)
(* The buyers' search page, Marketplace and useBuyerListings (apps/        *)
(* frontend/src).  The text typed becomes a filter 350 ms later, by an     *)
(* effect that closed over the sort order of its render and that runs      *)
(* again when it has changed the URL itself.  The rows shown are those of  *)
(* the query before until the next one is answered.                        *)
(***************************************************************************)
EXTENDS Naturals

CONSTANTS
  MarketPages,      \* pages of every result
  MaxTouches,       \* bound on what the buyer changes
  MaxMarketFaults   \* bound on failed queries

ASSUME MarketplaceAssumption == MarketPages \in Nat \ {0} /\ {MaxTouches, MaxMarketFaults} \subseteq Nat

VARIABLES
  searchInput,   \* a text is in the field
  filters,       \* text, sort order, category and body type of useBuyerListings
  page,
  debounce,      \* the text and sort order the timer closed over, or NoTimer
  linkQ,         \* the URL has the text
  results,       \* the filters and page whose rows are shown
  marketAsk,     \* those of the query under way
  marketFailed,  \* the query for the current ones failed
  asked,         \* what the buyer chose last, history
  marketHistory

marketVars == <<searchInput, filters, page, debounce, linkQ, results, marketAsk, marketFailed, asked, marketHistory>>

Sorts == {"none", "relevance", "newest", "price-asc"}
Filters == [q : BOOLEAN, sort : Sorts, category : {"any", "car", "van"}, body : BOOLEAN]
NoFilters == [q |-> FALSE, sort |-> "none", category |-> "any", body |-> FALSE]
NoDebounce == [on |-> FALSE, q |-> FALSE, sort |-> "none"]
Queries == [filters : Filters, page : 1..MarketPages]
NoQuery == [filters |-> NoFilters, page |-> 0]

MarketTypeOK ==
  /\ {searchInput, linkQ, marketFailed} \subseteq BOOLEAN
  /\ filters \in Filters /\ page \in 1..MarketPages
  /\ debounce \in [on : BOOLEAN, q : BOOLEAN, sort : Sorts]
  /\ {results, marketAsk} \subseteq Queries \cup {NoQuery}
  /\ asked \in [sort : Sorts, page : 1..MarketPages]

\* A link from the landing page brings the text along.
MarketInit ==
  /\ searchInput \in BOOLEAN /\ linkQ = searchInput
  /\ filters = IF searchInput THEN [NoFilters EXCEPT !.q = TRUE, !.sort = "relevance"] ELSE NoFilters
  /\ page = 1
  /\ debounce = [on |-> TRUE, q |-> searchInput, sort |-> filters.sort]
  /\ results = NoQuery /\ marketAsk = NoQuery /\ marketFailed = FALSE
  /\ asked = [sort |-> filters.sort, page |-> 1]
  /\ marketHistory = [touches |-> 0, faults |-> 0, hasty |-> FALSE]

-----------------------------------------------------------------------------
(* The query of the current filters and page; the cache keeps the rest.     *)

Current == [filters |-> filters, page |-> page]
SameQuery == UNCHANGED <<results, marketAsk, marketFailed>>
MarketFetch ==
  /\ results # Current /\ marketAsk # Current /\ ~marketFailed
  /\ \/ marketAsk' = Current /\ UNCHANGED results
     \/ results' = Current /\ UNCHANGED marketAsk   \* answered before, and kept for five minutes
  /\ UNCHANGED <<searchInput, filters, page, debounce, linkQ, marketFailed, asked, marketHistory>>
MarketAnswers ==
  /\ marketAsk # NoQuery /\ marketAsk' = NoQuery
  /\ results' = IF marketAsk = Current THEN Current ELSE results
  /\ UNCHANGED <<searchInput, filters, page, debounce, linkQ, marketFailed, asked, marketHistory>>
MarketFails ==
  /\ marketAsk # NoQuery /\ marketAsk' = NoQuery
  /\ marketHistory.faults < MaxMarketFaults
  /\ marketHistory' = [marketHistory EXCEPT !.faults = @ + 1]
  /\ marketFailed' = (marketAsk = Current)
  /\ UNCHANGED <<searchInput, filters, page, debounce, linkQ, results, asked>>
TryAgain ==
  /\ marketFailed /\ marketFailed' = FALSE
  /\ UNCHANGED <<searchInput, filters, page, debounce, linkQ, results, marketAsk, asked, marketHistory>>

-----------------------------------------------------------------------------
(* The effect, and what the buyer changes.  Whatever is changed while the   *)
(* timer runs is overwritten when it fires.                                 *)

UpdateFilters(next, p) == filters' = next /\ page' = p /\ marketFailed' = FALSE /\ UNCHANGED <<results, marketAsk>>

EffectFires ==
  /\ debounce.on
  /\ UpdateFilters([filters EXCEPT !.q = debounce.q,
       !.sort = IF debounce.q THEN IF debounce.sort = "none" THEN "relevance" ELSE debounce.sort
                ELSE IF debounce.sort = "relevance" THEN "newest" ELSE debounce.sort], 1)
  /\ linkQ' = debounce.q
  /\ debounce' = IF linkQ' # linkQ THEN [on |-> TRUE, q |-> searchInput, sort |-> filters'.sort] ELSE NoDebounce
  /\ asked' = [sort |-> IF filters'.sort # debounce.sort THEN filters'.sort ELSE asked.sort, page |-> 1]
  /\ UNCHANGED <<searchInput, marketHistory>>

Touch == marketHistory.touches < MaxTouches
Touched(lost) == marketHistory' = [marketHistory EXCEPT !.touches = @ + 1, !.hasty = @ \/ lost]
TypeSearch ==
  /\ Touch /\ Touched(FALSE)
  /\ searchInput' = ~searchInput /\ debounce' = [on |-> TRUE, q |-> ~searchInput, sort |-> filters.sort]
  /\ SameQuery /\ UNCHANGED <<filters, page, linkQ, asked>>
ChooseSort ==
  /\ Touch /\ Touched(debounce.on)
  /\ \E s \in {"newest", "price-asc"} \cup (IF filters.q THEN {"relevance"} ELSE {}) :
       UpdateFilters([filters EXCEPT !.sort = s], 1) /\ asked' = [sort |-> s, page |-> 1]
  /\ UNCHANGED <<searchInput, debounce, linkQ>>
\* The body type is that of cars only.
ChooseCategory ==
  /\ Touch /\ Touched(FALSE)
  /\ \E c \in {"any", "car", "van"} :
       UpdateFilters([filters EXCEPT !.category = c, !.body = @ /\ c = "car"], 1)
  /\ asked' = [asked EXCEPT !.page = 1]
  /\ UNCHANGED <<searchInput, debounce, linkQ>>
ChooseBody ==
  /\ filters.category = "car" /\ Touch /\ Touched(FALSE)
  /\ UpdateFilters([filters EXCEPT !.body = ~@], 1) /\ asked' = [asked EXCEPT !.page = 1]
  /\ UNCHANGED <<searchInput, debounce, linkQ>>
SetPage ==
  /\ results # NoQuery /\ Touch /\ Touched(debounce.on)
  /\ \E p \in 1..MarketPages : UpdateFilters(filters, p) /\ asked' = [asked EXCEPT !.page = p]
  /\ UNCHANGED <<searchInput, debounce, linkQ>>
\* Clearing a text restarts the timer; one that runs for a text cleared before goes on.
ClearAll ==
  /\ Touch /\ Touched(debounce.on /\ ~searchInput /\ ~linkQ)
  /\ searchInput' = FALSE /\ linkQ' = FALSE /\ UpdateFilters(NoFilters, 1)
  /\ debounce' = IF searchInput \/ linkQ THEN [on |-> TRUE, q |-> FALSE, sort |-> "none"] ELSE debounce
  /\ asked' = [sort |-> "none", page |-> 1]

-----------------------------------------------------------------------------
QuerySettles == MarketAnswers \/ MarketFails
MarketNext ==
  \/ MarketFetch \/ QuerySettles \/ TryAgain \/ EffectFires
  \/ TypeSearch \/ ChooseSort \/ ChooseCategory \/ ChooseBody \/ SetPage \/ ClearAll

MarketSpec == MarketInit /\ [][MarketNext]_marketVars

-----------------------------------------------------------------------------
\* Once the timer has fired, the filter and the URL have the text in the field.
TextIsSearched == ~debounce.on => filters.q = searchInput /\ linkQ = searchInput

\* No query is sorted by relevance without a text, nor narrowed to a body type without cars.
FiltersMakeSense ==
  /\ filters.sort = "relevance" => filters.q
  /\ filters.body => filters.category = "car"

\* The sort order and page stay those chosen, unless chosen while the timer ran.
ChoiceStays == ~marketHistory.hasty => filters.sort = asked.sort /\ page = asked.page
==============================================================================
