------------------------------ MODULE BuyerQueries ------------------------------
(***************************************************************************)
(* What a buyer is shown of the public listings: natural-language search   *)
(* (modules/search) and the similar and recommended vehicles               *)
(* (modules/buyers).  A request makes several queries, between which       *)
(* listings are withdrawn and come back; a search is read page by page,    *)
(* each page a request of its own.                                         *)
(*                                                                         *)
(* A vehicle is a number, greater for one published later (a listing       *)
(* published again keeps its date). Its text is a sequence of words;       *)
(* typing errors, models, amounts other than a highest price, the phrase   *)
(* bonus and most of the attributes are left out.                          *)
(***************************************************************************)
EXTENDS Naturals, Sequences, FiniteSets, TLC

CONSTANTS
  Offers,          \* [number -> category, bodyType, place, make, price and words of the vehicle]
  Texts,           \* what a buyer types, sequences of words
  FilterChoices,   \* the filters a buyer sets beside, a subset of the records like NoFilters
  Nearness,        \* [number -> tenths the vector search gives the vehicle]
  CandidateLimit,  \* candidateLimit of the lexical pool
  VectorLimit,     \* candidateLimit of the vector search
  PageLimit,       \* limit of a page, and of a row of recommendations
  MaxChanges       \* bound on what happens to listings

Vehicles == DOMAIN Offers

ASSUME QueriesAssumption ==
  /\ {CandidateLimit, VectorLimit, PageLimit} \subseteq Nat \ {0} /\ MaxChanges \in Nat
  /\ PageLimit <= CandidateLimit   \* 300 and 200 in the code, whose pages have 50 at most
  /\ IsFiniteSet(Vehicles) /\ Vehicles \subseteq Nat /\ \A v \in Vehicles : Offers[v].price \in Nat
  /\ Nearness \in [Vehicles -> Nat] /\ \A text \in Texts : text \in Seq(STRING)

VARIABLES
  status,        \* [Vehicles -> status of the listing]
  blocked,       \* vehicles whose dealer is suspended
  changesMade,
  ask,           \* the search request
  answer,        \* the page shown last
  readSoFar,     \* history: the vehicles of the pages read since the first
  pick,          \* the request for recommendations
  visible,       \* history: vehicles that were active, or not hidden with their dealer, since the request
  calm           \* history: nothing changed since the first page or the request

catalogueVars == <<status, blocked, changesMade>>
queryVars == <<catalogueVars, ask, answer, readSoFar, pick, visible, calm>>

Active == {v \in Vehicles : status[v] = "active"}
\* publicDealerFilter reads whose listings are hidden before the query that uses it runs.
PublicBut(hidden) == Active \ hidden
Public == PublicBut(blocked)

\* An order is the set of the pairs of which the first comes before the second.
Ordered(S, order) ==
  [i \in 1..Cardinality(S) |-> CHOOSE v \in S : Cardinality({w \in S : <<w, v>> \in order}) = i - 1]
AtMost(s, n) == SubSeq(s, 1, IF Len(s) < n THEN Len(s) ELSE n)
Elements(s) == {s[i] : i \in DOMAIN s}
ByDate == {p \in Vehicles \X Vehicles : p[1] > p[2]}
Newest(S, n) == AtMost(Ordered(S, ByDate), n)

-----------------------------------------------------------------------------
(* analyzeSearchQuery: each rule takes its first match out of the text. *)

NoPrice == 99
NoFilters == [category |-> "any", bodyType |-> "any", location |-> <<>>, make |-> "any",
              priceMax |-> NoPrice]
Makes == {"toyota", "honda"}
StopWords == {"cheap", "for"}
\* The words that end a location: amounts, already taken out, and some of the attributes, but no
\* category.
LocationEnds == {"automatic", "used"}

FirstIndex(ws, W) == CHOOSE i \in DOMAIN ws : ws[i] \in W /\ \A j \in 1..(i - 1) : ws[j] \notin W
Cut(ws, i, j) == SubSeq(ws, 1, i - 1) \o SubSeq(ws, j + 1, Len(ws))

Consume(r, word, found) ==
  IF word \notin Elements(r.words) THEN r
  ELSE LET i == FirstIndex(r.words, {word}) IN
       [words |-> Cut(r.words, i, i), filters |-> found @@ r.filters]

TakeLocation(r) ==
  IF \A i \in DOMAIN r.words : r.words[i] = "near" => i = Len(r.words) THEN r
  ELSE LET i == FirstIndex(r.words, {"near"})
           j == CHOOSE k \in (i + 1)..Len(r.words) :
                  /\ k = Len(r.words) \/ r.words[k + 1] \in LocationEnds
                  /\ \A l \in (i + 2)..k : r.words[l] \notin LocationEnds
       IN [words |-> Cut(r.words, i, j),
           filters |-> [r.filters EXCEPT !.location = SubSeq(r.words, i + 1, j)]]

TakeMake(r) ==
  IF Elements(r.words) \cap Makes = {} THEN r
  ELSE LET i == FirstIndex(r.words, Makes) IN
       [words |-> Cut(r.words, i, i), filters |-> [r.filters EXCEPT !.make = r.words[i]]]

AnalyzeSearchQuery(text) ==
  LET priced  == Consume([words |-> text, filters |-> NoFilters], "under2m", [priceMax |-> 2])
      placed  == TakeLocation(priced)
      suv     == Consume(placed, "suv", [category |-> "car", bodyType |-> "suv"])
      sedan   == Consume(suv, "sedan", [category |-> "car", bodyType |-> "sedan"])
      van     == Consume(sedan, "van", [category |-> "van"])
      made    == TakeMake(van)
  IN [filters |-> made.filters, intent |-> SelectSeq(made.words, LAMBDA w : w \notin StopWords)]

\* searchListings: an explicit filter replaces the interpreted one.
Filters(text, chosen) ==
  [f \in DOMAIN NoFilters |-> IF chosen[f] # NoFilters[f] THEN chosen[f]
                              ELSE AnalyzeSearchQuery(text).filters[f]]

-----------------------------------------------------------------------------
(* The filters of the queries. *)

VectorFilter(v, f) ==
  /\ f.category \in {"any", Offers[v].category}
  /\ f.bodyType \in {"any", Offers[v].bodyType}
  /\ Offers[v].price <= f.priceMax
MatchesFullFilter(v, f) ==
  /\ VectorFilter(v, f)
  /\ f.make \in {"any", Offers[v].make}
  /\ f.location \in {<<>>, <<Offers[v].place>>}

\* options.search: the words occur one after the other.
Says(v, phrase) ==
  \E i \in DOMAIN Offers[v].words :
    LET j == i + Len(phrase) - 1 IN j <= Len(Offers[v].words) /\ SubSeq(Offers[v].words, i, j) = phrase

Fits(v, a) == MatchesFullFilter(v, Filters(a.text, a.chosen))
\* Structured search looks at the rest of the text only when nothing of it was understood.
StructuredFilter(v, a) ==
  LET analyzed == AnalyzeSearchQuery(a.text) IN
  /\ Fits(v, a)
  /\ analyzed.filters = NoFilters /\ analyzed.intent # <<>> => Says(v, analyzed.intent)
Structured(a) == a.sort # "relevance" \/ AnalyzeSearchQuery(a.text).intent = <<>>

ByPrice ==
  {p \in Vehicles \X Vehicles : \/ Offers[p[1]].price < Offers[p[2]].price
                                \/ Offers[p[1]].price = Offers[p[2]].price /\ p[1] < p[2]}
SortedBy(S, sort) == Ordered(S, IF sort = "price-asc" THEN ByPrice ELSE ByDate)
PageOf(s, p) ==
  SubSeq(s, (p - 1) * PageLimit + 1, IF p * PageLimit < Len(s) THEN p * PageLimit ELSE Len(s))

-----------------------------------------------------------------------------
(* A search request: its queries run side by side, and any may meet other listings. *)

NoAsk ==
  [pc |-> "idle", text |-> <<>>, chosen |-> NoFilters, sort |-> "relevance", page |-> 1,
   hidden |-> {}, left |-> {}, mode |-> "none", found |-> <<>>, total |-> 0, near |-> {}]
NoAnswer == [shown |-> <<>>, total |-> 0, mode |-> "none"]
NoPick == [pc |-> "idle", seeds |-> <<>>, hidden |-> {}, near |-> <<>>, shown |-> <<>>]
Now == [active |-> Active, open |-> Vehicles \ blocked]
Waits(step) == ask.pc = "asked" /\ step \in ask.left

Begin(text, chosen, sort, page) ==
  LET a == [NoAsk EXCEPT !.pc = "asked", !.text = text, !.chosen = chosen, !.sort = sort,
                         !.page = page, !.hidden = blocked] IN
  /\ ask' = IF Structured(a) THEN [a EXCEPT !.left = {"find", "count"}, !.mode = "structured"]
            ELSE [a EXCEPT !.left = {"find", "count", "vector"}, !.mode = "hybrid"]
  /\ visible' = Now /\ pick' = NoPick
  /\ UNCHANGED catalogueVars

Search(text, chosen, sort) ==
  /\ ask.pc \in {"idle", "answered"} /\ pick.pc \in {"idle", "answered"}
  /\ Begin(text, chosen, sort, 1)
  /\ answer' = NoAnswer /\ readSoFar' = <<>> /\ calm' = TRUE

TotalPages == (answer.total + PageLimit - 1) \div PageLimit
NextResults ==
  /\ ask.pc = "answered" /\ ask.page < TotalPages
  /\ Begin(ask.text, ask.chosen, ask.sort, ask.page + 1)
  /\ UNCHANGED <<answer, readSoFar, calm>>

\* listStructuredListings and listSearchCandidates: the query ...
Matching ==
  IF ask.mode = "structured" THEN {v \in PublicBut(ask.hidden) : StructuredFilter(v, ask)}
  ELSE {v \in PublicBut(ask.hidden) : Fits(v, ask)}
FindListings ==
  /\ Waits("find")
  /\ ask' = [ask EXCEPT !.left = @ \ {"find"},
                        !.found = IF ask.mode = "structured" THEN PageOf(SortedBy(Matching, ask.sort), ask.page)
                                  ELSE Newest(Matching, CandidateLimit)]
  /\ UNCHANGED <<catalogueVars, answer, readSoFar, pick, visible, calm>>
\* ... and the count, beside it.
CountListings ==
  /\ Waits("count")
  /\ ask' = [ask EXCEPT !.left = @ \ {"count"}, !.total = Cardinality(Matching)]
  /\ UNCHANGED <<catalogueVars, answer, readSoFar, pick, visible, calm>>

\* listVectorCandidates: suspended dealers, read before it, are removed after the search and its
\* limit.
ByNearness ==
  {p \in Vehicles \X Vehicles : \/ Nearness[p[1]] > Nearness[p[2]]
                                \/ Nearness[p[1]] = Nearness[p[2]] /\ p[1] < p[2]}
Nearest(f) == AtMost(Ordered({v \in Active : VectorFilter(v, f)}, ByNearness), VectorLimit)
ListVectorCandidates ==
  /\ Waits("vector")
  /\ \E hidden \in {ask.hidden, blocked} :
       ask' = [ask EXCEPT !.left = @ \ {"vector"},
                          !.near = Elements(Nearest(Filters(ask.text, ask.chosen))) \ hidden]
  /\ UNCHANGED <<catalogueVars, answer, readSoFar, pick, visible, calm>>
\* The embedding service or the vector index fails.
VectorFails ==
  /\ Waits("vector")
  /\ ask' = [ask EXCEPT !.left = @ \ {"vector"}, !.mode = "lexical-fallback"]
  /\ UNCHANGED <<catalogueVars, answer, readSoFar, pick, visible, calm>>

\* Sixty-five percent the vector search, thirty-five the share of the words that occur.
Score(v, a) ==
  LET matched == Cardinality({i \in DOMAIN a.text : a.text[i] \in Elements(Offers[v].words)})
      semantic == IF v \in a.near THEN Nearness[v] ELSE 0
  IN 65 * semantic * Len(a.text) + 350 * matched
ByScore(a) ==
  {p \in Vehicles \X Vehicles : \/ Score(p[1], a) > Score(p[2], a)
                                \/ Score(p[1], a) = Score(p[2], a) /\ p[1] > p[2]}
Merged(a) == Elements(a.found) \cup {v \in a.near : Fits(v, a)}
Ranked(a) == Ordered(Merged(a), ByScore(a))
\* Variant: the count of the candidates alone.
Total_OfCandidates == ask.total
Total == IF ask.total < Len(Ranked(ask)) THEN ask.total ELSE Len(Ranked(ask))

Answers ==
  /\ ask.pc = "asked" /\ ask.left = {}
  /\ ask' = [ask EXCEPT !.pc = "answered"]
  /\ answer' = IF ask.mode = "structured"
                 THEN [shown |-> ask.found, total |-> ask.total, mode |-> ask.mode]
                 ELSE [shown |-> PageOf(Ranked(ask), ask.page), total |-> Total, mode |-> ask.mode]
  /\ readSoFar' = readSoFar \o answer'.shown
  /\ calm' = (calm /\ answer.mode \in {"none", ask.mode})
  /\ UNCHANGED <<catalogueVars, pick, visible>>

-----------------------------------------------------------------------------
(* Similar and recommended vehicles. *)

PickBegins ==
  /\ ask.pc \in {"idle", "answered"} /\ pick.pc \in {"idle", "answered"}
  /\ visible' = Now /\ calm' = TRUE
  /\ ask' = NoAsk /\ answer' = NoAnswer /\ readSoFar' = <<>>
  /\ UNCHANGED catalogueVars

\* similarListingsForBuyer; a listing that is not public is not found.
SimilarListings(v) ==
  /\ PickBegins
  /\ v \in Public
  /\ pick' = [NoPick EXCEPT !.pc = "asked", !.seeds = <<v>>, !.hidden = blocked]

\* recommendedListingsForBuyer, for a buyer who viewed v, and w before it unless it is v again: sold
\* vehicles still say what the buyer likes.
RecommendedListings(v, w) ==
  LET seeds == Ordered({x \in {v, w} : status[x] \in {"active", "sold"}}, {<<v, w>>} \ {<<v, v>>}) IN
  /\ PickBegins
  /\ pick' = [NoPick EXCEPT !.pc = IF seeds = <<>> THEN "answered" ELSE "asked",
                               !.seeds = seeds, !.hidden = blocked]

Seeds == Elements(pick.seeds)
SameKind(v) == v \notin Seeds /\ \E s \in Seeds : Offers[s].category = Offers[v].category
InBand(v) ==
  /\ \E s \in Seeds : 2 * Offers[v].price >= Offers[s].price
  /\ \E s \in Seeds : 10 * Offers[v].price <= 16 * Offers[s].price

\* similarityScore in tenths: category, make, and a price less than half away.
SimilarityScore(s, v) ==
  LET apart == IF Offers[v].price > Offers[s].price THEN Offers[v].price - Offers[s].price
               ELSE Offers[s].price - Offers[v].price
      most == IF Offers[s].price < 1 THEN 1 ELSE Offers[s].price
  IN (IF Offers[v].category = Offers[s].category THEN 20 ELSE 0)
   + (IF Offers[v].make = Offers[s].make THEN 30 ELSE 0)
   + (IF 2 * apart < most THEN (25 * (most - 2 * apart)) \div most ELSE 0)
\* profileScore, for two seeds at most: the second counts 85 percent of the first.
ProfileScore(v) ==
  IF Len(pick.seeds) = 1 THEN SimilarityScore(pick.seeds[1], v)
  ELSE 100 * SimilarityScore(pick.seeds[1], v) + 85 * SimilarityScore(pick.seeds[2], v)

\* rankByScore: equal scores keep the order of the pool.
ByLikeness(pool) ==
  {p \in (DOMAIN pool) \X (DOMAIN pool) :
     \/ ProfileScore(pool[p[1]]) > ProfileScore(pool[p[2]])
     \/ ProfileScore(pool[p[1]]) = ProfileScore(pool[p[2]]) /\ p[1] < p[2]}
RankByScore(pool) ==
  LET order == Ordered(DOMAIN pool, ByLikeness(pool)) IN
  AtMost([i \in DOMAIN order |-> pool[order[i]]], PageLimit)

\* candidatePool: those of a similar price ...
FindNearby ==
  /\ pick.pc = "asked"
  /\ \E hidden \in {pick.hidden, blocked} :
       LET near == Newest({v \in PublicBut(hidden) : SameKind(v) /\ InBand(v)}, CandidateLimit) IN
       pick' = IF Len(near) >= PageLimit
                 THEN [pick EXCEPT !.pc = "answered", !.shown = RankByScore(near)]
                 ELSE [pick EXCEPT !.pc = "wider", !.near = near, !.hidden = blocked]
  /\ UNCHANGED <<catalogueVars, ask, answer, readSoFar, visible, calm>>
\* ... and, where these are too few, the others.
FindWider ==
  /\ pick.pc = "wider"
  /\ \E hidden \in {pick.hidden, blocked} :
       LET wider == Newest({v \in PublicBut(hidden) : SameKind(v)}, CandidateLimit)
           others == Ordered(Elements(wider) \ Elements(pick.near), ByDate)
       IN pick' = [pick EXCEPT !.pc = "answered", !.shown = RankByScore(pick.near \o others)]
  /\ UNCHANGED <<catalogueVars, ask, answer, readSoFar, visible, calm>>

-----------------------------------------------------------------------------
(* Meanwhile listings are sold, withdrawn or published again, and dealers suspended. *)

OfferChanges ==
  /\ changesMade < MaxChanges /\ changesMade' = changesMade + 1
  /\ visible' = [active |-> visible.active \cup Active',
                 open |-> visible.open \cup (Vehicles \ blocked')]
  /\ calm' = FALSE
  /\ UNCHANGED <<ask, answer, readSoFar, pick>>
ListingChanges(v, s) ==
  /\ s # status[v] /\ status' = [status EXCEPT ![v] = s] /\ UNCHANGED blocked
  /\ OfferChanges
DealerChanges(v) ==
  /\ blocked' = IF v \in blocked THEN blocked \ {v} ELSE blocked \cup {v}
  /\ UNCHANGED status
  /\ OfferChanges

QueriesInit ==
  /\ status = [v \in Vehicles |-> "active"] /\ blocked = {} /\ changesMade = 0
  /\ ask = NoAsk /\ answer = NoAnswer /\ readSoFar = <<>> /\ pick = NoPick
  /\ visible = Now /\ calm = TRUE

QueriesNext ==
  \/ \E text \in Texts, chosen \in FilterChoices, sort \in {"relevance", "newest", "price-asc"} :
       Search(text, chosen, sort)
  \/ NextResults \/ FindListings \/ CountListings \/ ListVectorCandidates \/ VectorFails \/ Answers
  \/ \E v \in Vehicles : SimilarListings(v) \/ DealerChanges(v)
  \/ \E v, w \in Vehicles : RecommendedListings(v, w)
  \/ FindNearby \/ FindWider
  \/ \E v \in Vehicles, s \in {"active", "sold", "draft"} : ListingChanges(v, s)

-----------------------------------------------------------------------------
Distinct(s) == Cardinality(Elements(s)) = Len(s)

QueriesTypeOK ==
  /\ status \in [Vehicles -> {"active", "sold", "draft"}] /\ blocked \subseteq Vehicles
  /\ changesMade \in 0..MaxChanges
  /\ ask.pc \in {"idle", "asked", "answered"} /\ ask.page \in Nat \ {0}
  /\ answer.mode \in {"none", "structured", "hybrid", "lexical-fallback"} /\ answer.total \in Nat
  /\ Elements(answer.shown) \cup Elements(readSoFar) \cup Seeds \cup Elements(pick.shown) \subseteq Vehicles
  /\ pick.pc \in {"idle", "asked", "wider", "answered"}
  /\ visible.active \cup visible.open \subseteq Vehicles /\ calm \in BOOLEAN

\* Whatever changes between its queries, an answer shows only what was active, and what was not
\* hidden, since it was asked for, and only what fits the filters: also those the vector index does
\* not know.
SeenSince == visible.active \cap visible.open
ShownIsPublic ==
  /\ ask.pc = "answered" => /\ Elements(answer.shown) \subseteq SeenSince
                            /\ \A v \in Elements(answer.shown) : Fits(v, ask)
  /\ pick.pc = "answered" => Elements(pick.shown) \subseteq SeenSince

\* No page the pager offers is empty: with two bounded pools this needs the smaller of two
\* counts.  Structured search keeps it while nothing changes between its two queries.
NoEmptyPage ==
  ask.pc = "answered" /\ ask.page <= TotalPages /\ (calm \/ answer.mode # "structured") => answer.shown # <<>>

\* While nothing changes and the vector search keeps answering, or keeps failing, the pages
\* together show each vehicle once and as many as they said.
PagesAddUp ==
  ask.pc = "answered" /\ calm =>
    Distinct(readSoFar) /\ (ask.page >= TotalPages => Len(readSoFar) = answer.total)

\* Recommendations never repeat a vehicle or show one the buyer comes from.  While nothing changes
\* they stay in the price band if that fills the row, and are empty only if there is nothing.
PicksAreSound ==
  pick.pc = "answered" =>
    /\ Distinct(pick.shown) /\ \A v \in Elements(pick.shown) : SameKind(v)
    /\ calm => LET fit == {v \in Public : SameKind(v)}
                   near == {v \in fit : InBand(v)} IN
               /\ fit # {} => pick.shown # <<>>
               /\ Cardinality(near) >= PageLimit => Elements(pick.shown) \subseteq near

QueriesHold == ShownIsPublic /\ NoEmptyPage /\ PagesAddUp /\ PicksAreSound
=============================================================================
