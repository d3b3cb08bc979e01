------------------------------ MODULE Shortlist ------------------------------
(***************************************************************************)
(* What a buyer's browser keeps of vehicles, without an account: the list  *)
(* picked to compare (features/compare), shown by the compare page or by a *)
(* link to it (portals/buyer/pages/ComparePage.tsx), the vehicles viewed   *)
(* last (features/recommendations/recentlyViewed.ts), and the photo that   *)
(* the gallery of a vehicle shows (ListingGallery.tsx).  The tabs of the   *)
(* browser share the storage, and each has a list of its own.              *)
(***************************************************************************)
EXTENDS Naturals, Sequences, FiniteSets, SequencesExt

CONSTANTS
  Vehicles,
  NoPage,
  Tabs,
  PhotosOf,           \* [Vehicles -> number of photos]
  MAX_COMPARE,
  MAX_RECENTLY_VIEWED,
  MaxReloads          \* bound on how often a tab is reloaded

ASSUME ShortlistAssumption ==
  /\ NoPage \notin Vehicles /\ PhotosOf \in [Vehicles -> Nat]
  /\ MAX_COMPARE \in Nat \ {0} /\ MAX_RECENTLY_VIEWED \in Nat \ {0}
  /\ MaxReloads \in Nat

VARIABLES
  storedPicks, \* motorx.compare of the browser's storage
  viewed,      \* motorx.recentlyViewed
  picked,      \* [Tabs -> list of the tab's CompareProvider]
  link,        \* [Tabs -> ids of the URL of the compare page; <<>> when there are none]
  comparing,   \* [Tabs -> the compare page is open]
  openVehicle, \* [Tabs -> vehicle whose page is open, if any]
  selected,    \* [Tabs -> selectedIndex of its gallery]
  dropped,     \* [Tabs -> removed on the page and not picked or linked again, history]
  reloads

shortlistVars == <<storedPicks, viewed, picked, link, comparing, openVehicle, selected, dropped, reloads>>
pageVars == <<openVehicle, selected>>

Lists(n) == {s \in UNION {[1..k -> Vehicles] : k \in 0..n} : IsInjective(s)}
\* A list names a vehicle once: filtering it out removes the one place it has.
Without(s, v) == RemoveFirst(s, v)
FirstOf(s, n) == SubSeq(s, 1, IF Len(s) < n THEN Len(s) ELSE n)

ShortlistTypeOK ==
  /\ storedPicks \in Lists(MAX_COMPARE) /\ viewed \in Lists(MAX_RECENTLY_VIEWED)
  /\ picked \in [Tabs -> Lists(MAX_COMPARE)] /\ link \in [Tabs -> Lists(MAX_COMPARE)]
  /\ comparing \in [Tabs -> BOOLEAN]
  /\ openVehicle \in [Tabs -> Vehicles \cup {NoPage}]
  /\ selected \in [Tabs -> Nat]
  /\ dropped \in [Tabs -> SUBSET Vehicles]
  /\ reloads \in 0..MaxReloads

ShortlistInit ==
  /\ storedPicks = <<>> /\ viewed = <<>> /\ reloads = 0
  /\ picked = [t \in Tabs |-> <<>>] /\ link = [t \in Tabs |-> <<>>]
  /\ comparing = [t \in Tabs |-> FALSE]
  /\ openVehicle = [t \in Tabs |-> NoPage] /\ selected = [t \in Tabs |-> 0]
  /\ dropped = [t \in Tabs |-> {}]

-----------------------------------------------------------------------------
(* CompareProvider: every change is saved, over whatever another tab saved. *)

SaveList(t, next) == picked' = [picked EXCEPT ![t] = next] /\ storedPicks' = next

Toggle(t, v) ==
  IF v \in Range(picked[t])
    THEN SaveList(t, Without(picked[t], v))
    ELSE Len(picked[t]) < MAX_COMPARE /\ SaveList(t, Append(picked[t], v))

\* The toggle on a card or on a vehicle's page; a full list is only told.
ClickToggle(t, v) ==
  /\ ~comparing[t]
  /\ Toggle(t, v)
  /\ dropped' = [dropped EXCEPT ![t] = @ \ {v}]
  /\ UNCHANGED <<link, comparing, reloads, pageVars, viewed>>

\* CompareTray: hidden on the compare page and while nothing is picked.
TrayShown(t) == picked[t] # <<>> /\ ~comparing[t]
ClearList(t) ==
  /\ TrayShown(t) /\ SaveList(t, <<>>)
  /\ UNCHANGED <<link, comparing, dropped, reloads, pageVars, viewed>>
OpenComparison(t, ids) ==
  /\ comparing' = [comparing EXCEPT ![t] = TRUE]
  /\ link' = [link EXCEPT ![t] = ids]
  /\ openVehicle' = [openVehicle EXCEPT ![t] = NoPage] /\ selected' = [selected EXCEPT ![t] = 0]
  /\ dropped' = [dropped EXCEPT ![t] = @ \ Range(ids)]
  /\ UNCHANGED <<storedPicks, picked, reloads, viewed>>
CompareNow(t) == TrayShown(t) /\ OpenComparison(t, picked[t])
FollowNav(t) == ~comparing[t] /\ OpenComparison(t, <<>>)
FollowLink(t, ids) == ~comparing[t] /\ OpenComparison(t, ids)

-----------------------------------------------------------------------------
(* ComparePage: the link decides, and the picked list is the fallback.       *)

Compared(t) == FirstOf(IF link[t] # <<>> THEN link[t] ELSE picked[t], MAX_COMPARE)

RemoveVehicle(t, v) ==
  /\ comparing[t] /\ v \in Range(Compared(t))
  /\ SaveList(t, Without(picked[t], v))
  /\ link' = [link EXCEPT ![t] = Without(@, v)]
  /\ dropped' = [dropped EXCEPT ![t] = @ \cup {v}]
  /\ UNCHANGED <<comparing, reloads, pageVars, viewed>>

LeaveComparison(t) ==
  /\ comparing[t]
  /\ comparing' = [comparing EXCEPT ![t] = FALSE] /\ link' = [link EXCEPT ![t] = <<>>]
  /\ UNCHANGED <<storedPicks, picked, dropped, reloads, pageVars, viewed>>

\* The providers start again from the storage, and the page from its URL.
Reload(t) ==
  /\ reloads < MaxReloads /\ reloads' = reloads + 1
  /\ picked' = [picked EXCEPT ![t] = FirstOf(storedPicks, MAX_COMPARE)]
  /\ dropped' = [dropped EXCEPT ![t] = @ \ Range(storedPicks)]
  /\ selected' = [selected EXCEPT ![t] = 0]
  /\ UNCHANGED <<storedPicks, viewed, link, comparing, openVehicle>>

-----------------------------------------------------------------------------
(* A vehicle's page and the recommendations. *)

\* Variant: a vehicle viewed again is stored twice.
RecordRecentlyViewed_Again(v) == FirstOf(<<v>> \o viewed, MAX_RECENTLY_VIEWED)
RecordRecentlyViewed(v) == FirstOf(<<v>> \o Without(viewed, v), MAX_RECENTLY_VIEWED)

\* The gallery stays mounted, with its photo, when the vehicle is in the cache.
OpenVehicle(t, v) ==
  /\ ~comparing[t] /\ openVehicle[t] # v
  /\ openVehicle' = [openVehicle EXCEPT ![t] = v]
  /\ selected' \in {selected, [selected EXCEPT ![t] = 0]}
  /\ viewed' = RecordRecentlyViewed(v)
  /\ UNCHANGED <<storedPicks, picked, link, comparing, dropped, reloads>>

OpenLanding(t) ==
  /\ ~comparing[t]
  /\ openVehicle' = [openVehicle EXCEPT ![t] = NoPage] /\ selected' = [selected EXCEPT ![t] = 0]
  /\ UNCHANGED <<storedPicks, viewed, picked, link, comparing, dropped, reloads>>

\* Offered with the recommendations, on the landing page.
ClearRecentlyViewed(t) ==
  /\ ~comparing[t] /\ openVehicle[t] = NoPage /\ viewed # <<>>
  /\ viewed' = <<>>
  /\ UNCHANGED <<storedPicks, picked, link, comparing, dropped, reloads, pageVars>>

-----------------------------------------------------------------------------
(* ListingGallery *)

Count(t) == PhotosOf[openVehicle[t]]

PhotoIndex(t) == IF selected[t] < Count(t) THEN selected[t] ELSE Count(t) - 1
HasArrows(t) == openVehicle[t] # NoPage /\ Count(t) > 1
Show(t, next) == selected' = [selected EXCEPT ![t] = (next + Count(t)) % Count(t)]
NextPhotoShown(t) ==
  /\ HasArrows(t)
  /\ Show(t, PhotoIndex(t) + 1) \/ Show(t, PhotoIndex(t) + Count(t) - 1)
  /\ UNCHANGED <<storedPicks, picked, link, comparing, openVehicle, dropped, reloads, viewed>>
Thumbnail(t) ==
  /\ HasArrows(t)
  /\ \E i \in 0..(Count(t) - 1) : selected' = [selected EXCEPT ![t] = i]
  /\ UNCHANGED <<storedPicks, picked, link, comparing, openVehicle, dropped, reloads, viewed>>

ShortlistNext == \E t \in Tabs :
  \/ \E v \in Vehicles : ClickToggle(t, v) \/ RemoveVehicle(t, v) \/ OpenVehicle(t, v)
  \/ \E ids \in Lists(MAX_COMPARE) \ {<<>>} : FollowLink(t, ids)
  \/ ClearList(t) \/ CompareNow(t) \/ FollowNav(t) \/ LeaveComparison(t)
  \/ Reload(t) \/ OpenLanding(t) \/ ClearRecentlyViewed(t)
  \/ NextPhotoShown(t) \/ Thumbnail(t)

ShortlistSpec == ShortlistInit /\ [][ShortlistNext]_shortlistVars

-----------------------------------------------------------------------------
\* A vehicle removed on the compare page is neither compared nor picked in that
\* tab until it is picked, linked or, after a reload, stored again; above all
\* not when the link has run empty and the page falls back to the picked list.
RemovedStaysRemoved ==
  \A t \in Tabs : dropped[t] \cap (Range(picked[t]) \cup Range(Compared(t))) = {}

\* The gallery always shows a photo of the vehicle, whatever photo was selected
\* of the one before it.
GalleryInRange ==
  \A t \in Tabs : openVehicle[t] # NoPage /\ Count(t) > 0 => PhotoIndex(t) \in 0..(Count(t) - 1)
==============================================================================
