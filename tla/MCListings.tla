------------------------------ MODULE MCListings ------------------------------
(***************************************************************************)
(* A small instance of Catalogue for TLC.                                  *)
(***************************************************************************)
EXTENDS Catalogue

\* Requests are interchangeable, and so are the plates.
Symmetry == Permutations(Requests) \cup Permutations(Plates)

\* Four vehicles, of which some share a word, a place, a make or a price.
Car(body, place, make, price, words) ==
  [category |-> "car", bodyType |-> body, place |-> place, make |-> make, price |-> price, words |-> words]
MCOffers ==
  <<Car("suv", "galle", "toyota", 2, <<"toyota", "family">>),
    Car("sedan", "kandy", "honda", 2, <<"honda", "family">>),
    [category |-> "van", bodyType |-> "none", place |-> "kandy", make |-> "toyota", price |-> 3,
     words |-> <<"toyota", "van">>],
    Car("suv", "kandy", "toyota", 5, <<"toyota", "suv">>)>>
MCNearness == <<6, 2, 4, 6>>
MCTexts ==
  {<<"toyota", "family">>, <<"suv", "near", "kandy">>, <<"near", "kandy", "suv">>,
   <<"cheap", "van", "for", "suv">>, <<"near", "kandy", "used", "family">>, <<"under2m", "honda", "toyota">>}
MCFilterChoices ==
  {NoFilters, [NoFilters EXCEPT !.category = "van"], [NoFilters EXCEPT !.location = <<"kandy">>]}
\* In a dry run the other options change nothing but its report.
MCOptions == {o \in Options : o.dryRun => ~o.keepLegacy /\ ~o.publicUrl}
=============================================================================
