-------------------------------- MODULE Catalogue --------------------------------
(***************************************************************************)
(* The listings of the marketplace from four sides: how requests change    *)
(* them, which of them an instance hides, what buyers are shown, and where *)
(* their photos are moved.  Each side has the state of the listings it     *)
(* reads for itself, as detailed as it needs, and is told of changes by    *)
(* steps of its own; so a behaviour moves one side.                        *)
(***************************************************************************)
EXTENDS ListingLifecycle, PublicVisibility, BuyerQueries, ImageMigration

VARIABLE side   \* the side this behaviour is about

catalogueSides == <<side, vars, visibilityVars, queryVars, migrationVars>>

\* A side that the behaviour is not about rests in one of its initial states.
CatalogueInit ==
  /\ side \in {"requests", "visibility", "queries", "photos"}
  /\ Init /\ (side # "requests" => \A i \in Ids : listings[i] = NotYet)
  /\ VisibilityInit /\ QueriesInit
  /\ MigrationInit /\ (side # "photos" => \A p \in Images : objects[p] = {"full"})

Rest(s, v) == IF side = s THEN TRUE ELSE UNCHANGED v
OfSide(s, A) ==
  /\ side = s /\ A
  /\ UNCHANGED side
  /\ Rest("requests", vars) /\ Rest("visibility", visibilityVars)
  /\ Rest("queries", queryVars) /\ Rest("photos", migrationVars)

CatalogueNext ==
  \/ OfSide("requests", Next)
  \/ OfSide("visibility", VisibilityNext)
  \/ OfSide("queries", QueriesNext)
  \/ OfSide("photos", MigrationNext)

CatalogueSpec == CatalogueInit /\ [][CatalogueNext]_catalogueSides

\* The variables of the side keep their shapes.
CatalogueTypeOK ==
  CASE side = "requests"   -> TypeOK
    [] side = "visibility" -> VisibilityTypeOK
    [] side = "queries"    -> QueriesTypeOK
    [] side = "photos"     -> MigrationTypeOK

\* What the public pages hide and show: publicVisibility.ts:4-7, the answers to searches and
\* recommendations (search.service.ts, buyer.service.ts), and the photos they point at
\* (listingImageMigration.ts).
PublicPagesHold ==
  /\ side = "visibility" => HiddenAsPromised
  /\ side = "queries" => QueriesHold
  /\ side = "photos" => PhotosMove
=============================================================================
