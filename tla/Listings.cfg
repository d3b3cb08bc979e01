SPECIFICATION CatalogueSpec
CONSTANTS
  Ids = {l1, l2}
  Dealers = {d1, d2}
  Plates = {p1, p2}
  Nothing = Nothing
  Fresh = {l2}
  Requests = {r1, r2}
  Clients = {d1, admin}
  Admin = admin
  Ops = {"create", "edit", "status", "delete", "bulk", "remove"}
  MaxListings = 1
  Instances = {i1, i2}
  Sellers = {s1}
  Browses = {b1, b2}
  Changes = {c1, c2}
  CacheMs = 1
  MaxClock = 3
  Offers <- MCOffers
  Texts <- MCTexts
  FilterChoices <- MCFilterChoices
  Nearness <- MCNearness
  CandidateLimit = 2
  VectorLimit = 2
  PageLimit = 1
  MaxChanges = 1
  ImageCount = 2
  Undecodable = {2}
  RunOptions <- MCOptions
  MaxRuns = 2
  MaxStops = 1
SYMMETRY Symmetry
CHECK_DEADLOCK FALSE
INVARIANTS
  CatalogueTypeOK
  RulesKept
  EditsAreWhole
  PublicPagesHold
PROPERTIES
  MovesAreAllowed
