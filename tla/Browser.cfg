SPECIFICATION BrowserSpec
CONSTANTS
  Accounts = {a, b}
  Existing = {a}
  Dealers = {a}
  NoOne = NoOne
  LoadCount = 2
  MaxFaults = 1
  Buyers = {p}
  Staff = {d}
  Refused = {p}
  Newcomer = n
  Anonymous = Anonymous
  MaxRegFaults = 1
  MaxSwitches = 2
  Categories = {car, van}
  FirstCategory = car
  MaxDrafts = 1
  MaxScreenFaults = 1
  MaxClicks = 2
  PhotoCount = 2
  OldCount = 2
  MaxImages = 3
  AskCount = 1
  MaxAsks = 2
  MaxFormFaults = 1
  Rows = {1, 2, 3}
  Found = {2}
  Unconfirmed = {}
  Archived = {3}
  Unwritten = {1}
  RowsPerPage = 1
  MaxMoves = 2
  MaxActions = 1
  MaxManagerFaults = 1
  MarketPages = 2
  MaxTouches = 3
  MaxMarketFaults = 1
  Vehicles = {1, 2}
  NoPage = 0
  Tabs = {t1, t2}
  PhotosOf <- MCPhotosOf
  MAX_COMPARE = 1
  MAX_RECENTLY_VIEWED = 2
  MaxReloads = 1
  Records = {1, 2}
  Marked = {1}
  SlotCount = 2
  MaxFilters = 2
  MaxDecisions = 1
  MaxAdminFaults = 1
  People = {1, 2}
  Stranger = 0
  FirstStanding <- MCFirst
  MaxSignIns = 2
  MaxVisits = 2
  MaxTyped = 1
  MaxShellFaults = 1
INVARIANTS BrowserTypeOK SessionHolds FormsHold 
CHECK_DEADLOCK FALSE
PROPERTIES BrowserActs BrowserSettles
