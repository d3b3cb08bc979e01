------------------------------- MODULE Browser -------------------------------
(***************************************************************************)
(* A tab of the browser, on one of its pages: the frontend's parts that    *)
(* keep state of their own.  A page is mounted with its own state and      *)
(* reads nothing that another one writes (what they share, the signed-in   *)
(* user, is an input of each), so a behaviour is about one of them.        *)
(***************************************************************************)
EXTENDS Session, ApplicationForm, UploadScreens, VehicleRules, ListingForm, ListingManager,
        Marketplace, Shortlist, AdminScreens, PortalShell

VARIABLE part   \* the part this behaviour is about

Parts == {"session", "application", "uploads", "vehicle", "form", "manager", "market",
          "shortlist", "admin", "shell"}

browserVars == <<part, sessionVars, regVars, uploadVars, rulesVars, listingFormVars, managerVars,
                 marketVars, shortlistVars, adminVars, shellVars>>

\* A part that the behaviour is not about rests in one of its initial states.
BrowserInit ==
  /\ part \in Parts
  /\ SessionInit /\ (part # "session" => firebase = NoOne)
  /\ RegInit
  /\ UploadScreensInit /\ (part # "uploads" => job = NoJob)
  /\ RulesInit
  /\ ListingFormInit /\ (part # "form" => ~editing)
  /\ ManagerInit
  /\ MarketInit /\ (part # "market" => ~searchInput)
  /\ ShortlistInit
  /\ AdminInit /\ (part # "admin" => desk = "users" /\ truth = [i \in Records |-> "open"])
  /\ ShellInit

Idle(p, q, vars) == IF p = q THEN TRUE ELSE UNCHANGED vars
OfPart(p, A) ==
  /\ part = p /\ A
  /\ UNCHANGED part
  /\ Idle(p, "session", sessionVars) /\ Idle(p, "application", regVars)
  /\ Idle(p, "uploads", uploadVars) /\ Idle(p, "vehicle", rulesVars)
  /\ Idle(p, "form", listingFormVars) /\ Idle(p, "manager", managerVars)
  /\ Idle(p, "market", marketVars) /\ Idle(p, "shortlist", shortlistVars)
  /\ Idle(p, "admin", adminVars) /\ Idle(p, "shell", shellVars)

BrowserNext ==
  \/ OfPart("session", SessionNext)
  \/ OfPart("application", RegNext)
  \/ OfPart("uploads", UploadScreensNext)
  \/ OfPart("vehicle", RulesNext)
  \/ OfPart("form", ListingFormNext)
  \/ OfPart("manager", ManagerNext)
  \/ OfPart("market", MarketNext)
  \/ OfPart("shortlist", ShortlistNext)
  \/ OfPart("admin", AdminNext)
  \/ OfPart("shell", ShellNext)

\* Requests are answered or fail, timers fire, and an async function goes on;
\* nothing is assumed of the user or of the worker.
BrowserFairness ==
  /\ WF_sessionVars(part = "session" /\ Continue) /\ WF_sessionVars(part = "session" /\ LogoutDone)
  /\ \A s \in Loads : WF_sessionVars(part = "session" /\ Answer(s))
  /\ WF_regVars(part = "application" /\ SubmissionStep)
  /\ WF_uploadVars(part = "uploads" /\ Poll) /\ SF_uploadVars(part = "uploads" /\ JobArrives)
  /\ WF_uploadVars(part = "uploads" /\ \E r \in Requests : RequestSettles(r))
  /\ WF_listingFormVars(part = "form" /\ SavingStep)
  /\ WF_managerVars(part = "manager" /\ BulkStep) /\ WF_managerVars(part = "manager" /\ RowsStep)
  /\ WF_marketVars(part = "market" /\ EffectFires) /\ WF_marketVars(part = "market" /\ MarketFetch)
  /\ WF_marketVars(part = "market" /\ QuerySettles)
  /\ WF_adminVars(part = "admin" /\ TableAnswers) /\ WF_adminVars(part = "admin" /\ DecisionEnds)
  /\ WF_shellVars(part = "shell" /\ Redirect)
  /\ WF_shellVars(part = "shell" /\ (ProfileSaved \/ ProfileNotSaved))

BrowserSpec == BrowserInit /\ [][BrowserNext]_browserVars /\ BrowserFairness

-----------------------------------------------------------------------------
\* The variables of the part keep their shapes.
BrowserTypeOK ==
  CASE part = "session"     -> SessionTypeOK
    [] part = "application" -> RegTypeOK
    [] part = "uploads"     -> UploadScreensTypeOK
    [] part = "vehicle"     -> RulesTypeOK
    [] part = "form"        -> ListingFormTypeOK
    [] part = "manager"     -> ManagerTypeOK
    [] part = "market"      -> MarketTypeOK
    [] part = "shortlist"   -> ShortlistTypeOK
    [] part = "admin"       -> AdminTypeOK
    [] part = "shell"       -> ShellTypeOK

\* The signed-in user: the one shown is the one signed in, the cache is that
\* user's, every application has an account, and the banner and the status page
\* speak of the user there is.
SessionHolds ==
  /\ part = "session" => ShownIsSignedIn /\ CacheIsOwn /\ ApplicantExists
  /\ part = "shell" => StatusIsOwn /\ BannerIsTrue

\* The forms: what is stored is told, no photo is stored twice or dropped, the
\* order shown is the one stored, and every vehicle stored is complete.
FormsHold ==
  /\ part = "application" => StoredIsTold
  /\ part = "form" => StoredOnce /\ NoneDropped /\ ExistingIsStored
  /\ part = "vehicle" => VehiclesComplete
  /\ part = "shell" => FieldsAreCurrent

\* The pages that show what the server has: uploads, listings and tables at
\* rest are current, actions reach only what is shown, filters make sense, and
\* what was removed stays removed.
ScreensHold ==
  /\ part = "uploads" => QuietIsCurrent /\ NoDraftForgotten /\ FileMatches
  /\ part = "manager" => TickedIsShown /\ TableIsCurrent /\ ViewStays
  /\ part = "market" => TextIsSearched /\ FiltersMakeSense /\ ChoiceStays
  /\ part = "shortlist" => RemovedStaysRemoved /\ GalleryInRange
  /\ part = "admin" => TableIsTrue /\ GuardedIsCurrent
  /\ part = "shell" => ScrollIsFree

\* The application form is only ever filled with the answers of whoever is
\* signed in at that moment.
BrowserActs == [][answersOf' # answersOf => answersOf' = regUser]_browserVars

\* Something on the screen that must pass: the spinner, a submission, a redirect,
\* a page that shows an upload before its end or rows of other filters.
Busy ==
  CASE part = "session"     -> loading \/ form.kind # "none"
    [] part = "application" -> sending.kind # "none"
    [] part = "uploads"     -> EndNotShown
    [] part = "form"        -> saving.pc # "idle"
    [] part = "manager"     -> bulk # NoBulk
    [] part = "market"      -> results # Current /\ ~marketFailed
    [] part = "admin"       -> spinning \/ decision.pc # "idle"
    [] part = "shell"       -> TurnedAway \/ savingProfile > 0
    [] OTHER                -> FALSE

\* Whatever is busy comes to rest, whichever requests fail: no spinner spins and
\* no button stays disabled forever, the end of an upload is shown, and a
\* redirect leads somewhere.
BrowserSettles == Busy ~> ~Busy
==============================================================================
