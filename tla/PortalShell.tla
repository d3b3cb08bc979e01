----------------------------- MODULE PortalShell -----------------------------
(***************************************************************************)
(* What surrounds the pages: the routes and the guard of the portals       *)
(* (App.tsx, RoleGuard.tsx), where a sign-in leads (LoginForm.tsx), the    *)
(* page of an application's status (DealerPendingPage.tsx), the banner for *)
(* an address not verified yet (EmailVerificationBanner.tsx), the drawer   *)
(* of the portals (PortalLayout.tsx), and the dealer's profile             *)
(* (DealerProfile.tsx).  The server and the mail box are beside it: an     *)
(* administrator decides while the applicant is signed in.                 *)
(***************************************************************************)
EXTENDS Naturals

CONSTANTS
  People,
  Stranger,       \* nobody is signed in
  FirstStanding, \* [People -> standing on the server at first]
  MaxSignIns, MaxVisits, MaxTyped, MaxShellFaults \* bounds

Standings == {"buyer", "pending", "rejected", "dealer", "admin"}
DealerPages == {"dealer", "profile"}
Places == {"home", "login", "status", "admin"} \cup DealerPages

ASSUME ShellAssumption ==
  /\ Stranger \notin People /\ FirstStanding \in [People -> Standings]
  /\ MaxSignIns \in Nat /\ MaxVisits \in Nat /\ MaxTyped \in Nat /\ MaxShellFaults \in Nat

VARIABLES
  standing,      \* [People -> role and application on the server]
  confirmed,     \* people who have opened the link in the email
  who,           \* who is signed in
  loadedAs,      \* the standing of that user when it was loaded
  place,         \* the route
  asking,        \* whose application the status page is waiting for
  told,          \* the application it shows
  silent,        \* the banner takes the address as verified
  checking,      \* whose address is being checked
  crossed,       \* a check was answered for somebody who has left, history
  drawer,        \* the drawer is open
  locked,        \* the page behind it does not scroll
  profile,       \* the stored profile, as a number
  typedIn,       \* what the form holds; 0 while the profile is loading
  savingProfile, \* what is being saved
  note,          \* "saved" or "failed"
  signIns, visits, shellFaults

guardVars == <<standing, confirmed, who, loadedAs, place, signIns, visits>>
statusVars == <<asking, told>>
bannerVars == <<silent, checking, crossed>>
drawerVars == <<drawer, locked>>
profileVars == <<profile, typedIn, savingProfile, note>>
shellVars == <<guardVars, statusVars, bannerVars, drawerVars, profileVars, shellFaults>>

Told == [of : People \cup {Stranger}, as : Standings]
Untold == [of |-> Stranger, as |-> "pending"]

ShellTypeOK ==
  /\ standing \in [People -> Standings] /\ confirmed \subseteq People
  /\ who \in People \cup {Stranger} /\ loadedAs \in Standings \cup {"none"}
  /\ place \in Places
  /\ asking \in People \cup {Stranger} /\ told \in Told
  /\ silent \in BOOLEAN /\ checking \in People \cup {Stranger} /\ crossed \in BOOLEAN
  /\ drawer \in BOOLEAN /\ locked \in BOOLEAN
  /\ {profile, typedIn, savingProfile} \subseteq 0..(MaxTyped + 1)
  /\ note \in {"none", "saved", "failed"}
  /\ signIns \in 0..MaxSignIns /\ visits \in 0..MaxVisits /\ shellFaults \in 0..MaxShellFaults

ShellFault == shellFaults < MaxShellFaults /\ shellFaults' = shellFaults + 1
ShellFine == UNCHANGED shellFaults

ShellInit ==
  /\ standing = FirstStanding /\ confirmed = {}
  /\ who = Stranger /\ loadedAs = "none" /\ place = "login"
  /\ asking = Stranger /\ told = Untold
  /\ silent = TRUE /\ checking = Stranger /\ crossed = FALSE
  /\ drawer = FALSE /\ locked = FALSE
  /\ profile = 1 /\ typedIn = 0 /\ savingProfile = 0 /\ note = "none"
  /\ signIns = 0 /\ visits = 0 /\ shellFaults = 0

-----------------------------------------------------------------------------
(* A page is mounted with its own state, and the drawer closes. *)

Waiting == loadedAs \in {"pending", "rejected"}
Passes(p) ==
  CASE p \in DealerPages -> loadedAs \in {"dealer", "admin"}
    [] p = "admin"       -> loadedAs = "admin"
    [] OTHER             -> TRUE
InPortal == place \in DealerPages \cup {"admin"} /\ Passes(place)

\* A save under way is stored or lost by then.
LeaveProfile ==
  /\ typedIn' = 0 /\ savingProfile' = 0 /\ note' = "none"
  /\ profile' \in IF savingProfile > 0 THEN {profile, savingProfile} ELSE {profile}

Mount(p) ==
  /\ place' = p
  /\ asking' = (IF p = "status" THEN who' ELSE Stranger) /\ told' = Untold
  /\ drawer' = FALSE /\ locked' = FALSE
  /\ LeaveProfile

Visit(p) ==
  /\ visits < MaxVisits /\ visits' = visits + 1
  /\ p # place /\ UNCHANGED who /\ Mount(p)
  /\ ShellFine /\ UNCHANGED <<standing, confirmed, loadedAs, signIns, bannerVars>>

\* Somebody else sees "Access Restricted" and stays.
Redirect ==
  /\ place \in DealerPages \cup {"admin"} /\ UNCHANGED who
  /\ \/ who = Stranger /\ Mount("login")
     \/ place \in DealerPages /\ Waiting /\ Mount("status")
  /\ ShellFine /\ UNCHANGED <<standing, confirmed, loadedAs, signIns, visits, bannerVars>>

StartPage(s) ==
  CASE s \in {"pending", "rejected"} -> "status"
    [] s = "dealer"                  -> "dealer"
    [] s = "admin"                   -> "admin"
    [] OTHER                         -> "home"
SignIn(p) ==
  /\ place = "login" /\ who = Stranger
  /\ signIns < MaxSignIns /\ signIns' = signIns + 1
  /\ who' = p /\ loadedAs' = standing[p] /\ silent' = (p \in confirmed)
  /\ Mount(StartPage(standing[p]))
  /\ ShellFine /\ UNCHANGED <<standing, confirmed, visits, checking, crossed>>

\* The status page stays, and asks nothing more; the portals are left.
SignOutOfPortal ==
  /\ who # Stranger
  /\ who' = Stranger /\ loadedAs' = "none" /\ silent' = TRUE
  /\ IF InPortal THEN Mount("login") ELSE UNCHANGED <<place, statusVars, drawerVars, profileVars>>
  /\ ShellFine /\ UNCHANGED <<standing, confirmed, signIns, visits, checking, crossed>>

\* Elsewhere: the administrator decides, and a rejected dealer applies again.
Reviewed(p) ==
  /\ \/ standing[p] = "pending" /\ standing' \in {[standing EXCEPT ![p] = s] : s \in {"dealer", "rejected"}}
     \/ standing[p] = "rejected" /\ standing' = [standing EXCEPT ![p] = "pending"]
  /\ visits < MaxVisits /\ visits' = visits + 1
  /\ ShellFine
  /\ UNCHANGED <<confirmed, who, loadedAs, place, signIns, statusVars, bannerVars, drawerVars,
                 profileVars>>

-----------------------------------------------------------------------------
(* DealerPendingPage: a failure to load is ignored. *)

StatusArrives ==
  /\ place = "status" /\ asking # Stranger
  /\ told' = [of |-> asking, as |-> standing[asking]] /\ asking' = Stranger
  /\ ShellFine /\ UNCHANGED <<guardVars, bannerVars, drawerVars, profileVars>>
StatusIgnored ==
  /\ asking # Stranger /\ ShellFault
  /\ asking' = Stranger /\ UNCHANGED told
  /\ UNCHANGED <<guardVars, bannerVars, drawerVars, profileVars>>

-----------------------------------------------------------------------------
(* EmailVerificationBanner *)

OpensLink(p) ==
  /\ p \notin confirmed /\ confirmed' = confirmed \cup {p}
  /\ ShellFine
  /\ UNCHANGED <<standing, who, loadedAs, place, signIns, visits, statusVars, bannerVars,
                 drawerVars, profileVars>>
IHaveVerified ==
  /\ who # Stranger /\ ~silent /\ checking = Stranger
  /\ checking' = who
  /\ ShellFine /\ UNCHANGED <<silent, crossed, guardVars, statusVars, drawerVars, profileVars>>

VerificationAnswers ==
  /\ checking # Stranger /\ checking' = Stranger
  /\ IF checking \in confirmed
       THEN silent' = TRUE /\ crossed' = (crossed \/ checking # who)
       ELSE UNCHANGED <<silent, crossed>>
  /\ ShellFine /\ UNCHANGED <<guardVars, statusVars, drawerVars, profileVars>>
VerificationFails ==
  /\ checking # Stranger /\ ShellFault /\ checking' = Stranger
  /\ UNCHANGED <<silent, crossed, guardVars, statusVars, drawerVars, profileVars>>

-----------------------------------------------------------------------------
(* PortalLayout *)

ToggleDrawer ==
  /\ InPortal /\ drawer' = ~drawer /\ locked' = ~drawer
  /\ ShellFine /\ UNCHANGED <<guardVars, statusVars, bannerVars, profileVars>>

-----------------------------------------------------------------------------
(* DealerProfile.  The fields can be edited while the profile is saved, and  *)
(* the answer replaces them.                                                *)

OnProfile == place = "profile" /\ Passes("profile")
ProfileArrives ==
  /\ OnProfile /\ typedIn = 0
  /\ \/ typedIn' = profile /\ UNCHANGED note /\ ShellFine
     \/ note = "none" /\ ShellFault /\ note' = "failed" /\ UNCHANGED typedIn
  /\ UNCHANGED <<profile, savingProfile, guardVars, statusVars, bannerVars, drawerVars>>
TypeField ==
  /\ OnProfile /\ typedIn \in 1..MaxTyped
  /\ typedIn' = typedIn + 1
  /\ ShellFine
  /\ UNCHANGED <<profile, savingProfile, note, guardVars, statusVars, bannerVars, drawerVars>>
SaveForm ==
  /\ OnProfile /\ typedIn > 0 /\ savingProfile = 0
  /\ savingProfile' = typedIn /\ note' = "none"
  /\ ShellFine /\ UNCHANGED <<profile, typedIn, guardVars, statusVars, bannerVars, drawerVars>>

ProfileSaved ==
  /\ savingProfile > 0
  /\ profile' = savingProfile /\ typedIn' = savingProfile /\ savingProfile' = 0 /\ note' = "saved"
  /\ ShellFine /\ UNCHANGED <<guardVars, statusVars, bannerVars, drawerVars>>
ProfileNotSaved ==
  /\ savingProfile > 0 /\ ShellFault
  /\ savingProfile' = 0 /\ note' = "failed" /\ profile' \in {profile, savingProfile}
  /\ UNCHANGED <<typedIn, guardVars, statusVars, bannerVars, drawerVars>>

ShellAnswers ==
  \/ Redirect \/ StatusArrives \/ StatusIgnored
  \/ VerificationAnswers \/ VerificationFails
  \/ ProfileSaved \/ ProfileNotSaved
ShellNext ==
  \/ ShellAnswers \/ ProfileArrives
  \/ \E p \in Places : Visit(p)
  \/ \E p \in People : SignIn(p) \/ Reviewed(p) \/ OpensLink(p)
  \/ SignOutOfPortal \/ IHaveVerified \/ ToggleDrawer
  \/ TypeField \/ SaveForm

ShellSpec == ShellInit /\ [][ShellNext]_shellVars

-----------------------------------------------------------------------------
\* A signed-in user sees the status of the own application, not that of the
\* user before, who may have left the page open.
StatusIsOwn == told.of # Stranger /\ who # Stranger => told.of = who

\* Who is signed in with an address not verified is told so, until the check of
\* somebody who has left is answered.
BannerIsTrue == ~crossed /\ who # Stranger /\ who \notin confirmed => ~silent

\* Only an open drawer holds the page behind it, whatever closed the portal.
ScrollIsFree == locked = drawer /\ (drawer => InPortal)

\* A form is never behind the stored profile, whether its saves failed or were
\* answered late: saving it again does not bring old details back.
FieldsAreCurrent == typedIn > 0 => typedIn >= profile

\* A visitor on a page that the guard redirects from.
TurnedAway == place \in DealerPages /\ ~Passes(place) /\ (who = Stranger \/ Waiting)
==============================================================================
