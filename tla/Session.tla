------------------------------- MODULE Session -------------------------------
(***************************************************************************)
(* The signed-in user of a browser tab: AuthProvider                       *)
(* (apps/frontend/src/features/auth/context/AuthProvider.tsx) between      *)
(* Firebase, which knows whose token a request carries, and the pages,     *)
(* which show the user that was loaded last.  Every sign-in is answered    *)
(* twice: by the callback of onAuthStateChanged and by the form that       *)
(* signed in, each with a load of its own, and nothing orders their        *)
(* answers.  The forms are LoginForm and RegisterPage.                     *)
(***************************************************************************)
EXTENDS Naturals, Sequences, FiniteSets

CONSTANTS
  Accounts,    \* Firebase accounts that exist or may be registered
  Existing,    \* those that exist at first
  Dealers,     \* those with the role of a dealer or administrator
  NoOne,
  LoadCount,   \* bound: loads of a user that are under way at once
  MaxFaults    \* bound on failed requests and lost answers

ASSUME AccountsAssumption ==
  Existing \subseteq Accounts /\ Dealers \subseteq Existing /\ NoOne \notin Accounts
ASSUME SizesAssumption == LoadCount \in Nat \ {0} /\ MaxFaults \in Nat

Loads == 1..LoadCount

VARIABLES
  accounts,   \* accounts of Firebase
  firebase,   \* currentUser: whose token requests carry
  shown,      \* user: the account shown and the one its dealer status is of
  loading,    \* isLoading
  cache,      \* as whom the answers in the query cache were fetched
  fetching,   \* as whom the pages' queries under way were sent, if any are
  load,       \* [Loads -> Load]
  form,       \* the form being submitted
  leaving,    \* a sign-out is under way
  applied,    \* accounts with a dealer application
  outdated,   \* an answer was shown after its account had left, history
  lost,       \* an application was stored and its answer lost, history
  faults

screen == <<shown, cache, fetching>>
sessionHistory == <<outdated, lost, faults>>
sessionVars == <<accounts, firebase, screen, loading, load, form, leaving, applied, sessionHistory>>

AnyOne == Accounts \cup {NoOne}
Nobody == [id |-> NoOne, of |-> NoOne]
Load == [pc : {"idle", "user", "status"}, by : {"auth", "form"}, id : AnyOne, of : AnyOne]
NoLoad == [pc |-> "idle", by |-> "auth", id |-> NoOne, of |-> NoOne]
Form == [kind : {"none", "login", "buyer", "dealer", "apply"},
         pc : {"idle", "load", "leave", "profile", "submit", "signOut", "undo"}]
NoForm == [kind |-> "none", pc |-> "idle"]

SessionTypeOK ==
  /\ accounts \subseteq Accounts /\ firebase \in accounts \cup {NoOne}
  /\ shown \in [id : AnyOne, of : AnyOne] /\ (shown.id = NoOne => shown.of = NoOne)
  /\ loading \in BOOLEAN /\ leaving \in BOOLEAN
  /\ cache \subseteq Accounts /\ fetching \in AnyOne
  /\ load \in [Loads -> Load] /\ form \in Form
  /\ applied \subseteq Accounts
  /\ outdated \in BOOLEAN /\ lost \in BOOLEAN /\ faults \in 0..MaxFaults

Fault == faults < MaxFaults /\ faults' = faults + 1 /\ UNCHANGED <<outdated, lost>>
Fine == UNCHANGED sessionHistory

\* Variant: the cache is dropped at sign-out only.
SwitchAccount_AtSignOut(next) ==
  /\ shown' = next
  /\ IF next.id = NoOne
       THEN cache' = {} /\ fetching' = NoOne
       ELSE UNCHANGED <<cache, fetching>>

\* queryClient.clear() drops the answers and cancels the queries under way.
SwitchAccount(next) ==
  /\ shown' = next
  /\ IF next.id # shown.id
       THEN cache' = {} /\ fetching' = NoOne
       ELSE UNCHANGED <<cache, fetching>>

-----------------------------------------------------------------------------
(* Firebase tells of a change: nobody is shown at once, somebody after a     *)
(* load.  A form that goes on to load begins its own beside it.             *)

Request(by, who) == [pc |-> "user", by |-> by, id |-> who, of |-> NoOne]
Free == {s \in Loads : load[s].pc = "idle"}

BecomesNoOne ==
  /\ firebase' = NoOne
  /\ SwitchAccount(Nobody)
  /\ loading' = FALSE
  /\ UNCHANGED load

\* Arrives(who, also) starts the callback's load, and the form's if also.
Starts(who, also) ==
  (IF who # firebase THEN <<Request("auth", who)>> ELSE <<>>) \o
  (IF also THEN <<Request("form", who)>> ELSE <<>>)
Begin(requests) ==
  LET rank(s) == Cardinality({t \in Free : t <= s}) IN
  /\ Len(requests) <= Cardinality(Free)
  /\ load' = [s \in Loads |->
                IF s \in Free /\ rank(s) <= Len(requests) THEN requests[rank(s)] ELSE load[s]]
Arrives(who, also) ==
  /\ firebase' = who
  /\ Begin(Starts(who, also))
  /\ UNCHANGED <<screen, loading>>

SessionInit ==
  /\ accounts = Existing /\ firebase \in Existing \cup {NoOne}
  /\ shown = Nobody /\ cache = {} /\ fetching = NoOne
  /\ loading = (firebase # NoOne)
  /\ load = [s \in Loads |-> IF s = 1 /\ firebase # NoOne THEN Request("auth", firebase)
                             ELSE NoLoad]
  /\ form = NoForm /\ leaving = FALSE
  /\ applied = {}
  /\ outdated = FALSE /\ lost = FALSE /\ faults = 0

-----------------------------------------------------------------------------
(* loadUserWithDealerStatus: two requests, each under the token of its       *)
(* moment; the second only for a buyer, and its failure is no failure.      *)

\* The form ends with the load it waited for.
EndForm(s) == form' = IF load[s].by = "form" THEN NoForm ELSE form
Finish(s, user) ==
  /\ SwitchAccount(user) /\ EndForm(s)
  /\ load' = [load EXCEPT ![s] = NoLoad]
  /\ loading' = IF load[s].by = "auth" THEN FALSE ELSE loading
  /\ outdated' = (outdated \/ user.id # firebase \/ user.of \notin {user.id, NoOne})
  /\ UNCHANGED <<accounts, firebase, leaving, applied, lost, faults>>

UserAnswers(s) ==
  /\ load[s].pc = "user"
  /\ IF load[s].id \in Dealers
       THEN Finish(s, [id |-> load[s].id, of |-> NoOne])
       ELSE /\ load' = [load EXCEPT ![s].pc = "status", ![s].of = firebase]
            /\ Fine
            /\ UNCHANGED <<accounts, firebase, screen, loading, form, leaving, applied>>
StatusAnswers(s) ==
  /\ load[s].pc = "status"
  /\ Finish(s, [id |-> load[s].id, of |-> IF load[s].of \in applied THEN load[s].of ELSE NoOne])

\* Variant: the callback's failure leaves the page loading.
UserFails_Spins(s) ==
  /\ load[s].pc = "user" /\ Fault
  /\ load' = [load EXCEPT ![s] = NoLoad]
  /\ IF load[s].by = "auth"
       THEN SwitchAccount(Nobody) /\ UNCHANGED <<loading, form>>
       ELSE /\ form' = IF form.kind = "login" THEN [form EXCEPT !.pc = "leave"] ELSE NoForm
            /\ UNCHANGED <<screen, loading>>
  /\ UNCHANGED <<accounts, firebase, leaving, applied>>

\* The callback then shows nobody, the login signs out again, and a refresh
\* after an application leaves everything as it is.
UserFails(s) ==
  /\ load[s].pc = "user" /\ Fault
  /\ load' = [load EXCEPT ![s] = NoLoad]
  /\ IF load[s].by = "auth"
       THEN SwitchAccount(Nobody) /\ loading' = FALSE /\ UNCHANGED form
       ELSE /\ form' = IF form.kind = "login" THEN [form EXCEPT !.pc = "leave"] ELSE NoForm
            /\ UNCHANGED <<screen, loading>>
  /\ UNCHANGED <<accounts, firebase, leaving, applied>>

-----------------------------------------------------------------------------
(* LoginForm, RegisterPage and signing out. *)

Open == form.kind = "none" /\ ~loading
GoOn(pc) == form' = [form EXCEPT !.pc = pc]

Login(a) ==
  /\ Open /\ a \in accounts
  /\ form' = [kind |-> "login", pc |-> "load"]
  /\ Arrives(a, TRUE)
  /\ Fine /\ UNCHANGED <<accounts, leaving, applied>>

\* A sign-out that fails is ignored.
LoginLeaves ==
  /\ form.pc = "leave"
  /\ form' = NoForm
  /\ \/ BecomesNoOne /\ Fine
     \/ Fault /\ SwitchAccount(Nobody) /\ UNCHANGED <<firebase, loading, load>>
  /\ UNCHANGED <<accounts, leaving, applied>>

Register(a, kind) ==
  /\ Open /\ a \notin accounts /\ (kind = "dealer" => shown.id = NoOne)
  /\ form' = [kind |-> kind, pc |-> "profile"]
  /\ accounts' = accounts \cup {a}
  /\ Arrives(a, FALSE)
  /\ Fine /\ UNCHANGED <<leaving, applied>>

\* getCurrentUser and updateProfile under the token of the moment.
SaveProfile ==
  /\ form.pc = "profile"
  /\ IF firebase = NoOne
       THEN /\ form' = IF form.kind = "dealer" THEN [form EXCEPT !.pc = "undo"] ELSE NoForm
            /\ UNCHANGED screen
       ELSE IF form.kind = "buyer"
         THEN form' = NoForm /\ SwitchAccount([id |-> firebase, of |-> NoOne])
         ELSE GoOn("submit") /\ UNCHANGED screen
  /\ Fine /\ UNCHANGED <<accounts, firebase, loading, load, leaving, applied>>
\* What fails within registerWithEmail, after the account was made, is not undone.
ProfileFails ==
  /\ form.pc = "profile" /\ Fault
  /\ form' \in {NoForm} \cup (IF form.kind = "dealer" THEN {[form EXCEPT !.pc = "undo"]} ELSE {})
  /\ UNCHANGED <<accounts, firebase, screen, loading, load, leaving, applied>>

\* submitAsSignedInBuyer: the application of an account that exists.
ApplyAsBuyer ==
  /\ Open /\ shown.id # NoOne /\ shown.id \notin Dealers
  /\ form' = [kind |-> "apply", pc |-> "submit"]
  /\ Fine /\ UNCHANGED <<accounts, firebase, screen, loading, load, leaving, applied>>

Submit ==
  /\ form.pc = "submit" /\ firebase # NoOne
  /\ applied' = applied \cup {firebase}
  /\ IF form.kind = "dealer"
       THEN GoOn("signOut") /\ UNCHANGED <<firebase, screen, loading, load>>
       ELSE GoOn("load") /\ Begin(<<Request("form", firebase)>>)
              /\ UNCHANGED <<firebase, screen, loading>>
  /\ Fine /\ UNCHANGED <<accounts, leaving>>

\* Refused, or stored without an answer.
SubmitFails ==
  /\ form.pc = "submit"
  /\ \/ Fault /\ UNCHANGED applied
     \/ firebase = NoOne /\ Fine /\ UNCHANGED applied
     \/ /\ firebase # NoOne /\ faults < MaxFaults /\ faults' = faults + 1
        /\ lost' = TRUE /\ UNCHANGED outdated
        /\ applied' = applied \cup {firebase}
  /\ form' = IF form.kind = "dealer" THEN [form EXCEPT !.pc = "undo"] ELSE NoForm
  /\ UNCHANGED <<accounts, firebase, screen, loading, load, leaving>>

SignOutApplicant ==
  /\ form.pc = "signOut"
  /\ form' = NoForm
  /\ \/ BecomesNoOne /\ Fine
     \/ Fault /\ SwitchAccount(Nobody) /\ UNCHANGED <<firebase, loading, load>>
  /\ UNCHANGED <<accounts, leaving, applied>>

\* deleteCurrentUser; its failure is ignored.
UndoRegistration ==
  /\ form.pc = "undo"
  /\ form' = NoForm
  /\ \/ BecomesNoOne /\ accounts' = accounts \ {firebase} /\ Fine
     \/ Fault /\ SwitchAccount(Nobody) /\ UNCHANGED <<accounts, firebase, loading, load>>
  /\ UNCHANGED <<leaving, applied>>

Logout ==
  /\ shown.id # NoOne /\ ~leaving
  /\ leaving' = TRUE
  /\ Fine /\ UNCHANGED <<accounts, firebase, screen, loading, load, form, applied>>
LogoutDone ==
  /\ leaving /\ leaving' = FALSE
  /\ \/ BecomesNoOne /\ Fine
     \/ Fault /\ UNCHANGED <<firebase, screen, loading, load>>
  /\ UNCHANGED <<accounts, form, applied>>

\* Queries of the pages, under the token of the moment.
Fetch ==
  /\ fetching = NoOne /\ firebase # NoOne
  /\ fetching' = firebase
  /\ Fine
  /\ UNCHANGED <<accounts, firebase, shown, cache, loading, load, form, leaving, applied>>
FetchAnswers ==
  /\ fetching # NoOne
  /\ fetching' = NoOne /\ cache' = cache \cup {fetching}
  /\ Fine
  /\ UNCHANGED <<accounts, firebase, shown, loading, load, form, leaving, applied>>

-----------------------------------------------------------------------------
Answer(s) == UserAnswers(s) \/ StatusAnswers(s) \/ UserFails(s)
Continue ==
  \/ LoginLeaves \/ SaveProfile \/ ProfileFails \/ Submit \/ SubmitFails
  \/ SignOutApplicant \/ UndoRegistration

SessionNext ==
  \/ \E s \in Loads : Answer(s)
  \/ Continue
  \/ \E a \in Accounts : Login(a) \/ \E kind \in {"buyer", "dealer"} : Register(a, kind)
  \/ ApplyAsBuyer \/ Logout \/ LogoutDone
  \/ Fetch \/ FetchAnswers

SessionSpec == SessionInit /\ [][SessionNext]_sessionVars

-----------------------------------------------------------------------------
AtRest == form.kind = "none" /\ ~leaving /\ Free = Loads

\* Until an answer is shown for an account that has left: once every load and
\* form has ended, the user shown is the one whose token the requests carry, or
\* nobody after a failure.
ShownIsSignedIn ==
  ~outdated /\ AtRest => shown.id = firebase \/ (shown.id = NoOne /\ faults > 0)

\* Until then, what the pages of a user have cached was fetched as that user:
\* an account never finds the data of the one before it.
CacheIsOwn == ~outdated /\ AtRest /\ shown.id # NoOne => cache \subseteq {shown.id}

\* A dealer application belongs to an account that can sign in, whichever step
\* of the registration failed, unless the answer to its submission was lost.
ApplicantExists == ~lost => applied \subseteq accounts
==============================================================================
