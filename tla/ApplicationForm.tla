--------------------------- MODULE ApplicationForm ---------------------------
(***************************************************************************)
(* RegisterPage (apps/frontend/src/features/auth/pages): the form of a new *)
(* buyer and of a dealer's application.  The application of an account     *)
(* that is signed in already is looked up by an effect, which runs again   *)
(* whenever the user changes, and fills the form while the applicant       *)
(* types.  Accounts and tokens are those of Session.                       *)
(***************************************************************************)
EXTENDS Naturals, FiniteSets

CONSTANTS
  Buyers,       \* buyers who may be signed in
  Staff,        \* dealers and administrators
  Newcomer,     \* the account the form creates
  Anonymous,    \* nobody is signed in
  Refused,      \* buyers whose application an administrator rejected
  MaxRegFaults, \* bound on failed requests and lost answers
  MaxSwitches   \* bound on changes of the user by other tabs and loads

ASSUME VisitorsAssumption ==
  /\ Refused \subseteq Buyers /\ Buyers \cap Staff = {} /\ Newcomer \notin Buyers \cup Staff
  /\ Anonymous \notin Buyers \cup Staff \cup {Newcomer}
ASSUME RegBoundsAssumption == MaxRegFaults \in Nat /\ MaxSwitches \in Nat

VARIABLES
  regMode,    \* the form shown
  regUser,    \* user of useAuth
  lookups,    \* questions for an application, of an effect active or not
  answers,    \* what the fields of the application hold
  answersOf,  \* rejectedApplication: whose
  passwords,  \* per form, blank also if another field of the account is
  documents,  \* the documents chosen
  sending,    \* the submission under way
  regError,   \* an error is shown
  regAt,      \* the page of the tab
  status,     \* the stored application of each account
  excused,    \* an application was stored and its answer or the sign-out lost, history
  regFaults, switches

regPage == <<regMode, answers, answersOf, passwords, documents, regError>>
regVars == <<regPage, regUser, lookups, sending, regAt, status, excused, regFaults, switches>>

Applicants == Buyers \cup {Newcomer}
Modes == {"buyer", "dealer"}
Documents == {"registration", "identity"}
NotSending == [kind |-> "none", pc |-> "idle"]
Sending == [kind : {"none", "buyer", "new", "signedIn"},
            pc : {"idle", "register", "profile", "apply", "signOut", "refresh"}]

RegTypeOK ==
  /\ regMode \in Modes /\ regUser \in Applicants \cup Staff \cup {Anonymous}
  /\ lookups \subseteq [of : Applicants, active : BOOLEAN]
  /\ answers \in {"blank", "account", "typed", "previous"}
  /\ answersOf \in Applicants \cup {Anonymous}
  /\ passwords \in [Modes -> {"blank", "short", "different", "good"}]
  /\ documents \subseteq Documents /\ sending \in Sending
  /\ regError \in BOOLEAN /\ excused \in BOOLEAN
  /\ regAt \in {"form", "status", "marketplace", "portal", "elsewhere"}
  /\ status \in [Applicants -> {"none", "pending", "rejected"}]
  /\ regFaults \in 0..MaxRegFaults /\ switches \in 0..MaxSwitches

RegInit ==
  /\ regMode = "buyer" /\ regUser = Anonymous /\ lookups = {}
  /\ answers = "blank" /\ answersOf = Anonymous
  /\ passwords = [m \in Modes |-> "blank"] /\ documents = {}
  /\ sending = NotSending /\ regError = FALSE /\ regAt = "form"
  /\ status = [u \in Applicants |-> IF u \in Refused THEN "rejected" ELSE "none"]
  /\ excused = FALSE /\ regFaults = 0 /\ switches = 0

RegFault == regFaults < MaxRegFaults /\ regFaults' = regFaults + 1
NoFault == UNCHANGED regFaults

-----------------------------------------------------------------------------
(* The effect: it ends with the user it was for, and a page that was left   *)
(* has none.                                                                *)

\* Variant: an effect that ended still fills the form.
Ended_StillActive == lookups

Ended == {[l EXCEPT !.active = FALSE] : l \in lookups}
Effect(mode, user) ==
  IF regAt # "form" THEN UNCHANGED <<lookups, regAt>>
  ELSE /\ lookups' = Ended \cup {[of |-> u, active |-> TRUE] :
                                   u \in IF mode = "dealer" THEN {user} \cap Applicants ELSE {}}
       /\ regAt' = IF mode = "dealer" /\ user \in Staff THEN "portal" ELSE "form"

UserBecomes(user) == regUser' = user /\ Effect(regMode, user)

\* Another load or another tab tells of a user, perhaps the same again.
UserChanges ==
  /\ switches < MaxSwitches /\ switches' = switches + 1
  /\ \E user \in Buyers \cup Staff \cup {Anonymous} \cup
                 (IF sending.kind \in {"buyer", "new"} /\ sending.pc # "register"
                    THEN {Newcomer} ELSE {}) : UserBecomes(user)
  /\ UNCHANGED <<regPage, sending, status, excused, regFaults>>

\* Apply as Dealer leads to the same page, whose state stays.
ApplyAsDealer ==
  /\ regAt = "form" /\ regMode = "buyer"
  /\ regMode' = "dealer" /\ Effect("dealer", regUser)
  /\ UNCHANGED <<regUser, answers, answersOf, passwords, documents, regError, sending, status,
                 excused, regFaults, switches>>

\* The answer to a lookup, or its failure, which is taken for no application.
LookupEnds(l, found) ==
  /\ lookups' = lookups \ {l}
  /\ LET here == l.active /\ regAt = "form" IN
     /\ regAt' = IF here /\ found = "pending" THEN "status" ELSE regAt
     /\ IF here /\ found = "rejected"
          THEN answers' = "previous" /\ answersOf' = l.of
          ELSE /\ answers' = IF here /\ found = "none" /\ answers = "blank" THEN "account" ELSE answers
               /\ UNCHANGED answersOf
  /\ UNCHANGED <<regMode, regUser, passwords, documents, regError, sending, status, excused, switches>>
LookupAnswers(l) == LookupEnds(l, status[l.of]) /\ NoFault
LookupFails(l) == LookupEnds(l, "none") /\ RegFault

-----------------------------------------------------------------------------
(* The fields.  Those of the account are not shown to a signed-in applicant. *)

SignedInApplicant == regMode = "dealer" /\ regUser \in Applicants

TypeAnswers ==
  /\ regAt = "form" /\ regMode = "dealer" /\ answers # "typed"
  /\ answers' = "typed"
  /\ UNCHANGED <<regMode, answersOf, passwords, documents, regError>>
TypePassword ==
  /\ regAt = "form" /\ ~SignedInApplicant
  /\ \E p \in {"short", "different", "good"} : passwords' = [passwords EXCEPT ![regMode] = p]
  /\ UNCHANGED <<regMode, answers, answersOf, documents, regError>>
ChooseDocument ==
  /\ regAt = "form" /\ regMode = "dealer"
  /\ \E d \in Documents \ documents : documents' = documents \cup {d}
  /\ UNCHANGED <<regMode, answers, answersOf, passwords, regError>>
Fill ==
  /\ TypeAnswers \/ TypePassword \/ ChooseDocument
  /\ UNCHANGED <<regUser, lookups, sending, regAt, status, excused, regFaults, switches>>

\* The links to sign in and to the marketplace are never disabled.
LeaveForm ==
  /\ regAt = "form" /\ regAt' = "elsewhere" /\ lookups' = Ended
  /\ UNCHANGED <<regPage, regUser, sending, status, excused, regFaults, switches>>

\* handleBuyerSubmit and handleDealerSubmit; the browser asks for the required
\* fields that are shown, the code for the rest.
Filled == /\ (regMode = "dealer" => answers \in {"typed", "previous"})
          /\ (~SignedInApplicant => passwords[regMode] # "blank")
Accepted == /\ (~SignedInApplicant => passwords[regMode] = "good")
            /\ (regMode = "dealer" => documents = Documents)
SubmitForm ==
  /\ regAt = "form" /\ sending = NotSending /\ Filled
  /\ regError' = ~Accepted
  /\ sending' = IF ~Accepted THEN NotSending
                ELSE IF SignedInApplicant THEN [kind |-> "signedIn", pc |-> "apply"]
                ELSE [kind |-> IF regMode = "buyer" THEN "buyer" ELSE "new", pc |-> "register"]
  /\ UNCHANGED <<regMode, answers, answersOf, passwords, documents, regUser, lookups, regAt, status,
                 excused, regFaults, switches>>

-----------------------------------------------------------------------------
(* The submission goes on when its page was left, and navigates all the     *)
(* same.                                                                    *)

SentTo(page) == sending' = NotSending /\ regAt' = page
EndsWithError == sending' = NotSending /\ regError' = TRUE
SameFields == UNCHANGED <<regMode, answers, answersOf, passwords, documents, switches>>

RegisterAccount ==
  /\ sending.pc = "register" /\ SameFields /\ UNCHANGED <<regUser, lookups, regAt, status, excused>>
  /\ \/ /\ sending' = [sending EXCEPT !.pc = IF sending.kind = "buyer" THEN "profile" ELSE "apply"]
        /\ NoFault /\ UNCHANGED regError
     \/ RegFault /\ EndsWithError

BuyerRegistered ==
  /\ sending.pc = "profile" /\ SameFields /\ UNCHANGED <<status, excused>>
  /\ \/ NoFault /\ SentTo("marketplace") /\ regUser' = Newcomer /\ lookups' = Ended
        /\ UNCHANGED regError
     \/ RegFault /\ EndsWithError /\ UNCHANGED <<regUser, lookups, regAt>>

\* registerDealerApplication deletes the account again when it fails.
Applicant == IF sending.kind = "new" THEN Newcomer ELSE regUser
ApplicationStored ==
  /\ sending.pc = "apply" /\ Applicant \in Applicants /\ SameFields
  /\ status' = [status EXCEPT ![Applicant] = "pending"]
  /\ sending' = [sending EXCEPT !.pc = IF sending.kind = "new" THEN "signOut" ELSE "refresh"]
  /\ NoFault /\ UNCHANGED <<regUser, lookups, regAt, regError, excused>>
ApplicationFails ==
  /\ sending.pc = "apply" /\ SameFields
  /\ EndsWithError
  /\ \/ Applicant \notin Applicants /\ NoFault /\ UNCHANGED <<status, excused>>
     \/ RegFault /\ UNCHANGED <<status, excused>>
     \/ /\ Applicant \in Applicants /\ RegFault
        /\ excused' = TRUE /\ status' = [status EXCEPT ![Applicant] = "pending"]
  /\ IF sending.kind = "new" THEN UserBecomes(Anonymous) ELSE UNCHANGED <<regUser, lookups, regAt>>

ApplicantSignedOut ==
  /\ sending.pc = "signOut" /\ SameFields /\ UNCHANGED status
  /\ regUser' = Anonymous
  /\ \/ NoFault /\ SentTo("status") /\ lookups' = Ended /\ UNCHANGED <<regError, excused>>
     \/ RegFault /\ EndsWithError /\ excused' = TRUE /\ Effect(regMode, Anonymous)

\* The outcome of the refresh does not matter.
RefreshUser ==
  /\ sending.pc = "refresh" /\ SameFields /\ UNCHANGED <<regUser, status, excused, regError>>
  /\ lookups' = Ended
  /\ SentTo("status") /\ (NoFault \/ RegFault)

-----------------------------------------------------------------------------
SubmissionStep ==
  \/ RegisterAccount \/ BuyerRegistered \/ ApplicationStored \/ ApplicationFails
  \/ ApplicantSignedOut \/ RefreshUser
LookupStep(l) == LookupAnswers(l) \/ LookupFails(l)

RegNext ==
  \/ UserChanges \/ ApplyAsDealer \/ Fill \/ LeaveForm \/ SubmitForm \/ SubmissionStep
  \/ \E l \in lookups : LookupStep(l)

RegSpec == RegInit /\ [][RegNext]_regVars

-----------------------------------------------------------------------------
\* An applicant whose application is stored is led on and never left
\* before a form that failed, unless the answer or the sign-out after it was lost.
StoredIsTold ==
  \A u \in Applicants : status[u] = "pending" /\ sending = NotSending /\ ~excused => regAt # "form"
==============================================================================
