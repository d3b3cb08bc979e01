---------------------------------- MODULE Inbox ----------------------------------
(***************************************************************************)
(* A dealer's notifications from the worker's stale-stock reminder         *)
(* (staleListingReminder.job.ts, claimStaleListingReminder) to the bell of *)
(* the portal (NotificationCenter.tsx), which polls the inbox and marks    *)
(* notifications read before the server has confirmed it.  Polls, clicks   *)
(* and the reminders of several workers overlap; answers may come out of   *)
(* order or not at all.                                                    *)
(***************************************************************************)
EXTENDS Naturals, FiniteSets

CONSTANTS
  Notes,       \* notifications that may be recorded, numbered in the order they are created in
  PageSize,    \* notifications that the page asks for
  Polls,       \* polls the page may have in flight at once
  Marks        \* clicks: one notification, or all of them

ASSUME InboxAssumption == Notes \subseteq Nat /\ PageSize \in Nat

Mark == [pc : {"idle", "sent", "answered", "done"}, notes : SUBSET Notes, all : BOOLEAN]
Poll == [pc : {"idle", "sent", "answered"}, unread : SUBSET Notes, list : SUBSET Notes,
         counted : BOOLEAN, listed : BOOLEAN, count : Nat]

VARIABLES
  lastReminder,  \* staleReminderSentAt: within STALE_REMINDER_REPEAT_DAYS, or before (or never)
  claimed,       \* a worker has claimed a reminder and not recorded it yet
  tooSoon,       \* history: a reminder was claimed within the period of the one before
  unread, read,  \* database: the notifications recorded so far
  shown,         \* page: the loaded notifications
  shownUnread,   \* page: those it shows as unread
  badge,         \* page: unreadCount
  loading,       \* page: the "mark all" button waits
  poll, mark

inboxVars == <<lastReminder, claimed, tooSoon, unread, read, shown, shownUnread, badge,
               loading, poll, mark>>

NoPoll == [pc |-> "idle", unread |-> {}, list |-> {}, counted |-> FALSE, listed |-> FALSE, count |-> 0]

InboxInit ==
  /\ lastReminder = "before" /\ claimed = FALSE /\ tooSoon = FALSE /\ unread = {} /\ read = {}
  /\ shown = {} /\ shownUnread = {} /\ badge = 0 /\ loading = FALSE
  /\ poll = [p \in Polls |-> NoPoll]
  /\ mark = [m \in Marks |-> [pc |-> "idle", notes |-> {}, all |-> FALSE]]

page == <<shown, shownUnread, badge, loading, poll, mark>>
server == <<lastReminder, claimed, tooSoon, unread, read>>
Recorded == unread \cup read
Records == \E n \in Notes : (\A x \in Recorded : x < n) /\ unread' = unread \cup {n}

\* A period is longer than the turn of a dealer in the job.
PeriodPasses ==
  /\ lastReminder = "within" /\ ~claimed /\ lastReminder' = "before"
  /\ UNCHANGED <<claimed, tooSoon, unread, read, page>>

\* claimStaleListingReminder: one update, filtered on the last reminder, so that two worker
\* copies never both match.  That the role and the suspension of the account may refuse it as
\* well only makes claims rarer.
Due == lastReminder # "within"

\* One dealer's turn of runStaleListingReminders on any worker copy: the claim, and then the
\* notification; if that fails, or the worker stops before, the claim stays.
ClaimReminder ==
  /\ Due
  /\ lastReminder' = "within" /\ claimed' = TRUE
  /\ tooSoon' = (tooSoon \/ lastReminder = "within")
  /\ UNCHANGED <<unread, read, page>>
RecordReminder ==
  /\ claimed /\ claimed' = FALSE
  /\ Records \/ unread' = unread
  /\ UNCHANGED <<lastReminder, tooSoon, read, page>>

\* Another event of the system records a notification: notify.
OtherEvent ==
  /\ Records
  /\ UNCHANGED <<lastReminder, claimed, tooSoon, read, page>>

-----------------------------------------------------------------------------
(* The page: refresh, markRead, markAllRead.                               *)

\* The interval fires at the latest when no earlier poll is under way.
Polling_Once == shown = {}
Polling == TRUE

StartPoll(p) ==
  /\ Polling /\ poll[p].pc = "idle"
  /\ poll' = [poll EXCEPT ![p].pc = "sent"]
  /\ UNCHANGED <<server, shown, shownUnread, badge, loading, mark>>

\* The server counts and lists in two queries that run side by side.
CountUnread(p) ==
  /\ poll[p].pc = "sent" /\ ~poll[p].counted
  /\ poll' = [poll EXCEPT ![p].counted = TRUE, ![p].count = Cardinality(unread),
                          ![p].pc = IF poll[p].listed THEN "answered" ELSE "sent"]
  /\ UNCHANGED <<server, shown, shownUnread, badge, loading, mark>>

\* The first page: the newest notifications, read or not.
Newest == {n \in Recorded : Cardinality({x \in Recorded : x > n}) < PageSize}

ListNotes(p) ==
  /\ poll[p].pc = "sent" /\ ~poll[p].listed
  /\ poll' = [poll EXCEPT ![p].listed = TRUE, ![p].list = Newest, ![p].unread = unread \cap Newest,
                          ![p].pc = IF poll[p].counted THEN "answered" ELSE "sent"]
  /\ UNCHANGED <<server, shown, shownUnread, badge, loading, mark>>

PollArrives(p) ==
  /\ poll[p].pc = "answered"
  /\ shown' = poll[p].list /\ shownUnread' = poll[p].unread /\ badge' = poll[p].count
  /\ poll' = [poll EXCEPT ![p] = NoPoll]
  /\ UNCHANGED <<server, loading, mark>>

\* The catch of refresh: it drops both answers when one request fails.
PollFails(p) ==
  /\ poll[p].pc = "sent" /\ ~poll[p].counted /\ ~poll[p].listed
  /\ poll' = [poll EXCEPT ![p] = NoPoll]
  /\ UNCHANGED <<server, shown, shownUnread, badge, loading, mark>>

\* markRead: the page changes first; Math.max keeps the badge from going below zero.
Decremented_Raw == badge - 1
Decremented == IF badge = 0 THEN 0 ELSE badge - 1

ClickOne(m, n) ==
  /\ mark[m].pc = "idle" /\ n \in shownUnread
  /\ shownUnread' = shownUnread \ {n} /\ badge' = Decremented
  /\ mark' = [mark EXCEPT ![m].pc = "sent", ![m].notes = {n}]
  /\ UNCHANGED <<server, shown, loading, poll>>

\* markAllRead: the page changes when the answer is there.
ClickAll(m) ==
  /\ mark[m].pc = "idle" /\ ~loading /\ badge > 0
  /\ loading' = TRUE
  /\ mark' = [mark EXCEPT ![m].pc = "sent", ![m].all = TRUE]
  /\ UNCHANGED <<server, shown, shownUnread, badge, poll>>

\* markNotificationRead by _id, markAllNotificationsRead by read: false; or the request is lost.
Covered_All(m) == unread
Covered(m) == IF mark[m].all THEN unread ELSE mark[m].notes

MarkApplied(m) ==
  /\ mark[m].pc = "sent"
  /\ \/ unread' = unread \ Covered(m) /\ read' = read \cup (Covered(m) \cap unread)
     \/ UNCHANGED <<unread, read>>
  /\ mark' = [mark EXCEPT ![m].pc = "answered"]
  /\ UNCHANGED <<lastReminder, claimed, tooSoon, shown, shownUnread, badge, loading, poll>>

MarkAnswered(m) ==
  /\ mark[m].pc = "answered"
  /\ IF mark[m].all THEN shownUnread' = {} /\ badge' = 0 /\ loading' = FALSE
                    ELSE UNCHANGED <<shownUnread, badge, loading>>
  /\ mark' = [mark EXCEPT ![m].pc = "done"]
  /\ UNCHANGED <<server, shown, poll>>

InboxNext ==
  \/ PeriodPasses \/ OtherEvent \/ ClaimReminder \/ RecordReminder
  \/ \E p \in Polls : StartPoll(p) \/ CountUnread(p) \/ ListNotes(p) \/ PollArrives(p) \/ PollFails(p)
  \/ \E m \in Marks : (\E n \in Notes : ClickOne(m, n)) \/ ClickAll(m) \/ MarkApplied(m) \/ MarkAnswered(m)

-----------------------------------------------------------------------------
InboxTypeOK ==
  /\ lastReminder \in {"within", "before"} /\ claimed \in BOOLEAN /\ tooSoon \in BOOLEAN
  /\ unread \subseteq Notes /\ read \subseteq Notes /\ unread \cap read = {}
  /\ shown \subseteq Notes /\ shownUnread \subseteq shown /\ badge \in Nat /\ loading \in BOOLEAN
  /\ poll \in [Polls -> Poll] /\ mark \in [Marks -> Mark]

\* staleListingReminder.job.ts:10-12: however many worker copies run the job, the dealer is
\* reminded at most once in STALE_REMINDER_REPEAT_DAYS.
RemindedOncePerPeriod == ~tooSoon

\* A notification only becomes read through a click on it or on "mark all" (notification.repository.ts:26-32).
ReadWasClicked ==
  \A n \in read : \E m \in Marks : mark[m].pc \in {"answered", "done"} /\ (mark[m].all \/ n \in mark[m].notes)

\* The dealer is told once and decides what is read.
InboxHolds == RemindedOncePerPeriod /\ ReadWasClicked

\* Whatever the page guessed and however polls and clicks crossed, the bell ends up showing the
\* number of the server's unread notifications, and its page of the newest, with those unread
\* that are (NotificationCenter.tsx:39-53).
BellSettles ==
  <>[](badge = Cardinality(unread) /\ shown = Newest /\ shownUnread = unread \cap Newest /\ ~loading)
=============================================================================
