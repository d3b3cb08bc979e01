------------------------------- MODULE BackendEdge -------------------------------
(***************************************************************************)
(* Two parts of the edge of the system that share no state: how a request  *)
(* is let in, and a dealer's inbox.  Because neither reads what the other  *)
(* writes, a behaviour moves one of them: the interleavings of both say    *)
(* nothing more about either.                                              *)
(***************************************************************************)
EXTENDS RequestGate, Inbox

VARIABLE part   \* the part this behaviour is about

edgeVars == <<part, gateVars, inboxVars>>

EdgeInit == part \in {"gate", "inbox"} /\ GateInit /\ InboxInit

OfGate(A) == part = "gate" /\ A /\ UNCHANGED <<part, inboxVars>>
OfInbox(A) == part = "inbox" /\ A /\ UNCHANGED <<part, gateVars>>

EdgeNext == OfGate(GateNext) \/ OfInbox(InboxNext)

\* Timers fire: neither handlers nor dependencies are assumed to answer.  The page polls every
\* 30 s and requests are answered now and then; clicks and client departures are not forced.
EdgeFairness ==
  /\ WF_edgeVars(OfGate(DrainTimeout \/ Drained)) /\ WF_edgeVars(OfGate(HardExit))
  /\ \A p \in Polls : /\ WF_edgeVars(OfInbox(StartPoll(p))) /\ SF_edgeVars(OfInbox(CountUnread(p)))
                      /\ WF_edgeVars(OfInbox(ListNotes(p))) /\ WF_edgeVars(OfInbox(PollArrives(p)))
  /\ \A m \in Marks : WF_edgeVars(OfInbox(MarkApplied(m))) /\ WF_edgeVars(OfInbox(MarkAnswered(m)))

EdgeSpec == EdgeInit /\ [][EdgeNext]_edgeVars /\ EdgeFairness

\* Every variable of the parts keeps its shape.
EdgeTypeOK == GateTypeOK /\ InboxTypeOK

\* A shutdown ends and the bell shows what the server knows, in the end.
EdgeSettles == ShutdownEnds /\ BellSettles
=============================================================================
