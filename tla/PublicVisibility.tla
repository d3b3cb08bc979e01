---------------------------- MODULE PublicVisibility ----------------------------
(***************************************************************************)
(* Which dealers' listings the public pages hide: each backend instance    *)
(* keeps a copy of the suspended dealers' ids for CacheMs                  *)
(* (publicVisibility.ts), and changeUserStatusAsAdmin drops the copy of    *)
(* the instance it runs on.  A browse request that misses the copy reads   *)
(* the ids and stores them in two steps, with an await between them.       *)
(***************************************************************************)
EXTENDS Naturals, FiniteSets

CONSTANTS
  Instances,   \* backend instances
  Sellers,     \* dealers
  Browses,     \* public requests, each made once
  Changes,     \* administrators' status changes, each made once
  CacheMs,     \* how long a copy is reused, in ticks
  MaxClock     \* bound on the clock

ASSUME ClockAssumption == CacheMs \in Nat \ {0} /\ MaxClock \in Nat

NoCopy == [ids |-> {}, until |-> 0]
Nowhere == "nowhere"
Browse == [pc : {"idle", "read", "done"}, at : Instances \cup {Nowhere}, ids : SUBSET Sellers]
Change == [pc : {"idle", "committed", "done"}, at : Instances \cup {Nowhere}]

VARIABLES
  clock,
  suspended,   \* database: the suspended dealers
  cached,      \* [Instances -> the copy and its expiry]
  browse, change,
  overtaken,   \* history: instances whose copy was stored after the ids had changed
  promised     \* history: [Instances -> when a copy must agree with the database at the latest]

visibilityVars == <<clock, suspended, cached, browse, change, overtaken, promised>>

VisibilityInit ==
  /\ clock = 1 /\ suspended = {} /\ overtaken = {}
  /\ cached = [i \in Instances |-> NoCopy]
  /\ promised = [i \in Instances |-> 0]
  /\ browse = [b \in Browses |-> [pc |-> "idle", at |-> Nowhere, ids |-> {}]]
  /\ change = [c \in Changes |-> [pc |-> "idle", at |-> Nowhere]]

Valid(i) == cached[i].until > clock

Tick ==
  /\ clock < MaxClock /\ clock' = clock + 1
  /\ UNCHANGED <<suspended, cached, browse, change, overtaken, promised>>

\* getHiddenDealerIds with a valid copy.
BrowseFromCopy(b, i) ==
  /\ browse[b].pc = "idle" /\ Valid(i)
  /\ browse' = [browse EXCEPT ![b] = [pc |-> "done", at |-> i, ids |-> cached[i].ids]]
  /\ UNCHANGED <<clock, suspended, cached, change, overtaken, promised>>

\* getHiddenDealerIds without one: the query ...
BrowseReads(b, i) ==
  /\ browse[b].pc = "idle" /\ ~Valid(i)
  /\ browse' = [browse EXCEPT ![b] = [pc |-> "read", at |-> i, ids |-> suspended]]
  /\ UNCHANGED <<clock, suspended, cached, change, overtaken, promised>>

\* ... and its answer, kept for CacheMs from now.
Copy(ids) == [ids |-> ids, until |-> clock + CacheMs]

BrowseStores(b) ==
  LET i == browse[b].at IN
  /\ browse[b].pc = "read"
  /\ cached' = [cached EXCEPT ![i] = Copy(browse[b].ids)]
  /\ overtaken' = IF browse[b].ids = suspended THEN overtaken \ {i} ELSE overtaken \cup {i}
  /\ browse' = [browse EXCEPT ![b].pc = "done"]
  /\ UNCHANGED <<clock, suspended, change, promised>>

\* changeUserStatusAsAdmin: the transaction commits.
Commit(c, d, i) ==
  /\ change[c].pc = "idle"
  /\ suspended' = IF d \in suspended THEN suspended \ {d} ELSE suspended \cup {d}
  /\ promised' = [j \in Instances |-> clock + CacheMs]
  /\ change' = [change EXCEPT ![c] = [pc |-> "committed", at |-> i]]
  /\ UNCHANGED <<clock, cached, browse, overtaken>>

\* invalidateHiddenDealerIds on the instance of the request.
Dropped_Nowhere(i) == {}
Dropped(i) == {i}

Invalidate(c) ==
  LET i == change[c].at IN
  /\ change[c].pc = "committed"
  /\ cached' = [j \in Instances |-> IF j \in Dropped(i) THEN NoCopy ELSE cached[j]]
  /\ overtaken' = overtaken \ {i}
  /\ promised' = IF \E other \in Changes \ {c} : change[other].pc # "idle" /\ change[other].at # i
                 THEN promised
                 ELSE [promised EXCEPT ![i] = clock]
  /\ change' = [change EXCEPT ![c].pc = "done"]
  /\ UNCHANGED <<clock, suspended, browse>>

VisibilityNext ==
  \/ Tick
  \/ \E b \in Browses : BrowseStores(b) \/ \E i \in Instances : BrowseFromCopy(b, i) \/ BrowseReads(b, i)
  \/ \E c \in Changes : Invalidate(c) \/ \E d \in Sellers, i \in Instances : Commit(c, d, i)

VisibilityTypeOK ==
  /\ clock \in Nat /\ suspended \subseteq Sellers /\ overtaken \subseteq Instances
  /\ cached \in [Instances -> [ids : SUBSET Sellers, until : Nat]]
  /\ promised \in [Instances -> Nat]
  /\ browse \in [Browses -> Browse] /\ change \in [Changes -> Change]

\* publicVisibility.ts:4-7: the instance that made a change hides or shows the dealer at once,
\* the others within CacheMs, unless a browse request read the ids before the change and stored
\* them after it.
HiddenAsPromised ==
  \A i \in Instances : Valid(i) /\ i \notin overtaken /\ clock >= promised[i] => cached[i].ids = suspended

\* The same without the exception, as the comments at publicVisibility.ts:6 and
\* admin.service.ts:66 put it: a suspended dealer's listings disappear at once.
DisappearAtOnce ==
  \A i \in Instances : Valid(i) /\ clock >= promised[i] => cached[i].ids = suspended
=============================================================================
