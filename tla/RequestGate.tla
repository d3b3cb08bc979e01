------------------------------ MODULE RequestGate ------------------------------
(***************************************************************************)
(* An upload request on one backend instance, from its bearer token to the *)
(* end of its handler: the cache of verified tokens                        *)
(* (verifyFirebaseToken.ts), the local account (loadLocalUser.ts,          *)
(* requireAuthenticated.ts), the cap on concurrent uploads                 *)
(* (createUploadConcurrencyGate), and the shutdown of the process          *)
(* (server.ts), which the requests race.                                   *)
(***************************************************************************)
EXTENDS Naturals, Sequences, FiniteSets, SequencesExt

CONSTANTS
  Calls,       \* upload requests, each made once
  Tokens,
  TokenTtl,    \* AUTH_TOKEN_CACHE_TTL_MS, in ticks
  MaxTokens,   \* MAX_CACHED_TOKENS
  MaxUploads,  \* MAX_CONCURRENT_UPLOADS
  MaxTime      \* bound on the clock

ASSUME GateAssumption == TokenTtl \in Nat \ {0} /\ MaxTokens \in Nat \ {0} /\ MaxUploads \in Nat /\ MaxTime \in Nat

Never == MaxTime + 1
NoToken == "none"
Entry == [token : Tokens, trustedUntil : Nat]
Call == [pc : {"idle", "verify", "keep", "load", "gate", "handle", "handled", "refused", "ended"},
         token : Tokens \cup {NoToken}, now : Nat, open : BOOLEAN, holds : BOOLEAN, late : BOOLEAN]

VARIABLES
  time,
  verifiedTokens,   \* the Map, in insertion order
  revokedAt,        \* Firebase: [Tokens -> when the token was revoked, or Never]
  call,             \* [Calls -> Call]
  active,           \* the gate's counter
  phase,            \* of the process
  forced            \* history: the drain ended by its timeout

gateVars == <<time, verifiedTokens, revokedAt, call, active, phase, forced>>

GateInit ==
  /\ time = 0 /\ verifiedTokens = << >> /\ active = 0 /\ phase = "up" /\ forced = FALSE
  /\ revokedAt = [t \in Tokens |-> Never]
  /\ call = [c \in Calls |-> [pc |-> "idle", token |-> NoToken, now |-> 0,
                                open |-> FALSE, holds |-> FALSE, late |-> FALSE]]

At(c, pc) == call' = [call EXCEPT ![c].pc = pc]
Stopped == phase = "exited"

TimePasses ==
  /\ time < MaxTime /\ ~Stopped /\ time' = time + 1
  /\ UNCHANGED <<verifiedTokens, revokedAt, call, active, phase, forced>>

Revoke(t) ==
  /\ revokedAt[t] = Never /\ revokedAt' = [revokedAt EXCEPT ![t] = time]
  /\ UNCHANGED <<time, verifiedTokens, call, active, phase, forced>>

\* A connection is accepted until server.close.
Arrive(c, t) ==
  /\ call[c].pc = "idle" /\ phase = "up"
  /\ call' = [call EXCEPT ![c].pc = "verify", ![c].token = t, ![c].open = TRUE]
  /\ UNCHANGED <<time, verifiedTokens, revokedAt, active, phase, forced>>

Places(s, t) == {i \in DOMAIN s : s[i].token = t}

\* Map.delete: a Map has a key at most once.
Without(t) == IF Places(verifiedTokens, t) = {} THEN verifiedTokens
              ELSE RemoveAt(verifiedTokens, CHOOSE i \in Places(verifiedTokens, t) : TRUE)
Trusted(t) == \E e \in Range(verifiedTokens) : e.token = t /\ e.trustedUntil > time

\* verifyWithCache: a trusted entry is enough; an old one is dropped and Firebase is asked,
\* which refuses revoked tokens.
Verify(c) ==
  LET t == call[c].token IN
  /\ call[c].pc = "verify" /\ ~Stopped
  /\ \/ Trusted(t) /\ At(c, "load") /\ UNCHANGED verifiedTokens
     \/ /\ ~Trusted(t)
        /\ verifiedTokens' = Without(t)
        /\ call' = [call EXCEPT ![c].now = time,
                                ![c].pc = IF revokedAt[t] = Never THEN "keep" ELSE "refused"]
  /\ UNCHANGED <<time, revokedAt, active, phase, forced>>

\* The period of trust counts from before the question, not from the answer.
TrustFrom_Answer(c) == time
TrustFrom(c) == call[c].now

Full == Len(verifiedTokens) >= MaxTokens

\* Map.set keeps the place of a key that another request has stored meanwhile.
Keep(c) ==
  LET t == call[c].token
      entry == [token |-> t, trustedUntil |-> TrustFrom(c) + TokenTtl]
      room == IF Full THEN Tail(verifiedTokens) ELSE verifiedTokens
      known == Places(room, t)
  IN /\ call[c].pc = "keep" /\ ~Stopped
     /\ verifiedTokens' = IF known = {} THEN Append(room, entry)
                          ELSE [i \in DOMAIN room |-> IF i \in known THEN entry ELSE room[i]]
     /\ At(c, "load")
     /\ UNCHANGED <<time, revokedAt, active, phase, forced>>

\* loadLocalUser and requireAuthenticated read the account on every request.
LoadUser(c) ==
  /\ call[c].pc = "load" /\ ~Stopped
  /\ \E ok \in BOOLEAN : At(c, IF ok THEN "gate" ELSE "refused")
  /\ UNCHANGED <<time, verifiedTokens, revokedAt, active, phase, forced>>

\* A client that left before the gate has had its close event already: late.
Gate(c) ==
  /\ call[c].pc = "gate" /\ ~Stopped
  /\ \/ /\ active >= MaxUploads /\ At(c, "refused") /\ UNCHANGED active
     \/ /\ active < MaxUploads /\ active' = active + 1
        /\ call' = [call EXCEPT ![c].pc = "handle", ![c].holds = TRUE, ![c].late = ~call[c].open]
  /\ UNCHANGED <<time, verifiedTokens, revokedAt, phase, forced>>

\* release, on whichever of finish and close comes first.
Releases(c) == call[c].holds

\* The handler is done and its response is written.  Whether Node emits finish for a client
\* that has left is its own affair.
Finish(c, emitted) ==
  /\ call[c].pc = "handle" /\ ~Stopped /\ (call[c].open => emitted)
  /\ active' = IF emitted /\ Releases(c) THEN active - 1 ELSE active
  /\ call' = [call EXCEPT ![c].pc = IF call[c].open THEN "handled" ELSE "ended",
                          ![c].holds = @ /\ ~emitted]
  /\ UNCHANGED <<time, verifiedTokens, revokedAt, phase, forced>>

\* The connection ends (close): after the response, or because the client left.  A handler
\* that is running goes on.
Close(c) ==
  /\ call[c].open /\ ~Stopped
  /\ active' = IF Releases(c) THEN active - 1 ELSE active
  /\ call' = [call EXCEPT ![c].open = FALSE, ![c].holds = FALSE,
                          ![c].pc = IF @ \in {"handled", "refused"} THEN "ended" ELSE @]
  /\ UNCHANGED <<time, verifiedTokens, revokedAt, phase, forced>>

-----------------------------------------------------------------------------
(* shutdown(signal): a second signal finds shuttingDown set.               *)

Signal ==
  /\ phase = "up" /\ phase' = "draining"
  /\ UNCHANGED <<time, verifiedTokens, revokedAt, call, active, forced>>

NoConnections == \A c \in Calls : ~call[c].open

Drained ==
  /\ phase = "draining" /\ NoConnections /\ phase' = "disconnecting"
  /\ UNCHANGED <<time, verifiedTokens, revokedAt, call, active, forced>>

\* SHUTDOWN_TIMEOUT_MS: closeAllConnections.
DrainTimeout ==
  /\ phase = "draining" /\ ~NoConnections
  /\ phase' = "disconnecting" /\ forced' = TRUE
  /\ active' = active - Cardinality({c \in Calls : call[c].holds /\ ~call[c].late})
  /\ call' = [c \in Calls |-> [call[c] EXCEPT !.open = FALSE, !.holds = @ /\ call[c].late,
                                !.pc = IF @ \in {"handled", "refused"} THEN "ended" ELSE @]]
  /\ UNCHANGED <<time, verifiedTokens, revokedAt>>

Exit ==
  /\ phase = "disconnecting" /\ phase' = "exited"
  /\ UNCHANGED <<time, verifiedTokens, revokedAt, call, active, forced>>

\* The timer started with the signal; without it a dependency that never answers holds the process.
HardExitFrom == {"draining", "disconnecting"}

HardExit ==
  /\ phase \in HardExitFrom /\ phase' = "exited"
  /\ UNCHANGED <<time, verifiedTokens, revokedAt, call, active, forced>>

GateNext ==
  \/ TimePasses \/ (\E t \in Tokens : Revoke(t))
  \/ \E c \in Calls : (\E t \in Tokens : Arrive(c, t)) \/ Verify(c) \/ Keep(c) \/ LoadUser(c) \/ Gate(c) \/ Close(c)
                     \/ \E emitted \in BOOLEAN : Finish(c, emitted)
  \/ Signal \/ Drained \/ DrainTimeout \/ Exit \/ HardExit

-----------------------------------------------------------------------------
GateTypeOK ==
  /\ time \in Nat /\ verifiedTokens \in Seq(Entry) /\ active \in Nat /\ forced \in BOOLEAN
  /\ revokedAt \in [Tokens -> Nat] /\ call \in [Calls -> Call]
  /\ phase \in {"up", "draining", "disconnecting", "exited"}

\* verifyFirebaseToken.ts:37: a revoked token stops working within the TTL.
RevokedStops ==
  \A i \in DOMAIN verifiedTokens :
    LET e == verifiedTokens[i] IN revokedAt[e.token] < Never => e.trustedUntil <= revokedAt[e.token] + TokenTtl

\* The cache never grows past its cap and never holds a token twice, whatever verifications
\* of the same token overlap (verifyFirebaseToken.ts:39, 55-58).
CacheBounded ==
  /\ Len(verifiedTokens) <= MaxTokens
  /\ \A i, j \in DOMAIN verifiedTokens : verifiedTokens[i].token = verifiedTokens[j].token => i = j

\* The gate's counter is the number of uploads it admitted and that still hold their slot: none
\* is given back twice when finish and close both come, and none outlives its request, unless
\* the client had left before the gate (rateLimits.ts:75-79).
SlotsBacked ==
  /\ active = Cardinality({c \in Calls : call[c].holds}) /\ active <= MaxUploads
  /\ \A c \in Calls : call[c].holds /\ ~call[c].late => call[c].open /\ call[c].pc = "handle"

\* server.ts:17: unless the deadline passed, MongoDB and Redis are released only when every
\* request whose client still waits has been answered.
DrainedBeforeDisconnect ==
  phase \in {"disconnecting"} /\ ~forced => \A c \in Calls : call[c].pc = "handle" => ~call[c].open

\* Tokens, slots and connections are given up exactly when they should be, whatever answers,
\* clients and deadlines come first.
GateHolds == RevokedStops /\ CacheBounded /\ SlotsBacked /\ DrainedBeforeDisconnect

\* server.ts:18, 24: a signal ends the process even when a dependency never answers.
ShutdownEnds == (phase = "draining") ~> (phase = "exited")

\* What rateLimits.ts:65 says: the gate caps the uploads this instance buffers in memory.  The
\* handler of a client that left keeps its buffers but not its slot.
BuffersCapped == Cardinality({c \in Calls : call[c].pc = "handle"}) <= MaxUploads
=============================================================================
