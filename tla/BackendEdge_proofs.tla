------------------------- MODULE BackendEdge_proofs -------------------------
(***************************************************************************)
(* Proofs about the edge of the system for any number of requests, tokens, *)
(* notifications, polls and clicks, and for caps and clocks of any size.   *)
(***************************************************************************)
EXTENDS BackendEdge, FiniteSetTheorems, SequenceTheorems, TLAPS

-----------------------------------------------------------------------------
(* The invariant of the gate. *)

\* An entry lasts no longer than the TTL from now, nor from its token's revocation.
Sound(e) ==
  /\ e.trustedUntil <= time + TokenTtl
  /\ revokedAt[e.token] < Never => e.trustedUntil <= revokedAt[e.token] + TokenTtl

\* A cache that keeps each token once.
Tidy(s) ==
  /\ s \in Seq(Entry)
  /\ \A i, j \in 1..Len(s) : s[i].token = s[j].token => i = j

AllSound(s) == \A i \in 1..Len(s) : Sound(s[i])

\* Firebase accepted a token that is being kept after the question was asked.
Asked ==
  /\ time <= MaxTime
  /\ \A c \in Calls :
       /\ call[c].pc # "idle" => call[c].token \in Tokens
       /\ call[c].pc = "keep" => call[c].now <= time /\ call[c].now <= revokedAt[call[c].token]

Cached == Tidy(verifiedTokens) /\ AllSound(verifiedTokens) /\ Len(verifiedTokens) <= MaxTokens

\* The uploads that hold a slot.
Holders == {c \in Calls : call[c].holds}

Slots ==
  /\ IsFiniteSet(Holders) /\ active = Cardinality(Holders) /\ active <= MaxUploads
  /\ \A c \in Calls : call[c].holds =>
       call[c].pc \in {"handle", "ended"} /\ (~call[c].late => call[c].open /\ call[c].pc = "handle")

Shutdown == phase = "disconnecting" /\ ~forced => NoConnections

GateInv == GateTypeOK /\ Asked /\ Cached /\ Slots /\ Shutdown

-----------------------------------------------------------------------------
(* The cache. *)

\* A sequence without its i-th element.
LEMMA Removed ==
  ASSUME NEW S, NEW s \in Seq(S), NEW i \in 1..Len(s)
  PROVE  /\ RemoveAt(s, i) \in Seq(S) /\ Len(RemoveAt(s, i)) = Len(s) - 1
         /\ \A j \in 1..Len(s) - 1 : RemoveAt(s, i)[j] = IF j < i THEN s[j] ELSE s[j + 1]
  <1> DEFINE a == SubSeq(s, 1, i - 1)
             b == SubSeq(s, i + 1, Len(s))
  <1>1. a \in Seq(S) /\ Len(a) = i - 1 /\ \A j \in 1..i - 1 : a[j] = s[j]
    OBVIOUS
  <1>2. b \in Seq(S) /\ Len(b) = Len(s) - i /\ \A j \in 1..Len(s) - i : b[j] = s[i + j]
    <2>1. Len(s) \in Nat /\ i \in Nat /\ i + 1 \in Int /\ Len(s) \in Int /\ \A j \in i + 1..Len(s) : s[j] \in S
      OBVIOUS
    <2> HIDE DEF b
    <2>2. /\ b \in Seq(S) /\ Len(b) = IF i + 1 <= Len(s) THEN Len(s) - (i + 1) + 1 ELSE 0
          /\ \A j \in 1..Len(s) - (i + 1) + 1 : b[j] = s[i + 1 + j - 1]
      <3> DEFINE n == Len(s)
                 m == i + 1
      <3>1. m \in Int /\ n \in Int /\ b = SubSeq(s, m, n) /\ \A j \in m..n : s[j] \in S
        BY <2>1 DEF b
      <3> HIDE DEF m, n
      <3>2. /\ SubSeq(s, m, n) \in Seq(S)
            /\ Len(SubSeq(s, m, n)) = IF m <= n THEN n - m + 1 ELSE 0
            /\ \A j \in 1..n - m + 1 : SubSeq(s, m, n)[j] = s[m + j - 1]
        BY <3>1, SubSeqProperties, SMT
      <3> QED
        BY <3>1, <3>2 DEF m, n
    <2>3. \A j \in 1..Len(s) - i : b[j] = s[i + j]
      <3> TAKE j \in 1..Len(s) - i
      <3>1. j \in 1..Len(s) - (i + 1) + 1 /\ i + 1 + j - 1 = i + j
        BY <2>1
      <3> QED
        BY <2>2, <3>1
    <2> QED
      BY <2>1, <2>2, <2>3
  <1>3. RemoveAt(s, i) = a \o b
    BY DEF RemoveAt
  <1> HIDE DEF a, b
  <1>4. a \o b \in Seq(S) /\ Len(a \o b) = Len(s) - 1
    <2>1. a \o b \in Seq(S) /\ Len(a \o b) = Len(a) + Len(b)
      BY <1>1, <1>2, ConcatProperties, Zenon
    <2> QED
      BY <1>1, <1>2, <2>1
  <1>5. \A j \in 1..Len(s) - 1 : (a \o b)[j] = IF j < i THEN s[j] ELSE s[j + 1]
    <2>1. \A j \in 1..Len(a) + Len(b) : (a \o b)[j] = IF j <= Len(a) THEN a[j] ELSE b[j - Len(a)]
      BY <1>1, <1>2, ConcatProperties, Zenon
    <2> TAKE j \in 1..Len(s) - 1
    <2>2. /\ j \in 1..Len(a) + Len(b) /\ (j <= Len(a) <=> j < i)
          /\ (j < i => j \in 1..i - 1)
          /\ (~(j < i) => j - Len(a) \in 1..Len(s) - i /\ i + (j - Len(a)) = j + 1)
      BY <1>1, <1>2
    <2>3. CASE j < i
      BY <2>1, <2>2, <2>3, <1>1
    <2>4. CASE ~(j < i)
      BY <2>1, <2>2, <2>4, <1>2
    <2> QED
      BY <2>3, <2>4
  <1> QED
    BY <1>3, <1>4, <1>5

\* The cache loses one entry and stays tidy.
LEMMA OneLess ==
  ASSUME NEW s, Tidy(s), AllSound(s), NEW i \in 1..Len(s)
  PROVE  /\ Tidy(RemoveAt(s, i)) /\ AllSound(RemoveAt(s, i))
         /\ Len(RemoveAt(s, i)) = Len(s) - 1
  <1> DEFINE r == RemoveAt(s, i)
             at(j) == IF j < i THEN j ELSE j + 1
  <1>1. s \in Seq(Entry)
    BY DEF Tidy
  <1>2. r \in Seq(Entry) /\ Len(r) = Len(s) - 1 /\ \A j \in 1..Len(r) : r[j] = s[at(j)] /\ at(j) \in 1..Len(s)
    <2>1. /\ r \in Seq(Entry) /\ Len(r) = Len(s) - 1
          /\ \A j \in 1..Len(s) - 1 : r[j] = IF j < i THEN s[j] ELSE s[j + 1]
      BY <1>1, Removed, Zenon
    <2> HIDE DEF r
    <2>2. \A j \in 1..Len(r) : at(j) \in 1..Len(s)
      BY <1>1, <2>1
    <2> QED
      BY <2>1, <2>2
  <1>3. \A j, k \in 1..Len(r) : at(j) = at(k) => j = k
    BY <1>2
  <1> HIDE DEF r, at
  <1>4. Tidy(r)
    BY <1>2, <1>3 DEF Tidy
  <1>5. AllSound(r)
    BY <1>2 DEF AllSound
  <1> QED
    BY <1>2, <1>4, <1>5 DEF r

\* The oldest entry goes.
LEMMA OldestGone ==
  ASSUME NEW s, Tidy(s), AllSound(s), Len(s) > 0
  PROVE  Tidy(Tail(s)) /\ AllSound(Tail(s)) /\ Len(Tail(s)) = Len(s) - 1
  <1>1. s \in Seq(Entry) /\ s # << >>
    BY DEF Tidy
  <1>2. /\ Tail(s) \in Seq(Entry) /\ Len(Tail(s)) = Len(s) - 1
        /\ \A j \in 1..Len(s) - 1 : Tail(s)[j] = s[j + 1]
    BY <1>1
  <1> QED
    BY <1>1, <1>2 DEF Tidy, AllSound

\* A token that is not cached is stored at the end.
LEMMA Stored ==
  ASSUME NEW s, Tidy(s), AllSound(s), NEW e \in Entry, Sound(e), Places(s, e.token) = {}
  PROVE  Tidy(Append(s, e)) /\ AllSound(Append(s, e)) /\ Len(Append(s, e)) = Len(s) + 1
  <1>1. s \in Seq(Entry) /\ \A i \in 1..Len(s) : s[i].token # e.token
    BY DEF Tidy, Places
  <1>2. /\ Append(s, e) \in Seq(Entry) /\ Len(Append(s, e)) = Len(s) + 1
        /\ \A i \in 1..Len(s) + 1 : Append(s, e)[i] = IF i = Len(s) + 1 THEN e ELSE s[i]
    BY <1>1
  <1> QED
    BY <1>1, <1>2 DEF Tidy, AllSound

\* A token that is cached keeps its place.
LEMMA Replaced ==
  ASSUME NEW s, Tidy(s), AllSound(s), NEW e \in Entry, Sound(e),
         NEW r, r = [i \in DOMAIN s |-> IF i \in Places(s, e.token) THEN e ELSE s[i]]
  PROVE  Tidy(r) /\ AllSound(r) /\ Len(r) = Len(s)
  <1>1. s \in Seq(Entry) /\ DOMAIN s = 1..Len(s) /\ Len(s) \in Nat
    BY DEF Tidy
  <1>2. r \in [1..Len(s) -> Entry]
    BY <1>1
  <1>3. r \in Seq(Entry) /\ Len(r) = Len(s)
    BY <1>1, <1>2
  <1>4. \A i \in 1..Len(s) : r[i] = IF s[i].token = e.token THEN e ELSE s[i]
    BY <1>1 DEF Places
  <1>5. \A i \in 1..Len(s) : r[i].token = s[i].token /\ Sound(r[i])
    BY <1>4 DEF AllSound
  <1>6. Tidy(r)
    BY <1>1, <1>3, <1>5 DEF Tidy
  <1>7. AllSound(r)
    BY <1>1, <1>3, <1>5 DEF AllSound
  <1> QED
    BY <1>3, <1>6, <1>7

\* Map.delete keeps a tidy cache tidy and takes the token out of it.
LEMMA TokenDropped ==
  ASSUME GateTypeOK, Cached, NEW t \in Tokens
  PROVE  Tidy(Without(t)) /\ AllSound(Without(t)) /\ Len(Without(t)) <= MaxTokens
  <1>1. CASE Places(verifiedTokens, t) = {}
    BY <1>1 DEF Without, Cached
  <1>2. CASE Places(verifiedTokens, t) # {}
    <2> DEFINE P == Places(verifiedTokens, t)
               k == CHOOSE i \in P : TRUE
    <2>3. k \in P /\ Without(t) = RemoveAt(verifiedTokens, k)
      BY <1>2 DEF Without
    <2>4. k \in 1..Len(verifiedTokens)
      BY <2>3 DEF Places, Cached, Tidy
    <2> HIDE DEF k
    <2>1. PICK i \in 1..Len(verifiedTokens) : Without(t) = RemoveAt(verifiedTokens, i)
      BY <2>3, <2>4
    <2>2. /\ Tidy(Without(t)) /\ AllSound(Without(t))
          /\ Len(Without(t)) = Len(verifiedTokens) - 1
      BY <2>1, OneLess DEF Cached
    <2> QED
      BY <2>2, GateAssumption DEF Cached, Tidy
  <1> QED
    BY <1>1, <1>2

\* A cache stays sound when time passes or nothing happens to the tokens in it.
LEMMA SoundForLonger ==
  ASSUME NEW s, Tidy(s), AllSound(s), GateTypeOK, GateTypeOK',
         time' >= time,
         \A t \in Tokens : revokedAt'[t] = revokedAt[t] \/ revokedAt'[t] = time
  PROVE  \A i \in 1..Len(s) : Sound(s[i])'
  <1> SUFFICES ASSUME NEW i \in 1..Len(s) PROVE Sound(s[i])'
    OBVIOUS
  <1>1. s[i] \in Entry /\ Sound(s[i])
    BY DEF Tidy, AllSound
  <1>2. s[i].token \in Tokens /\ s[i].trustedUntil \in Nat
    BY <1>1 DEF Entry
  <1>3. time \in Nat /\ time' \in Nat /\ TokenTtl \in Nat /\ Never \in Nat
    BY GateAssumption DEF GateTypeOK, Never
  <1>4. revokedAt[s[i].token] \in Nat /\ revokedAt'[s[i].token] \in Nat
    BY <1>2 DEF GateTypeOK
  <1>5. revokedAt'[s[i].token] = revokedAt[s[i].token] \/ revokedAt'[s[i].token] = time
    BY <1>2
  <1> QED
    BY <1>1, <1>2, <1>3, <1>4, <1>5 DEF Sound, Never

-----------------------------------------------------------------------------
(* The slots. *)

\* The counter still counts the holders when no slot changes hands.
LEMMA SameSlots ==
  ASSUME Slots, active' = active,
         \A d \in Calls :
           /\ call'[d].holds = call[d].holds
           /\ call[d].holds => /\ call'[d].pc \in {"handle", "ended"}
                               /\ ~call'[d].late => call'[d].open /\ call'[d].pc = "handle"
  PROVE  Slots'
  <1>1. Holders' = Holders
    BY DEF Holders
  <1> QED
    BY <1>1 DEF Slots

\* The gate counts the upload that it admits.
LEMMA SlotTaken ==
  ASSUME Slots, NEW c \in Calls, ~call[c].holds, call'[c].holds, active < MaxUploads, active' = active + 1,
         call'[c].pc = "handle", call'[c].late = ~call'[c].open,
         \A d \in Calls \ {c} : call'[d] = call[d]
  PROVE  Slots'
  <1>1. Holders' = Holders \cup {c} /\ c \notin Holders
    BY DEF Holders
  <1>2. IsFiniteSet(Holders') /\ Cardinality(Holders') = Cardinality(Holders) + 1
    BY <1>1, FS_AddElement DEF Slots
  <1>3. active \in Nat
    BY FS_CardinalityType DEF Slots
  <1>4. \A d \in Calls : call'[d].holds =>
          call'[d].pc \in {"handle", "ended"} /\ (~call'[d].late => call'[d].open /\ call'[d].pc = "handle")
    BY DEF Slots
  <1> QED
    BY <1>2, <1>3, <1>4, GateAssumption DEF Slots

\* A slot is given back once.
LEMMA SlotBack ==
  ASSUME Slots, NEW c \in Calls, call[c].holds, ~call'[c].holds, active' = active - 1,
         \A d \in Calls \ {c} : call'[d] = call[d]
  PROVE  Slots'
  <1>1. Holders' = Holders \ {c} /\ c \in Holders
    BY DEF Holders
  <1>2. IsFiniteSet(Holders') /\ Cardinality(Holders') = Cardinality(Holders) - 1
    BY <1>1, FS_RemoveElement DEF Slots
  <1>3. active \in Nat
    BY FS_CardinalityType DEF Slots
  <1>4. \A d \in Calls : call'[d].holds =>
          call'[d].pc \in {"handle", "ended"} /\ (~call'[d].late => call'[d].open /\ call'[d].pc = "handle")
    BY DEF Slots
  <1> QED
    BY <1>2, <1>3, <1>4, GateAssumption DEF Slots

\* The counter is a number of uploads.
LEMMA ActiveCounts ==
  ASSUME Slots
  PROVE  active \in Nat
  BY FS_CardinalityType DEF Slots

-----------------------------------------------------------------------------
(* The steps of the gate. *)

\* What the cache needs when it is not written.
LEMMA CacheStays ==
  ASSUME GateInv, GateTypeOK', verifiedTokens' = verifiedTokens, time' >= time,
         \A t \in Tokens : revokedAt'[t] = revokedAt[t] \/ revokedAt'[t] = time
  PROVE  Cached'
  <1>1. \A i \in 1..Len(verifiedTokens) : Sound(verifiedTokens[i])'
    <2>1. Tidy(verifiedTokens) /\ AllSound(verifiedTokens) /\ GateTypeOK
      BY DEF GateInv, Cached
    <2> QED
      BY <2>1, SoundForLonger
  <1>2. AllSound(verifiedTokens)'
    BY <1>1 DEF AllSound
  <1>3. Tidy(verifiedTokens)' /\ Len(verifiedTokens') <= MaxTokens
    BY DEF GateInv, Cached, Tidy
  <1> QED
    BY <1>2, <1>3 DEF Cached

\* What a step writes of one request.
Writes(c, n) ==
  /\ n \in Call /\ call' = [call EXCEPT ![c] = n]
  /\ call' \in [Calls -> Call] /\ call'[c] = n /\ \A d \in Calls \ {c} : call'[d] = call[d]

\* A step of one request writes nothing else of the requests.
LEMMA OneCall ==
  ASSUME GateTypeOK, NEW c \in Calls, NEW n \in Call, call' = [call EXCEPT ![c] = n]
  PROVE  Writes(c, n)
  BY DEF GateTypeOK, Writes

\* The initial state satisfies the invariant.
LEMMA GateStarts ==
  ASSUME GateInit
  PROVE  GateInv
  <1>1. GateTypeOK
    <2> DEFINE n == [pc |-> "idle", token |-> NoToken, now |-> 0,
                     open |-> FALSE, holds |-> FALSE, late |-> FALSE]
    <2>1. n \in Call
      BY DEF Call
    <2>2. call \in [Calls -> Call]
      BY <2>1 DEF GateInit
    <2>3. revokedAt \in [Tokens -> Nat]
      BY GateAssumption DEF GateInit, Never
    <2>4. verifiedTokens \in Seq(Entry)
      BY DEF GateInit
    <2>5. time \in Nat /\ active \in Nat /\ forced \in BOOLEAN
      BY DEF GateInit
    <2>6. phase \in {"up", "draining", "disconnecting", "exited"}
      BY DEF GateInit
    <2> HIDE DEF n
    <2> QED
      BY <2>2, <2>3, <2>4, <2>5, <2>6 DEF GateTypeOK
  <1>2. Asked
    BY GateAssumption DEF GateInit, Asked
  <1>3. Cached
    BY GateAssumption DEF GateInit, Cached, Tidy, AllSound
  <1>4. Slots
    <2>1. Holders = {}
      BY DEF GateInit, Holders
    <2> QED
      BY <2>1, FS_EmptySet, GateAssumption DEF GateInit, Slots
  <1>5. Shutdown
    BY DEF GateInit, Shutdown
  <1> QED
    BY <1>1, <1>2, <1>3, <1>4, <1>5 DEF GateInv

\* Nothing of the gate changes.
LEMMA GateStill ==
  ASSUME GateInv, UNCHANGED gateVars
  PROVE  GateInv'
  <1>1. GateTypeOK'
    BY DEF GateInv, gateVars, GateTypeOK
  <1>2. Asked' /\ Shutdown'
    BY DEF GateInv, gateVars, Asked, Shutdown, NoConnections
  <1>3. Cached'
    BY <1>1, CacheStays DEF GateInv, gateVars, GateTypeOK
  <1>4. Slots'
    BY SameSlots DEF GateInv, gateVars, Slots
  <1> QED
    BY <1>1, <1>2, <1>3, <1>4 DEF GateInv

\* The clock and the process, while no request moves.
LEMMA QuietSteps ==
  ASSUME GateInv, TimePasses \/ (\E t \in Tokens : Revoke(t)) \/ Signal \/ Drained \/ Exit \/ HardExit
  PROVE  GateInv'
  <1> USE GateAssumption
  <1>1. UNCHANGED <<verifiedTokens, call, active, forced>>
    BY DEF TimePasses, Revoke, Signal, Drained, Exit, HardExit
  <1>2. /\ time' \in Nat /\ time' >= time /\ time' <= MaxTime
        /\ revokedAt' \in [Tokens -> Nat]
        /\ \A t \in Tokens : revokedAt'[t] = revokedAt[t] \/ revokedAt'[t] = time
    BY DEF GateInv, GateTypeOK, Asked, TimePasses, Revoke, Signal, Drained, Exit, HardExit
  <1>3. GateTypeOK'
    BY <1>1, <1>2 DEF GateInv, GateTypeOK, TimePasses, Revoke, Signal, Drained, Exit, HardExit
  <1>4. Asked'
    <2> SUFFICES ASSUME NEW c \in Calls, call[c].pc # "idle"
                 PROVE  call[c].token \in Tokens /\ (call[c].pc = "keep" =>
                          call[c].now <= time' /\ call[c].now <= revokedAt'[call[c].token])
      BY <1>1, <1>2 DEF Asked
    <2>1. call[c].token \in Tokens /\ call[c].now \in Nat /\ time \in Nat
      BY DEF GateInv, GateTypeOK, Asked, Call
    <2>2. call[c].pc = "keep" => call[c].now <= time /\ call[c].now <= revokedAt[call[c].token]
      BY DEF GateInv, Asked
    <2>3. revokedAt'[call[c].token] = revokedAt[call[c].token] \/ revokedAt'[call[c].token] = time
      BY <1>2, <2>1
    <2> QED
      BY <1>2, <2>1, <2>2, <2>3
  <1>5. Cached'
    BY <1>1, <1>2, <1>3, CacheStays
  <1>6. Slots'
    BY <1>1, SameSlots DEF GateInv, Slots
  <1>7. Shutdown'
    BY <1>1 DEF GateInv, Shutdown, NoConnections, TimePasses, Revoke, Signal, Drained, Exit, HardExit
  <1> QED
    BY <1>3, <1>4, <1>5, <1>6, <1>7 DEF GateInv

\* One request moves: the tokens asked for and the connections of a drained process.
LEMMA OneMoves ==
  ASSUME GateInv, NEW c \in Calls, NEW n, Writes(c, n), UNCHANGED <<time, revokedAt, phase, forced>>,
         n.pc # "idle" => n.token \in Tokens,
         n.pc = "keep" => n.now <= time /\ n.now <= revokedAt[n.token],
         n.open => call[c].open \/ phase = "up"
  PROVE  Asked' /\ Shutdown'
  <1>1. Asked'
    BY DEF GateInv, Asked, Writes
  <1>2. Shutdown'
    BY DEF GateInv, Shutdown, NoConnections, Writes
  <1> QED
    BY <1>1, <1>2

\* A request reaches the process.
LEMMA ArriveStep ==
  ASSUME GateInv, NEW c \in Calls, NEW t \in Tokens, Arrive(c, t)
  PROVE  GateInv'
  <1> DEFINE n == [call[c] EXCEPT !.pc = "verify", !.token = t, !.open = TRUE]
  <1>1. n \in Call /\ call' = [call EXCEPT ![c] = n]
    BY DEF Arrive, GateInv, GateTypeOK, Call
  <1>2. Writes(c, n)
    BY <1>1, OneCall DEF GateInv
  <1>3. n.pc = "verify" /\ n.token = t /\ n.holds = call[c].holds /\ call[c].pc = "idle" /\ phase = "up"
    BY DEF Arrive, GateInv, GateTypeOK, Call
  <1> HIDE DEF n
  <1>4. UNCHANGED <<time, verifiedTokens, revokedAt, active, phase, forced>>
    BY DEF Arrive
  <1>5. GateTypeOK'
    BY <1>2, <1>4 DEF GateInv, GateTypeOK, Writes
  <1>6. Asked' /\ Shutdown'
    BY <1>2, <1>3, <1>4, OneMoves
  <1>7. Cached'
    BY <1>4, <1>5, CacheStays DEF GateInv, GateTypeOK
  <1>8. Slots'
    <2>1. ~call[c].holds
      BY <1>3 DEF GateInv, Slots
    <2> QED
      BY <1>2, <1>3, <1>4, <2>1, SameSlots DEF GateInv, Slots, Writes
  <1> QED
    BY <1>5, <1>6, <1>7, <1>8 DEF GateInv

\* The cache answers, or Firebase does.
LEMMA VerifyStep ==
  ASSUME GateInv, NEW c \in Calls, Verify(c)
  PROVE  GateInv'
  <1> DEFINE t == call[c].token
  <1>1. call[c] \in Call /\ call[c].pc = "verify" /\ t \in Tokens /\ ~call[c].holds
    BY DEF Verify, GateInv, GateTypeOK, Asked, Slots
  <1>2. UNCHANGED <<time, revokedAt, active, phase, forced>>
    BY DEF Verify
  <1>3. time \in Nat /\ time <= MaxTime
    BY DEF GateInv, GateTypeOK, Asked
  <1>4. PICK n \in Call :
          /\ Writes(c, n) /\ n.holds = call[c].holds /\ n.open = call[c].open /\ n.token = t
          /\ n.pc = "keep" => n.now = time /\ revokedAt[t] = Never
    <2>1. CASE Trusted(t) /\ At(c, "load")
      <3> DEFINE n == [call[c] EXCEPT !.pc = "load"]
      <3>1. n \in Call /\ call' = [call EXCEPT ![c] = n]
        BY <1>1, <2>1 DEF At, GateInv, GateTypeOK, Call
      <3>2. n.holds = call[c].holds /\ n.open = call[c].open /\ n.token = t /\ n.pc = "load"
        BY <1>1 DEF Call
      <3> HIDE DEF n
      <3> QED
        BY <3>1, <3>2, OneCall DEF GateInv
    <2>2. CASE ~Trusted(t)
      <3> DEFINE q == IF revokedAt[t] = Never THEN "keep" ELSE "refused"
                 n == [call[c] EXCEPT !.now = time, !.pc = q]
      <3>1. q \in {"keep", "refused"} /\ (q = "keep" => revokedAt[t] = Never)
        OBVIOUS
      <3>2. call' = [call EXCEPT ![c].now = time, ![c].pc = q]
        BY <2>2 DEF Verify
      <3> HIDE DEF q
      <3>3. n \in Call /\ call' = [call EXCEPT ![c] = n]
        BY <1>1, <1>3, <3>1, <3>2 DEF GateInv, GateTypeOK, Call
      <3>4. n.holds = call[c].holds /\ n.open = call[c].open /\ n.token = t /\ n.pc = q /\ n.now = time
        BY <1>1 DEF Call
      <3> HIDE DEF n
      <3> QED
        BY <3>1, <3>3, <3>4, OneCall DEF GateInv
    <2> QED
      BY <2>1, <2>2 DEF Verify
  <1>5. Asked' /\ Shutdown'
    <2>1. n.pc = "keep" => n.now <= time /\ n.now <= revokedAt[n.token]
      BY <1>3, <1>4, GateAssumption DEF Never
    <2> QED
      BY <1>1, <1>2, <1>4, <2>1, OneMoves
  <1>6. Slots'
    BY <1>1, <1>2, <1>4, SameSlots DEF GateInv, Slots, Writes
  <1>7. verifiedTokens' = verifiedTokens \/ verifiedTokens' = Without(t)
    BY DEF Verify
  <1>8. Tidy(verifiedTokens') /\ AllSound(verifiedTokens') /\ Len(verifiedTokens') <= MaxTokens
    BY <1>1, <1>7, TokenDropped DEF GateInv, Cached
  <1>9. Cached'
    BY <1>2, <1>8 DEF Cached, Tidy, AllSound, Sound
  <1>10. GateTypeOK'
    BY <1>2, <1>4, <1>8 DEF GateInv, GateTypeOK, Writes, Tidy
  <1> QED
    BY <1>5, <1>6, <1>9, <1>10 DEF GateInv

\* The answer is kept, in the room there is.
LEMMA KeepStep ==
  ASSUME GateInv, NEW c \in Calls, Keep(c)
  PROVE  GateInv'
  <1> USE GateAssumption
  <1> DEFINE t == call[c].token
             e == [token |-> t, trustedUntil |-> TrustFrom(c) + TokenTtl]
             room == IF Full THEN Tail(verifiedTokens) ELSE verifiedTokens
             known == Places(room, t)
             n == [call[c] EXCEPT !.pc = "load"]
  <1>1. call[c] \in Call /\ call[c].pc = "keep" /\ t \in Tokens /\ ~call[c].holds
    BY DEF Keep, GateInv, GateTypeOK, Asked, Slots
  <1>2. UNCHANGED <<time, revokedAt, active, phase, forced>>
    BY DEF Keep
  <1>3. n \in Call /\ call' = [call EXCEPT ![c] = n]
    BY <1>1 DEF Keep, At, GateInv, GateTypeOK, Call
  <1>4. n.holds = call[c].holds /\ n.open = call[c].open /\ n.token = t /\ n.pc = "load"
    BY <1>1 DEF Call
  <1> HIDE DEF n
  <1>5. Writes(c, n)
    BY <1>3, OneCall DEF GateInv
  <1>6. Asked' /\ Shutdown'
    BY <1>1, <1>2, <1>4, <1>5, OneMoves
  <1>7. Slots'
    BY <1>1, <1>2, <1>4, <1>5, SameSlots DEF GateInv, Slots, Writes
  <1>8. e \in Entry /\ Sound(e) /\ e.token = t
    <2>1. call[c].now \in Nat /\ time \in Nat /\ revokedAt[t] \in Nat
      BY <1>1 DEF GateInv, GateTypeOK, Call
    <2>2. call[c].now <= time /\ call[c].now <= revokedAt[t]
      BY <1>1 DEF GateInv, Asked
    <2>3. e \in Entry /\ e.token = t /\ e.trustedUntil = call[c].now + TokenTtl
      BY <1>1, <2>1 DEF Entry, TrustFrom
    <2> HIDE DEF e
    <2> QED
      BY <2>1, <2>2, <2>3 DEF Sound
  <1>9. Tidy(room) /\ AllSound(room) /\ Len(room) <= MaxTokens - 1 /\ Len(room) \in Nat
    <2>1. Tidy(verifiedTokens) /\ AllSound(verifiedTokens) /\ Len(verifiedTokens) <= MaxTokens /\ Len(verifiedTokens) \in Nat
      BY DEF GateInv, Cached, Tidy
    <2>2. CASE Full
      BY <2>1, <2>2, OldestGone DEF Full, Tidy
    <2>3. CASE ~Full
      BY <2>1, <2>3 DEF Full
    <2> QED
      BY <2>2, <2>3
  <1>10. verifiedTokens' = IF known = {} THEN Append(room, e)
                           ELSE [i \in DOMAIN room |-> IF i \in known THEN e ELSE room[i]]
    BY DEF Keep
  <1> HIDE DEF e, room
  <1>11. Tidy(verifiedTokens') /\ AllSound(verifiedTokens') /\ Len(verifiedTokens') <= MaxTokens
    <2>1. CASE known = {}
      <3>1. Places(room, e.token) = {}
        BY <1>8, <2>1
      <3>2. verifiedTokens' = Append(room, e)
        BY <1>10, <2>1
      <3>3. /\ Tidy(Append(room, e)) /\ AllSound(Append(room, e))
            /\ Len(Append(room, e)) = Len(room) + 1
        BY <1>8, <1>9, <3>1, Stored
      <3> QED
        BY <3>2, <3>3, <1>9
    <2>2. CASE known # {}
      <3>1. verifiedTokens' = [i \in DOMAIN room |-> IF i \in Places(room, e.token) THEN e ELSE room[i]]
        BY <1>8, <1>10, <2>2
      <3>2. /\ Tidy(verifiedTokens') /\ AllSound(verifiedTokens')
            /\ Len(verifiedTokens') = Len(room)
        BY <1>8, <1>9, <3>1, Replaced
      <3> QED
        BY <3>2, <1>9
    <2> QED
      BY <2>1, <2>2
  <1>12. Cached'
    BY <1>2, <1>11 DEF Cached, Tidy, AllSound, Sound
  <1>13. GateTypeOK'
    BY <1>2, <1>5, <1>11 DEF GateInv, GateTypeOK, Writes, Tidy
  <1> QED
    BY <1>6, <1>7, <1>12, <1>13 DEF GateInv

\* What a step of one request that leaves the cache alone has still to show: its slot.
LEMMA CacheUntouched ==
  ASSUME GateInv, NEW c \in Calls, NEW n, Writes(c, n), Slots',
         UNCHANGED <<time, revokedAt, verifiedTokens, phase, forced>>,
         call[c].pc # "idle", n.pc \notin {"idle", "keep"}, n.token = call[c].token,
         n.open => call[c].open
  PROVE  GateInv'
  <1>1. active' \in Nat
    BY FS_CardinalityType DEF Slots
  <1>2. GateTypeOK'
    BY <1>1 DEF GateInv, GateTypeOK, Writes
  <1>3. call[c].token \in Tokens
    BY DEF GateInv, Asked
  <1>4. Asked' /\ Shutdown'
    BY <1>3, OneMoves
  <1>5. Cached'
    BY <1>2, CacheStays DEF GateInv, GateTypeOK
  <1> QED
    BY <1>2, <1>4, <1>5 DEF GateInv

\* The account is read.
LEMMA LoadUserStep ==
  ASSUME GateInv, NEW c \in Calls, LoadUser(c)
  PROVE  GateInv'
  <1>1. PICK q \in {"gate", "refused"} : At(c, q)
    BY DEF LoadUser
  <1> DEFINE n == [call[c] EXCEPT !.pc = q]
  <1>2. call[c] \in Call /\ call[c].pc = "load" /\ ~call[c].holds
    BY DEF LoadUser, GateInv, GateTypeOK, Slots
  <1>3. n \in Call /\ call' = [call EXCEPT ![c] = n]
    BY <1>1, <1>2 DEF At, GateInv, GateTypeOK, Call
  <1>4. n.holds = call[c].holds /\ n.open = call[c].open /\ n.token = call[c].token /\ n.pc = q
    BY <1>2 DEF Call
  <1> HIDE DEF n
  <1>5. Writes(c, n)
    BY <1>3, OneCall DEF GateInv
  <1>6. UNCHANGED <<time, verifiedTokens, revokedAt, active, phase, forced>>
    BY DEF LoadUser
  <1>7. Slots'
    BY <1>2, <1>4, <1>5, <1>6, SameSlots DEF GateInv, Slots, Writes
  <1> QED
    BY <1>2, <1>4, <1>5, <1>6, <1>7, CacheUntouched

\* The gate refuses the upload or gives it a slot.
LEMMA GateStep ==
  ASSUME GateInv, NEW c \in Calls, Gate(c)
  PROVE  GateInv'
  <1>1. call[c] \in Call /\ call[c].pc = "gate" /\ ~call[c].holds
    BY DEF Gate, GateInv, GateTypeOK, Slots
  <1>2. UNCHANGED <<time, verifiedTokens, revokedAt, phase, forced>>
    BY DEF Gate
  <1>3. CASE At(c, "refused") /\ UNCHANGED active
    <2> DEFINE n == [call[c] EXCEPT !.pc = "refused"]
    <2>1. n \in Call /\ call' = [call EXCEPT ![c] = n]
      BY <1>1, <1>3 DEF At, GateInv, GateTypeOK, Call
    <2>2. n.holds = call[c].holds /\ n.open = call[c].open /\ n.token = call[c].token /\ n.pc = "refused"
      BY <1>1 DEF Call
    <2> HIDE DEF n
    <2>3. Writes(c, n)
      BY <2>1, OneCall DEF GateInv
    <2>4. Slots'
      BY <1>1, <1>3, <2>2, <2>3, SameSlots DEF GateInv, Slots, Writes
    <2> QED
      BY <1>1, <1>2, <2>2, <2>3, <2>4, CacheUntouched
  <1>4. CASE /\ active < MaxUploads /\ active' = active + 1
             /\ call' = [call EXCEPT ![c].pc = "handle", ![c].holds = TRUE, ![c].late = ~call[c].open]
    <2> DEFINE l == ~call[c].open
               n == [call[c] EXCEPT !.pc = "handle", !.holds = TRUE, !.late = l]
    <2>1. l \in BOOLEAN /\ call' = [call EXCEPT ![c].pc = "handle", ![c].holds = TRUE, ![c].late = l]
      BY <1>4
    <2>2. l = ~call[c].open
      OBVIOUS
    <2> HIDE DEF l
    <2>3. n \in Call /\ call' = [call EXCEPT ![c] = n]
      BY <1>1, <2>1 DEF GateInv, GateTypeOK, Call
    <2>4. n.holds = TRUE /\ n.open = call[c].open /\ n.token = call[c].token /\ n.pc = "handle" /\ n.late = l
      BY <1>1 DEF Call
    <2> HIDE DEF n
    <2>5. Writes(c, n)
      BY <2>3, OneCall DEF GateInv
    <2>6. call'[c].holds /\ call'[c].pc = "handle" /\ call'[c].late = ~call'[c].open
      BY <2>2, <2>4, <2>5 DEF Writes
    <2>7. Slots'
      BY <1>1, <1>4, <2>5, <2>6, SlotTaken DEF GateInv, Writes
    <2> QED
      BY <1>1, <1>2, <2>4, <2>5, <2>7, CacheUntouched
  <1> QED
    BY <1>3, <1>4 DEF Gate

\* The handler is done: a slot is given back by the event that comes first.
LEMMA FinishStep ==
  ASSUME GateInv, NEW c \in Calls, NEW emitted \in BOOLEAN, Finish(c, emitted)
  PROVE  GateInv'
  <1> DEFINE q == IF call[c].open THEN "handled" ELSE "ended"
             h == call[c].holds /\ ~emitted
             n == [call[c] EXCEPT !.pc = q, !.holds = h]
  <1>1. call[c] \in Call /\ call[c].pc = "handle" /\ (call[c].open => emitted)
    BY DEF Finish, GateInv, GateTypeOK
  <1>2. UNCHANGED <<time, verifiedTokens, revokedAt, phase, forced>>
    BY DEF Finish
  <1>3. q \in {"handled", "ended"} /\ (~call[c].open => q = "ended")
    OBVIOUS
  <1>4. h \in BOOLEAN /\ h = (call[c].holds /\ ~emitted)
    OBVIOUS
  <1>5. call' = [call EXCEPT ![c].pc = q, ![c].holds = h]
    BY DEF Finish
  <1> HIDE DEF q, h
  <1>6. n \in Call /\ call' = [call EXCEPT ![c] = n]
    BY <1>1, <1>3, <1>4, <1>5 DEF GateInv, GateTypeOK, Call
  <1>7. n.holds = h /\ n.open = call[c].open /\ n.token = call[c].token /\ n.pc = q /\ n.late = call[c].late
    BY <1>1 DEF Call
  <1> HIDE DEF n
  <1>8. Writes(c, n)
    BY <1>6, OneCall DEF GateInv
  <1>9. Slots'
    <2>1. CASE emitted /\ call[c].holds
      <3>1. active' = active - 1 /\ ~call'[c].holds
        BY <2>1, <1>4, <1>7, <1>8 DEF Finish, Releases, Writes
      <3> QED
        BY <2>1, <3>1, <1>8, SlotBack DEF GateInv, Writes
    <2>2. CASE ~(emitted /\ call[c].holds)
      <3>1. active' = active
        BY <2>2 DEF Finish, Releases
      <3>2. call'[c].holds = call[c].holds
        BY <2>2, <1>1, <1>4, <1>7, <1>8 DEF Writes, Call
      <3>3. call[c].holds => call'[c].pc = "ended" /\ call'[c].late
        BY <2>2, <1>1, <1>3, <1>7, <1>8 DEF GateInv, Slots, Writes
      <3> QED
        BY <3>1, <3>2, <3>3, <1>8, SameSlots DEF GateInv, Slots, Writes
    <2> QED
      BY <2>1, <2>2
  <1> QED
    BY <1>1, <1>2, <1>3, <1>7, <1>8, <1>9, CacheUntouched

\* The connection ends.
LEMMA CloseStep ==
  ASSUME GateInv, NEW c \in Calls, Close(c)
  PROVE  GateInv'
  <1> DEFINE q == IF call[c].pc \in {"handled", "refused"} THEN "ended" ELSE call[c].pc
             n == [call[c] EXCEPT !.open = FALSE, !.holds = FALSE, !.pc = q]
  <1>1. call[c] \in Call
    BY DEF GateInv, GateTypeOK
  <1>2. UNCHANGED <<time, verifiedTokens, revokedAt, phase, forced>>
    BY DEF Close
  <1>3. q \in {"ended", call[c].pc} /\ (q # "idle" => call[c].pc # "idle")
    OBVIOUS
  <1>4. call' = [call EXCEPT ![c].open = FALSE, ![c].holds = FALSE, ![c].pc = q]
    BY DEF Close
  <1> HIDE DEF q
  <1>5. n \in Call /\ call' = [call EXCEPT ![c] = n]
    BY <1>1, <1>3, <1>4 DEF GateInv, GateTypeOK, Call
  <1>6. ~n.holds /\ ~n.open /\ n.token = call[c].token /\ n.pc = q /\ n.now = call[c].now
    BY <1>1 DEF Call
  <1> HIDE DEF n
  <1>7. Writes(c, n)
    BY <1>5, OneCall DEF GateInv
  <1>8. Slots'
    <2>1. CASE call[c].holds
      <3>1. active' = active - 1 /\ ~call'[c].holds
        BY <2>1, <1>6, <1>7 DEF Close, Releases, Writes
      <3> QED
        BY <2>1, <3>1, <1>7, SlotBack DEF GateInv, Writes
    <2>2. CASE ~call[c].holds
      <3>1. active' = active
        BY <2>2 DEF Close, Releases
      <3>2. call'[c].holds = call[c].holds
        BY <2>2, <1>1, <1>5, <1>6, <1>7 DEF Writes, Call
      <3> QED
        BY <2>2, <3>1, <3>2, <1>7, SameSlots DEF GateInv, Slots, Writes
    <2> QED
      BY <2>1, <2>2
  <1>9. active' \in Nat
    BY <1>8, FS_CardinalityType DEF Slots
  <1>10. GateTypeOK'
    BY <1>2, <1>7, <1>9 DEF GateInv, GateTypeOK, Writes
  <1>11. Asked' /\ Shutdown'
    <2>1. n.pc # "idle" => n.token \in Tokens
      BY <1>3, <1>6 DEF GateInv, Asked
    <2>2. n.pc = "keep" => n.now <= time /\ n.now <= revokedAt[n.token]
      BY <1>3, <1>6 DEF GateInv, Asked
    <2> QED
      BY <1>2, <1>6, <1>7, <2>1, <2>2, OneMoves
  <1>12. Cached'
    BY <1>2, <1>10, CacheStays DEF GateInv, GateTypeOK
  <1> QED
    BY <1>8, <1>10, <1>11, <1>12 DEF GateInv

\* The deadline of the shutdown closes every connection at once.
LEMMA DrainTimeoutStep ==
  ASSUME GateInv, DrainTimeout
  PROVE  GateInv'
  <1> DEFINE q(c) == IF call[c].pc \in {"handled", "refused"} THEN "ended" ELSE call[c].pc
             h(c) == call[c].holds /\ call[c].late
             n(c) == [call[c] EXCEPT !.open = FALSE, !.holds = h(c), !.pc = q(c)]
             Back == {c \in Calls : call[c].holds /\ ~call[c].late}
             Left == {c \in Calls : call[c].holds /\ call[c].late}
  <1>1. /\ UNCHANGED <<time, verifiedTokens, revokedAt>> /\ phase' = "disconnecting" /\ forced' = TRUE
        /\ active' = active - Cardinality(Back)
        /\ call' = [c \in Calls |-> n(c)]
    BY DEF DrainTimeout
  <1>2. \A c \in Calls : call[c] \in Call
    BY DEF GateInv, GateTypeOK
  <1>3. \A c \in Calls : h(c) \in BOOLEAN /\ (h(c) <=> call[c].holds /\ call[c].late)
    OBVIOUS
  <1>4. \A c \in Calls : q(c) \in {"ended", call[c].pc} /\ (q(c) # "idle" => call[c].pc # "idle")
    OBVIOUS
  <1> HIDE DEF q, h
  <1>5. \A c \in Calls : /\ n(c) \in Call /\ n(c).open = FALSE /\ n(c).holds = h(c) /\ n(c).pc = q(c)
                         /\ n(c).token = call[c].token /\ n(c).now = call[c].now /\ n(c).late = call[c].late
    BY <1>2, <1>3, <1>4 DEF Call
  <1> HIDE DEF n
  <1>6. /\ call' \in [Calls -> Call]
        /\ \A c \in Calls : /\ ~call'[c].open /\ call'[c].holds = h(c) /\ call'[c].pc = q(c)
                            /\ call'[c].token = call[c].token /\ call'[c].now = call[c].now /\ call'[c].late = call[c].late
    BY <1>1, <1>5
  <1>7. Slots'
    <2>1. Holders' = Left
      BY <1>3, <1>6 DEF Holders
    <2>2. Holders = Left \cup Back /\ Left \cap Back = {} /\ Left \subseteq Holders /\ Back \subseteq Holders
      <3>1. \A c \in Calls : call[c].late \in BOOLEAN
        BY <1>2 DEF Call
      <3> QED
        BY <3>1 DEF Holders
    <2> HIDE DEF Left, Back
    <2>3. IsFiniteSet(Left) /\ IsFiniteSet(Back)
      BY <2>2, FS_Subset DEF GateInv, Slots
    <2>4. Cardinality(Left \cup Back) = Cardinality(Left) + Cardinality(Back) - Cardinality(Left \cap Back)
      BY <2>3, FS_Union
    <2>5. Cardinality(Left \cap Back) = 0
      BY <2>2, FS_EmptySet
    <2>6. Cardinality(Left) \in Nat /\ Cardinality(Back) \in Nat
      BY <2>3, FS_CardinalityType
    <2>7. active = Cardinality(Left) + Cardinality(Back) /\ active <= MaxUploads
      BY <2>2, <2>4, <2>5, <2>6 DEF GateInv, Slots
    <2>8. active' = Cardinality(Holders') /\ active' <= MaxUploads
      BY <1>1, <2>1, <2>6, <2>7, GateAssumption
    <2>9. \A c \in Calls : call'[c].holds =>
            call'[c].pc \in {"handle", "ended"} /\ (~call'[c].late => call'[c].open /\ call'[c].pc = "handle")
      BY <1>3, <1>4, <1>6 DEF GateInv, Slots
    <2> QED
      BY <2>1, <2>3, <2>8, <2>9 DEF Slots
  <1>8. active' \in Nat
    BY <1>7, FS_CardinalityType DEF Slots
  <1>9. GateTypeOK'
    BY <1>1, <1>6, <1>8 DEF GateInv, GateTypeOK
  <1>10. Asked'
    BY <1>1, <1>4, <1>6 DEF GateInv, Asked
  <1>11. Cached'
    BY <1>1, <1>9, CacheStays DEF GateInv, GateTypeOK
  <1>12. Shutdown'
    BY <1>1 DEF Shutdown
  <1> QED
    BY <1>7, <1>9, <1>10, <1>11, <1>12 DEF GateInv

\* Every step of the gate keeps its invariant.
LEMMA GateKeeps ==
  ASSUME GateInv, GateNext
  PROVE  GateInv'
  <1>1. CASE TimePasses \/ (\E t \in Tokens : Revoke(t)) \/ Signal \/ Drained \/ Exit \/ HardExit
    BY <1>1, QuietSteps
  <1>2. CASE DrainTimeout
    BY <1>2, DrainTimeoutStep
  <1>3. ASSUME NEW c \in Calls, NEW t \in Tokens, Arrive(c, t) PROVE GateInv'
    BY <1>3, ArriveStep
  <1>4. ASSUME NEW c \in Calls, Verify(c) \/ Keep(c) \/ LoadUser(c) \/ Gate(c) \/ Close(c) PROVE GateInv'
    BY <1>4, VerifyStep, KeepStep, LoadUserStep, GateStep, CloseStep
  <1>5. ASSUME NEW c \in Calls, NEW emitted \in BOOLEAN, Finish(c, emitted) PROVE GateInv'
    BY <1>5, FinishStep
  <1> QED
    BY <1>1, <1>2, <1>3, <1>4, <1>5 DEF GateNext

\* The invariant says what the run checks of the gate.
LEMMA GateImplies ==
  ASSUME GateInv
  PROVE  GateTypeOK /\ GateHolds
  <1>1. DOMAIN verifiedTokens = 1..Len(verifiedTokens)
    BY DEF GateInv, GateTypeOK
  <1>2. RevokedStops
    BY <1>1 DEF GateInv, Cached, AllSound, Sound, RevokedStops
  <1>3. CacheBounded
    BY <1>1 DEF GateInv, Cached, Tidy, CacheBounded
  <1>4. SlotsBacked
    BY DEF GateInv, Slots, Holders, SlotsBacked
  <1>5. DrainedBeforeDisconnect
    BY DEF GateInv, Shutdown, NoConnections, DrainedBeforeDisconnect
  <1> QED
    BY <1>2, <1>3, <1>4, <1>5 DEF GateInv, GateHolds

-----------------------------------------------------------------------------
(* The inbox. *)

\* What a poll lists as unread is among what it lists, and the badge counts a finite set.
InboxInv ==
  /\ InboxTypeOK /\ InboxHolds /\ IsFiniteSet(unread)
  /\ \A p \in Polls : poll[p].unread \subseteq poll[p].list

\* The initial state satisfies the invariant.
LEMMA InboxStarts ==
  ASSUME InboxInit
  PROVE  InboxInv
  <1>1. NoPoll \in Poll /\ NoPoll.unread \subseteq NoPoll.list
    BY DEF NoPoll, Poll
  <1> DEFINE m0 == [pc |-> "idle", notes |-> {}, all |-> FALSE]
  <1>2. m0 \in Mark
    BY DEF Mark
  <1> HIDE DEF m0
  <1>3. poll \in [Polls -> Poll] /\ mark \in [Marks -> Mark]
    BY <1>1, <1>2 DEF InboxInit, m0
  <1>4. InboxTypeOK
    BY <1>3 DEF InboxInit, InboxTypeOK
  <1>5. InboxHolds
    BY DEF InboxInit, InboxHolds, RemindedOncePerPeriod, ReadWasClicked
  <1>6. IsFiniteSet(unread)
    BY FS_EmptySet DEF InboxInit
  <1>7. \A p \in Polls : poll[p].unread \subseteq poll[p].list
    BY <1>1 DEF InboxInit
  <1> QED
    BY <1>4, <1>5, <1>6, <1>7 DEF InboxInv

\* Nothing of the inbox changes.
LEMMA InboxStill ==
  ASSUME InboxInv, UNCHANGED inboxVars
  PROVE  InboxInv'
  BY DEF InboxInv, inboxVars, InboxTypeOK, InboxHolds, RemindedOncePerPeriod, ReadWasClicked

\* A reminder or another event records a notification, or the period passes.
LEMMA ServerSteps ==
  ASSUME InboxInv, PeriodPasses \/ OtherEvent \/ ClaimReminder \/ RecordReminder
  PROVE  InboxInv'
  <1>1. UNCHANGED <<read, page>>
    BY DEF PeriodPasses, OtherEvent, ClaimReminder, RecordReminder
  <1>2. unread' = unread \/ \E x \in Notes \ Recorded : unread' = unread \cup {x}
    <2>1. Records => \E x \in Notes \ Recorded : unread' = unread \cup {x}
      <3>1. \A x \in Notes : ~(x < x)
        BY InboxAssumption
      <3> QED
        BY <3>1 DEF Records
    <2> QED
      BY <2>1 DEF PeriodPasses, OtherEvent, ClaimReminder, RecordReminder
  <1>3. unread' \subseteq Notes /\ unread' \cap read' = {} /\ IsFiniteSet(unread')
    <2>1. CASE unread' = unread
      BY <1>1, <2>1 DEF InboxInv, InboxTypeOK
    <2>2. ASSUME NEW x \in Notes \ Recorded, unread' = unread \cup {x}
          PROVE  unread' \subseteq Notes /\ unread' \cap read' = {} /\ IsFiniteSet(unread')
      <3>1. IsFiniteSet(unread \cup {x})
        BY FS_AddElement DEF InboxInv
      <3> QED
        BY <1>1, <2>2, <3>1 DEF InboxInv, InboxTypeOK, Recorded
    <2> QED
      BY <1>2, <2>1, <2>2
  <1>4. ~tooSoon' /\ tooSoon' \in BOOLEAN /\ claimed' \in BOOLEAN
    <2>1. ~tooSoon /\ claimed \in BOOLEAN
      BY DEF InboxInv, InboxTypeOK, InboxHolds, RemindedOncePerPeriod
    <2>2. CASE ClaimReminder
      <3>1. tooSoon' = FALSE /\ claimed' = TRUE
        BY <2>1, <2>2 DEF ClaimReminder, Due
      <3> QED
        BY <3>1
    <2>3. CASE RecordReminder
      BY <2>1, <2>3 DEF RecordReminder, InboxInv, InboxTypeOK
    <2>4. CASE PeriodPasses \/ OtherEvent
      BY <2>1, <2>4 DEF PeriodPasses, OtherEvent, InboxInv, InboxTypeOK
    <2> QED
      BY <2>2, <2>3, <2>4
  <1>5. lastReminder' \in {"within", "before"}
    BY DEF PeriodPasses, OtherEvent, ClaimReminder, RecordReminder, InboxInv, InboxTypeOK
  <1>6. InboxTypeOK'
    BY <1>1, <1>3, <1>4, <1>5 DEF InboxInv, InboxTypeOK, page
  <1>7. InboxHolds'
    BY <1>1, <1>4 DEF InboxInv, InboxHolds, RemindedOncePerPeriod, ReadWasClicked, page
  <1> QED
    BY <1>1, <1>3, <1>6, <1>7 DEF InboxInv, page

\* What a step that leaves the server alone has to show.
LEMMA PageStep ==
  ASSUME InboxInv, UNCHANGED server,
         shown' \subseteq Notes, shownUnread' \subseteq shown', badge' \in Nat, loading' \in BOOLEAN,
         poll' \in [Polls -> Poll], \A p \in Polls : poll'[p].unread \subseteq poll'[p].list,
         mark' \in [Marks -> Mark],
         \A m \in Marks : mark[m].pc \in {"answered", "done"} =>
           mark'[m].pc \in {"answered", "done"} /\ mark'[m].all = mark[m].all /\ mark'[m].notes = mark[m].notes
  PROVE  InboxInv'
  <1>1. InboxTypeOK'
    BY DEF InboxInv, InboxTypeOK, server
  <1>2. ReadWasClicked'
    BY DEF InboxInv, InboxHolds, ReadWasClicked, server
  <1> QED
    BY <1>1, <1>2 DEF InboxInv, InboxHolds, RemindedOncePerPeriod, server

\* A poll moves; the server answers with what it has at that moment.
LEMMA PollSteps ==
  ASSUME InboxInv, NEW p \in Polls,
         StartPoll(p) \/ CountUnread(p) \/ ListNotes(p) \/ PollArrives(p) \/ PollFails(p)
  PROVE  InboxInv'
  <1> DEFINE q == poll'[p]
  <1>1. UNCHANGED <<server, loading, mark>> /\ poll[p] \in Poll /\ mark \in [Marks -> Mark] /\ loading \in BOOLEAN
    BY DEF StartPoll, CountUnread, ListNotes, PollArrives, PollFails, InboxInv, InboxTypeOK
  <1>2. NoPoll \in Poll /\ NoPoll.unread \subseteq NoPoll.list
    BY DEF NoPoll, Poll
  <1>3. Cardinality(unread) \in Nat /\ unread \subseteq Notes /\ Recorded \subseteq Notes
    BY FS_CardinalityType DEF InboxInv, InboxTypeOK, Recorded
  <1>4. /\ shown' \subseteq Notes /\ shownUnread' \subseteq shown' /\ badge' \in Nat
    BY <1>1 DEF StartPoll, CountUnread, ListNotes, PollArrives, PollFails, InboxInv, InboxTypeOK, Poll
  <1>5. /\ poll' \in [Polls -> Poll]
        /\ \A r \in Polls : poll'[r].unread \subseteq poll'[r].list
    <2>1. CASE StartPoll(p)
      BY <2>1, <1>1 DEF StartPoll, InboxInv, InboxTypeOK, Poll
    <2>2. CASE CountUnread(p)
      <3> DEFINE s == IF poll[p].listed THEN "answered" ELSE "sent"
      <3>1. s \in {"answered", "sent"}
        OBVIOUS
      <3>2. poll' = [poll EXCEPT ![p].counted = TRUE, ![p].count = Cardinality(unread), ![p].pc = s]
        BY <2>2 DEF CountUnread
      <3> HIDE DEF s
      <3> QED
        BY <3>1, <3>2, <1>1, <1>3 DEF InboxInv, InboxTypeOK, Poll
    <2>3. CASE ListNotes(p)
      <3> DEFINE s == IF poll[p].counted THEN "answered" ELSE "sent"
      <3>1. s \in {"answered", "sent"}
        OBVIOUS
      <3>2. poll' = [poll EXCEPT ![p].listed = TRUE, ![p].list = Newest,
                                       ![p].unread = unread \cap Newest, ![p].pc = s]
        BY <2>3 DEF ListNotes
      <3>3. Newest \subseteq Notes
        BY <1>3 DEF Newest
      <3> HIDE DEF s
      <3> QED
        BY <3>1, <3>2, <3>3, <1>1, <1>3 DEF InboxInv, InboxTypeOK, Poll
    <2>4. CASE PollArrives(p) \/ PollFails(p)
      BY <2>4, <1>2 DEF PollArrives, PollFails, InboxInv, InboxTypeOK
    <2> QED
      BY <2>1, <2>2, <2>3, <2>4
  <1> QED
    BY <1>1, <1>4, <1>5, PageStep

\* A click changes the page, or waits for the answer.
LEMMA ClickSteps ==
  ASSUME InboxInv, NEW m \in Marks, (\E x \in Notes : ClickOne(m, x)) \/ ClickAll(m) \/ MarkAnswered(m)
  PROVE  InboxInv'
  <1>1. UNCHANGED <<server, shown, poll>> /\ mark[m] \in Mark
    BY DEF ClickOne, ClickAll, MarkAnswered, InboxInv, InboxTypeOK
  <1>2. shown' \subseteq Notes /\ shownUnread' \subseteq shown' /\ badge' \in Nat /\ loading' \in BOOLEAN
    <2>1. ASSUME NEW x \in Notes, ClickOne(m, x)
          PROVE  shown' \subseteq Notes /\ shownUnread' \subseteq shown' /\ badge' \in Nat /\ loading' \in BOOLEAN
      <3>1. shown' \subseteq Notes /\ shownUnread' \subseteq shown'
        BY <2>1, <1>1 DEF ClickOne, InboxInv, InboxTypeOK
      <3>2. badge' \in Nat
        <4>1. badge \in Nat
          BY DEF InboxInv, InboxTypeOK
        <4>2. badge' = IF badge = 0 THEN 0 ELSE badge - 1
          BY <2>1 DEF ClickOne, Decremented
        <4> QED
          BY <4>1, <4>2
      <3>3. loading' \in BOOLEAN
        BY <2>1 DEF ClickOne, InboxInv, InboxTypeOK
      <3> QED
        BY <3>1, <3>2, <3>3
    <2>2. CASE ClickAll(m)
      BY <2>2, <1>1 DEF ClickAll, InboxInv, InboxTypeOK
    <2>3. CASE MarkAnswered(m) /\ mark[m].all
      <3>1. shownUnread' = {} /\ badge' = 0 /\ loading' = FALSE
        BY <2>3 DEF MarkAnswered
      <3>2. shown' \subseteq Notes
        BY <1>1 DEF InboxInv, InboxTypeOK
      <3> QED
        BY <3>1, <3>2
    <2>4. CASE MarkAnswered(m) /\ ~mark[m].all
      BY <2>4, <1>1 DEF MarkAnswered, InboxInv, InboxTypeOK
    <2> QED
      BY <2>1, <2>2, <2>3, <2>4
  <1>3. /\ mark' \in [Marks -> Mark]
        /\ \A k \in Marks : mark[k].pc \in {"answered", "done"} =>
             mark'[k].pc \in {"answered", "done"} /\ mark'[k].all = mark[k].all /\ mark'[k].notes = mark[k].notes
    <2>1. ASSUME NEW x \in Notes, ClickOne(m, x)
          PROVE  <1>3!1 /\ <1>3!2
      BY <2>1, <1>1 DEF ClickOne, InboxInv, InboxTypeOK, Mark
    <2>2. CASE ClickAll(m)
      BY <2>2, <1>1 DEF ClickAll, InboxInv, InboxTypeOK, Mark
    <2>3. CASE MarkAnswered(m)
      BY <2>3, <1>1 DEF MarkAnswered, InboxInv, InboxTypeOK, Mark
    <2> QED
      BY <2>1, <2>2, <2>3
  <1>4. poll' \in [Polls -> Poll] /\ \A p \in Polls : poll'[p].unread \subseteq poll'[p].list
    BY <1>1 DEF InboxInv, InboxTypeOK
  <1> QED
    BY <1>1, <1>2, <1>3, <1>4, PageStep

\* The server marks notifications read: only those the click was about.
LEMMA MarkStep ==
  ASSUME InboxInv, NEW m \in Marks, MarkApplied(m)
  PROVE  InboxInv'
  <1>1. /\ UNCHANGED <<lastReminder, claimed, tooSoon, shown, shownUnread, badge, loading, poll>>
        /\ mark[m] \in Mark /\ mark[m].pc = "sent"
    BY DEF MarkApplied, InboxInv, InboxTypeOK
  <1>2. /\ mark' \in [Marks -> Mark] /\ mark'[m].pc = "answered"
        /\ mark'[m].all = mark[m].all /\ mark'[m].notes = mark[m].notes
        /\ \A k \in Marks \ {m} : mark'[k] = mark[k]
    BY <1>1 DEF MarkApplied, InboxInv, InboxTypeOK, Mark
  <1>3. /\ unread' \subseteq unread /\ unread' \cup read' = unread \cup read /\ unread' \cap read' = {}
        /\ \A x \in read' : x \in read \/ mark[m].all \/ x \in mark[m].notes
    BY DEF MarkApplied, Covered, InboxInv, InboxTypeOK
  <1>4. IsFiniteSet(unread')
    BY <1>3, FS_Subset DEF InboxInv
  <1>5. InboxTypeOK'
    BY <1>1, <1>2, <1>3 DEF InboxInv, InboxTypeOK
  <1>6. ReadWasClicked'
    BY <1>1, <1>2, <1>3 DEF InboxInv, InboxHolds, ReadWasClicked
  <1> QED
    BY <1>1, <1>4, <1>5, <1>6 DEF InboxInv, InboxHolds, RemindedOncePerPeriod

\* Every step of the inbox keeps its invariant.
LEMMA InboxKeeps ==
  ASSUME InboxInv, InboxNext
  PROVE  InboxInv'
  BY ServerSteps, PollSteps, ClickSteps, MarkStep DEF InboxNext

-----------------------------------------------------------------------------
(* Both parts. *)

EdgeInv == GateInv /\ InboxInv

\* The initial states of both parts satisfy their invariants.
LEMMA EdgeStarts ==
  ASSUME EdgeInit
  PROVE  EdgeInv
  BY GateStarts, InboxStarts DEF EdgeInit, EdgeInv

\* A step of one part leaves the other as it is.
LEMMA EdgeKeeps ==
  ASSUME EdgeInv, [EdgeNext]_edgeVars
  PROVE  EdgeInv'
  <1>1. CASE OfGate(GateNext)
    BY <1>1, GateKeeps, InboxStill DEF OfGate, EdgeInv
  <1>2. CASE OfInbox(InboxNext)
    BY <1>2, GateStill, InboxKeeps DEF OfInbox, EdgeInv
  <1>3. CASE UNCHANGED edgeVars
    BY <1>3, GateStill, InboxStill DEF edgeVars, EdgeInv
  <1> QED
    BY <1>1, <1>2, <1>3 DEF EdgeNext

\* In every behaviour the invariants of both parts hold.
LEMMA EdgeInvariance == EdgeSpec => []EdgeInv
  <1>1. EdgeInit => EdgeInv
    BY EdgeStarts
  <1>2. EdgeInv /\ [EdgeNext]_edgeVars => EdgeInv'
    BY EdgeKeeps
  <1> QED
    BY <1>1, <1>2, PTL DEF EdgeSpec

\* Every variable of the two parts keeps its shape, however requests, the clock, the shutdown,
\* reminders, polls and clicks interleave.
THEOREM EdgeTypes == EdgeSpec => []EdgeTypeOK
  <1>1. EdgeInv => EdgeTypeOK
    BY GateImplies DEF EdgeInv, InboxInv, EdgeTypeOK
  <1> QED
    BY <1>1, EdgeInvariance, PTL

\* verifyFirebaseToken.ts, rateLimits.ts, server.ts: a revoked token stops within the TTL, the
\* cache stays within its cap, the slots of the upload gate are those of the uploads that hold
\* them, and a drain that met its deadline left no client waiting.
THEOREM GateAlwaysHolds == EdgeSpec => []GateHolds
  <1>1. EdgeInv => GateHolds
    BY GateImplies DEF EdgeInv
  <1> QED
    BY <1>1, EdgeInvariance, PTL

\* staleListingReminder.job.ts, notification.repository.ts: no dealer is reminded twice in a
\* period, and nothing is read that nobody clicked.
THEOREM InboxAlwaysHolds == EdgeSpec => []InboxHolds
  <1>1. EdgeInv => InboxHolds
    BY DEF EdgeInv, InboxInv
  <1> QED
    BY <1>1, EdgeInvariance, PTL

=============================================================================
