----------------------------- MODULE Browser_proofs -----------------------------
(***************************************************************************)
(* What holds on every page of the frontend, for any number of accounts,   *)
(* loads, photos, listings, records and requests, and any bounds.  One     *)
(* inductive invariant for each part; the theorems at the end put them     *)
(* together for a tab of the browser.                                      *)
(***************************************************************************)
EXTENDS Browser, FiniteSetTheorems, WellFoundedInduction, TLAPS

\* A set of numbers that is not empty has a least one.
LEMMA Smallest ==
  ASSUME NEW S \in SUBSET Nat, S # {}
  PROVE  \E n \in S : \A m \in S : n <= m
  <1> DEFINE R == OpToRel(<, Nat)
  <1>1. IsWellFoundedOn(R, Nat)
    BY NatLessThanWellFounded, Zenon
  <1>2. \A x, y \in Nat : x < y => <<x, y>> \in R
    BY DEF OpToRel
  <1> HIDE DEF R
  <1>3. PICK x \in S : \A y \in S : ~(<<y, x>> \in R)
    BY <1>1, WFMin, Zenon
  <1>4. \A y \in S : ~(y < x)
    BY <1>2, <1>3
  <1>5. \A y \in S : x <= y
    BY <1>4
  <1> QED
    BY <1>5

-----------------------------------------------------------------------------
(* Lists without repetition. *)

\* What is left of a list when the element at one place is removed.
LEMMA RemovedAt ==
  ASSUME NEW S, NEW s \in Seq(S), NEW i \in 1..Len(s)
  PROVE  /\ RemoveAt(s, i) \in Seq(S)
         /\ Len(RemoveAt(s, i)) = Len(s) - 1
         /\ \A j \in 1..(Len(s) - 1) : RemoveAt(s, i)[j] = IF j < i THEN s[j] ELSE s[j + 1]
  <1> DEFINE before == SubSeq(s, 1, i - 1)
             after  == SubSeq(s, i + 1, Len(s))
  <1>1. /\ before \in Seq(S) /\ Len(before) = i - 1
        /\ \A j \in 1..(i - 1) : before[j] = s[j]
    OBVIOUS
  <1>2. /\ after \in Seq(S) /\ Len(after) = Len(s) - i
        /\ \A j \in 1..(Len(s) - i) : after[j] = s[i + j]
    OBVIOUS
  <1>3. RemoveAt(s, i) = before \o after
    BY DEF RemoveAt
  <1> HIDE DEF before, after
  <1>4. ASSUME NEW j \in 1..(Len(s) - 1)
        PROVE  (before \o after)[j] = IF j < i THEN s[j] ELSE s[j + 1]
    <2>1. CASE j < i
      BY <1>1, <1>2, <2>1
    <2>2. CASE ~(j < i)
      <3> DEFINE k == j - (i - 1)
      <3>1. k \in 1..(Len(s) - i) /\ i + k = j + 1
        BY <2>2
      <3>2. (before \o after)[j] = after[k]
        BY <1>1, <1>2, <2>2
      <3>3. after[k] = s[i + k]
        BY <1>2, <3>1
      <3> QED
        BY <2>2, <3>1, <3>2, <3>3
    <2> QED
      BY <2>1, <2>2
  <1>5. before \o after \in Seq(S) /\ Len(before \o after) = Len(s) - 1
    BY <1>1, <1>2
  <1> QED
    BY <1>3, <1>4, <1>5, Zenon

\* The element removed from a list is at its first place in it.
LEMMA FirstPlace ==
  ASSUME NEW S, NEW s \in Seq(S), NEW v, \E i \in 1..Len(s) : s[i] = v
  PROVE  \E i \in 1..Len(s) : s[i] = v /\ RemoveFirst(s, v) = RemoveAt(s, i)
  <1> DEFINE I == {i \in 1..Len(s) : s[i] = v}
             m == SelectInSeq(s, LAMBDA w : w = v)
  <1>1. I # {} /\ I \subseteq Nat
    OBVIOUS
  <1>2. m = CHOOSE x \in I : \A y \in I : x <= y
    BY <1>1, Zenon DEF SelectInSeq, Min
  <1>3. RemoveFirst(s, v) = RemoveAt(s, m)
    BY Zenon DEF RemoveFirst
  <1> HIDE DEF I, m
  <1>4. \E x \in I : \A y \in I : x <= y
    BY <1>1, Smallest
  <1>5. m \in I
    BY <1>2, <1>4
  <1> QED
    BY <1>3, <1>5 DEF I

\* A list without repetition loses exactly the element removed.
LEMMA RemovedOnce ==
  ASSUME NEW S, NEW s \in Seq(S), IsInjective(s), NEW v
  PROVE  /\ RemoveFirst(s, v) \in Seq(S) /\ IsInjective(RemoveFirst(s, v))
         /\ Len(RemoveFirst(s, v)) <= Len(s)
         /\ Range(RemoveFirst(s, v)) = Range(s) \ {v}
  <1>1. CASE \E i \in 1..Len(s) : s[i] = v
    <2>1. PICK i \in 1..Len(s) : s[i] = v /\ RemoveFirst(s, v) = RemoveAt(s, i)
      BY <1>1, FirstPlace
    <2> DEFINE r == RemoveFirst(s, v)
    <2>2. /\ r \in Seq(S) /\ Len(r) = Len(s) - 1
          /\ \A j \in 1..(Len(s) - 1) : r[j] = IF j < i THEN s[j] ELSE s[j + 1]
      BY <2>1, RemovedAt
    <2> HIDE DEF r
    <2>3. DOMAIN r = 1..(Len(s) - 1) /\ DOMAIN s = 1..Len(s)
      BY <2>2
    <2>4. \A j, k \in 1..Len(s) : s[j] = s[k] => j = k
      BY <2>3 DEF IsInjective
    <2>5. \A j \in 1..(Len(s) - 1) : \E k \in 1..Len(s) : k # i /\ r[j] = s[k] /\ k = (IF j < i THEN j ELSE j + 1)
      BY <2>2
    <2>6. \A j, k \in 1..(Len(s) - 1) : r[j] = r[k] => j = k
      BY <2>4, <2>5
    <2>7. \A k \in 1..Len(s) : k # i => \E j \in 1..(Len(s) - 1) : r[j] = s[k]
      <3> TAKE k \in 1..Len(s)
      <3> HAVE k # i
      <3>1. CASE k < i
        BY <2>2, <3>1
      <3>2. CASE k > i
        <4>1. k - 1 \in 1..(Len(s) - 1) /\ ~(k - 1 < i) /\ (k - 1) + 1 = k
          BY <3>2
        <4>2. r[k - 1] = s[k]
          BY <2>2, <4>1
        <4> QED
          BY <4>1, <4>2
      <3> QED
        BY <3>1, <3>2
    <2>8. Range(r) = Range(s) \ {v}
      <3>1. ASSUME NEW x \in Range(r)
            PROVE  x \in Range(s) \ {v}
        <4>1. PICK j \in 1..(Len(s) - 1) : x = r[j]
          BY <2>3 DEF Range
        <4>2. PICK k \in 1..Len(s) : k # i /\ r[j] = s[k]
          BY <2>5
        <4> QED
          BY <2>1, <2>3, <2>4, <4>1, <4>2 DEF Range
      <3>2. ASSUME NEW x \in Range(s) \ {v}
            PROVE  x \in Range(r)
        <4>1. PICK k \in 1..Len(s) : x = s[k]
          BY <2>3 DEF Range
        <4>2. k # i
          BY <2>1, <4>1
        <4> QED
          BY <2>3, <2>7, <4>1, <4>2 DEF Range
      <3> QED
        BY <3>1, <3>2
    <2>9. IsInjective(r)
      BY <2>3, <2>6 DEF IsInjective
    <2> QED
      BY <2>2, <2>8, <2>9 DEF r
  <1>2. CASE ~\E i \in 1..Len(s) : s[i] = v
    <2>1. RemoveFirst(s, v) = s
      BY <1>2, Zenon DEF RemoveFirst
    <2>2. v \notin Range(s)
      BY <1>2 DEF Range
    <2> QED
      BY <2>1, <2>2
  <1> QED
    BY <1>1, <1>2

\* An element that is not in a list can be added to it, at its end or before all others.
LEMMA AddedOnce ==
  ASSUME NEW S, NEW s \in Seq(S), IsInjective(s), NEW v \in S, v \notin Range(s)
  PROVE  /\ Append(s, v) \in Seq(S) /\ IsInjective(Append(s, v)) /\ Len(Append(s, v)) = Len(s) + 1
         /\ Range(Append(s, v)) = Range(s) \cup {v}
         /\ <<v>> \o s \in Seq(S) /\ IsInjective(<<v>> \o s)
  <1>1. \A j \in 1..Len(s) : s[j] # v
    BY DEF Range
  <1>2. \A j, k \in 1..Len(s) : s[j] = s[k] => j = k
    BY DEF IsInjective
  <1> DEFINE a == Append(s, v)
             b == <<v>> \o s
  <1>3. /\ a \in Seq(S) /\ Len(a) = Len(s) + 1 /\ a[Len(s) + 1] = v
        /\ \A j \in 1..Len(s) : a[j] = s[j]
    OBVIOUS
  <1>4. /\ b \in Seq(S) /\ Len(b) = Len(s) + 1 /\ b[1] = v
        /\ \A j \in 2..(Len(s) + 1) : b[j] = s[j - 1]
    OBVIOUS
  <1> HIDE DEF a, b
  <1>5. \A j, k \in 1..(Len(s) + 1) : a[j] = a[k] => j = k
    BY <1>1, <1>2, <1>3
  <1>6. \A j \in 2..(Len(s) + 1) : j - 1 \in 1..Len(s)
    OBVIOUS
  <1>7. \A j, k \in 1..(Len(s) + 1) : b[j] = b[k] => j = k
    <2> TAKE j, k \in 1..(Len(s) + 1)
    <2> HAVE b[j] = b[k]
    <2>1. CASE j = 1 /\ k = 1
      BY <2>1
    <2>2. CASE j # 1 /\ k # 1
      <3>1. /\ j \in 2..(Len(s) + 1) /\ k \in 2..(Len(s) + 1)
            /\ j - 1 \in 1..Len(s) /\ k - 1 \in 1..Len(s)
        BY <2>2
      <3>2. s[j - 1] = s[k - 1]
        BY <1>4, <3>1
      <3>3. j - 1 = k - 1
        BY <1>2, <3>1, <3>2
      <3> QED
        BY <3>3
    <2>3. CASE j # 1 /\ k = 1
      BY <1>1, <1>4, <1>6, <2>3
    <2>4. CASE j = 1 /\ k # 1
      BY <1>1, <1>4, <1>6, <2>4
    <2> QED
      BY <2>1, <2>2, <2>3, <2>4
  <1>8. Range(a) = Range(s) \cup {v}
    <2>1. DOMAIN a = 1..(Len(s) + 1) /\ DOMAIN s = 1..Len(s)
      BY <1>3
    <2>2. ASSUME NEW x \in Range(a)
          PROVE  x \in Range(s) \cup {v}
      <3>1. PICK j \in 1..(Len(s) + 1) : x = a[j]
        BY <2>1 DEF Range
      <3> QED
        BY <1>3, <2>1, <3>1 DEF Range
    <2>3. ASSUME NEW x \in Range(s) \cup {v}
          PROVE  x \in Range(a)
      <3>1. CASE x = v
        BY <1>3, <2>1, <3>1 DEF Range
      <3>2. CASE x \in Range(s)
        <4>1. PICK j \in 1..Len(s) : x = s[j]
          BY <2>1, <3>2 DEF Range
        <4>2. j \in 1..(Len(s) + 1) /\ a[j] = x
          BY <1>3, <4>1
        <4> QED
          BY <2>1, <4>2 DEF Range
      <3> QED
        BY <2>3, <3>1, <3>2
    <2> QED
      BY <2>2, <2>3
  <1>9. IsInjective(a) /\ IsInjective(b)
    BY <1>3, <1>4, <1>5, <1>7 DEF IsInjective
  <1> QED
    BY <1>3, <1>4, <1>8, <1>9 DEF a, b

\* A list that is not empty is its head, and then its tail.
LEMMA HeadAndTail ==
  ASSUME NEW S, NEW s \in Seq(S), s # <<>>
  PROVE  /\ Tail(s) \in Seq(S) /\ Head(s) \in S /\ Range(s) = {Head(s)} \cup Range(Tail(s))
         /\ (IsInjective(s) => IsInjective(Tail(s)) /\ Head(s) \notin Range(Tail(s)))
  <1> DEFINE t == Tail(s)
             n == Len(s) - 1
  <1>1. /\ t \in Seq(S) /\ Len(t) = n /\ n \in Nat /\ Len(s) = n + 1 /\ Head(s) = s[1] /\ s[1] \in S
        /\ \A i \in 1..n : t[i] = s[i + 1]
    OBVIOUS
  <1> HIDE DEF t, n
  <1>2. DOMAIN t = 1..n /\ DOMAIN s = 1..(n + 1)
    BY <1>1
  <1>3. ASSUME NEW x \in Range(s)
        PROVE  x = s[1] \/ x \in Range(t)
    <2>1. PICK i \in 1..(n + 1) : x = s[i]
      BY <1>2 DEF Range
    <2>2. CASE i # 1
      <3>1. i - 1 \in 1..n /\ (i - 1) + 1 = i
        BY <1>1, <2>2
      <3>2. t[i - 1] = s[i]
        BY <1>1, <3>1
      <3> QED
        BY <1>2, <2>1, <3>1, <3>2 DEF Range
    <2> QED
      BY <2>1, <2>2
  <1>4. ASSUME NEW x \in Range(t)
        PROVE  x \in Range(s)
    <2>1. PICK i \in 1..n : x = t[i]
      BY <1>2 DEF Range
    <2>2. i + 1 \in 1..(n + 1) /\ x = s[i + 1]
      BY <1>1, <2>1
    <2> QED
      BY <1>2, <2>2 DEF Range
  <1>5. s[1] \in Range(s)
    BY <1>1, <1>2 DEF Range
  <1>6. ASSUME IsInjective(s)
        PROVE  IsInjective(t) /\ s[1] \notin Range(t)
    <2>1. \A i, j \in 1..(n + 1) : s[i] = s[j] => i = j
      BY <1>2, <1>6 DEF IsInjective
    <2>2. \A i \in 1..n : i + 1 \in 1..(n + 1) /\ i + 1 # 1
      BY <1>1
    <2>3. \A i, j \in 1..n : t[i] = t[j] => i = j
      <3>1. ASSUME NEW i \in 1..n, NEW j \in 1..n, t[i] = t[j]
            PROVE  i = j
        <4>1. s[i + 1] = s[j + 1]
          BY <1>1, <3>1
        <4>2. i + 1 = j + 1
          BY <2>1, <2>2, <4>1
        <4> QED
          BY <4>2
      <3> QED
        BY <3>1
    <2>4. \A i \in 1..n : t[i] # s[1]
      <3>1. ASSUME NEW i \in 1..n, t[i] = s[1]
            PROVE  FALSE
        <4>1. s[i + 1] = s[1] /\ 1 \in 1..(n + 1)
          BY <1>1, <3>1
        <4> QED
          BY <2>1, <2>2, <4>1
      <3> QED
        BY <3>1
    <2> QED
      BY <1>2, <2>3, <2>4 DEF IsInjective, Range
  <1> QED
    BY <1>1, <1>3, <1>4, <1>5, <1>6 DEF t

\* Removing one element leaves the others, whatever is in the list twice.
LEMMA RemovedSome ==
  ASSUME NEW S, NEW s \in Seq(S), NEW v
  PROVE  /\ RemoveFirst(s, v) \in Seq(S) /\ Len(RemoveFirst(s, v)) <= Len(s)
         /\ Range(RemoveFirst(s, v)) \subseteq Range(s)
         /\ (RemoveFirst(s, v) # <<>> => s # <<>>)
  <1>1. CASE \E i \in 1..Len(s) : s[i] = v
    <2>1. PICK i \in 1..Len(s) : s[i] = v /\ RemoveFirst(s, v) = RemoveAt(s, i)
      BY <1>1, FirstPlace
    <2> DEFINE r == RemoveFirst(s, v)
    <2>2. /\ r \in Seq(S) /\ Len(r) = Len(s) - 1
          /\ \A j \in 1..(Len(s) - 1) : r[j] = IF j < i THEN s[j] ELSE s[j + 1]
      BY <2>1, RemovedAt
    <2> HIDE DEF r
    <2>3. DOMAIN r = 1..(Len(s) - 1) /\ DOMAIN s = 1..Len(s) /\ s # <<>>
      BY <2>1, <2>2
    <2>4. \A j \in 1..(Len(s) - 1) : \E k \in 1..Len(s) : r[j] = s[k]
      BY <2>2
    <2>5. Range(r) \subseteq Range(s)
      BY <2>3, <2>4 DEF Range
    <2>6. Len(r) <= Len(s)
      BY <2>2
    <2> QED
      BY <2>2, <2>3, <2>5, <2>6 DEF r
  <1>2. CASE ~\E i \in 1..Len(s) : s[i] = v
    <2>1. RemoveFirst(s, v) = s
      BY <1>2, Zenon DEF RemoveFirst
    <2> QED
      BY <2>1
  <1> QED
    BY <1>1, <1>2

\* Two neighbours in a list change places.
LEMMA Swapped ==
  ASSUME NEW S, NEW s \in Seq(S), NEW i \in DOMAIN s, i < Len(s)
  PROVE  LET t == [s EXCEPT ![i] = s[i + 1], ![i + 1] = s[i]] IN
         t \in Seq(S) /\ (IsInjective(s) => IsInjective(t))
  <1> DEFINE t == [s EXCEPT ![i] = s[i + 1], ![i + 1] = s[i]]
             n == Len(s)
  <1>1. n \in Nat /\ DOMAIN s = 1..n /\ i \in 1..n /\ i + 1 \in 1..n /\ i # i + 1 /\ \A j \in 1..n : s[j] \in S
    OBVIOUS
  <1>2. DOMAIN t = 1..n /\ \A j \in 1..n : t[j] = IF j = i THEN s[i + 1] ELSE IF j = i + 1 THEN s[i] ELSE s[j]
    BY <1>1
  <1>3. t = [j \in 1..n |-> t[j]]
    BY <1>1
  <1> HIDE DEF t
  <1>4. t \in [1..n -> S]
    BY <1>1, <1>2, <1>3
  <1>5. t \in Seq(S)
    BY <1>1, <1>4
  <1>6. ASSUME \A j, k \in 1..n : s[j] = s[k] => j = k
        PROVE  \A j, k \in 1..n : t[j] = t[k] => j = k
    BY <1>1, <1>2, <1>6
  <1> QED
    BY <1>1, <1>2, <1>5, <1>6 DEF t, IsInjective

-----------------------------------------------------------------------------
(* The session. *)

Under(s) == load[s].pc # "idle"
\* The callback's load of account a is under way.
CallbackLoads(a) == \E s \in Loads : Under(s) /\ load[s].by = "auth" /\ load[s].id = a

\* A load is one of an account.
LoadsHaveOne == \A s \in Loads : Under(s) => load[s].id \in Accounts
\* The user shown is the one signed in, or will be once the callback's load is answered.
ShownFollows == ~outdated =>
  shown.id = firebase \/ CallbackLoads(firebase) \/ (shown.id = NoOne /\ faults > 0)
\* What is cached, or being fetched, is of the user shown, or a load of somebody else will drop it.
CacheFollows == ~outdated /\ shown.id # NoOne =>
  \/ cache \cup {fetching} \subseteq {shown.id, NoOne}
  \/ \E a \in Accounts \ {shown.id} : CallbackLoads(a)
\* An account that may still be deleted has no application.
Deletable == form.pc = "undo" \/ (form.kind = "dealer" /\ form.pc \in {"profile", "submit"})
ApplicantsStay == ~lost => applied \subseteq accounts /\ (Deletable => firebase \notin applied)

SessionInv == SessionTypeOK /\ LoadsHaveOne /\ ShownFollows /\ CacheFollows /\ ApplicantsStay

\* The loads that begin take free slots, the first request the first of them.
LEMMA BeginStep ==
  ASSUME load \in [Loads -> Load], NEW requests \in Seq(Load), Begin(requests)
  PROVE  /\ load' \in [Loads -> Load]
         /\ \A s \in Loads : Under(s) => load'[s] = load[s]
         /\ \A s \in Loads : load'[s] = load[s] \/ \E k \in 1..Len(requests) : load'[s] = requests[k]
         /\ Len(requests) > 0 => \E s \in Loads : load'[s] = requests[1]
  <1> DEFINE upto(s) == {t \in Free : t <= s}
             rank(s) == Cardinality(upto(s))
  <1>1. load' = [s \in Loads |-> IF s \in Free /\ rank(s) <= Len(requests) THEN requests[rank(s)] ELSE load[s]]
        /\ Len(requests) <= Cardinality(Free)
    BY DEF Begin
  <1>2. Len(requests) \in Nat /\ \A k \in 1..Len(requests) : requests[k] \in Load
    OBVIOUS
  <1>3. Free \subseteq Loads /\ Loads \subseteq Nat /\ IsFiniteSet(Loads)
    BY SizesAssumption, FS_Interval DEF Free, Loads
  <1>4. \A s \in Free : rank(s) \in Nat \ {0}
    <2> SUFFICES ASSUME NEW s \in Free PROVE rank(s) \in Nat \ {0}
      OBVIOUS
    <2>1. IsFiniteSet(upto(s)) /\ s \in upto(s)
      <3>1. upto(s) \subseteq Loads
        BY <1>3
      <3>2. s <= s
        BY <1>3
      <3> QED
        BY <1>3, <3>1, <3>2, FS_Subset
    <2> DEFINE U == upto(s)
    <2>2. IsFiniteSet(U) /\ U # {} /\ rank(s) = Cardinality(U)
      BY <2>1
    <2> HIDE DEF U, rank
    <2>3. Cardinality(U) \in Nat /\ Cardinality(U) # 0
      BY <2>2, FS_CardinalityType, FS_EmptySet
    <2> QED
      BY <2>2, <2>3
  <1>5. Len(requests) > 0 => \E s \in Free : rank(s) = 1
    <2> SUFFICES ASSUME Len(requests) > 0 PROVE \E s \in Free : rank(s) = 1
      OBVIOUS
    <2>1. Free # {}
      <3>1. Cardinality({}) = 0
        BY FS_EmptySet
      <3> HIDE DEF rank
      <3>2. Len(requests) <= Cardinality(Free) /\ Len(requests) \in Nat
        BY <1>1, <1>2
      <3>3. Free = {} => Cardinality(Free) = 0
        BY <3>1, Zenon
      <3> QED
        BY <3>2, <3>3
    <2>2. Free \in SUBSET Nat
      BY <1>3
    <2>3. PICK n \in Free : \A m \in Free : n <= m
      <3> DEFINE S == Free
      <3>1. S \in SUBSET Nat /\ S # {}
        BY <2>1, <2>2
      <3> HIDE DEF S
      <3>2. \E n \in S : \A m \in S : n <= m
        BY <3>1, Smallest
      <3> QED
        BY <3>2 DEF S
    <2>4. upto(n) = {n}
      <3>1. \A m \in Free : m <= n => m = n
        BY <2>2, <2>3
      <3>2. n <= n
        BY <2>2
      <3> QED
        BY <3>1, <3>2
    <2> HIDE DEF upto
    <2> QED
      BY <2>4, FS_Singleton
  <1> HIDE DEF rank
  <1>6. \A s \in Loads : Under(s) => s \notin Free
    BY DEF Under, Free
  <1>7. \A s \in Loads : load'[s] = load[s] \/ (s \in Free /\ rank(s) \in 1..Len(requests) /\ load'[s] = requests[rank(s)])
    BY <1>1, <1>2, <1>4
  <1>8. load' \in [Loads -> Load]
    <2>1. DOMAIN load' = Loads /\ load' = [s \in Loads |-> load'[s]]
      BY <1>1
    <2> QED
      BY <1>2, <1>7, <2>1
  <1>9. Len(requests) > 0 => \E s \in Loads : load'[s] = requests[1]
    BY <1>1, <1>2, <1>3, <1>5
  <1> QED
    BY <1>6, <1>7, <1>8, <1>9

\* Callbacks' loads go on.
CallbacksGoOn == \A s \in Loads : Under(s) /\ load[s].by = "auth" =>
  load'[s].pc # "idle" /\ load'[s].by = "auth" /\ load'[s].id = load[s].id

\* A load that goes on stays under way for its account.
LEMMA CallbackStays ==
  ASSUME CallbacksGoOn, NEW a, CallbackLoads(a)
  PROVE  CallbackLoads(a)'
  BY DEF CallbacksGoOn, CallbackLoads, Under

\* A failure is counted, and what is shown of nobody is no error after it.
LEMMA FaultOrFine ==
  ASSUME SessionTypeOK, Fault \/ Fine
  PROVE  /\ outdated' = outdated /\ lost' = lost /\ faults' \in 0..MaxFaults
         /\ faults > 0 => faults' > 0
         /\ Fault => faults' > 0
  BY SizesAssumption DEF SessionTypeOK, Fault, Fine, sessionHistory

\* As long as callbacks' loads go on, whoever is shown may stay.
LEMMA FollowsFrame ==
  ASSUME SessionInv, CallbacksGoOn, UNCHANGED <<shown, firebase, outdated>>, faults > 0 => faults' > 0,
         cache' \cup {fetching'} \subseteq cache \cup {fetching, NoOne}
  PROVE  ShownFollows' /\ CacheFollows'
  <1>1. ShownFollows'
    BY CallbackStays DEF SessionInv, ShownFollows
  <1>2. CacheFollows'
    <2> SUFFICES ASSUME ~outdated, shown.id # NoOne
                 PROVE  \/ cache' \cup {fetching'} \subseteq {shown.id, NoOne}
                        \/ \E a \in Accounts \ {shown.id} : CallbackLoads(a)'
      BY DEF CacheFollows
    <2>1. CASE cache \cup {fetching} \subseteq {shown.id, NoOne}
      BY <2>1
    <2>2. CASE \E a \in Accounts \ {shown.id} : CallbackLoads(a)
      BY <2>2, CallbackStays
    <2> QED
      BY <2>1, <2>2 DEF SessionInv, CacheFollows
  <1> QED
    BY <1>1, <1>2

\* Nobody is shown when nobody is signed in, or after a failure.
LEMMA NobodyFollows ==
  ASSUME shown' = Nobody, firebase' = NoOne \/ faults' > 0
  PROVE  ShownFollows' /\ CacheFollows'
  BY DEF Nobody, ShownFollows, CacheFollows

\* The applications stay as they are while no account is deleted.
LEMMA ApplicantsFrame ==
  ASSUME SessionInv, lost' = lost, applied' = applied, accounts \subseteq accounts',
         Deletable' => Deletable, firebase' \in {firebase, NoOne} \/ ~Deletable'
  PROVE  ApplicantsStay'
  <1>1. NoOne \notin applied
    BY AccountsAssumption DEF SessionInv, SessionTypeOK
  <1> QED
    BY <1>1 DEF SessionInv, ApplicantsStay

\* A form goes on.
LEMMA FormGoesOn ==
  ASSUME SessionTypeOK,
         NEW pc \in {"idle", "load", "leave", "profile", "submit", "signOut", "undo"},
         form' = [form EXCEPT !.pc = pc]
  PROVE  form' \in Form /\ form'.kind = form.kind /\ form'.pc = pc
  BY DEF SessionTypeOK, Form

\* Requests that begin are loads of accounts.
LEMMA RequestsAreLoads ==
  ASSUME NEW a \in Accounts
  PROVE  /\ Request("auth", a) \in Load /\ Request("form", a) \in Load
         /\ Request("auth", a).pc = "user" /\ Request("form", a).pc = "user"
         /\ Request("auth", a).id = a /\ Request("form", a).id = a
         /\ Request("auth", a).by = "auth"
  BY DEF Request, Load, AnyOne

\* When loads begin, those under way go on, and each is one of an account.
LEMMA BeginKeeps ==
  ASSUME SessionInv, NEW requests \in Seq(Load), Begin(requests),
         \A k \in 1..Len(requests) : requests[k].id \in Accounts
  PROVE  load' \in [Loads -> Load] /\ CallbacksGoOn /\ LoadsHaveOne'
  <1>1. load \in [Loads -> Load] /\ LoadsHaveOne
    BY DEF SessionInv, SessionTypeOK
  <1>2. /\ load' \in [Loads -> Load]
        /\ \A s \in Loads : Under(s) => load'[s] = load[s]
        /\ \A s \in Loads : load'[s] = load[s] \/ \E k \in 1..Len(requests) : load'[s] = requests[k]
    BY <1>1, BeginStep
  <1>3. CallbacksGoOn
    BY <1>2 DEF CallbacksGoOn, Under
  <1>4. LoadsHaveOne'
    BY <1>1, <1>2 DEF LoadsHaveOne, Under
  <1> QED
    BY <1>2, <1>3, <1>4

\* Somebody signs in: the callback's load is under way, unless it is the same account.
LEMMA ArrivesFollows ==
  ASSUME SessionInv, NEW a \in Accounts, NEW also \in BOOLEAN, Arrives(a, also), outdated' = outdated, faults' = faults
  PROVE  load' \in [Loads -> Load] /\ LoadsHaveOne' /\ ShownFollows' /\ CacheFollows'
  <1> DEFINE first == IF a # firebase THEN <<Request("auth", a)>> ELSE <<>>
             second == IF also THEN <<Request("form", a)>> ELSE <<>>
             requests == first \o second
  <1>1. first \in Seq(Load) /\ second \in Seq(Load)
    BY RequestsAreLoads
  <1>2. /\ requests \in Seq(Load)
        /\ \A k \in 1..Len(requests) : requests[k].id \in Accounts
        /\ a # firebase => Len(requests) > 0 /\ requests[1] = Request("auth", a)
    BY RequestsAreLoads
  <1>3. Begin(requests) /\ firebase' = a /\ UNCHANGED screen
    BY DEF Arrives, Starts
  <1> HIDE DEF requests, first, second
  <1>4. load' \in [Loads -> Load] /\ CallbacksGoOn /\ LoadsHaveOne'
    BY <1>2, <1>3, BeginKeeps
  <1>5. a # firebase => CallbackLoads(a)'
    <2>1. load \in [Loads -> Load]
      BY DEF SessionInv, SessionTypeOK
    <2>2. a # firebase => \E s \in Loads : load'[s] = Request("auth", a)
      BY <1>2, <1>3, <2>1, BeginStep
    <2> SUFFICES ASSUME a # firebase
                 PROVE  CallbackLoads(a)'
      OBVIOUS
    <2>3. PICK s \in Loads : load'[s] = Request("auth", a)
      BY <2>2
    <2>4. load'[s].pc # "idle" /\ load'[s].by = "auth" /\ load'[s].id = a
      BY <2>3, RequestsAreLoads
    <2> QED
      BY <2>4 DEF CallbackLoads, Under
  <1>6. CASE a = firebase
    BY <1>3, <1>4, <1>6, FollowsFrame DEF screen
  <1>7. CASE a # firebase
    <2>1. ShownFollows'
      BY <1>3, <1>5, <1>7 DEF ShownFollows
    <2>2. CacheFollows'
      <3> SUFFICES ASSUME ~outdated, shown.id # NoOne
                   PROVE  \/ cache' \cup {fetching'} \subseteq {shown.id, NoOne}
                          \/ \E b \in Accounts \ {shown.id} : CallbackLoads(b)'
        BY <1>3 DEF CacheFollows, screen
      <3>1. CASE cache \cup {fetching} \subseteq {shown.id, NoOne}
        BY <1>3, <3>1 DEF screen
      <3>2. CASE \E b \in Accounts \ {shown.id} : CallbackLoads(b)
        BY <1>4, <3>2, CallbackStays
      <3> QED
        BY <3>1, <3>2 DEF SessionInv, CacheFollows
    <2> QED
      BY <1>4, <2>1, <2>2
  <1> QED
    BY <1>4, <1>6, <1>7

\* Account or nobody, an account is somebody.
LEMMA SessionNames ==
  ASSUME SessionInv
  PROVE  /\ NoOne \notin Accounts /\ NoOne \in AnyOne /\ Accounts \subseteq AnyOne
         /\ firebase \in AnyOne /\ (firebase # NoOne => firebase \in Accounts)
         /\ Nobody \in [id : AnyOne, of : AnyOne] /\ Nobody.id = NoOne /\ Nobody.of = NoOne
         /\ NoForm \in Form /\ NoForm.kind = "none" /\ NoForm.pc = "idle" /\ NoLoad \in Load /\ NoLoad.pc = "idle"
         /\ load \in [Loads -> Load]
  BY AccountsAssumption DEF SessionInv, SessionTypeOK, AnyOne, Nobody, NoForm, Form, NoLoad, Load

\* The load of a user goes on with the application's status.
LEMMA StatusIsAsked ==
  ASSUME SessionInv, NEW s \in Loads, UserAnswers(s), load[s].id \notin Dealers
  PROVE  SessionInv'
  <1> DEFINE next == [load[s] EXCEPT !.pc = "status", !.of = firebase]
  <1>1. /\ load' = [load EXCEPT ![s] = next] /\ Fine
        /\ UNCHANGED <<accounts, firebase, screen, loading, form, leaving, applied>>
        /\ Under(s)
    BY SessionNames DEF UserAnswers, Under
  <1>2. next \in Load /\ next.pc # "idle" /\ next.by = load[s].by /\ next.id = load[s].id
    BY SessionNames DEF Load
  <1> HIDE DEF next
  <1>3. load' \in [Loads -> Load] /\ CallbacksGoOn /\ LoadsHaveOne'
    BY <1>1, <1>2, SessionNames DEF CallbacksGoOn, LoadsHaveOne, Under, SessionInv
  <1>4. outdated' = outdated /\ lost' = lost /\ faults' = faults
    BY <1>1 DEF Fine, sessionHistory
  <1>5. SessionTypeOK'
    BY <1>1, <1>3, <1>4 DEF SessionInv, SessionTypeOK, screen
  <1>6. ShownFollows' /\ CacheFollows'
    BY <1>1, <1>3, <1>4, FollowsFrame DEF screen
  <1>7. ApplicantsStay'
    BY <1>1, <1>4, ApplicantsFrame DEF Deletable
  <1> QED
    BY <1>3, <1>5, <1>6, <1>7 DEF SessionInv

\* A load that ends shows its user: the one signed in, or the answer is outdated.
LEMMA FinishStep ==
  ASSUME SessionInv, NEW s \in Loads, Under(s),
         NEW user \in [id : AnyOne, of : AnyOne], user.id = load[s].id, Finish(s, user)
  PROVE  SessionInv'
  <1>1. /\ load' = [load EXCEPT ![s] = NoLoad]
        /\ outdated' = (outdated \/ user.id # firebase \/ user.of \notin {user.id, NoOne})
        /\ UNCHANGED <<accounts, firebase, leaving, applied, lost, faults>>
        /\ shown' = user
        /\ user.id # shown.id => cache' = {} /\ fetching' = NoOne
        /\ user.id = shown.id => cache' = cache /\ fetching' = fetching
        /\ form' \in {form, NoForm} /\ loading' \in {FALSE, loading}
    BY DEF Finish, SwitchAccount, EndForm
  <1>2. user.id \in Accounts
    BY DEF SessionInv, LoadsHaveOne
  <1>3. load' \in [Loads -> Load] /\ \A t \in Loads \ {s} : load'[t] = load[t]
    BY <1>1, SessionNames
  <1>4. LoadsHaveOne'
    BY <1>1, <1>3, SessionNames DEF SessionInv, LoadsHaveOne, Under
  <1>5. SessionTypeOK'
    <2>1. outdated' \in BOOLEAN
      BY <1>1 DEF SessionInv, SessionTypeOK
    <2>2. cache' \subseteq Accounts /\ fetching' \in AnyOne
      BY <1>1, SessionNames DEF SessionInv, SessionTypeOK
    <2>3. shown'.id # NoOne /\ form' \in Form /\ loading' \in BOOLEAN
      BY <1>1, <1>2, SessionNames DEF SessionInv, SessionTypeOK
    <2> QED
      BY <1>1, <1>3, <2>1, <2>2, <2>3 DEF SessionInv, SessionTypeOK
  <1>6. ShownFollows'
    BY <1>1 DEF ShownFollows
  <1>7. CacheFollows'
    <2> SUFFICES ASSUME ~outdated', shown'.id # NoOne
                 PROVE  \/ cache' \cup {fetching'} \subseteq {shown'.id, NoOne}
                        \/ \E a \in Accounts \ {shown'.id} : CallbackLoads(a)'
      BY DEF CacheFollows
    <2>1. ~outdated /\ shown'.id = user.id
      BY <1>1
    <2>2. CASE user.id # shown.id
      BY <1>1, <2>2
    <2>3. CASE user.id = shown.id
      <3>1. CASE cache \cup {fetching} \subseteq {shown.id, NoOne}
        BY <1>1, <2>3, <3>1
      <3>2. CASE \E a \in Accounts \ {shown.id} : CallbackLoads(a)
        <4>1. PICK a \in Accounts \ {shown.id} : CallbackLoads(a)
          BY <3>2
        <4>2. PICK t \in Loads : Under(t) /\ load[t].by = "auth" /\ load[t].id = a
          BY <4>1 DEF CallbackLoads
        <4>3. load'[t] = load[t]
          BY <1>3, <2>3, <4>1, <4>2
        <4>4. CallbackLoads(a)'
          BY <4>2, <4>3 DEF CallbackLoads, Under
        <4> QED
          BY <2>1, <2>3, <4>1, <4>4
      <3> QED
        BY <1>1, <1>2, <2>1, <2>3, <3>1, <3>2, SessionNames DEF SessionInv, CacheFollows
    <2> QED
      BY <2>2, <2>3
  <1>8. ApplicantsStay'
    BY <1>1, ApplicantsFrame, SessionNames DEF Deletable
  <1> QED
    BY <1>4, <1>5, <1>6, <1>7, <1>8 DEF SessionInv

\* A user, or the status of an application, is answered.
LEMMA AnswerArrives ==
  ASSUME SessionInv, NEW s \in Loads, UserAnswers(s) \/ StatusAnswers(s)
  PROVE  SessionInv'
  <1>1. load[s] \in Load
    BY SessionNames
  <1>2. CASE UserAnswers(s) /\ load[s].id \in Dealers
    <2> DEFINE user == [id |-> load[s].id, of |-> NoOne]
    <2>1. user \in [id : AnyOne, of : AnyOne] /\ user.id = load[s].id
      BY <1>1, SessionNames DEF Load
    <2>2. Finish(s, user) /\ Under(s)
      BY <1>2 DEF UserAnswers, Under
    <2> HIDE DEF user
    <2> QED
      BY <2>1, <2>2, FinishStep
  <1>3. CASE StatusAnswers(s)
    <2> DEFINE of == IF load[s].of \in applied THEN load[s].of ELSE NoOne
               user == [id |-> load[s].id, of |-> of]
    <2>1. of \in AnyOne
      BY <1>1, SessionNames DEF Load
    <2>2. Finish(s, user) /\ Under(s)
      BY <1>3 DEF StatusAnswers, Under
    <2> HIDE DEF of
    <2>3. user \in [id : AnyOne, of : AnyOne] /\ user.id = load[s].id
      BY <1>1, <2>1 DEF Load
    <2> HIDE DEF user
    <2> QED
      BY <2>2, <2>3, FinishStep
  <1> QED
    BY <1>2, <1>3, StatusIsAsked

\* A load that fails shows nobody, or ends the form that waited for it.
LEMMA UserFailsStep ==
  ASSUME SessionInv, NEW s \in Loads, UserFails(s)
  PROVE  SessionInv'
  <1> DEFINE next == IF form.kind = "login" THEN [form EXCEPT !.pc = "leave"] ELSE NoForm
  <1>1. /\ load[s].pc = "user" /\ Fault /\ load' = [load EXCEPT ![s] = NoLoad]
        /\ UNCHANGED <<accounts, firebase, leaving, applied>>
        /\ \/ /\ load[s].by = "auth" /\ SwitchAccount(Nobody) /\ loading' = FALSE /\ form' = form
           \/ /\ load[s].by # "auth" /\ form' = next /\ UNCHANGED <<screen, loading>>
    BY DEF UserFails
  <1>2. next \in Form /\ next.kind # "dealer" /\ next.pc # "undo"
    BY SessionNames DEF SessionInv, SessionTypeOK, Form
  <1> HIDE DEF next
  <1>3. load' \in [Loads -> Load] /\ \A t \in Loads \ {s} : load'[t] = load[t]
    BY <1>1, SessionNames
  <1>4. LoadsHaveOne'
    BY <1>1, <1>3, SessionNames DEF SessionInv, LoadsHaveOne, Under
  <1>5. outdated' = outdated /\ lost' = lost /\ faults' \in 0..MaxFaults /\ faults' > 0
    BY <1>1, FaultOrFine DEF SessionInv
  <1>6. CASE load[s].by = "auth"
    <2>1. /\ shown' = Nobody /\ cache' \in {{}, cache} /\ fetching' \in {NoOne, fetching} /\ loading' = FALSE
          /\ form' = form
      BY <1>1, <1>6 DEF SwitchAccount
    <2>2. SessionTypeOK'
      BY <1>1, <1>3, <1>5, <2>1, SessionNames DEF SessionInv, SessionTypeOK
    <2>3. ShownFollows' /\ CacheFollows'
      BY <1>5, <2>1, NobodyFollows
    <2>4. ApplicantsStay'
      BY <1>1, <1>5, <2>1, ApplicantsFrame DEF Deletable
    <2> QED
      BY <1>4, <2>2, <2>3, <2>4 DEF SessionInv
  <1>7. CASE load[s].by # "auth"
    <2>1. form' = next /\ UNCHANGED <<screen, loading>>
      BY <1>1, <1>7
    <2>2. SessionTypeOK'
      BY <1>1, <1>2, <1>3, <1>5, <2>1 DEF SessionInv, SessionTypeOK, screen
    <2>3. CallbacksGoOn
      BY <1>3, <1>7 DEF CallbacksGoOn, Under
    <2>4. ShownFollows' /\ CacheFollows'
      BY <1>1, <1>5, <2>1, <2>3, FollowsFrame DEF screen
    <2>5. ApplicantsStay'
      BY <1>1, <1>2, <1>5, <2>1, ApplicantsFrame DEF Deletable
    <2> QED
      BY <1>4, <2>2, <2>4, <2>5 DEF SessionInv
  <1> QED
    BY <1>6, <1>7

\* Nobody is signed in any more, or a failure shows nobody all the same.
LEMMA NobodyStep ==
  ASSUME SessionInv, form' \in Form, leaving' \in BOOLEAN, accounts' \subseteq Accounts, applied' \subseteq Accounts,
         \/ BecomesNoOne /\ Fine
         \/ Fault /\ SwitchAccount(Nobody) /\ UNCHANGED <<accounts, firebase, loading, load>>
  PROVE  /\ SessionTypeOK' /\ LoadsHaveOne' /\ ShownFollows' /\ CacheFollows'
         /\ firebase' \in {NoOne, firebase} /\ lost' = lost
  <1>1. /\ shown' = Nobody /\ cache' \in {{}, cache} /\ fetching' \in {NoOne, fetching} /\ load' = load
        /\ loading' \in {FALSE, loading}
        /\ firebase' = NoOne \/ (firebase' = firebase /\ accounts' = accounts /\ Fault)
    BY DEF BecomesNoOne, SwitchAccount
  <1>2. outdated' = outdated /\ lost' = lost /\ faults' \in 0..MaxFaults /\ (Fault => faults' > 0)
    BY FaultOrFine DEF SessionInv
  <1>3. SessionTypeOK'
    BY <1>1, <1>2, SessionNames DEF SessionInv, SessionTypeOK
  <1>4. LoadsHaveOne'
    BY <1>1 DEF SessionInv, LoadsHaveOne, Under
  <1>5. ShownFollows' /\ CacheFollows'
    BY <1>1, <1>2, NobodyFollows
  <1> QED
    BY <1>1, <1>2, <1>3, <1>4, <1>5

\* A form or a sign-out leaves the account.
LEMMA LeavingStep ==
  ASSUME SessionInv, LoginLeaves \/ SignOutApplicant \/ LogoutDone
  PROVE  SessionInv'
  <1>1. /\ form' \in {form, NoForm} /\ leaving' \in {leaving, FALSE} /\ applied' = applied
        /\ \/ BecomesNoOne /\ Fine /\ accounts' = accounts
           \/ Fault /\ SwitchAccount(Nobody) /\ UNCHANGED <<accounts, firebase, loading, load>>
           \/ LogoutDone /\ Fault /\ UNCHANGED <<accounts, firebase, screen, loading, load>>
    BY DEF LoginLeaves, SignOutApplicant, LogoutDone
  <1>2. form' \in Form /\ leaving' \in BOOLEAN /\ (Deletable' => Deletable)
    BY <1>1, SessionNames DEF SessionInv, SessionTypeOK, Deletable
  <1>3. accounts' = accounts /\ accounts \subseteq Accounts /\ applied \subseteq Accounts
    BY <1>1 DEF SessionInv, SessionTypeOK
  <1>4. CASE \/ BecomesNoOne /\ Fine
             \/ Fault /\ SwitchAccount(Nobody) /\ UNCHANGED <<accounts, firebase, loading, load>>
    <2>1. /\ SessionTypeOK' /\ LoadsHaveOne' /\ ShownFollows' /\ CacheFollows'
          /\ firebase' \in {NoOne, firebase} /\ lost' = lost
      BY <1>1, <1>2, <1>3, <1>4, NobodyStep
    <2>2. ApplicantsStay'
      BY <1>1, <1>2, <1>3, <2>1, ApplicantsFrame
    <2> QED
      BY <2>1, <2>2 DEF SessionInv
  <1>5. CASE Fault /\ UNCHANGED <<accounts, firebase, screen, loading, load>>
    <2>1. outdated' = outdated /\ lost' = lost /\ faults' \in 0..MaxFaults /\ faults' > 0
      BY <1>5, FaultOrFine DEF SessionInv
    <2>2. SessionTypeOK' /\ LoadsHaveOne'
      BY <1>1, <1>2, <1>5, <2>1 DEF SessionInv, SessionTypeOK, LoadsHaveOne, Under, screen
    <2>3. ShownFollows' /\ CacheFollows'
      <3>1. CallbacksGoOn
        BY <1>5 DEF CallbacksGoOn, Under
      <3> QED
        BY <1>5, <2>1, <3>1, FollowsFrame DEF screen
    <2>4. ApplicantsStay'
      BY <1>1, <1>2, <1>3, <1>5, <2>1, ApplicantsFrame
    <2> QED
      BY <2>2, <2>3, <2>4 DEF SessionInv
  <1> QED
    BY <1>1, <1>4, <1>5

\* Only an account without an application is deleted.
LEMMA UndoStep ==
  ASSUME SessionInv, UndoRegistration
  PROVE  SessionInv'
  <1>1. /\ form' = NoForm /\ leaving' = leaving /\ applied' = applied /\ form.pc = "undo"
        /\ \/ BecomesNoOne /\ accounts' = accounts \ {firebase} /\ Fine
           \/ Fault /\ SwitchAccount(Nobody) /\ UNCHANGED <<accounts, firebase, loading, load>>
    BY DEF UndoRegistration
  <1>2. accounts' \in {accounts, accounts \ {firebase}}
    BY <1>1
  <1>3. accounts' \subseteq Accounts /\ applied' \subseteq Accounts /\ leaving' \in BOOLEAN /\ form' \in Form
    BY <1>1, <1>2, SessionNames DEF SessionInv, SessionTypeOK
  <1>4. /\ SessionTypeOK' /\ LoadsHaveOne' /\ ShownFollows' /\ CacheFollows' /\ lost' = lost
    BY <1>1, <1>3, NobodyStep
  <1>5. ~Deletable'
    BY <1>1, SessionNames DEF Deletable
  <1>6. ~lost => firebase \notin applied
    BY <1>1 DEF SessionInv, ApplicantsStay, Deletable
  <1>7. ApplicantsStay'
    BY <1>1, <1>2, <1>4, <1>5, <1>6 DEF SessionInv, ApplicantsStay
  <1> QED
    BY <1>4, <1>7 DEF SessionInv

\* A step of a form that leaves the screen and the loads alone.
LEMMA QuietForm ==
  ASSUME SessionInv, form' \in Form, leaving' \in BOOLEAN, Fault \/ Fine, Deletable' => Deletable,
         UNCHANGED <<accounts, firebase, screen, loading, load, applied>>
  PROVE  SessionInv'
  <1>1. outdated' = outdated /\ lost' = lost /\ faults' \in 0..MaxFaults /\ (faults > 0 => faults' > 0)
    BY FaultOrFine DEF SessionInv
  <1>2. SessionTypeOK' /\ LoadsHaveOne'
    BY <1>1 DEF SessionInv, SessionTypeOK, LoadsHaveOne, Under, screen
  <1>3. CallbacksGoOn
    BY DEF CallbacksGoOn, Under
  <1>4. ShownFollows' /\ CacheFollows'
    BY <1>1, <1>3, FollowsFrame DEF screen
  <1>5. ApplicantsStay'
    BY <1>1, ApplicantsFrame
  <1> QED
    BY <1>2, <1>4, <1>5 DEF SessionInv

\* A profile is saved, or not: only a buyer is shown before the form ends.
LEMMA ProfileStep ==
  ASSUME SessionInv, SaveProfile \/ ProfileFails
  PROVE  SessionInv'
  <1> DEFINE undone == IF form.kind = "dealer" THEN [form EXCEPT !.pc = "undo"] ELSE NoForm
             submitting == [form EXCEPT !.pc = "submit"]
  <1>1. form.pc = "profile" /\ form \in Form
    BY DEF SaveProfile, ProfileFails, SessionInv, SessionTypeOK
  <1>2. /\ undone \in Form /\ (undone.pc \in {"undo", "submit", "profile"} => form.kind = "dealer")
        /\ submitting \in Form /\ submitting.pc = "submit" /\ submitting.kind = form.kind
    BY <1>1, SessionNames DEF Form
  <1>3. \/ ProfileFails /\ form' \in {undone, NoForm}
        \/ SaveProfile /\ firebase = NoOne /\ form' = undone /\ UNCHANGED screen
        \/ SaveProfile /\ form.kind # "buyer" /\ form' = submitting /\ UNCHANGED screen
        \/ /\ SaveProfile /\ firebase # NoOne /\ form.kind = "buyer" /\ form' = NoForm
           /\ SwitchAccount([id |-> firebase, of |-> NoOne])
    BY DEF SaveProfile, ProfileFails, GoOn
  <1> HIDE DEF undone, submitting
  <1>4. UNCHANGED <<accounts, firebase, loading, load, applied>> /\ leaving' \in BOOLEAN /\ (Fault \/ Fine)
    BY DEF SaveProfile, ProfileFails, SessionInv, SessionTypeOK
  <1>5. CASE form' \in {undone, submitting, NoForm} /\ UNCHANGED screen
    <2>1. CASE form' = NoForm
      <3>1. form' \in Form /\ form'.pc = "idle"
        BY <2>1, SessionNames DEF NoForm, Form
      <3> QED
        BY <1>4, <1>5, <3>1, QuietForm DEF Deletable
    <2>2. CASE form' \in {undone, submitting}
      <3>1. form' \in Form /\ (Deletable' => Deletable)
        BY <1>1, <1>2, <2>2 DEF Deletable
      <3> QED
        BY <1>4, <1>5, <3>1, QuietForm
    <2> QED
      BY <1>5, <2>1, <2>2
  <1>6. CASE /\ SaveProfile /\ firebase # NoOne /\ form.kind = "buyer" /\ form' = NoForm
             /\ SwitchAccount([id |-> firebase, of |-> NoOne])
    <2> DEFINE user == [id |-> firebase, of |-> NoOne]
    <2>1. /\ user.id = firebase /\ user \in [id : AnyOne, of : AnyOne] /\ firebase \in Accounts
      BY <1>6, SessionNames
    <2>2. /\ shown' = user /\ outdated' = outdated /\ lost' = lost /\ faults' = faults
          /\ \/ user.id # shown.id /\ cache' = {} /\ fetching' = NoOne
             \/ user.id = shown.id /\ cache' = cache /\ fetching' = fetching
      BY <1>6 DEF SwitchAccount, SaveProfile, Fine, sessionHistory
    <2> HIDE DEF user
    <2>3. SessionTypeOK' /\ LoadsHaveOne'
      BY <1>4, <1>6, <2>1, <2>2, SessionNames DEF SessionInv, SessionTypeOK, LoadsHaveOne, Under
    <2>4. ShownFollows'
      BY <1>4, <2>1, <2>2 DEF ShownFollows
    <2>5. CacheFollows'
      <3>1. CASE user.id # shown.id
        BY <2>2, <3>1 DEF CacheFollows
      <3>2. CASE user.id = shown.id
        <4>1. \A a : CallbackLoads(a) => CallbackLoads(a)'
          BY <1>4 DEF CallbackLoads, Under
        <4> QED
          BY <2>1, <2>2, <3>2, <4>1, SessionNames DEF SessionInv, CacheFollows
      <3> QED
        BY <3>1, <3>2
    <2>6. ApplicantsStay'
      BY <1>4, <1>6, <2>2, SessionNames, ApplicantsFrame DEF Deletable
    <2> QED
      BY <2>3, <2>4, <2>5, <2>6 DEF SessionInv
  <1>7. ProfileFails => UNCHANGED screen
    BY DEF ProfileFails
  <1> QED
    BY <1>3, <1>5, <1>6, <1>7

\* What begins or waits without a request: an application of a buyer, a sign-out.
LEMMA WaitingStep ==
  ASSUME SessionInv, ApplyAsBuyer \/ Logout
  PROVE  SessionInv'
  <1>1. form' \in {form, [kind |-> "apply", pc |-> "submit"]} /\ leaving' \in {leaving, TRUE}
        /\ Fine /\ UNCHANGED <<accounts, firebase, screen, loading, load, applied>>
    BY DEF ApplyAsBuyer, Logout
  <1> DEFINE applying == [kind |-> "apply", pc |-> "submit"]
  <1>2. applying \in Form /\ applying.kind = "apply" /\ applying.pc = "submit"
    BY DEF Form
  <1>3. form' \in {form, applying}
    BY <1>1
  <1> HIDE DEF applying
  <1>4. form' \in Form /\ leaving' \in BOOLEAN /\ (Deletable' => Deletable)
    BY <1>1, <1>2, <1>3 DEF SessionInv, SessionTypeOK, Deletable
  <1> QED
    BY <1>1, <1>4, QuietForm

\* An application is stored, of an account that is signed in and stays.
LEMMA SubmitStep ==
  ASSUME SessionInv, Submit
  PROVE  SessionInv'
  <1> DEFINE next == IF form.kind = "dealer" THEN [form EXCEPT !.pc = "signOut"] ELSE [form EXCEPT !.pc = "load"]
  <1>1. /\ form.pc = "submit" /\ firebase # NoOne /\ applied' = applied \cup {firebase}
        /\ form' = next /\ UNCHANGED <<firebase, screen, loading, accounts, leaving>> /\ Fine
        /\ load' = load \/ Begin(<<Request("form", firebase)>>)
    BY DEF Submit, GoOn
  <1>2. next \in Form /\ next.pc \in {"signOut", "load"}
    BY DEF Form, SessionInv, SessionTypeOK
  <1> HIDE DEF next
  <1>3. firebase \in Accounts /\ firebase \in accounts
    BY <1>1, SessionNames DEF SessionInv, SessionTypeOK
  <1>4. load' \in [Loads -> Load] /\ CallbacksGoOn /\ LoadsHaveOne'
    <2>1. CASE load' = load
      BY <2>1, SessionNames DEF CallbacksGoOn, Under, SessionInv, LoadsHaveOne
    <2>2. CASE Begin(<<Request("form", firebase)>>)
      <3> DEFINE requests == <<Request("form", firebase)>>
      <3>1. requests \in Seq(Load) /\ \A k \in 1..Len(requests) : requests[k].id \in Accounts
        BY <1>3, RequestsAreLoads
      <3>2. Begin(requests)
        BY <2>2
      <3> HIDE DEF requests
      <3> QED
        BY <3>1, <3>2, BeginKeeps
    <2> QED
      BY <1>1, <2>1, <2>2
  <1>5. outdated' = outdated /\ lost' = lost /\ faults' = faults
    BY <1>1 DEF Fine, sessionHistory
  <1>6. SessionTypeOK'
    BY <1>1, <1>2, <1>3, <1>4, <1>5 DEF SessionInv, SessionTypeOK, screen
  <1>7. ShownFollows' /\ CacheFollows'
    BY <1>1, <1>4, <1>5, FollowsFrame DEF screen
  <1>8. ApplicantsStay'
    BY <1>1, <1>2, <1>3, <1>5 DEF SessionInv, ApplicantsStay, Deletable
  <1> QED
    BY <1>4, <1>6, <1>7, <1>8 DEF SessionInv

\* A submission fails, or its answer is lost.
LEMMA SubmitFailsStep ==
  ASSUME SessionInv, SubmitFails
  PROVE  SessionInv'
  <1> DEFINE next == IF form.kind = "dealer" THEN [form EXCEPT !.pc = "undo"] ELSE NoForm
  <1>1. /\ form.pc = "submit" /\ form' = next
        /\ UNCHANGED <<accounts, firebase, screen, loading, load, leaving>>
        /\ \/ (Fault \/ Fine) /\ applied' = applied
           \/ /\ firebase # NoOne /\ faults < MaxFaults /\ faults' = faults + 1
              /\ lost' = TRUE /\ outdated' = outdated /\ applied' = applied \cup {firebase}
    BY DEF SubmitFails
  <1>2. next \in Form /\ (next.pc \in {"undo", "submit", "profile"} => form.kind = "dealer")
    BY SessionNames DEF Form, SessionInv, SessionTypeOK
  <1> HIDE DEF next
  <1>3. CASE (Fault \/ Fine) /\ applied' = applied
    <2>1. form' \in Form /\ leaving' \in BOOLEAN /\ (Deletable' => Deletable)
      BY <1>1, <1>2 DEF Deletable, SessionInv, SessionTypeOK
    <2> QED
      BY <1>1, <1>3, <2>1, QuietForm
  <1>4. CASE /\ firebase # NoOne /\ faults < MaxFaults /\ faults' = faults + 1
             /\ lost' = TRUE /\ outdated' = outdated /\ applied' = applied \cup {firebase}
    <2>1. faults' \in 0..MaxFaults /\ (faults > 0 => faults' > 0) /\ firebase \in Accounts
      BY <1>4, SizesAssumption, SessionNames DEF SessionInv, SessionTypeOK
    <2>2. SessionTypeOK' /\ LoadsHaveOne'
      BY <1>1, <1>2, <1>4, <2>1 DEF SessionInv, SessionTypeOK, LoadsHaveOne, Under, screen
    <2>3. CallbacksGoOn
      BY <1>1 DEF CallbacksGoOn, Under
    <2>4. ShownFollows' /\ CacheFollows'
      BY <1>1, <1>4, <2>1, <2>3, FollowsFrame DEF screen
    <2> QED
      BY <1>4, <2>2, <2>4 DEF SessionInv, ApplicantsStay
  <1> QED
    BY <1>1, <1>3, <1>4

\* Somebody signs in, or registers and is signed in.
LEMMA EnteringStep ==
  ASSUME SessionInv, NEW a \in Accounts,
         Login(a) \/ \E kind \in {"buyer", "dealer"} : Register(a, kind)
  PROVE  SessionInv'
  <1>1. CASE Login(a)
    <2>1. /\ a \in accounts /\ form' = [kind |-> "login", pc |-> "load"] /\ Arrives(a, TRUE)
          /\ outdated' = outdated /\ lost' = lost /\ faults' = faults /\ UNCHANGED <<accounts, leaving, applied>>
      BY <1>1 DEF Login, Fine, sessionHistory
    <2>2. load' \in [Loads -> Load] /\ LoadsHaveOne' /\ ShownFollows' /\ CacheFollows'
      BY <2>1, ArrivesFollows
    <2>3. form' \in Form /\ ~Deletable'
      BY <2>1 DEF Form, Deletable
    <2>4. SessionTypeOK'
      BY <2>1, <2>2, <2>3 DEF SessionInv, SessionTypeOK, Arrives, screen
    <2>5. ApplicantsStay'
      BY <2>1, <2>3, ApplicantsFrame
    <2> QED
      BY <2>2, <2>4, <2>5 DEF SessionInv
  <1>2. ASSUME NEW kind \in {"buyer", "dealer"}, Register(a, kind)
        PROVE  SessionInv'
    <2>1. /\ a \notin accounts /\ form' = [kind |-> kind, pc |-> "profile"] /\ Arrives(a, FALSE)
          /\ accounts' = accounts \cup {a}
          /\ outdated' = outdated /\ lost' = lost /\ faults' = faults /\ UNCHANGED <<leaving, applied>>
      BY <1>2 DEF Register, Fine, sessionHistory
    <2>2. load' \in [Loads -> Load] /\ LoadsHaveOne' /\ ShownFollows' /\ CacheFollows'
      BY <2>1, ArrivesFollows
    <2>3. form' \in Form /\ firebase' = a
      BY <2>1 DEF Form, Arrives
    <2>4. SessionTypeOK'
      BY <2>1, <2>2, <2>3 DEF SessionInv, SessionTypeOK, Arrives, screen
    <2>5. ApplicantsStay'
      BY <2>1, <2>3 DEF SessionInv, ApplicantsStay
    <2> QED
      BY <2>2, <2>4, <2>5 DEF SessionInv
  <1> QED
    BY <1>1, <1>2

\* The pages fetch as whoever is signed in.
LEMMA FetchStep ==
  ASSUME SessionInv, Fetch \/ FetchAnswers
  PROVE  SessionInv'
  <1>1. /\ UNCHANGED <<accounts, firebase, shown, loading, load, form, leaving, applied>>
        /\ outdated' = outdated /\ lost' = lost /\ faults' = faults
        /\ \/ fetching' = firebase /\ cache' = cache /\ firebase # NoOne
           \/ fetching # NoOne /\ fetching' = NoOne /\ cache' = cache \cup {fetching}
    BY DEF Fetch, FetchAnswers, Fine, sessionHistory
  <1>2. SessionTypeOK' /\ LoadsHaveOne'
    BY <1>1, SessionNames DEF SessionInv, SessionTypeOK, LoadsHaveOne, Under, AnyOne
  <1>3. CallbacksGoOn
    BY <1>1 DEF CallbacksGoOn, Under
  <1>4. ShownFollows' /\ CacheFollows'
    <2>1. CASE fetching # NoOne /\ fetching' = NoOne /\ cache' = cache \cup {fetching}
      BY <1>1, <1>3, <2>1, FollowsFrame
    <2>2. CASE fetching' = firebase /\ cache' = cache /\ firebase # NoOne
      <3>1. \A a : CallbackLoads(a) => CallbackLoads(a)'
        BY <1>3, CallbackStays
      <3>2. PICK me \in Accounts : me = firebase
        BY <2>2, SessionNames
      <3>3. ShownFollows'
        BY <1>1, <1>3, CallbackStays DEF SessionInv, ShownFollows
      <3>4. CacheFollows'
        <4> SUFFICES ASSUME ~outdated, shown.id # NoOne
                     PROVE  \/ cache' \cup {fetching'} \subseteq {shown.id, NoOne}
                            \/ \E a \in Accounts \ {shown.id} : CallbackLoads(a)'
          BY <1>1 DEF CacheFollows
        <4>1. CASE me # shown.id
          <5>1. CallbackLoads(firebase)
            BY <3>2, <4>1 DEF SessionInv, ShownFollows
          <5>2. CallbackLoads(me)
            BY <3>2, <5>1
          <5> QED
            BY <3>1, <4>1, <5>2
        <4>2. CASE me = shown.id /\ cache \cup {fetching} \subseteq {shown.id, NoOne}
          BY <2>2, <3>2, <4>2
        <4>3. CASE \E a \in Accounts \ {shown.id} : CallbackLoads(a)
          BY <3>1, <4>3
        <4> QED
          BY <4>1, <4>2, <4>3 DEF SessionInv, CacheFollows
      <3> QED
        BY <3>3, <3>4
    <2> QED
      BY <1>1, <2>1, <2>2
  <1>5. ApplicantsStay'
    BY <1>1, ApplicantsFrame DEF Deletable
  <1> QED
    BY <1>2, <1>4, <1>5 DEF SessionInv

\* At first nobody is shown, and the callback's load is under way for who is signed in.
LEMMA SessionStart ==
  ASSUME SessionInit
  PROVE  SessionInv
  <1> DEFINE mine(s) == s = 1 /\ firebase # NoOne
  <1>1. /\ firebase = NoOne \/ firebase \in Accounts
        /\ NoLoad \in Load /\ NoLoad.pc = "idle"
        /\ accounts = Existing /\ shown = Nobody /\ cache = {} /\ fetching = NoOne
        /\ load = [s \in Loads |-> IF mine(s) THEN Request("auth", firebase) ELSE NoLoad]
        /\ form = NoForm /\ leaving = FALSE /\ applied = {} /\ outdated = FALSE /\ lost = FALSE /\ faults = 0
        /\ NoForm \in Form /\ NoForm.kind = "none" /\ NoForm.pc = "idle"
    BY AccountsAssumption DEF SessionInit, NoForm, Form, NoLoad, Load, AnyOne
  <1>2. \A s \in Loads : mine(s) =>
          Request("auth", firebase) \in Load /\ Request("auth", firebase).id = firebase /\ firebase \in Accounts
          /\ Request("auth", firebase).pc = "user" /\ Request("auth", firebase).by = "auth"
    BY <1>1, RequestsAreLoads
  <1>3. firebase # NoOne => 1 \in Loads /\ mine(1)
    BY SizesAssumption DEF Loads
  <1> HIDE DEF mine
  <1>4. load \in [Loads -> Load] /\ LoadsHaveOne
    BY <1>1, <1>2 DEF LoadsHaveOne, Under
  <1>5. SessionTypeOK
    <2>1. loading \in BOOLEAN /\ firebase \in accounts \cup {NoOne}
      BY DEF SessionInit
    <2>2. shown \in [id : AnyOne, of : AnyOne] /\ shown.of = NoOne /\ shown.id = NoOne
      BY <1>1 DEF Nobody, AnyOne
    <2>3. accounts \subseteq Accounts /\ cache \subseteq Accounts /\ applied \subseteq Accounts /\ fetching \in AnyOne
      BY <1>1, AccountsAssumption DEF AnyOne
    <2>4. faults \in 0..MaxFaults
      BY <1>1, SizesAssumption
    <2>5. outdated \in BOOLEAN /\ lost \in BOOLEAN /\ leaving \in BOOLEAN /\ form \in Form
      BY <1>1
    <2> QED
      BY <1>4, <2>1, <2>2, <2>3, <2>4, <2>5 DEF SessionTypeOK
  <1>6. ShownFollows /\ CacheFollows
    <2>1. shown.id = NoOne
      BY <1>1 DEF Nobody
    <2>2. firebase # NoOne => CallbackLoads(firebase)
      BY <1>1, <1>2, <1>3 DEF CallbackLoads, Under
    <2> QED
      BY <2>1, <2>2 DEF ShownFollows, CacheFollows
  <1>7. ApplicantsStay
    BY <1>1 DEF ApplicantsStay
  <1> QED
    BY <1>4, <1>5, <1>6, <1>7 DEF SessionInv

\* Every step of the session keeps its invariant.
LEMMA SessionStep ==
  ASSUME SessionInv, SessionNext
  PROVE  SessionInv'
  <1>1. CASE \E s \in Loads : Answer(s)
    BY <1>1, AnswerArrives, UserFailsStep DEF Answer
  <1>2. CASE Continue
    BY <1>2, LeavingStep, ProfileStep, SubmitStep, SubmitFailsStep, UndoStep DEF Continue
  <1>3. CASE \E a \in Accounts : Login(a) \/ \E kind \in {"buyer", "dealer"} : Register(a, kind)
    BY <1>3, EnteringStep
  <1>4. CASE ApplyAsBuyer \/ Logout \/ LogoutDone \/ Fetch \/ FetchAnswers
    BY <1>4, WaitingStep, LeavingStep, FetchStep
  <1> QED
    BY <1>1, <1>2, <1>3, <1>4 DEF SessionNext

\* What the invariant means once every load and form has ended.
LEMMA SessionConsequence ==
  ASSUME SessionInv
  PROVE  SessionTypeOK /\ ShownIsSignedIn /\ CacheIsOwn /\ ApplicantExists
  <1>1. AtRest => \A a : ~CallbackLoads(a)
    BY DEF AtRest, CallbackLoads, Under, Free
  <1>2. ShownIsSignedIn
    BY <1>1 DEF SessionInv, ShownFollows, ShownIsSignedIn
  <1>3. CacheIsOwn
    <2> SUFFICES ASSUME ~outdated, AtRest, shown.id # NoOne, NEW c \in cache
                 PROVE  c = shown.id
      BY DEF CacheIsOwn
    <2>1. cache \subseteq {shown.id, NoOne} /\ c \in Accounts
      BY <1>1 DEF SessionInv, CacheFollows, SessionTypeOK
    <2> QED
      BY <2>1, AccountsAssumption
  <1> QED
    BY <1>2, <1>3 DEF SessionInv, ApplicantsStay, ApplicantExists

-----------------------------------------------------------------------------
(* What surrounds the pages. *)

\* The status page waits for the application of whoever is signed in.
AskedIsOwn == asking # Stranger /\ who # Stranger => asking = who
\* A profile being saved is not ahead of the form.
SavedWasTyped == savingProfile > 0 => typedIn >= savingProfile
ShellInv ==
  /\ ShellTypeOK /\ StatusIsOwn /\ AskedIsOwn /\ BannerIsTrue /\ ScrollIsFree
  /\ FieldsAreCurrent /\ SavedWasTyped

\* A page that is left leaves the profile, saved or not.
LEMMA LeaveProfileStep ==
  ASSUME ShellInv, LeaveProfile
  PROVE  /\ profile' \in 0..(MaxTyped + 1) /\ typedIn' = 0 /\ savingProfile' = 0 /\ note' = "none"
         /\ FieldsAreCurrent' /\ SavedWasTyped'
  BY ShellAssumption DEF ShellInv, ShellTypeOK, LeaveProfile, FieldsAreCurrent, SavedWasTyped

\* A page that is mounted asks for whoever is signed in, and closes the drawer.
LEMMA MountStep ==
  ASSUME ShellInv, NEW p \in Places, Mount(p), who' \in People \cup {Stranger}
  PROVE  /\ place' \in Places /\ asking' \in People \cup {Stranger} /\ told' \in Told
         /\ drawer' = FALSE /\ locked' = FALSE
         /\ profile' \in 0..(MaxTyped + 1) /\ typedIn' = 0 /\ savingProfile' = 0 /\ note' = "none"
         /\ StatusIsOwn' /\ AskedIsOwn' /\ ScrollIsFree' /\ FieldsAreCurrent' /\ SavedWasTyped'
  <1>1. Untold \in Told /\ Untold.of = Stranger
    BY DEF Untold, Told, Standings
  <1>2. /\ place' = p /\ asking' \in {who', Stranger} /\ told' = Untold /\ drawer' = FALSE /\ locked' = FALSE
    BY DEF Mount
  <1>3. LeaveProfile
    BY DEF Mount
  <1> QED
    BY <1>1, <1>2, <1>3, LeaveProfileStep DEF StatusIsOwn, AskedIsOwn, ScrollIsFree

\* Mounting keeps the types, if the guard's state and the banner's keep theirs.
LEMMA MountTypes ==
  ASSUME ShellInv, NEW p \in Places, Mount(p), who' \in People \cup {Stranger},
         standing' = standing, confirmed' = confirmed, checking' = checking, crossed' = crossed,
         shellFaults' = shellFaults,
         loadedAs' \in Standings \cup {"none"}, silent' \in BOOLEAN,
         signIns' \in 0..MaxSignIns, visits' \in 0..MaxVisits
  PROVE  ShellTypeOK'
  <1>1. /\ place' \in Places /\ asking' \in People \cup {Stranger} /\ told' \in Told
        /\ drawer' = FALSE /\ locked' = FALSE
        /\ profile' \in 0..(MaxTyped + 1) /\ typedIn' = 0 /\ savingProfile' = 0 /\ note' = "none"
    BY MountStep
  <1>2. {profile', typedIn', savingProfile'} \subseteq 0..(MaxTyped + 1)
    BY <1>1, ShellAssumption
  <1>3. /\ standing' \in [People -> Standings] /\ confirmed' \subseteq People
        /\ checking' \in People \cup {Stranger} /\ crossed' \in BOOLEAN /\ shellFaults' \in 0..MaxShellFaults
    BY DEF ShellInv, ShellTypeOK
  <1> QED
    BY <1>1, <1>2, <1>3 DEF ShellTypeOK

\* Failures are counted up to their bound.
LEMMA ShellFaultStep ==
  ASSUME ShellTypeOK, ShellFault \/ ShellFine
  PROVE  shellFaults' \in 0..MaxShellFaults
  BY ShellAssumption DEF ShellTypeOK, ShellFault, ShellFine

\* Going to another page, by a link or because the guard redirects.
LEMMA GoingStep ==
  ASSUME ShellInv, Redirect \/ \E p \in Places : Visit(p)
  PROVE  ShellInv'
  <1>1. PICK p \in Places : Mount(p)
    BY DEF Redirect, Visit, Places, DealerPages
  <1>2. /\ UNCHANGED <<who, standing, confirmed, loadedAs, signIns, silent, checking, crossed, shellFaults>>
        /\ visits' \in 0..MaxVisits
    BY ShellAssumption DEF Redirect, Visit, ShellFine, bannerVars, ShellInv, ShellTypeOK
  <1>3. who' \in People \cup {Stranger}
    BY <1>2 DEF ShellInv, ShellTypeOK
  <1>4. ShellTypeOK'
    <2>1. loadedAs' \in Standings \cup {"none"} /\ silent' \in BOOLEAN /\ signIns' \in 0..MaxSignIns
      BY <1>2 DEF ShellInv, ShellTypeOK
    <2> QED
      BY <1>1, <1>2, <1>3, <2>1, MountTypes
  <1>5. BannerIsTrue'
    BY <1>2 DEF ShellInv, BannerIsTrue
  <1> QED
    BY <1>1, <1>3, <1>4, <1>5, MountStep DEF ShellInv

\* Signing in leads to the page of one's standing.
LEMMA SignInStep ==
  ASSUME ShellInv, NEW p \in People, SignIn(p)
  PROVE  ShellInv'
  <1>1. standing[p] \in Standings /\ StartPage(standing[p]) \in Places
    BY DEF ShellInv, ShellTypeOK, StartPage, Places, DealerPages, Standings
  <1>2. /\ who' = p /\ loadedAs' = standing[p] /\ silent' = (p \in confirmed)
        /\ UNCHANGED <<standing, confirmed, visits, checking, crossed, shellFaults>>
        /\ signIns' \in 0..MaxSignIns /\ Mount(StartPage(standing[p]))
    BY ShellAssumption DEF SignIn, ShellFine, ShellInv, ShellTypeOK
  <1>3. ShellTypeOK'
    <2>1. silent' \in BOOLEAN /\ who' \in People \cup {Stranger} /\ loadedAs' \in Standings \cup {"none"}
      BY <1>1, <1>2
    <2> QED
      <3>1. visits' \in 0..MaxVisits
        BY <1>2 DEF ShellInv, ShellTypeOK
      <3> QED
        BY <1>1, <1>2, <2>1, <3>1, MountTypes
  <1>4. BannerIsTrue'
    BY <1>2 DEF BannerIsTrue
  <1> QED
    BY <1>1, <1>2, <1>3, <1>4, MountStep DEF ShellInv

\* Signing out leaves the portals.
LEMMA SignOutStep ==
  ASSUME ShellInv, SignOutOfPortal
  PROVE  ShellInv'
  <1>1. /\ who' = Stranger /\ loadedAs' = "none" /\ silent' = TRUE
        /\ UNCHANGED <<standing, confirmed, signIns, visits, checking, crossed, shellFaults>>
    BY DEF SignOutOfPortal, ShellFine
  <1>2. CASE InPortal
    <2>1. Mount("login") /\ "login" \in Places /\ who' \in People \cup {Stranger}
      BY <1>1, <1>2 DEF SignOutOfPortal, Places
    <2>2. ShellTypeOK'
      <3>1. loadedAs' \in Standings \cup {"none"} /\ silent' \in BOOLEAN /\ signIns' \in 0..MaxSignIns
            /\ visits' \in 0..MaxVisits
        BY <1>1 DEF ShellInv, ShellTypeOK
      <3> QED
        BY <1>1, <2>1, <3>1, MountTypes
    <2> QED
      BY <1>1, <2>1, <2>2, MountStep DEF ShellInv, BannerIsTrue
  <1>3. CASE ~InPortal
    <2>1. UNCHANGED <<place, statusVars, drawerVars, profileVars>>
      BY <1>3 DEF SignOutOfPortal
    <2>2. ShellTypeOK'
      BY <1>1, <2>1 DEF ShellInv, ShellTypeOK, statusVars, drawerVars, profileVars
    <2>3. ScrollIsFree'
      BY <1>3, <2>1 DEF ShellInv, ScrollIsFree, drawerVars
    <2>4. FieldsAreCurrent' /\ SavedWasTyped'
      BY <2>1 DEF ShellInv, FieldsAreCurrent, SavedWasTyped, profileVars
    <2> QED
      BY <1>1, <2>2, <2>3, <2>4 DEF ShellInv, StatusIsOwn, AskedIsOwn, BannerIsTrue
  <1> QED
    BY <1>2, <1>3

\* The guard's state as it was, what it decides stays too.
LEMMA GuardFrame ==
  ASSUME ShellInv, UNCHANGED <<place, loadedAs, drawerVars>>
  PROVE  ScrollIsFree'
  BY DEF ShellInv, ScrollIsFree, drawerVars, InPortal, Passes

\* Reviews and the status page.
LEMMA StatusStep ==
  ASSUME ShellInv, StatusArrives \/ StatusIgnored \/ \E p \in People : Reviewed(p)
  PROVE  ShellInv'
  <1>1. shellFaults' \in 0..MaxShellFaults
    BY ShellFaultStep DEF StatusArrives, StatusIgnored, Reviewed, ShellInv
  <1>2. CASE StatusArrives \/ StatusIgnored
    <2>1. /\ asking # Stranger /\ asking' = Stranger
          /\ told' = told \/ told' = [of |-> asking, as |-> standing[asking]]
          /\ UNCHANGED <<guardVars, bannerVars, drawerVars, profileVars>>
      BY <1>2 DEF StatusArrives, StatusIgnored
    <2>2. asking \in People /\ standing[asking] \in Standings
      BY <2>1 DEF ShellInv, ShellTypeOK
    <2> DEFINE new == [of |-> asking, as |-> standing[asking]]
    <2>3. new \in Told /\ new.of = asking
      BY <2>2 DEF Told
    <2>4. told' = told \/ told' = new
      BY <2>1
    <2> HIDE DEF new
    <2>5. ShellTypeOK'
      BY <1>1, <2>1, <2>3, <2>4 DEF ShellInv, ShellTypeOK, guardVars, bannerVars, drawerVars, profileVars
    <2>6. StatusIsOwn' /\ AskedIsOwn' /\ BannerIsTrue'
      BY <2>1, <2>3, <2>4 DEF ShellInv, StatusIsOwn, AskedIsOwn, BannerIsTrue, guardVars, bannerVars
    <2>7. ScrollIsFree' /\ FieldsAreCurrent' /\ SavedWasTyped'
      BY <2>1, GuardFrame DEF ShellInv, FieldsAreCurrent, SavedWasTyped, guardVars, profileVars
    <2> QED
      BY <2>5, <2>6, <2>7 DEF ShellInv
  <1>3. ASSUME NEW p \in People, Reviewed(p)
        PROVE  ShellInv'
    <2>1. /\ visits' \in 0..MaxVisits
          /\ UNCHANGED <<confirmed, who, loadedAs, place, signIns, statusVars, bannerVars, drawerVars, profileVars>>
      BY <1>3, ShellAssumption DEF Reviewed, ShellInv, ShellTypeOK
    <2>2. standing' \in [People -> Standings]
      BY <1>3 DEF Reviewed, ShellInv, ShellTypeOK, Standings
    <2>3. ShellTypeOK'
      BY <1>1, <2>1, <2>2 DEF ShellInv, ShellTypeOK, statusVars, bannerVars, drawerVars, profileVars
    <2>4. StatusIsOwn' /\ AskedIsOwn' /\ BannerIsTrue'
      BY <2>1 DEF ShellInv, StatusIsOwn, AskedIsOwn, BannerIsTrue, statusVars, bannerVars
    <2>5. ScrollIsFree' /\ FieldsAreCurrent' /\ SavedWasTyped'
      BY <2>1, GuardFrame DEF ShellInv, FieldsAreCurrent, SavedWasTyped, profileVars
    <2> QED
      BY <2>3, <2>4, <2>5 DEF ShellInv
  <1> QED
    BY <1>2, <1>3

\* Addresses are verified, and checked.
LEMMA BannerStep ==
  ASSUME ShellInv,
         \/ VerificationAnswers \/ VerificationFails \/ IHaveVerified
         \/ \E p \in People : OpensLink(p)
  PROVE  ShellInv'
  <1>1. shellFaults' \in 0..MaxShellFaults
    BY ShellFaultStep DEF VerificationAnswers, VerificationFails, IHaveVerified, OpensLink, ShellInv
  <1>2. /\ UNCHANGED <<standing, who, loadedAs, place, signIns, visits, statusVars, drawerVars, profileVars>>
        /\ confirmed \subseteq confirmed' /\ confirmed' \subseteq People
        /\ checking' \in People \cup {Stranger}
    BY DEF VerificationAnswers, VerificationFails, IHaveVerified, OpensLink, guardVars, bannerVars, ShellInv, ShellTypeOK
  <1>3. \/ silent' = silent /\ crossed' = crossed
        \/ silent' = TRUE /\ crossed' = (crossed \/ checking # who) /\ checking \in confirmed
    BY DEF VerificationAnswers, VerificationFails, IHaveVerified, OpensLink, bannerVars
  <1>4. silent' \in BOOLEAN /\ crossed' \in BOOLEAN
    BY <1>3 DEF ShellInv, ShellTypeOK
  <1>5. ShellTypeOK'
    BY <1>1, <1>2, <1>4 DEF ShellInv, ShellTypeOK, statusVars, drawerVars, profileVars
  <1>6. BannerIsTrue'
    BY <1>2, <1>3 DEF ShellInv, BannerIsTrue
  <1>7. StatusIsOwn' /\ AskedIsOwn'
    BY <1>2 DEF ShellInv, StatusIsOwn, AskedIsOwn, statusVars
  <1>8. ScrollIsFree' /\ FieldsAreCurrent' /\ SavedWasTyped'
    BY <1>2, GuardFrame DEF ShellInv, FieldsAreCurrent, SavedWasTyped, profileVars
  <1> QED
    BY <1>5, <1>6, <1>7, <1>8 DEF ShellInv

\* The profile's form, and the drawer.
LEMMA PortalStep ==
  ASSUME ShellInv,
         \/ ProfileSaved \/ ProfileNotSaved \/ ProfileArrives \/ TypeField \/ SaveForm \/ ToggleDrawer
  PROVE  ShellInv'
  <1>1. shellFaults' \in 0..MaxShellFaults
    BY ShellFaultStep DEF ProfileSaved, ProfileNotSaved, ProfileArrives, TypeField, SaveForm, ToggleDrawer, ShellInv
  <1>2. UNCHANGED <<guardVars, statusVars, bannerVars>>
    BY DEF ProfileSaved, ProfileNotSaved, ProfileArrives, TypeField, SaveForm, ToggleDrawer
  <1>3. StatusIsOwn' /\ AskedIsOwn' /\ BannerIsTrue'
    BY <1>2 DEF ShellInv, StatusIsOwn, AskedIsOwn, BannerIsTrue, guardVars, statusVars, bannerVars
  <1>4. drawer' \in BOOLEAN /\ locked' \in BOOLEAN /\ ScrollIsFree'
    <2>1. CASE ToggleDrawer
      <3>1. InPortal' = InPortal
        BY <1>2 DEF InPortal, Passes, guardVars
      <3> QED
        BY <2>1, <3>1 DEF ToggleDrawer, ScrollIsFree, ShellInv, ShellTypeOK
    <2>2. CASE UNCHANGED drawerVars
      BY <1>2, <2>2, GuardFrame DEF guardVars, drawerVars, ShellInv, ShellTypeOK
    <2> QED
      BY <2>1, <2>2 DEF ProfileSaved, ProfileNotSaved, ProfileArrives, TypeField, SaveForm
  <1>5. {profile, typedIn, savingProfile} \subseteq 0..(MaxTyped + 1) /\ MaxTyped \in Nat
    BY ShellAssumption DEF ShellInv, ShellTypeOK
  <1>6. /\ {profile', typedIn', savingProfile'} \subseteq 0..(MaxTyped + 1)
        /\ note' \in {"none", "saved", "failed"}
    BY <1>5 DEF ProfileSaved, ProfileNotSaved, ProfileArrives, TypeField, SaveForm, ToggleDrawer, profileVars,
       ShellInv, ShellTypeOK
  <1>7. FieldsAreCurrent' /\ SavedWasTyped'
    BY <1>5 DEF ProfileSaved, ProfileNotSaved, ProfileArrives, TypeField, SaveForm, ToggleDrawer, profileVars,
       ShellInv, FieldsAreCurrent, SavedWasTyped
  <1>8. ShellTypeOK'
    BY <1>1, <1>2, <1>4, <1>6 DEF ShellInv, ShellTypeOK, guardVars, statusVars, bannerVars
  <1> QED
    BY <1>3, <1>4, <1>7, <1>8 DEF ShellInv

\* At first nobody is signed in.
LEMMA ShellStart ==
  ASSUME ShellInit
  PROVE  ShellInv
  <1>1. Untold \in Told /\ Untold.of = Stranger
    BY DEF Untold, Told, Standings
  <1>2. {profile, typedIn, savingProfile} \subseteq 0..(MaxTyped + 1)
    BY ShellAssumption DEF ShellInit
  <1>3. signIns \in 0..MaxSignIns /\ visits \in 0..MaxVisits /\ shellFaults \in 0..MaxShellFaults
    <2>1. signIns = 0 /\ visits = 0 /\ shellFaults = 0
      BY DEF ShellInit
    <2>2. MaxSignIns \in Nat /\ MaxVisits \in Nat /\ MaxShellFaults \in Nat
      BY ShellAssumption
    <2> QED
      BY <2>1, <2>2
  <1>4. ShellTypeOK
    BY <1>1, <1>2, <1>3, ShellAssumption DEF ShellInit, ShellTypeOK, Places
  <1>5. StatusIsOwn /\ AskedIsOwn /\ BannerIsTrue
    BY <1>1 DEF ShellInit, StatusIsOwn, AskedIsOwn, BannerIsTrue
  <1>6. ScrollIsFree
    BY DEF ShellInit, ScrollIsFree
  <1>7. FieldsAreCurrent /\ SavedWasTyped
    BY DEF ShellInit, FieldsAreCurrent, SavedWasTyped
  <1> QED
    BY <1>4, <1>5, <1>6, <1>7 DEF ShellInv

\* Every step around the pages keeps the invariant.
LEMMA ShellStep ==
  ASSUME ShellInv, ShellNext
  PROVE  ShellInv'
  <1>1. CASE \E p \in People : SignIn(p)
    BY <1>1, SignInStep
  <1>2. CASE Redirect \/ \E p \in Places : Visit(p)
    BY <1>2, GoingStep
  <1>3. CASE SignOutOfPortal
    BY <1>3, SignOutStep
  <1>4. CASE StatusArrives \/ StatusIgnored \/ \E p \in People : Reviewed(p)
    BY <1>4, StatusStep
  <1>5. CASE VerificationAnswers \/ VerificationFails \/ IHaveVerified \/ \E p \in People : OpensLink(p)
    BY <1>5, BannerStep
  <1>6. CASE ProfileSaved \/ ProfileNotSaved \/ ProfileArrives \/ TypeField \/ SaveForm \/ ToggleDrawer
    BY <1>6, PortalStep
  <1> QED
    BY <1>1, <1>2, <1>3, <1>4, <1>5, <1>6 DEF ShellNext, ShellAnswers

-----------------------------------------------------------------------------
(* The application form. *)

\* A stored application is being told of, as long as the form is shown.
StoredGoesOn ==
  \A u \in Applicants : status[u] = "pending" /\ ~excused /\ regAt = "form" => sending.pc \in {"signOut", "refresh"}
\* An active effect is one of the form shown, for whoever is signed in.
ActiveIsOwn == \A l \in lookups : l.active => l.of = regUser /\ regAt = "form"
RegInv == RegTypeOK /\ StoredGoesOn /\ ActiveIsOwn

\* Nobody is an applicant and on the staff.
LEMMA VisitorsDiffer ==
  Staff \cap Applicants = {} /\ Anonymous \notin Applicants /\ Newcomer \in Applicants /\ Refused \subseteq Applicants
  BY VisitorsAssumption DEF Applicants

\* A lookup that has ended asks for the same applicant as before.
LEMMA EndedLookups ==
  ASSUME lookups \subseteq [of : Applicants, active : BOOLEAN]
  PROVE  /\ Ended \subseteq [of : Applicants, active : BOOLEAN]
         /\ \A l \in Ended : ~l.active
  BY DEF Ended

\* The effect of a render begins with the user of that render, and the effects before it end.
LEMMA EffectStep ==
  ASSUME RegInv, NEW mode \in Modes, NEW user \in Applicants \cup Staff \cup {Anonymous},
         Effect(mode, user), regUser' = user
  PROVE  /\ lookups' \subseteq [of : Applicants, active : BOOLEAN] /\ ActiveIsOwn'
         /\ regAt' \in {"form", "status", "marketplace", "portal", "elsewhere"}
         /\ regAt' = "form" => regAt = "form"
  <1>1. lookups \subseteq [of : Applicants, active : BOOLEAN]
    BY DEF RegInv, RegTypeOK
  <1>2. CASE regAt # "form"
    BY <1>1, <1>2 DEF Effect, RegInv, RegTypeOK, ActiveIsOwn
  <1>3. CASE regAt = "form"
    <2> DEFINE fresh == {[of |-> u, active |-> TRUE] : u \in IF mode = "dealer" THEN {user} \cap Applicants ELSE {}}
    <2>1. lookups' = Ended \cup fresh /\ regAt' = IF mode = "dealer" /\ user \in Staff THEN "portal" ELSE "form"
      BY <1>3 DEF Effect
    <2>2. fresh \subseteq [of : Applicants, active : BOOLEAN]
          /\ \A l \in fresh : l.of = user /\ mode = "dealer" /\ user \in Applicants
      <3> DEFINE found == IF mode = "dealer" THEN {user} \cap Applicants ELSE {}
      <3>1. \A u \in found : u = user /\ mode = "dealer" /\ user \in Applicants
        OBVIOUS
      <3>2. fresh = {[of |-> u, active |-> TRUE] : u \in found}
        OBVIOUS
      <3> HIDE DEF found, fresh
      <3>3. \A l \in fresh : \E u \in found : l = [of |-> u, active |-> TRUE]
        BY <3>2
      <3>4. \A u \in Applicants : /\ [of |-> u, active |-> TRUE] \in [of : Applicants, active : BOOLEAN]
                                 /\ [of |-> u, active |-> TRUE].of = u
        OBVIOUS
      <3>5. ASSUME NEW l \in fresh
            PROVE  l \in [of : Applicants, active : BOOLEAN] /\ l.of = user /\ mode = "dealer" /\ user \in Applicants
        <4>1. PICK u \in found : l = [of |-> u, active |-> TRUE]
          BY <3>3
        <4>2. u = user /\ mode = "dealer" /\ u \in Applicants
          BY <3>1
        <4> QED
          BY <3>4, <4>1, <4>2
      <3> QED
        BY <3>5
    <2> HIDE DEF fresh
    <2>3. \A l \in lookups' : l.active => l \in fresh
      BY <2>1, <1>1, EndedLookups
    <2>4. ActiveIsOwn'
      BY <2>1, <2>2, <2>3, VisitorsDiffer DEF ActiveIsOwn
    <2> QED
      BY <1>1, <1>3, <2>1, <2>2, <2>4, EndedLookups
  <1> QED
    BY <1>2, <1>3

\* A fault is counted, up to the bound.
LEMMA RegFaults ==
  ASSUME RegTypeOK, RegFault \/ NoFault
  PROVE  regFaults' \in 0..MaxRegFaults
  BY RegBoundsAssumption DEF RegTypeOK, RegFault, NoFault

\* At first no application of the tab is stored.
LEMMA RegStart ==
  ASSUME RegInit
  PROVE  RegInv
  <1>1. 0 \in 0..MaxRegFaults /\ 0 \in 0..MaxSwitches
    BY RegBoundsAssumption
  <1>2. status \in [Applicants -> {"none", "pending", "rejected"}] /\ \A u \in Applicants : status[u] # "pending"
    BY DEF RegInit
  <1>3. NotSending \in Sending
    BY DEF NotSending, Sending
  <1> QED
    BY <1>1, <1>2, <1>3 DEF RegInit, RegInv, RegTypeOK, StoredGoesOn, ActiveIsOwn, Modes

\* A change of the user, or the move to a dealer's form, runs the effect again.
LEMMA UserStep ==
  ASSUME RegInv, UserChanges \/ ApplyAsDealer
  PROVE  RegInv'
  <1>1. CASE UserChanges
    <2>1. PICK user \in Applicants \cup Staff \cup {Anonymous} : UserBecomes(user)
      BY <1>1 DEF UserChanges, Applicants
    <2>2. regMode \in Modes /\ regUser' = user /\ Effect(regMode, user)
      BY <2>1 DEF UserBecomes, RegInv, RegTypeOK
    <2>3. switches' \in 0..MaxSwitches
      BY <1>1, RegBoundsAssumption DEF UserChanges, RegInv, RegTypeOK
    <2>4. /\ lookups' \subseteq [of : Applicants, active : BOOLEAN] /\ ActiveIsOwn'
          /\ regAt' \in {"form", "status", "marketplace", "portal", "elsewhere"}
          /\ regAt' = "form" => regAt = "form"
      BY <2>2, EffectStep
    <2>5. UNCHANGED <<regPage, sending, status, excused, regFaults>>
      BY <1>1 DEF UserChanges
    <2>6. StoredGoesOn'
      BY <2>4, <2>5 DEF StoredGoesOn, RegInv
    <2>7. RegTypeOK'
      BY <2>2, <2>3, <2>4, <2>5 DEF RegInv, RegTypeOK, regPage
    <2> QED
      BY <2>4, <2>6, <2>7 DEF RegInv
  <1>2. CASE ApplyAsDealer
    <2>1. "dealer" \in Modes /\ regUser \in Applicants \cup Staff \cup {Anonymous} /\ regUser' = regUser
          /\ Effect("dealer", regUser) /\ regMode' = "dealer"
          /\ UNCHANGED <<answers, answersOf, passwords, documents, regError, sending, status, excused, regFaults, switches>>
      BY <1>2 DEF ApplyAsDealer, RegInv, RegTypeOK, Modes
    <2>2. /\ lookups' \subseteq [of : Applicants, active : BOOLEAN] /\ ActiveIsOwn'
          /\ regAt' \in {"form", "status", "marketplace", "portal", "elsewhere"}
          /\ regAt' = "form" => regAt = "form"
      BY <2>1, EffectStep
    <2>3. StoredGoesOn'
      BY <2>1, <2>2 DEF StoredGoesOn, RegInv
    <2>4. RegTypeOK'
      BY <2>1, <2>2 DEF RegInv, RegTypeOK
    <2> QED
      BY <2>2, <2>3, <2>4 DEF RegInv
  <1> QED
    BY <1>1, <1>2

\* The answer to a lookup is shown for the user it was asked for, who is still signed in.
LEMMA LookupStepKeeps ==
  ASSUME RegInv, NEW l \in lookups, LookupStep(l)
  PROVE  RegInv' /\ (answersOf' # answersOf => answersOf' = regUser)
  <1>1. PICK found \in {"none", "pending", "rejected"} : LookupEnds(l, found) /\ (NoFault \/ RegFault)
    BY DEF LookupStep, LookupAnswers, LookupFails, RegInv, RegTypeOK
  <1> DEFINE here == l.active /\ regAt = "form"
  <1>2. /\ lookups' = lookups \ {l} /\ l \in [of : Applicants, active : BOOLEAN]
        /\ regAt' = (IF here /\ found = "pending" THEN "status" ELSE regAt)
        /\ UNCHANGED <<regMode, regUser, passwords, documents, regError, sending, status, excused, switches>>
    BY <1>1 DEF LookupEnds, RegInv, RegTypeOK
  <1>3. /\ answers' \in {"blank", "account", "typed", "previous"}
        /\ answersOf' = answersOf \/ (here /\ answersOf' = l.of)
    BY <1>1 DEF LookupEnds, RegInv, RegTypeOK
  <1>4. here => l.of = regUser
    BY DEF RegInv, ActiveIsOwn
  <1>5. \A k \in lookups : k.active /\ here => k = l
    BY DEF RegInv, RegTypeOK, ActiveIsOwn
  <1>6. ActiveIsOwn' /\ (regAt' = "form" => regAt = "form")
    BY <1>2, <1>5 DEF RegInv, ActiveIsOwn
  <1>7. StoredGoesOn'
    BY <1>2, <1>6 DEF RegInv, StoredGoesOn
  <1>8. regFaults' \in 0..MaxRegFaults
    BY <1>1, RegFaults DEF RegInv
  <1>9. RegTypeOK'
    BY <1>2, <1>3, <1>8 DEF RegInv, RegTypeOK
  <1> QED
    BY <1>3, <1>4, <1>6, <1>7, <1>9 DEF RegInv

\* The fields are filled and checked, and the page is left, without a request.
LEMMA FillStep ==
  ASSUME RegInv, Fill \/ LeaveForm \/ SubmitForm
  PROVE  RegInv'
  <1>1. CASE Fill
    <2>1. UNCHANGED <<regUser, lookups, sending, regAt, status, excused, regFaults, switches, regMode, answersOf, regError>>
      BY <1>1 DEF Fill, TypeAnswers, TypePassword, ChooseDocument
    <2>2. /\ answers' \in {"blank", "account", "typed", "previous"}
          /\ passwords' \in [Modes -> {"blank", "short", "different", "good"}] /\ documents' \subseteq Documents
      BY <1>1 DEF Fill, TypeAnswers, TypePassword, ChooseDocument, RegInv, RegTypeOK
    <2> QED
      BY <2>1, <2>2 DEF RegInv, RegTypeOK, StoredGoesOn, ActiveIsOwn
  <1>2. CASE LeaveForm
    <2>1. /\ regAt' = "elsewhere" /\ lookups' = Ended
          /\ UNCHANGED <<regPage, regUser, sending, status, excused, regFaults, switches>>
      BY <1>2 DEF LeaveForm
    <2>2. lookups' \subseteq [of : Applicants, active : BOOLEAN] /\ ActiveIsOwn'
      BY <2>1, EndedLookups DEF RegInv, RegTypeOK, ActiveIsOwn
    <2> QED
      BY <2>1, <2>2 DEF RegInv, RegTypeOK, StoredGoesOn, regPage
  <1>3. CASE SubmitForm
    <2>1. /\ regAt = "form" /\ sending = NotSending
          /\ UNCHANGED <<regMode, answers, answersOf, passwords, documents, regUser, lookups, regAt, status, excused,
                         regFaults, switches>>
      BY <1>3 DEF SubmitForm
    <2>2. sending' \in Sending
      BY <1>3 DEF SubmitForm, Sending, NotSending
    <2>3. regError' \in BOOLEAN
      BY <1>3 DEF SubmitForm
    <2>4. StoredGoesOn'
      BY <2>1 DEF RegInv, StoredGoesOn, NotSending
    <2> QED
      BY <2>1, <2>2, <2>3, <2>4 DEF RegInv, RegTypeOK, ActiveIsOwn
  <1> QED
    BY <1>1, <1>2, <1>3

\* A registration goes on to a profile or to an application, or is refused.
LEMMA RegisterStep ==
  ASSUME RegInv, RegisterAccount \/ BuyerRegistered
  PROVE  RegInv'
  <1>1. sending.pc \in {"register", "profile"} /\ UNCHANGED <<status, excused>> /\ SameFields
    BY DEF RegisterAccount, BuyerRegistered
  <1>2. sending' \in Sending /\ regError' \in BOOLEAN
    <2> DEFINE pc == IF sending.kind = "buyer" THEN "profile" ELSE "apply"
    <2>1. NotSending \in Sending /\ sending \in Sending /\ regError \in BOOLEAN
      BY DEF RegInv, RegTypeOK, Sending, NotSending
    <2>2. pc \in {"profile", "apply"}
      OBVIOUS
    <2>3. \/ sending' = [sending EXCEPT !.pc = pc] /\ regError' = regError
          \/ sending' = NotSending /\ regError' \in {regError, TRUE}
      BY DEF RegisterAccount, BuyerRegistered, EndsWithError, SentTo
    <2> HIDE DEF pc
    <2>4. [sending EXCEPT !.pc = pc] \in Sending
      BY <2>1, <2>2 DEF Sending
    <2> QED
      BY <2>1, <2>3, <2>4
  <1>3. regFaults' \in 0..MaxRegFaults
    BY RegFaults DEF RegisterAccount, BuyerRegistered, RegInv
  <1>4. \/ UNCHANGED <<regUser, lookups, regAt>>
        \/ regAt' = "marketplace" /\ regUser' = Newcomer /\ lookups' = Ended
    BY DEF RegisterAccount, BuyerRegistered, SentTo
  <1>5. /\ lookups' \subseteq [of : Applicants, active : BOOLEAN] /\ ActiveIsOwn'
        /\ regUser' \in Applicants \cup Staff \cup {Anonymous}
        /\ regAt' \in {"form", "status", "marketplace", "portal", "elsewhere"} /\ (regAt' = "form" => regAt = "form")
    BY <1>4, EndedLookups, VisitorsDiffer DEF RegInv, RegTypeOK, ActiveIsOwn
  <1>6. StoredGoesOn'
    BY <1>1, <1>5 DEF RegInv, StoredGoesOn
  <1>7. RegTypeOK'
    BY <1>1, <1>2, <1>3, <1>5 DEF RegInv, RegTypeOK, SameFields
  <1> QED
    BY <1>5, <1>6, <1>7 DEF RegInv

\* An application that is stored is told of, and one that fails stores nothing, or is excused.
LEMMA ApplyStep ==
  ASSUME RegInv, ApplicationStored \/ ApplicationFails
  PROVE  RegInv'
  <1>1. sending.pc = "apply" /\ SameFields
    BY DEF ApplicationStored, ApplicationFails
  <1>2. regFaults' \in 0..MaxRegFaults
    BY RegFaults DEF ApplicationStored, ApplicationFails, RegInv
  <1>3. CASE ApplicationStored
    <2>1. UNCHANGED <<regUser, lookups, regAt, regError, excused>> /\ sending' \in Sending
          /\ sending'.pc \in {"signOut", "refresh"}
      BY <1>3 DEF ApplicationStored, RegInv, RegTypeOK, Sending
    <2>2. status' \in [Applicants -> {"none", "pending", "rejected"}]
      BY <1>3 DEF ApplicationStored, RegInv, RegTypeOK
    <2>3. StoredGoesOn' /\ ActiveIsOwn'
      BY <2>1 DEF RegInv, StoredGoesOn, ActiveIsOwn
    <2> QED
      BY <1>1, <1>2, <2>1, <2>2, <2>3 DEF RegInv, RegTypeOK, SameFields
  <1>4. CASE ApplicationFails
    <2>1. sending' \in Sending /\ regError' \in BOOLEAN
      BY <1>4 DEF ApplicationFails, EndsWithError, Sending, NotSending
    <2>2. /\ status' \in [Applicants -> {"none", "pending", "rejected"}] /\ excused' \in BOOLEAN
          /\ excused' \/ UNCHANGED <<status, excused>>
      BY <1>4 DEF ApplicationFails, RegInv, RegTypeOK
    <2>3. UserBecomes(Anonymous) \/ UNCHANGED <<regUser, lookups, regAt>>
      BY <1>4 DEF ApplicationFails
    <2>4. /\ lookups' \subseteq [of : Applicants, active : BOOLEAN] /\ ActiveIsOwn'
          /\ regUser' \in Applicants \cup Staff \cup {Anonymous}
          /\ regAt' \in {"form", "status", "marketplace", "portal", "elsewhere"} /\ (regAt' = "form" => regAt = "form")
      <3>1. CASE UserBecomes(Anonymous)
        <4>1. Anonymous \in Applicants \cup Staff \cup {Anonymous} /\ regMode \in Modes
              /\ regUser' = Anonymous /\ Effect(regMode, Anonymous)
          BY <3>1 DEF UserBecomes, RegInv, RegTypeOK
        <4> QED
          BY <4>1, EffectStep
      <3>2. CASE UNCHANGED <<regUser, lookups, regAt>>
        BY <3>2 DEF RegInv, RegTypeOK, ActiveIsOwn
      <3> QED
        BY <2>3, <3>1, <3>2
    <2>5. StoredGoesOn'
      BY <1>1, <2>2, <2>4 DEF RegInv, StoredGoesOn
    <2>6. RegTypeOK'
      BY <1>1, <1>2, <2>1, <2>2, <2>4 DEF RegInv, RegTypeOK, SameFields
    <2> QED
      BY <2>4, <2>5, <2>6 DEF RegInv
  <1> QED
    BY <1>3, <1>4

\* The last step leads to the status page, or the sign-out has failed.
LEMMA ToldStep ==
  ASSUME RegInv, ApplicantSignedOut \/ RefreshUser
  PROVE  RegInv'
  <1>1. SameFields /\ UNCHANGED status
    BY DEF ApplicantSignedOut, RefreshUser
  <1>2. regFaults' \in 0..MaxRegFaults
    BY RegFaults DEF ApplicantSignedOut, RefreshUser, RegInv
  <1>3. sending' \in Sending /\ regError' \in BOOLEAN /\ excused' \in BOOLEAN
    <2>1. NotSending \in Sending /\ regError \in BOOLEAN /\ excused \in BOOLEAN
      BY DEF Sending, NotSending, RegInv, RegTypeOK
    <2>2. sending' = NotSending /\ regError' \in {regError, TRUE} /\ excused' \in {excused, TRUE}
      BY DEF ApplicantSignedOut, RefreshUser, SentTo, EndsWithError
    <2> QED
      BY <2>1, <2>2
  <1>4. \/ regAt' = "status" /\ lookups' = Ended /\ regUser' \in {regUser, Anonymous}
        \/ excused' /\ regUser' = Anonymous /\ Effect(regMode, Anonymous)
    <2>1. CASE ApplicantSignedOut
      BY <2>1 DEF ApplicantSignedOut, SentTo
    <2>2. CASE RefreshUser
      BY <2>2 DEF RefreshUser, SentTo
    <2> QED
      BY <2>1, <2>2
  <1>5. /\ lookups' \subseteq [of : Applicants, active : BOOLEAN] /\ ActiveIsOwn'
        /\ regUser' \in Applicants \cup Staff \cup {Anonymous}
        /\ regAt' \in {"form", "status", "marketplace", "portal", "elsewhere"}
        /\ excused' \/ regAt' # "form"
    <2>1. CASE regAt' = "status" /\ lookups' = Ended /\ regUser' \in {regUser, Anonymous}
      BY <2>1, EndedLookups DEF RegInv, RegTypeOK, ActiveIsOwn
    <2>2. CASE excused' /\ regUser' = Anonymous /\ Effect(regMode, Anonymous)
      <3>1. Anonymous \in Applicants \cup Staff \cup {Anonymous} /\ regMode \in Modes
        BY DEF RegInv, RegTypeOK
      <3> QED
        BY <2>2, <3>1, EffectStep
    <2> QED
      BY <1>4, <2>1, <2>2
  <1>6. StoredGoesOn'
    BY <1>5 DEF StoredGoesOn
  <1>7. RegTypeOK'
    BY <1>1, <1>2, <1>3, <1>5 DEF RegInv, RegTypeOK, SameFields
  <1> QED
    BY <1>5, <1>6, <1>7 DEF RegInv

\* Every step of the form keeps its invariant, and fills it with the answers of the signed-in user.
LEMMA RegStep ==
  ASSUME RegInv, RegNext
  PROVE  RegInv' /\ (answersOf' # answersOf => answersOf' = regUser)
  <1>1. CASE \E l \in lookups : LookupStep(l)
    BY <1>1, LookupStepKeeps
  <1>2. CASE UserChanges \/ ApplyAsDealer
    BY <1>2, UserStep DEF UserChanges, ApplyAsDealer, regPage
  <1>3. CASE Fill \/ LeaveForm \/ SubmitForm
    BY <1>3, FillStep DEF Fill, TypeAnswers, TypePassword, ChooseDocument, LeaveForm, SubmitForm, regPage
  <1>4. CASE RegisterAccount \/ BuyerRegistered
    BY <1>4, RegisterStep DEF RegisterAccount, BuyerRegistered, SameFields
  <1>5. CASE ApplicationStored \/ ApplicationFails
    BY <1>5, ApplyStep DEF ApplicationStored, ApplicationFails, SameFields
  <1>6. CASE ApplicantSignedOut \/ RefreshUser
    BY <1>6, ToldStep DEF ApplicantSignedOut, RefreshUser, SameFields
  <1> QED
    BY <1>1, <1>2, <1>3, <1>4, <1>5, <1>6 DEF RegNext, SubmissionStep

\* The invariant implies what is said of the form.
LEMMA RegConsequence ==
  ASSUME RegInv
  PROVE  StoredIsTold
  BY DEF RegInv, StoredGoesOn, StoredIsTold, NotSending

-----------------------------------------------------------------------------
(* Vehicle attributes. *)

RulesInv == RulesTypeOK /\ VehiclesComplete

\* A required attribute is a key of its category.
LEMMA RequiredAreKeys ==
  ASSUME NEW c \in VehicleCategories, NEW fuel
  PROVE  Required(c, fuel) \subseteq Keys(c)
  <1>1. CASE c = "other"
    BY <1>1 DEF Required
  <1>2. CASE c # "other"
    BY <1>2 DEF Required, Keys, Always, Powertrain, Battery
  <1> QED
    BY <1>1, <1>2

\* Of the attributes a category has to itself, the schema requires those the form selects.
LEMMA OwnRequired ==
  ASSUME NEW c \in Listable
  PROVE  /\ OwnKeys(c) \cap {"bodyType", "bikeType"} \subseteq Selects(c)
         /\ "condition" \in Selects(c) /\ "transmission" \in Selects(c)
  BY DEF Listable, OwnKeys, Selects

\* The selects and the required inputs of the form are what the schema requires of a listable fuel.
LEMMA FormIsEnough ==
  ASSUME NEW c \in Listable, NEW fuel, NEW filled, RequiredInputs(fuel) \subseteq filled
  PROVE  Required(c, fuel) \subseteq BuildAttributes(c, fuel, filled)
  <1>1. ASSUME NEW k \in Always \cup {"transmission"} \cup (OwnKeys(c) \cap {"bodyType", "bikeType"})
        PROVE  k \in BuildAttributes(c, fuel, filled)
    <2>1. CASE k = "mileageKm"
      BY <2>1 DEF RequiredInputs, BuildAttributes
    <2>2. CASE k # "mileageKm"
      BY <1>1, <2>2, OwnRequired DEF Always, BuildAttributes
    <2> QED
      BY <2>1, <2>2
  <1>2. ASSUME fuel \in Combustion
        PROVE  "engineCapacityCc" \in BuildAttributes(c, fuel, filled)
    <2>1. ShowsEngine(fuel) /\ "engineCapacityCc" \in filled
      BY <1>2 DEF Combustion, ShowsEngine, RequiredInputs
    <2> QED
      BY <2>1 DEF BuildAttributes
  <1>3. ASSUME fuel \in Traction
        PROVE  Battery \subseteq BuildAttributes(c, fuel, filled)
    <2>1. ShowsBattery(fuel) /\ Battery \subseteq filled
      BY <1>3 DEF Traction, ShowsBattery, RequiredInputs
    <2> QED
      BY <2>1 DEF BuildAttributes
  <1> QED
    BY <1>1, <1>2, <1>3 DEF Required

\* A change of the fuel keeps what the category requires, and brings what the new fuel does.
LEMMA EditIsEnough ==
  ASSUME NEW c \in Listable, NEW own, NEW had, own # "other", NEW fuel, NEW filled,
         RequiredInputs(fuel) \subseteq filled, NEW before, Required(own, before) \subseteq had
  PROVE  Required(own, fuel) \subseteq had \cup BuildAttributes(c, fuel, filled)
  <1>1. \A k \in Required(own, fuel) : k \in Required(own, before) \/ k \in Required(c, fuel)
    <2>1. c # "other"
      BY DEF Listable
    <2> QED
      BY <2>1 DEF Required
  <1> QED
    BY <1>1, FormIsEnough

\* The columns that the field guide of a template asks for are what the schema requires.
LEMMA GuideIsEnough ==
  ASSUME NEW c \in Listable, NEW fuel, NEW cells, GuideRequires(c, fuel) \subseteq cells
  PROVE  Required(c, fuel) \subseteq NormalizeAttributes(c, cells)
  <1>1. c # "other"
    BY DEF Listable
  <1>2. Required(c, fuel) \subseteq GuideRequires(c, fuel)
    <2>1. Always \cup {"transmission"} \cup (OwnKeys(c) \cap {"bodyType", "bikeType"})
            \subseteq TemplateColumns(c) \cap {"bodyType", "bikeType", "condition", "mileageKm", "transmission"}
      BY DEF Listable, OwnKeys, TemplateColumns, Always, Powertrain
    <2>2. fuel \in Combustion => "engineCapacityCc" \in GuideRequires(c, fuel)
      BY DEF Combustion, GuideRequires
    <2>3. fuel \in Traction => Battery \subseteq GuideRequires(c, fuel)
      BY DEF Traction, GuideRequires
    <2> QED
      BY <1>1, <2>1, <2>2, <2>3 DEF Required, GuideRequires
  <1>3. \A k \in Required(c, fuel) : k \in cells => k \in NormalizeAttributes(c, cells)
    <2>1. Required(c, fuel) \subseteq Powertrain \cup Always \cup (OwnKeys(c) \cap {"bodyType", "bikeType"})
      BY <1>1 DEF Required, Powertrain, Battery
    <2> QED
      BY <2>1 DEF Listable, OwnKeys, NormalizeAttributes
  <1> QED
    BY <1>2, <1>3

\* A vehicle that the schema accepts is complete, stripped of what is no key of its category.
LEMMA AcceptedIsComplete ==
  ASSUME NEW c \in VehicleCategories, NEW fuel \in Fuels \cup {"none"}, NEW has, Accepts(c, fuel, has),
         vehicle' = Vehicle(c, fuel, has), refusal' = "none"
  PROVE  RulesInv'
  <1>1. vehicle'.category = c /\ vehicle'.fuel = fuel /\ vehicle'.has = has \cap Keys(c)
    BY DEF Vehicle
  <1>2. Required(c, fuel) \subseteq vehicle'.has
    BY <1>1, RequiredAreKeys DEF Accepts
  <1>3. Accepts(c, fuel, vehicle'.has)
    BY <1>2 DEF Accepts
  <1> QED
    BY <1>1, <1>3 DEF RulesInv, RulesTypeOK, VehiclesComplete

\* Whatever happens to a vehicle, the one stored is complete, and a refusal is of a zero only.
LEMMA RulesStep ==
  ASSUME RulesInv, RulesNext
  PROVE  RulesInv'
  <1>1. ASSUME NEW c \in Listable, NEW fuel \in Fuels, NEW filled \in SUBSET Inputs, NEW zero, Create(c, fuel, filled, zero)
        PROVE  RulesInv'
    <2> DEFINE has == BuildAttributes(c, fuel, filled)
    <2>1. Accepts(c, fuel, has) /\ c \in VehicleCategories
      BY <1>1, FormIsEnough DEF Accepts, Create, VehicleCategories
    <2>2. CASE vehicle' = Vehicle(c, fuel, has) /\ refusal' = "none"
      BY <2>1, <2>2, AcceptedIsComplete
    <2>3. CASE vehicle' = NoVehicle /\ refusal' = "zero"
      BY <2>3 DEF RulesInv, RulesTypeOK, VehiclesComplete
    <2> QED
      BY <1>1, <2>1, <2>2, <2>3 DEF Create
  <1>2. ASSUME NEW c \in Listable, NEW fuel \in Fuels, NEW filled \in SUBSET Inputs, Edit(c, fuel, filled)
        PROVE  RulesInv'
    <2> DEFINE own == vehicle.category
               has == vehicle.has \cup BuildAttributes(c, fuel, filled)
    <2>1. vehicle # NoVehicle /\ own \in VehicleCategories /\ Accepts(own, vehicle.fuel, vehicle.has)
      BY <1>2 DEF Edit, RulesInv, RulesTypeOK, VehiclesComplete
    <2>2. Accepts(own, fuel, has)
      <3>1. CASE own = "other"
        BY <3>1 DEF Accepts, Required
      <3>2. CASE own # "other"
        BY <1>2, <2>1, <3>2, EditIsEnough DEF Accepts, Edit
      <3> QED
        BY <3>1, <3>2
    <2>3. vehicle' = Vehicle(own, fuel, has) /\ refusal' = "none"
      BY <1>2, <2>2 DEF Edit
    <2> QED
      BY <2>1, <2>2, <2>3, AcceptedIsComplete
  <1>3. ASSUME NEW c \in Listable, NEW fuel \in Fuels \cup {"none"}, NEW cells, Import(c, fuel, cells)
        PROVE  RulesInv'
    <2> DEFINE has == NormalizeAttributes(c, cells)
    <2>1. CASE Accepts(c, fuel, has)
      BY <1>3, <2>1, AcceptedIsComplete DEF Import, VehicleCategories
    <2>2. CASE ~Accepts(c, fuel, has)
      <3>1. ~(fuel \in ListableFuels /\ GuideRequires(c, fuel) \subseteq cells)
        BY <2>2, GuideIsEnough DEF Accepts, ListableFuels
      <3>2. vehicle' = NoVehicle /\ refusal' = "none"
        BY <1>3, <2>2, <3>1 DEF Import
      <3> QED
        BY <3>2 DEF RulesInv, RulesTypeOK, VehiclesComplete
    <2> QED
      BY <2>1, <2>2
  <1>4. ASSUME Delete
        PROVE  RulesInv'
    BY <1>4 DEF Delete, RulesInv, RulesTypeOK, VehiclesComplete
  <1> QED
    BY <1>1, <1>2, <1>3, <1>4 DEF RulesNext

\* At first no vehicle is stored.
LEMMA RulesStart ==
  ASSUME RulesInit
  PROVE  RulesInv
  BY DEF RulesInit, RulesInv, RulesTypeOK, VehiclesComplete

-----------------------------------------------------------------------------
(* The listing form. *)

\* A selection holds a photo once.
OneEach(s) == IsInjective(s) /\ \A a, b \in Range(s) : a.file = b.file => a = b
ServerPhotos == Photos \cup OldPhotos
Asking == [op : {"none", "load", "remove", "reorder"}, pc : {"idle", "sent", "done", "refused"},
           keys : Seq(ServerPhotos), at : Nat]
Cropping == [queue : Seq(Photos), done : Seq(Photo), picture : 0..PhotoCount]
Savings == [pc : {"idle", "save", "saved", "photo", "stored"}, left : Seq(Photo), batch : SUBSET Photos]
FormHistories == [version : Nat, seen : Nat, asked : Nat, faults : Nat, unheard : BOOLEAN,
                  crossed : BOOLEAN, removed : SUBSET ServerPhotos, replaced : SUBSET Photos]
\* The photos of the submission that the server does not have yet, and the one it has but did not answer for.
ToStore == IF saving.pc = "stored" THEN Tail(saving.left) ELSE saving.left
Answering == IF saving.pc = "stored" THEN {Head(saving.left).file} ELSE {}

PageTypes ==
  /\ editing \in BOOLEAN /\ savedId \in BOOLEAN /\ formLeft \in BOOLEAN
  /\ chosenSoFar \in 0..PhotoCount
  /\ cropper \in Cropping /\ (cropper.queue = <<>> <=> cropper = NoCropper)
  /\ (cropper # NoCropper => cropper.picture \in Photos)
  /\ images \in Seq(Photo)
  /\ formSays \in {"nothing", "error", "success"}
SavingTypes ==
  /\ saving \in Savings /\ Files(saving.left) \subseteq saving.batch
  /\ (saving.pc \in {"photo", "stored"} => saving.left # <<>>)
  /\ (saving.pc \in {"saved", "photo", "stored"} => listed)
  /\ formHistory \in FormHistories
ServerTypes ==
  /\ listed \in BOOLEAN
  /\ stored \in Seq(ServerPhotos) /\ Len(stored) <= MaxImages /\ (stored # <<>> => listed)
\* Only a listing that is edited shows photos and asks about them.
AskTypes ==
  /\ existing \in Seq(ServerPhotos)
  /\ asks \in [1..AskCount -> Asking]
  /\ \A a \in 1..AskCount : asks[a].op = "remove" /\ asks[a].pc = "sent" => asks[a].keys # <<>>
  /\ ~editing => existing = <<>> /\ \A a \in 1..AskCount : asks[a].pc = "idle"
\* A photo is chosen once, and is in one place on its way to the server.
ChosenOnce ==
  /\ Range(cropper.queue) \cup Files(cropper.done) \cup Files(images) \cup saving.batch \subseteq 1..chosenSoFar
  /\ Range(stored) \cap Photos \subseteq 1..chosenSoFar
  /\ IsInjective(cropper.queue) /\ OneEach(cropper.done) /\ OneEach(images) /\ OneEach(saving.left)
  /\ Range(cropper.queue) \cap Files(cropper.done) = {}
  /\ saving.batch \cap (Range(cropper.queue) \cup Files(cropper.done)) = {}
  /\ \A a \in Range(saving.left), b \in Range(images) : a.file = b.file => a = b
\* While every answer was heard, what is still to be stored is not stored.
StoredApart ==
  ~formHistory.unheard =>
    /\ IsInjective(stored) /\ IsInjective(existing) /\ \A a \in 1..AskCount : IsInjective(asks[a].keys)
    /\ Range(stored) \cap (Range(cropper.queue) \cup Files(cropper.done)) = {}
    /\ Range(stored) \cap (Files(images) \ Answering) = {}
    /\ saving.pc # "idle" => Range(stored) \cap Files(ToStore) = {}
\* Every photo of a submission is stored, or still selected and to be stored.
BatchStays ==
  \A f \in saving.batch :
    \/ f \in Range(stored) \cup formHistory.removed
    \/ /\ f \in Files(images) \cup formHistory.replaced
       /\ IF saving.pc = "idle" THEN formSays # "success" ELSE f \in Files(ToStore)
\* An answer is not newer than the server's photos.
AnswersAreOld ==
  /\ formHistory.seen <= formHistory.version
  /\ \A a \in 1..AskCount : asks[a].pc = "done" => asks[a].at <= formHistory.version
\* The photos shown are the server's, or an answer that has them is to come.
ShownSettles ==
  editing /\ ~formHistory.unheard /\ ~formHistory.crossed =>
    /\ \A a \in 1..AskCount : asks[a].pc = "done" /\ asks[a].at = formHistory.version => asks[a].keys = stored
    /\ \/ \E a \in 1..AskCount : asks[a].pc = "sent" /\ asks[a].op = "load"
       \/ \E a \in 1..AskCount : asks[a].pc = "done" /\ asks[a].at = formHistory.version
       \/ formHistory.seen = formHistory.version /\ existing = stored
FormInv ==
  /\ PageTypes /\ SavingTypes /\ ServerTypes /\ AskTypes
  /\ ChosenOnce /\ StoredApart /\ BatchStays /\ AnswersAreOld /\ ShownSettles

\* The files of a selection are those of its photos.
LEMMA FilesOf ==
  ASSUME NEW s \in Seq(Photo)
  PROVE  /\ Files(s) \in SUBSET Photos
         /\ \A p \in Range(s) : p \in Photo /\ p.file \in Files(s)
         /\ \A f \in Files(s) : \E p \in Range(s) : p.file = f
  <1>1. \A i \in DOMAIN s : s[i] \in Photo
    OBVIOUS
  <1>2. \A p \in Photo : p.file \in Photos
    BY DEF Photo
  <1> QED
    BY <1>1, <1>2 DEF Files, Range

\* No photo is left of a selection that is empty.
LEMMA NoFiles ==
  OneEach(<<>>) /\ Files(<<>>) = {} /\ Range(<<>>) = {} /\ IsInjective(<<>>) /\ \A S : <<>> \in Seq(S)
  BY DEF OneEach, Files, Range, IsInjective

\* A selection that is not empty is its first photo, and then the others.
LEMMA FirstFile ==
  ASSUME NEW s \in Seq(Photo), s # <<>>, OneEach(s)
  PROVE  /\ Tail(s) \in Seq(Photo) /\ OneEach(Tail(s)) /\ Head(s) \in Photo /\ Head(s) \in Range(s)
         /\ Files(s) = {Head(s).file} \cup Files(Tail(s)) /\ Head(s).file \notin Files(Tail(s))
         /\ Range(Tail(s)) \subseteq Range(s)
  <1> DEFINE t == Tail(s)
             h == Head(s)
  <1>1. t \in Seq(Photo) /\ h \in Photo /\ Range(s) = {h} \cup Range(t) /\ IsInjective(t) /\ h \notin Range(t)
    BY HeadAndTail DEF OneEach
  <1>2. \A a, b \in Range(s) : a.file = b.file => a = b
    BY DEF OneEach
  <1> HIDE DEF t, h
  <1>3. OneEach(t)
    BY <1>1, <1>2 DEF OneEach
  <1>4. \A f \in Files(s) : f = h.file \/ f \in Files(t)
    BY <1>1, FilesOf
  <1>5. h.file \in Files(s) /\ \A f \in Files(t) : f \in Files(s) /\ f # h.file
    BY <1>1, <1>2, FilesOf
  <1>6. Files(s) = {h.file} \cup Files(t)
    BY <1>4, <1>5
  <1> QED
    BY <1>1, <1>3, <1>5, <1>6 DEF t, h

\* Another photo joins a selection.
LEMMA AnotherFile ==
  ASSUME NEW s \in Seq(Photo), OneEach(s), NEW p \in Photo, p.file \notin Files(s)
  PROVE  /\ Append(s, p) \in Seq(Photo) /\ OneEach(Append(s, p)) /\ Append(s, p) # <<>>
         /\ Files(Append(s, p)) = Files(s) \cup {p.file}
  <1> DEFINE t == Append(s, p)
  <1>1. p \notin Range(s)
    BY FilesOf
  <1>2. t \in Seq(Photo) /\ IsInjective(t) /\ Len(t) = Len(s) + 1 /\ Range(t) = Range(s) \cup {p}
    BY <1>1, AddedOnce DEF OneEach
  <1> HIDE DEF t
  <1>3. \A a \in Range(s) : a.file # p.file
    BY FilesOf
  <1>4. OneEach(t)
    BY <1>2, <1>3 DEF OneEach
  <1>5. Files(t) = Files(s) \cup {p.file}
    <2>1. \A f \in Files(t) : f \in Files(s) \cup {p.file}
      BY <1>2, FilesOf
    <2>2. \A f \in Files(s) \cup {p.file} : f \in Files(t)
      BY <1>2, FilesOf
    <2> QED
      BY <2>1, <2>2
  <1>6. t # <<>>
    BY <1>2
  <1> QED
    BY <1>2, <1>4, <1>5, <1>6 DEF t

\* A selection without one of its photos has the files of the others.
LEMMA WithoutFile ==
  ASSUME NEW s \in Seq(Photo), OneEach(s), NEW p \in Photo, \A b \in Range(s) : p.file = b.file => p = b
  PROVE  /\ RemoveFirst(s, p) \in Seq(Photo) /\ OneEach(RemoveFirst(s, p))
         /\ Range(RemoveFirst(s, p)) \subseteq Range(s)
         /\ Files(RemoveFirst(s, p)) = Files(s) \ {p.file}
  <1> DEFINE t == RemoveFirst(s, p)
  <1>1. t \in Seq(Photo) /\ IsInjective(t) /\ Range(t) = Range(s) \ {p}
    BY RemovedOnce DEF OneEach
  <1> HIDE DEF t
  <1>2. OneEach(t)
    BY <1>1 DEF OneEach
  <1>3. \A f \in Files(t) : f \in Files(s) /\ f # p.file
    BY <1>1, FilesOf
  <1>4. \A f \in Files(s) : f # p.file => f \in Files(t)
    BY <1>1, FilesOf
  <1>5. Files(t) = Files(s) \ {p.file}
    BY <1>3, <1>4
  <1> QED
    BY <1>1, <1>2, <1>5 DEF t

\* A failed request is counted, and an answer that was not heard is marked.
LEMMA FormFaultStep ==
  ASSUME formHistory \in FormHistories, NEW u \in BOOLEAN, FormFault(u)
  PROVE  /\ formHistory' \in FormHistories /\ formHistory'.unheard = (formHistory.unheard \/ u)
         /\ formHistory'.version = formHistory.version /\ formHistory'.seen = formHistory.seen
         /\ formHistory'.crossed = formHistory.crossed /\ formHistory'.removed = formHistory.removed
         /\ formHistory'.replaced = formHistory.replaced
  <1> DEFINE n == formHistory.faults + 1
             b == formHistory.unheard \/ u
  <1>1. formHistory' = [formHistory EXCEPT !.faults = n, !.unheard = b]
    BY DEF FormFault
  <1>2. n \in Nat /\ b \in BOOLEAN
    BY DEF FormHistories
  <1> HIDE DEF n, b
  <1> QED
    BY <1>1, <1>2 DEF FormHistories, b

\* The requests about the photos shown rest while the page only chooses and stores photos.
LEMMA AsksRest ==
  ASSUME FormInv, UNCHANGED <<editing, existing, asks>>,
         stored' = stored \/ ~editing \/ formHistory'.crossed,
         formHistory'.version = formHistory.version, formHistory'.seen = formHistory.seen,
         formHistory.unheard => formHistory'.unheard, formHistory.crossed => formHistory'.crossed
  PROVE  AskTypes' /\ AnswersAreOld' /\ ShownSettles'
  <1>1. AskTypes'
    BY DEF FormInv, AskTypes
  <1>2. AnswersAreOld'
    BY DEF FormInv, AnswersAreOld
  <1>3. ShownSettles'
    BY DEF FormInv, ShownSettles
  <1> QED
    BY <1>1, <1>2, <1>3

\* The submission rests while photos are chosen and removed.
LEMMA SavingRests ==
  ASSUME FormInv, UNCHANGED saving, formHistory' \in FormHistories,
         listed => listed',
         Range(stored) \cup formHistory.removed \subseteq Range(stored') \cup formHistory'.removed,
         Files(images) \cup formHistory.replaced \subseteq Files(images') \cup formHistory'.replaced,
         formSays' = "success" => formSays = "success"
  PROVE  SavingTypes' /\ BatchStays'
  <1>1. SavingTypes'
    BY DEF FormInv, SavingTypes, Files
  <1>2. ToStore' = ToStore
    BY DEF ToStore
  <1>3. Files(ToStore') = Files(ToStore)
    BY <1>2
  <1>4. BatchStays'
    BY <1>3 DEF FormInv, BatchStays
  <1> QED
    BY <1>1, <1>4

\* Photos are chosen.
LEMMA FilesSelectedStep ==
  ASSUME FormInv, HandleFilesSelected
  PROVE  FormInv'
  <1>1. PICK n \in 1..(PhotoCount - chosenSoFar) :
          /\ chosenSoFar' = chosenSoFar + n
          /\ cropper' = [queue |-> [i \in 1..n |-> chosenSoFar + i], done |-> <<>>, picture |-> chosenSoFar + 1]
    BY DEF HandleFilesSelected
  <1>2. /\ UNCHANGED <<editing, savedId, saving, formSays, existing, asks, formLeft>>
        /\ UNCHANGED <<listed, stored, images, formHistory>>
    BY DEF HandleFilesSelected, CropPage
  <1> DEFINE q == [i \in 1..n |-> chosenSoFar + i]
             first == chosenSoFar + 1
  <1>3. PhotoCount \in Nat /\ chosenSoFar \in 0..PhotoCount /\ n \in Nat /\ n >= 1 /\ chosenSoFar + n <= PhotoCount
    BY ListingFormAssumption DEF FormInv, PageTypes
  <1>4. first \in Photos /\ chosenSoFar' \in 0..PhotoCount
    BY <1>1, <1>3 DEF Photos
  <1>5. /\ q \in Seq(Photos) /\ q # <<>>
        /\ \A f \in Range(q) : f \in Photos /\ f > chosenSoFar /\ f <= chosenSoFar'
        /\ IsInjective(q)
    <2>1. \A i \in 1..n : q[i] = chosenSoFar + i /\ q[i] \in Photos
      BY <1>3 DEF Photos
    <2>2. DOMAIN q = 1..n /\ Len(q) = n /\ q \in Seq(Photos)
      BY <1>3, <2>1
    <2> HIDE DEF q
    <2>3. q # <<>>
      BY <1>3, <2>2
    <2>4. IsInjective(q)
      BY <1>3, <2>1, <2>2 DEF IsInjective
    <2>5. \A f \in Range(q) : f \in Photos /\ f > chosenSoFar /\ f <= chosenSoFar'
      BY <1>1, <1>3, <2>1, <2>2 DEF Range
    <2> QED
      BY <2>2, <2>3, <2>4, <2>5
  <1>6. cropper' = [queue |-> q, done |-> <<>>, picture |-> first]
    BY <1>1
  <1> HIDE DEF q, first
  <1>7. cropper'.queue = q /\ cropper'.done = <<>> /\ cropper'.picture = first
    BY <1>6
  <1>8. PageTypes'
    <2>1. cropper' \in Cropping
      BY <1>4, <1>5, <1>6, NoFiles DEF Cropping, Photos
    <2>2. cropper' # NoCropper
      BY <1>5, <1>7 DEF NoCropper
    <2> QED
      BY <1>2, <1>4, <1>5, <1>7, <2>1, <2>2 DEF FormInv, PageTypes
  <1>9. ServerTypes'
    BY <1>2 DEF FormInv, ServerTypes
  <1>10. SavingTypes' /\ BatchStays'
    BY <1>2, SavingRests DEF FormInv, SavingTypes
  <1>11. AskTypes' /\ AnswersAreOld' /\ ShownSettles'
    BY <1>2, AsksRest
  <1>12. Files(cropper.done)' = Files(<<>>) /\ Files(images)' = Files(images)
    BY <1>2, <1>7
  <1>13. \A f \in 1..chosenSoFar : f \notin Range(q) /\ f \in 1..chosenSoFar'
    BY <1>1, <1>3, <1>5
  <1>14. Range(q) \subseteq 1..chosenSoFar'
    BY <1>3, <1>5 DEF Photos
  <1>15. ChosenOnce'
    BY <1>2, <1>5, <1>7, <1>12, <1>13, <1>14, NoFiles DEF FormInv, ChosenOnce
  <1>16. Range(q) \cap Range(stored) = {}
    BY <1>5, <1>13 DEF FormInv, ChosenOnce
  <1>17. Answering' = Answering /\ ToStore' = ToStore
    BY <1>2 DEF Answering, ToStore
  <1>18. StoredApart'
    BY <1>2, <1>7, <1>12, <1>16, <1>17, NoFiles DEF FormInv, StoredApart
  <1> QED
    BY <1>8, <1>9, <1>10, <1>11, <1>15, <1>18 DEF FormInv

\* A picture is cropped, or skipped: the last one closes the modal.
LEMMA CropStep ==
  ASSUME FormInv, HandleCropConfirm \/ HandleCropSkip
  PROVE  FormInv'
  <1> DEFINE h == Head(cropper.queue)
             rest == Tail(cropper.queue)
             p == [file |-> h, picture |-> cropper.picture]
             all == Range(cropper.queue) \cup Files(cropper.done)
  <1>1. /\ cropper \in Cropping /\ cropper # NoCropper /\ cropper.queue # <<>> /\ cropper.picture \in Photos
        /\ cropper.queue \in Seq(Photos) /\ cropper.done \in Seq(Photo)
        /\ IsInjective(cropper.queue) /\ OneEach(cropper.done)
        /\ Range(cropper.queue) \cap Files(cropper.done) = {}
    BY DEF HandleCropConfirm, HandleCropSkip, FormInv, PageTypes, ChosenOnce, Cropping
  <1>2. /\ h \in Photos /\ rest \in Seq(Photos) /\ Range(cropper.queue) = {h} \cup Range(rest)
        /\ IsInjective(rest) /\ h \notin Range(rest)
    BY <1>1, HeadAndTail
  <1>3. p \in Photo /\ p.file = h
    BY <1>1, <1>2 DEF Photo
  <1>4. PICK done :
          /\ CropEnds(done) /\ done \in Seq(Photo) /\ OneEach(done)
          /\ Files(done) \subseteq Files(cropper.done) \cup {h}
    <2>1. CASE HandleCropConfirm
      <3> DEFINE more == Append(cropper.done, p)
      <3>1. CropEnds(more)
        BY <2>1 DEF HandleCropConfirm
      <3> HIDE DEF p
      <3>2. p.file \notin Files(cropper.done)
        BY <1>1, <1>2, <1>3
      <3>3. more \in Seq(Photo) /\ OneEach(more) /\ Files(more) = Files(cropper.done) \cup {h}
        BY <1>1, <1>3, <3>2, AnotherFile
      <3> HIDE DEF more
      <3> QED
        BY <3>1, <3>3
    <2>2. CASE HandleCropSkip
      BY <1>1, <2>2 DEF HandleCropSkip
    <2> QED
      BY <2>1, <2>2
  <1> HIDE DEF p
  <1>5. UNCHANGED <<editing, savedId, saving, formSays, existing, asks, formLeft, listed, stored, chosenSoFar>>
    BY <1>4 DEF CropEnds, CropPage
  <1>6. cropper' = IF rest = <<>> THEN NoCropper ELSE [cropper EXCEPT !.queue = rest, !.done = done]
    BY <1>4 DEF CropEnds
  <1> HIDE DEF h, rest, all
  <1>7. /\ cropper' \in Cropping /\ (cropper'.queue = <<>> <=> cropper' = NoCropper)
        /\ (cropper' # NoCropper => cropper'.picture \in Photos)
        /\ IsInjective(cropper'.queue) /\ OneEach(cropper'.done)
        /\ Range(cropper'.queue) \cap Files(cropper'.done) = {}
        /\ Range(cropper'.queue) \cup Files(cropper'.done) \subseteq all
    <2>1. CASE rest = <<>>
      <3> DEFINE none == PhotoCount - PhotoCount
      <3>1. none = 0 /\ none \in 0..PhotoCount
        BY ListingFormAssumption
      <3>2. cropper' = NoCropper /\ NoCropper = [queue |-> <<>>, done |-> <<>>, picture |-> none]
        BY <1>6, <2>1, <3>1 DEF NoCropper
      <3> HIDE DEF none
      <3>3. cropper'.queue = <<>> /\ cropper'.done = <<>> /\ cropper' \in Cropping
        BY <3>1, <3>2, NoFiles DEF Cropping
      <3> QED
        BY <3>2, <3>3, NoFiles
    <2>2. CASE rest # <<>>
      <3>1. cropper' = [cropper EXCEPT !.queue = rest, !.done = done]
        BY <1>6, <2>2
      <3>2. cropper'.queue = rest /\ cropper'.done = done /\ cropper'.picture = cropper.picture /\ cropper' \in Cropping
        BY <1>1, <1>2, <1>4, <3>1 DEF Cropping
      <3>3. cropper' # NoCropper
        BY <2>2, <3>2 DEF NoCropper
      <3>4. Range(rest) \cap Files(done) = {} /\ Range(rest) \cup Files(done) \subseteq all
        BY <1>1, <1>2, <1>4 DEF all
      <3> QED
        BY <1>1, <1>2, <1>4, <2>2, <3>2, <3>3, <3>4
    <2> QED
      BY <2>1, <2>2
  <1>8. /\ formHistory' \in FormHistories /\ formHistory'.unheard = formHistory.unheard
        /\ formHistory'.crossed = formHistory.crossed /\ formHistory'.removed = formHistory.removed
        /\ formHistory'.version = formHistory.version /\ formHistory'.seen = formHistory.seen
        /\ Files(images) \cup formHistory.replaced \subseteq Files(images') \cup formHistory'.replaced
        /\ images' = images \/ (images' = done /\ Files(done) \subseteq all)
    <2>1. formHistory \in FormHistories /\ Files(images) \in SUBSET Photos
      BY FilesOf DEF FormInv, SavingTypes, PageTypes
    <2>2. CASE rest = <<>> /\ done # <<>>
      <3> DEFINE r == formHistory.replaced \cup Files(images)
      <3>1. images' = done /\ formHistory' = [formHistory EXCEPT !.replaced = r]
        BY <1>4, <2>2 DEF CropEnds, rest
      <3>2. r \in SUBSET Photos
        BY <2>1 DEF FormHistories
      <3> HIDE DEF r
      <3>3. /\ formHistory' \in FormHistories /\ formHistory'.unheard = formHistory.unheard
            /\ formHistory'.crossed = formHistory.crossed /\ formHistory'.removed = formHistory.removed
            /\ formHistory'.version = formHistory.version /\ formHistory'.seen = formHistory.seen
            /\ formHistory'.replaced = r
        BY <2>1, <3>1, <3>2 DEF FormHistories
      <3> QED
        BY <1>1, <1>2, <1>4, <3>1, <3>3 DEF r, all
    <2>3. CASE ~(rest = <<>> /\ done # <<>>)
      <3>1. images' = images /\ formHistory' = formHistory
        BY <1>4, <2>3 DEF CropEnds, rest
      <3> QED
        BY <2>1, <3>1
    <2> QED
      BY <2>2, <2>3
  <1>9. PageTypes'
    BY <1>4, <1>5, <1>7, <1>8 DEF FormInv, PageTypes
  <1>10. SavingTypes' /\ BatchStays'
    BY <1>5, <1>8, SavingRests
  <1>11. ServerTypes'
    BY <1>5 DEF FormInv, ServerTypes
  <1>12. AskTypes' /\ AnswersAreOld' /\ ShownSettles'
    BY <1>5, <1>8, AsksRest
  <1>13. Files(images') \subseteq 1..chosenSoFar /\ OneEach(images')
    BY <1>4, <1>8 DEF FormInv, ChosenOnce, all
  <1>14. \A a \in Range(saving.left), b \in Range(images') : a.file = b.file => a = b
    <2>1. CASE images' = images
      BY <2>1 DEF FormInv, ChosenOnce
    <2>2. CASE images' = done /\ Files(done) \subseteq all
      <3>1. \A a \in Range(saving.left) : a.file \in saving.batch
        BY FilesOf DEF FormInv, SavingTypes, Savings
      <3>2. \A b \in Range(images') : b.file \in all
        BY <1>4, <2>2, FilesOf
      <3>3. saving.batch \cap all = {}
        BY DEF FormInv, ChosenOnce, all
      <3> QED
        BY <3>1, <3>2, <3>3
    <2> QED
      BY <1>8, <2>1, <2>2
  <1>15. Files(cropper.done)' = Files(cropper'.done) /\ Files(images)' = Files(images')
    OBVIOUS
  <1>16. ChosenOnce'
    BY <1>5, <1>7, <1>13, <1>14 DEF FormInv, ChosenOnce, all
  <1>17. Answering' = Answering /\ ToStore' = ToStore
    BY <1>5 DEF Answering, ToStore
  <1>18. ASSUME ~formHistory.unheard
         PROVE  Range(stored) \cap all = {} /\ Range(stored) \cap (Files(images') \ Answering) = {}
    BY <1>8, <1>18 DEF FormInv, StoredApart, all
  <1>19. StoredApart'
    BY <1>5, <1>7, <1>8, <1>17, <1>18 DEF FormInv, StoredApart
  <1> QED
    BY <1>9, <1>10, <1>11, <1>12, <1>16, <1>19 DEF FormInv

\* The next photo of the submission is sent, or all of them were.
LEMMA NextPhotoStep ==
  ASSUME saving \in Savings, NEW left \in Seq(Photo), NextPhoto(left),
         formSays \in {"nothing", "error", "success"}
  PROVE  /\ saving' \in Savings /\ saving'.left = left /\ saving'.batch = saving.batch
         /\ saving'.pc \in {"idle", "photo"} /\ (saving'.pc = "idle" <=> left = <<>>)
         /\ formSays' \in {"nothing", "error", "success"}
  <1>1. CASE left = <<>>
    BY <1>1 DEF NextPhoto, Savings
  <1>2. CASE left # <<>>
    BY <1>2 DEF NextPhoto, Savings
  <1> QED
    BY <1>1, <1>2

\* The listing is sent, to be followed by the photos selected.
LEMMA FormSubmitStep ==
  ASSUME FormInv, HandleSubmit
  PROVE  FormInv'
  <1>1. /\ saving.pc = "idle" /\ cropper = NoCropper /\ formSays' = "nothing"
        /\ saving' = [pc |-> "save", left |-> images, batch |-> Files(images)]
        /\ UNCHANGED <<editing, savedId, chosenSoFar, cropper, images, existing, asks, formLeft>>
        /\ UNCHANGED <<listed, stored, formHistory>>
    BY DEF HandleSubmit, NotCovered
  <1>2. images \in Seq(Photo) /\ Files(images) \in SUBSET Photos
    BY FilesOf DEF FormInv, PageTypes
  <1>3. saving' \in Savings /\ saving'.pc = "save" /\ saving'.left = images /\ saving'.batch = Files(images)
    BY <1>1, <1>2 DEF Savings
  <1>4. PageTypes'
    BY <1>1 DEF FormInv, PageTypes
  <1>5. SavingTypes'
    <2>1. Files(saving.left)' = Files(saving'.left)
      OBVIOUS
    <2> QED
      BY <1>1, <1>3, <2>1 DEF FormInv, SavingTypes
  <1>6. ServerTypes'
    BY <1>1 DEF FormInv, ServerTypes
  <1>7. AskTypes' /\ AnswersAreOld' /\ ShownSettles'
    BY <1>1, AsksRest
  <1>8. cropper.queue = <<>> /\ cropper.done = <<>>
    BY <1>1 DEF NoCropper
  <1>9. Files(cropper.done)' = {} /\ Range(cropper.queue)' = {} /\ Files(images)' = Files(images)
    BY <1>1, <1>8, NoFiles
  <1>10. ChosenOnce'
    BY <1>1, <1>3, <1>9 DEF FormInv, ChosenOnce, OneEach
  <1>11. Answering = {} /\ Answering' = {} /\ ToStore' = images
    BY <1>1, <1>3 DEF Answering, ToStore
  <1>12. Files(ToStore)' = Files(images)
    BY <1>11
  <1>13. StoredApart'
    BY <1>1, <1>9, <1>11, <1>12 DEF FormInv, StoredApart
  <1>14. BatchStays'
    BY <1>1, <1>3, <1>9, <1>12 DEF BatchStays
  <1> QED
    BY <1>4, <1>5, <1>6, <1>7, <1>10, <1>13, <1>14 DEF FormInv

\* The server saves the listing.
LEMMA ServerSavesStep ==
  ASSUME FormInv, ServerSaves
  PROVE  FormInv'
  <1>1. /\ saving.pc = "save" /\ listed' = TRUE /\ saving' = [saving EXCEPT !.pc = "saved"]
        /\ UNCHANGED <<editing, chosenSoFar, cropper, existing, asks, formLeft>>
        /\ UNCHANGED <<savedId, images, formSays, stored, formHistory>>
    BY DEF ServerSaves, SubmitPage
  <1>2. /\ saving' \in Savings /\ saving'.pc = "saved" /\ saving'.left = saving.left
        /\ saving'.batch = saving.batch
    BY <1>1 DEF FormInv, SavingTypes, Savings
  <1>3. PageTypes'
    BY <1>1 DEF FormInv, PageTypes
  <1>4. SavingTypes'
    <2>1. Files(saving.left)' = Files(saving.left)
      BY <1>2
    <2> QED
      BY <1>1, <1>2, <2>1 DEF FormInv, SavingTypes
  <1>5. ServerTypes'
    BY <1>1 DEF FormInv, ServerTypes
  <1>6. AskTypes' /\ AnswersAreOld' /\ ShownSettles'
    BY <1>1, AsksRest
  <1>7. Files(cropper.done)' = Files(cropper.done) /\ Files(images)' = Files(images)
    BY <1>1
  <1>8. ChosenOnce'
    BY <1>1, <1>2, <1>7 DEF FormInv, ChosenOnce
  <1>9. Answering = {} /\ Answering' = {} /\ ToStore' = ToStore
    BY <1>1, <1>2 DEF Answering, ToStore
  <1>10. Files(ToStore)' = Files(ToStore)
    BY <1>9
  <1>11. StoredApart'
    BY <1>1, <1>7, <1>9, <1>10 DEF FormInv, StoredApart
  <1>12. BatchStays'
    BY <1>1, <1>2, <1>7, <1>10 DEF FormInv, BatchStays
  <1> QED
    BY <1>3, <1>4, <1>5, <1>6, <1>8, <1>11, <1>12 DEF FormInv

\* The page learns that the listing was saved.
LEMMA ListingSavedStep ==
  ASSUME FormInv, ListingSaved
  PROVE  FormInv'
  <1>1. /\ saving.pc = "saved" /\ savedId' = TRUE /\ NextPhoto(saving.left)
        /\ UNCHANGED <<editing, chosenSoFar, cropper, existing, asks, formLeft>>
        /\ UNCHANGED <<listed, stored, images, formHistory>>
    BY DEF ListingSaved, SubmitPage, ServerSame
  <1>2. /\ saving' \in Savings /\ saving'.left = saving.left /\ saving'.batch = saving.batch
        /\ saving'.pc \in {"idle", "photo"} /\ (saving'.pc = "idle" <=> saving.left = <<>>)
        /\ formSays' \in {"nothing", "error", "success"}
    <2>1. saving.left \in Seq(Photo) /\ saving \in Savings /\ formSays \in {"nothing", "error", "success"}
      BY DEF FormInv, SavingTypes, PageTypes, Savings
    <2> QED
      BY <1>1, <2>1, NextPhotoStep
  <1>3. PageTypes'
    BY <1>1, <1>2 DEF FormInv, PageTypes
  <1>4. SavingTypes'
    <2>1. Files(saving.left)' = Files(saving.left)
      BY <1>2
    <2> QED
      BY <1>1, <1>2, <2>1 DEF FormInv, SavingTypes
  <1>5. ServerTypes'
    BY <1>1 DEF FormInv, ServerTypes
  <1>6. AskTypes' /\ AnswersAreOld' /\ ShownSettles'
    BY <1>1, AsksRest
  <1>7. Files(cropper.done)' = Files(cropper.done) /\ Files(images)' = Files(images)
    BY <1>1
  <1>8. ChosenOnce'
    BY <1>1, <1>2, <1>7 DEF FormInv, ChosenOnce
  <1>9. Answering = {} /\ Answering' = {} /\ ToStore' = saving.left /\ ToStore = saving.left
    BY <1>1, <1>2 DEF Answering, ToStore
  <1>10. Files(ToStore)' = Files(ToStore) /\ Files(ToStore) = Files(saving.left)
    BY <1>9
  <1>11. StoredApart'
    BY <1>1, <1>7, <1>9, <1>10 DEF FormInv, StoredApart
  <1>12. BatchStays'
    <2>1. saving'.pc = "idle" => Files(ToStore) = {}
      BY <1>2, <1>10, NoFiles
    <2> QED
      BY <1>1, <1>2, <1>7, <1>10, <2>1 DEF FormInv, BatchStays
  <1> QED
    BY <1>3, <1>4, <1>5, <1>6, <1>8, <1>11, <1>12 DEF FormInv

\* The first photo that is left of the submission.
LEMMA PhotoToStore ==
  ASSUME FormInv, saving.pc \in {"photo", "stored"}
  PROVE  /\ saving.left \in Seq(Photo) /\ saving.left # <<>> /\ OneEach(saving.left)
         /\ Tail(saving.left) \in Seq(Photo) /\ OneEach(Tail(saving.left))
         /\ Range(Tail(saving.left)) \subseteq Range(saving.left)
         /\ Head(saving.left) \in Photo /\ Head(saving.left) \in Range(saving.left)
         /\ Head(saving.left).file \in saving.batch /\ Head(saving.left).file \in Photos
         /\ Files(saving.left) = {Head(saving.left).file} \cup Files(Tail(saving.left))
         /\ Head(saving.left).file \notin Files(Tail(saving.left))
  <1>1. /\ saving.left \in Seq(Photo) /\ saving.left # <<>> /\ OneEach(saving.left)
        /\ Files(saving.left) \subseteq saving.batch /\ saving.batch \subseteq Photos
    BY DEF FormInv, SavingTypes, Savings, ChosenOnce
  <1> QED
    BY <1>1, FirstFile

\* The server stores a photo.
LEMMA ServerStoresStep ==
  ASSUME FormInv, ServerStores
  PROVE  FormInv'
  <1> DEFINE f == Head(saving.left).file
             rest == Tail(saving.left)
             c == formHistory.crossed \/ editing
  <1>1. /\ saving.pc = "photo" /\ Len(stored) < MaxImages /\ stored' = Append(stored, f)
        /\ saving' = [saving EXCEPT !.pc = "stored"] /\ formHistory' = [formHistory EXCEPT !.crossed = c]
        /\ UNCHANGED <<editing, chosenSoFar, cropper, existing, asks, formLeft>>
        /\ UNCHANGED <<savedId, images, formSays, listed>>
    BY DEF ServerStores, SubmitPage
  <1>2. /\ saving.left \in Seq(Photo) /\ saving.left # <<>> /\ OneEach(saving.left)
        /\ f \in saving.batch /\ f \in Photos
        /\ Files(saving.left) = {f} \cup Files(rest) /\ f \notin Files(rest)
    BY <1>1, PhotoToStore
  <1>3. /\ saving' \in Savings /\ saving'.pc = "stored" /\ saving'.left = saving.left
        /\ saving'.batch = saving.batch
    BY <1>1 DEF FormInv, SavingTypes, Savings
  <1>4. /\ formHistory' \in FormHistories /\ formHistory'.unheard = formHistory.unheard
        /\ formHistory'.crossed = c /\ formHistory'.removed = formHistory.removed
        /\ formHistory'.version = formHistory.version /\ formHistory'.seen = formHistory.seen
        /\ formHistory'.replaced = formHistory.replaced
    <2>1. formHistory \in FormHistories /\ c \in BOOLEAN
      BY DEF FormInv, SavingTypes, PageTypes, FormHistories
    <2> HIDE DEF c
    <2> QED
      BY <1>1, <2>1 DEF FormHistories
  <1>5. stored \in Seq(ServerPhotos) /\ MaxImages \in Nat /\ f \in ServerPhotos
    BY <1>2, ListingFormAssumption DEF FormInv, ServerTypes, ServerPhotos
  <1> HIDE DEF f, rest
  <1>6. stored' \in Seq(ServerPhotos) /\ Len(stored') = Len(stored) + 1 /\ Range(stored') = Range(stored) \cup {f}
    <2>1. stored' = Append(stored, f)
      BY <1>1
    <2>2. /\ stored' \in Seq(ServerPhotos) /\ Len(stored') = Len(stored) + 1 /\ stored'[Len(stored) + 1] = f
          /\ \A i \in 1..Len(stored) : stored'[i] = stored[i]
      BY <1>5, <2>1
    <2>3. \A v \in Range(stored') : v \in Range(stored) \cup {f}
      BY <1>5, <2>2 DEF Range
    <2>4. \A v \in Range(stored) \cup {f} : v \in Range(stored')
      BY <1>5, <2>2 DEF Range
    <2> QED
      BY <2>2, <2>3, <2>4
  <1>7. PageTypes'
    BY <1>1 DEF FormInv, PageTypes
  <1>8. SavingTypes'
    <2>1. Files(saving.left)' = Files(saving.left)
      BY <1>3
    <2> QED
      BY <1>1, <1>2, <1>3, <1>4, <2>1 DEF FormInv, SavingTypes
  <1>9. ServerTypes'
    <2>1. Len(stored') <= MaxImages
      <3>1. Len(stored) \in Nat
        BY <1>5
      <3> QED
        BY <1>1, <1>5, <1>6, <3>1
    <2>2. listed
      BY <1>1 DEF FormInv, SavingTypes
    <2> QED
      BY <1>1, <1>6, <2>1, <2>2 DEF FormInv, ServerTypes
  <1>10. AskTypes' /\ AnswersAreOld' /\ ShownSettles'
    <2>1. ~editing \/ formHistory'.crossed
      BY <1>4 DEF FormInv, PageTypes
    <2> QED
      BY <1>1, <1>4, <2>1, AsksRest
  <1>11. Files(cropper.done)' = Files(cropper.done) /\ Files(images)' = Files(images)
    BY <1>1
  <1>12. f \in 1..chosenSoFar /\ f \notin Range(cropper.queue) \cup Files(cropper.done)
    BY <1>2 DEF FormInv, ChosenOnce
  <1>13. ChosenOnce'
    <2>1. Range(stored)' \cap Photos \subseteq 1..chosenSoFar
      BY <1>6, <1>12 DEF FormInv, ChosenOnce
    <2> QED
      BY <1>1, <1>3, <1>11, <2>1 DEF FormInv, ChosenOnce
  <1>14. Answering = {} /\ Answering' = {f} /\ ToStore' = rest /\ ToStore = saving.left
    BY <1>1, <1>3 DEF Answering, ToStore, f, rest
  <1>15. Files(ToStore)' = Files(rest) /\ Files(ToStore) = Files(saving.left)
    BY <1>14
  <1>16. StoredApart'
    <2>1. ASSUME ~formHistory.unheard
          PROVE  /\ IsInjective(stored') /\ f \notin Range(stored)
                 /\ Range(stored) \cap Files(images) = {} /\ Range(stored) \cap Files(saving.left) = {}
                 /\ Range(stored) \cap (Range(cropper.queue) \cup Files(cropper.done)) = {}
      <3>1. /\ IsInjective(stored) /\ Range(stored) \cap Files(images) = {}
            /\ Range(stored) \cap Files(saving.left) = {}
            /\ Range(stored) \cap (Range(cropper.queue) \cup Files(cropper.done)) = {}
        BY <1>1, <1>14, <1>15, <2>1 DEF FormInv, StoredApart
      <3>2. f \notin Range(stored)
        BY <1>2, <3>1
      <3>3. IsInjective(stored')
        BY <1>1, <1>5, <3>1, <3>2, AddedOnce
      <3> QED
        BY <3>1, <3>2, <3>3
    <2>2. ASSUME ~formHistory.unheard
          PROVE  /\ Range(stored') \cap (Range(cropper.queue) \cup Files(cropper.done)) = {}
                 /\ Range(stored') \cap (Files(images) \ {f}) = {}
                 /\ Range(stored') \cap Files(rest) = {}
      BY <1>2, <1>6, <1>12, <2>1, <2>2
    <2>3. IsInjective(existing') = IsInjective(existing) /\ \A a : IsInjective(asks'[a].keys) = IsInjective(asks[a].keys)
      BY <1>1
    <2> QED
      BY <1>1, <1>4, <1>11, <1>14, <1>15, <2>1, <2>2, <2>3 DEF FormInv, StoredApart
  <1>17. BatchStays'
    <2>1. \A g \in saving.batch :
            g \in Range(stored) \cup formHistory.removed
              \/ (g \in Files(images) \cup formHistory.replaced /\ g \in Files(saving.left))
      BY <1>1, <1>15 DEF FormInv, BatchStays
    <2> QED
      BY <1>1, <1>2, <1>3, <1>4, <1>6, <1>11, <1>15, <2>1 DEF BatchStays
  <1> QED
    BY <1>7, <1>8, <1>9, <1>10, <1>13, <1>16, <1>17 DEF FormInv

\* The page learns that a photo was stored, and drops it from the selection.
LEMMA PhotoSavedStep ==
  ASSUME FormInv, PhotoSaved
  PROVE  FormInv'
  <1> DEFINE h == Head(saving.left)
             rest == Tail(saving.left)
  <1>1. /\ saving.pc = "stored" /\ images' = RemoveFirst(images, h) /\ NextPhoto(rest)
        /\ UNCHANGED <<editing, chosenSoFar, cropper, existing, asks, formLeft>>
        /\ UNCHANGED <<listed, stored, savedId, formHistory>>
    BY DEF PhotoSaved, SubmitPage, ServerSame
  <1>2. /\ saving.left \in Seq(Photo) /\ OneEach(saving.left)
        /\ rest \in Seq(Photo) /\ OneEach(rest) /\ Range(rest) \subseteq Range(saving.left)
        /\ h \in Photo /\ h \in Range(saving.left) /\ h.file \in saving.batch
        /\ Files(saving.left) = {h.file} \cup Files(rest) /\ h.file \notin Files(rest)
    BY <1>1, PhotoToStore
  <1> HIDE DEF h, rest
  <1>3. /\ saving' \in Savings /\ saving'.left = rest /\ saving'.batch = saving.batch
        /\ saving'.pc \in {"idle", "photo"} /\ (saving'.pc = "idle" <=> rest = <<>>)
        /\ formSays' \in {"nothing", "error", "success"}
    <2>1. saving \in Savings /\ formSays \in {"nothing", "error", "success"}
      BY DEF FormInv, SavingTypes, PageTypes
    <2> QED
      BY <1>1, <1>2, <2>1, NextPhotoStep
  <1>4. /\ images' \in Seq(Photo) /\ OneEach(images') /\ Range(images') \subseteq Range(images)
        /\ Files(images') = Files(images) \ {h.file}
    <2>1. images \in Seq(Photo) /\ OneEach(images) /\ \A b \in Range(images) : h.file = b.file => h = b
      BY <1>2 DEF FormInv, PageTypes, ChosenOnce
    <2> QED
      BY <1>1, <1>2, <2>1, WithoutFile
  <1>5. PageTypes'
    BY <1>1, <1>3, <1>4 DEF FormInv, PageTypes
  <1>6. Files(saving.left)' = Files(rest) /\ Files(images)' = Files(images') /\ Files(cropper.done)' = Files(cropper.done)
    BY <1>1, <1>3
  <1>7. SavingTypes'
    BY <1>1, <1>2, <1>3, <1>6 DEF FormInv, SavingTypes
  <1>8. ServerTypes'
    BY <1>1 DEF FormInv, ServerTypes
  <1>9. AskTypes' /\ AnswersAreOld' /\ ShownSettles'
    BY <1>1, AsksRest
  <1>10. ChosenOnce'
    <2>1. \A a \in Range(rest), b \in Range(images') : a.file = b.file => a = b
      BY <1>2, <1>4 DEF FormInv, ChosenOnce
    <2> QED
      BY <1>1, <1>2, <1>3, <1>4, <1>6, <2>1 DEF FormInv, ChosenOnce
  <1>11. Answering = {h.file} /\ Answering' = {} /\ ToStore = rest /\ ToStore' = rest
    BY <1>1, <1>3 DEF Answering, ToStore, h, rest
  <1>12. Files(ToStore)' = Files(rest) /\ Files(ToStore) = Files(rest)
    BY <1>11
  <1>13. StoredApart'
    BY <1>1, <1>4, <1>6, <1>11, <1>12 DEF FormInv, StoredApart
  <1>14. BatchStays'
    <2>1. \A g \in saving.batch :
            g \in Range(stored) \cup formHistory.removed
              \/ (g \in Files(images) \cup formHistory.replaced /\ g \in Files(rest))
      BY <1>1, <1>12 DEF FormInv, BatchStays
    <2>2. saving'.pc = "idle" => Files(rest) = {}
      BY <1>3, NoFiles
    <2> QED
      BY <1>1, <1>2, <1>3, <1>4, <1>6, <1>12, <2>1, <2>2 DEF BatchStays
  <1> QED
    BY <1>5, <1>7, <1>8, <1>9, <1>10, <1>13, <1>14 DEF FormInv

\* A submission ends with an error, and the photos left stay selected.
LEMMA SubmitErrorStep ==
  ASSUME FormInv, SubmitError
  PROVE  FormInv'
  <1>1. /\ saving.pc # "idle" /\ saving' = [saving EXCEPT !.pc = "idle"] /\ formSays' = "error"
        /\ UNCHANGED <<editing, chosenSoFar, cropper, existing, asks, formLeft>>
        /\ UNCHANGED <<listed, stored, savedId, images>>
    BY DEF SubmitError, SubmitPage, ServerSame
  <1>2. /\ saving' \in Savings /\ saving'.pc = "idle" /\ saving'.left = saving.left
        /\ saving'.batch = saving.batch
    BY <1>1 DEF FormInv, SavingTypes, Savings
  <1>3. /\ formHistory' \in FormHistories
        /\ formHistory'.unheard \/ (~formHistory.unheard /\ saving.pc # "stored")
        /\ formHistory.unheard => formHistory'.unheard
        /\ formHistory'.version = formHistory.version /\ formHistory'.seen = formHistory.seen
        /\ formHistory'.crossed = formHistory.crossed /\ formHistory'.removed = formHistory.removed
        /\ formHistory'.replaced = formHistory.replaced
    <2> DEFINE u == saving.pc \in {"saved", "stored"}
    <2>1. formHistory \in FormHistories /\ formHistory.unheard \in BOOLEAN /\ u \in BOOLEAN
      BY DEF FormInv, SavingTypes, FormHistories
    <2>2. CASE UNCHANGED formHistory /\ saving.pc \in {"save", "photo"}
      BY <2>1, <2>2
    <2>3. CASE FormFault(u)
      <3>1. saving.pc = "stored" => u
        OBVIOUS
      <3> HIDE DEF u
      <3> QED
        BY <2>1, <2>3, <3>1, FormFaultStep
    <2> QED
      BY <2>2, <2>3 DEF SubmitError
  <1>4. PageTypes'
    BY <1>1 DEF FormInv, PageTypes
  <1>5. SavingTypes'
    <2>1. Files(saving.left)' = Files(saving.left)
      BY <1>2
    <2> QED
      BY <1>2, <1>3, <2>1 DEF FormInv, SavingTypes
  <1>6. ServerTypes'
    BY <1>1 DEF FormInv, ServerTypes
  <1>7. AskTypes' /\ AnswersAreOld' /\ ShownSettles'
    BY <1>1, <1>3, AsksRest
  <1>8. Files(cropper.done)' = Files(cropper.done) /\ Files(images)' = Files(images)
    BY <1>1
  <1>9. ChosenOnce'
    BY <1>1, <1>2, <1>8 DEF FormInv, ChosenOnce
  <1>10. Answering' = {} /\ (saving.pc # "stored" => Answering = {})
    BY <1>2 DEF Answering
  <1>11. StoredApart'
    BY <1>1, <1>2, <1>3, <1>8, <1>10 DEF FormInv, StoredApart
  <1>12. BatchStays'
    BY <1>1, <1>2, <1>3, <1>8 DEF FormInv, BatchStays
  <1> QED
    BY <1>4, <1>5, <1>6, <1>7, <1>9, <1>11, <1>12 DEF FormInv

\* The page is left.
LEMMA FormLeavesStep ==
  ASSUME FormInv, FormLeaves
  PROVE  FormInv'
  <1> DEFINE none == PhotoCount - PhotoCount
  <1>1. /\ formLeft' = TRUE /\ cropper' = NoCropper
        /\ UNCHANGED <<editing, savedId, chosenSoFar, images, saving, formSays, existing, asks, formHistory>>
        /\ UNCHANGED <<listed, stored>>
    BY DEF FormLeaves, ServerSame
  <1>2. none = 0 /\ none \in 0..PhotoCount
    BY ListingFormAssumption
  <1>3. cropper' = NoCropper /\ NoCropper = [queue |-> <<>>, done |-> <<>>, picture |-> none]
    BY <1>1, <1>2 DEF NoCropper
  <1> HIDE DEF none
  <1>4. cropper'.queue = <<>> /\ cropper'.done = <<>> /\ cropper' \in Cropping
    BY <1>2, <1>3, NoFiles DEF Cropping
  <1>5. PageTypes'
    BY <1>1, <1>3, <1>4 DEF FormInv, PageTypes
  <1>6. SavingTypes' /\ BatchStays'
    BY <1>1, SavingRests DEF FormInv, SavingTypes
  <1>7. ServerTypes'
    BY <1>1 DEF FormInv, ServerTypes
  <1>8. AskTypes' /\ AnswersAreOld' /\ ShownSettles'
    BY <1>1, AsksRest
  <1>9. Files(cropper.done)' = {} /\ Range(cropper.queue)' = {} /\ Files(images)' = Files(images)
    BY <1>1, <1>4, NoFiles
  <1>10. ChosenOnce'
    BY <1>1, <1>4, <1>9, NoFiles DEF FormInv, ChosenOnce
  <1>11. Answering' = Answering /\ ToStore' = ToStore
    BY <1>1 DEF Answering, ToStore
  <1>12. StoredApart'
    BY <1>1, <1>9, <1>11 DEF FormInv, StoredApart
  <1> QED
    BY <1>5, <1>6, <1>7, <1>8, <1>10, <1>12 DEF FormInv

\* Requests about the photos shown leave the photos chosen alone.
LEMMA ChoiceRests ==
  ASSUME FormInv, UNCHANGED <<chosenSoFar, cropper, images, saving>>,
         Range(stored') \subseteq Range(stored)
  PROVE  ChosenOnce'
  <1>1. Files(cropper.done)' = Files(cropper.done) /\ Files(images)' = Files(images)
    OBVIOUS
  <1> QED
    BY <1>1 DEF FormInv, ChosenOnce

\* What is to be stored stays apart from what is stored when that becomes less.
LEMMA ApartRests ==
  ASSUME FormInv, UNCHANGED <<cropper, images, saving>>,
         Range(stored') \subseteq Range(stored), formHistory.unheard => formHistory'.unheard,
         ~formHistory'.unheard =>
           /\ IsInjective(stored') /\ IsInjective(existing')
           /\ \A a \in 1..AskCount : IsInjective(asks'[a].keys)
  PROVE  StoredApart'
  <1>1. Files(cropper.done)' = Files(cropper.done) /\ Files(images)' = Files(images)
    OBVIOUS
  <1>2. Answering' = Answering /\ ToStore' = ToStore
    BY DEF Answering, ToStore
  <1>3. Files(ToStore)' = Files(ToStore)
    BY <1>2
  <1> QED
    BY <1>1, <1>2, <1>3 DEF FormInv, StoredApart

\* One request changes, the others stay.
LEMMA OneAsk ==
  ASSUME asks \in [1..AskCount -> Asking], NEW a \in 1..AskCount, NEW new \in Asking,
         asks' = [asks EXCEPT ![a] = new]
  PROVE  asks' \in [1..AskCount -> Asking] /\ asks'[a] = new /\ \A b \in 1..AskCount : b # a => asks'[b] = asks[b]
  OBVIOUS

\* Nothing is asked.
LEMMA NoAskIs ==
  NoAsk \in Asking /\ NoAsk.pc = "idle" /\ NoAsk.op = "none" /\ IsInjective(NoAsk.keys)
  <1>1. PICK zero \in Nat : zero = 0
    OBVIOUS
  <1>2. NoAsk = [op |-> "none", pc |-> "idle", keys |-> <<>>, at |-> zero]
    BY <1>1 DEF NoAsk
  <1> QED
    BY <1>2, NoFiles DEF Asking

\* A removal, a new order or a load is asked for.
LEMMA AskedStep ==
  ASSUME FormInv, NEW a \in 1..AskCount, NEW op \in {"load", "remove", "reorder"}, NEW keys \in Seq(ServerPhotos),
         AskFor(a, op, keys), AskPage, formSays' \in {"nothing", "error", formSays},
         op = "remove" => keys # <<>>, ~formHistory.unheard => IsInjective(keys),
         editing' = TRUE, editing \/ op = "load"
  PROVE  FormInv'
  <1>1. PICK zero \in Nat : zero = 0
    OBVIOUS
  <1> DEFINE new == [op |-> op, pc |-> "sent", keys |-> keys, at |-> zero]
             n == formHistory.asked + 1
  <1>2. asks[a].pc = "idle" /\ asks' = [asks EXCEPT ![a] = new]
    BY <1>1 DEF AskFor
  <1>3. /\ UNCHANGED <<savedId, chosenSoFar, cropper, images, saving, existing, formLeft>>
        /\ UNCHANGED <<listed, stored>>
    BY DEF AskPage, ServerSame
  <1>4. new \in Asking /\ new.op = op /\ new.pc = "sent" /\ new.keys = keys
    BY DEF Asking
  <1> HIDE DEF new
  <1>5. asks \in [1..AskCount -> Asking]
    BY DEF FormInv, AskTypes
  <1>6. /\ asks' \in [1..AskCount -> Asking] /\ asks'[a] = new
        /\ \A b \in 1..AskCount : b # a => asks'[b] = asks[b]
    BY <1>2, <1>4, <1>5, OneAsk
  <1>7. /\ formHistory' \in FormHistories /\ formHistory'.unheard = formHistory.unheard
        /\ formHistory'.crossed = formHistory.crossed /\ formHistory'.removed = formHistory.removed
        /\ formHistory'.version = formHistory.version /\ formHistory'.seen = formHistory.seen
        /\ formHistory'.replaced = formHistory.replaced
    <2>1. formHistory \in FormHistories /\ n \in Nat
      BY DEF FormInv, SavingTypes, FormHistories
    <2>2. formHistory' = [formHistory EXCEPT !.asked = n]
      BY DEF AskPage
    <2> HIDE DEF n
    <2> QED
      BY <2>1, <2>2 DEF FormHistories
  <1>8. PageTypes'
    BY <1>3 DEF FormInv, PageTypes
  <1>9. ServerTypes'
    BY <1>3 DEF FormInv, ServerTypes
  <1>10. SavingTypes' /\ BatchStays'
    BY <1>3, <1>7, SavingRests
  <1>11. ChosenOnce'
    BY <1>3, ChoiceRests
  <1>12. StoredApart'
    <2>1. ~formHistory'.unheard =>
            /\ IsInjective(stored') /\ IsInjective(existing')
            /\ \A b \in 1..AskCount : IsInjective(asks'[b].keys)
      BY <1>3, <1>4, <1>6, <1>7 DEF FormInv, StoredApart
    <2> QED
      BY <1>3, <1>7, <2>1, ApartRests
  <1>13. AskTypes'
    BY <1>3, <1>4, <1>6 DEF FormInv, AskTypes
  <1>14. AnswersAreOld'
    BY <1>4, <1>6, <1>7 DEF FormInv, AnswersAreOld
  <1>15. ShownSettles'
    <2>1. CASE op = "load"
      <3>1. editing => \A b \in 1..AskCount :
              asks'[b].pc = "done" => asks[b].pc = "done" /\ asks'[b] = asks[b]
        BY <1>4, <1>6
      <3>2. ~editing => \A b \in 1..AskCount : asks'[b].pc # "done"
        BY <1>4, <1>6 DEF FormInv, AskTypes
      <3>3. asks'[a].pc = "sent" /\ asks'[a].op = "load"
        BY <1>4, <1>6, <2>1
      <3> QED
        BY <1>3, <1>7, <3>1, <3>2, <3>3 DEF FormInv, ShownSettles
    <2>2. CASE op # "load"
      <3>1. \A b \in 1..AskCount : asks'[b].pc = "done" => asks[b].pc = "done" /\ asks'[b] = asks[b]
        BY <1>4, <1>6
      <3>2. \A b \in 1..AskCount : asks[b].pc # "idle" => asks'[b] = asks[b]
        BY <1>2, <1>6
      <3> QED
        BY <1>3, <1>7, <2>2, <3>1, <3>2 DEF FormInv, ShownSettles
    <2> QED
      BY <2>1, <2>2
  <1> QED
    BY <1>8, <1>9, <1>10, <1>11, <1>12, <1>13, <1>14, <1>15 DEF FormInv

\* A dealer removes or moves a photo shown, or has the photos loaded again.
LEMMA ClickedStep ==
  ASSUME FormInv, NEW a \in 1..AskCount,
         RetryImages(a) \/ \E i \in DOMAIN existing : DeleteImage(a, i) \/ MoveExistingImage(a, i)
  PROVE  FormInv'
  <1>1. existing \in Seq(ServerPhotos) /\ (existing # <<>> => editing) /\ editing \in BOOLEAN
    BY DEF FormInv, AskTypes, PageTypes
  <1>2. CASE RetryImages(a)
    <2> DEFINE none == <<>>
    <2>1. none \in Seq(ServerPhotos) /\ IsInjective(none)
      BY NoFiles
    <2>2. AskFor(a, "load", none) /\ AskPage /\ editing' = TRUE /\ formSays' = formSays
      BY <1>2 DEF RetryImages
    <2> HIDE DEF none
    <2> QED
      BY <2>1, <2>2, AskedStep
  <1>3. ASSUME NEW i \in DOMAIN existing, DeleteImage(a, i)
        PROVE  FormInv'
    <2> DEFINE keys == <<existing[i]>>
    <2>1. existing[i] \in ServerPhotos /\ existing # <<>>
      BY <1>1, <1>3
    <2>2. keys \in Seq(ServerPhotos) /\ keys # <<>> /\ IsInjective(keys)
      BY <2>1 DEF IsInjective
    <2>3. AskFor(a, "remove", keys) /\ AskPage /\ editing' = editing /\ formSays' = formSays
      BY <1>3 DEF DeleteImage
    <2> HIDE DEF keys
    <2> QED
      BY <1>1, <2>1, <2>2, <2>3, AskedStep
  <1>4. ASSUME NEW i \in DOMAIN existing, MoveExistingImage(a, i)
        PROVE  FormInv'
    <2> DEFINE keys == [existing EXCEPT ![i] = existing[i + 1], ![i + 1] = existing[i]]
    <2>1. existing # <<>> /\ i < Len(existing)
      BY <1>1, <1>4 DEF MoveExistingImage
    <2>2. keys \in Seq(ServerPhotos) /\ (IsInjective(existing) => IsInjective(keys))
      BY <1>1, <2>1, Swapped
    <2>3. /\ AskFor(a, "reorder", keys) /\ AskPage /\ editing' = editing
          /\ formSays' = (IF formSays = "error" THEN "nothing" ELSE formSays)
      BY <1>4 DEF MoveExistingImage
    <2> HIDE DEF keys
    <2>4. formSays' \in {"nothing", "error", formSays}
      BY <2>3
    <2>5. ~formHistory.unheard => IsInjective(keys)
      BY <2>2 DEF FormInv, StoredApart
    <2> QED
      BY <1>1, <2>1, <2>2, <2>3, <2>4, <2>5, AskedStep
  <1> QED
    BY <1>2, <1>3, <1>4

\* What the server's photos are after a request that it can do.
LEMMA WantedIs ==
  ASSUME FormInv, NEW a \in 1..AskCount, asks[a].pc = "sent", Possible(asks[a])
  PROVE  /\ Wanted(asks[a]) \in Seq(ServerPhotos) /\ Len(Wanted(asks[a])) <= Len(stored)
         /\ Range(Wanted(asks[a])) \subseteq Range(stored)
         /\ (Wanted(asks[a]) # <<>> => stored # <<>>)
         /\ (~formHistory.unheard => IsInjective(Wanted(asks[a])))
  <1>1. asks[a] \in Asking /\ stored \in Seq(ServerPhotos)
    BY DEF FormInv, AskTypes, ServerTypes
  <1>2. ~formHistory.unheard => IsInjective(stored) /\ IsInjective(asks[a].keys)
    BY DEF FormInv, StoredApart
  <1>3. asks[a].keys \in Seq(ServerPhotos) /\ Len(stored) \in Nat /\ Len(asks[a].keys) \in Nat
    BY <1>1 DEF Asking
  <1>4. CASE asks[a].op = "remove"
    <2> DEFINE v == Head(asks[a].keys)
               w == RemoveFirst(stored, v)
    <2>1. Wanted(asks[a]) = w
      BY <1>4 DEF Wanted
    <2>2. /\ w \in Seq(ServerPhotos) /\ Len(w) <= Len(stored) /\ Range(w) \subseteq Range(stored)
          /\ (w # <<>> => stored # <<>>)
      BY <1>1, RemovedSome
    <2>3. IsInjective(stored) => IsInjective(w)
      BY <1>1, RemovedOnce
    <2> HIDE DEF w
    <2> QED
      BY <1>2, <2>1, <2>2, <2>3
  <1>5. CASE asks[a].op = "reorder"
    <2>1. /\ Wanted(asks[a]) = asks[a].keys /\ Len(asks[a].keys) = Len(stored)
          /\ Range(asks[a].keys) = Range(stored)
      BY <1>5 DEF Wanted, Possible
    <2>2. asks[a].keys # <<>> => stored # <<>>
      BY <1>1, <1>3, <2>1
    <2> QED
      BY <1>2, <1>3, <2>1, <2>2
  <1>6. CASE asks[a].op \notin {"remove", "reorder"}
    <2>1. Wanted(asks[a]) = stored
      BY <1>6 DEF Wanted
    <2> QED
      BY <1>1, <1>2, <1>3, <2>1
  <1> QED
    BY <1>4, <1>5, <1>6

\* The server does what it was asked for, or refuses it.
LEMMA ServerAnswersStep ==
  ASSUME FormInv, NEW a \in 1..AskCount, ServerAnswers(a)
  PROVE  FormInv'
  <1>1. /\ asks[a].pc = "sent"
        /\ UNCHANGED <<editing, savedId, chosenSoFar, cropper, images, saving, formLeft, listed>>
        /\ UNCHANGED <<formSays, existing>>
    BY DEF ServerAnswers, AskedPage
  <1>2. asks \in [1..AskCount -> Asking] /\ asks[a] \in Asking /\ formHistory \in FormHistories /\ editing
    BY <1>1 DEF FormInv, AskTypes, SavingTypes, PageTypes
  <1>3. stored \in Seq(ServerPhotos) /\ Len(stored) \in Nat /\ MaxImages \in Nat /\ Len(stored) <= MaxImages
    BY ListingFormAssumption DEF FormInv, ServerTypes
  <1>4. PageTypes'
    BY <1>1 DEF FormInv, PageTypes
  <1>5. CASE Possible(asks[a])
    <2> DEFINE now == Wanted(asks[a])
               v == formHistory.version + 1
               new == [asks[a] EXCEPT !.pc = "done", !.keys = now, !.at = v]
               gone == formHistory.removed \cup (Range(stored) \ Range(now))
    <2>1. /\ now \in Seq(ServerPhotos) /\ Len(now) <= Len(stored) /\ Range(now) \subseteq Range(stored)
          /\ (now # <<>> => stored # <<>>)
          /\ (~formHistory.unheard => IsInjective(now))
      BY <1>1, <1>5, WantedIs
    <2>2. v \in Nat /\ v > formHistory.version /\ formHistory.version \in Nat /\ formHistory.seen \in Nat
      BY <1>2 DEF FormHistories
    <2>3. gone \in SUBSET ServerPhotos
      BY <1>2, <1>3 DEF FormHistories, Range
    <2>4. stored' = now /\ formHistory' = [formHistory EXCEPT !.version = v, !.removed = gone]
      BY <1>5 DEF ServerAnswers
    <2>5. asks' = [asks EXCEPT ![a] = new]
      <3>1. asks' = [asks EXCEPT ![a].pc = "done", ![a].keys = stored', ![a].at = formHistory.version + 1]
        BY <1>5 DEF ServerAnswers
      <3> HIDE DEF now
      <3>2. asks' = [asks EXCEPT ![a].pc = "done", ![a].keys = now, ![a].at = v]
        BY <2>4, <3>1
      <3> HIDE DEF v
      <3>3. asks' = [asks EXCEPT ![a] = [asks[a] EXCEPT !.pc = "done", !.keys = now, !.at = v]]
        BY <1>2, <3>2
      <3> QED
        BY <3>3
    <2> HIDE DEF now, v
    <2>6. new \in Asking /\ new.pc = "done" /\ new.keys = now /\ new.at = v /\ new.op = asks[a].op
      BY <1>2, <2>1, <2>2 DEF Asking
    <2> HIDE DEF new
    <2>7. /\ asks' \in [1..AskCount -> Asking] /\ asks'[a] = new
          /\ \A b \in 1..AskCount : b # a => asks'[b] = asks[b]
      BY <1>2, <2>5, <2>6, OneAsk
    <2> HIDE DEF gone
    <2>8. /\ formHistory' \in FormHistories /\ formHistory'.unheard = formHistory.unheard
          /\ formHistory'.crossed = formHistory.crossed /\ formHistory'.removed = gone
          /\ formHistory'.version = v /\ formHistory'.seen = formHistory.seen
          /\ formHistory'.replaced = formHistory.replaced
      BY <1>2, <2>2, <2>3, <2>4 DEF FormHistories
    <2>9. ServerTypes'
      <3>1. Len(now) \in Nat
        BY <2>1
      <3>2. Len(now) <= MaxImages
        BY <1>3, <2>1, <3>1
      <3> QED
        BY <1>1, <2>1, <2>4, <3>2 DEF FormInv, ServerTypes
    <2>10. SavingTypes' /\ BatchStays'
      <3>1. Range(stored) \cup formHistory.removed \subseteq Range(stored') \cup formHistory'.removed
        BY <2>4, <2>8 DEF gone
      <3> QED
        BY <1>1, <2>8, <3>1, SavingRests
    <2>11. ChosenOnce'
      BY <1>1, <2>1, <2>4, ChoiceRests
    <2>12. StoredApart'
      <3>1. ~formHistory'.unheard =>
              /\ IsInjective(stored') /\ IsInjective(existing')
              /\ \A b \in 1..AskCount : IsInjective(asks'[b].keys)
        BY <1>1, <2>1, <2>4, <2>6, <2>7, <2>8 DEF FormInv, StoredApart
      <3> QED
        BY <1>1, <2>1, <2>4, <2>8, <3>1, ApartRests
    <2>13. AskTypes'
      BY <1>1, <1>2, <2>6, <2>7 DEF FormInv, AskTypes
    <2>14. AnswersAreOld'
      <3>1. \A b \in 1..AskCount : asks'[b].pc = "done" => asks'[b].at <= v
        <4>1. \A b \in 1..AskCount : asks[b].at \in Nat
          BY <1>2 DEF Asking
        <4> QED
          BY <2>2, <2>6, <2>7, <4>1 DEF FormInv, AnswersAreOld
      <3> QED
        BY <2>2, <2>8, <3>1 DEF FormInv, AnswersAreOld
    <2>15. ShownSettles'
      <3>1. ASSUME NEW b \in 1..AskCount, asks'[b].pc = "done", asks'[b].at = v
            PROVE  asks'[b].keys = stored'
        <4>1. CASE b = a
          BY <2>4, <2>6, <2>7, <4>1
        <4>2. CASE b # a
          <5>1. asks[b].pc = "done" /\ asks[b].at = v /\ asks[b].at <= formHistory.version
            BY <2>7, <3>1, <4>2 DEF FormInv, AnswersAreOld
          <5> QED
            BY <2>2, <5>1
        <4> QED
          BY <4>1, <4>2
      <3>2. asks'[a].pc = "done" /\ asks'[a].at = formHistory'.version
        BY <2>6, <2>7, <2>8
      <3> QED
        BY <2>8, <3>1, <3>2 DEF ShownSettles
    <2> QED
      BY <1>4, <2>9, <2>10, <2>11, <2>12, <2>13, <2>14, <2>15 DEF FormInv
  <1>6. CASE ~Possible(asks[a])
    <2> DEFINE new == [asks[a] EXCEPT !.pc = "refused"]
    <2>1. stored' = stored /\ formHistory' = formHistory /\ asks' = [asks EXCEPT ![a] = new]
      BY <1>6 DEF ServerAnswers
    <2>2. /\ new \in Asking /\ new.pc = "refused" /\ new.keys = asks[a].keys /\ new.op = asks[a].op
          /\ asks[a].op # "load"
      BY <1>2, <1>6 DEF Asking, Possible
    <2> HIDE DEF new
    <2>3. /\ asks' \in [1..AskCount -> Asking] /\ asks'[a] = new
          /\ \A b \in 1..AskCount : b # a => asks'[b] = asks[b]
      BY <1>2, <2>1, <2>2, OneAsk
    <2>4. ServerTypes'
      BY <1>1, <2>1 DEF FormInv, ServerTypes
    <2>5. SavingTypes' /\ BatchStays'
      BY <1>1, <1>2, <2>1, SavingRests
    <2>6. ChosenOnce'
      BY <1>1, <2>1, ChoiceRests
    <2>7. StoredApart'
      <3>1. ~formHistory'.unheard =>
              /\ IsInjective(stored') /\ IsInjective(existing')
              /\ \A b \in 1..AskCount : IsInjective(asks'[b].keys)
        BY <1>1, <2>1, <2>2, <2>3 DEF FormInv, StoredApart
      <3> QED
        BY <1>1, <2>1, <3>1, ApartRests
    <2>8. AskTypes'
      BY <1>1, <1>2, <2>2, <2>3 DEF FormInv, AskTypes
    <2>9. AnswersAreOld'
      BY <2>1, <2>2, <2>3 DEF FormInv, AnswersAreOld
    <2>10. \A b \in 1..AskCount : asks'[b].pc = "done" => asks[b].pc = "done" /\ asks'[b] = asks[b]
      BY <2>2, <2>3
    <2>11. \A b \in 1..AskCount : asks[b].pc = "done" \/ asks[b].op = "load" => asks'[b] = asks[b]
      BY <1>1, <2>2, <2>3
    <2>12. ShownSettles'
      BY <1>1, <2>1, <2>10, <2>11 DEF FormInv, ShownSettles
    <2> QED
      BY <1>4, <2>4, <2>5, <2>6, <2>7, <2>8, <2>9, <2>12 DEF FormInv
  <1> QED
    BY <1>5, <1>6

\* A request that has ended is none of those under way.
LEMMA AskEnds ==
  ASSUME FormInv, NEW a \in 1..AskCount, asks' = [asks EXCEPT ![a] = NoAsk]
  PROVE  /\ asks' \in [1..AskCount -> Asking] /\ asks'[a].pc = "idle" /\ IsInjective(asks'[a].keys)
         /\ \A b \in 1..AskCount : b # a => asks'[b] = asks[b]
         /\ \A b \in 1..AskCount : asks'[b].pc # "idle" => b # a
  <1> DEFINE none == NoAsk
  <1>1. none \in Asking /\ none.pc = "idle" /\ IsInjective(none.keys)
    BY NoAskIs
  <1>2. asks \in [1..AskCount -> Asking] /\ asks' = [asks EXCEPT ![a] = none]
    BY DEF FormInv, AskTypes
  <1> HIDE DEF none
  <1>3. asks' \in [1..AskCount -> Asking] /\ asks'[a] = none /\ \A b \in 1..AskCount : b # a => asks'[b] = asks[b]
    BY <1>1, <1>2, OneAsk
  <1> QED
    BY <1>1, <1>3

\* An answer shows its photos.
LEMMA AnswerShownStep ==
  ASSUME FormInv, NEW a \in 1..AskCount, AnswerShown(a)
  PROVE  FormInv'
  <1> DEFINE t == asks[a].at
             c == formHistory.crossed \/ asks[a].at < formHistory.seen
  <1>1. /\ asks[a].pc = "done" /\ existing' = asks[a].keys /\ asks' = [asks EXCEPT ![a] = NoAsk]
        /\ formHistory' = [formHistory EXCEPT !.crossed = c, !.seen = t]
        /\ UNCHANGED <<editing, savedId, chosenSoFar, cropper, images, saving, formLeft, listed>>
        /\ UNCHANGED <<formSays, stored>>
    BY DEF AnswerShown, AskedPage
  <1>2. /\ asks \in [1..AskCount -> Asking] /\ asks[a] \in Asking /\ formHistory \in FormHistories /\ editing
    BY <1>1 DEF FormInv, AskTypes, SavingTypes, PageTypes
  <1>3. /\ t \in Nat /\ c \in BOOLEAN /\ asks[a].keys \in Seq(ServerPhotos)
        /\ formHistory.seen \in Nat /\ formHistory.version \in Nat
    BY <1>2 DEF Asking, FormHistories
  <1>4. /\ t <= formHistory.version /\ formHistory.seen <= formHistory.version
        /\ (~c => ~formHistory.crossed /\ t >= formHistory.seen)
    BY <1>1, <1>3 DEF FormInv, AnswersAreOld
  <1> HIDE DEF t, c
  <1>5. /\ formHistory' \in FormHistories /\ formHistory'.unheard = formHistory.unheard
        /\ formHistory'.crossed = c /\ formHistory'.removed = formHistory.removed
        /\ formHistory'.version = formHistory.version /\ formHistory'.seen = t
        /\ formHistory'.replaced = formHistory.replaced
    BY <1>1, <1>2, <1>3 DEF FormHistories
  <1>6. /\ asks' \in [1..AskCount -> Asking] /\ asks'[a].pc = "idle" /\ IsInjective(asks'[a].keys)
        /\ \A b \in 1..AskCount : b # a => asks'[b] = asks[b]
        /\ \A b \in 1..AskCount : asks'[b].pc # "idle" => b # a
    BY <1>1, AskEnds
  <1>7. PageTypes'
    BY <1>1 DEF FormInv, PageTypes
  <1>8. ServerTypes'
    BY <1>1 DEF FormInv, ServerTypes
  <1>9. SavingTypes' /\ BatchStays'
    BY <1>1, <1>5, SavingRests
  <1>10. ChosenOnce'
    BY <1>1, ChoiceRests
  <1>11. StoredApart'
    <2>1. ~formHistory'.unheard =>
            /\ IsInjective(stored') /\ IsInjective(existing')
            /\ \A b \in 1..AskCount : IsInjective(asks'[b].keys)
      BY <1>1, <1>5, <1>6 DEF FormInv, StoredApart
    <2> QED
      BY <1>1, <1>5, <2>1, ApartRests
  <1>12. AskTypes'
    BY <1>1, <1>2, <1>3, <1>6 DEF FormInv, AskTypes
  <1>13. AnswersAreOld'
    BY <1>4, <1>5, <1>6 DEF FormInv, AnswersAreOld
  <1>14. ShownSettles'
    <2>1. ASSUME ~formHistory'.unheard, ~formHistory'.crossed
          PROVE  /\ \A b \in 1..AskCount : asks'[b].pc = "done" /\ asks'[b].at = formHistory.version => asks'[b].keys = stored
                 /\ \/ \E b \in 1..AskCount : asks'[b].pc = "sent" /\ asks'[b].op = "load"
                    \/ \E b \in 1..AskCount : asks'[b].pc = "done" /\ asks'[b].at = formHistory.version
                    \/ t = formHistory.version /\ existing' = stored
      <3>1. ~formHistory.unheard /\ ~formHistory.crossed /\ t >= formHistory.seen
        BY <1>4, <1>5, <2>1
      <3>2. /\ \A b \in 1..AskCount : asks[b].pc = "done" /\ asks[b].at = formHistory.version => asks[b].keys = stored
            /\ \/ \E b \in 1..AskCount : asks[b].pc = "sent" /\ asks[b].op = "load"
               \/ \E b \in 1..AskCount : asks[b].pc = "done" /\ asks[b].at = formHistory.version
               \/ formHistory.seen = formHistory.version /\ existing = stored
        BY <1>2, <3>1 DEF FormInv, ShownSettles
      <3>3. \A b \in 1..AskCount : asks'[b].pc = "done" => asks'[b] = asks[b]
        BY <1>6
      <3>4. CASE t = formHistory.version
        BY <1>1, <3>2, <3>3, <3>4 DEF t
      <3>5. CASE t # formHistory.version
        <4>1. formHistory.seen # formHistory.version
          BY <1>3, <1>4, <3>1, <3>5
        <4>2. \A b \in 1..AskCount :
                (asks[b].pc = "sent" \/ (asks[b].pc = "done" /\ asks[b].at = formHistory.version)) => asks'[b] = asks[b]
          BY <1>1, <1>6, <3>5 DEF t
        <4> QED
          BY <3>2, <3>3, <4>1, <4>2
      <3> QED
        BY <3>4, <3>5
    <2> QED
      BY <1>1, <1>5, <2>1 DEF ShownSettles
  <1> QED
    BY <1>7, <1>8, <1>9, <1>10, <1>11, <1>12, <1>13, <1>14 DEF FormInv

\* A request is refused, fails, or its answer is lost.
LEMMA AnswerFailsStep ==
  ASSUME FormInv, NEW a \in 1..AskCount, AnswerFails(a)
  PROVE  FormInv'
  <1>1. /\ asks' = [asks EXCEPT ![a] = NoAsk] /\ formSays' = "error"
        /\ UNCHANGED <<editing, savedId, chosenSoFar, cropper, images, saving, formLeft, listed>>
        /\ UNCHANGED <<existing, stored>>
    BY DEF AnswerFails, AskedPage
  <1>2. asks[a].pc \in {"refused", "sent", "done"}
    BY DEF AnswerFails
  <1>3. asks \in [1..AskCount -> Asking] /\ asks[a] \in Asking /\ formHistory \in FormHistories /\ editing
    BY <1>2 DEF FormInv, AskTypes, SavingTypes, PageTypes
  <1>4. /\ formHistory' \in FormHistories
        /\ formHistory'.unheard \/ (asks[a].pc # "done" /\ ~(asks[a].pc = "sent" /\ asks[a].op = "load"))
        /\ formHistory.unheard => formHistory'.unheard
        /\ formHistory'.version = formHistory.version /\ formHistory'.seen = formHistory.seen
        /\ formHistory'.crossed = formHistory.crossed /\ formHistory'.removed = formHistory.removed
        /\ formHistory'.replaced = formHistory.replaced
    <2>1. CASE asks[a].pc = "refused" /\ UNCHANGED formHistory
      BY <1>3, <2>1
    <2>2. CASE asks[a].pc = "sent" /\ FormFault(asks[a].op = "load")
      <3> DEFINE u == asks[a].op = "load"
      <3>1. u \in BOOLEAN /\ FormFault(u)
        BY <2>2
      <3>2. asks[a].op = "load" => u
        OBVIOUS
      <3> HIDE DEF u
      <3> QED
        BY <1>3, <2>2, <3>1, <3>2, FormFaultStep
    <2>3. CASE asks[a].pc = "done" /\ FormFault(TRUE)
      <3>1. TRUE \in BOOLEAN
        OBVIOUS
      <3> QED
        BY <1>3, <2>3, <3>1, FormFaultStep
    <2> QED
      BY <2>1, <2>2, <2>3 DEF AnswerFails
  <1>5. /\ asks' \in [1..AskCount -> Asking] /\ asks'[a].pc = "idle" /\ IsInjective(asks'[a].keys)
        /\ \A b \in 1..AskCount : b # a => asks'[b] = asks[b]
        /\ \A b \in 1..AskCount : asks'[b].pc # "idle" => b # a
    BY <1>1, AskEnds
  <1>6. PageTypes'
    BY <1>1 DEF FormInv, PageTypes
  <1>7. ServerTypes'
    BY <1>1 DEF FormInv, ServerTypes
  <1>8. SavingTypes' /\ BatchStays'
    BY <1>1, <1>4, SavingRests
  <1>9. ChosenOnce'
    BY <1>1, ChoiceRests
  <1>10. StoredApart'
    <2>1. ~formHistory'.unheard =>
            /\ IsInjective(stored') /\ IsInjective(existing')
            /\ \A b \in 1..AskCount : IsInjective(asks'[b].keys)
      BY <1>1, <1>4, <1>5 DEF FormInv, StoredApart
    <2> QED
      BY <1>1, <1>4, <2>1, ApartRests
  <1>11. AskTypes'
    BY <1>1, <1>3, <1>5 DEF FormInv, AskTypes
  <1>12. AnswersAreOld'
    BY <1>4, <1>5 DEF FormInv, AnswersAreOld
  <1>13. \A b \in 1..AskCount : asks'[b].pc = "done" => asks'[b] = asks[b]
    BY <1>5
  <1>14. ShownSettles'
    <2>1. ASSUME ~formHistory'.unheard
          PROVE  \A b \in 1..AskCount :
                   asks[b].pc = "done" \/ (asks[b].pc = "sent" /\ asks[b].op = "load") => asks'[b] = asks[b]
      BY <1>4, <1>5, <2>1
    <2> QED
      BY <1>1, <1>4, <1>13, <2>1 DEF FormInv, ShownSettles
  <1> QED
    BY <1>6, <1>7, <1>8, <1>9, <1>10, <1>11, <1>12, <1>14 DEF FormInv

\* The form is opened for a new listing, or loads the photos of one.
LEMMA FormStart ==
  ASSUME ListingFormInit
  PROVE  FormInv
  <1>1. PICK zero \in Nat : zero = 0 /\ zero \in 0..PhotoCount
    BY ListingFormAssumption
  <1>2. NoCropper = [queue |-> <<>>, done |-> <<>>, picture |-> zero]
    BY <1>1 DEF NoCropper
  <1>3. NoCropper \in Cropping /\ NoCropper.queue = <<>> /\ NoCropper.done = <<>>
    BY <1>1, <1>2, NoFiles DEF Cropping
  <1>4. NotSaving \in Savings /\ NotSaving.pc = "idle" /\ NotSaving.left = <<>> /\ NotSaving.batch = {}
    BY NoFiles DEF NotSaving, Savings
  <1>5. /\ editing \in BOOLEAN /\ savedId = editing /\ listed = editing /\ chosenSoFar = 0
        /\ cropper = NoCropper /\ images = <<>> /\ saving = NotSaving /\ formSays = "nothing"
        /\ existing = <<>> /\ formLeft = FALSE
    BY DEF ListingFormInit
  <1>6. /\ stored \in Seq(ServerPhotos) /\ IsInjective(stored) /\ Len(stored) <= MaxImages
        /\ Range(stored) \cap Photos = {} /\ (~editing => stored = <<>>)
    <2>1. CASE editing
      <3> DEFINE old == [i \in 1..OldCount |-> PhotoCount + i]
      <3>1. PhotoCount \in Nat /\ OldCount \in Nat /\ MaxImages \in Nat /\ OldCount <= MaxImages
        BY ListingFormAssumption
      <3>2. \A i \in 1..OldCount : old[i] = PhotoCount + i /\ PhotoCount + i \in ServerPhotos /\ PhotoCount + i \notin Photos
        BY <3>1 DEF ServerPhotos, OldPhotos, Photos
      <3>3. DOMAIN old = 1..OldCount /\ Len(old) = OldCount /\ old \in Seq(ServerPhotos)
        BY <3>1, <3>2
      <3>4. stored = old
        BY <2>1 DEF ListingFormInit
      <3> HIDE DEF old
      <3>5. IsInjective(old)
        BY <3>1, <3>2, <3>3 DEF IsInjective
      <3>6. Range(old) \cap Photos = {}
        BY <3>2, <3>3 DEF Range
      <3> QED
        BY <2>1, <3>1, <3>3, <3>4, <3>5, <3>6
    <2>2. CASE ~editing
      <3>1. stored = <<>>
        BY <2>2 DEF ListingFormInit
      <3>2. Len(<<>>) <= MaxImages
        BY ListingFormAssumption
      <3> QED
        BY <3>1, <3>2, NoFiles
    <2> QED
      BY <1>5, <2>1, <2>2
  <1>7. /\ formHistory \in FormHistories /\ formHistory.version = zero /\ formHistory.seen = zero
        /\ ~formHistory.unheard /\ ~formHistory.crossed
    <2>1. formHistory = [version |-> zero, seen |-> zero, asked |-> zero, faults |-> zero, unheard |-> FALSE,
                         crossed |-> FALSE, removed |-> {}, replaced |-> {}]
      BY <1>1 DEF ListingFormInit
    <2> QED
      BY <1>1, <2>1 DEF FormHistories
  <1>8. /\ asks \in [1..AskCount -> Asking]
        /\ \A a \in 1..AskCount : asks[a].op # "remove" /\ asks[a].pc # "done" /\ IsInjective(asks[a].keys)
        /\ \A a \in 1..AskCount : ~editing => asks[a].pc = "idle"
        /\ (editing => \E a \in 1..AskCount : asks[a].pc = "sent" /\ asks[a].op = "load")
    <2> DEFINE ask == [NoAsk EXCEPT !.op = "load", !.pc = "sent"]
               none == NoAsk
               first(a) == a = 1 /\ editing
    <2>1. none \in Asking /\ none.pc = "idle" /\ none.op = "none" /\ IsInjective(none.keys)
      BY NoAskIs
    <2>2. ask \in Asking /\ ask.op = "load" /\ ask.pc = "sent" /\ ask.keys = none.keys
      BY <2>1 DEF Asking
    <2>3. asks = [a \in 1..AskCount |-> IF first(a) THEN ask ELSE none]
      BY DEF ListingFormInit
    <2>4. 1 \in 1..AskCount
      BY ListingFormAssumption
    <2>5. (editing => first(1)) /\ \A a : first(a) => editing
      OBVIOUS
    <2> HIDE DEF ask, none, first
    <2> QED
      BY <2>1, <2>2, <2>3, <2>4, <2>5
  <1>9. /\ Files(images) = {} /\ Files(cropper.done) = {} /\ Range(cropper.queue) = {} /\ Files(saving.left) = {}
        /\ Range(images) = {} /\ Range(saving.left) = {} /\ saving.batch = {}
        /\ OneEach(images) /\ OneEach(cropper.done) /\ OneEach(saving.left) /\ IsInjective(cropper.queue)
        /\ IsInjective(existing)
    BY <1>3, <1>4, <1>5, NoFiles
  <1>10. PageTypes
    BY <1>1, <1>3, <1>5, NoFiles DEF PageTypes
  <1>11. SavingTypes
    BY <1>4, <1>5, <1>7, <1>9 DEF SavingTypes
  <1>12. ServerTypes
    BY <1>5, <1>6 DEF ServerTypes
  <1>13. AskTypes
    BY <1>5, <1>8, NoFiles DEF AskTypes
  <1>14. ChosenOnce
    BY <1>6, <1>9 DEF ChosenOnce
  <1>15. StoredApart
    BY <1>4, <1>5, <1>6, <1>8, <1>9 DEF StoredApart
  <1>16. BatchStays
    BY <1>9 DEF BatchStays
  <1>17. AnswersAreOld
    BY <1>7, <1>8 DEF AnswersAreOld
  <1>18. ShownSettles
    BY <1>7, <1>8 DEF ShownSettles
  <1> QED
    BY <1>10, <1>11, <1>12, <1>13, <1>14, <1>15, <1>16, <1>17, <1>18 DEF FormInv

\* Every step of the form keeps its invariant.
LEMMA FormStep ==
  ASSUME FormInv, ListingFormNext
  PROVE  FormInv'
  <1>1. CASE HandleFilesSelected \/ HandleCropConfirm \/ HandleCropSkip
    BY <1>1, FilesSelectedStep, CropStep
  <1>2. CASE HandleSubmit \/ FormLeaves
    BY <1>2, FormSubmitStep, FormLeavesStep
  <1>3. CASE SavingStep
    BY <1>3, ServerSavesStep, ListingSavedStep, ServerStoresStep, PhotoSavedStep, SubmitErrorStep DEF SavingStep
  <1>4. ASSUME NEW a \in 1..AskCount, AskStep(a)
        PROVE  FormInv'
    BY <1>4, ServerAnswersStep, AnswerShownStep, AnswerFailsStep DEF AskStep
  <1>5. ASSUME NEW a \in 1..AskCount,
               RetryImages(a) \/ \E i \in DOMAIN existing : DeleteImage(a, i) \/ MoveExistingImage(a, i)
        PROVE  FormInv'
    BY <1>5, ClickedStep
  <1> QED
    BY <1>1, <1>2, <1>3, <1>4, <1>5 DEF ListingFormNext

\* What the form promises follows.
LEMMA FormConsequence ==
  ASSUME FormInv
  PROVE  ListingFormTypeOK /\ StoredOnce /\ NoneDropped /\ ExistingIsStored
  <1>1. /\ PageTypes /\ SavingTypes /\ ServerTypes /\ AskTypes
        /\ ChosenOnce /\ StoredApart /\ BatchStays /\ ShownSettles
    BY DEF FormInv
  <1>2. DOMAIN asks = 1..AskCount /\ \A a \in 1..AskCount : asks[a] \in Asking
    BY <1>1 DEF AskTypes
  <1>3. ListingFormTypeOK
    <2>1. {editing, savedId, formLeft, listed} \subseteq BOOLEAN /\ chosenSoFar \in 0..PhotoCount
      BY <1>1 DEF PageTypes, ServerTypes
    <2>2. IsInjective(images) /\ Range(images) \subseteq Photo
      BY <1>1, FilesOf DEF PageTypes, ChosenOnce, OneEach
    <2>3. /\ cropper.picture \in 0..PhotoCount /\ (cropper.queue = <<>> <=> cropper = NoCropper)
          /\ formSays \in {"nothing", "error", "success"}
      BY <1>1 DEF PageTypes, Cropping
    <2>4. saving.pc \in {"idle", "save", "saved", "photo", "stored"} /\ Files(saving.left) \subseteq saving.batch
      BY <1>1 DEF SavingTypes, Savings
    <2>5. Range(existing) \cup Range(stored) \subseteq Photos \cup OldPhotos
      <3>1. \A i \in DOMAIN existing : existing[i] \in ServerPhotos
        BY <1>1 DEF AskTypes
      <3>2. \A i \in DOMAIN stored : stored[i] \in ServerPhotos
        BY <1>1 DEF ServerTypes
      <3> QED
        BY <3>1, <3>2 DEF Range, ServerPhotos
    <2>6. Len(stored) <= MaxImages /\ (stored # <<>> => listed)
      BY <1>1 DEF ServerTypes
    <2>7. \A a \in DOMAIN asks : asks[a].pc \in {"idle", "sent", "done", "refused"}
      BY <1>2 DEF Asking
    <2> QED
      BY <2>1, <2>2, <2>3, <2>4, <2>5, <2>6, <2>7 DEF ListingFormTypeOK
  <1>4. StoredOnce
    BY <1>1 DEF StoredApart, StoredOnce
  <1>5. NoneDropped
    BY <1>1 DEF BatchStays, NoneDropped
  <1>6. ExistingIsStored
    <2>1. (\A a \in DOMAIN asks : asks[a].pc = "idle") => \A a \in 1..AskCount : asks[a].pc = "idle"
      BY <1>2
    <2> QED
      BY <1>1, <2>1 DEF ShownSettles, ExistingIsStored
  <1> QED
    BY <1>3, <1>4, <1>5, <1>6

-----------------------------------------------------------------------------
(* The inventory table. *)

Histories == [moves : Nat, actions : Nat, faults : Nat, early : BOOLEAN, hasty : BOOLEAN, missed : SUBSET Urls]
\* A row is ticked while nothing is asked for, or it was ticked early.
TicksHold == ~managerHistory.early => ticked \subseteq Shown /\ (ticked # {} => ~Fetches /\ url \notin tableStale)
\* What is asked for, and what is kept and is not asked for again, is what the server has unless a
\* change was missed, except between an action and its answer.
AnswersHold ==
  bulk.pc # "done" =>
    /\ \A a \in tableAsks : a.url \notin managerHistory.missed => a.rows = OnPage(a.url)
    /\ \A u \in DOMAIN table \ (tableStale \cup managerHistory.missed) :
         table[u].rows = OnPage(u) \/ \E a \in tableAsks : a.url = u
\* A text that waits brings back the view clicked last.
ViewHolds == ~managerHistory.hasty => url.view = wanted /\ (timer # NoUrl => timer.view = wanted)
ManagerTypes ==
  /\ ManagerTypeOK
  /\ \A u \in DOMAIN table : table[u].rows \subseteq Rows
  /\ bulk \in [pc : {"idle", "sent", "done", "refresh"}, action : Actions \cup {"none"}, ids : SUBSET Rows]
  /\ managerHistory \in Histories
ManagerInv == ManagerTypes /\ TicksHold /\ AnswersHold /\ ViewHolds

\* What a page holds depends on the listings only.
LEMMA OnPageStays ==
  ASSUME UNCHANGED inventory
  PROVE  \A u : OnPage(u)' = OnPage(u)
  BY DEF OnPage, Listed, Matches

\* A page holds listings of the dealer.
LEMMA OnPageRows ==
  \A u : OnPage(u) \subseteq Rows
  BY DEF OnPage, Listed

\* No URL is the one that stands for no text waiting.
LEMMA UrlsAreReal ==
  /\ NoUrl \notin Urls /\ FirstUrl \in Urls
  /\ \A u \in Urls : u.view \in Views /\ u.page \in Nat \ {0}
  BY DEF Urls, NoUrl, FirstUrl, Views

\* A bulk action makes a listing of a listing.
LEMMA AfterIsItem ==
  ASSUME NEW action, NEW item \in Items
  PROVE  After(action, item) \in Items
  <1>1. \A s \in {"active", "sold", "archived"} : [item EXCEPT !.status = s, !.stale = FALSE] \in Items
    BY DEF Items
  <1>2. [item EXCEPT !.stale = FALSE] \in Items /\ [item EXCEPT !.status = "gone"] \in Items
    BY DEF Items
  <1> QED
    BY <1>1, <1>2 DEF After

\* What is said of the table when none of it but the ticks changes.
LEMMA TableFrame ==
  ASSUME ManagerInv, UNCHANGED <<inventory, url, typed, timer, table, tableStale, tableAsks, wanted>>,
         dialog' \subseteq Rows, ticked' \subseteq Rows,
         bulk' \in [pc : {"idle", "sent", "done", "refresh"}, action : Actions \cup {"none"}, ids : SUBSET Rows],
         bulk'.pc # "done" => bulk.pc # "done" \/ DOMAIN table \cup Asked \subseteq managerHistory'.missed,
         managerHistory' \in Histories, managerHistory.missed \subseteq managerHistory'.missed,
         managerHistory.hasty => managerHistory'.hasty,
         TicksHold'
  PROVE  ManagerInv'
  <1>1. ManagerTypes'
    BY DEF ManagerInv, ManagerTypes, ManagerTypeOK, Histories
  <1>2. \A u : OnPage(u)' = OnPage(u)
    BY OnPageStays
  <1>3. AnswersHold'
    BY <1>2 DEF ManagerInv, AnswersHold, Asked
  <1>4. ViewHolds'
    BY DEF ManagerInv, ViewHolds
  <1> QED
    BY <1>1, <1>3, <1>4 DEF ManagerInv

\* Asking for the rows again, when they were never shown or are to be asked for again.
LEMMA AskForRowsStep ==
  ASSUME ManagerInv, AskForRows
  PROVE  ManagerInv'
  <1>1. /\ tableAsks' = {a \in tableAsks : a.url # url} \cup {Question(url)} /\ tableStale' = tableStale \ {url}
        /\ managerHistory' = [managerHistory EXCEPT !.missed = managerHistory.missed \ {url}]
        /\ UNCHANGED <<inventory, url, typed, timer, ticked, table, bulk, dialog, wanted>>
        /\ (~Answered \/ url \in tableStale)
    BY DEF AskForRows, AskTable
  <1>0. /\ managerHistory' \in Histories /\ managerHistory'.missed = managerHistory.missed \ {url}
        /\ \A f \in {"early", "hasty"} : managerHistory'[f] = managerHistory[f]
    <2> DEFINE m == managerHistory.missed \ {url}
    <2>1. m \in SUBSET Urls /\ managerHistory \in Histories /\ managerHistory' = [managerHistory EXCEPT !.missed = m]
      BY <1>1 DEF ManagerInv, ManagerTypes, Histories
    <2> HIDE DEF m
    <2>2. /\ managerHistory' \in Histories /\ managerHistory'.missed = m
          /\ \A f \in {"early", "hasty"} : managerHistory'[f] = managerHistory[f]
      BY <2>1 DEF Histories
    <2> QED
      BY <2>2 DEF m
  <1>2. Question(url).url = url /\ Question(url).rows = OnPage(url) /\ OnPage(url) \subseteq Rows
    BY OnPageRows DEF Question
  <1>3. ManagerTypes'
    BY <1>0, <1>1, <1>2 DEF ManagerInv, ManagerTypes, ManagerTypeOK, Histories
  <1>4. \A u : OnPage(u)' = OnPage(u)
    BY <1>1, OnPageStays
  <1>5. TicksHold'
    BY <1>0, <1>1 DEF ManagerInv, TicksHold, Shown, Answered
  <1>6. AnswersHold'
    <2>1. \A a \in tableAsks' : a \in tableAsks \/ a = Question(url)
      BY <1>1
    <2>2. \A a \in tableAsks : a.url # url => a \in tableAsks'
      BY <1>1
    <2>3. Question(url) \in tableAsks'
      BY <1>1
    <2> QED
      BY <1>0, <1>1, <1>2, <1>4, <2>1, <2>2, <2>3 DEF ManagerInv, AnswersHold
  <1>7. ViewHolds'
    BY <1>0, <1>1 DEF ManagerInv, ViewHolds
  <1> QED
    BY <1>3, <1>5, <1>6, <1>7 DEF ManagerInv

\* A failed request is counted, and what may have been missed is marked.
LEMMA ManagerFaultStep ==
  ASSUME managerHistory \in Histories, NEW keys \in SUBSET Urls, ManagerFault(keys)
  PROVE  /\ managerHistory' \in Histories
         /\ managerHistory'.missed = managerHistory.missed \cup keys
         /\ \A f \in {"early", "hasty"} : managerHistory'[f] = managerHistory[f]
  <1> DEFINE m == managerHistory.missed \cup keys
             n == managerHistory.faults + 1
  <1>1. managerHistory' = [managerHistory EXCEPT !.faults = n, !.missed = m]
    BY DEF ManagerFault
  <1>2. m \in SUBSET Urls /\ n \in Nat
    BY DEF Histories
  <1> HIDE DEF m, n
  <1>3. managerHistory' \in Histories /\ managerHistory'.missed = m
        /\ \A f \in {"early", "hasty"} : managerHistory'[f] = managerHistory[f]
    BY <1>1, <1>2 DEF Histories
  <1> QED
    BY <1>3 DEF m

\* An answer shows its rows, or is lost.
LEMMA RowsArriveStep ==
  ASSUME ManagerInv, NEW a \in tableAsks, RowsArrive(a)
  PROVE  ManagerInv'
  <1>1. /\ tableAsks' = tableAsks \ {a}
        /\ UNCHANGED <<inventory, url, typed, timer, ticked, bulk, dialog, wanted>>
        /\ a.url \in Urls /\ a.rows \subseteq Rows
    BY DEF RowsArrive, ManagerInv, ManagerTypes, ManagerTypeOK
  <1>2. \A u : OnPage(u)' = OnPage(u)
    BY <1>1, OnPageStays
  <1>3. CASE /\ table' = [u \in DOMAIN table \cup {a.url} |-> IF u = a.url THEN [rows |-> a.rows, pages |-> a.pages] ELSE table[u]]
             /\ tableStale' = tableStale \ {a.url} /\ UNCHANGED managerHistory
    <2>1. /\ DOMAIN table' = DOMAIN table \cup {a.url} /\ table'[a.url].rows = a.rows
          /\ \A u \in DOMAIN table : u # a.url => table'[u] = table[u]
      BY <1>3
    <2>2. ManagerTypes'
      BY <1>1, <1>3, <2>1 DEF ManagerInv, ManagerTypes, ManagerTypeOK
    <2>3. TicksHold'
      <3>1. ASSUME ticked # {}, ~managerHistory.early
            PROVE  a.url # url /\ Answered /\ url \notin tableStale /\ ticked \subseteq table[url].rows
        BY <3>1 DEF ManagerInv, TicksHold, Fetches, Shown
      <3>2. ASSUME ticked # {}, ~managerHistory.early
            PROVE  Answered' /\ table'[url] = table[url] /\ ~Fetches'
        BY <1>1, <2>1, <3>1, <3>2 DEF Answered, Fetches, ManagerInv, TicksHold
      <3> QED
        BY <1>1, <1>3, <3>1, <3>2 DEF TicksHold, Shown
    <2>4. AnswersHold'
      <3> DEFINE missed == managerHistory.missed
      <3>1. ASSUME bulk.pc # "done"
            PROVE  /\ \A b \in tableAsks' : b.url \notin missed => b.rows = OnPage(b.url)
                   /\ \A u \in DOMAIN table' \ (tableStale' \cup missed) :
                        table'[u].rows = OnPage(u) \/ \E b \in tableAsks' : b.url = u
        <4>1. /\ \A b \in tableAsks : b.url \notin missed => b.rows = OnPage(b.url)
              /\ \A u \in DOMAIN table \ (tableStale \cup missed) :
                   table[u].rows = OnPage(u) \/ \E b \in tableAsks : b.url = u
          BY <3>1 DEF ManagerInv, AnswersHold
        <4> HIDE DEF missed
        <4>2. ASSUME NEW u \in DOMAIN table' \ (tableStale' \cup missed), u # a.url
              PROVE  table'[u].rows = OnPage(u) \/ \E b \in tableAsks' : b.url = u
          BY <1>1, <1>3, <2>1, <4>1, <4>2
        <4> QED
          BY <1>1, <2>1, <4>1, <4>2
      <3> QED
        BY <1>1, <1>2, <1>3, <3>1 DEF AnswersHold
    <2>5. ViewHolds'
      BY <1>1, <1>3 DEF ManagerInv, ViewHolds
    <2> QED
      BY <2>2, <2>3, <2>4, <2>5 DEF ManagerInv
  <1>4. CASE ManagerFault({}) /\ tableStale' = tableStale \cup ({a.url} \cap DOMAIN table) /\ UNCHANGED table
    <2>0. {} \in SUBSET Urls /\ ManagerFault({}) /\ managerHistory \in Histories
      BY <1>4 DEF ManagerInv, ManagerTypes
    <2>1. /\ managerHistory' \in Histories /\ managerHistory'.missed = managerHistory.missed
          /\ \A f \in {"early", "hasty"} : managerHistory'[f] = managerHistory[f]
      BY <2>0, ManagerFaultStep
    <2>2. ManagerTypes'
      BY <1>1, <1>4, <2>1 DEF ManagerInv, ManagerTypes, ManagerTypeOK, Histories
    <2>3. TicksHold'
      BY <1>1, <1>4, <2>1 DEF ManagerInv, TicksHold, Fetches, Shown, Answered
    <2>4. AnswersHold'
      <3>1. \A u \in DOMAIN table' \ tableStale' : u \in DOMAIN table \ tableStale /\ u # a.url /\ table'[u] = table[u]
        BY <1>4
      <3> QED
        BY <1>1, <1>2, <2>1, <3>1 DEF ManagerInv, AnswersHold
    <2>5. ViewHolds'
      BY <1>1, <2>1 DEF ManagerInv, ViewHolds
    <2> QED
      BY <2>2, <2>3, <2>4, <2>5 DEF ManagerInv
  <1> QED
    BY <1>3, <1>4 DEF RowsArrive

\* A URL with other choices in it, on its first page, is a URL.
LEMMA FirstPageUrl ==
  ASSUME NEW u \in Urls, NEW v \in Views, NEW s \in {"all", "draft"}, NEW q \in BOOLEAN
  PROVE  /\ [u EXCEPT !.view = v, !.status = "all", !.page = 1] \in Urls
         /\ [u EXCEPT !.view = v, !.status = "all", !.page = 1].view = v
         /\ [u EXCEPT !.status = s, !.page = 1] \in Urls /\ [u EXCEPT !.status = s, !.page = 1].view = u.view
         /\ [u EXCEPT !.q = q, !.page = 1] \in Urls /\ [u EXCEPT !.q = q, !.page = 1].view = u.view
  <1>1. PICK p \in Nat \ {0} : p = 1
    OBVIOUS
  <1>2. PICK all \in {"all", "draft"} : all = "all"
    OBVIOUS
  <1>3. /\ [u EXCEPT !.view = v, !.status = all, !.page = p] \in Urls
        /\ [u EXCEPT !.view = v, !.status = all, !.page = p].view = v
    BY DEF Urls
  <1>4. /\ [u EXCEPT !.status = s, !.page = p] \in Urls /\ [u EXCEPT !.status = s, !.page = p].view = u.view
        /\ [u EXCEPT !.q = q, !.page = p] \in Urls /\ [u EXCEPT !.q = q, !.page = p].view = u.view
    BY DEF Urls
  <1> QED
    BY <1>1, <1>2, <1>3, <1>4

\* ... and so is one of another page.
LEMMA OtherPageUrl ==
  ASSUME NEW u \in Urls, NEW p \in Nat \ {0}
  PROVE  [u EXCEPT !.page = p] \in Urls /\ [u EXCEPT !.page = p].view = u.view
  BY DEF Urls

\* A step that changes the URL and unticks the rows, or changes neither.
LEMMA UrlFrame ==
  ASSUME ManagerInv, UNCHANGED <<inventory, table, tableStale, tableAsks, bulk, dialog>>,
         url' \in Urls, timer' \in Urls \cup {NoUrl}, typed' \in BOOLEAN, wanted' \in Views,
         ticked' = {} \/ UNCHANGED <<ticked, url>>,
         managerHistory' \in Histories,
         \A f \in {"missed", "early"} : managerHistory'[f] = managerHistory[f],
         ViewHolds'
  PROVE  ManagerInv'
  <1>1. ManagerTypes'
    BY DEF ManagerInv, ManagerTypes, ManagerTypeOK, Histories
  <1>2. \A u : OnPage(u)' = OnPage(u)
    BY OnPageStays
  <1>3. AnswersHold'
    BY <1>2 DEF ManagerInv, AnswersHold
  <1>4. TicksHold'
    <2>1. CASE ticked' = {}
      BY <2>1 DEF TicksHold
    <2>2. CASE UNCHANGED <<ticked, url>>
      BY <2>2 DEF ManagerInv, TicksHold, Shown, Answered, Fetches
    <2> QED
      BY <2>1, <2>2
  <1> QED
    BY <1>1, <1>3, <1>4 DEF ManagerInv

\* A click that changes the URL, hasty when a text is waiting.
LEMMA MoveStep ==
  ASSUME managerHistory \in Histories, Move
  PROVE  /\ managerHistory' \in Histories
         /\ managerHistory'.hasty = (managerHistory.hasty \/ timer # NoUrl)
         /\ \A f \in {"early", "missed"} : managerHistory'[f] = managerHistory[f]
         /\ UNCHANGED <<inventory, typed, timer, table, tableStale, tableAsks, bulk, dialog>>
  <1> DEFINE h == managerHistory.hasty \/ timer # NoUrl
             n == managerHistory.moves + 1
  <1>1. managerHistory' = [managerHistory EXCEPT !.moves = n, !.hasty = h]
    BY DEF Move
  <1>2. h \in BOOLEAN /\ n \in Nat
    BY DEF Histories
  <1> HIDE DEF h, n
  <1>3. managerHistory' \in Histories /\ managerHistory'.hasty = h
        /\ \A f \in {"early", "missed"} : managerHistory'[f] = managerHistory[f]
    BY <1>1, <1>2 DEF Histories
  <1> QED
    BY <1>3 DEF h, Move

\* Another view, another status or another page.
LEMMA ClickUrlStep ==
  ASSUME ManagerInv, ChooseView \/ ChooseStatus \/ TurnPage
  PROVE  ManagerInv'
  <1>1. Move /\ managerHistory \in Histories /\ url \in Urls /\ typed \in BOOLEAN /\ wanted \in Views
        /\ timer \in Urls \cup {NoUrl}
    BY DEF ChooseView, ChooseStatus, TurnPage, ManagerInv, ManagerTypes, ManagerTypeOK
  <1>2. /\ managerHistory' \in Histories
        /\ managerHistory'.hasty = (managerHistory.hasty \/ timer # NoUrl)
        /\ \A f \in {"early", "missed"} : managerHistory'[f] = managerHistory[f]
        /\ UNCHANGED <<inventory, typed, timer, table, tableStale, tableAsks, bulk, dialog>>
    BY <1>1, MoveStep
  <1>3. /\ url' \in Urls /\ wanted' \in Views /\ (ticked' = {} \/ UNCHANGED <<ticked, url>>)
        /\ (url.view = wanted => url'.view = wanted')
    <2>1. CASE ChooseView
      <3>1. PICK v \in Views : wanted' = v /\ GoTo([url EXCEPT !.view = v, !.status = "all", !.page = 1])
        BY <2>1 DEF ChooseView
      <3> DEFINE next == [url EXCEPT !.view = v, !.status = "all", !.page = 1]
      <3>2. next \in Urls /\ next.view = v
        BY <1>1, FirstPageUrl
      <3>3. wanted' = v /\ GoTo(next)
        BY <3>1
      <3> HIDE DEF next
      <3> QED
        BY <3>2, <3>3 DEF GoTo
    <2>2. CASE ChooseStatus
      <3>1. PICK s \in {"all", "draft"} : GoTo([url EXCEPT !.status = s, !.page = 1])
        BY <2>2 DEF ChooseStatus
      <3>2. [url EXCEPT !.status = s, !.page = 1] \in Urls /\ [url EXCEPT !.status = s, !.page = 1].view = url.view
        BY <1>1, FirstPageUrl
      <3> QED
        BY <1>1, <2>2, <3>1, <3>2 DEF GoTo, ChooseStatus
    <2>3. CASE TurnPage
      <3>1. PICK p \in Nat \ {0} : GoTo([url EXCEPT !.page = p])
        <4> DEFINE back == url.page - 1
                   on == url.page + 1
        <4>1. url.page \in Nat \ {0}
          BY <1>1, UrlsAreReal
        <4>2. \/ url.page > 1 /\ GoTo([url EXCEPT !.page = back])
              \/ GoTo([url EXCEPT !.page = on])
          BY <2>3 DEF TurnPage
        <4>3. (url.page > 1 => back \in Nat \ {0}) /\ on \in Nat \ {0}
          BY <4>1
        <4> HIDE DEF back, on
        <4> QED
          BY <4>2, <4>3
      <3>2. [url EXCEPT !.page = p] \in Urls /\ [url EXCEPT !.page = p].view = url.view
        BY <1>1, OtherPageUrl
      <3> QED
        BY <1>1, <2>3, <3>1, <3>2 DEF GoTo, TurnPage
    <2> QED
      BY <2>1, <2>2, <2>3
  <1>4. ViewHolds'
    BY <1>2, <1>3 DEF ManagerInv, ViewHolds
  <1> QED
    BY <1>1, <1>2, <1>3, <1>4, UrlFrame

\* The text changes, and after a while it is searched for.
LEMMA TextStep ==
  ASSUME ManagerInv, Type \/ TimerFires
  PROVE  ManagerInv'
  <1>1. managerHistory \in Histories /\ url \in Urls /\ typed \in BOOLEAN /\ wanted \in Views
        /\ timer \in Urls \cup {NoUrl} /\ NoUrl \notin Urls
    BY UrlsAreReal DEF ManagerInv, ManagerTypes, ManagerTypeOK
  <1>2. CASE Type
    <2> DEFINE n == managerHistory.moves + 1
    <2>1. /\ typed' = ~typed /\ timer' = url /\ managerHistory' = [managerHistory EXCEPT !.moves = n]
          /\ UNCHANGED <<inventory, url, ticked, table, tableStale, tableAsks, bulk, dialog, wanted>>
      BY <1>2 DEF Type
    <2>2. n \in Nat
      BY <1>1 DEF Histories
    <2> HIDE DEF n
    <2>3. managerHistory' \in Histories
          /\ \A f \in {"missed", "early", "hasty"} : managerHistory'[f] = managerHistory[f]
      BY <1>1, <2>1, <2>2 DEF Histories
    <2>4. ViewHolds'
      BY <2>1, <2>3 DEF ManagerInv, ViewHolds
    <2>5. typed' \in BOOLEAN
      BY <2>1
    <2> QED
      BY <1>1, <2>1, <2>3, <2>4, <2>5, UrlFrame
  <1>3. CASE TimerFires
    <2>1. /\ timer \in Urls /\ timer' = NoUrl
          /\ UNCHANGED <<inventory, typed, table, tableStale, tableAsks, bulk, dialog, wanted, managerHistory>>
      BY <1>1, <1>3 DEF TimerFires
    <2>2. url' \in Urls /\ (ticked' = {} \/ UNCHANGED <<ticked, url>>) /\ url'.view \in {url.view, timer.view}
      <3>1. CASE UNCHANGED <<url, ticked>>
        BY <1>1, <3>1
      <3>2. CASE GoTo([timer EXCEPT !.q = typed, !.page = 1])
        <4>1. [timer EXCEPT !.q = typed, !.page = 1] \in Urls /\ [timer EXCEPT !.q = typed, !.page = 1].view = timer.view
          BY <1>1, <2>1, FirstPageUrl
        <4> QED
          BY <3>2, <4>1 DEF GoTo
      <3> QED
        BY <1>3, <3>1, <3>2 DEF TimerFires
    <2>3. ViewHolds'
      BY <1>1, <2>1, <2>2 DEF ManagerInv, ViewHolds
    <2> QED
      BY <1>1, <2>1, <2>2, <2>3, UrlFrame
  <1> QED
    BY <1>2, <1>3

\* Rows shown are ticked, early or not.
LEMMA TickStep ==
  ASSUME ManagerInv, Tick
  PROVE  ManagerInv'
  <1> DEFINE h == managerHistory.early \/ Fetches \/ url \in tableStale
  <1>1. /\ UNCHANGED <<inventory, url, typed, timer, table, tableStale, tableAsks, bulk, dialog, wanted>>
        /\ managerHistory' = [managerHistory EXCEPT !.early = h]
    BY DEF Tick
  <1>2. managerHistory \in Histories /\ h \in BOOLEAN /\ Shown \subseteq Rows /\ ticked \subseteq Rows
    BY DEF ManagerInv, ManagerTypes, ManagerTypeOK, Histories, Shown, Answered, Fetches
  <1>3. ticked' \subseteq ticked \cup Shown
    BY DEF Tick
  <1> HIDE DEF h
  <1>4. managerHistory' \in Histories /\ managerHistory'.early = h
        /\ \A f \in {"missed", "hasty"} : managerHistory'[f] = managerHistory[f]
    BY <1>1, <1>2 DEF Histories
  <1>5. TicksHold'
    BY <1>1, <1>3, <1>4 DEF h, ManagerInv, TicksHold, Shown, Answered, Fetches
  <1>6. /\ dialog' \subseteq Rows /\ ticked' \subseteq Rows
        /\ bulk' \in [pc : {"idle", "sent", "done", "refresh"}, action : Actions \cup {"none"}, ids : SUBSET Rows]
    BY <1>1, <1>2, <1>3 DEF ManagerInv, ManagerTypes, ManagerTypeOK
  <1> QED
    BY <1>1, <1>4, <1>5, <1>6, TableFrame

\* A bulk action is sent, for listings of the dealer.
LEMMA RunStep ==
  ASSUME managerHistory \in Histories, NEW action \in Actions, NEW ids \in SUBSET Rows, Run(action, ids)
  PROVE  /\ managerHistory' \in Histories /\ bulk'.pc = "sent"
         /\ bulk' \in [pc : {"idle", "sent", "done", "refresh"}, action : Actions \cup {"none"}, ids : SUBSET Rows]
         /\ \A f \in {"early", "missed", "hasty"} : managerHistory'[f] = managerHistory[f]
  <1> DEFINE n == managerHistory.actions + 1
  <1>1. managerHistory' = [managerHistory EXCEPT !.actions = n] /\ n \in Nat
        /\ bulk' = [pc |-> "sent", action |-> action, ids |-> ids]
    BY DEF Run, Histories
  <1> HIDE DEF n
  <1> QED
    BY <1>1 DEF Histories

\* An action is run on rows ticked or shown, or from the dialog, which opens for such and closes.
LEMMA RunsStep ==
  ASSUME ManagerInv, RunOnRows \/ OpenDialog \/ ConfirmDialog \/ CloseDialog
  PROVE  ManagerInv'
  <1>1. UNCHANGED <<inventory, url, typed, timer, ticked, table, tableStale, tableAsks, wanted>>
    BY DEF RunOnRows, OpenDialog, ConfirmDialog, CloseDialog
  <1>2. managerHistory \in Histories /\ Shown \subseteq Rows /\ ticked \subseteq Rows /\ dialog \subseteq Rows
        /\ bulk \in [pc : {"idle", "sent", "done", "refresh"}, action : Actions \cup {"none"}, ids : SUBSET Rows]
    BY DEF ManagerInv, ManagerTypes, ManagerTypeOK, Shown, Answered
  <1>3. /\ dialog' \subseteq Rows /\ managerHistory' \in Histories
        /\ bulk' \in [pc : {"idle", "sent", "done", "refresh"}, action : Actions \cup {"none"}, ids : SUBSET Rows]
        /\ (bulk' = bulk \/ bulk.pc = "idle")
        /\ \A f \in {"early", "missed", "hasty"} : managerHistory'[f] = managerHistory[f]
    <2>1. CASE RunOnRows
      <3>1. PICK ids \in {ticked} \cup {{l} : l \in Shown}, action \in Actions : Run(action, ids)
        BY <2>1 DEF RunOnRows, Actions
      <3>2. ids \in SUBSET Rows /\ bulk.pc = "idle" /\ dialog' = dialog
        BY <1>2, <2>1, <3>1 DEF RunOnRows, NoBulk
      <3> QED
        BY <1>2, <3>1, <3>2, RunStep
    <2>2. CASE ConfirmDialog
      <3>1. Run("reduce-price", dialog) /\ bulk.pc = "idle" /\ dialog' = dialog
        BY <2>2 DEF ConfirmDialog, NoBulk
      <3>2. "reduce-price" \in Actions /\ dialog \in SUBSET Rows
        BY <1>2 DEF Actions
      <3> QED
        BY <1>2, <3>1, <3>2, RunStep
    <2>3. CASE OpenDialog \/ CloseDialog
      <3>1. dialog' \subseteq Rows
        BY <1>2, <2>3 DEF OpenDialog, CloseDialog
      <3> QED
        BY <1>2, <2>3, <3>1 DEF OpenDialog, CloseDialog
    <2> QED
      BY <2>1, <2>2, <2>3
  <1>4. TicksHold'
    BY <1>1, <1>3 DEF ManagerInv, TicksHold, Shown, Answered, Fetches
  <1>5. ticked' \subseteq Rows
    BY <1>1, <1>2
  <1>6. bulk'.pc # "done" => bulk.pc # "done" \/ DOMAIN table \cup Asked \subseteq managerHistory'.missed
    BY <1>3
  <1> QED
    BY <1>1, <1>3, <1>4, <1>5, <1>6, TableFrame

\* The server acts on the listings.
LEMMA ServerActsStep ==
  ASSUME ManagerInv, ServerActs
  PROVE  ManagerInv'
  <1>1. /\ UNCHANGED <<url, typed, timer, ticked, table, tableStale, tableAsks, dialog, wanted, managerHistory>>
        /\ inventory' = [l \in Rows |-> IF l \in bulk.ids THEN After(bulk.action, inventory[l]) ELSE inventory[l]]
        /\ bulk' = [bulk EXCEPT !.pc = "done"]
    BY DEF ServerActs, managerPage
  <1>2. inventory' \in [Rows -> Items]
    BY <1>1, AfterIsItem DEF ManagerInv, ManagerTypes, ManagerTypeOK
  <1>3. bulk'.pc = "done"
        /\ bulk' \in [pc : {"idle", "sent", "done", "refresh"}, action : Actions \cup {"none"}, ids : SUBSET Rows]
    BY <1>1 DEF ManagerInv, ManagerTypes
  <1>4. ManagerTypes'
    BY <1>1, <1>2, <1>3 DEF ManagerInv, ManagerTypes, ManagerTypeOK
  <1>5. TicksHold' /\ AnswersHold' /\ ViewHolds'
    BY <1>1, <1>3 DEF ManagerInv, TicksHold, AnswersHold, ViewHolds, Shown, Answered, Fetches
  <1> QED
    BY <1>4, <1>5 DEF ManagerInv

\* After an action every view is asked for again, the one shown at once.
LEMMA BulkSucceedsStep ==
  ASSUME ManagerInv, BulkSucceeds
  PROVE  ManagerInv'
  <1> DEFINE m == (managerHistory.missed \cup Asked) \ {url}
  <1>1. /\ UNCHANGED <<inventory, url, typed, timer, table, dialog, wanted>>
        /\ ticked' = {} /\ bulk' = [bulk EXCEPT !.pc = "refresh"]
        /\ tableAsks' = {a \in tableAsks : a.url # url} \cup {Question(url)} /\ tableStale' = DOMAIN table \ {url}
        /\ managerHistory' = [managerHistory EXCEPT !.missed = m]
    BY DEF BulkSucceeds, AskTable
  <1>2. managerHistory \in Histories /\ m \in SUBSET Urls
    BY DEF ManagerInv, ManagerTypes, ManagerTypeOK, Histories, Asked
  <1>0. \A u : u # url /\ (u \in managerHistory.missed \/ \E a \in tableAsks : a.url = u) => u \in m
    BY DEF Asked
  <1> HIDE DEF m
  <1>3. managerHistory' \in Histories /\ managerHistory'.missed = m
        /\ \A f \in {"early", "hasty"} : managerHistory'[f] = managerHistory[f]
    BY <1>1, <1>2 DEF Histories
  <1>4. Question(url).url = url /\ Question(url).rows = OnPage(url) /\ OnPage(url) \subseteq Rows
    BY OnPageRows DEF Question
  <1>5. bulk'.pc = "refresh"
        /\ bulk' \in [pc : {"idle", "sent", "done", "refresh"}, action : Actions \cup {"none"}, ids : SUBSET Rows]
    BY <1>1 DEF ManagerInv, ManagerTypes
  <1>6. ManagerTypes'
    BY <1>1, <1>3, <1>4, <1>5 DEF ManagerInv, ManagerTypes, ManagerTypeOK, Histories
  <1>7. \A u : OnPage(u)' = OnPage(u)
    BY <1>1, OnPageStays
  <1>8. TicksHold' /\ ViewHolds'
    BY <1>1, <1>3 DEF ManagerInv, TicksHold, ViewHolds
  <1>9. AnswersHold'
    <2>1. \A a \in tableAsks' : a.url \notin m => a.rows = OnPage(a.url)
      BY <1>0, <1>1, <1>4
    <2>2. Question(url) \in tableAsks' /\ DOMAIN table \ tableStale' \subseteq {url}
      BY <1>1
    <2> QED
      BY <1>1, <1>3, <1>4, <1>7, <2>1, <2>2 DEF AnswersHold
  <1> QED
    BY <1>6, <1>8, <1>9 DEF ManagerInv

\* The action ends, with the dialog that asked for it, or has failed.
LEMMA BulkEndsStep ==
  ASSUME ManagerInv, RefreshEnds \/ BulkFails
  PROVE  ManagerInv'
  <1>1. /\ UNCHANGED <<inventory, url, typed, timer, ticked, table, tableStale, tableAsks, wanted>>
        /\ bulk' = NoBulk
    BY DEF RefreshEnds, BulkFails
  <1>2. dialog' \subseteq Rows /\ ticked' \subseteq Rows
        /\ bulk' \in [pc : {"idle", "sent", "done", "refresh"}, action : Actions \cup {"none"}, ids : SUBSET Rows]
    <2>1. {} \in SUBSET Rows /\ dialog \subseteq Rows /\ ticked \subseteq Rows
      BY DEF ManagerInv, ManagerTypes, ManagerTypeOK
    <2>2. dialog' \in {{}, dialog}
      BY DEF RefreshEnds, BulkFails
    <2>3. NoBulk \in [pc : {"idle", "sent", "done", "refresh"}, action : Actions \cup {"none"}, ids : SUBSET Rows]
      BY <2>1 DEF NoBulk
    <2> QED
      BY <1>1, <2>1, <2>2, <2>3
  <1>3. /\ managerHistory' \in Histories
        /\ managerHistory.missed \subseteq managerHistory'.missed
        /\ managerHistory'.early = managerHistory.early /\ managerHistory'.hasty = managerHistory.hasty
        /\ (bulk.pc # "done" \/ DOMAIN table \cup Asked \subseteq managerHistory'.missed)
    <2>1. managerHistory \in Histories
      BY DEF ManagerInv, ManagerTypes
    <2>2. CASE RefreshEnds
      BY <2>1, <2>2 DEF RefreshEnds
    <2>3. CASE BulkFails
      <3>1. PICK keys \in SUBSET Urls :
              ManagerFault(keys) /\ (bulk.pc = "done" => keys = DOMAIN table \cup Asked)
        <4>1. DOMAIN table \cup Asked \in SUBSET Urls /\ {} \in SUBSET Urls
          BY DEF ManagerInv, ManagerTypes, ManagerTypeOK, Asked
        <4> QED
          BY <2>3, <4>1 DEF BulkFails
      <3>2. /\ managerHistory' \in Histories
            /\ managerHistory'.missed = managerHistory.missed \cup keys
            /\ \A f \in {"early", "hasty"} : managerHistory'[f] = managerHistory[f]
        BY <2>1, <3>1, ManagerFaultStep
      <3> QED
        BY <3>1, <3>2
    <2> QED
      BY <2>2, <2>3
  <1>4. TicksHold'
    BY <1>1, <1>3 DEF ManagerInv, TicksHold, Shown, Answered, Fetches
  <1> QED
    BY <1>1, <1>2, <1>3, <1>4, TableFrame

\* What the form or an upload's page makes of the listings are listings.
LEMMA OtherPagesStep ==
  ASSUME ManagerInv, SaveInForm \/ PublishUpload
  PROVE  inventory' \in [Rows -> Items]
  <1>0. inventory \in [Rows -> Items]
    BY DEF ManagerInv, ManagerTypes, ManagerTypeOK
  <1>1. CASE NewListing
    <2>1. PICK l \in Rows, s \in {"draft", "active"} :
            inventory' = [inventory EXCEPT ![l] = [status |-> s, stale |-> FALSE]]
      BY <1>1 DEF NewListing
    <2>2. PICK item \in Items : item = [status |-> s, stale |-> FALSE]
      BY DEF Items
    <2> QED
      BY <1>0, <2>1, <2>2
  <1>2. CASE EditedListing
    <2>1. PICK l \in Rows : inventory' = [inventory EXCEPT ![l] = [inventory[l] EXCEPT !.stale = FALSE]]
      BY <1>2 DEF EditedListing
    <2>2. inventory[l] \in Items
      BY <1>0
    <2>3. PICK item \in Items : item = [inventory[l] EXCEPT !.stale = FALSE]
      BY <2>2 DEF Items
    <2> QED
      BY <1>0, <2>1, <2>3
  <1>3. CASE PublishUpload
    <2>1. PICK drafts : inventory' = [l \in Rows |-> IF l \in drafts THEN After("publish", inventory[l]) ELSE inventory[l]]
      BY <1>3 DEF PublishUpload
    <2> QED
      BY <1>0, <2>1, AfterIsItem
  <1> QED
    BY <1>1, <1>2, <1>3 DEF SaveInForm

\* Back from another page, nothing is ticked, and what was asked for before is missed or asked for again.
LEMMA ComeBackStep ==
  ASSUME ManagerInv, SaveInForm \/ PublishUpload
  PROVE  ManagerInv'
  <1>1. /\ url' \in {url, FirstUrl} /\ typed' = url'.q /\ wanted' = url'.view /\ timer' = NoUrl /\ ticked' = {}
        /\ UNCHANGED <<table, tableAsks, bulk, dialog>>
    BY DEF SaveInForm, PublishUpload, ComeBack
  <1>2. url' \in Urls /\ typed' \in BOOLEAN /\ wanted' \in Views
    BY <1>1, UrlsAreReal DEF ManagerInv, ManagerTypes, ManagerTypeOK, Urls
  <1>3. PICK keys \in SUBSET Urls :
          /\ Remounts(keys) /\ Asked \subseteq keys
          /\ tableStale' \subseteq DOMAIN table /\ DOMAIN table \subseteq tableStale' \cup keys
    <2>1. DOMAIN table \cup Asked \in SUBSET Urls /\ Asked \in SUBSET Urls /\ tableStale \subseteq DOMAIN table
      BY DEF ManagerInv, ManagerTypes, ManagerTypeOK, Asked
    <2>2. CASE SaveInForm
      BY <2>1, <2>2 DEF SaveInForm
    <2>3. CASE PublishUpload
      BY <2>1, <2>3 DEF PublishUpload
    <2> QED
      BY <2>2, <2>3
  <1>4. /\ managerHistory' \in Histories /\ keys \subseteq managerHistory'.missed
    <2> DEFINE n == managerHistory.moves + 1
               m == managerHistory.missed \cup keys
    <2>1. managerHistory' = [managerHistory EXCEPT !.moves = n, !.early = FALSE, !.hasty = FALSE, !.missed = m]
      BY <1>3 DEF Remounts
    <2>2. managerHistory \in Histories /\ n \in Nat /\ m \in SUBSET Urls /\ keys \subseteq m
      BY DEF ManagerInv, ManagerTypes, Histories
    <2> HIDE DEF n, m
    <2> QED
      BY <2>1, <2>2 DEF Histories
  <1>5. ManagerTypes'
    BY <1>1, <1>2, <1>3, <1>4, OtherPagesStep DEF ManagerInv, ManagerTypes, ManagerTypeOK, Histories
  <1>6. TicksHold' /\ ViewHolds'
    BY <1>1 DEF TicksHold, ViewHolds
  <1>7. AnswersHold'
    <2>1. \A a \in tableAsks' : a.url \in managerHistory'.missed
      BY <1>1, <1>3, <1>4 DEF Asked
    <2>2. DOMAIN table' \ (tableStale' \cup managerHistory'.missed) = {}
      BY <1>1, <1>3, <1>4
    <2> QED
      BY <2>1, <2>2 DEF AnswersHold
  <1> QED
    BY <1>5, <1>6, <1>7 DEF ManagerInv

\* At first nothing is shown, and nothing asked for.
LEMMA ManagerStart ==
  ASSUME ManagerInit
  PROVE  ManagerInv
  <1>1. FirstUrl \in Urls /\ FirstUrl.view = "all"
    BY UrlsAreReal DEF FirstUrl
  <1>2. inventory \in [Rows -> Items]
    <2>1. \A s \in {"active", "archived", "gone", "draft"}, b \in BOOLEAN : [status |-> s, stale |-> b] \in Items
      BY DEF Items
    <2>2. ASSUME NEW l \in Rows
          PROVE  [status |-> CASE l \in Unconfirmed -> "active" [] l \in Archived -> "archived"
                               [] l \in Unwritten -> "gone" [] OTHER -> "draft",
                  stale |-> l \in Unconfirmed] \in Items
      <3> DEFINE st == CASE l \in Unconfirmed -> "active" [] l \in Archived -> "archived"
                         [] l \in Unwritten -> "gone" [] OTHER -> "draft"
                 old == l \in Unconfirmed
      <3>1. st \in {"active", "archived", "gone", "draft"} /\ old \in BOOLEAN
        OBVIOUS
      <3> HIDE DEF st, old
      <3>2. [status |-> st, stale |-> old] \in Items
        BY <2>1, <3>1
      <3> QED
        BY <3>2 DEF st, old
    <2> QED
      BY <2>2 DEF ManagerInit
  <1>3. bulk \in [pc : {"idle", "sent", "done", "refresh"}, action : Actions \cup {"none"}, ids : SUBSET Rows]
    BY DEF ManagerInit, NoBulk
  <1>4. managerHistory \in Histories
    BY DEF ManagerInit, Histories
  <1>5. DOMAIN table = {}
    BY DEF ManagerInit
  <1>6. ManagerTypes
    BY <1>1, <1>2, <1>3, <1>4, <1>5 DEF ManagerInit, ManagerTypes, ManagerTypeOK, Views
  <1>7. TicksHold /\ AnswersHold /\ ViewHolds
    BY <1>1, <1>5 DEF ManagerInit, TicksHold, AnswersHold, ViewHolds
  <1> QED
    BY <1>6, <1>7 DEF ManagerInv

\* Every step of the table keeps its invariant.
LEMMA ManagerStep ==
  ASSUME ManagerInv, ManagerNext
  PROVE  ManagerInv'
  <1>1. CASE AskForRows
    BY <1>1, AskForRowsStep
  <1>2. CASE RowsStep
    BY <1>2, RowsArriveStep DEF RowsStep
  <1>3. CASE ChooseView \/ ChooseStatus \/ TurnPage
    BY <1>3, ClickUrlStep
  <1>4. CASE Type \/ TimerFires
    BY <1>4, TextStep
  <1>5. CASE Tick
    BY <1>5, TickStep
  <1>6. CASE RunOnRows \/ OpenDialog \/ ConfirmDialog \/ CloseDialog
    BY <1>6, RunsStep
  <1>7. CASE BulkStep
    BY <1>7, ServerActsStep, BulkSucceedsStep, BulkEndsStep DEF BulkStep
  <1>8. CASE SaveInForm \/ PublishUpload
    BY <1>8, ComeBackStep
  <1> QED
    BY <1>1, <1>2, <1>3, <1>4, <1>5, <1>6, <1>7, <1>8 DEF ManagerNext

\* The invariant implies what is said of the table.
LEMMA ManagerConsequence ==
  ASSUME ManagerInv
  PROVE  ManagerTypeOK /\ TickedIsShown /\ TableIsCurrent /\ ViewStays
  <1>1. ManagerTypeOK /\ TickedIsShown /\ ViewStays
    BY DEF ManagerInv, ManagerTypes, TicksHold, ViewHolds, TickedIsShown, ViewStays
  <1>2. TableIsCurrent
    BY DEF ManagerInv, AnswersHold, TableIsCurrent, Answered, Shown, Fetches, NoBulk
  <1> QED
    BY <1>1, <1>2

-----------------------------------------------------------------------------
(* The search page. *)

HistoryTypes == marketHistory \in [touches : 0..MaxTouches, faults : 0..MaxMarketFaults, hasty : BOOLEAN]
\* The timer runs for the text in the field.
TimerIsCurrent == debounce.on => debounce.q = searchInput
\* Unless something was chosen while it ran, it closed over the sort order there is.
TimerHasSort == ~marketHistory.hasty /\ debounce.on => debounce.sort = filters.sort
MarketInv ==
  /\ MarketTypeOK /\ HistoryTypes
  /\ TextIsSearched /\ FiltersMakeSense /\ ChoiceStays /\ TimerIsCurrent /\ TimerHasSort

\* The filters and page there are make a query.
LEMMA CurrentIsQuery ==
  ASSUME MarketInv
  PROVE  Current \in Queries
  BY DEF MarketInv, MarketTypeOK, Current, Queries

\* Queries are asked and answered without a change of the filters.
LEMMA QueryStep ==
  ASSUME MarketInv, MarketFetch \/ QuerySettles \/ TryAgain
  PROVE  MarketInv'
  <1>1. UNCHANGED <<searchInput, filters, page, debounce, linkQ, asked>>
    BY DEF MarketFetch, QuerySettles, MarketAnswers, MarketFails, TryAgain
  <1>2. results' \in Queries \cup {NoQuery} /\ marketAsk' \in Queries \cup {NoQuery} /\ marketFailed' \in BOOLEAN
    <2>1. Current \in Queries /\ results \in Queries \cup {NoQuery} /\ marketAsk \in Queries \cup {NoQuery}
          /\ marketFailed \in BOOLEAN
      BY CurrentIsQuery DEF MarketInv, MarketTypeOK
    <2>2. /\ results' \in {results, Current} /\ marketAsk' \in {marketAsk, Current, NoQuery}
          /\ marketFailed' = marketFailed \/ marketFailed' = FALSE \/ marketFailed' = (marketAsk = Current)
      BY DEF MarketFetch, QuerySettles, MarketAnswers, MarketFails, TryAgain
    <2>3. (marketAsk = Current) \in BOOLEAN
      OBVIOUS
    <2> QED
      BY <2>1, <2>2, <2>3
  <1>3. HistoryTypes' /\ marketHistory'.hasty = marketHistory.hasty
    <2>1. \/ UNCHANGED marketHistory
          \/ /\ marketHistory.faults < MaxMarketFaults
             /\ marketHistory' = [marketHistory EXCEPT !.faults = @ + 1]
      BY DEF MarketFetch, QuerySettles, MarketAnswers, MarketFails, TryAgain
    <2> QED
      BY <2>1, MarketplaceAssumption DEF MarketInv, HistoryTypes
  <1>4. MarketTypeOK'
    BY <1>1, <1>2 DEF MarketInv, MarketTypeOK
  <1>5. TextIsSearched' /\ FiltersMakeSense' /\ TimerIsCurrent'
    BY <1>1 DEF MarketInv, TextIsSearched, FiltersMakeSense, TimerIsCurrent
  <1>6. ChoiceStays' /\ TimerHasSort'
    BY <1>1, <1>3 DEF MarketInv, ChoiceStays, TimerHasSort
  <1> QED
    BY <1>3, <1>4, <1>5, <1>6 DEF MarketInv

\* The timer's effect searches for the text in the field and keeps the sort order it closed over.
LEMMA EffectFiresStep ==
  ASSUME MarketInv, EffectFires
  PROVE  MarketInv'
  <1> DEFINE kept == IF debounce.q THEN IF debounce.sort = "none" THEN "relevance" ELSE debounce.sort
                     ELSE IF debounce.sort = "relevance" THEN "newest" ELSE debounce.sort
             again == [on |-> TRUE, q |-> searchInput, sort |-> kept]
             picks == IF kept # debounce.sort THEN kept ELSE asked.sort
  <1>1. /\ debounce.on /\ debounce.q = searchInput /\ debounce.q \in BOOLEAN /\ debounce.sort \in Sorts
        /\ searchInput \in BOOLEAN /\ linkQ \in BOOLEAN /\ filters \in Filters /\ asked.sort \in Sorts
        /\ asked \in [sort : Sorts, page : 1..MarketPages]
    BY DEF EffectFires, MarketInv, MarketTypeOK, TimerIsCurrent
  <1>2. /\ kept \in Sorts /\ (kept = "relevance" => debounce.q)
        /\ picks \in Sorts
        /\ ~marketHistory.hasty => picks = kept
    <2>1. kept \in Sorts /\ (kept = "relevance" => debounce.q)
      BY <1>1 DEF Sorts
    <2>2. ~marketHistory.hasty => asked.sort = debounce.sort
      BY <1>1 DEF MarketInv, ChoiceStays, TimerHasSort
    <2> HIDE DEF kept
    <2> QED
      BY <1>1, <2>1, <2>2
  <1>3. /\ filters' = [filters EXCEPT !.q = debounce.q, !.sort = kept] /\ page' = 1 /\ marketFailed' = FALSE
        /\ linkQ' = debounce.q
        /\ UNCHANGED <<results, marketAsk, searchInput, marketHistory>>
    BY DEF EffectFires, UpdateFilters
  <1>4. filters'.sort = kept
    <2> HIDE DEF kept
    <2> QED
      BY <1>1, <1>3 DEF Filters
  <1>5. /\ debounce' = (IF linkQ' # linkQ THEN again ELSE NoDebounce)
        /\ asked' = [sort |-> picks, page |-> 1]
    BY <1>4 DEF EffectFires
  <1> HIDE DEF kept, picks
  <1>6. 1 \in 1..MarketPages
    BY MarketplaceAssumption
  <1>7. /\ filters' \in Filters /\ filters'.q = searchInput /\ filters'.category = filters.category /\ filters'.body = filters.body
    BY <1>1, <1>2, <1>3 DEF Filters
  <1>8. again \in [on : BOOLEAN, q : BOOLEAN, sort : Sorts] /\ again.q = searchInput /\ again.sort = kept /\ again.on
        /\ NoDebounce \in [on : BOOLEAN, q : BOOLEAN, sort : Sorts] /\ ~NoDebounce.on
    BY <1>1, <1>2 DEF NoDebounce, Sorts
  <1> HIDE DEF again
  <1>9. asked' \in [sort : Sorts, page : 1..MarketPages] /\ asked'.sort = picks /\ asked'.page = 1
    BY <1>2, <1>5, <1>6
  <1>10. MarketTypeOK'
    <2>1. debounce' \in [on : BOOLEAN, q : BOOLEAN, sort : Sorts]
      BY <1>5, <1>8
    <2>2. searchInput' \in BOOLEAN /\ linkQ' \in BOOLEAN /\ marketFailed' \in BOOLEAN /\ page' \in 1..MarketPages
      BY <1>1, <1>3, <1>6
    <2> QED
      BY <1>3, <1>7, <1>9, <2>1, <2>2 DEF MarketInv, MarketTypeOK
  <1>11. TextIsSearched'
    BY <1>1, <1>3, <1>5, <1>7, <1>8 DEF TextIsSearched
  <1>12. FiltersMakeSense'
    BY <1>1, <1>2, <1>4, <1>7 DEF FiltersMakeSense, MarketInv
  <1>13. ChoiceStays'
    BY <1>2, <1>3, <1>4, <1>9 DEF ChoiceStays
  <1>14. TimerIsCurrent' /\ TimerHasSort'
    BY <1>3, <1>4, <1>5, <1>8 DEF TimerIsCurrent, TimerHasSort
  <1>15. HistoryTypes'
    BY <1>3 DEF MarketInv, HistoryTypes
  <1> QED
    BY <1>10, <1>11, <1>12, <1>13, <1>14, <1>15 DEF MarketInv

\* A change by the buyer is counted, and marked when it crosses the timer.
LEMMA TouchedStep ==
  ASSUME HistoryTypes, NEW missed \in BOOLEAN, Touch, Touched(missed)
  PROVE  HistoryTypes' /\ marketHistory'.hasty = (marketHistory.hasty \/ missed)
  <1> DEFINE h == marketHistory.hasty \/ missed
             n == marketHistory.touches + 1
  <1>1. marketHistory' = [marketHistory EXCEPT !.touches = n, !.hasty = h]
    BY DEF Touch, Touched
  <1>2. h \in BOOLEAN /\ n \in 0..MaxTouches
    <2>1. MaxTouches \in Nat /\ marketHistory.touches \in 0..MaxTouches /\ marketHistory.touches < MaxTouches
      BY MarketplaceAssumption DEF HistoryTypes, Touch
    <2>2. h \in BOOLEAN
      BY DEF HistoryTypes
    <2> QED
      BY <2>1, <2>2
  <1> HIDE DEF h, n
  <1>3. HistoryTypes' /\ marketHistory'.hasty = h
    BY <1>1, <1>2 DEF HistoryTypes
  <1> QED
    BY <1>3 DEF h

\* Typing restarts the timer for the new text.
LEMMA TypeSearchStep ==
  ASSUME MarketInv, TypeSearch
  PROVE  MarketInv'
  <1> DEFINE next == [on |-> TRUE, q |-> ~searchInput, sort |-> filters.sort]
  <1>1. /\ Touch /\ Touched(FALSE) /\ searchInput' = ~searchInput /\ debounce' = next
        /\ UNCHANGED <<results, marketAsk, marketFailed, filters, page, linkQ, asked>>
    BY DEF TypeSearch, SameQuery
  <1>2. searchInput' \in BOOLEAN /\ filters.sort \in Sorts
    BY <1>1 DEF MarketInv, MarketTypeOK, Filters
  <1>3. next \in [on : BOOLEAN, q : BOOLEAN, sort : Sorts] /\ next.on /\ next.q = ~searchInput /\ next.sort = filters.sort
    BY <1>2
  <1> HIDE DEF next
  <1>4. HistoryTypes' /\ marketHistory'.hasty = (marketHistory.hasty \/ FALSE)
    BY <1>1, TouchedStep DEF MarketInv
  <1>5. MarketTypeOK'
    BY <1>1, <1>2, <1>3 DEF MarketInv, MarketTypeOK
  <1>6. TextIsSearched' /\ TimerIsCurrent'
    BY <1>1, <1>3 DEF TextIsSearched, TimerIsCurrent
  <1>7. FiltersMakeSense'
    BY <1>1 DEF MarketInv, FiltersMakeSense
  <1>8. ChoiceStays' /\ TimerHasSort'
    BY <1>1, <1>3, <1>4 DEF MarketInv, ChoiceStays, TimerHasSort
  <1> QED
    BY <1>4, <1>5, <1>6, <1>7, <1>8 DEF MarketInv

\* A choice that leaves the text and the timer alone keeps the invariant, if it is marked when it crosses the timer.
LEMMA ChoiceFrame ==
  ASSUME MarketInv, HistoryTypes',
         UNCHANGED <<searchInput, debounce, linkQ, results, marketAsk>>, marketFailed' = FALSE,
         filters' \in Filters, page' \in 1..MarketPages, filters'.q = filters.q,
         filters'.sort = "relevance" => filters'.q, filters'.body => filters'.category = "car",
         asked' \in [sort : Sorts, page : 1..MarketPages], asked'.page = page',
         asked'.sort = filters'.sort \/ (asked'.sort = asked.sort /\ filters'.sort = filters.sort),
         ~marketHistory'.hasty => ~marketHistory.hasty /\ (filters'.sort = filters.sort \/ ~debounce.on)
  PROVE  MarketInv'
  <1>1. MarketTypeOK'
    BY DEF MarketInv, MarketTypeOK
  <1>2. TextIsSearched' /\ TimerIsCurrent'
    BY DEF MarketInv, TextIsSearched, TimerIsCurrent
  <1>3. FiltersMakeSense'
    BY DEF FiltersMakeSense
  <1>4. ChoiceStays' /\ TimerHasSort'
    BY DEF MarketInv, ChoiceStays, TimerHasSort
  <1> QED
    BY <1>1, <1>2, <1>3, <1>4 DEF MarketInv

\* The sort order and the page are the buyer's, from then on.
LEMMA SortStep ==
  ASSUME MarketInv, ChooseSort \/ SetPage
  PROVE  MarketInv'
  <1>1. /\ filters \in Filters /\ (filters.sort = "relevance" => filters.q) /\ (filters.body => filters.category = "car")
        /\ asked \in [sort : Sorts, page : 1..MarketPages] /\ debounce.on \in BOOLEAN /\ HistoryTypes
        /\ 1 \in 1..MarketPages
    BY MarketplaceAssumption DEF MarketInv, MarketTypeOK, FiltersMakeSense
  <1>2. /\ Touch /\ Touched(debounce.on) /\ UNCHANGED <<searchInput, debounce, linkQ, results, marketAsk>>
        /\ marketFailed' = FALSE
    BY DEF ChooseSort, SetPage, UpdateFilters
  <1>3. HistoryTypes' /\ marketHistory'.hasty = (marketHistory.hasty \/ debounce.on)
    BY <1>1, <1>2, TouchedStep
  <1>4. CASE ChooseSort
    <2>1. PICK s \in Sorts : /\ filters' = [filters EXCEPT !.sort = s] /\ page' = 1 /\ asked' = [sort |-> s, page |-> 1]
                             /\ s = "relevance" => filters.q
      BY <1>4 DEF ChooseSort, Sorts, UpdateFilters
    <2>2. filters' \in Filters /\ filters'.q = filters.q /\ filters'.sort = s /\ filters'.body = filters.body
          /\ filters'.category = filters.category
      BY <1>1, <2>1 DEF Filters
    <2>3. asked' \in [sort : Sorts, page : 1..MarketPages] /\ asked'.page = 1 /\ asked'.sort = s
      BY <1>1, <2>1
    <2> QED
      BY <1>1, <1>2, <1>3, <2>1, <2>2, <2>3, ChoiceFrame
  <1>5. CASE SetPage
    <2>1. PICK p \in 1..MarketPages : filters' = filters /\ page' = p /\ asked' = [asked EXCEPT !.page = p]
      BY <1>5 DEF SetPage, UpdateFilters
    <2>2. asked' \in [sort : Sorts, page : 1..MarketPages] /\ asked'.page = p /\ asked'.sort = asked.sort
      BY <1>1, <2>1
    <2> QED
      BY <1>1, <1>2, <1>3, <2>1, <2>2, ChoiceFrame
  <1> QED
    BY <1>4, <1>5

\* Another category drops the body type of cars; neither touches the sort order.
LEMMA CategoryStep ==
  ASSUME MarketInv, ChooseCategory \/ ChooseBody
  PROVE  MarketInv'
  <1>1. /\ filters \in Filters /\ (filters.sort = "relevance" => filters.q) /\ filters.body \in BOOLEAN
        /\ asked \in [sort : Sorts, page : 1..MarketPages] /\ HistoryTypes
        /\ 1 \in 1..MarketPages
    BY MarketplaceAssumption DEF MarketInv, MarketTypeOK, FiltersMakeSense, Filters
  <1>2. /\ Touch /\ Touched(FALSE) /\ UNCHANGED <<searchInput, debounce, linkQ, results, marketAsk>>
        /\ marketFailed' = FALSE /\ page' = 1 /\ asked' = [asked EXCEPT !.page = 1]
    BY DEF ChooseCategory, ChooseBody, UpdateFilters
  <1>3. HistoryTypes' /\ marketHistory'.hasty = (marketHistory.hasty \/ FALSE)
    BY <1>1, <1>2, TouchedStep
  <1>4. asked' \in [sort : Sorts, page : 1..MarketPages] /\ asked'.page = 1 /\ asked'.sort = asked.sort
    BY <1>1, <1>2
  <1>5. PICK c \in {"any", "car", "van"}, b \in BOOLEAN :
          filters' = [filters EXCEPT !.category = c, !.body = b] /\ (b => c = "car")
    <2>1. CASE ChooseCategory
      <3>1. PICK c \in {"any", "car", "van"} : filters' = [filters EXCEPT !.category = c, !.body = filters.body /\ c = "car"]
        BY <2>1 DEF ChooseCategory, UpdateFilters
      <3> DEFINE b == filters.body /\ c = "car"
      <3>2. b \in BOOLEAN /\ (b => c = "car") /\ filters' = [filters EXCEPT !.category = c, !.body = b]
        BY <1>1, <3>1
      <3> QED
        BY <3>2, Zenon
    <2>2. CASE ChooseBody
      <3> DEFINE b == ~filters.body
      <3>1. filters.category = "car" /\ filters' = [filters EXCEPT !.body = b] /\ b \in BOOLEAN
        BY <2>2 DEF ChooseBody, UpdateFilters
      <3>2. filters = [filters EXCEPT !.category = "car"]
        BY <1>1, <3>1 DEF Filters
      <3> HIDE DEF b
      <3>3. filters' = [filters EXCEPT !.category = "car", !.body = b]
        BY <1>1, <3>1, <3>2 DEF Filters
      <3>4. "car" \in {"any", "car", "van"} /\ b \in BOOLEAN /\ (b => "car" = "car")
        BY <3>1
      <3> QED
        BY <3>3, <3>4, Zenon
    <2> QED
      BY <2>1, <2>2
  <1>6. filters' \in Filters /\ filters'.q = filters.q /\ filters'.sort = filters.sort /\ filters'.body = b
        /\ filters'.category = c
    BY <1>1, <1>5 DEF Filters
  <1> QED
    BY <1>1, <1>2, <1>3, <1>4, <1>5, <1>6, ChoiceFrame

\* Clearing all filters restarts the timer when a text is cleared with them.
LEMMA ClearAllStep ==
  ASSUME MarketInv, ClearAll
  PROVE  MarketInv'
  <1> DEFINE missed == debounce.on /\ ~searchInput /\ ~linkQ
             next == [on |-> TRUE, q |-> FALSE, sort |-> "none"]
  <1>0. searchInput \in BOOLEAN /\ linkQ \in BOOLEAN
    BY DEF MarketInv, MarketTypeOK
  <1>1. /\ Touch /\ Touched(missed)
        /\ searchInput' = FALSE /\ linkQ' = FALSE /\ filters' = NoFilters /\ page' = 1 /\ marketFailed' = FALSE
        /\ UNCHANGED <<results, marketAsk>>
        /\ debounce' = (IF searchInput \/ linkQ THEN next ELSE debounce)
        /\ asked' = [sort |-> "none", page |-> 1]
    BY DEF ClearAll, UpdateFilters
  <1>2. missed \in BOOLEAN /\ 1 \in 1..MarketPages
    BY MarketplaceAssumption DEF MarketInv, MarketTypeOK
  <1>3. /\ NoFilters \in Filters /\ ~NoFilters.q /\ NoFilters.sort = "none" /\ ~NoFilters.body
        /\ next \in [on : BOOLEAN, q : BOOLEAN, sort : Sorts] /\ next.on /\ ~next.q /\ next.sort = "none"
    BY DEF NoFilters, Filters, Sorts
  <1>4. asked' \in [sort : Sorts, page : 1..MarketPages] /\ asked'.sort = "none" /\ asked'.page = 1
    BY <1>1, <1>2 DEF Sorts
  <1> HIDE DEF next
  <1>5. \/ searchInput \/ linkQ
        \/ ~debounce.on
        \/ missed /\ ~debounce.q
    BY DEF MarketInv, TimerIsCurrent
  <1> HIDE DEF missed
  <1>6. HistoryTypes' /\ marketHistory'.hasty = (marketHistory.hasty \/ missed)
    BY <1>1, <1>2, TouchedStep DEF MarketInv
  <1>7. MarketTypeOK'
    <2>1. debounce' \in [on : BOOLEAN, q : BOOLEAN, sort : Sorts]
      BY <1>1, <1>3 DEF MarketInv, MarketTypeOK
    <2> QED
      BY <1>1, <1>2, <1>3, <1>4, <2>1 DEF MarketInv, MarketTypeOK
  <1>8. TextIsSearched'
    <2>1. CASE searchInput \/ linkQ
      BY <1>1, <1>3, <2>1 DEF TextIsSearched
    <2>2. CASE ~searchInput /\ ~linkQ
      BY <1>1, <1>3, <2>2 DEF TextIsSearched, NoFilters
    <2> QED
      BY <2>1, <2>2
  <1>9. TimerIsCurrent'
    <2>1. CASE searchInput \/ linkQ
      BY <1>1, <1>3, <2>1 DEF TimerIsCurrent
    <2>2. CASE ~searchInput /\ ~linkQ
      BY <1>0, <1>1, <2>2 DEF TimerIsCurrent, MarketInv
    <2> QED
      BY <2>1, <2>2
  <1>10. FiltersMakeSense'
    BY <1>1, <1>3 DEF FiltersMakeSense
  <1>11. ChoiceStays' /\ TimerHasSort'
    BY <1>1, <1>3, <1>4, <1>5, <1>6 DEF ChoiceStays, TimerHasSort
  <1> QED
    BY <1>6, <1>7, <1>8, <1>9, <1>10, <1>11 DEF MarketInv

\* At first the timer runs for the text of the link.
LEMMA MarketStart ==
  ASSUME MarketInit
  PROVE  MarketInv
  <1>1. 1 \in 1..MarketPages /\ 0 \in 0..MaxTouches /\ 0 \in 0..MaxMarketFaults
    BY MarketplaceAssumption
  <1>2. /\ NoFilters \in Filters /\ [NoFilters EXCEPT !.q = TRUE, !.sort = "relevance"] \in Filters
        /\ [NoFilters EXCEPT !.q = TRUE, !.sort = "relevance"].q
        /\ ~[NoFilters EXCEPT !.q = TRUE, !.sort = "relevance"].body
        /\ NoFilters.sort = "none" /\ ~NoFilters.body
    BY DEF NoFilters, Filters, Sorts
  <1>3. filters \in Filters /\ FiltersMakeSense /\ filters.sort \in Sorts
    BY <1>2 DEF MarketInit, FiltersMakeSense, Filters
  <1>4. /\ debounce = [on |-> TRUE, q |-> searchInput, sort |-> filters.sort]
        /\ asked = [sort |-> filters.sort, page |-> 1] /\ searchInput \in BOOLEAN /\ linkQ = searchInput
        /\ page = 1 /\ results = NoQuery /\ marketAsk = NoQuery /\ marketFailed = FALSE
        /\ marketHistory = [touches |-> 0, faults |-> 0, hasty |-> FALSE]
    BY DEF MarketInit
  <1>5. MarketTypeOK
    BY <1>1, <1>3, <1>4 DEF MarketTypeOK
  <1>6. HistoryTypes
    BY <1>1, <1>4 DEF HistoryTypes
  <1>7. TextIsSearched /\ ChoiceStays /\ TimerIsCurrent /\ TimerHasSort
    BY <1>4 DEF TextIsSearched, ChoiceStays, TimerIsCurrent, TimerHasSort
  <1> QED
    BY <1>3, <1>5, <1>6, <1>7 DEF MarketInv

\* Every step of the search page keeps its invariant.
LEMMA MarketStep ==
  ASSUME MarketInv, MarketNext
  PROVE  MarketInv'
  BY QueryStep, EffectFiresStep, TypeSearchStep, SortStep, CategoryStep, ClearAllStep DEF MarketNext

-----------------------------------------------------------------------------
(* The shortlist. *)

\* What was removed is in neither list of the tab.
RemovedFromBoth == \A t \in Tabs : dropped[t] \cap (Range(picked[t]) \cup Range(link[t])) = {}
ShortlistInv == ShortlistTypeOK /\ RemovedFromBoth

\* A list of at most n vehicles names each once.
LEMMA ListsAre ==
  ASSUME NEW n \in Nat, NEW s
  PROVE  s \in Lists(n) <=> s \in Seq(Vehicles) /\ Len(s) <= n /\ IsInjective(s)
  <1>1. ASSUME s \in Lists(n)
        PROVE  s \in Seq(Vehicles) /\ Len(s) <= n /\ IsInjective(s)
    BY <1>1 DEF Lists
  <1>2. ASSUME s \in Seq(Vehicles), Len(s) <= n, IsInjective(s)
        PROVE  s \in Lists(n)
    <2>1. Len(s) \in 0..n /\ s \in [1..Len(s) -> Vehicles]
      BY <1>2
    <2>2. s \in UNION {[1..k -> Vehicles] : k \in 0..n}
      BY <2>1
    <2> QED
      BY <1>2, <2>2 DEF Lists
  <1> QED
    BY <1>1, <1>2

\* The empty list is one of any length.
LEMMA EmptyList ==
  ASSUME NEW n \in Nat
  PROVE  <<>> \in Lists(n) /\ Range(<<>>) = {}
  <1>1. DOMAIN <<>> = {} /\ Len(<<>>) = 0
    OBVIOUS
  <1>2. <<>> \in Seq(Vehicles) /\ Len(<<>>) <= n /\ IsInjective(<<>>)
    BY <1>1 DEF IsInjective
  <1>3. <<>> \in Lists(n)
    BY <1>2, ListsAre
  <1> QED
    BY <1>1, <1>3 DEF Range

\* Without a vehicle a list is still one, of the others.
LEMMA WithoutStep ==
  ASSUME NEW n \in Nat, NEW s \in Lists(n), NEW v
  PROVE  Without(s, v) \in Lists(n) /\ Range(Without(s, v)) = Range(s) \ {v}
  <1>1. s \in Seq(Vehicles) /\ Len(s) <= n /\ IsInjective(s)
    BY ListsAre
  <1> DEFINE r == RemoveFirst(s, v)
  <1>2. r \in Seq(Vehicles) /\ IsInjective(r) /\ Len(r) <= Len(s) /\ Range(r) = Range(s) \ {v}
    BY <1>1, RemovedOnce
  <1> HIDE DEF r
  <1>3. Len(r) <= n
    BY <1>1, <1>2
  <1>4. r \in Lists(n)
    BY <1>2, <1>3, ListsAre
  <1> QED
    BY <1>2, <1>4 DEF Without, r

\* The first vehicles of a list are a list of some of them.
LEMMA FirstOfStep ==
  ASSUME NEW n \in Nat, NEW s \in Seq(Vehicles), IsInjective(s)
  PROVE  FirstOf(s, n) \in Lists(n) /\ Range(FirstOf(s, n)) \subseteq Range(s)
  <1> DEFINE m == IF Len(s) < n THEN Len(s) ELSE n
             r == SubSeq(s, 1, m)
  <1>1. m \in 0..Len(s) /\ m <= n
    OBVIOUS
  <1> HIDE DEF m
  <1>2. r \in Seq(Vehicles) /\ Len(r) = m /\ \A j \in 1..m : r[j] = s[j]
    BY <1>1
  <1> HIDE DEF r
  <1>3. DOMAIN r = 1..m /\ DOMAIN s = 1..Len(s) /\ 1..m \subseteq 1..Len(s)
    BY <1>1, <1>2
  <1>4. IsInjective(r)
    BY <1>2, <1>3 DEF IsInjective
  <1>5. Range(r) \subseteq Range(s)
    BY <1>2, <1>3 DEF Range
  <1>6. r \in Lists(n)
    BY <1>1, <1>2, <1>4, ListsAre
  <1> QED
    BY <1>5, <1>6 DEF FirstOf, m, r

\* A list saved is the tab's own and the stored one.
LEMMA SaveStep ==
  ASSUME ShortlistInv, NEW t \in Tabs, NEW next \in Lists(MAX_COMPARE), SaveList(t, next)
  PROVE  /\ storedPicks' \in Lists(MAX_COMPARE) /\ picked' \in [Tabs -> Lists(MAX_COMPARE)]
         /\ picked'[t] = next /\ \A u \in Tabs \ {t} : picked'[u] = picked[u]
  BY DEF SaveList, ShortlistInv, ShortlistTypeOK

\* What a tab removed from its lists stays removed when only that tab changes, and its lists gain nothing of it.
LEMMA RemovedFrame ==
  ASSUME ShortlistInv, NEW t \in Tabs,
         \A u \in Tabs \ {t} : picked'[u] = picked[u] /\ link'[u] = link[u] /\ dropped'[u] = dropped[u],
         dropped'[t] \cap (Range(picked'[t]) \cup Range(link'[t])) = {}
  PROVE  RemovedFromBoth'
  BY DEF ShortlistInv, RemovedFromBoth

\* Picking and unpicking a vehicle.
LEMMA ToggleStep ==
  ASSUME ShortlistInv, NEW t \in Tabs, NEW v \in Vehicles, ClickToggle(t, v)
  PROVE  ShortlistInv'
  <1>1. MAX_COMPARE \in Nat /\ picked[t] \in Lists(MAX_COMPARE) /\ dropped[t] \in SUBSET Vehicles
    BY ShortlistAssumption DEF ShortlistInv, ShortlistTypeOK
  <1>2. PICK next \in Lists(MAX_COMPARE) : SaveList(t, next) /\ Range(next) \subseteq Range(picked[t]) \cup {v}
    <2>1. CASE v \in Range(picked[t])
      BY <1>1, <2>1, WithoutStep DEF ClickToggle, Toggle
    <2>2. CASE v \notin Range(picked[t])
      <3>1. SaveList(t, Append(picked[t], v)) /\ Len(picked[t]) < MAX_COMPARE
        BY <2>2 DEF ClickToggle, Toggle
      <3>2. picked[t] \in Seq(Vehicles) /\ IsInjective(picked[t])
        BY <1>1, ListsAre
      <3> DEFINE a == Append(picked[t], v)
      <3>3. a \in Seq(Vehicles) /\ IsInjective(a) /\ Len(a) = Len(picked[t]) + 1 /\ Range(a) = Range(picked[t]) \cup {v}
        BY <2>2, <3>2, AddedOnce
      <3> HIDE DEF a
      <3>4. Len(a) <= MAX_COMPARE
        BY <1>1, <3>1, <3>2, <3>3
      <3>5. a \in Lists(MAX_COMPARE)
        BY <1>1, <3>3, <3>4, ListsAre
      <3> QED
        BY <3>1, <3>3, <3>5 DEF a
    <2> QED
      BY <2>1, <2>2
  <1>3. /\ dropped' = [dropped EXCEPT ![t] = @ \ {v}]
        /\ UNCHANGED <<link, comparing, reloads, pageVars, viewed>>
    BY DEF ClickToggle
  <1>4. /\ storedPicks' \in Lists(MAX_COMPARE) /\ picked' \in [Tabs -> Lists(MAX_COMPARE)]
        /\ picked'[t] = next /\ \A u \in Tabs \ {t} : picked'[u] = picked[u]
    BY <1>2, SaveStep
  <1>5. dropped' \in [Tabs -> SUBSET Vehicles] /\ dropped'[t] = dropped[t] \ {v}
        /\ \A u \in Tabs \ {t} : dropped'[u] = dropped[u]
    BY <1>3 DEF ShortlistInv, ShortlistTypeOK
  <1>6. RemovedFromBoth'
    <2>1. dropped[t] \cap (Range(picked[t]) \cup Range(link[t])) = {}
      BY DEF ShortlistInv, RemovedFromBoth
    <2>2. dropped'[t] \cap (Range(picked'[t]) \cup Range(link'[t])) = {}
      BY <1>2, <1>3, <1>4, <1>5, <2>1
    <2> QED
      BY <1>3, <1>4, <1>5, <2>2, RemovedFrame
  <1>7. ShortlistTypeOK'
    BY <1>3, <1>4, <1>5 DEF ShortlistInv, ShortlistTypeOK, pageVars
  <1> QED
    BY <1>6, <1>7 DEF ShortlistInv

\* Removing a vehicle from the comparison.
LEMMA RemoveStep ==
  ASSUME ShortlistInv, NEW t \in Tabs, NEW v \in Vehicles, RemoveVehicle(t, v)
  PROVE  ShortlistInv'
  <1>1. /\ MAX_COMPARE \in Nat /\ picked[t] \in Lists(MAX_COMPARE) /\ link[t] \in Lists(MAX_COMPARE)
        /\ dropped[t] \in SUBSET Vehicles
    BY ShortlistAssumption DEF ShortlistInv, ShortlistTypeOK
  <1>2. /\ Without(picked[t], v) \in Lists(MAX_COMPARE) /\ Range(Without(picked[t], v)) = Range(picked[t]) \ {v}
        /\ Without(link[t], v) \in Lists(MAX_COMPARE) /\ Range(Without(link[t], v)) = Range(link[t]) \ {v}
    BY <1>1, WithoutStep
  <1>3. /\ SaveList(t, Without(picked[t], v)) /\ link' = [link EXCEPT ![t] = Without(link[t], v)]
        /\ dropped' = [dropped EXCEPT ![t] = dropped[t] \cup {v}]
        /\ UNCHANGED <<comparing, reloads, pageVars, viewed>>
    BY DEF RemoveVehicle
  <1>4. /\ storedPicks' \in Lists(MAX_COMPARE) /\ picked' \in [Tabs -> Lists(MAX_COMPARE)]
        /\ picked'[t] = Without(picked[t], v) /\ \A u \in Tabs \ {t} : picked'[u] = picked[u]
    BY <1>2, <1>3, SaveStep
  <1>5. /\ dropped' \in [Tabs -> SUBSET Vehicles] /\ dropped'[t] = dropped[t] \cup {v}
        /\ \A u \in Tabs \ {t} : dropped'[u] = dropped[u] /\ link'[u] = link[u]
        /\ link' \in [Tabs -> Lists(MAX_COMPARE)] /\ link'[t] = Without(link[t], v)
    BY <1>1, <1>2, <1>3 DEF ShortlistInv, ShortlistTypeOK
  <1>6. RemovedFromBoth'
    <2>1. dropped[t] \cap (Range(picked[t]) \cup Range(link[t])) = {}
      BY DEF ShortlistInv, RemovedFromBoth
    <2>2. dropped'[t] \cap (Range(picked'[t]) \cup Range(link'[t])) = {}
      BY <1>2, <1>4, <1>5, <2>1
    <2> QED
      BY <1>4, <1>5, <2>2, RemovedFrame
  <1>7. ShortlistTypeOK'
    BY <1>3, <1>4, <1>5 DEF ShortlistInv, ShortlistTypeOK, pageVars
  <1> QED
    BY <1>6, <1>7 DEF ShortlistInv

\* Clearing the list.
LEMMA ClearStep ==
  ASSUME ShortlistInv, NEW t \in Tabs, ClearList(t)
  PROVE  ShortlistInv'
  <1>1. <<>> \in Lists(MAX_COMPARE) /\ Range(<<>>) = {}
    BY EmptyList, ShortlistAssumption
  <1>2. SaveList(t, <<>>) /\ UNCHANGED <<link, comparing, dropped, reloads, pageVars, viewed>>
    BY DEF ClearList
  <1>3. /\ storedPicks' \in Lists(MAX_COMPARE) /\ picked' \in [Tabs -> Lists(MAX_COMPARE)]
        /\ picked'[t] = <<>> /\ \A u \in Tabs \ {t} : picked'[u] = picked[u]
    BY <1>1, <1>2, SaveStep
  <1>4. RemovedFromBoth'
    <2>1. dropped'[t] \cap (Range(picked'[t]) \cup Range(link'[t])) = {}
      BY <1>1, <1>2, <1>3 DEF ShortlistInv, RemovedFromBoth
    <2> QED
      BY <1>2, <1>3, <2>1, RemovedFrame
  <1>5. ShortlistTypeOK'
    BY <1>2, <1>3 DEF ShortlistInv, ShortlistTypeOK, pageVars
  <1> QED
    BY <1>4, <1>5 DEF ShortlistInv

\* Opening the comparison by a button or a link.
LEMMA ComparisonStep ==
  ASSUME ShortlistInv, NEW t \in Tabs, NEW ids \in Lists(MAX_COMPARE), OpenComparison(t, ids)
  PROVE  ShortlistInv'
  <1>1. /\ comparing' = [comparing EXCEPT ![t] = TRUE] /\ link' = [link EXCEPT ![t] = ids]
        /\ openVehicle' = [openVehicle EXCEPT ![t] = NoPage] /\ selected' = [selected EXCEPT ![t] = 0]
        /\ dropped' = [dropped EXCEPT ![t] = dropped[t] \ Range(ids)]
        /\ UNCHANGED <<storedPicks, picked, reloads, viewed>>
    BY DEF OpenComparison
  <1>2. ShortlistTypeOK'
    <2>1. comparing' \in [Tabs -> BOOLEAN] /\ openVehicle' \in [Tabs -> Vehicles \cup {NoPage}]
          /\ selected' \in [Tabs -> Nat]
      BY <1>1 DEF ShortlistInv, ShortlistTypeOK
    <2>2. link' \in [Tabs -> Lists(MAX_COMPARE)] /\ dropped' \in [Tabs -> SUBSET Vehicles]
      BY <1>1 DEF ShortlistInv, ShortlistTypeOK
    <2> QED
      BY <1>1, <2>1, <2>2 DEF ShortlistInv, ShortlistTypeOK
  <1>3. /\ dropped'[t] = dropped[t] \ Range(ids) /\ link'[t] = ids
        /\ \A u \in Tabs \ {t} : dropped'[u] = dropped[u] /\ link'[u] = link[u]
    BY <1>1 DEF ShortlistInv, ShortlistTypeOK
  <1>4. dropped[t] \cap (Range(picked[t]) \cup Range(link[t])) = {}
    BY DEF ShortlistInv, RemovedFromBoth
  <1>5. dropped'[t] \cap (Range(picked'[t]) \cup Range(link'[t])) = {}
    BY <1>1, <1>3, <1>4
  <1> QED
    BY <1>1, <1>2, <1>3, <1>5, RemovedFrame DEF ShortlistInv

\* Leaving the comparison, and a reload.
LEMMA BackStep ==
  ASSUME ShortlistInv, NEW t \in Tabs, LeaveComparison(t) \/ Reload(t)
  PROVE  ShortlistInv'
  <1>1. MAX_COMPARE \in Nat /\ <<>> \in Lists(MAX_COMPARE) /\ Range(<<>>) = {}
        /\ storedPicks \in Lists(MAX_COMPARE)
    BY EmptyList, ShortlistAssumption DEF ShortlistInv, ShortlistTypeOK
  <1>2. dropped[t] \cap (Range(picked[t]) \cup Range(link[t])) = {}
    BY DEF ShortlistInv, RemovedFromBoth
  <1>3. CASE LeaveComparison(t)
    <2>1. /\ comparing' = [comparing EXCEPT ![t] = FALSE] /\ link' = [link EXCEPT ![t] = <<>>]
          /\ UNCHANGED <<storedPicks, picked, dropped, reloads, pageVars, viewed>>
      BY <1>3 DEF LeaveComparison
    <2>2. /\ link' \in [Tabs -> Lists(MAX_COMPARE)] /\ comparing' \in [Tabs -> BOOLEAN] /\ link'[t] = <<>>
          /\ \A u \in Tabs \ {t} : link'[u] = link[u]
      BY <1>1, <2>1 DEF ShortlistInv, ShortlistTypeOK
    <2>3. dropped'[t] \cap (Range(picked'[t]) \cup Range(link'[t])) = {}
      BY <1>1, <1>2, <2>1, <2>2
    <2>4. RemovedFromBoth'
      BY <2>1, <2>2, <2>3, RemovedFrame
    <2> QED
      BY <2>1, <2>2, <2>4 DEF ShortlistInv, ShortlistTypeOK, pageVars
  <1>4. CASE Reload(t)
    <2> DEFINE next == FirstOf(storedPicks, MAX_COMPARE)
    <2>1. next \in Lists(MAX_COMPARE) /\ Range(next) \subseteq Range(storedPicks)
      <3>1. storedPicks \in Seq(Vehicles) /\ IsInjective(storedPicks)
        BY <1>1, ListsAre
      <3> QED
        BY <1>1, <3>1, FirstOfStep
    <2>2. /\ reloads < MaxReloads /\ reloads' = reloads + 1 /\ picked' = [picked EXCEPT ![t] = next]
          /\ dropped' = [dropped EXCEPT ![t] = dropped[t] \ Range(storedPicks)]
          /\ selected' = [selected EXCEPT ![t] = 0]
          /\ UNCHANGED <<storedPicks, viewed, link, comparing, openVehicle>>
      BY <1>4 DEF Reload
    <2> HIDE DEF next
    <2>3. /\ picked' \in [Tabs -> Lists(MAX_COMPARE)] /\ dropped' \in [Tabs -> SUBSET Vehicles]
          /\ picked'[t] = next /\ dropped'[t] = dropped[t] \ Range(storedPicks)
          /\ \A u \in Tabs \ {t} : picked'[u] = picked[u] /\ dropped'[u] = dropped[u]
      BY <2>1, <2>2 DEF ShortlistInv, ShortlistTypeOK
    <2>4. reloads' \in 0..MaxReloads /\ selected' \in [Tabs -> Nat]
      BY <2>2, ShortlistAssumption DEF ShortlistInv, ShortlistTypeOK
    <2>5. dropped'[t] \cap (Range(picked'[t]) \cup Range(link'[t])) = {}
      BY <1>2, <2>1, <2>2, <2>3
    <2>6. RemovedFromBoth'
      BY <2>2, <2>3, <2>5, RemovedFrame
    <2> QED
      BY <2>2, <2>3, <2>4, <2>6 DEF ShortlistInv, ShortlistTypeOK
  <1> QED
    BY <1>3, <1>4

\* The pages of vehicles, their galleries and the landing page leave the lists alone.
LEMMA PageStep ==
  ASSUME ShortlistInv, NEW t \in Tabs,
         \/ \E v \in Vehicles : OpenVehicle(t, v)
         \/ OpenLanding(t) \/ ClearRecentlyViewed(t) \/ NextPhotoShown(t) \/ Thumbnail(t)
  PROVE  ShortlistInv'
  <1>1. UNCHANGED <<storedPicks, picked, link, comparing, dropped, reloads>>
    BY DEF OpenVehicle, OpenLanding, ClearRecentlyViewed, NextPhotoShown, Thumbnail
  <1>2. MAX_RECENTLY_VIEWED \in Nat /\ viewed \in Lists(MAX_RECENTLY_VIEWED)
        /\ openVehicle \in [Tabs -> Vehicles \cup {NoPage}] /\ selected \in [Tabs -> Nat]
    BY ShortlistAssumption DEF ShortlistInv, ShortlistTypeOK
  <1>3. viewed' \in Lists(MAX_RECENTLY_VIEWED) /\ openVehicle' \in [Tabs -> Vehicles \cup {NoPage}]
        /\ selected' \in [Tabs -> Nat]
    <2>1. ASSUME NEW v \in Vehicles, OpenVehicle(t, v)
          PROVE  /\ viewed' \in Lists(MAX_RECENTLY_VIEWED) /\ openVehicle' \in [Tabs -> Vehicles \cup {NoPage}]
                 /\ selected' \in [Tabs -> Nat]
      <3> DEFINE r == Without(viewed, v)
      <3>1. r \in Lists(MAX_RECENTLY_VIEWED) /\ Range(r) = Range(viewed) \ {v}
        BY <1>2, WithoutStep
      <3> HIDE DEF r
      <3>2. r \in Seq(Vehicles) /\ IsInjective(r) /\ v \notin Range(r)
        BY <1>2, <3>1, ListsAre
      <3>3. <<v>> \o r \in Seq(Vehicles) /\ IsInjective(<<v>> \o r)
        BY <3>2, AddedOnce
      <3>4. FirstOf(<<v>> \o r, MAX_RECENTLY_VIEWED) \in Lists(MAX_RECENTLY_VIEWED)
        BY <1>2, <3>3, FirstOfStep
      <3>5. viewed' = FirstOf(<<v>> \o r, MAX_RECENTLY_VIEWED)
        BY <2>1 DEF OpenVehicle, RecordRecentlyViewed, r
      <3>6. openVehicle' = [openVehicle EXCEPT ![t] = v] /\ selected' \in {selected, [selected EXCEPT ![t] = 0]}
        BY <2>1 DEF OpenVehicle
      <3> QED
        BY <1>2, <3>4, <3>5, <3>6
    <2>2. CASE OpenLanding(t)
      BY <1>2, <2>2 DEF OpenLanding
    <2>3. CASE ClearRecentlyViewed(t)
      BY <1>2, <2>3, EmptyList DEF ClearRecentlyViewed, pageVars
    <2>4. CASE NextPhotoShown(t)
      <3>1. UNCHANGED <<openVehicle, viewed>> /\ HasArrows(t)
        BY <2>4 DEF NextPhotoShown
      <3>2. Count(t) \in Nat /\ Count(t) > 1
        BY <1>2, <3>1, ShortlistAssumption DEF HasArrows, Count
      <3>3. PhotoIndex(t) \in Nat
        BY <1>2, <3>2 DEF PhotoIndex
      <3>4. PICK next \in Nat : Show(t, next)
        <4>1. PhotoIndex(t) + 1 \in Nat /\ PhotoIndex(t) + Count(t) - 1 \in Nat
          BY <3>2, <3>3
        <4> QED
          BY <2>4, <4>1 DEF NextPhotoShown
      <3>5. (next + Count(t)) % Count(t) \in Nat
        BY <3>2
      <3>6. selected' \in [Tabs -> Nat]
        BY <1>2, <3>4, <3>5 DEF Show
      <3> QED
        BY <1>2, <3>1, <3>6
    <2>5. CASE Thumbnail(t)
      <3>1. UNCHANGED <<openVehicle, viewed>> /\ HasArrows(t)
            /\ \E i \in 0..(Count(t) - 1) : selected' = [selected EXCEPT ![t] = i]
        BY <2>5 DEF Thumbnail
      <3>2. Count(t) \in Nat
        BY <1>2, <3>1, ShortlistAssumption DEF HasArrows, Count
      <3>3. PICK i \in Nat : selected' = [selected EXCEPT ![t] = i]
        <4>1. 0..(Count(t) - 1) \subseteq Nat
          BY <3>2
        <4> QED
          BY <3>1, <4>1, Zenon
      <3> QED
        BY <1>2, <3>1, <3>3
    <2> QED
      BY <2>1, <2>2, <2>3, <2>4, <2>5
  <1>4. ShortlistTypeOK'
    BY <1>1, <1>3 DEF ShortlistInv, ShortlistTypeOK
  <1> QED
    BY <1>1, <1>4 DEF ShortlistInv, RemovedFromBoth

\* At first every list is empty.
LEMMA ShortlistStart ==
  ASSUME ShortlistInit
  PROVE  ShortlistInv
  <1>1. <<>> \in Lists(MAX_COMPARE) /\ <<>> \in Lists(MAX_RECENTLY_VIEWED) /\ Range(<<>>) = {}
    BY EmptyList, ShortlistAssumption
  <1>2. 0 \in 0..MaxReloads
    BY ShortlistAssumption
  <1>3. ShortlistTypeOK
    BY <1>1, <1>2 DEF ShortlistInit, ShortlistTypeOK
  <1> QED
    BY <1>1, <1>3 DEF ShortlistInit, ShortlistInv, RemovedFromBoth

\* Every step of the shortlist keeps its invariant.
LEMMA ShortlistStep ==
  ASSUME ShortlistInv, ShortlistNext
  PROVE  ShortlistInv'
  <1>1. PICK t \in Tabs :
          \/ \E v \in Vehicles : ClickToggle(t, v) \/ RemoveVehicle(t, v) \/ OpenVehicle(t, v)
          \/ \E ids \in Lists(MAX_COMPARE) \ {<<>>} : FollowLink(t, ids)
          \/ ClearList(t) \/ CompareNow(t) \/ FollowNav(t) \/ LeaveComparison(t)
          \/ Reload(t) \/ OpenLanding(t) \/ ClearRecentlyViewed(t)
          \/ NextPhotoShown(t) \/ Thumbnail(t)
    BY Zenon DEF ShortlistNext
  <1>2. CASE \E v \in Vehicles : ClickToggle(t, v)
    BY <1>2, ToggleStep
  <1>3. CASE \E v \in Vehicles : RemoveVehicle(t, v)
    BY <1>3, RemoveStep
  <1>4. CASE ClearList(t)
    BY <1>4, ClearStep
  <1>5. CASE \/ CompareNow(t) \/ FollowNav(t) \/ \E ids \in Lists(MAX_COMPARE) \ {<<>>} : FollowLink(t, ids)
    <2>1. <<>> \in Lists(MAX_COMPARE) /\ picked[t] \in Lists(MAX_COMPARE)
      BY EmptyList, ShortlistAssumption DEF ShortlistInv, ShortlistTypeOK
    <2>2. \E ids \in Lists(MAX_COMPARE) : OpenComparison(t, ids)
      BY <1>5, <2>1 DEF CompareNow, FollowNav, FollowLink
    <2> QED
      BY <2>2, ComparisonStep
  <1>6. CASE LeaveComparison(t) \/ Reload(t)
    BY <1>6, BackStep
  <1>7. CASE \/ \E v \in Vehicles : OpenVehicle(t, v)
             \/ OpenLanding(t) \/ ClearRecentlyViewed(t) \/ NextPhotoShown(t) \/ Thumbnail(t)
    BY <1>7, PageStep
  <1> QED
    BY <1>1, <1>2, <1>3, <1>4, <1>5, <1>6, <1>7

\* The invariant implies what is said of the shortlist.
LEMMA ShortlistConsequence ==
  ASSUME ShortlistInv
  PROVE  RemovedStaysRemoved /\ GalleryInRange
  <1>1. ASSUME NEW t \in Tabs
        PROVE  dropped[t] \cap (Range(picked[t]) \cup Range(Compared(t))) = {}
    <2> DEFINE s == IF link[t] # <<>> THEN link[t] ELSE picked[t]
    <2>1. s = link[t] \/ s = picked[t]
      OBVIOUS
    <2>2. MAX_COMPARE \in Nat /\ picked[t] \in Lists(MAX_COMPARE) /\ link[t] \in Lists(MAX_COMPARE)
      BY ShortlistAssumption DEF ShortlistInv, ShortlistTypeOK
    <2>3. s \in Seq(Vehicles) /\ IsInjective(s)
      BY <2>1, <2>2, ListsAre
    <2> HIDE DEF s
    <2>4. Range(FirstOf(s, MAX_COMPARE)) \subseteq Range(s)
      BY <2>2, <2>3, FirstOfStep
    <2>5. Compared(t) = FirstOf(s, MAX_COMPARE)
      BY DEF Compared, s
    <2>6. dropped[t] \cap (Range(picked[t]) \cup Range(link[t])) = {}
      BY DEF ShortlistInv, RemovedFromBoth
    <2> QED
      BY <2>1, <2>4, <2>5, <2>6
  <1>2. ASSUME NEW t \in Tabs, openVehicle[t] # NoPage, Count(t) > 0
        PROVE  PhotoIndex(t) \in 0..(Count(t) - 1)
    <2>1. selected[t] \in Nat /\ openVehicle[t] \in Vehicles
      BY <1>2 DEF ShortlistInv, ShortlistTypeOK
    <2>2. Count(t) \in Nat
      BY <2>1, ShortlistAssumption DEF Count
    <2> QED
      BY <1>2, <2>1, <2>2 DEF PhotoIndex
  <1>3. RemovedStaysRemoved
    BY <1>1 DEF RemovedStaysRemoved
  <1>4. GalleryInRange
    BY <1>2, Zenon DEF GalleryInRange
  <1> QED
    BY <1>3, <1>4

-----------------------------------------------------------------------------
(* The upload pages. *)

Same(x, y) == x.csv = y.csv /\ x.photos = y.photos
\* The page polls on with this job, or it is as on the server.
Good(x) == Active(x) \/ Same(x, job)
\* Requests after which the page fetches the job again.
Refetching == {"zip", "retryCsv", "retryPhotos"}
\* The job seen is good, or will be: it is to be fetched, is being fetched, or was never seen.
SeenSettles ==
  \/ history.unheard
  \/ trouble /\ answer = Nothing
  \/ \E r \in Refetching : sent[r] = "done"
  \/ ~details /\ invalid
  \/ answer # Nothing /\ Good(answer)
  \/ answer = Nothing /\ (seen = Nothing \/ Good(seen))
\* An import known to have ended has ended: only a new upload, which has no answers yet, changes that.
ImportsStay ==
  Imported(seen) \/ Imported(answer) \/ draftsSeen # Unknown \/ sent["publish"] # "idle" => Imported(job)
\* The file is of the category selected.
FileIsOwn == chosen.file \in {"nothing", chosen.category}
UploadInv ==
  UploadScreensTypeOK /\ SeenSettles /\ ImportsStay /\ NoDraftForgotten /\ FileIsOwn /\ FileMatches

\* The state before an upload is known is none of the server's.
LEMMA NothingIsNoJob ==
  Nothing \notin Jobs /\ ~Imported(Nothing) /\ NoJob \in Jobs /\ NoChoice \in [category : Categories, file : AnyCategory]
    /\ NoChoice.file = "nothing"
  BY UploadScreensAssumption DEF Nothing, Jobs, Stages, Imported, NoJob, NoChoice, AnyCategory

\* The worker goes on with an active job only, so what is good stays good.
LEMMA WorkerStep ==
  ASSUME UploadInv, WorkerTakes \/ WorkerEnds
  PROVE  UploadInv'
  <1>1. UNCHANGED <<uploadPage, sent, jobQuery, draftsSeen, history>>
    BY DEF WorkerTakes, WorkerEnds
  <1>2. job \in Jobs /\ job.drafts \in 0..MaxDrafts /\ MaxDrafts \in Nat
    BY UploadScreensAssumption DEF UploadInv, UploadScreensTypeOK, Jobs
  <1>3. Active(job)
    BY DEF WorkerTakes, WorkerEnds, Active
  <1>4. job' \in Jobs /\ (job'.csv # job.csv => job.csv \in {"pending", "processing"})
        /\ (job'.drafts # job.drafts => job.csv = "processing")
    <2>1. CASE WorkerTakes
      BY <1>2, <2>1 DEF WorkerTakes, Jobs, Stages
    <2>2. CASE WorkerEnds /\ job.csv = "processing" /\ job'.photos = job.photos
              /\ \E end \in {"completed", "failed"}, n \in job.drafts..MaxDrafts : job' = [job EXCEPT !.csv = end, !.drafts = n]
      <3>1. PICK end \in {"completed", "failed"}, n \in job.drafts..MaxDrafts : job' = [job EXCEPT !.csv = end, !.drafts = n]
        BY <2>2
      <3>2. n \in 0..MaxDrafts
        BY <1>2
      <3> QED
        BY <1>2, <2>2, <3>1, <3>2 DEF Jobs, Stages
    <2>3. CASE WorkerEnds /\ \E end \in {"completed", "failed"} : job' = [job EXCEPT !.photos = end]
      BY <1>2, <2>3 DEF Jobs, Stages
    <2>4. ASSUME NEW end \in {"completed", "failed"}, NEW n \in job.drafts..MaxDrafts, job' = [job EXCEPT !.csv = end, !.drafts = n]
          PROVE  job'.photos = job.photos
      BY <1>2, <2>4 DEF Jobs
    <2> QED
      BY <2>1, <2>2, <2>3, <2>4 DEF WorkerEnds
  <1>5. \A x : Good(x) => Active(x) \/ Same(x, job')
    BY <1>3 DEF Good, Active, Same
  <1>6. SeenSettles'
    BY <1>1, <1>5 DEF UploadInv, SeenSettles, Good, Active, uploadPage, jobQuery
  <1>7. Imported(job) => Imported(job') /\ job'.drafts = job.drafts
    BY <1>4 DEF Imported
  <1>8. ImportsStay' /\ NoDraftForgotten'
    <2>1. draftsSeen = 0 => Imported(job) /\ job.drafts = 0
      BY DEF UploadInv, ImportsStay, NoDraftForgotten, Unknown
    <2> QED
      BY <1>1, <1>7, <2>1 DEF UploadInv, ImportsStay, NoDraftForgotten, Imported, jobQuery
  <1>9. UploadScreensTypeOK' /\ FileIsOwn' /\ FileMatches'
    BY <1>1, <1>4 DEF UploadInv, UploadScreensTypeOK, FileIsOwn, FileMatches, uploadPage, jobQuery
  <1> QED
    BY <1>6, <1>8, <1>9 DEF UploadInv

\* A failure is counted, and marked when an answer was lost.
LEMMA FailedStep ==
  ASSUME UploadScreensTypeOK, ScreenFault, NEW unheard \in BOOLEAN, history' = Failed(unheard)
  PROVE  /\ history' \in [mixed : BOOLEAN, unheard : BOOLEAN, faults : 0..MaxScreenFaults, clicks : 0..MaxClicks]
         /\ history'.mixed = history.mixed /\ history'.unheard = (history.unheard \/ unheard)
  <1> DEFINE h == history.unheard \/ unheard
             n == history.faults + 1
  <1>1. history' = [history EXCEPT !.faults = n, !.unheard = h]
    BY DEF Failed
  <1>2. h \in BOOLEAN /\ n \in 0..MaxScreenFaults
    BY UploadScreensAssumption DEF UploadScreensTypeOK, ScreenFault
  <1> HIDE DEF h, n
  <1>3. /\ history' \in [mixed : BOOLEAN, unheard : BOOLEAN, faults : 0..MaxScreenFaults, clicks : 0..MaxClicks]
        /\ history'.mixed = history.mixed /\ history'.unheard = h
    BY <1>1, <1>2 DEF UploadScreensTypeOK
  <1> QED
    BY <1>3 DEF h

\* What the page asks for is good, as it was read.
LEMMA AskIsGood ==
  ASSUME job \in Jobs, Ask, UNCHANGED job
  PROVE  /\ answer' # Nothing /\ Good(answer)' /\ answer' \in Jobs
         /\ Imported(answer)' => Imported(job)'
  BY NothingIsNoJob DEF Ask, Good, Same, Imported

\* Nothing but the query, of the job, changes.
LEMMA QueryFrame ==
  ASSUME UploadInv, UNCHANGED <<job, chosen, sent, draftsSeen>>,
         history' \in [mixed : BOOLEAN, unheard : BOOLEAN, faults : 0..MaxScreenFaults, clicks : 0..MaxClicks],
         history'.mixed = history.mixed,
         seen' \in {seen, answer}, answer' \in {answer, Nothing, job},
         details' \in BOOLEAN, invalid' \in BOOLEAN, trouble' \in BOOLEAN,
         SeenSettles'
  PROVE  UploadInv'
  <1>1. UploadScreensTypeOK'
    BY DEF UploadInv, UploadScreensTypeOK
  <1>2. ImportsStay'
    BY NothingIsNoJob DEF UploadInv, ImportsStay, Imported
  <1>3. NoDraftForgotten' /\ FileIsOwn' /\ FileMatches'
    BY DEF UploadInv, NoDraftForgotten, FileIsOwn, FileMatches
  <1> QED
    BY <1>1, <1>2, <1>3 DEF UploadInv

\* The answers to the query, the polls and the visits of the details page.
LEMMA JobQueryStep ==
  ASSUME UploadInv, JobSettles \/ Poll \/ LeaveDetails
  PROVE  UploadInv'
  <1>1. UNCHANGED <<job, chosen, sent, draftsSeen>>
    BY DEF JobSettles, JobArrives, JobFails, Poll, LeaveDetails, uploadPage, jobQuery
  <1>2. /\ history \in [mixed : BOOLEAN, unheard : BOOLEAN, faults : 0..MaxScreenFaults, clicks : 0..MaxClicks]
        /\ job \in Jobs /\ details \in BOOLEAN /\ invalid \in BOOLEAN /\ trouble \in BOOLEAN
    BY DEF UploadInv, UploadScreensTypeOK
  <1>3. CASE JobArrives
    <2>1. /\ answer # Nothing /\ seen' = answer /\ answer' = Nothing /\ trouble' = FALSE
          /\ UNCHANGED <<details, invalid, history>>
      BY <1>3 DEF JobArrives, uploadPage
    <2>2. SeenSettles'
      BY <1>1, <2>1 DEF UploadInv, SeenSettles, Good, Active, Same
    <2> QED
      BY <1>1, <1>2, <2>1, <2>2, QueryFrame
  <1>4. CASE JobFails
    <2>1. /\ answer' = Nothing /\ trouble' = TRUE /\ invalid' = TRUE /\ history' = Failed(FALSE) /\ ScreenFault
          /\ UNCHANGED <<seen, details>>
      BY <1>4 DEF JobFails, uploadPage
    <2>2. /\ history' \in [mixed : BOOLEAN, unheard : BOOLEAN, faults : 0..MaxScreenFaults, clicks : 0..MaxClicks]
          /\ history'.mixed = history.mixed
      BY <2>1, FailedStep DEF UploadInv
    <2>3. SeenSettles'
      BY <2>1 DEF SeenSettles
    <2> QED
      BY <1>1, <1>2, <2>1, <2>2, <2>3, QueryFrame
  <1>5. CASE Poll
    <2>1. Ask /\ UNCHANGED <<details, seen, invalid, trouble, history>>
      BY <1>5 DEF Poll, uploadPage
    <2>2. answer' = job /\ SeenSettles'
      BY <1>1, <1>2, <2>1, AskIsGood DEF SeenSettles, Ask
    <2> QED
      BY <1>1, <1>2, <2>1, <2>2, QueryFrame
  <1>6. CASE LeaveDetails
    <2>1. details' = FALSE /\ UNCHANGED <<seen, invalid, answer, trouble, history>>
      BY <1>6 DEF LeaveDetails, jobQuery
    <2>2. SeenSettles'
      BY <1>1, <2>1 DEF UploadInv, SeenSettles, Good, Active, Same
    <2> QED
      BY <1>1, <1>2, <2>1, <2>2, QueryFrame
  <1> QED
    BY <1>3, <1>4, <1>5, <1>6 DEF JobSettles

\* The page fetches what it has not seen or is to fetch again; its query settles whether it does or not.
LEMMA FetchingStep ==
  ASSUME UploadInv, NEW stale \in BOOLEAN, Fetching(stale), UNCHANGED <<job, history>>,
         \A r \in Refetching : sent'[r] = sent[r]
  PROVE  /\ SeenSettles' /\ answer' \in {answer, job} /\ invalid' = FALSE /\ UNCHANGED <<seen, trouble>>
  <1>1. invalid' = FALSE /\ UNCHANGED <<seen, trouble>> /\ job \in Jobs
    BY DEF Fetching, UploadInv, UploadScreensTypeOK
  <1>2. CASE Ask
    BY <1>1, <1>2, AskIsGood DEF SeenSettles, Ask
  <1>3. CASE UNCHANGED answer /\ seen # Nothing /\ ~invalid
    BY <1>1, <1>3 DEF UploadInv, SeenSettles, Good, Active, Same
  <1> QED
    BY <1>1, <1>2, <1>3 DEF Fetching, Ask

\* The details page is opened, with a choice that is none.
LEMMA OpenDetailsStep ==
  ASSUME UploadInv, NEW stale \in BOOLEAN, OpenDetails(stale)
  PROVE  UploadInv'
  <1>1. details' = TRUE /\ chosen' = NoChoice /\ Fetching(stale) /\ UNCHANGED <<job, sent, draftsSeen, history>>
    BY DEF OpenDetails
  <1>2. /\ SeenSettles' /\ answer' \in {answer, job} /\ invalid' = FALSE /\ UNCHANGED <<seen, trouble>>
    BY <1>1, FetchingStep
  <1>3. UploadScreensTypeOK'
    <2>1. job' \in Jobs /\ seen' \in Jobs \cup {Nothing} /\ answer' \in Jobs \cup {Nothing}
      BY <1>1, <1>2 DEF UploadInv, UploadScreensTypeOK
    <2>2. chosen' \in [category : Categories, file : AnyCategory]
      BY <1>1, NothingIsNoJob
    <2>3. details' \in BOOLEAN /\ invalid' \in BOOLEAN /\ trouble' \in BOOLEAN
      BY <1>1, <1>2 DEF UploadInv, UploadScreensTypeOK
    <2> QED
      BY <1>1, <2>1, <2>2, <2>3 DEF UploadInv, UploadScreensTypeOK
  <1>4. ImportsStay' /\ NoDraftForgotten'
    BY <1>1, <1>2 DEF UploadInv, ImportsStay, NoDraftForgotten, Imported
  <1>5. FileIsOwn' /\ FileMatches'
    BY <1>1, NothingIsNoJob DEF UploadInv, FileIsOwn, FileMatches
  <1> QED
    BY <1>2, <1>3, <1>4, <1>5 DEF UploadInv

\* Drafts are counted once the import has ended; a file and its category are chosen together.
LEMMA ChooseStep ==
  ASSUME UploadInv, CountDrafts \/ ChooseCsv \/ \E c \in Categories : SelectCategory(c)
  PROVE  UploadInv'
  <1>1. UNCHANGED <<job, details, sent, jobQuery, history>>
    BY DEF CountDrafts, ChooseCsv, SelectCategory, uploadPage
  <1>2. SeenSettles'
    BY <1>1 DEF UploadInv, SeenSettles, Good, Active, Same, jobQuery
  <1>3. CASE CountDrafts
    <2>1. draftsSeen' = job.drafts /\ Imported(seen) /\ UNCHANGED chosen
      BY <1>3 DEF CountDrafts, uploadPage
    <2>2. job.drafts \in 0..MaxDrafts
      BY DEF UploadInv, UploadScreensTypeOK, Jobs
    <2>3. UploadScreensTypeOK'
      BY <1>1, <2>1, <2>2 DEF UploadInv, UploadScreensTypeOK, jobQuery
    <2>4. ImportsStay' /\ NoDraftForgotten'
      BY <1>1, <2>1 DEF UploadInv, ImportsStay, NoDraftForgotten, Imported, jobQuery
    <2> QED
      BY <1>1, <1>2, <2>1, <2>3, <2>4 DEF UploadInv, FileIsOwn, FileMatches
  <1>4. CASE ChooseCsv \/ \E c \in Categories : SelectCategory(c)
    <2>1. chosen' \in [category : Categories, file : AnyCategory] /\ FileIsOwn' /\ UNCHANGED draftsSeen
      <3>1. CASE ChooseCsv
        BY <3>1 DEF ChooseCsv, UploadInv, UploadScreensTypeOK, FileIsOwn, AnyCategory
      <3>2. CASE \E c \in Categories : SelectCategory(c)
        BY <3>2 DEF SelectCategory, FileIsOwn, AnyCategory
      <3> QED
        BY <1>4, <3>1, <3>2
    <2>2. UploadScreensTypeOK'
      BY <1>1, <2>1 DEF UploadInv, UploadScreensTypeOK, jobQuery
    <2>3. ImportsStay' /\ NoDraftForgotten'
      BY <1>1, <2>1 DEF UploadInv, ImportsStay, NoDraftForgotten, Imported, jobQuery
    <2> QED
      BY <1>1, <1>2, <2>1, <2>2, <2>3 DEF UploadInv, FileMatches
  <1> QED
    BY <1>3, <1>4

\* A request is sent from what the page shows; a file only as of its own category.
LEMMA ClickStep ==
  ASSUME UploadInv, NEW r \in Requests, Click(r)
  PROVE  UploadInv'
  <1> DEFINE m == history.mixed \/ (r = "csv" /\ chosen.file # chosen.category)
             n == history.clicks + 1
  <1>1. /\ Offered(r) /\ sent[r] = "idle" /\ sent' = [sent EXCEPT ![r] = "sent"]
        /\ history' = [history EXCEPT !.clicks = n, !.mixed = m]
        /\ UNCHANGED <<job, uploadPage, jobQuery, draftsSeen>>
    BY DEF Click
  <1>2. m = FALSE /\ n \in 0..MaxClicks
    <2>1. r = "csv" => chosen.file = chosen.category
      BY <1>1 DEF Offered, UploadInv, FileIsOwn
    <2>2. n \in 0..MaxClicks
      BY UploadScreensAssumption DEF Click, UploadInv, UploadScreensTypeOK
    <2>3. history.mixed = FALSE
      BY DEF UploadInv, UploadScreensTypeOK, FileMatches
    <2> QED
      BY <2>1, <2>2, <2>3
  <1> HIDE DEF m, n
  <1>3. /\ history' \in [mixed : BOOLEAN, unheard : BOOLEAN, faults : 0..MaxScreenFaults, clicks : 0..MaxClicks]
        /\ history'.mixed = FALSE /\ history'.unheard = history.unheard
    BY <1>1, <1>2 DEF UploadInv, UploadScreensTypeOK
  <1>4. sent' \in [Requests -> {"idle", "sent", "done", "refused"}]
        /\ \A s \in Requests : sent[s] = "done" => sent'[s] = "done"
        /\ "publish" \in Requests /\ Refetching \subseteq Requests
        /\ (sent'["publish"] # sent["publish"] => r = "publish")
    BY <1>1 DEF UploadInv, UploadScreensTypeOK, Requests, Refetching
  <1>5. SeenSettles'
    BY <1>1, <1>3, <1>4 DEF UploadInv, SeenSettles, Good, Active, Same, jobQuery, uploadPage
  <1>6. ImportsStay'
    <2>1. r = "publish" => Imported(seen)
      BY <1>1 DEF Offered
    <2> QED
      BY <1>1, <1>4, <2>1 DEF UploadInv, ImportsStay, Imported, jobQuery
  <1>7. UploadScreensTypeOK'
    BY <1>1, <1>3, <1>4 DEF UploadInv, UploadScreensTypeOK, jobQuery, uploadPage
  <1> QED
    BY <1>1, <1>3, <1>5, <1>6, <1>7 DEF UploadInv, NoDraftForgotten, FileIsOwn, FileMatches, uploadPage

\* A request carried out changes the job, which the page is then told of; a new upload starts from nothing.
LEMMA ServerDecidesStep ==
  ASSUME UploadInv, NEW r \in Requests, ServerDecides(r)
  PROVE  UploadInv'
  <1>1. job \in Jobs /\ UNCHANGED <<uploadPage, history>> /\ sent[r] = "sent"
    BY DEF ServerDecides, UploadInv, UploadScreensTypeOK
  <1>2. CASE r = "csv"
    <2>1. /\ sent' = [s \in Requests |-> IF s = r THEN "done" ELSE "idle"] /\ job' = [NoJob EXCEPT !.csv = "pending"]
          /\ seen' = Nothing /\ answer' = Nothing /\ invalid' = FALSE /\ trouble' = FALSE /\ draftsSeen' = Unknown
      BY <1>2 DEF ServerDecides, Allowed, Carried
    <2>2. job' \in Jobs /\ sent'["publish"] = "idle"
      BY <1>2, <2>1, NothingIsNoJob DEF Jobs, Stages, Requests
    <2>3. UploadScreensTypeOK'
      BY <1>1, <1>2, <2>1, <2>2 DEF UploadInv, UploadScreensTypeOK, uploadPage
    <2>4. SeenSettles'
      BY <2>1 DEF SeenSettles
    <2>5. ImportsStay' /\ NoDraftForgotten'
      BY <2>1, <2>2, NothingIsNoJob DEF ImportsStay, NoDraftForgotten, Imported, Unknown
    <2> QED
      BY <1>1, <2>3, <2>4, <2>5 DEF UploadInv, FileIsOwn, FileMatches, uploadPage
  <1>3. CASE r # "csv"
    <2> DEFINE end == IF Allowed(r) THEN "done" ELSE "refused"
    <2>1. /\ sent' = [sent EXCEPT ![r] = end] /\ job' = (IF Allowed(r) THEN Carried(r) ELSE job)
          /\ UNCHANGED <<jobQuery, draftsSeen>>
      BY <1>3 DEF ServerDecides
    <2>2. end \in {"done", "refused"}
      OBVIOUS
    <2> HIDE DEF end
    <2>3. /\ sent' \in [Requests -> {"idle", "sent", "done", "refused"}] /\ sent'[r] = end
          /\ \A s \in Requests \ {r} : sent'[s] = sent[s]
          /\ "publish" \in Requests /\ Refetching \subseteq Requests
      BY <2>1, <2>2 DEF UploadInv, UploadScreensTypeOK, Requests, Refetching
    <2>4. CASE ~Allowed(r)
      <3>1. job' = job
        BY <2>1, <2>4
      <3>2. SeenSettles'
        BY <1>1, <2>1, <2>3, <3>1 DEF UploadInv, SeenSettles, Good, Active, Same, jobQuery, uploadPage
      <3>3. ImportsStay' /\ NoDraftForgotten'
        BY <1>1, <2>1, <2>3, <3>1 DEF UploadInv, ImportsStay, NoDraftForgotten, Imported, jobQuery
      <3>4. UploadScreensTypeOK'
        BY <1>1, <2>1, <2>3, <3>1 DEF UploadInv, UploadScreensTypeOK, jobQuery, uploadPage
      <3> QED
        BY <1>1, <3>2, <3>3, <3>4 DEF UploadInv, FileIsOwn, FileMatches, uploadPage
    <2>5. CASE Allowed(r) /\ r = "publish"
      <3>1. job' = [job EXCEPT !.drafts = 0] /\ 0 \in 0..MaxDrafts
        BY <2>1, <2>5, UploadScreensAssumption DEF Carried
      <3>2. job' \in Jobs /\ Same(job', job) /\ job'.drafts = 0
        BY <1>1, <3>1 DEF Jobs, Same
      <3>3. \A x : Same(x, job) => Same(x, job')
        BY <3>2 DEF Same
      <3>4. SeenSettles'
        BY <1>1, <2>1, <2>3, <2>5, <3>3 DEF UploadInv, SeenSettles, Good, Active, jobQuery, uploadPage, Refetching
      <3>5. ImportsStay' /\ NoDraftForgotten'
        BY <1>1, <2>1, <2>3, <2>5, <3>2 DEF UploadInv, ImportsStay, NoDraftForgotten, Imported, jobQuery, Same
      <3>6. UploadScreensTypeOK'
        BY <1>1, <2>1, <2>3, <3>2 DEF UploadInv, UploadScreensTypeOK, jobQuery, uploadPage
      <3> QED
        BY <1>1, <3>4, <3>5, <3>6 DEF UploadInv, FileIsOwn, FileMatches, uploadPage
    <2>6. CASE Allowed(r) /\ r \in Refetching
      <3>1. \/ job' = [job EXCEPT !.csv = "pending"] /\ job.csv = "failed"
            \/ job' = [job EXCEPT !.photos = "pending"]
        BY <2>1, <2>6 DEF Carried, Allowed, Refetching
      <3>2. job' \in Jobs /\ job'.drafts = job.drafts /\ (Imported(job) => Imported(job'))
        BY <1>1, <3>1 DEF Jobs, Stages, Imported
      <3>3. sent'[r] = "done"
        BY <2>3, <2>6 DEF end
      <3>4. SeenSettles'
        BY <2>6, <3>3 DEF SeenSettles
      <3>5. ImportsStay' /\ NoDraftForgotten'
        BY <1>1, <2>1, <2>3, <2>6, <3>2 DEF UploadInv, ImportsStay, NoDraftForgotten, Imported, jobQuery, Refetching
      <3>6. UploadScreensTypeOK'
        BY <1>1, <2>1, <2>3, <3>2 DEF UploadInv, UploadScreensTypeOK, jobQuery, uploadPage
      <3> QED
        BY <1>1, <3>4, <3>5, <3>6 DEF UploadInv, FileIsOwn, FileMatches, uploadPage
    <2> QED
      BY <1>3, <2>4, <2>5, <2>6 DEF Requests, Refetching
  <1> QED
    BY <1>2, <1>3

\* After its own request the page fetches the job again, or will when it is next shown.
LEMMA SucceedsStep ==
  ASSUME UploadInv, NEW r \in Requests, Succeeds(r)
  PROVE  UploadInv'
  <1>1. job \in Jobs /\ UNCHANGED <<job, history>> /\ sent[r] = "done" /\ sent' = [sent EXCEPT ![r] = "idle"]
    BY DEF Succeeds, UploadInv, UploadScreensTypeOK
  <1>2. /\ sent' \in [Requests -> {"idle", "sent", "done", "refused"}] /\ sent'[r] = "idle"
        /\ \A s \in Requests \ {r} : sent'[s] = sent[s]
        /\ "publish" \in Requests /\ Refetching \subseteq Requests
    BY <1>1 DEF UploadInv, UploadScreensTypeOK, Requests, Refetching
  <1>3. CASE r = "csv"
    <2>1. details' = TRUE /\ chosen' = NoChoice /\ Fetching(FALSE) /\ UNCHANGED draftsSeen
      BY <1>3 DEF Succeeds
    <2>2. SeenSettles' /\ answer' \in {answer, job} /\ invalid' = FALSE /\ UNCHANGED <<seen, trouble>>
      <3>1. \A s \in Refetching : sent'[s] = sent[s]
        BY <1>2, <1>3 DEF Refetching
      <3>2. FALSE \in BOOLEAN
        OBVIOUS
      <3> QED
        BY <1>1, <2>1, <3>1, <3>2, FetchingStep
    <2>3. UploadScreensTypeOK'
      <3>1. job' \in Jobs /\ seen' \in Jobs \cup {Nothing} /\ answer' \in Jobs \cup {Nothing}
        BY <1>1, <2>2 DEF UploadInv, UploadScreensTypeOK
      <3>2. chosen' \in [category : Categories, file : AnyCategory]
        BY <2>1, NothingIsNoJob
      <3>3. details' \in BOOLEAN /\ invalid' \in BOOLEAN /\ trouble' \in BOOLEAN
        BY <2>1, <2>2 DEF UploadInv, UploadScreensTypeOK
      <3> QED
        BY <1>1, <1>2, <2>1, <3>1, <3>2, <3>3 DEF UploadInv, UploadScreensTypeOK
    <2>4. ImportsStay' /\ NoDraftForgotten'
      BY <1>1, <1>2, <2>1, <2>2 DEF UploadInv, ImportsStay, NoDraftForgotten, Imported
    <2>5. FileIsOwn' /\ FileMatches'
      BY <1>1, <2>1, NothingIsNoJob DEF UploadInv, FileIsOwn, FileMatches
    <2> QED
      BY <2>2, <2>3, <2>4, <2>5 DEF UploadInv
  <1>4. CASE r = "publish"
    <2>1. draftsSeen' = (IF details THEN job.drafts ELSE Unknown) /\ UNCHANGED <<uploadPage, jobQuery>>
      BY <1>4 DEF Succeeds
    <2>2. job.drafts \in 0..MaxDrafts /\ Imported(job)
      BY <1>1, <1>4 DEF Jobs, UploadInv, ImportsStay
    <2>3. draftsSeen' \in {Unknown} \cup 0..MaxDrafts /\ (draftsSeen' = 0 => job.drafts = 0)
      BY <2>1, <2>2 DEF Unknown
    <2>4. SeenSettles'
      <3>1. \A s \in Refetching : sent'[s] = sent[s]
        BY <1>2, <1>4 DEF Refetching
      <3> QED
        BY <1>1, <2>1, <3>1 DEF UploadInv, SeenSettles, Good, Active, Same, jobQuery, uploadPage
    <2>5. UploadScreensTypeOK'
      BY <1>1, <1>2, <2>1, <2>3 DEF UploadInv, UploadScreensTypeOK, jobQuery, uploadPage
    <2> QED
      BY <1>1, <2>1, <2>2, <2>3, <2>4, <2>5 DEF UploadInv, ImportsStay, NoDraftForgotten, FileIsOwn, FileMatches, Imported, uploadPage
  <1>5. CASE r \in Refetching
    <2>1. /\ \/ details /\ Ask /\ UNCHANGED invalid
             \/ ~details /\ invalid' = TRUE /\ UNCHANGED answer
          /\ UNCHANGED <<uploadPage, draftsSeen, seen, trouble>>
      BY <1>5 DEF Succeeds, Refetching
    <2>2. SeenSettles' /\ answer' \in {answer, job} /\ invalid' \in {invalid, TRUE}
      <3>1. CASE details /\ Ask /\ UNCHANGED invalid
        BY <1>1, <3>1, AskIsGood DEF SeenSettles, Ask
      <3>2. CASE ~details /\ invalid' = TRUE /\ UNCHANGED answer
        BY <2>1, <3>2 DEF SeenSettles, uploadPage
      <3> QED
        BY <2>1, <3>1, <3>2
    <2>3. UploadScreensTypeOK'
      BY <1>1, <1>2, <2>1, <2>2 DEF UploadInv, UploadScreensTypeOK, uploadPage
    <2>4. ImportsStay' /\ NoDraftForgotten'
      BY <1>1, <1>2, <1>5, <2>1, <2>2 DEF UploadInv, ImportsStay, NoDraftForgotten, Imported, Refetching
    <2> QED
      BY <1>1, <2>1, <2>2, <2>3, <2>4 DEF UploadInv, FileIsOwn, FileMatches, uploadPage
  <1> QED
    BY <1>3, <1>4, <1>5 DEF Requests, Refetching

\* A request that failed leaves the job seen as it is, unless it was carried out unheard.
LEMMA FailsStep ==
  ASSUME UploadInv, NEW r \in Requests, Fails(r)
  PROVE  UploadInv'
  <1>1. UNCHANGED <<job, uploadPage, jobQuery, draftsSeen>> /\ sent' = [sent EXCEPT ![r] = "idle"]
    BY DEF Fails
  <1>2. /\ sent' \in [Requests -> {"idle", "sent", "done", "refused"}] /\ sent'[r] = "idle"
        /\ \A s \in Requests \ {r} : sent'[s] = sent[s]
        /\ "publish" \in Requests /\ Refetching \subseteq Requests
    BY <1>1 DEF UploadInv, UploadScreensTypeOK, Requests, Refetching
  <1>3. /\ history' \in [mixed : BOOLEAN, unheard : BOOLEAN, faults : 0..MaxScreenFaults, clicks : 0..MaxClicks]
        /\ history'.mixed = history.mixed /\ (history.unheard => history'.unheard)
        /\ sent[r] = "done" => history'.unheard
    <2>1. history \in [mixed : BOOLEAN, unheard : BOOLEAN, faults : 0..MaxScreenFaults, clicks : 0..MaxClicks]
      BY DEF UploadInv, UploadScreensTypeOK
    <2>2. CASE sent[r] = "refused" /\ UNCHANGED history
      BY <2>1, <2>2
    <2>3. CASE sent[r] = "sent" /\ ScreenFault /\ history' = Failed(FALSE)
      BY <2>3, FailedStep DEF UploadInv
    <2>4. CASE sent[r] = "done" /\ ScreenFault /\ history' = Failed(TRUE)
      BY <2>4, FailedStep DEF UploadInv
    <2> QED
      BY <2>2, <2>3, <2>4 DEF Fails
  <1>4. SeenSettles'
    <2>1. CASE sent[r] = "done"
      BY <1>3, <2>1 DEF SeenSettles
    <2>2. CASE sent[r] # "done"
      <3>1. \A s \in Refetching : sent[s] = "done" => sent'[s] = "done"
        BY <1>2, <2>2
      <3> QED
        BY <1>1, <1>3, <3>1 DEF UploadInv, SeenSettles, Good, Active, Same, jobQuery, uploadPage
    <2> QED
      BY <2>1, <2>2
  <1>5. ImportsStay' /\ NoDraftForgotten'
    BY <1>1, <1>2 DEF UploadInv, ImportsStay, NoDraftForgotten, Imported, jobQuery
  <1>6. UploadScreensTypeOK'
    BY <1>1, <1>2, <1>3 DEF UploadInv, UploadScreensTypeOK, jobQuery, uploadPage
  <1> QED
    BY <1>1, <1>3, <1>4, <1>5, <1>6 DEF UploadInv, FileIsOwn, FileMatches, uploadPage

\* At first the page has seen nothing.
LEMMA UploadStart ==
  ASSUME UploadScreensInit
  PROVE  UploadInv
  <1>1. 0 \in 0..MaxScreenFaults /\ 0 \in 0..MaxClicks /\ 0 \in 0..MaxDrafts /\ MaxDrafts \in 0..MaxDrafts
    BY UploadScreensAssumption
  <1>2. /\ job \in Jobs /\ seen = Nothing /\ answer = Nothing /\ chosen = NoChoice
        /\ sent = [r \in Requests |-> "idle"] /\ draftsSeen = Unknown
    BY <1>1, NothingIsNoJob DEF UploadScreensInit, Jobs, Stages
  <1>3. history \in [mixed : BOOLEAN, unheard : BOOLEAN, faults : 0..MaxScreenFaults, clicks : 0..MaxClicks]
        /\ ~history.mixed
    BY <1>1 DEF UploadScreensInit
  <1>4. UploadScreensTypeOK
    <2>1. job \in Jobs /\ seen \in Jobs \cup {Nothing} /\ answer \in Jobs \cup {Nothing}
      BY <1>2
    <2>2. chosen \in [category : Categories, file : AnyCategory]
      BY <1>2, NothingIsNoJob
    <2>3. sent \in [Requests -> {"idle", "sent", "done", "refused"}] /\ draftsSeen \in {Unknown} \cup 0..MaxDrafts
      BY <1>2
    <2>4. details \in BOOLEAN /\ invalid \in BOOLEAN /\ trouble \in BOOLEAN
      BY DEF UploadScreensInit
    <2> QED
      BY <1>3, <2>1, <2>2, <2>3, <2>4 DEF UploadScreensTypeOK
  <1>5. SeenSettles
    BY <1>2 DEF SeenSettles
  <1>6. ImportsStay /\ NoDraftForgotten
    BY <1>2, NothingIsNoJob DEF ImportsStay, NoDraftForgotten, Unknown, Requests
  <1> QED
    BY <1>2, <1>3, <1>4, <1>5, <1>6, NothingIsNoJob DEF UploadInv, FileIsOwn, FileMatches

\* Every step of the upload pages keeps their invariant.
LEMMA UploadStep ==
  ASSUME UploadInv, UploadScreensNext
  PROVE  UploadInv'
  <1>1. CASE WorkerTakes \/ WorkerEnds
    BY <1>1, WorkerStep
  <1>2. CASE JobSettles \/ Poll \/ LeaveDetails
    BY <1>2, JobQueryStep
  <1>3. CASE \E stale \in BOOLEAN : OpenDetails(stale)
    BY <1>3, OpenDetailsStep
  <1>4. CASE CountDrafts \/ ChooseCsv \/ \E c \in Categories : SelectCategory(c)
    BY <1>4, ChooseStep
  <1>5. CASE \E r \in Requests : Click(r) \/ RequestSettles(r)
    BY <1>5, ClickStep, ServerDecidesStep, SucceedsStep, FailsStep DEF RequestSettles
  <1> QED
    BY <1>1, <1>2, <1>3, <1>4, <1>5 DEF UploadScreensNext

\* The invariant implies what is said of the upload pages.
LEMMA UploadConsequence ==
  ASSUME UploadInv
  PROVE  QuietIsCurrent /\ NoDraftForgotten /\ FileMatches
  <1>1. ASSUME details, ~trouble, ~history.unheard, answer = Nothing, \A r \in Requests : sent[r] = "idle",
               seen # Nothing, ~Active(seen)
        PROVE  seen.csv = job.csv /\ seen.photos = job.photos
    BY <1>1 DEF UploadInv, SeenSettles, Good, Same, Refetching, Requests
  <1> QED
    BY <1>1 DEF QuietIsCurrent, UploadInv

-----------------------------------------------------------------------------
(* The administrator's tables. *)

Loading == [pc : {"idle", "sent", "answered"}, filter : AdminFilters, sheet : Nat \ {0}, live : BOOLEAN,
            decided : 0..MaxDecisions, rows : SUBSET Row]
Deciding == [pc : {"idle", "sent", "answered", "reload"}, id : Records \cup {NoDecision.id},
             to : {"open", "done"}, filter : AdminFilters]
\* The rows of records, with these statuses.
RowsOf(ids, marks) == {[id |-> i, status |-> marks[i]] : i \in ids}
\* Rows after an action has changed the status of a record, and without one.
Changed(rows, id, to) == {IF r.id = id THEN [r EXCEPT !.status = to] ELSE r : r \in rows}
Others(rows, id) == {r \in rows : r.id # id}
\* A load whose rows will be shown is under way.
LiveLoad == \E s \in Slots : loads[s].pc # "idle" /\ loads[s].live
\* An answer has the rows of the server until an action; one that will be shown on a guarded page is to the filters on it.
AnswersAreTables ==
  \A s \in Slots : loads[s].decided <= decided /\ (loads[s].pc # "idle" =>
    /\ loads[s].pc = "answered" /\ loads[s].decided = decided => loads[s].rows = Table(loads[s].filter, loads[s].sheet)
    /\ desk # "guarded" => loads[s].live
    /\ desk = "guarded" /\ loads[s].live => loads[s].filter = filter /\ loads[s].sheet = sheet)
\* An action is one on a record, and the server has done it when it answers.
DecisionIsOne ==
  /\ decision.pc # "idle" => decision.id \in Records /\ desk # "guarded" /\ (desk # "users" => decision.to = "done")
  /\ decision.pc = "sent" => decided < MaxDecisions
  /\ decision.pc = "answered" => truth[decision.id] = decision.to
\* A guarded page takes no actions, and is on a sheet that there is.
GuardedIsQuiet ==
  desk = "guarded" => decided = 0 /\ ~misled /\ (sheet = 1 \/ sheet \in 1..Cardinality(FoundBy(filter)))
\* The rows are those of the server, or will be: once an answer is shown, or the action under way has changed them.
RowsSettle ==
  ~misled /\ ~(desk = "guarded" /\ adminTrouble) =>
    \/ LiveLoad
    \/ decision.pc = "answered" /\ desk = "dealers"
    \/ decision.pc = "answered" /\ desk # "dealers"
         /\ ((desk = "listings" => decision.filter = filter /\ InTable) => AfterDecision = Table(filter, sheet))
    \/ decision.pc # "answered" /\ tableRows = Table(filter, sheet)
AdminInv ==
  AdminTypeOK /\ AnswersAreTables /\ DecisionIsOne /\ GuardedIsQuiet /\ RowsSettle

\* Every place in a set of numbers, in their order, is that of one of them.
LEMMA PlaceIsTaken ==
  ASSUME NEW S \in SUBSET Nat, IsFiniteSet(S), NEW p \in 1..Cardinality(S)
  PROVE  \E j \in S : Cardinality({k \in S : k <= j}) = p
  <1> DEFINE upto(j) == {k \in S : k <= j}
             rank(j) == Cardinality(upto(j))
             Early == {j \in S : rank(j) < p}
  <1>1. Cardinality(S) \in Nat /\ p \in Nat \ {0} /\ p <= Cardinality(S) /\ \A n \in S : n \in Nat
    BY FS_CardinalityType
  <1>2. \A j : IsFiniteSet(upto(j)) /\ rank(j) \in Nat
    BY FS_Subset, FS_CardinalityType
  <1>3. IsFiniteSet(Early) /\ Cardinality(Early) \in Nat
    BY FS_Subset, FS_CardinalityType
  <1>4. ASSUME NEW j \in S, NEW k \in S, j < k
        PROVE  rank(j) < rank(k)
    <2>1. upto(j) \subseteq upto(k) /\ k \in upto(k) /\ k \notin upto(j)
      <3>1. j \in Nat /\ k \in Nat /\ j < k
        BY <1>1, <1>4
      <3>2. (\A n \in S : n <= j => n <= k) /\ k <= k /\ ~(k <= j)
        BY <1>1, <3>1
      <3> QED
        BY <1>4, <3>2
    <2> HIDE DEF upto
    <2>2. upto(j) \in SUBSET upto(k) /\ upto(j) # upto(k)
      BY <2>1
    <2>3. Cardinality(upto(j)) <= Cardinality(upto(k)) /\ Cardinality(upto(j)) # Cardinality(upto(k))
      BY <1>2, <2>2, FS_Subset
    <2> QED
      BY <1>2, <2>3
  <1>5. \A j \in S : rank(j) >= 1
    <2>1. ASSUME NEW j \in S
          PROVE  rank(j) # 0
      <3>1. j \in upto(j)
        BY <2>1
      <3> HIDE DEF upto
      <3> QED
        BY <1>2, <3>1, FS_EmptySet
    <2> QED
      BY <1>2, <2>1
  <1> HIDE DEF upto, rank
  <1>6. Cardinality(Early) < p
    <2>1. SUFFICES ASSUME p <= Cardinality(Early)
                   PROVE  FALSE
      BY <1>1, <1>3
    <2> DEFINE f == [j \in Early |-> rank(j)]
    <2> DEFINE last == p - 1
    <2>2. f \in [Early -> 1..last]
      <3>1. \A j \in Early : rank(j) \in Nat /\ rank(j) >= 1 /\ rank(j) < p
        BY <1>2, <1>5 DEF rank
      <3>2. \A j \in Early : rank(j) \in 1..last
        BY <1>1, <3>1
      <3> HIDE DEF Early, last
      <3> QED
        BY <3>2
    <2>3. IsFiniteSet(1..last) /\ Cardinality(1..last) = last
      <3>1. 1 \in Int /\ last \in Int /\ (1 > last => last = 0) /\ last - 1 + 1 = last
        BY <1>1
      <3> HIDE DEF last
      <3> QED
        BY <3>1, FS_Interval
    <2>4. Cardinality(1..last) < Cardinality(Early)
      BY <1>1, <1>3, <2>1, <2>3
    <2>5. PICK j \in Early, k \in Early : j # k /\ f[j] = f[k]
      <3> HIDE DEF Early, f, last
      <3> QED
        BY <1>3, <2>2, <2>3, <2>4, FS_PigeonHole
    <2>6. j < k \/ k < j
      BY <2>5
    <2> QED
      BY <1>2, <1>4, <2>5, <2>6 DEF rank
  <1>7. S \ Early # {} /\ S \ Early \in SUBSET Nat
    <2>1. Early \subseteq S /\ Early # S
      <3> HIDE DEF Early
      <3>1. Early # S
        BY <1>1, <1>3, <1>6
      <3> QED
        BY <3>1 DEF Early
    <2> HIDE DEF Early
    <2> QED
      BY <2>1
  <1>8. PICK j \in S \ Early : \A k \in S \ Early : j <= k
    <2> DEFINE T == S \ Early
    <2> HIDE DEF T
    <2>1. T \in SUBSET Nat /\ T # {}
      BY <1>7 DEF T
    <2>2. \E j \in T : \A k \in T : j <= k
      BY <2>1, Smallest
    <2> QED
      BY <2>2 DEF T
  <1>9. upto(j) \subseteq Early \cup {j}
    <2>1. ASSUME NEW k \in S, k <= j, k \notin Early
          PROVE  k = j
      BY <1>1, <1>8, <2>1
    <2> HIDE DEF Early
    <2> QED
      BY <2>1 DEF upto
  <1>10. IsFiniteSet(Early \cup {j}) /\ Cardinality(Early \cup {j}) = Cardinality(Early) + 1
    <2> HIDE DEF Early
    <2>1. j \notin Early
      BY <1>8
    <2> QED
      BY <1>3, <2>1, FS_AddElement
  <1>11. rank(j) <= Cardinality(Early) + 1
    <2> HIDE DEF Early
    <2>1. upto(j) \in SUBSET (Early \cup {j})
      BY <1>9
    <2> QED
      BY <1>10, <2>1, FS_Subset DEF rank
  <1>12. rank(j) >= p
    BY <1>1, <1>2, <1>8
  <1>13. rank(j) = p
    <2> HIDE DEF Early
    <2> QED
      BY <1>1, <1>2, <1>3, <1>6, <1>11, <1>12 DEF rank
  <1> QED
    BY <1>8, <1>13 DEF rank, upto

\* A record's row in which the status is changed is its row after the change.
LEMMA RowsChanged ==
  ASSUME NEW ids \in SUBSET Records, NEW marks \in [Records -> {"open", "done"}],
         NEW id \in Records, NEW to \in {"open", "done"}
  PROVE  Changed(RowsOf(ids, marks), id, to) = RowsOf(ids, [marks EXCEPT ![id] = to])
  <1> DEFINE New == [marks EXCEPT ![id] = to]
             Put(r) == IF r.id = id THEN [r EXCEPT !.status = to] ELSE r
             row(i) == [id |-> i, status |-> marks[i]]
             rowN(i) == [id |-> i, status |-> New[i]]
  <1>1. \A i \in Records : New[i] = IF i = id THEN to ELSE marks[i]
    OBVIOUS
  <1>2. \A i \in Records : Put(row(i)) = rowN(i)
    BY <1>1
  <1>3. RowsOf(ids, marks) = {row(i) : i \in ids} /\ RowsOf(ids, New) = {rowN(i) : i \in ids}
    BY DEF RowsOf
  <1> HIDE DEF New, Put, row, rowN
  <1>4. {Put(r) : r \in RowsOf(ids, marks)} = RowsOf(ids, New)
    BY <1>2, <1>3
  <1> QED
    BY <1>4 DEF New, Put, Changed

\* The other rows are those of the other records.
LEMMA OthersStay ==
  ASSUME NEW ids \in SUBSET Records, NEW marks, NEW id \in Records
  PROVE  Others(RowsOf(ids, marks), id) = RowsOf(ids \ {id}, marks)
  <1> DEFINE row(i) == [id |-> i, status |-> marks[i]]
  <1>1. \A i : row(i).id = i
    OBVIOUS
  <1>2. RowsOf(ids, marks) = {row(i) : i \in ids} /\ RowsOf(ids \ {id}, marks) = {row(i) : i \in ids \ {id}}
    BY DEF RowsOf
  <1> HIDE DEF row
  <1>3. {r \in {row(i) : i \in ids} : r.id # id} = {row(i) : i \in ids \ {id}}
    BY <1>1
  <1> QED
    BY <1>2, <1>3 DEF Others

\* Records with the same statuses have the same rows.
LEMMA RowsAlike ==
  ASSUME NEW ids, NEW a, NEW b, \A i \in ids : a[i] = b[i]
  PROVE  RowsOf(ids, a) = RowsOf(ids, b)
  BY DEF RowsOf

\* A row is that of one of the records.
LEMMA RowIsOfOne ==
  ASSUME NEW ids, NEW marks, NEW id, \E r \in RowsOf(ids, marks) : r.id = id
  PROVE  id \in ids
  BY DEF RowsOf

\* The table depends on the page, the records, and the filters asked for only.
LEMMA TableStays ==
  ASSUME UNCHANGED <<desk, truth>>
  PROVE  /\ \A f, p : Table(f, p)' = Table(f, p)
         /\ \A f : FoundBy(f)' = FoundBy(f)
  BY DEF Table, FoundBy, Fits, ByStatus

\* The table has rows of records found; a page that is not guarded shows them all.
LEMMA TableHasRows ==
  ASSUME AdminTypeOK
  PROVE  /\ \A f, p : Table(f, p) \subseteq Row
         /\ desk # "guarded" => \A f, p : Table(f, p) = RowsOf(FoundBy(f), truth)
         /\ \A f : FoundBy(f) \subseteq Records
  <1>1. \A i \in Records : [id |-> i, status |-> truth[i]] \in Row
    BY DEF AdminTypeOK, Row
  <1>2. \A f : FoundBy(f) \subseteq Records
    BY DEF FoundBy
  <1>3. \A f, p : Table(f, p) \subseteq Row
    BY <1>1, <1>2 DEF Table
  <1>4. ASSUME desk # "guarded", NEW f, NEW p
        PROVE  Table(f, p) = RowsOf(FoundBy(f), truth)
    <2>1. {j \in FoundBy(f) : desk = "guarded" => Cardinality({k \in FoundBy(f) : k <= j}) = p} = FoundBy(f)
      BY <1>4
    <2> QED
      BY <2>1 DEF Table, RowsOf
  <1> QED
    BY <1>2, <1>3, <1>4

\* A load of the table that begins.
LEMMA TableLoadIs ==
  ASSUME decided \in 0..MaxDecisions, NEW f \in AdminFilters, NEW p \in Nat \ {0}
  PROVE  /\ TableLoad(f, p) \in Loading
         /\ TableLoad(f, p).pc = "sent" /\ TableLoad(f, p).live /\ TableLoad(f, p).decided = decided
         /\ TableLoad(f, p).filter = f /\ TableLoad(f, p).sheet = p
  BY DEF TableLoad, Loading

\* It takes a free slot, and will be shown.
LEMMA LoadTableStep ==
  ASSUME NEW before \in [Slots -> Loading], NEW new \in Loading, new.pc = "sent", new.live,
         \E s \in FreeSlot : loads' = [before EXCEPT ![s] = new]
  PROVE  /\ loads' \in [Slots -> Loading] /\ LiveLoad'
         /\ \A s \in Slots : loads'[s] = before[s] \/ loads'[s] = new
  <1>1. PICK s \in FreeSlot : loads' = [before EXCEPT ![s] = new]
    OBVIOUS
  <1>2. s \in Slots
    BY DEF FreeSlot
  <1>3. loads' \in [Slots -> Loading] /\ loads'[s] = new /\ \A r \in Slots : r # s => loads'[r] = before[r]
    BY <1>1, <1>2
  <1>4. LiveLoad'
    BY <1>2, <1>3 DEF LiveLoad
  <1> QED
    BY <1>3, <1>4

\* The effect before is cleaned up: on a guarded page no load lives on.
LEMMA AbandonedStep ==
  ASSUME loads \in [Slots -> Loading]
  PROVE  /\ Abandoned \in [Slots -> Loading]
         /\ \A s \in Slots : /\ Abandoned[s].pc = loads[s].pc /\ Abandoned[s].decided = loads[s].decided
                             /\ Abandoned[s].rows = loads[s].rows /\ Abandoned[s].filter = loads[s].filter
                             /\ Abandoned[s].sheet = loads[s].sheet
                             /\ (desk # "guarded" => Abandoned[s].live = loads[s].live)
                             /\ (desk = "guarded" => ~Abandoned[s].live)
  <1>1. \A l \in Loading : /\ [l EXCEPT !.live = FALSE] \in Loading
                           /\ [l EXCEPT !.live = FALSE].pc = l.pc /\ [l EXCEPT !.live = FALSE].decided = l.decided
                           /\ [l EXCEPT !.live = FALSE].rows = l.rows /\ [l EXCEPT !.live = FALSE].filter = l.filter
                           /\ [l EXCEPT !.live = FALSE].sheet = l.sheet /\ ~[l EXCEPT !.live = FALSE].live
    BY DEF Loading
  <1>2. \A s \in Slots : loads[s] \in Loading
    OBVIOUS
  <1>3. CASE desk = "guarded"
    <2>1. Abandoned = [s \in Slots |-> [loads[s] EXCEPT !.live = FALSE]]
      BY <1>3 DEF Abandoned
    <2> QED
      BY <1>1, <1>2, <1>3, <2>1
  <1>4. CASE desk # "guarded"
    BY <1>2, <1>4 DEF Abandoned
  <1> QED
    BY <1>3, <1>4

\* A filter or a page is changed, and a load for it begins.
LEMMA FilterStep ==
  ASSUME AdminInv, (\E f \in AdminFilters : ChooseFilter(f)) \/ TurnSheet
  PROVE  AdminInv'
  <1>1. loads \in [Slots -> Loading] /\ decided \in 0..MaxDecisions /\ filter \in AdminFilters
    BY DEF AdminInv, AdminTypeOK, Loading
  <1>2. /\ LoadTable(filter', sheet') /\ filter' \in AdminFilters /\ sheet' \in Nat \ {0}
        /\ filtered' \in 0..MaxFilters
        /\ UNCHANGED <<desk, truth, tableRows, decision, misled, decided, adminFaults>>
        /\ (desk = "guarded" => sheet' = 1 \/ sheet' \in 1..Cardinality(FoundBy(filter')))
    <2>1. filtered < MaxFilters => filtered + 1 \in 0..MaxFilters
      BY AdminAssumption DEF AdminInv, AdminTypeOK
    <2>2. ASSUME NEW f \in AdminFilters, ChooseFilter(f)
          PROVE  /\ LoadTable(filter', sheet') /\ filter' \in AdminFilters /\ sheet' \in Nat \ {0}
                 /\ filtered' \in 0..MaxFilters
                 /\ UNCHANGED <<desk, truth, tableRows, decision, misled, decided, adminFaults>>
                 /\ sheet' = 1
      <3>1. PICK one \in Nat \ {0} : one = 1
        OBVIOUS
      <3>2. sheet' = one /\ filter' = f /\ LoadTable(f, one)
        BY <2>2, <3>1 DEF ChooseFilter
      <3> QED
        BY <2>1, <2>2, <3>1, <3>2 DEF ChooseFilter, AdminFine
    <2>3. CASE TurnSheet
      <3>1. PICK p \in 1..Cardinality(FoundBy(filter)) : sheet' = p /\ LoadTable(filter, p)
        BY <2>3 DEF TurnSheet
      <3>2. p \in Nat \ {0}
        OBVIOUS
      <3>3. filter' = filter /\ filtered' \in 0..MaxFilters
            /\ UNCHANGED <<desk, truth, tableRows, decision, misled, decided, adminFaults>>
        BY <2>1, <2>3 DEF TurnSheet, AdminFine
      <3> QED
        BY <1>1, <3>1, <3>2, <3>3
    <2>4. CASE \E f \in AdminFilters : ChooseFilter(f)
      <3>1. PICK f \in AdminFilters : ChooseFilter(f)
        BY <2>4
      <3> QED
        BY <2>2, <3>1
    <2> QED
      BY <2>3, <2>4
  <1>3. /\ \E s \in FreeSlot : loads' = [Abandoned EXCEPT ![s] = TableLoad(filter', sheet')]
        /\ spinning' = TRUE /\ adminTrouble' = FALSE
    BY <1>2 DEF LoadTable
  <1>4. PICK new \in Loading, old \in [Slots -> Loading] : new = TableLoad(filter', sheet') /\ old = Abandoned
    BY <1>1, <1>2, AbandonedStep, TableLoadIs
  <1>5. /\ loads' \in [Slots -> Loading] /\ LiveLoad'
        /\ \A s \in Slots : loads'[s] = old[s] \/ loads'[s] = new
        /\ new.pc = "sent" /\ new.live /\ new.decided = decided
        /\ new.filter = filter' /\ new.sheet = sheet'
    <2>1. new.pc = "sent" /\ new.live /\ new.decided = decided /\ new.filter = filter' /\ new.sheet = sheet'
      BY <1>1, <1>2, <1>4, TableLoadIs
    <2>2. \E s \in FreeSlot : loads' = [old EXCEPT ![s] = new]
      BY <1>3, <1>4
    <2> QED
      BY <2>1, <2>2, LoadTableStep
  <1>6. (\A g, q : Table(g, q)' = Table(g, q)) /\ (\A g : FoundBy(g)' = FoundBy(g))
    BY <1>2, TableStays
  <1>7. AdminTypeOK'
    BY <1>2, <1>3, <1>5 DEF AdminInv, AdminTypeOK, Loading
  <1>8. AnswersAreTables'
    <2>1. ASSUME NEW s \in Slots, loads'[s] = old[s]
          PROVE  loads'[s].decided <= decided /\ (loads'[s].pc # "idle" =>
                   /\ loads'[s].pc = "answered" /\ loads'[s].decided = decided
                        => loads'[s].rows = Table(loads'[s].filter, loads'[s].sheet)
                   /\ desk # "guarded" => loads'[s].live
                   /\ ~(desk = "guarded" /\ loads'[s].live))
      BY <1>1, <1>4, <2>1, AbandonedStep DEF AdminInv, AnswersAreTables
    <2>2. ASSUME NEW s \in Slots, loads'[s] = new
          PROVE  loads'[s].decided <= decided /\ loads'[s].pc = "sent" /\ loads'[s].live
                   /\ loads'[s].filter = filter' /\ loads'[s].sheet = sheet'
      BY <1>1, <1>4, <1>5, <2>2
    <2> QED
      BY <1>2, <1>5, <1>6, <2>1, <2>2 DEF AnswersAreTables
  <1>9. DecisionIsOne' /\ GuardedIsQuiet'
    BY <1>2, <1>6 DEF AdminInv, DecisionIsOne, GuardedIsQuiet
  <1>10. RowsSettle'
    BY <1>5 DEF RowsSettle
  <1> QED
    BY <1>7, <1>8, <1>9, <1>10 DEF AdminInv

\* The server answers a load with the rows it has.
LEMMA ServerListsStep ==
  ASSUME AdminInv, NEW s \in Slots, ServerLists(s)
  PROVE  AdminInv'
  <1>1. /\ UNCHANGED <<desk, truth, filter, sheet, filtered, tableRows, spinning, misled, adminTrouble, decision, decided,
                       adminFaults>>
        /\ loads[s].pc = "sent"
    BY DEF ServerLists, AdminFine, choiceVars, tableVars
  <1>2. loads \in [Slots -> Loading] /\ decided \in 0..MaxDecisions /\ \A f, p : Table(f, p) \in SUBSET Row
    BY TableHasRows DEF AdminInv, AdminTypeOK, Loading
  <1> DEFINE rows == Table(loads[s].filter, loads[s].sheet)
             new == [loads[s] EXCEPT !.pc = "answered", !.decided = decided, !.rows = rows]
  <1>3. loads' = [loads EXCEPT ![s] = new]
    <2>1. loads' = [loads EXCEPT ![s].pc = "answered", ![s].decided = decided, ![s].rows = rows]
      BY DEF ServerLists
    <2> HIDE DEF rows
    <2> QED
      BY <1>2, <2>1
  <1>4. rows \in SUBSET Row
    BY <1>2
  <1> HIDE DEF rows
  <1>5. new \in Loading /\ new.pc = "answered" /\ new.decided = decided /\ new.rows = rows
        /\ new.live = loads[s].live /\ new.filter = loads[s].filter /\ new.sheet = loads[s].sheet
    BY <1>2, <1>4 DEF Loading
  <1> HIDE DEF new
  <1>6. loads' \in [Slots -> Loading] /\ loads'[s] = new /\ \A r \in Slots : r # s => loads'[r] = loads[r]
    BY <1>2, <1>3, <1>5
  <1>7. (\A f, p : Table(f, p)' = Table(f, p)) /\ (\A f : FoundBy(f)' = FoundBy(f))
    BY <1>1, TableStays
  <1>8. AdminTypeOK'
    BY <1>1, <1>6 DEF AdminInv, AdminTypeOK, Loading
  <1>9. AnswersAreTables'
    <2>1. rows = Table(loads[s].filter, loads[s].sheet)
      BY DEF rows
    <2> QED
      BY <1>1, <1>2, <1>5, <1>6, <1>7, <2>1 DEF AdminInv, AnswersAreTables
  <1>10. DecisionIsOne' /\ GuardedIsQuiet'
    BY <1>1, <1>7 DEF AdminInv, DecisionIsOne, GuardedIsQuiet
  <1>11. LiveLoad => LiveLoad'
    BY <1>1, <1>5, <1>6 DEF LiveLoad
  <1>12. RowsSettle'
    BY <1>1, <1>7, <1>11 DEF AdminInv, RowsSettle, InTable, AfterDecision, Replaced
  <1> QED
    BY <1>8, <1>9, <1>10, <1>12 DEF AdminInv

\* A load that ends is idle; the answer of one that is not shown is ignored.
LEMMA LoadEnds ==
  ASSUME AdminInv, NEW s \in Slots, loads' = [loads EXCEPT ![s] = NoLoading]
  PROVE  /\ loads' \in [Slots -> Loading]
         /\ \A r \in Slots : loads'[r].pc # "idle" => r # s /\ loads'[r] = loads[r]
         /\ \A r \in Slots : r # s => loads'[r] = loads[r]
         /\ loads'[s].decided = 0 /\ loads'[s].pc = "idle"
         /\ (~loads[s].live /\ LiveLoad => LiveLoad')
  <1>1. loads \in [Slots -> Loading]
    BY DEF AdminInv, AdminTypeOK, Loading
  <1>2. NoLoading \in Loading /\ NoLoading.pc = "idle" /\ NoLoading.decided = 0
    <2>1. 0 \in 0..MaxDecisions
      BY AdminAssumption
    <2>2. PICK one \in Nat \ {0}, zero \in 0..MaxDecisions : one = 1 /\ zero = 0
      BY <2>1
    <2>3. NoLoading = [pc |-> "idle", filter |-> "all", sheet |-> one, live |-> FALSE, decided |-> zero, rows |-> {}]
      BY <2>2 DEF NoLoading
    <2> QED
      BY <2>2, <2>3 DEF Loading, AdminFilters
  <1> DEFINE new == NoLoading
  <1> HIDE DEF new
  <1>3. new \in Loading /\ new.pc = "idle" /\ new.decided = 0 /\ loads' = [loads EXCEPT ![s] = new]
    BY <1>2 DEF new
  <1>4. loads' \in [Slots -> Loading] /\ loads'[s] = new /\ \A r \in Slots : r # s => loads'[r] = loads[r]
    BY <1>1, <1>3
  <1> QED
    BY <1>3, <1>4 DEF LiveLoad

\* Rows of the server that has done the action stay as they are when its answer comes.
LEMMA DoneIsDone ==
  ASSUME AdminTypeOK, desk # "guarded", decision.id \in Records, truth[decision.id] = decision.to,
         desk # "users" => decision.to = "done",
         desk = "listings" => decision.filter = filter /\ \E r \in Table(filter, sheet) : r.id = decision.id
  PROVE  /\ Changed(Table(filter, sheet), decision.id, decision.to) = Table(filter, sheet)
         /\ ~(desk = "listings" /\ decision.filter = "open")
  <1>a. PICK ids \in SUBSET Records : ids = FoundBy(filter)
    BY TableHasRows
  <1>b. PICK marks \in [Records -> {"open", "done"}] : marks = truth
    BY DEF AdminTypeOK
  <1>c. PICK id \in Records : id = decision.id
    OBVIOUS
  <1>d. PICK to \in {"open", "done"} : to = decision.to
    BY DEF AdminTypeOK
  <1>1. ids = FoundBy(filter) /\ marks = truth /\ id = decision.id /\ to = decision.to
    BY <1>a, <1>b, <1>c, <1>d
  <1>2. Table(filter, sheet) = RowsOf(ids, marks)
    BY <1>1, TableHasRows
  <1>3. [marks EXCEPT ![id] = to] = marks
    BY <1>1
  <1>4. /\ Changed(RowsOf(ids, marks), id, to) = RowsOf(ids, marks)
        /\ (\E r \in RowsOf(ids, marks) : r.id = id) => id \in ids
    <2>1. Changed(RowsOf(ids, marks), id, to) = RowsOf(ids, [marks EXCEPT ![id] = to])
      BY RowsChanged
    <2>2. (\E r \in RowsOf(ids, marks) : r.id = id) => id \in ids
      BY RowIsOfOne
    <2> QED
      BY <1>3, <2>1, <2>2
  <1>5. ~(desk = "listings" /\ decision.filter = "open")
    <2>1. SUFFICES ASSUME desk = "listings", decision.filter = "open"
                   PROVE  FALSE
      OBVIOUS
    <2>2. id \in FoundBy("open") /\ marks[id] = "done"
      BY <1>1, <1>2, <1>4, <2>1
    <2> QED
      BY <1>1, <2>1, <2>2 DEF FoundBy, Fits, ByStatus
  <1> QED
    BY <1>1, <1>2, <1>4, <1>5

\* An answer is shown, or ignored.
LEMMA TableArrivesStep ==
  ASSUME AdminInv, NEW s \in Slots, TableArrives(s)
  PROVE  AdminInv'
  <1>1. /\ UNCHANGED <<desk, truth, filter, sheet, filtered, adminTrouble, decided, adminFaults>>
        /\ loads[s].pc = "answered" /\ loads' = [loads EXCEPT ![s] = NoLoading]
        /\ decision' = (IF decision.pc = "reload" THEN NoDecision ELSE decision)
    BY DEF TableArrives, Settle, AdminFine, choiceVars
  <1>2. /\ loads' \in [Slots -> Loading]
        /\ \A r \in Slots : loads'[r].pc # "idle" => r # s /\ loads'[r] = loads[r]
        /\ \A r \in Slots : r # s => loads'[r] = loads[r]
        /\ loads'[s].decided = 0 /\ loads'[s].pc = "idle"
        /\ (~loads[s].live /\ LiveLoad => LiveLoad')
    BY <1>1, LoadEnds
  <1>3. (\A f, p : Table(f, p)' = Table(f, p)) /\ (\A f : FoundBy(f)' = FoundBy(f))
    BY <1>1, TableStays
  <1>4. loads \in [Slots -> Loading] /\ loads[s].live \in BOOLEAN /\ loads[s].rows \in SUBSET Row
        /\ decided \in 0..MaxDecisions
    BY DEF AdminInv, AdminTypeOK, Loading
  <1>5. /\ tableRows' \subseteq Row /\ spinning' \in BOOLEAN /\ misled' \in BOOLEAN
    BY <1>4 DEF TableArrives, tableVars, Outdated, AdminInv, AdminTypeOK
  <1>6. /\ decision' \in Deciding /\ (decision'.pc = "answered" <=> decision.pc = "answered")
        /\ (decision' = decision \/ decision'.pc = "idle")
    BY <1>1 DEF AdminInv, AdminTypeOK, Deciding, NoDecision, AdminFilters
  <1>7. AdminTypeOK'
    BY <1>1, <1>2, <1>5, <1>6 DEF AdminInv, AdminTypeOK, Loading, Deciding
  <1>8. AnswersAreTables'
    <2>1. ASSUME NEW r \in Slots
          PROVE  loads'[r].decided <= decided
      BY <1>2, <1>4 DEF AdminInv, AnswersAreTables
    <2> QED
      BY <1>1, <1>2, <1>3, <2>1 DEF AdminInv, AnswersAreTables
  <1>9. DecisionIsOne'
    BY <1>1, <1>6 DEF AdminInv, DecisionIsOne
  <1>10. CASE loads[s].live
    <2>1. tableRows' = loads[s].rows /\ misled' = Outdated(s)
      BY <1>10 DEF TableArrives, Shows
    <2>2. ~misled' => tableRows' = Table(loads[s].filter, loads[s].sheet) /\ loads[s].filter = filter
      BY <1>1, <2>1 DEF Outdated, AdminInv, AnswersAreTables
    <2>3. ~misled' => tableRows' = Table(filter, sheet)
      <3>1. CASE desk = "guarded"
        BY <1>1, <1>10, <2>2, <3>1 DEF AdminInv, AnswersAreTables
      <3>2. CASE desk # "guarded"
        BY <2>2, <3>2, TableHasRows DEF AdminInv
      <3> QED
        BY <3>1, <3>2
    <2>4. GuardedIsQuiet'
      <3>1. CASE desk = "guarded"
        <4>1. decided = 0 /\ loads[s].filter = filter /\ loads[s].decided <= 0 /\ loads[s].decided \in Nat
          BY <1>1, <1>4, <1>10, <3>1, AdminAssumption DEF AdminInv, AnswersAreTables, GuardedIsQuiet, Loading
        <4>2. ~misled'
          <5>1. loads[s].decided = decided /\ loads[s].filter = filter
            BY <4>1
          <5> QED
            BY <2>1, <5>1 DEF Outdated
        <4> QED
          BY <1>1, <1>3, <4>2 DEF AdminInv, GuardedIsQuiet
      <3>2. CASE desk # "guarded"
        BY <1>1, <3>2 DEF GuardedIsQuiet
      <3> QED
        BY <3>1, <3>2
    <2>5. RowsSettle'
      <3>1. SUFFICES ASSUME ~misled', decision'.pc = "answered", desk # "dealers",
                            (desk = "listings" => decision.filter = filter /\ InTable')
                     PROVE  AfterDecision' = Table(filter, sheet)'
        BY <1>1, <1>3, <1>6, <2>3 DEF RowsSettle
      <3>2. decision' = decision /\ decision.pc = "answered"
        BY <1>6, <3>1
      <3>3. tableRows' = Table(filter, sheet) /\ desk # "guarded" /\ decision.id \in Records
            /\ truth[decision.id] = decision.to /\ (desk # "users" => decision.to = "done")
        BY <2>3, <3>1, <3>2 DEF AdminInv, DecisionIsOne
      <3>4. desk = "listings" => decision.filter = filter /\ \E r \in Table(filter, sheet) : r.id = decision.id
        BY <3>1, <3>2, <3>3 DEF InTable
      <3>5. /\ Changed(Table(filter, sheet), decision.id, decision.to) = Table(filter, sheet)
            /\ ~(desk = "listings" /\ decision.filter = "open")
        BY <3>3, <3>4, DoneIsDone DEF AdminInv
      <3>6. AfterDecision' = Table(filter, sheet)
        BY <1>1, <3>2, <3>3, <3>5 DEF AfterDecision, Replaced, Changed
      <3> QED
        BY <1>1, <1>3, <3>6
    <2> QED
      BY <1>7, <1>8, <1>9, <2>4, <2>5 DEF AdminInv
  <1>11. CASE ~loads[s].live
    <2>1. UNCHANGED <<tableRows, spinning, misled>>
      BY <1>11 DEF TableArrives, Shows, tableVars
    <2>2. desk = "guarded" /\ decision.pc = "idle" /\ decision'.pc = "idle"
      BY <1>1, <1>6, <1>11 DEF AdminInv, AnswersAreTables, DecisionIsOne
    <2>3. GuardedIsQuiet' /\ RowsSettle'
      BY <1>1, <1>2, <1>3, <1>11, <2>1, <2>2 DEF AdminInv, GuardedIsQuiet, RowsSettle
    <2> QED
      BY <1>7, <1>8, <1>9, <2>3 DEF AdminInv
  <1> QED
    BY <1>4, <1>10, <1>11

\* A load fails.
LEMMA TableFailsStep ==
  ASSUME AdminInv, NEW s \in Slots, TableFails(s)
  PROVE  AdminInv'
  <1>1. /\ UNCHANGED <<desk, truth, filter, sheet, filtered, decided>>
        /\ loads[s].pc # "idle" /\ loads' = [loads EXCEPT ![s] = NoLoading]
        /\ decision' = (IF decision.pc = "reload" THEN NoDecision ELSE decision) /\ AdminFault
    BY DEF TableFails, Settle, choiceVars
  <1>2. /\ loads' \in [Slots -> Loading]
        /\ \A r \in Slots : loads'[r].pc # "idle" => r # s /\ loads'[r] = loads[r]
        /\ \A r \in Slots : r # s => loads'[r] = loads[r]
        /\ loads'[s].decided = 0 /\ loads'[s].pc = "idle"
        /\ (~loads[s].live /\ LiveLoad => LiveLoad')
    BY <1>1, LoadEnds
  <1>3. (\A f, p : Table(f, p)' = Table(f, p)) /\ (\A f : FoundBy(f)' = FoundBy(f))
    BY <1>1, TableStays
  <1>4. loads \in [Slots -> Loading] /\ loads[s].live \in BOOLEAN /\ decided \in 0..MaxDecisions
    BY DEF AdminInv, AdminTypeOK, Loading
  <1>5. /\ tableRows' \subseteq Row /\ spinning' \in BOOLEAN /\ misled' \in BOOLEAN /\ adminTrouble' \in BOOLEAN
    <2>1. (desk # "guarded") \in BOOLEAN /\ {} \subseteq Row
      OBVIOUS
    <2>2. CASE loads[s].live
      BY <2>1, <2>2 DEF TableFails, Shows, AdminInv, AdminTypeOK
    <2>3. CASE ~loads[s].live
      BY <2>3 DEF TableFails, Shows, tableVars, AdminInv, AdminTypeOK
    <2> QED
      BY <2>2, <2>3
  <1>6. /\ decision' \in Deciding /\ (decision'.pc = "answered" <=> decision.pc = "answered")
        /\ (decision' = decision \/ decision'.pc = "idle")
    BY <1>1 DEF AdminInv, AdminTypeOK, Deciding, NoDecision, AdminFilters
  <1>7. adminFaults' \in 0..MaxAdminFaults
    BY <1>1, AdminAssumption DEF AdminFault, AdminInv, AdminTypeOK
  <1>8. AdminTypeOK'
    BY <1>1, <1>2, <1>5, <1>6, <1>7 DEF AdminInv, AdminTypeOK, Loading, Deciding
  <1>9. AnswersAreTables'
    <2>1. ASSUME NEW r \in Slots
          PROVE  loads'[r].decided <= decided
      BY <1>2, <1>4 DEF AdminInv, AnswersAreTables
    <2> QED
      BY <1>1, <1>2, <1>3, <2>1 DEF AdminInv, AnswersAreTables
  <1>10. DecisionIsOne'
    BY <1>1, <1>6 DEF AdminInv, DecisionIsOne
  <1>11. CASE loads[s].live
    <2>1. adminTrouble' = TRUE /\ (misled' <=> desk # "guarded")
      BY <1>11 DEF TableFails, Shows
    <2>2. GuardedIsQuiet' /\ RowsSettle'
      BY <1>1, <1>3, <2>1 DEF AdminInv, GuardedIsQuiet, RowsSettle
    <2> QED
      BY <1>8, <1>9, <1>10, <2>2 DEF AdminInv
  <1>12. CASE ~loads[s].live
    <2>1. UNCHANGED <<tableRows, spinning, misled, adminTrouble>>
      BY <1>12 DEF TableFails, Shows, tableVars
    <2>2. desk = "guarded" /\ decision.pc = "idle" /\ decision'.pc = "idle"
      BY <1>1, <1>6, <1>12 DEF AdminInv, AnswersAreTables, DecisionIsOne
    <2>3. GuardedIsQuiet' /\ RowsSettle'
      BY <1>1, <1>2, <1>3, <1>12, <2>1, <2>2 DEF AdminInv, GuardedIsQuiet, RowsSettle
    <2> QED
      BY <1>8, <1>9, <1>10, <2>3 DEF AdminInv
  <1> QED
    BY <1>4, <1>11, <1>12

\* The administrator acts on a row of the table.
LEMMA DecideStep ==
  ASSUME AdminInv, NEW row \in tableRows, Decide(row)
  PROVE  AdminInv'
  <1>1. /\ UNCHANGED <<desk, truth, filter, sheet, filtered, loads, tableRows, spinning, misled, decided, adminFaults>>
        /\ adminTrouble' = FALSE /\ decision.pc = "idle" /\ decided < MaxDecisions /\ desk # "guarded"
    BY DEF Decide, Offers, AdminFine, choiceVars, tableVars, AdminInv, AdminTypeOK, Desks
  <1> DEFINE to == IF desk = "users" /\ row.status = "done" THEN "open" ELSE "done"
  <1>2. to \in {"open", "done"} /\ (desk # "users" => to = "done")
    OBVIOUS
  <1>3. decision' = [pc |-> "sent", id |-> row.id, filter |-> filter, to |-> to]
    BY DEF Decide
  <1> HIDE DEF to
  <1>4. row.id \in Records /\ filter \in AdminFilters
    BY DEF AdminInv, AdminTypeOK, Row
  <1>5. decision' \in Deciding /\ decision'.pc = "sent" /\ decision'.id \in Records
        /\ (desk # "users" => decision'.to = "done")
    BY <1>2, <1>3, <1>4 DEF Deciding
  <1>6. (\A f, p : Table(f, p)' = Table(f, p)) /\ (\A f : FoundBy(f)' = FoundBy(f))
    BY <1>1, TableStays
  <1>7. AdminTypeOK' /\ AnswersAreTables' /\ DecisionIsOne' /\ GuardedIsQuiet'
    <2>1. AdminTypeOK'
      BY <1>1, <1>5 DEF AdminInv, AdminTypeOK, Deciding
    <2>2. AnswersAreTables'
      BY <1>1, <1>6 DEF AdminInv, AnswersAreTables
    <2> QED
      BY <1>1, <1>5, <1>6, <2>1, <2>2 DEF AdminInv, DecisionIsOne, GuardedIsQuiet
  <1>8. RowsSettle'
    BY <1>1, <1>5, <1>6 DEF AdminInv, RowsSettle, LiveLoad
  <1> QED
    BY <1>7, <1>8 DEF AdminInv

\* The server does the action; the rows shown are then those it has once the action's answer has changed them.
LEMMA AdminActsStep ==
  ASSUME AdminInv, AdminServerActs
  PROVE  AdminInv'
  <1>1. /\ UNCHANGED <<desk, filter, sheet, filtered, loads, tableRows, spinning, misled, adminTrouble, adminFaults>>
        /\ decision.pc = "sent" /\ truth' = [truth EXCEPT ![decision.id] = decision.to]
        /\ decided' = decided + 1 /\ decision' = [decision EXCEPT !.pc = "answered"]
    BY DEF AdminServerActs, AdminFine, choiceVars, tableVars
  <1>2. /\ decision.id \in Records /\ desk # "guarded" /\ (desk # "users" => decision.to = "done")
        /\ decided < MaxDecisions /\ decided \in Nat /\ MaxDecisions \in Nat /\ decision \in Deciding
        /\ truth \in [Records -> {"open", "done"}] /\ decision.to \in {"open", "done"}
    BY <1>1, AdminAssumption DEF AdminInv, DecisionIsOne, AdminTypeOK, Deciding
  <1>3. /\ decision' \in Deciding /\ decision'.pc = "answered" /\ decision'.id = decision.id
        /\ decision'.to = decision.to /\ decision'.filter = decision.filter
    BY <1>1, <1>2 DEF Deciding
  <1>4. truth' \in [Records -> {"open", "done"}] /\ truth'[decision.id] = decision.to
        /\ \A i \in Records : i # decision.id => truth'[i] = truth[i]
    BY <1>1, <1>2
  <1>5. decided' \in 0..MaxDecisions /\ decided' \in Nat /\ decided < decided'
    BY <1>1, <1>2
  <1>6. AdminTypeOK'
    BY <1>1, <1>3, <1>4, <1>5 DEF AdminInv, AdminTypeOK, Deciding
  <1>7. AnswersAreTables'
    <2>1. \A s \in Slots : loads[s].decided \in Nat /\ loads[s].decided <= decided
      BY DEF AdminInv, AdminTypeOK, AnswersAreTables
    <2>2. \A s \in Slots : loads[s].decided <= decided' /\ loads[s].decided # decided'
      BY <1>2, <1>5, <2>1
    <2> QED
      BY <1>1, <1>2, <2>2 DEF AdminInv, AnswersAreTables
  <1>8. DecisionIsOne' /\ GuardedIsQuiet'
    BY <1>1, <1>2, <1>3, <1>4 DEF DecisionIsOne, GuardedIsQuiet
  <1>9. RowsSettle'
    <2>1. SUFFICES ASSUME ~misled, ~LiveLoad, desk # "dealers", desk = "listings" => decision.filter = filter /\ InTable
                   PROVE  AfterDecision' = Table(filter, sheet)'
      BY <1>1, <1>3 DEF RowsSettle, LiveLoad, InTable
    <2>2. tableRows = Table(filter, sheet)
      BY <1>1, <1>2, <2>1 DEF AdminInv, RowsSettle
    <2>a. PICK ids \in SUBSET Records : ids = FoundBy(filter)
      BY TableHasRows DEF AdminInv
    <2>b. PICK marks \in [Records -> {"open", "done"}] : marks = truth
      BY <1>2
    <2>c. PICK id \in Records : id = decision.id
      BY <1>2
    <2>d. PICK to \in {"open", "done"} : to = decision.to
      BY <1>2
    <2>3. tableRows = RowsOf(ids, marks)
      BY <1>2, <2>2, <2>a, <2>b, TableHasRows DEF AdminInv
    <2>4. Table(filter, sheet)' = RowsOf(FoundBy(filter)', truth')
      BY <1>1, <1>2 DEF Table, RowsOf
    <2>5. truth' = [marks EXCEPT ![id] = to]
      BY <1>1, <2>b, <2>c, <2>d
    <2>6. /\ Changed(RowsOf(ids, marks), id, to) = RowsOf(ids, truth')
          /\ Others(RowsOf(ids, marks), id) = RowsOf(ids \ {id}, truth')
          /\ ((\E r \in RowsOf(ids, marks) : r.id = id) => id \in ids)
      <3>1. Changed(RowsOf(ids, marks), id, to) = RowsOf(ids, [marks EXCEPT ![id] = to])
        BY RowsChanged
      <3>2. Others(RowsOf(ids, marks), id) = RowsOf(ids \ {id}, truth')
        <4>1. \A i \in ids \ {id} : marks[i] = truth'[i]
          BY <2>5
        <4> QED
          BY <4>1, OthersStay, RowsAlike
      <3>3. (\E r \in RowsOf(ids, marks) : r.id = id) => id \in ids
        BY RowIsOfOne
      <3> QED
        BY <2>5, <3>1, <3>2, <3>3
    <2>7. /\ ~(desk = "listings" /\ filter = "open") => FoundBy(filter)' = ids
          /\ desk = "listings" /\ filter = "open" => FoundBy(filter)' = ids \ {id}
      <3>1. CASE desk = "users" \/ filter = "all"
        BY <1>1, <2>a, <3>1 DEF FoundBy, Fits, ByStatus
      <3>2. CASE desk = "listings" /\ filter # "all"
        <4>1. id \in ids
          BY <2>1, <2>3, <2>6, <2>c, <3>2 DEF InTable
        <4>2. ids = {i \in Records : truth[i] = filter} /\ FoundBy(filter)' = {i \in Records : truth'[i] = filter}
          BY <1>1, <2>a, <3>2 DEF FoundBy, Fits, ByStatus
        <4>3. truth'[id] = "done" /\ truth[id] = filter
          BY <1>2, <1>4, <2>c, <3>2, <4>1, <4>2
        <4>4. ASSUME filter = "open"
              PROVE  FoundBy(filter)' = ids \ {id}
          <5>1. \A i \in Records : truth'[i] = "open" <=> truth[i] = "open" /\ i # id
            BY <1>4, <2>c, <4>3
          <5> QED
            BY <4>2, <4>4, <5>1
        <4>5. ASSUME filter # "open"
              PROVE  FoundBy(filter)' = ids
          <5>1. filter = "done"
            BY <3>2, <4>5 DEF AdminInv, AdminTypeOK, AdminFilters
          <5>2. \A i \in Records : truth'[i] = "done" <=> truth[i] = "done"
            BY <1>4, <2>c, <4>3, <5>1
          <5> QED
            BY <4>2, <5>1, <5>2
        <4> QED
          BY <3>2, <4>4, <4>5
      <3>3. desk \in {"users", "listings"}
        BY <1>2, <2>1 DEF AdminInv, AdminTypeOK, Desks
      <3> QED
        BY <3>1, <3>2, <3>3
    <2>8. CASE desk = "listings" /\ filter = "open"
      <3>1. AfterDecision' = Others(RowsOf(ids, marks), id)
        BY <1>1, <1>3, <2>1, <2>3, <2>8, <2>c DEF AfterDecision, Others
      <3> QED
        BY <2>4, <2>6, <2>7, <2>8, <3>1
    <2>9. CASE ~(desk = "listings" /\ filter = "open")
      <3>1. AfterDecision' = Changed(RowsOf(ids, marks), id, to)
        BY <1>1, <1>3, <2>1, <2>3, <2>9, <2>c, <2>d DEF AfterDecision, Replaced, Changed
      <3> QED
        BY <2>4, <2>6, <2>7, <2>9, <3>1
    <2> QED
      BY <2>8, <2>9
  <1> QED
    BY <1>6, <1>7, <1>8, <1>9 DEF AdminInv

\* The action's answer changes the rows, or on the page of applications loads them again.
LEMMA DecisionArrivesStep ==
  ASSUME AdminInv, DecisionArrives
  PROVE  AdminInv'
  <1>1. UNCHANGED <<desk, truth, filter, sheet, filtered, decided, adminFaults>> /\ decision.pc = "answered"
    BY DEF DecisionArrives, AdminFine, choiceVars
  <1>2. /\ loads \in [Slots -> Loading] /\ decision \in Deciding /\ decided \in 0..MaxDecisions
        /\ desk # "guarded" /\ decision.id \in Records /\ decision.filter \in AdminFilters
    BY <1>1 DEF AdminInv, AdminTypeOK, DecisionIsOne, Loading, Deciding
  <1>3. (\A f, p : Table(f, p)' = Table(f, p)) /\ (\A f : FoundBy(f)' = FoundBy(f))
    BY <1>1, TableStays
  <1>4. NoDecision \in Deciding /\ NoDecision.pc = "idle"
    BY DEF NoDecision, Deciding, AdminFilters
  <1>5. CASE desk = "dealers"
    <2>1. /\ decision' = [decision EXCEPT !.pc = "reload"] /\ adminTrouble' = FALSE
          /\ \E s \in FreeSlot : loads' = [loads EXCEPT ![s] = TableLoad(decision.filter, 1)]
          /\ UNCHANGED <<tableRows, spinning, misled>>
      BY <1>5 DEF DecisionArrives, tableVars
    <2>2. PICK one \in Nat \ {0} : one = 1
      OBVIOUS
    <2>3. PICK new \in Loading : new = TableLoad(decision.filter, one)
      BY <1>2, TableLoadIs
    <2>4. new.pc = "sent" /\ new.live /\ new.decided = decided
      BY <1>2, <2>3, TableLoadIs
    <2>5. \E s \in FreeSlot : loads' = [loads EXCEPT ![s] = new]
      BY <2>1, <2>2, <2>3
    <2>6. /\ loads' \in [Slots -> Loading] /\ LiveLoad'
          /\ \A s \in Slots : loads'[s] = loads[s] \/ loads'[s] = new
      BY <1>2, <2>4, <2>5, LoadTableStep
    <2>7. decision' \in Deciding /\ decision'.pc = "reload" /\ decision'.id = decision.id /\ decision'.to = decision.to
      BY <1>2, <2>1 DEF Deciding
    <2>8. AdminTypeOK'
      BY <1>1, <2>1, <2>6, <2>7 DEF AdminInv, AdminTypeOK, Loading, Deciding
    <2>9. AnswersAreTables'
      <3>1. decided <= decided
        BY <1>2, AdminAssumption
      <3> QED
        BY <1>1, <1>2, <1>3, <2>4, <2>6, <3>1 DEF AdminInv, AnswersAreTables
    <2>10. DecisionIsOne' /\ GuardedIsQuiet' /\ RowsSettle'
      BY <1>1, <1>2, <2>6, <2>7 DEF AdminInv, DecisionIsOne, GuardedIsQuiet, RowsSettle
    <2> QED
      BY <2>8, <2>9, <2>10 DEF AdminInv
  <1>6. CASE desk # "dealers"
    <2>1. /\ decision' = NoDecision /\ tableRows' = AfterDecision
          /\ misled' = (misled \/ (desk = "listings" /\ (decision.filter # filter \/ ~InTable)))
          /\ UNCHANGED <<loads, spinning, adminTrouble>>
      BY <1>6 DEF DecisionArrives
    <2>2. AfterDecision \subseteq Row
      <3>1. \A r \in Row : [r EXCEPT !.status = decision.to] \in Row
        BY <1>2 DEF Row, Deciding
      <3>2. tableRows \subseteq Row
        BY DEF AdminInv, AdminTypeOK
      <3>3. Replaced \subseteq Row
        BY <3>1, <3>2 DEF Replaced
      <3> QED
        BY <3>2, <3>3 DEF AfterDecision
    <2>3. misled \in BOOLEAN /\ misled' \in BOOLEAN
      BY <2>1 DEF AdminInv, AdminTypeOK, InTable
    <2>4. AdminTypeOK'
      BY <1>1, <1>4, <2>1, <2>2, <2>3 DEF AdminInv, AdminTypeOK, Deciding
    <2>5. AnswersAreTables'
      BY <1>1, <1>3, <2>1 DEF AdminInv, AnswersAreTables
    <2>6. DecisionIsOne' /\ GuardedIsQuiet'
      BY <1>1, <1>2, <1>4, <2>1 DEF DecisionIsOne, GuardedIsQuiet
    <2>7. RowsSettle'
      <3>1. SUFFICES ASSUME ~misled', ~LiveLoad
                     PROVE  tableRows' = Table(filter, sheet)
        BY <1>1, <1>3, <1>4, <2>1 DEF RowsSettle, LiveLoad
      <3>2. ~misled /\ (desk = "listings" => decision.filter = filter /\ InTable)
        BY <2>1, <2>3, <3>1
      <3> QED
        BY <1>1, <1>2, <1>6, <2>1, <3>1, <3>2 DEF AdminInv, RowsSettle
    <2> QED
      BY <2>4, <2>5, <2>6, <2>7 DEF AdminInv
  <1> QED
    BY <1>5, <1>6

\* The action fails, or is refused.
LEMMA DecisionFailsStep ==
  ASSUME AdminInv, DecisionFails
  PROVE  AdminInv'
  <1>1. /\ UNCHANGED <<desk, truth, filter, sheet, filtered, loads, tableRows, spinning, decided>>
        /\ decision.pc \in {"sent", "answered"}
        /\ decision' = NoDecision /\ adminTrouble' = TRUE /\ misled' = (misled \/ decision.pc = "answered")
    BY DEF DecisionFails, choiceVars
  <1>2. adminFaults' \in 0..MaxAdminFaults
    BY AdminAssumption DEF DecisionFails, AdminFine, AdminFault, AdminInv, AdminTypeOK
  <1>3. (\A f, p : Table(f, p)' = Table(f, p)) /\ (\A f : FoundBy(f)' = FoundBy(f))
    BY <1>1, TableStays
  <1>4. NoDecision \in Deciding /\ NoDecision.pc = "idle"
    BY DEF NoDecision, Deciding, AdminFilters
  <1>5. misled \in BOOLEAN /\ misled' \in BOOLEAN /\ desk # "guarded"
    BY <1>1 DEF AdminInv, AdminTypeOK, DecisionIsOne
  <1>6. AdminTypeOK'
    BY <1>1, <1>2, <1>4, <1>5 DEF AdminInv, AdminTypeOK, Deciding
  <1>7. AnswersAreTables'
    BY <1>1, <1>3 DEF AdminInv, AnswersAreTables
  <1>8. DecisionIsOne' /\ GuardedIsQuiet'
    BY <1>1, <1>4, <1>5 DEF DecisionIsOne, GuardedIsQuiet
  <1>9. RowsSettle'
    <2>1. ASSUME ~misled', ~LiveLoad
          PROVE  tableRows' = Table(filter, sheet)
      BY <1>1, <1>5, <2>1 DEF AdminInv, RowsSettle
    <2> QED
      BY <1>1, <1>3, <1>4, <2>1 DEF RowsSettle, LiveLoad
  <1> QED
    BY <1>6, <1>7, <1>8, <1>9 DEF AdminInv

\* At first the page loads its table.
LEMMA AdminStart ==
  ASSUME AdminInit
  PROVE  AdminInv
  <1>1. 0 \in 0..MaxDecisions /\ 0 \in 0..MaxFilters /\ 0 \in 0..MaxAdminFaults /\ 1 \in Slots
    BY AdminAssumption DEF Slots
  <1>2. PICK one \in Nat \ {0} : one = 1
    OBVIOUS
  <1>3. PICK zero \in 0..MaxDecisions : zero = 0
    BY <1>1
  <1>4. filter \in AdminFilters
    BY DEF AdminInit, AdminFilters
  <1> DEFINE idle == NoLoading
             sentLoad == [idle EXCEPT !.pc = "sent", !.filter = filter, !.live = TRUE]
  <1>5. idle \in Loading /\ idle.decided = 0 /\ idle.pc = "idle" /\ idle.sheet = 1
    <2>1. NoLoading = [pc |-> "idle", filter |-> "all", sheet |-> one, live |-> FALSE, decided |-> zero, rows |-> {}]
      BY <1>2, <1>3 DEF NoLoading
    <2> QED
      BY <1>2, <1>3, <2>1 DEF Loading, AdminFilters
  <1>6. /\ sentLoad \in Loading /\ sentLoad.decided = 0 /\ sentLoad.pc = "sent" /\ sentLoad.live
        /\ sentLoad.filter = filter /\ sentLoad.sheet = 1
    <2> HIDE DEF idle
    <2> QED
      BY <1>4, <1>5 DEF Loading
  <1>7. loads = [s \in Slots |-> IF s = 1 THEN sentLoad ELSE idle]
    BY DEF AdminInit
  <1> HIDE DEF idle, sentLoad
  <1>8. loads \in [Slots -> Loading] /\ loads[1] = sentLoad /\ \A s \in Slots : loads[s] \in {idle, sentLoad}
    BY <1>1, <1>5, <1>6, <1>7
  <1>9. NoDecision \in Deciding /\ NoDecision.pc = "idle"
    BY DEF NoDecision, Deciding, AdminFilters
  <1>10. AdminTypeOK
    <2>1. /\ desk \in Desks /\ truth \in [Records -> {"open", "done"}] /\ sheet = one /\ tableRows = {} /\ spinning = TRUE
          /\ adminTrouble = FALSE /\ decision = NoDecision /\ misled = FALSE
          /\ filtered = 0 /\ decided = 0 /\ adminFaults = 0
      BY <1>2 DEF AdminInit
    <2>2. filtered \in 0..MaxFilters /\ decided \in 0..MaxDecisions /\ adminFaults \in 0..MaxAdminFaults
      BY <1>1, <2>1
    <2>3. sheet \in Nat \ {0} /\ decision \in Deciding
      BY <1>9, <2>1
    <2> QED
      BY <1>4, <1>8, <2>1, <2>2, <2>3 DEF AdminTypeOK, Loading, Deciding
  <1>11. AnswersAreTables
    <2>1. decided = 0 /\ sheet = 1
      BY DEF AdminInit
    <2> QED
      BY <1>5, <1>6, <1>8, <2>1 DEF AnswersAreTables
  <1>12. DecisionIsOne /\ GuardedIsQuiet
    BY <1>9 DEF AdminInit, DecisionIsOne, GuardedIsQuiet
  <1>13. RowsSettle
    BY <1>1, <1>6, <1>8 DEF RowsSettle, LiveLoad
  <1> QED
    BY <1>10, <1>11, <1>12, <1>13 DEF AdminInv

\* Every step of the administrator's tables keeps their invariant.
LEMMA AdminStep ==
  ASSUME AdminInv, AdminNext
  PROVE  AdminInv'
  <1>1. CASE (\E f \in AdminFilters : ChooseFilter(f)) \/ TurnSheet
    BY <1>1, FilterStep
  <1>2. CASE TableAnswers
    BY <1>2, ServerListsStep, TableArrivesStep, TableFailsStep DEF TableAnswers
  <1>3. CASE \E row \in tableRows : Decide(row)
    BY <1>3, DecideStep
  <1>4. CASE DecisionEnds
    BY <1>4, AdminActsStep, DecisionArrivesStep, DecisionFailsStep DEF DecisionEnds
  <1> QED
    BY <1>1, <1>2, <1>3, <1>4 DEF AdminNext

\* The invariant implies what is said of the tables.
LEMMA AdminConsequence ==
  ASSUME AdminInv
  PROVE  AdminTypeOK /\ TableIsTrue /\ GuardedIsCurrent
  <1>1. NothingUnderWay => ~LiveLoad /\ decision.pc = "idle"
    BY DEF NothingUnderWay, LiveLoad
  <1>2. TableIsTrue
    BY <1>1 DEF AdminInv, RowsSettle, TableIsTrue
  <1>3. ASSUME desk = "guarded", NothingUnderWay, tableRows = {}, ~adminTrouble, FoundBy(filter) # {}
        PROVE  FALSE
    <2>1. Table(filter, sheet) = {}
      BY <1>1, <1>3 DEF AdminInv, RowsSettle, GuardedIsQuiet
    <2>2. PICK S \in SUBSET Nat : S = FoundBy(filter)
      BY AdminAssumption DEF FoundBy
    <2>3. IsFiniteSet(S) /\ Cardinality(S) \in Nat /\ Cardinality(S) # 0
      <3>1. S \in SUBSET Records /\ IsFiniteSet(Records)
        BY <2>2, AdminAssumption DEF FoundBy
      <3>2. IsFiniteSet(S)
        BY <3>1, FS_Subset
      <3> QED
        BY <1>3, <2>2, <3>2, FS_EmptySet, FS_CardinalityType
    <2>4. sheet \in 1..Cardinality(S)
      <3>1. sheet = 1 \/ sheet \in 1..Cardinality(S)
        BY <1>3, <2>2 DEF AdminInv, GuardedIsQuiet
      <3>2. 1 \in 1..Cardinality(S)
        BY <2>3
      <3> QED
        BY <3>1, <3>2
    <2>5. PICK j \in S : Cardinality({k \in S : k <= j}) = sheet
      BY <2>3, <2>4, PlaceIsTaken
    <2>6. [id |-> j, status |-> truth[j]] \in Table(filter, sheet)
      BY <1>3, <2>2, <2>5 DEF Table
    <2> QED
      BY <2>1, <2>6
  <1>4. GuardedIsCurrent
    BY <1>3 DEF AdminInv, GuardedIsQuiet, GuardedIsCurrent
  <1> QED
    BY <1>2, <1>4 DEF AdminInv

-----------------------------------------------------------------------------
(* A tab of the browser. *)

\* Nothing happens to the session while its variables stay.
LEMMA SessionStill ==
  ASSUME SessionInv, UNCHANGED sessionVars
  PROVE  SessionInv'
  BY DEF SessionInv, SessionTypeOK, LoadsHaveOne, ShownFollows, CacheFollows, ApplicantsStay,
         Under, CallbackLoads, Deletable, sessionVars, screen, sessionHistory

\* Nothing happens to the application form while its variables stay.
LEMMA RegistrationStill ==
  ASSUME RegInv, UNCHANGED regVars
  PROVE  RegInv'
  BY DEF RegInv, RegTypeOK, StoredGoesOn, ActiveIsOwn, regVars, regPage

\* Nothing happens to vehicle attributes while its variables stay.
LEMMA RulesStill ==
  ASSUME RulesInv, UNCHANGED rulesVars
  PROVE  RulesInv'
  BY DEF RulesInv, RulesTypeOK, VehiclesComplete, rulesVars

\* Nothing happens to the listing form while its variables stay.
LEMMA FormStill ==
  ASSUME FormInv, UNCHANGED listingFormVars
  PROVE  FormInv'
  BY DEF FormInv, PageTypes, SavingTypes, ServerTypes, AskTypes, ChosenOnce, StoredApart,
         BatchStays, AnswersAreOld, ShownSettles, Answering, ToStore, listingFormVars, photoPage

\* Nothing happens to the inventory table while its variables stay.
LEMMA ManagerStill ==
  ASSUME ManagerInv, UNCHANGED managerVars
  PROVE  ManagerInv'
  BY DEF ManagerInv, ManagerTypes, TicksHold, AnswersHold, ViewHolds, ManagerTypeOK, Shown,
         Fetches, OnPage, Answered, Listed, Matches, managerVars, managerPage

\* Nothing happens to the search page while its variables stay.
LEMMA MarketStill ==
  ASSUME MarketInv, UNCHANGED marketVars
  PROVE  MarketInv'
  BY DEF MarketInv, MarketTypeOK, HistoryTypes, TextIsSearched, FiltersMakeSense, ChoiceStays,
         TimerIsCurrent, TimerHasSort, marketVars

\* Nothing happens to the shortlist while its variables stay.
LEMMA ShortlistStill ==
  ASSUME ShortlistInv, UNCHANGED shortlistVars
  PROVE  ShortlistInv'
  BY DEF ShortlistInv, ShortlistTypeOK, RemovedFromBoth, shortlistVars

\* Nothing happens to the upload pages while its variables stay.
LEMMA UploadStill ==
  ASSUME UploadInv, UNCHANGED uploadVars
  PROVE  UploadInv'
  BY DEF UploadInv, UploadScreensTypeOK, SeenSettles, ImportsStay, NoDraftForgotten, FileIsOwn,
         FileMatches, Good, uploadVars, uploadPage, jobQuery

\* Nothing happens to the administrator's tables while their variables stay.
LEMMA AdminStill ==
  ASSUME AdminInv, UNCHANGED adminVars
  PROVE  AdminInv'
  <1>1. AdminTypeOK'
    BY DEF AdminInv, AdminTypeOK, NoDecision, adminVars
  <1>2. DecisionIsOne'
    BY DEF AdminInv, DecisionIsOne, adminVars
  <1>3. \A f, p : Table(f, p)' = Table(f, p)
    BY DEF Table, FoundBy, Fits, ByStatus, adminVars
  <1>4. \A f : FoundBy(f)' = FoundBy(f)
    BY DEF FoundBy, Fits, ByStatus, adminVars
  <1>5. GuardedIsQuiet'
    BY <1>4 DEF AdminInv, GuardedIsQuiet, adminVars
  <1>6. AnswersAreTables'
    BY <1>3 DEF AdminInv, AnswersAreTables, adminVars
  <1>7. LiveLoad' = LiveLoad /\ InTable' = InTable /\ AfterDecision' = AfterDecision
    BY DEF LiveLoad, InTable, AfterDecision, Replaced, adminVars
  <1>8. RowsSettle'
    BY <1>3, <1>7 DEF AdminInv, RowsSettle, adminVars
  <1> QED
    BY <1>1, <1>2, <1>5, <1>6, <1>8 DEF AdminInv

\* Nothing happens to what surrounds the pages while its variables stay.
LEMMA ShellStill ==
  ASSUME ShellInv, UNCHANGED shellVars
  PROVE  ShellInv'
  BY DEF ShellInv, ShellTypeOK, StatusIsOwn, AskedIsOwn, BannerIsTrue, ScrollIsFree,
         FieldsAreCurrent, SavedWasTyped, Places, InPortal, DealerPages, Passes, shellVars,
         guardVars, statusVars, bannerVars, drawerVars, profileVars

\* A step of the tab is one of its part, or leaves the part's state alone; the part stays.
LEMMA EveryPart ==
  ASSUME [BrowserNext]_browserVars
  PROVE  /\ UNCHANGED part
         /\ part = "session" => [SessionNext]_sessionVars
         /\ part = "application" => [RegNext]_regVars
         /\ part = "vehicle" => [RulesNext]_rulesVars
         /\ part = "form" => [ListingFormNext]_listingFormVars
         /\ part = "manager" => [ManagerNext]_managerVars
         /\ part = "market" => [MarketNext]_marketVars
         /\ part = "shortlist" => [ShortlistNext]_shortlistVars
         /\ part = "uploads" => [UploadScreensNext]_uploadVars
         /\ part = "admin" => [AdminNext]_adminVars
         /\ part = "shell" => [ShellNext]_shellVars
  <1>1. CASE BrowserNext
    BY <1>1 DEF BrowserNext, OfPart
  <1>2. CASE UNCHANGED browserVars
    <2>1. UNCHANGED part /\ UNCHANGED sessionVars /\ UNCHANGED regVars /\ UNCHANGED rulesVars /\ UNCHANGED listingFormVars
          /\ UNCHANGED managerVars /\ UNCHANGED marketVars /\ UNCHANGED shortlistVars /\ UNCHANGED uploadVars /\ UNCHANGED adminVars /\ UNCHANGED shellVars
      BY <1>2 DEF browserVars
    <2> QED
      BY <2>1
  <1> QED
    BY <1>1, <1>2

\* The application form rests while the tab is on another page.
LEMMA RegStays ==
  ASSUME [BrowserNext]_browserVars, part # "application"
  PROVE  UNCHANGED regVars
  <1> DEFINE same == UNCHANGED regVars
  <1>1. CASE BrowserNext
    <2>1. same
      BY <1>1 DEF BrowserNext, OfPart, Idle
    <2> QED
      BY <2>1
  <1>2. CASE UNCHANGED browserVars
    BY <1>2 DEF browserVars
  <1> QED
    BY <1>1, <1>2

\* The invariant of the part that the behaviour is about.
PartInv ==
  /\ part \in Parts
  /\ part = "session" => SessionInv
  /\ part = "application" => RegInv
  /\ part = "vehicle" => RulesInv
  /\ part = "form" => FormInv
  /\ part = "manager" => ManagerInv
  /\ part = "market" => MarketInv
  /\ part = "shortlist" => ShortlistInv
  /\ part = "uploads" => UploadInv
  /\ part = "admin" => AdminInv
  /\ part = "shell" => ShellInv

\* It holds from the start.
LEMMA PartStart == BrowserInit => PartInv
  BY SessionStart, RegStart, RulesStart, FormStart, ManagerStart, MarketStart, ShortlistStart, UploadStart, AdminStart, ShellStart
     DEF BrowserInit, PartInv

\* Every step of the tab keeps it.
LEMMA PartStep ==
  ASSUME PartInv, [BrowserNext]_browserVars
  PROVE  PartInv'
  <1>1. part' = part
    BY EveryPart
  <1>2. part = "session" => SessionInv'
    BY EveryPart, SessionStep, SessionStill DEF PartInv
  <1>3. part = "application" => RegInv'
    BY EveryPart, RegStep, RegistrationStill DEF PartInv
  <1>4. part = "vehicle" => RulesInv'
    BY EveryPart, RulesStep, RulesStill DEF PartInv
  <1>5. part = "form" => FormInv'
    BY EveryPart, FormStep, FormStill DEF PartInv
  <1>6. part = "manager" => ManagerInv'
    BY EveryPart, ManagerStep, ManagerStill DEF PartInv
  <1>7. part = "market" => MarketInv'
    BY EveryPart, MarketStep, MarketStill DEF PartInv
  <1>8. part = "shortlist" => ShortlistInv'
    BY EveryPart, ShortlistStep, ShortlistStill DEF PartInv
  <1>9. part = "uploads" => UploadInv'
    BY EveryPart, UploadStep, UploadStill DEF PartInv
  <1>10. part = "admin" => AdminInv'
    BY EveryPart, AdminStep, AdminStill DEF PartInv
  <1>11. part = "shell" => ShellInv'
    BY EveryPart, ShellStep, ShellStill DEF PartInv
  <1> QED
    BY <1>1, <1>2, <1>3, <1>4, <1>5, <1>6, <1>7, <1>8, <1>9, <1>10, <1>11 DEF PartInv

\* Every behaviour of the tab keeps the invariant of its part.
THEOREM PartHolds == BrowserSpec => []PartInv
  <1>1. BrowserInit => PartInv
    BY PartStart
  <1>2. PartInv /\ [BrowserNext]_browserVars => PartInv'
    BY PartStep
  <1> QED
    BY <1>1, <1>2, PTL DEF BrowserSpec

\* The variables of each page keep their shapes.
THEOREM TabTypes == BrowserSpec => []BrowserTypeOK
  <1>1. ASSUME PartInv
        PROVE  BrowserTypeOK
    <2>1. /\ part = "session" => SessionTypeOK
          /\ part = "form" => ListingFormTypeOK
          /\ part = "manager" => ManagerTypeOK
          /\ part = "admin" => AdminTypeOK
      BY <1>1, SessionConsequence, FormConsequence, ManagerConsequence, AdminConsequence DEF PartInv
    <2>2. /\ part = "application" => RegTypeOK
          /\ part = "uploads" => UploadScreensTypeOK
          /\ part = "vehicle" => RulesTypeOK
          /\ part = "market" => MarketTypeOK
          /\ part = "shortlist" => ShortlistTypeOK
          /\ part = "shell" => ShellTypeOK
      BY <1>1 DEF PartInv, RegInv, UploadInv, RulesInv, MarketInv, ShortlistInv, ShellInv
    <2>3. part \in Parts
      BY <1>1 DEF PartInv
    <2> QED
      BY <2>1, <2>2, <2>3 DEF BrowserTypeOK, Parts
  <1> QED
    BY <1>1, PartHolds, PTL

\* The user shown is the one signed in, the cache is that user's, an application has
\* an account, and the banner and the status page speak of the user there is
\* (AuthProvider.tsx, EmailVerificationBanner.tsx, DealerPendingPage.tsx).
THEOREM SessionIsTrue == BrowserSpec => []SessionHolds
  <1>1. PartInv => SessionHolds
    BY SessionConsequence
       DEF SessionHolds, PartInv, ShellInv
  <1> QED
    BY <1>1, PartHolds, PTL

\* What is stored is told, no photo is stored twice or dropped, the order shown is the
\* one stored, and every vehicle stored is complete (RegisterPage.tsx, ListingForm.tsx).
THEOREM FormsAreKept == BrowserSpec => []FormsHold
  <1>1. PartInv => FormsHold
    BY RegConsequence, FormConsequence
       DEF FormsHold, PartInv, RulesInv, ShellInv
  <1> QED
    BY <1>1, PartHolds, PTL

\* Pages at rest show what the server has, actions reach only what is shown, filters
\* make sense, and what was removed stays removed (UploadDetails.tsx,
\* ListingManager.tsx, Marketplace.tsx, CompareProvider.tsx, UserManagement.tsx).
THEOREM ScreensAreTrue == BrowserSpec => []ScreensHold
  <1>1. PartInv => ScreensHold
    BY UploadConsequence, ManagerConsequence, ShortlistConsequence, AdminConsequence
       DEF ScreensHold, PartInv, MarketInv, ShellInv
  <1> QED
    BY <1>1, PartHolds, PTL

\* The application form is only ever filled with the answers of whoever is signed in at
\* that moment (RegisterPage.tsx:50-87).
THEOREM AnswersAreOwn == BrowserSpec => BrowserActs
  <1>1. ASSUME PartInv, [BrowserNext]_browserVars
        PROVE  [answersOf' # answersOf => answersOf' = regUser]_browserVars
    <2>1. CASE part = "application"
      <3>1. CASE RegNext
        BY <2>1, <3>1, <1>1, RegStep DEF PartInv
      <3>2. CASE UNCHANGED regVars
        BY <3>2 DEF regVars, regPage
      <3> QED
        BY <1>1, <2>1, <3>1, <3>2, EveryPart
    <2>2. CASE part # "application"
      <3>1. UNCHANGED regVars
        BY <1>1, <2>2, RegStays
      <3> QED
        BY <3>1 DEF regVars, regPage
    <2> QED
      BY <2>1, <2>2
  <1> QED
    BY <1>1, PartHolds, PTL DEF BrowserSpec, BrowserActs
=============================================================================
