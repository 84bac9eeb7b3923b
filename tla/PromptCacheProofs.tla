--------------------------- MODULE PromptCacheProofs ---------------------------
(***************************************************************************)
(* What holds of the response cache for any number of threads and keys and *)
(* any bound, without a lock: its order is an order of distinct keys, it   *)
(* exceeds max_entries by no more than the threads inside set(), a use     *)
(* never prolongs an entry's life, and calls only run down.                *)
(***************************************************************************)
EXTENDS PromptCache, FiniteSetTheorems, SequenceTheorems, TLAPS

\* Only threads that can count: Storing is a finite set.
LEMMA StoringIsFinite == IsFiniteSet(Storing) /\ Cardinality(Storing) \in Nat
BY CacheAssumption, FS_Subset, FS_CardinalityType DEF Storing

\* A cached key has a position.
LEMMA PositionExists ==
    ASSUME NEW k \in Cached
    PROVE  Position(k) \in DOMAIN lru /\ lru[Position(k)] = k
BY DEF Cached, ToSet, Position

\* What follows position i of a sequence.
LEMMA SuffixProperties ==
    ASSUME NEW S, NEW s \in Seq(S), NEW i \in 1..Len(s)
    PROVE  LET back == SubSeq(s, i + 1, Len(s))
           IN  /\ back \in Seq(S) /\ Len(back) = Len(s) - i
               /\ \A j \in 1..(Len(s) - i) : back[j] = s[i + j]
<1> DEFINE n == Len(s)
           m == i + 1
           back == SubSeq(s, m, n)
<1>1. n \in Nat /\ i \in Nat /\ i <= n /\ \A j \in 1..n : s[j] \in S
  OBVIOUS
<1>2. m \in Int /\ m = i + 1 /\ \A j \in m..n : s[j] \in S
  BY <1>1
<1> HIDE DEF n, m
<1>3. /\ back \in Seq(S)
      /\ Len(back) = IF m <= n THEN n - m + 1 ELSE 0
      /\ \A j \in 1..(n - m + 1) : back[j] = s[m + j - 1]
  BY <1>1, <1>2, SubSeqProperties
<1>4. n - m + 1 = n - i /\ (m <= n <=> n - i # 0) /\ \A j \in Int : m + j - 1 = i + j
  BY <1>1, <1>2
<1> HIDE DEF back
<1>5. Len(back) = n - i
  BY <1>1, <1>3, <1>4
<1>6. \A j \in 1..(n - i) : back[j] = s[i + j]
  BY <1>3, <1>4
<1>7. QED BY <1>3, <1>5, <1>6 DEF back, n, m

\* Taking a key out of the order leaves the others in theirs.
LEMMA WithoutIsSound ==
    ASSUME TypeOK, NEW k \in Cached
    PROVE  /\ Without(k) \in Seq(Keys)
           /\ Len(Without(k)) = Len(lru) - 1
           /\ IsInjective(Without(k))
           /\ ToSet(Without(k)) = Cached \ {k}
<1> DEFINE i == Position(k)
           w == SubSeq(lru, 1, i - 1) \o SubSeq(lru, i + 1, Len(lru))
<1>1. /\ lru \in Seq(Keys) /\ Len(lru) \in Nat /\ DOMAIN lru = 1..Len(lru)
      /\ \A a, b \in 1..Len(lru) : lru[a] = lru[b] => a = b
  BY DEF TypeOK, IsInjective
<1>2. i \in 1..Len(lru) /\ lru[i] = k
  BY <1>1, PositionExists
<1> HIDE DEF i
<1>3. /\ w \in Seq(Keys) /\ Len(w) = Len(lru) - 1
      /\ DOMAIN w = 1..(Len(lru) - 1)
      /\ \A j \in 1..(Len(lru) - 1) : w[j] = IF j < i THEN lru[j] ELSE lru[j + 1]
  <2> DEFINE front == SubSeq(lru, 1, i - 1)
             back  == SubSeq(lru, i + 1, Len(lru))
  <2>1. /\ front \in Seq(Keys) /\ Len(front) = i - 1
        /\ \A j \in 1..(i - 1) : front[j] = lru[j]
    BY <1>1, <1>2, SubSeqProperties
  <2>2. /\ back \in Seq(Keys) /\ Len(back) = Len(lru) - i
        /\ \A j \in 1..(Len(lru) - i) : back[j] = lru[i + j]
    BY <1>1, <1>2, SuffixProperties
  <2>3. w = front \o back
    OBVIOUS
  <2> HIDE DEF front, back, w
  <2>4. /\ w \in Seq(Keys) /\ Len(w) = Len(front) + Len(back)
        /\ \A j \in 1..(Len(front) + Len(back)) :
               w[j] = IF j <= Len(front) THEN front[j] ELSE back[j - Len(front)]
    BY <2>1, <2>2, <2>3, ConcatProperties
  <2>5. Len(w) = Len(lru) - 1 /\ DOMAIN w = 1..(Len(lru) - 1)
    BY <1>1, <1>2, <2>1, <2>2, <2>4
  <2>6. ASSUME NEW j \in 1..(Len(lru) - 1)
        PROVE  w[j] = IF j < i THEN lru[j] ELSE lru[j + 1]
    <3>1. CASE j < i
      BY <1>1, <1>2, <2>1, <2>2, <2>4, <3>1
    <3>2. CASE ~(j < i)
      <4>1. j - (i - 1) \in 1..(Len(lru) - i) /\ i + (j - (i - 1)) = j + 1
        BY <1>1, <1>2, <3>2
      <4>2. j \in 1..(Len(front) + Len(back)) /\ ~(j <= Len(front)) /\ Len(front) = i - 1
        BY <1>1, <1>2, <2>1, <2>2, <3>2
      <4>3. w[j] = back[j - (i - 1)]
        BY <2>4, <4>2
      <4>4. QED BY <2>2, <3>2, <4>1, <4>3
    <3>3. QED BY <3>1, <3>2
  <2>7. QED BY <2>4, <2>5, <2>6
<1> HIDE DEF w
<1>4. Without(k) = w
  BY DEF Without, RemoveAt, w, i
<1>5. IsInjective(w)
  BY <1>1, <1>2, <1>3 DEF IsInjective
<1>6. ToSet(w) = Cached \ {k}
  <2>1. ASSUME NEW x \in ToSet(w) PROVE x \in Cached \ {k}
    <3>1. PICK j \in 1..(Len(lru) - 1) : w[j] = x
      BY <1>3 DEF ToSet
    <3>2. PICK m \in 1..Len(lru) : m # i /\ lru[m] = x
      BY <1>1, <1>2, <1>3, <3>1
    <3>3. QED BY <1>1, <1>2, <3>2 DEF Cached, ToSet
  <2>2. ASSUME NEW x \in Cached \ {k} PROVE x \in ToSet(w)
    <3>1. PICK m \in 1..Len(lru) : lru[m] = x
      BY <1>1 DEF Cached, ToSet
    <3>2. m # i
      BY <1>2, <3>1
    <3>3. PICK j \in 1..(Len(lru) - 1) : w[j] = x
      <4>1. CASE m < i
        BY <1>1, <1>2, <1>3, <3>1, <4>1
      <4>2. CASE m > i
        <5>1. m - 1 \in 1..(Len(lru) - 1) /\ ~(m - 1 < i) /\ (m - 1) + 1 = m
          BY <1>1, <1>2, <4>2
        <5>2. QED BY <1>3, <3>1, <5>1
      <4>3. QED BY <1>1, <1>2, <3>2, <4>1, <4>2
    <3>4. QED BY <1>3, <3>3 DEF ToSet
  <2>3. QED BY <2>1, <2>2
<1>7. QED BY <1>3, <1>4, <1>5, <1>6

\* Putting a key that is not there at the recent end.
LEMMA AppendIsSound ==
    ASSUME NEW s \in Seq(Keys), IsInjective(s), NEW k \in Keys, k \notin ToSet(s)
    PROVE  /\ Append(s, k) \in Seq(Keys)
           /\ Len(Append(s, k)) = Len(s) + 1
           /\ IsInjective(Append(s, k))
           /\ ToSet(Append(s, k)) = ToSet(s) \cup {k}
<1> DEFINE a == Append(s, k)
<1>1. /\ a \in Seq(Keys) /\ Len(a) = Len(s) + 1 /\ Len(s) \in Nat
      /\ DOMAIN a = 1..(Len(s) + 1) /\ DOMAIN s = 1..Len(s)
      /\ \A j \in 1..(Len(s) + 1) : a[j] = IF j = Len(s) + 1 THEN k ELSE s[j]
  OBVIOUS
<1> HIDE DEF a
<1>2. IsInjective(a)
  BY <1>1 DEF IsInjective, ToSet
<1>3. ToSet(a) = ToSet(s) \cup {k}
  <2>1. ASSUME NEW x \in ToSet(a) PROVE x \in ToSet(s) \cup {k}
    BY <1>1 DEF ToSet
  <2>2. ASSUME NEW x \in ToSet(s) PROVE x \in ToSet(a)
    <3>1. PICK j \in 1..Len(s) : s[j] = x
      BY <1>1 DEF ToSet
    <3>2. j \in 1..(Len(s) + 1) /\ a[j] = x
      BY <1>1, <3>1
    <3>3. QED BY <1>1, <3>2 DEF ToSet
  <2>3. k \in ToSet(a)
    <3>1. Len(s) + 1 \in DOMAIN a /\ a[Len(s) + 1] = k
      BY <1>1
    <3>2. QED BY <3>1 DEF ToSet
  <2>4. QED BY <2>1, <2>2, <2>3
<1>4. QED BY <1>1, <1>2, <1>3 DEF a

\* The eviction of the oldest entry.
LEMMA TailIsSound ==
    ASSUME TypeOK, lru # <<>>
    PROVE  /\ Tail(lru) \in Seq(Keys)
           /\ Len(Tail(lru)) = Len(lru) - 1
           /\ IsInjective(Tail(lru))
           /\ ToSet(Tail(lru)) = Cached \ {Head(lru)}
<1> DEFINE w == Tail(lru)
<1>1. /\ lru \in Seq(Keys) /\ Len(lru) \in Nat \ {0} /\ DOMAIN lru = 1..Len(lru)
      /\ \A a, b \in 1..Len(lru) : lru[a] = lru[b] => a = b
      /\ Head(lru) = lru[1]
  BY DEF TypeOK, IsInjective
<1>2. /\ w \in Seq(Keys) /\ Len(w) = Len(lru) - 1
      /\ DOMAIN w = 1..(Len(lru) - 1)
      /\ \A j \in 1..(Len(lru) - 1) : w[j] = lru[j + 1]
  BY <1>1
<1> HIDE DEF w
<1>3. IsInjective(w)
  BY <1>1, <1>2 DEF IsInjective
<1>4. ToSet(w) = Cached \ {Head(lru)}
  <2>1. ASSUME NEW x \in ToSet(w) PROVE x \in Cached \ {Head(lru)}
    <3>1. PICK j \in 1..(Len(lru) - 1) : w[j] = x
      BY <1>2 DEF ToSet
    <3>2. j + 1 \in 1..Len(lru) /\ j + 1 # 1 /\ lru[j + 1] = x
      BY <1>1, <1>2, <3>1
    <3>3. QED BY <1>1, <3>2 DEF Cached, ToSet
  <2>2. ASSUME NEW x \in Cached \ {Head(lru)} PROVE x \in ToSet(w)
    <3>1. PICK m \in 1..Len(lru) : lru[m] = x
      BY <1>1 DEF Cached, ToSet
    <3>2. m - 1 \in 1..(Len(lru) - 1) /\ (m - 1) + 1 = m
      BY <1>1, <3>1
    <3>3. QED BY <1>2, <3>1, <3>2 DEF ToSet
  <2>3. QED BY <2>1, <2>2
<1>5. QED BY <1>2, <1>3, <1>4 DEF w

-------------------------------------------------------------------------------

\* The length of the cache and the threads inside set() go together; neither
\* part is inductive without the types.
IInv == TypeOK /\ SizeBounded

LEMMA InitInv == Init => IInv
<1> SUFFICES ASSUME Init PROVE IInv
  OBVIOUS
<1>1. TypeOK
  BY DEF Init, TypeOK, Places, IsInjective
<1>2. SizeBounded
  BY StoringIsFinite, CacheAssumption DEF Init, SizeBounded
<1>3. QED BY <1>1, <1>2 DEF IInv

\* A step that leaves the threads inside set() alone and adds no entry.
LEMMA QuietStep ==
    ASSUME IInv, Storing' = Storing, Len(lru') <= Len(lru), lru' \in Seq(Keys)
    PROVE  SizeBounded'
<1>1. Len(lru) \in Nat /\ Len(lru') \in Nat /\ MaxEntries \in Nat
  BY CacheAssumption DEF IInv, TypeOK
<1>2. QED BY <1>1, StoringIsFinite DEF IInv, SizeBounded

\* A thread outside set() that goes to another place outside it.
LEMMA OutsideSet ==
    ASSUME TypeOK, NEW t \in Threads, NEW place \in Places \ {"check", "pop"},
           pc[t] \notin {"check", "pop"}, Goto(t, place)
    PROVE  Storing' = Storing /\ pc' \in [Threads -> Places]
<1>1. pc' = [pc EXCEPT ![t] = place] /\ pc \in [Threads -> Places] /\ place \in Places
  BY DEF TypeOK, Goto
<1>2. \A u \in Threads : pc'[u] \in {"check", "pop"} <=> pc[u] \in {"check", "pop"}
  BY <1>1
<1>3. Storing' = Storing
  BY <1>2 DEF Storing
<1>4. QED BY <1>1, <1>3

LEMMA StartInv == ASSUME NEW t \in Threads PROVE IInv /\ Start(t) => IInv'
<1> SUFFICES ASSUME IInv, Start(t) PROVE IInv'
  OBVIOUS
<1>1. Storing' = Storing /\ pc' \in [Threads -> Places]
  BY OutsideSet DEF Start, IInv, Places
<1>2. TypeOK'
  <2>1. PICK k \in Keys : /\ key' = [key EXCEPT ![t] = k]
                          /\ late' = [late EXCEPT ![t] = k \in expired]
    BY DEF Start
  <2>2. late' \in [Threads -> BOOLEAN]
    <3>1. late \in [Threads -> BOOLEAN] /\ (k \in expired) \in BOOLEAN
      BY DEF IInv, TypeOK
    <3>2. QED BY <2>1, <3>1, Zenon
  <2>3. key' \in [Threads -> Keys]
    BY <2>1 DEF IInv, TypeOK
  <2>4. QED BY <1>1, <2>2, <2>3 DEF Start, IInv, TypeOK, Cached
<1>3. SizeBounded'
  BY <1>1, QuietStep DEF Start, IInv, TypeOK
<1>4. QED BY <1>2, <1>3 DEF IInv

LEMMA LookupInv == ASSUME NEW t \in Threads PROVE IInv /\ Lookup(t) => IInv'
<1> SUFFICES ASSUME IInv, Lookup(t) PROVE IInv'
  OBVIOUS
<1>1. PICK place \in {"call", "drop", "touch"} : Goto(t, place)
  BY DEF Lookup
<1>2. Storing' = Storing /\ pc' \in [Threads -> Places]
  BY <1>1, OutsideSet DEF Lookup, IInv, Places
<1>3. TypeOK'
  BY <1>2 DEF Lookup, IInv, TypeOK, Cached
<1>4. SizeBounded'
  BY <1>2, QuietStep DEF Lookup, IInv, TypeOK
<1>5. QED BY <1>3, <1>4 DEF IInv

LEMMA DropInv == ASSUME NEW t \in Threads PROVE IInv /\ Drop(t) => IInv'
<1> SUFFICES ASSUME IInv, Drop(t) PROVE IInv'
  OBVIOUS
<1>1. Storing' = Storing /\ pc' \in [Threads -> Places]
  BY OutsideSet DEF Drop, IInv, Places
<1>2. /\ lru' \in Seq(Keys) /\ IsInjective(lru') /\ ToSet(lru') = Cached \ {key[t]}
      /\ Len(lru') <= Len(lru)
  <2>1. CASE key[t] \in Cached
    <3>1. lru' = Without(key[t]) /\ Len(lru) \in Nat
      BY <2>1 DEF Drop, IInv, TypeOK
    <3>2. QED BY <2>1, <3>1, WithoutIsSound DEF IInv
  <2>2. CASE key[t] \notin Cached
    <3>1. lru' = lru /\ Len(lru) \in Nat
      BY <2>2 DEF Drop, IInv, TypeOK
    <3>2. ToSet(lru') = Cached
      BY <3>1 DEF Cached
    <3>3. QED BY <2>2, <3>1, <3>2 DEF IInv, TypeOK
  <2>3. QED BY <2>1, <2>2
<1>3. TypeOK'
  BY <1>1, <1>2 DEF Drop, IInv, TypeOK, Cached
<1>4. QED BY <1>1, <1>2, <1>3, QuietStep DEF IInv

LEMMA TouchInv == ASSUME NEW t \in Threads PROVE IInv /\ Touch(t) => IInv'
<1> SUFFICES ASSUME IInv, Touch(t) PROVE IInv'
  OBVIOUS
<1>1. PICK place \in {"idle", "raised"} : Goto(t, place)
  BY DEF Touch
<1>2. Storing' = Storing /\ pc' \in [Threads -> Places]
  BY <1>1, OutsideSet DEF Touch, IInv, Places
<1>3. /\ lru' \in Seq(Keys) /\ IsInjective(lru') /\ ToSet(lru') = Cached
      /\ Len(lru') <= Len(lru)
  <2>1. CASE key[t] \in Cached
    <3>1. lru' = Append(Without(key[t]), key[t]) /\ Len(lru) \in Nat /\ key[t] \in Keys
      BY <2>1 DEF Touch, IInv, TypeOK
    <3>2. /\ Without(key[t]) \in Seq(Keys) /\ Len(Without(key[t])) = Len(lru) - 1
          /\ IsInjective(Without(key[t])) /\ ToSet(Without(key[t])) = Cached \ {key[t]}
      BY <2>1, WithoutIsSound DEF IInv
    <3>3. /\ lru' \in Seq(Keys) /\ IsInjective(lru') /\ Len(lru') = (Len(lru) - 1) + 1
          /\ ToSet(lru') = (Cached \ {key[t]}) \cup {key[t]}
      BY <3>1, <3>2, AppendIsSound
    <3>4. QED BY <2>1, <3>1, <3>3
  <2>2. CASE key[t] \notin Cached
    <3>1. lru' = lru /\ Len(lru) \in Nat
      BY <2>2 DEF Touch, IInv, TypeOK
    <3>2. QED BY <3>1 DEF IInv, TypeOK, Cached
  <2>3. QED BY <2>1, <2>2
<1>4. TypeOK'
  BY <1>2, <1>3 DEF Touch, IInv, TypeOK, Cached
<1>5. QED BY <1>2, <1>3, <1>4, QuietStep DEF IInv

LEMMA ModelCallInv == ASSUME NEW t \in Threads PROVE IInv /\ ModelCall(t) => IInv'
<1> SUFFICES ASSUME IInv, ModelCall(t) PROVE IInv'
  OBVIOUS
<1>1. PICK place \in {"assign", "idle"} : Goto(t, place)
  BY DEF ModelCall
<1>2. Storing' = Storing /\ pc' \in [Threads -> Places]
  BY <1>1, OutsideSet DEF ModelCall, IInv, Places
<1>3. TypeOK'
  BY <1>2 DEF ModelCall, IInv, TypeOK, Cached
<1>4. SizeBounded'
  BY <1>2, QuietStep DEF ModelCall, IInv, TypeOK
<1>5. QED BY <1>3, <1>4 DEF IInv

\* The entry a thread adds is the one it is about to make room for.
LEMMA AssignInv == ASSUME NEW t \in Threads PROVE IInv /\ Assign(t) => IInv'
<1> SUFFICES ASSUME IInv, Assign(t) PROVE IInv'
  OBVIOUS
<1>1. Len(lru) \in Nat /\ MaxEntries \in Nat /\ key[t] \in Keys /\ lru \in Seq(Keys)
  BY CacheAssumption DEF IInv, TypeOK
<1>2. /\ lru' \in Seq(Keys) /\ IsInjective(lru') /\ ToSet(lru') = Cached \cup {key[t]}
      /\ Len(lru') <= Len(lru) + 1
  <2>1. CASE key[t] \in Cached
    <3>1. lru' = Append(Without(key[t]), key[t])
      BY <2>1 DEF Assign
    <3>2. QED BY <1>1, <2>1, <3>1, WithoutIsSound, AppendIsSound DEF IInv
  <2>2. CASE key[t] \notin Cached
    <3>1. lru' = Append(lru, key[t])
      BY <2>2 DEF Assign
    <3>2. QED BY <1>1, <2>2, <3>1, AppendIsSound DEF IInv, TypeOK, Cached
  <2>3. QED BY <2>1, <2>2
<1>3. TypeOK'
  BY <1>2 DEF Assign, Goto, Places, IInv, TypeOK, Cached
<1>4. Storing' = Storing \cup {t} /\ t \notin Storing
  BY DEF Assign, Goto, Storing, IInv, TypeOK
<1>5. Cardinality(Storing') = Cardinality(Storing) + 1
  BY <1>4, StoringIsFinite, FS_AddElement
<1>6. Len(lru') \in Nat
  BY <1>2
<1>7. SizeBounded'
  BY <1>1, <1>2, <1>5, <1>6, StoringIsFinite DEF IInv, SizeBounded
<1>8. QED BY <1>3, <1>7 DEF IInv

\* A thread leaves set() only when it has seen the cache within its bound.
LEMMA CheckInv == ASSUME NEW t \in Threads PROVE IInv /\ Check(t) => IInv'
<1> SUFFICES ASSUME IInv, Check(t) PROVE IInv'
  OBVIOUS
<1>1. Len(lru) \in Nat /\ MaxEntries \in Nat
  BY CacheAssumption DEF IInv, TypeOK
<1>2. TypeOK'
  BY DEF Check, Goto, Places, IInv, TypeOK, Cached
<1>3. SizeBounded'
  <2>1. CASE Len(lru) > MaxEntries
    <3>1. Storing' = Storing
      BY <2>1 DEF Check, Goto, Storing, IInv, TypeOK
    <3>2. QED BY <1>1, <3>1, QuietStep DEF Check, IInv, TypeOK
  <2>2. CASE ~ (Len(lru) > MaxEntries)
    <3>1. Storing' = Storing \ {t} /\ lru' = lru
      BY <2>2 DEF Check, Goto, Storing, IInv, TypeOK
    <3>2. Cardinality(Storing') \in Nat
      BY <3>1, StoringIsFinite, FS_RemoveElement, FS_CardinalityType
    <3>3. QED BY <1>1, <2>2, <3>1, <3>2 DEF SizeBounded
  <2>3. QED BY <2>1, <2>2
<1>4. QED BY <1>2, <1>3 DEF IInv

LEMMA EvictInv == ASSUME NEW t \in Threads PROVE IInv /\ Evict(t) => IInv'
<1> SUFFICES ASSUME IInv, Evict(t) PROVE IInv'
  OBVIOUS
<1>1. Len(lru) \in Nat /\ MaxEntries \in Nat
  BY CacheAssumption DEF IInv, TypeOK
<1>2. CASE lru = <<>>
  <2>1. Storing' = Storing \ {t} /\ lru' = lru /\ Len(lru) = 0
    BY <1>2 DEF Evict, Goto, Storing, IInv, TypeOK
  <2>2. Cardinality(Storing') \in Nat
    BY <2>1, StoringIsFinite, FS_RemoveElement, FS_CardinalityType
  <2>3. SizeBounded'
    BY <1>1, <2>1, <2>2 DEF SizeBounded
  <2>4. TypeOK'
    BY <1>2 DEF Evict, Goto, Places, IInv, TypeOK, Cached
  <2>5. QED BY <2>3, <2>4 DEF IInv
<1>3. CASE lru # <<>>
  <2>1. lru' = Tail(lru) /\ expired' = expired \ {Head(lru)} /\ Goto(t, "check")
        /\ UNCHANGED <<key, late>> /\ pc[t] = "pop"
    BY <1>3 DEF Evict
  <2>2. /\ lru' \in Seq(Keys) /\ IsInjective(lru') /\ ToSet(lru') = Cached \ {Head(lru)}
        /\ Len(lru') <= Len(lru)
    BY <1>1, <1>3, <2>1, TailIsSound DEF IInv
  <2>3. Storing' = Storing
    BY <2>1 DEF Goto, Storing, IInv, TypeOK
  <2>4. TypeOK'
    BY <2>1, <2>2 DEF Goto, Places, IInv, TypeOK, Cached
  <2>5. QED BY <2>2, <2>3, <2>4, QuietStep DEF IInv
<1>4. QED BY <1>2, <1>3

LEMMA FailInv == ASSUME NEW t \in Threads PROVE IInv /\ Fail(t) => IInv'
<1> SUFFICES ASSUME IInv, Fail(t) PROVE IInv'
  OBVIOUS
<1>1. Storing' = Storing /\ pc' \in [Threads -> Places]
  BY OutsideSet DEF Fail, IInv, Places
<1>2. TypeOK'
  BY <1>1 DEF Fail, IInv, TypeOK, Cached
<1>3. SizeBounded'
  BY <1>1, QuietStep DEF Fail, IInv, TypeOK
<1>4. QED BY <1>2, <1>3 DEF IInv

LEMMA ExpireInv == IInv /\ Expire => IInv'
<1> SUFFICES ASSUME IInv, Expire PROVE IInv'
  OBVIOUS
<1>1. Storing' = Storing
  BY DEF Expire, Storing
<1>2. TypeOK'
  BY DEF Expire, IInv, TypeOK, Cached
<1>3. SizeBounded'
  BY <1>1, QuietStep DEF Expire, IInv, TypeOK
<1>4. QED BY <1>2, <1>3 DEF IInv

\* Types and the bound hold in every state, however the threads interleave.
THEOREM Invariance == Spec => []IInv
<1>1. IInv /\ [Next]_vars => IInv'
  <2> SUFFICES ASSUME IInv, [Next]_vars PROVE IInv'
    OBVIOUS
  <2>1. CASE \E t \in Threads : Start(t) \/ Step(t)
    BY <2>1, StartInv, LookupInv, DropInv, TouchInv, ModelCallInv, AssignInv, CheckInv, EvictInv,
       FailInv DEF Step
  <2>2. CASE Expire
    BY <2>2, ExpireInv
  <2>3. CASE UNCHANGED vars
    BY <2>3 DEF vars, IInv, TypeOK, SizeBounded, Storing, Cached
  <2>4. QED BY <2>1, <2>2, <2>3 DEF Next
<1>2. QED BY InitInv, <1>1, PTL DEF Spec

\* The order never holds a key twice, and only cached entries expire, for any
\* number of threads that move, drop and evict each other's entries.
THEOREM TypeCorrect == Spec => []TypeOK
<1>1. IInv => TypeOK
  BY DEF IInv
<1>2. QED BY <1>1, Invariance, PTL

\* The eviction loop of TTLRUCache.set (prompt_cache.py:80) keeps the cache
\* within max_entries but for the threads that are inside set(), without a
\* lock and for any number of them.
THEOREM OvershootIsBounded == Spec => []SizeBounded
<1>1. IInv => SizeBounded
  BY DEF IInv
<1>2. QED BY <1>1, Invariance, PTL

-------------------------------------------------------------------------------

\* What one step does to the lifetime of a key.
Renewed(k) == k \in Cached' => k \in expired' \/ \E t \in Threads : pc[t] = "assign" /\ key[t] = k

LEMMA StepsRenewNothing ==
    ASSUME IInv, [Next]_vars, NEW k \in expired
    PROVE  Renewed(k)
<1>1. CASE UNCHANGED vars \/ Expire
  BY <1>1 DEF vars, Expire, Renewed
<1>2. ASSUME NEW t \in Threads, Start(t) \/ Step(t)
      PROVE  Renewed(k)
  <2>1. CASE Start(t) \/ Lookup(t) \/ Touch(t) \/ ModelCall(t) \/ Check(t) \/ Fail(t)
    BY <2>1 DEF Start, Lookup, Touch, ModelCall, Check, Fail, Renewed
  <2>2. CASE Drop(t)
    <3>1. k = key[t] => k \notin Cached'
      <4>1. CASE key[t] \in Cached
        <5>1. lru' = Without(key[t])
          BY <2>2, <4>1 DEF Drop
        <5>2. QED BY <4>1, <5>1, WithoutIsSound DEF IInv, Cached
      <4>2. CASE key[t] \notin Cached
        BY <2>2, <4>2 DEF Drop, Cached
      <4>3. QED BY <4>1, <4>2
    <3>2. QED BY <2>2, <3>1 DEF Drop, Renewed
  <2>3. CASE Assign(t)
    BY <2>3 DEF Assign, Renewed
  <2>4. CASE Evict(t)
    <3>1. CASE lru = <<>>
      BY <2>4, <3>1 DEF Evict, Renewed
    <3>2. CASE lru # <<>>
      <4>1. lru' = Tail(lru) /\ expired' = expired \ {Head(lru)}
        BY <2>4, <3>2 DEF Evict
      <4>2. Head(lru) \notin Cached'
        BY <3>2, <4>1, TailIsSound DEF IInv, Cached
      <4>3. QED BY <4>1, <4>2 DEF Renewed
    <3>3. QED BY <3>1, <3>2
  <2>5. QED BY <1>2, <2>1, <2>2, <2>3, <2>4 DEF Step
<1>3. QED BY <1>1, <1>2 DEF Next

\* No use of an entry by any thread lets an expired answer be served again: it
\* takes a thread that stores a new one (prompt_cache.py:67-77).
THEOREM UseRenewsNothing == Spec => LifetimeNotRenewed
<1>1. IInv /\ [Next]_vars =>
          [\A k \in expired :
              k \in Cached' => k \in expired' \/ \E t \in Threads : pc[t] = "assign" /\ key[t] = k]_vars
  BY StepsRenewNothing DEF Renewed
<1>2. QED BY <1>1, Invariance, PTL DEF Spec, LifetimeNotRenewed

-------------------------------------------------------------------------------
(***************************************************************************)
(* What CallsEnd rests on, short of fairness: the eviction loop shares its *)
(* dict with loops of other threads and still only runs down.              *)
(***************************************************************************)

\* The places of a cached call in the order it passes them, the last one lowest.
Rank(place) ==
    CASE place = "get" -> 6 [] place \in {"drop", "touch"} -> 5 [] place = "call" -> 4
      [] place = "assign" -> 3 [] place \in {"check", "pop"} -> 2 [] place = "raised" -> 1
      [] OTHER -> 0

\* Steps the eviction loop has left for the entries there are.
EvictionLeft(t) ==
    CASE pc[t] = "check" -> 2 * Len(lru) + 1 [] pc[t] = "pop" -> 2 * Len(lru) [] OTHER -> 0

Closer(t) ==
    \/ Rank(pc'[t]) < Rank(pc[t])
    \/ /\ Rank(pc'[t]) = Rank(pc[t])
       /\ EvictionLeft(t) \in Nat /\ EvictionLeft(t)' \in Nat
       /\ EvictionLeft(t)' < EvictionLeft(t)

\* A step of a thread brings its call closer to the end, and a step of another
\* one takes it no farther away, unless that one stores an answer.
CallsAdvance ==
    \A t \in Threads :
        /\ Step(t) => Closer(t)
        /\ pc[t] # "idle" /\ ~ (\E u \in Threads \ {t} : Assign(u)) =>
               \/ Closer(t)
               \/ pc'[t] = pc[t] /\ EvictionLeft(t)' <= EvictionLeft(t)

\* Only a stored answer makes the cache grow, and an eviction makes it smaller.
LEMMA SizeStep ==
    ASSUME IInv, NEW t \in Threads, Start(t) \/ Step(t)
    PROVE  /\ Len(lru) \in Nat /\ Len(lru') \in Nat
           /\ ~Assign(t) => Len(lru') <= Len(lru)
           /\ Evict(t) /\ lru # <<>> => Len(lru') = Len(lru) - 1
<1>1. lru \in Seq(Keys) /\ Len(lru) \in Nat
  BY DEF IInv, TypeOK
<1>2. IInv'
  BY StartInv, LookupInv, DropInv, TouchInv, ModelCallInv, AssignInv, CheckInv, EvictInv, FailInv
     DEF Step
<1>3. Len(lru') \in Nat
  BY <1>2 DEF IInv, TypeOK
<1>4. CASE Start(t) \/ Lookup(t) \/ ModelCall(t) \/ Check(t) \/ Fail(t)
  BY <1>1, <1>4 DEF Start, Lookup, ModelCall, Check, Fail, Evict
<1>5. CASE Drop(t)
  <2>1. CASE key[t] \in Cached
    BY <1>1, <1>5, <2>1, WithoutIsSound DEF Drop, Evict, IInv
  <2>2. CASE key[t] \notin Cached
    BY <1>1, <1>5, <2>2 DEF Drop, Evict
  <2>3. QED BY <2>1, <2>2
<1>6. CASE Touch(t)
  <2>1. CASE key[t] \in Cached
    <3>1. Without(key[t]) \in Seq(Keys) /\ Len(Without(key[t])) = Len(lru) - 1
      BY <2>1, WithoutIsSound DEF IInv
    <3>2. lru' = Append(Without(key[t]), key[t])
      BY <1>6, <2>1 DEF Touch
    <3>3. Len(lru') = Len(lru)
      BY <1>1, <3>1, <3>2
    <3>4. QED BY <1>1, <1>6, <3>3 DEF Touch, Evict
  <2>2. CASE key[t] \notin Cached
    BY <1>1, <1>6, <2>2 DEF Touch, Evict
  <2>3. QED BY <2>1, <2>2
<1>7. CASE Assign(t)
  BY <1>1, <1>3, <1>7 DEF Assign, Evict
<1>8. CASE Evict(t)
  <2>1. CASE lru = <<>>
    BY <1>1, <1>8, <2>1 DEF Evict
  <2>2. CASE lru # <<>>
    <3>1. Len(Tail(lru)) = Len(lru) - 1
      BY <2>2, TailIsSound DEF IInv
    <3>2. lru' = Tail(lru)
      BY <1>8, <2>2 DEF Evict
    <3>3. Len(lru') = Len(lru) - 1
      BY <3>1, <3>2
    <3>4. QED BY <1>1, <1>3, <3>3
  <2>3. QED BY <2>1, <2>2
<1>9. QED BY <1>1, <1>3, <1>4, <1>5, <1>6, <1>7, <1>8 DEF Step

\* A thread's own step.
LEMMA OwnStep ==
    ASSUME IInv, NEW t \in Threads, Step(t)
    PROVE  Closer(t)
<1>1. pc \in [Threads -> Places]
  BY DEF IInv, TypeOK
<1>2. /\ Len(lru) \in Nat /\ Len(lru') \in Nat
      /\ Evict(t) /\ lru # <<>> => Len(lru') = Len(lru) - 1
  BY SizeStep
<1>3. CASE Lookup(t) \/ Drop(t) \/ Touch(t) \/ ModelCall(t) \/ Assign(t) \/ Fail(t)
  <2>1. Rank(pc'[t]) < Rank(pc[t])
    BY <1>1, <1>3 DEF Lookup, Drop, Touch, ModelCall, Assign, Fail, Goto, Rank
  <2>2. QED BY <2>1 DEF Closer
<1>4. CASE Check(t)
  <2>1. /\ pc[t] = "check" /\ lru' = lru
        /\ pc'[t] = "idle" \/ pc'[t] = "pop"
    BY <1>1, <1>4 DEF Check, Goto
  <2>2. CASE pc'[t] = "idle"
    BY <2>1, <2>2 DEF Closer, Rank
  <2>3. CASE pc'[t] = "pop"
    BY <1>2, <2>1, <2>3 DEF Closer, Rank, EvictionLeft
  <2>4. QED BY <2>1, <2>2, <2>3
<1>5. CASE Evict(t)
  <2>1. CASE lru = <<>>
    BY <1>1, <1>5, <2>1 DEF Evict, Goto, Closer, Rank
  <2>2. CASE lru # <<>>
    <3>1. pc[t] = "pop" /\ pc'[t] = "check" /\ Len(lru') = Len(lru) - 1
      BY <1>1, <1>2, <1>5, <2>2 DEF Evict, Goto
    <3>2. QED BY <1>2, <3>1 DEF Closer, Rank, EvictionLeft
  <2>3. QED BY <2>1, <2>2
<1>6. QED BY <1>3, <1>4, <1>5 DEF Step

LEMMA AdvanceStep == IInv /\ [Next]_vars => CallsAdvance
<1> SUFFICES ASSUME IInv, [Next]_vars, NEW t \in Threads, ~Step(t), pc[t] # "idle",
                    ~ (\E u \in Threads \ {t} : Assign(u))
             PROVE  pc'[t] = pc[t] /\ EvictionLeft(t)' <= EvictionLeft(t)
  BY OwnStep DEF CallsAdvance
<1>1. pc \in [Threads -> Places] /\ Len(lru) \in Nat
  BY DEF IInv, TypeOK
<1>2. pc'[t] = pc[t] /\ Len(lru') \in Nat /\ Len(lru') <= Len(lru)
  <2>1. CASE Expire \/ UNCHANGED vars
    BY <1>1, <2>1 DEF Expire, vars
  <2>2. ASSUME NEW u \in Threads, Start(u) \/ Step(u)
        PROVE  pc'[t] = pc[t] /\ Len(lru') \in Nat /\ Len(lru') <= Len(lru)
    <3>1. u # t
      BY <2>2 DEF Start
    <3>2. ~Assign(u)
      BY <3>1
    <3>3. Len(lru') \in Nat /\ Len(lru') <= Len(lru)
      BY <2>2, <3>2, SizeStep
    <3>4. pc'[t] = pc[t]
      BY <1>1, <2>2, <3>1 DEF Start, Step, Lookup, Drop, Touch, ModelCall, Assign, Check, Evict,
         Fail, Goto
    <3>5. QED BY <3>3, <3>4
  <2>3. QED BY <2>1, <2>2 DEF Next
<1>3. QED BY <1>1, <1>2 DEF EvictionLeft

\* The eviction loop of TTLRUCache.set (prompt_cache.py:80) gives way to no
\* thread but one that stores: whoever else reads, drops or evicts, each of its
\* turns leaves fewer to come, and everything before it happens once.
THEOREM CallsRunDown == Spec => [][CallsAdvance]_vars
<1>1. IInv /\ [Next]_vars => [CallsAdvance]_vars
  BY AdvanceStep
<1>2. QED BY <1>1, Invariance, PTL DEF Spec

===============================================================================
