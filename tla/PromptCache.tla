----------------------------- MODULE PromptCache ------------------------------
(***************************************************************************)
(* The response cache of deterministic model calls (TTLRUCache behind      *)
(* chat_completions_create_cached) as the request threads of one worker    *)
(* share it.  There is no lock: a call on the OrderedDict is atomic, and   *)
(* another thread may run once it has returned.  An assignment is not a    *)
(* call and is one step with the call after it.                            *)
(*                                                                         *)
(* Time is abstracted to which entries have outlived ttl_seconds.          *)
(***************************************************************************)
EXTENDS Integers, FiniteSets, SequencesExt

CONSTANTS
    Threads,        \* request threads of the worker
    Keys,           \* cache keys: a namespace and the arguments of a call
    MaxEntries      \* max_entries

ASSUME CacheAssumption ==
    /\ MaxEntries \in Nat \ {0}
    /\ IsFiniteSet(Threads)

VARIABLES
    lru,            \* the keys of _data, least recently used first
    expired,        \* the keys whose entry has outlived its lifetime
    pc,             \* where each thread is
    key,            \* the key of its call
    late            \* whether the entry had expired when the thread read the clock

vars == <<lru, expired, pc, key, late>>

Places == {"idle", "get", "touch", "drop", "call", "assign", "check", "pop", "raised"}

Init ==
    /\ lru = <<>>
    /\ expired = {}
    /\ pc = [t \in Threads |-> "idle"]
    /\ key \in [Threads -> Keys]
    /\ late = [t \in Threads |-> FALSE]

-------------------------------------------------------------------------------

Cached == ToSet(lru)

Goto(t, place) == pc' = [pc EXCEPT ![t] = place]

\* The position of a cached key, and the order without it.
Position(k) == CHOOSE i \in DOMAIN lru : lru[i] = k

Without(k) == RemoveAt(lru, Position(k))

\* A cached call begins: get() reads the clock.
Start(t) ==
    /\ pc[t] = "idle"
    /\ \E k \in Keys :
        /\ key' = [key EXCEPT ![t] = k]
        /\ late' = [late EXCEPT ![t] = k \in expired]
    /\ Goto(t, "get")
    /\ UNCHANGED <<lru, expired>>

\* The entry is absent, expired or usable.
Lookup(t) ==
    /\ pc[t] = "get"
    /\ \/ key[t] \notin Cached /\ Goto(t, "call")
       \/ key[t] \in Cached /\ late[t] /\ Goto(t, "drop")
       \/ key[t] \in Cached /\ ~late[t] /\ Goto(t, "touch")
    /\ UNCHANGED <<lru, expired, key, late>>

\* An expired entry is dropped, whatever another thread has put in its place.
Drop(t) ==
    /\ pc[t] = "drop"
    /\ lru' = IF key[t] \in Cached THEN Without(key[t]) ELSE lru
    /\ expired' = expired \ {key[t]}
    /\ Goto(t, "call")
    /\ UNCHANGED <<key, late>>

\* Mutant: a hit renews the lifetime of the entry.
Touch_Renews(t) ==
    /\ pc[t] = "touch"
    /\ IF key[t] \in Cached
       THEN lru' = Append(Without(key[t]), key[t]) /\ Goto(t, "idle")
       ELSE lru' = lru /\ Goto(t, "raised")
    /\ expired' = expired \ {key[t]}
    /\ UNCHANGED <<key, late>>

\* A hit becomes the most recently used entry.  move_to_end raises KeyError
\* when another thread has removed the entry since the lookup.
Touch(t) ==
    /\ pc[t] = "touch"
    /\ IF key[t] \in Cached
       THEN lru' = Append(Without(key[t]), key[t]) /\ Goto(t, "idle")
       ELSE lru' = lru /\ Goto(t, "raised")
    /\ UNCHANGED <<expired, key, late>>

\* The model answers, or the call fails and nothing is stored.
ModelCall(t) ==
    /\ pc[t] = "call"
    /\ \E place \in {"assign", "idle"} : Goto(t, place)
    /\ UNCHANGED <<lru, expired, key, late>>

\* Mutant: a key is entered a second time.
Assign_Again(t) ==
    /\ pc[t] = "assign"
    /\ lru' = Append(lru, key[t])
    /\ expired' = expired \ {key[t]}
    /\ late' = [u \in Threads |-> late[u] /\ key[u] # key[t]]
    /\ Goto(t, "check")
    /\ UNCHANGED key

\* set() stores the answer with a new lifetime as the most recently used
\* entry.  No thread finds it expired by the clock it has read.
Assign(t) ==
    /\ pc[t] = "assign"
    /\ lru' = Append(IF key[t] \in Cached THEN Without(key[t]) ELSE lru, key[t])
    /\ expired' = expired \ {key[t]}
    /\ late' = [u \in Threads |-> late[u] /\ key[u] # key[t]]
    /\ Goto(t, "check")
    /\ UNCHANGED key

\* Mutant: the cache may hold one entry too many.
Check_OffByOne(t) ==
    /\ pc[t] = "check"
    /\ Goto(t, IF Len(lru) > MaxEntries + 1 THEN "pop" ELSE "idle")
    /\ UNCHANGED <<lru, expired, key, late>>

Check(t) ==
    /\ pc[t] = "check"
    /\ Goto(t, IF Len(lru) > MaxEntries THEN "pop" ELSE "idle")
    /\ UNCHANGED <<lru, expired, key, late>>

\* Mutant: only an entry that has expired is evicted.
Evict_ExpiredOnly(t) ==
    /\ pc[t] = "pop"
    /\ IF lru # <<>> /\ Head(lru) \in expired
       THEN lru' = Tail(lru) /\ expired' = expired \ {Head(lru)}
       ELSE UNCHANGED <<lru, expired>>
    /\ Goto(t, "check")
    /\ UNCHANGED <<key, late>>

\* popitem(last=False) on what is the oldest entry by now.
Evict(t) ==
    /\ pc[t] = "pop"
    /\ IF lru = <<>>
       THEN Goto(t, "raised") /\ UNCHANGED <<lru, expired>>
       ELSE /\ Goto(t, "check")
            /\ lru' = Tail(lru)
            /\ expired' = expired \ {Head(lru)}
    /\ UNCHANGED <<key, late>>

\* The KeyError ends the call; what the caller makes of it is its own affair.
Fail(t) ==
    /\ pc[t] = "raised"
    /\ Goto(t, "idle")
    /\ UNCHANGED <<lru, expired, key, late>>

\* Time passes: an entry outlives its lifetime.
Expire ==
    /\ \E k \in Cached \ expired : expired' = expired \cup {k}
    /\ UNCHANGED <<lru, pc, key, late>>

Step(t) ==
    \/ Lookup(t) \/ Drop(t) \/ Touch(t) \/ ModelCall(t)
    \/ Assign(t) \/ Check(t) \/ Evict(t) \/ Fail(t)

Next == Expire \/ \E t \in Threads : Start(t) \/ Step(t)

Spec == Init /\ [][Next]_vars

\* A thread in a call goes on; the model client has a timeout.
FairSpec == Spec /\ \A t \in Threads : WF_vars(Step(t))

-------------------------------------------------------------------------------

\* No key is cached twice, only cached entries can have expired, and each
\* variable has its type.
TypeOK ==
    /\ lru \in Seq(Keys) /\ IsInjective(lru)
    /\ expired \subseteq Cached
    /\ pc \in [Threads -> Places]
    /\ key \in [Threads -> Keys]
    /\ late \in [Threads -> BOOLEAN]

\* Threads in set() past the assignment, which have yet to find the cache
\* small enough.
Storing == {t \in Threads : pc[t] \in {"check", "pop"}}

\* Without a lock max_entries is exceeded, but by no more than the threads
\* inside set(): once the last of them leaves, the bound holds again, whoever
\* evicted what in between (the eviction loop of TTLRUCache.set).
SizeBounded == Len(lru) <= MaxEntries + Cardinality(Storing)

\* Reading an entry, moving it and evicting others never prolongs it: an
\* expired answer is usable again only after a thread has called the model
\* and stored its answer.  An answer that is no use is gone after ttl_seconds
\* however often it is asked for.
LifetimeNotRenewed ==
    [][\A k \in expired :
         k \in Cached' => k \in expired' \/ \E t \in Threads : pc[t] = "assign" /\ key[t] = k]_vars

\* The eviction loop ends and so does the call, unless another thread keeps
\* storing answers.
CallsEnd ==
    \A t \in Threads :
        pc[t] # "idle" ~> (pc[t] = "idle" \/ \E u \in Threads \ {t} : pc[u] = "assign")

\* "worst case is duplicate in-flight calls" (prompt_cache.py:46): sharing the
\* cache without a lock makes no call fail.
NeverRaises == \A t \in Threads : pc[t] # "raised"

===============================================================================
