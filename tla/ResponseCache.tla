--------------------------- MODULE ResponseCache ---------------------------
(***************************************************************************)
(* The in-memory cache of api/response_cache.py.  It is a plain dict used  *)
(* from one event loop and never awaited on, so each method is one step.   *)
(* No route uses it yet: the methods are called here in any order.         *)
(***************************************************************************)
EXTENDS Integers, FiniteSets

CONSTANTS
    CacheKeys,      \* <<prefix, params>>
    CacheTtl,       \* ttl_seconds
    MaxEntries,     \* max_entries
    MaxClock        \* bound: how far the monotonic clock goes

ASSUME CacheAssumption == MaxEntries \in Nat \ {0} /\ CacheTtl \in Nat /\ MaxClock \in Nat

VARIABLES
    clock,      \* time.monotonic
    stamp       \* _cache: the keys in it and when each was set

cacheVars == <<clock, stamp>>

\* A key's timestamp in the dict; its value is left out.
Cached == DOMAIN stamp
IsExpired(k) == clock - stamp[k] > CacheTtl

Without(s, K) == [k \in DOMAIN s \ K |-> s[k]]

EvictExpired(s) == Without(s, {k \in DOMAIN s : clock - s[k] > CacheTtl})

\* min() over the dict: one of those with the least timestamp.
OldestEntries(s) == {k \in DOMAIN s : \A j \in DOMAIN s : s[k] <= s[j]}

\* An expired entry is dropped when it is looked at; otherwise get changes nothing
\* of the cache.
Get(k) ==
    /\ k \in Cached
    /\ stamp' = IF IsExpired(k) THEN Without(stamp, {k}) ELSE stamp
    /\ UNCHANGED clock

\* Room is made before looking whether the key is there already, so replacing an
\* entry of a full cache costs another one.
Set(k) ==
    LET live == IF Cardinality(Cached) >= MaxEntries THEN EvictExpired(stamp) ELSE stamp
    IN  /\ \E out \in IF Cardinality(DOMAIN live) >= MaxEntries
                      THEN {{x} : x \in OldestEntries(live)} ELSE {{}} :
             LET kept == Without(live, out)
             IN  stamp' = [x \in DOMAIN kept \cup {k} |-> IF x = k THEN clock ELSE kept[x]]
        /\ UNCHANGED clock

Invalidate(prefixes) ==
    /\ stamp' = Without(stamp, {k \in Cached : k[1] \in prefixes})
    /\ UNCHANGED clock

CacheTick ==
    /\ clock < MaxClock
    /\ clock' = clock + 1
    /\ UNCHANGED stamp

CacheInit == clock = 0 /\ stamp = [k \in {} |-> 0]

CachePrefixes == {k[1] : k \in CacheKeys}

CacheNext ==
    \/ \E k \in CacheKeys : Get(k) \/ Set(k)
    \/ \E p \in CachePrefixes : Invalidate({p})
    \/ Invalidate(CachePrefixes)
    \/ CacheTick

CacheSpec == CacheInit /\ [][CacheNext]_cacheVars

CacheTypeOK ==
    /\ clock \in 0..MaxClock
    /\ Cached \subseteq CacheKeys
    /\ \A k \in Cached : stamp[k] \in 0..clock
=============================================================================
