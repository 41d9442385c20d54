----------------------------- MODULE Geocoding -----------------------------
(***************************************************************************)
(* GeocodingService and OSMGeocodingService: requests that resolve an id,  *)
(* search for a name, or look up the place of an image, all of which call  *)
(* one remote service, not more often than a rate limit allows.            *)
(*                                                                         *)
(* Times are ages: how long ago something was, cut off when they are older *)
(* than the rate limit looks back.  So time goes on for ever in a finite   *)
(* number of states.  What the remote service knows is left open.          *)
(***************************************************************************)
EXTENDS Integers

CONSTANTS
    Callers,     \* requests and jobs
    Locations,   \* ids of locations
    Names,       \* names that are searched for
    Reverse,     \* a lookup by latitude and longitude
    Second       \* the 1000 ms of RateLimit

ASSUME SecondIsPositive == Second \in Nat \ {0}
ASSUME QueriesDiffer ==
    /\ Locations \cap Names = {}
    /\ Reverse \notin Locations \cup Names

VARIABLES
    pc, query,            \* where a caller is, and what it asks
    lookupLocationCache,
    locationSearchCache,
    cacheLocked,          \* lookupCacheLock
    callLocked,           \* lastCallLock
    lastCall,             \* the age of lastCall
    taken,                \* the age of the local "now" of the caller that sleeps
    timer,                \* what is left of its timer
    lastSent, beforeLastSent,  \* history: ages of the last two calls of the service
    unanswered            \* history: has a lookup ended without a location

caches == <<lookupLocationCache, locationSearchCache>>
limit == <<callLocked, lastCall, taken, timer, lastSent, beforeLastSent>>
vars == <<pc, query, caches, cacheLocked, limit, unanswered>>

Queries == Locations \cup Names \cup {Reverse}
Long == Second + 1
Ages == 0..Long
Older(age) == IF age < Long THEN age + 1 ELSE Long
LookingUp(c) == query[c] \in Locations /\ pc[c] \in {"lockCall", "sleep", "request"}

Init ==
    /\ pc = [c \in Callers |-> "idle"] /\ query = [c \in Callers |-> Reverse]
    /\ lookupLocationCache = {} /\ locationSearchCache = {}
    /\ cacheLocked = FALSE /\ callLocked = FALSE
    /\ lastCall = Long /\ taken = 0 /\ timer = 0
    /\ lastSent = Long /\ beforeLastSent = Long
    /\ unanswered = FALSE

(***************************************************************************)
(* GeocodingService.                                                       *)
(***************************************************************************)
ResolveLocation(c, l) ==
    /\ pc[c] = "idle"
    /\ pc' = [pc EXCEPT ![c] = "lockCache"]
    /\ query' = [query EXCEPT ![c] = l]
    /\ UNCHANGED <<caches, cacheLocked, limit, unanswered>>

\* What a caller asked is forgotten with its locals.
Return(c) ==
    /\ pc' = [pc EXCEPT ![c] = "idle"]
    /\ query' = [query EXCEPT ![c] = Reverse]

\* Mutant: the lock of the cache is kept when the location was in it.
LockCache_KeepsLock(c) ==
    /\ pc[c] = "lockCache"
    /\ ~ cacheLocked
    /\ cacheLocked' = TRUE
    /\ IF query[c] \in lookupLocationCache
       THEN Return(c)
       ELSE pc' = [pc EXCEPT ![c] = "lockCall"] /\ query' = query
    /\ UNCHANGED <<caches, limit, unanswered>>

\* A cached location is returned, and the lock released, at once.
LockCache(c) ==
    /\ pc[c] = "lockCache"
    /\ ~ cacheLocked
    /\ IF query[c] \in lookupLocationCache
       THEN Return(c) /\ cacheLocked' = FALSE
       ELSE pc' = [pc EXCEPT ![c] = "lockCall"] /\ cacheLocked' = TRUE /\ query' = query
    /\ UNCHANGED <<caches, limit, unanswered>>

\* A cached search is answered without waiting.
SearchForLocation(c, n) ==
    /\ pc[c] = "idle"
    /\ n \notin locationSearchCache
    /\ pc' = [pc EXCEPT ![c] = "lockCall"]
    /\ query' = [query EXCEPT ![c] = n]
    /\ UNCHANGED <<caches, cacheLocked, limit, unanswered>>

ReverseLookup(c) ==
    /\ pc[c] = "idle"
    /\ pc' = [pc EXCEPT ![c] = "lockCall"]
    /\ query' = [query EXCEPT ![c] = Reverse]
    /\ UNCHANGED <<caches, cacheLocked, limit, unanswered>>

\* Mutant: the lock of the cache is not released.
Found_KeepsLock(c) ==
    /\ pc[c] = "request"
    /\ Return(c)
    /\ lookupLocationCache' = lookupLocationCache \cup ({query[c]} \cap Locations)
    /\ locationSearchCache' = locationSearchCache \cup ({query[c]} \cap Names)
    /\ UNCHANGED <<cacheLocked, limit, unanswered>>

\* The service has answered; a type that is not mapped is cached as null.
Found(c) ==
    /\ pc[c] = "request"
    /\ Return(c)
    /\ lookupLocationCache' = lookupLocationCache \cup ({query[c]} \cap Locations)
    /\ locationSearchCache' = locationSearchCache \cup ({query[c]} \cap Names)
    /\ cacheLocked' = (cacheLocked /\ query[c] \notin Locations)
    /\ UNCHANGED <<limit, unanswered>>

\* An id that the service does not know: the early return leaves the lock locked.
NotFound(c) ==
    /\ pc[c] = "request"
    /\ query[c] \in Locations
    /\ Return(c)
    /\ unanswered' = TRUE
    /\ UNCHANGED <<caches, cacheLocked, limit>>

\* SendRequest throws, or the status is not 200; the exception passes the release.
Fails(c) ==
    /\ pc[c] = "request"
    /\ Return(c)
    /\ unanswered' = (unanswered \/ query[c] \in Locations)
    /\ UNCHANGED <<caches, cacheLocked, limit>>

(***************************************************************************)
(* RateLimit, and the call that follows it.                                *)
(***************************************************************************)
Send(c) ==
    /\ pc' = [pc EXCEPT ![c] = "request"]
    /\ lastSent' = 0
    /\ beforeLastSent' = lastSent

PassAtOnce(c) ==
    /\ pc[c] = "lockCall"
    /\ ~ callLocked
    /\ lastCall > Second
    /\ lastCall' = 0
    /\ Send(c)
    /\ UNCHANGED <<query, caches, cacheLocked, callLocked, taken, timer, unanswered>>

Sleep(c) ==
    /\ pc[c] = "lockCall"
    /\ ~ callLocked
    /\ lastCall <= Second
    /\ callLocked' = TRUE
    /\ taken' = 0
    /\ timer' = Second - lastCall
    /\ pc' = [pc EXCEPT ![c] = "sleep"]
    /\ UNCHANGED <<query, caches, cacheLocked, lastCall, lastSent, beforeLastSent, unanswered>>

\* Mutant: the time of a call that had to wait is not kept.
Wake_ForgetsTime(c) ==
    /\ pc[c] = "sleep"
    /\ timer = 0
    /\ callLocked' = FALSE
    /\ taken' = 0
    /\ Send(c)
    /\ UNCHANGED <<query, caches, cacheLocked, lastCall, timer, unanswered>>

\* lastCall becomes the time before the sleep.
Wake(c) ==
    /\ pc[c] = "sleep"
    /\ timer = 0
    /\ lastCall' = taken
    /\ callLocked' = FALSE
    /\ taken' = 0
    /\ Send(c)
    /\ UNCHANGED <<query, caches, cacheLocked, timer, unanswered>>

\* Timers may be late.
Tick ==
    /\ lastCall' = Older(lastCall)
    /\ taken' = IF callLocked THEN Older(taken) ELSE taken
    /\ timer' = IF timer > 0 THEN timer - 1 ELSE 0
    /\ lastSent' = Older(lastSent) /\ beforeLastSent' = Older(beforeLastSent)
    /\ UNCHANGED <<pc, query, caches, cacheLocked, callLocked, unanswered>>

RateLimit(c) == PassAtOnce(c) \/ Sleep(c)
Ends(c) == Found(c) \/ NotFound(c) \/ Fails(c)
Ask(c) ==
    \/ \E l \in Locations : ResolveLocation(c, l)
    \/ \E n \in Names : SearchForLocation(c, n)
    \/ ReverseLookup(c)

Next ==
    \/ \E c \in Callers : Ask(c) \/ LockCache(c) \/ RateLimit(c) \/ Wake(c) \/ Ends(c)
    \/ Tick

Spec == Init /\ [][Next]_vars

\* Time passes, calls end, timers expire, and a lock that becomes free again and
\* again is once given to each that waits.
FairSpec ==
    /\ Spec
    /\ WF_vars(Tick)
    /\ \A c \in Callers :
         /\ SF_vars(LockCache(c)) /\ SF_vars(RateLimit(c))
         /\ WF_vars(Wake(c)) /\ WF_vars(Ends(c))

(***************************************************************************)
(* Properties.                                                             *)
(***************************************************************************)
\* The type invariant: with lastCallLock locked exactly while somebody sleeps.
GeoTypeOK ==
    /\ pc \in [Callers -> {"idle", "lockCache", "lockCall", "sleep", "request"}]
    /\ query \in [Callers -> Queries]
    /\ lookupLocationCache \subseteq Locations /\ locationSearchCache \subseteq Names
    /\ cacheLocked \in BOOLEAN /\ callLocked \in BOOLEAN /\ unanswered \in BOOLEAN
    /\ callLocked <=> \E c \in Callers : pc[c] = "sleep"
    /\ {lastCall, taken, timer, lastSent, beforeLastSent} \subseteq Ages

\* lookupCacheLock does its work: one lookup of an id at a time, and none of an id
\* that is in the cache.
OneLookup ==
    \A c \in Callers : LookingUp(c) =>
        /\ query[c] \notin lookupLocationCache
        /\ \A d \in Callers : LookingUp(d) => d = c

\* The lock of the cache is locked during a lookup, and for ever after one that
\* ended without a location: then no id is resolved any more, cached or not.
CacheLockExplained == cacheLocked <=> (unanswered \/ \E c \in Callers : LookingUp(c))

\* What the rate limit guarantees: of three calls the last comes at least a second
\* after the first.  Two calls may be closer.
Sends == \E c \in Callers : pc[c] # "request" /\ pc'[c] = "request"
ThreeCallsSpanASecond == [][Sends => beforeLastSent >= Second]_vars

\* Who resolves an id is answered, unless a lookup ends without a location.
ResolversAreAnswered ==
    \A c \in Callers : (pc[c] = "lockCache") ~> (pc[c] = "idle" \/ unanswered)

=============================================================================
