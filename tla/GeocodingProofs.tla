-------------------------- MODULE GeocodingProofs --------------------------
(***************************************************************************)
(* Theorems about Geocoding: what the rate limit guarantees, and what the  *)
(* lock of the lookup cache does.                                          *)
(***************************************************************************)
EXTENDS Geocoding, TLAPS

\* The lock of the rate limit: one caller sleeps at a time.
OneSleeper == \A c, d \in Callers : pc[c] = "sleep" /\ pc[d] = "sleep" => c = d

\* lastCall was read after the last call but one, by the caller that made the last one; a
\* sleeper has read its time after the last call, and wakes a second after lastCall.
SpacingInv ==
    /\ lastCall <= beforeLastSent
    /\ callLocked => taken <= lastSent /\ lastCall + timer >= Second

\* Only ids wait for the cache, and none is looked up once a lookup has failed.
LookupInv ==
    /\ \A c \in Callers : pc[c] = "lockCache" => query[c] \in Locations
    /\ unanswered => \A c \in Callers : ~ LookingUp(c)

GeoInv ==
    GeoTypeOK /\ OneSleeper /\ SpacingInv /\ LookupInv /\ OneLookup /\ CacheLockExplained

LEMMA AgesAreNumbers ==
    /\ Second \in Nat \ {0} /\ Ages \subseteq Nat /\ 0 \in Ages /\ Long \in Ages /\ Second \in Ages
    /\ \A a \in Ages : Older(a) \in Ages /\ Older(a) >= a
    /\ \A a, b \in Ages : a <= b => Older(a) <= Older(b)
    /\ \A a, b \in Ages : a + b >= Second /\ b > 0 => Older(a) + (b - 1) >= Second
    /\ \A a \in Ages : a >= Second => Older(a) >= Second
    /\ \A a \in Ages : a > 0 => a - 1 \in Ages
    /\ \A a \in Ages : a <= Second => Second - a \in Ages /\ a + (Second - a) = Second
    /\ \A a \in Ages : 0 <= a /\ a + 0 = a
  BY SecondIsPositive DEF Ages, Long, Older

LEMMA InitInv == Init => GeoInv
<1> SUFFICES ASSUME Init PROVE GeoInv
  OBVIOUS
<1> USE AgesAreNumbers DEF Init
<1>1. GeoTypeOK
  BY DEF GeoTypeOK, Queries
<1>2. OneSleeper /\ SpacingInv
  BY DEF OneSleeper, SpacingInv
<1>3. LookupInv /\ OneLookup /\ CacheLockExplained
  BY DEF LookupInv, OneLookup, CacheLockExplained, LookingUp
<1> QED
  BY <1>1, <1>2, <1>3 DEF GeoInv

(***************************************************************************)
(* The rate limit.                                                         *)
(***************************************************************************)
LEMMA TypeStep == ASSUME GeoTypeOK, OneSleeper, Next PROVE GeoTypeOK' /\ OneSleeper'
<1> USE AgesAreNumbers DEF GeoTypeOK, OneSleeper, caches, limit, Return, Send, Queries
<1>1. ASSUME NEW c \in Callers, Ask(c) PROVE GeoTypeOK' /\ OneSleeper'
  BY <1>1 DEF Ask, ResolveLocation, SearchForLocation, ReverseLookup
<1>2. ASSUME NEW c \in Callers, LockCache(c) PROVE GeoTypeOK' /\ OneSleeper'
  BY <1>2 DEF LockCache
<1>3. ASSUME NEW c \in Callers, PassAtOnce(c) PROVE GeoTypeOK' /\ OneSleeper'
  BY <1>3 DEF PassAtOnce
<1>4. ASSUME NEW c \in Callers, Sleep(c) PROVE GeoTypeOK' /\ OneSleeper'
  BY <1>4 DEF Sleep
<1>5. ASSUME NEW c \in Callers, Wake(c) PROVE GeoTypeOK' /\ OneSleeper'
  BY <1>5 DEF Wake
<1>6. ASSUME NEW c \in Callers, Ends(c) PROVE GeoTypeOK' /\ OneSleeper'
  <2>1. /\ pc[c] = "request" /\ pc' = [pc EXCEPT ![c] = "idle"]
        /\ query' = [query EXCEPT ![c] = Reverse] /\ UNCHANGED limit
    BY <1>6 DEF Ends, Found, NotFound, Fails
  <2>2. /\ pc' \in [Callers -> {"idle", "lockCache", "lockCall", "sleep", "request"}]
        /\ query' \in [Callers -> Queries]
        /\ \A d \in Callers : pc'[d] = "sleep" <=> pc[d] = "sleep"
    BY <2>1
  <2>3. lookupLocationCache' \subseteq Locations /\ locationSearchCache' \subseteq Names
    BY <1>6 DEF Ends, Found, NotFound, Fails
  <2>4. cacheLocked' \in BOOLEAN /\ unanswered' \in BOOLEAN
    BY <1>6 DEF Ends, Found, NotFound, Fails
  <2> QED
    BY <2>1, <2>2, <2>3, <2>4
<1>7. CASE Tick
  <2>1. timer' \in Ages
    BY <1>7 DEF Tick, Ages, Long
  <2>2. {lastCall', taken', lastSent', beforeLastSent'} \subseteq Ages
    BY <1>7, ZenonT(60) DEF Tick
  <2>3. UNCHANGED <<pc, query, caches, cacheLocked, callLocked, unanswered>>
    BY <1>7 DEF Tick
  <2> QED
    BY <2>1, <2>2, <2>3
<1> QED
  BY <1>1, <1>2, <1>3, <1>4, <1>5, <1>6, <1>7 DEF Next, RateLimit

LEMMA SpacingStep == ASSUME GeoTypeOK, SpacingInv, Next PROVE SpacingInv'
<1> USE AgesAreNumbers DEF SpacingInv, limit
<1>t. {lastCall, taken, timer, lastSent, beforeLastSent} \subseteq Ages
  BY DEF GeoTypeOK
<1>u. UNCHANGED limit => SpacingInv'
  OBVIOUS
<1>1. ASSUME NEW c \in Callers, Ask(c) \/ LockCache(c) \/ Ends(c) PROVE SpacingInv'
  BY <1>1, <1>u DEF Ask, ResolveLocation, SearchForLocation, ReverseLookup, LockCache,
                    Ends, Found, NotFound, Fails
<1>2. ASSUME NEW c \in Callers, PassAtOnce(c) PROVE SpacingInv'
  BY <1>2, <1>t DEF PassAtOnce, Send
<1>3. ASSUME NEW c \in Callers, Sleep(c) PROVE SpacingInv'
  <2>1. /\ lastCall' = lastCall /\ beforeLastSent' = beforeLastSent /\ lastSent' = lastSent
        /\ taken' = 0 /\ timer' = Second - lastCall
    BY <1>3 DEF Sleep
  <2>2. taken' <= lastSent' /\ lastCall' + timer' >= Second
    BY <2>1, <1>t DEF Ages, Long
  <2> QED
    BY <2>1, <2>2
<1>4. ASSUME NEW c \in Callers, Wake(c) PROVE SpacingInv'
  <2>1. callLocked
    BY <1>4 DEF Wake, GeoTypeOK
  <2> QED
    BY <1>4, <2>1, <1>t DEF Wake, Send
<1>5. CASE Tick
  <2>1. lastCall' <= beforeLastSent'
    BY <1>5, <1>t DEF Tick
  <2>2. ASSUME callLocked' PROVE taken' <= lastSent'
    BY <1>5, <2>2, <1>t DEF Tick
  <2>3. ASSUME callLocked' PROVE lastCall' + timer' >= Second
    <3>1. lastCall' = Older(lastCall) /\ lastCall + timer >= Second
      BY <1>5, <2>3 DEF Tick
    <3>2. CASE timer > 0
      BY <1>5, <3>1, <3>2, <1>t DEF Tick
    <3>3. CASE ~ (timer > 0)
      <4>1. timer = 0 /\ timer' = 0
        BY <1>5, <3>3, <1>t DEF Tick, Ages, Long
      <4>2. lastCall >= Second /\ Older(lastCall) \in Nat
        BY <3>1, <4>1, <1>t
      <4> QED
        BY <3>1, <4>1, <4>2, <1>t
    <3> QED
      BY <3>2, <3>3
  <2> QED
    BY <2>1, <2>2, <2>3
<1> QED
  BY <1>1, <1>2, <1>3, <1>4, <1>5 DEF Next, RateLimit

(***************************************************************************)
(* The lock of the cache.                                                  *)
(***************************************************************************)
LEMMA LookupStep ==
    ASSUME GeoInv, Next, GeoTypeOK'
    PROVE  LookupInv' /\ OneLookup' /\ CacheLockExplained'
<1> DEFINE Goal == LookupInv' /\ OneLookup' /\ CacheLockExplained'
<1> USE QueriesDiffer DEF LookupInv, OneLookup, CacheLockExplained, LookingUp, caches, limit
<1>0. GeoTypeOK /\ LookupInv /\ OneLookup /\ CacheLockExplained
  BY DEF GeoInv
<1>t. /\ pc \in [Callers -> {"idle", "lockCache", "lockCall", "sleep", "request"}]
      /\ query \in [Callers -> Queries]
  BY <1>0 DEF GeoTypeOK
<1>1. ASSUME NEW c \in Callers, Ask(c) PROVE Goal
  <2>1. \A d \in Callers : d # c => pc'[d] = pc[d] /\ query'[d] = query[d]
    BY <1>1, <1>t DEF Ask, ResolveLocation, SearchForLocation, ReverseLookup
  <2>2. /\ pc[c] = "idle" /\ pc'[c] \in {"lockCache", "lockCall"}
        /\ pc'[c] = "lockCache" => query'[c] \in Locations
        /\ pc'[c] = "lockCall" => query'[c] \notin Locations
        /\ UNCHANGED <<caches, cacheLocked, unanswered>>
    BY <1>1, <1>t DEF Ask, ResolveLocation, SearchForLocation, ReverseLookup
  <2> QED
    BY <1>0, <2>1, <2>2
<1>2. ASSUME NEW c \in Callers, LockCache(c) PROVE Goal
  <2>1. \A d \in Callers : d # c => pc'[d] = pc[d] /\ query'[d] = query[d]
    BY <1>2, <1>t DEF LockCache, Return
  <2>2. query[c] \in Locations /\ ~ unanswered /\ \A d \in Callers : ~ LookingUp(d)
    BY <1>2, <1>0 DEF LockCache
  <2>3. UNCHANGED <<caches, unanswered>>
    BY <1>2 DEF LockCache
  <2>4. CASE query[c] \in lookupLocationCache
    <3>1. pc'[c] = "idle" /\ ~ cacheLocked'
      BY <1>2, <2>4, <1>t DEF LockCache, Return
    <3> QED
      BY <1>0, <2>1, <2>2, <2>3, <3>1
  <2>5. CASE query[c] \notin lookupLocationCache
    <3>1. pc'[c] = "lockCall" /\ query' = query /\ cacheLocked'
      BY <1>2, <2>5, <1>t DEF LockCache
    <3> QED
      BY <1>0, <2>1, <2>2, <2>3, <2>5, <3>1
  <2> QED
    BY <2>4, <2>5
<1>3. ASSUME NEW c \in Callers, PassAtOnce(c) \/ Sleep(c) \/ Wake(c) PROVE Goal
  <2>1. /\ \A d \in Callers : LookingUp(d)' <=> LookingUp(d)
        /\ \A d \in Callers : pc'[d] = "lockCache" => pc[d] = "lockCache"
        /\ UNCHANGED <<query, caches, cacheLocked, unanswered>>
    BY <1>3, <1>t DEF PassAtOnce, Sleep, Wake, Send
  <2> QED
    BY <1>0, <2>1
<1>4. ASSUME NEW c \in Callers, Ends(c) PROVE Goal
  <2>1. \A d \in Callers : d # c => pc'[d] = pc[d] /\ query'[d] = query[d]
    BY <1>4, <1>t DEF Ends, Found, NotFound, Fails, Return
  <2>2. pc[c] = "request" /\ pc'[c] = "idle"
    BY <1>4, <1>t DEF Ends, Found, NotFound, Fails, Return
  <2>3. CASE query[c] \in Locations
    <3>1. cacheLocked /\ ~ unanswered /\ \A d \in Callers : d # c => ~ LookingUp(d)
      BY <1>0, <2>2, <2>3
    <3>2. \A d \in Callers : ~ LookingUp(d)'
      BY <2>1, <2>2, <3>1
    <3>3. cacheLocked' <=> unanswered'
      <4>1. CASE Found(c)
        BY <2>3, <3>1, <4>1 DEF Found
      <4>2. CASE NotFound(c) \/ Fails(c)
        BY <2>3, <3>1, <4>2 DEF NotFound, Fails
      <4> QED
        BY <1>4, <4>1, <4>2 DEF Ends
    <3> QED
      BY <1>0, <2>1, <2>2, <3>2, <3>3
  <2>4. CASE query[c] \notin Locations
    <3>1. /\ cacheLocked' <=> cacheLocked
          /\ unanswered' <=> unanswered
          /\ lookupLocationCache' = lookupLocationCache
      <4>1. CASE Found(c)
        BY <2>4, <4>1 DEF Found
      <4>2. CASE Fails(c)
        BY <2>4, <4>2 DEF Fails
      <4> QED
        BY <1>4, <2>4, <4>1, <4>2 DEF Ends, NotFound
    <3>2. \A d \in Callers : LookingUp(d)' <=> LookingUp(d)
      BY <2>1, <2>2, <2>4
    <3> QED
      BY <1>0, <2>1, <2>2, <3>1, <3>2
  <2> QED
    BY <2>3, <2>4
<1>5. CASE Tick
  BY <1>5, <1>0 DEF Tick
<1> QED
  BY <1>1, <1>2, <1>3, <1>4, <1>5 DEF Next, RateLimit

(***************************************************************************)
(* The theorems.                                                           *)
(***************************************************************************)
\* The inductive invariant, of which the theorems below are consequences.
THEOREM GeoInvariant == Spec => []GeoInv
<1>1. GeoInv /\ [Next]_vars => GeoInv'
  <2> SUFFICES ASSUME GeoInv, [Next]_vars PROVE GeoInv'
    OBVIOUS
  <2>1. CASE Next
    <3>1. GeoTypeOK' /\ OneSleeper'
      BY <2>1, TypeStep DEF GeoInv
    <3>2. SpacingInv'
      BY <2>1, SpacingStep DEF GeoInv
    <3>3. LookupInv' /\ OneLookup' /\ CacheLockExplained'
      BY <2>1, <3>1, LookupStep
    <3> QED
      BY <3>1, <3>2, <3>3 DEF GeoInv
  <2>2. CASE UNCHANGED vars
    BY <2>2 DEF vars, caches, limit, GeoInv, GeoTypeOK, OneSleeper, SpacingInv, LookupInv,
                OneLookup, CacheLockExplained, LookingUp
  <2> QED
    BY <2>1, <2>2
<1> QED
  BY <1>1, InitInv, PTL DEF Spec

\* The types, and that lastCallLock is locked exactly while a caller sleeps.
THEOREM GeoTypeCorrect == Spec => []GeoTypeOK
<1>1. GeoInv => GeoTypeOK
  BY DEF GeoInv
<1> QED
  BY <1>1, GeoInvariant, PTL

\* RateLimit: of any three calls of the service, the last is at least a second after the
\* first, for any number of callers and however late the timers are.
THEOREM RateIsLimited == Spec => ThreeCallsSpanASecond
<1>1. GeoInv /\ [Next]_vars => [Sends => beforeLastSent >= Second]_vars
  <2> SUFFICES ASSUME GeoInv, Next, Sends PROVE beforeLastSent >= Second
    BY DEF Sends
  <2> USE AgesAreNumbers DEF caches, limit
  <2>0. GeoTypeOK /\ SpacingInv /\ {lastCall, timer, beforeLastSent} \subseteq Nat
    BY DEF GeoInv, GeoTypeOK
  <2>1. PICK c \in Callers : pc[c] # "request" /\ pc'[c] = "request"
    BY DEF Sends
  <2>2. PICK d \in Callers : PassAtOnce(d) \/ Wake(d)
    <3>1. ASSUME NEW d \in Callers,
                 Ask(d) \/ LockCache(d) \/ Sleep(d) \/ Ends(d)
          PROVE  FALSE
      BY <2>0, <2>1, <3>1 DEF GeoTypeOK, Ask, ResolveLocation, SearchForLocation, ReverseLookup,
                              LockCache, Sleep, Ends, Found, NotFound, Fails, Return
    <3>2. CASE Tick
      BY <2>1, <3>2 DEF Tick
    <3> QED
      BY <3>1, <3>2 DEF Next, RateLimit
  <2>3. CASE PassAtOnce(d)
    BY <2>0, <2>3 DEF PassAtOnce, SpacingInv
  <2>4. CASE Wake(d)
    <3>1. callLocked /\ timer = 0
      BY <2>0, <2>4 DEF Wake, GeoTypeOK
    <3> QED
      BY <2>0, <3>1 DEF SpacingInv
  <2> QED
    BY <2>2, <2>3, <2>4
<1> QED
  BY <1>1, GeoInvariant, PTL DEF Spec, ThreeCallsSpanASecond

\* ResolveLocation: two callers never look up ids at the same time, nor an id that is cached.
THEOREM LookupsAreSerial == Spec => []OneLookup
<1>1. GeoInv => OneLookup
  BY DEF GeoInv
<1> QED
  BY <1>1, GeoInvariant, PTL

\* ResolveLocation: after a lookup that ended without a location the lock of the cache stays
\* locked for ever; otherwise it is locked exactly during a lookup.
THEOREM CacheLockIsExplained == Spec => []CacheLockExplained
<1>1. GeoInv => CacheLockExplained
  BY DEF GeoInv
<1> QED
  BY <1>1, GeoInvariant, PTL

=============================================================================
