--------------------------- MODULE RateLimiterProofs ---------------------------
(***************************************************************************)
(* Proofs about RateLimiter and RateWindow, for any clients, paths, rates, *)
(* workers and windows, as long as every TTL is long enough for its        *)
(* limiter to refill.                                                      *)
(***************************************************************************)
EXTENDS RateWindow, TLAPS

\* A limiter refills while nobody asks it: it is full, or it holds what came
\* in since a request can last have taken from it.
Refilled ==
  \A k \in Keys : Present(k) =>
    \/ visitors[k].level = Full[k]
    \/ visitors[k].idle <= visitors[k].level + MaxStall

LimiterInv == TypeOK /\ LookupStays /\ Refilled

\* What the bounds of the constants say of one key.
LEMMA KeyBounds ==
  ASSUME NEW k \in Keys
  PROVE  /\ Full[k] \in Nat /\ TTL[k] \in Nat /\ Cost[k] \in Nat /\ MaxStall \in Nat
         /\ 0 < Cost[k] /\ Cost[k] <= Full[k]
         /\ Full[k] + MaxStall <= TTL[k] + 1
BY LimiterAssumption

\* Nobody is absent for a time.
LEMMA AbsentIs == Absent.idle = -1 /\ ~(Absent.idle >= 0)
BY DEF Absent

\* A visitor of the map has a level and a time it has been idle for.
LEMMA PresentType ==
  ASSUME TypeOK, NEW k \in Keys, Present(k)
  PROVE  /\ visitors[k] \in Visitor(k)
         /\ visitors[k].level \in 0..Full[k] /\ visitors[k].idle \in 0..(TTL[k] + 1)
         /\ visitors[k] = [level |-> visitors[k].level, idle |-> visitors[k].idle]
<1>1. visitors[k] # Absent
  BY DEF Present, Absent
<1>2. visitors[k] \in Visitor(k)
  BY <1>1 DEF TypeOK
<1>. QED
  BY <1>2 DEF Visitor

\* One that is not there is Absent, and has no more to say.
LEMMA AbsentType ==
  ASSUME TypeOK, NEW k \in Keys, ~Present(k)
  PROVE  visitors[k] = Absent
<1>1. visitors[k] \notin Visitor(k)
  BY KeyBounds DEF Present, Visitor
<1>. QED
  BY <1>1 DEF TypeOK

\* A request in progress has a key and has not taken longer than the bound.
LEMMA BusyType ==
  ASSUME TypeOK, NEW w \in Workers, req[w] # Idle
  PROVE  req[w] \in [key: Keys, stall: 0..MaxStall]
BY DEF TypeOK

\* A visitor whose time is up has been idle long enough to be full, and no
\* request that has looked it up is still to ask it.
LEMMA StaleIsFull ==
  ASSUME LimiterInv, NEW k \in Keys, Stale(k)
  PROVE  /\ visitors[k].level = Full[k]
         /\ \A w \in Workers : req[w] # Idle => req[w].key # k
<1>. DEFINE v == visitors[k]
<1>0. /\ Full[k] \in Nat /\ TTL[k] \in Nat /\ MaxStall \in Nat /\ 0 < Full[k]
      /\ Full[k] + MaxStall <= TTL[k] + 1
  BY KeyBounds
<1>1. Present(k) /\ v.level \in 0..Full[k] /\ v.idle = TTL[k] + 1
  <2>1. Present(k) /\ v.idle > TTL[k]
    BY DEF Stale
  <2>2. v.level \in 0..Full[k] /\ v.idle \in 0..(TTL[k] + 1)
    BY <2>1, PresentType DEF LimiterInv
  <2>. QED
    BY <1>0, <2>1, <2>2
<1>2. v.level = Full[k]
  <2>1. v.level = Full[k] \/ v.idle <= v.level + MaxStall
    BY <1>1 DEF LimiterInv, Refilled
  <2>. QED
    BY <1>0, <1>1, <2>1
<1>3. ASSUME NEW w \in Workers, req[w] # Idle, req[w].key = k
      PROVE  FALSE
  <2>1. v.idle <= req[w].stall
    BY <1>3 DEF LimiterInv, LookupStays
  <2>2. req[w].stall \in 0..MaxStall
    BY <1>3, BusyType DEF LimiterInv
  <2>. QED
    BY <1>0, <1>1, <2>1, <2>2
<1>. QED
  BY <1>2, <1>3

-----------------------------------------------------------------------------
(* The invariant is inductive *)

\* Nobody is in the map, nobody asks.
LEMMA InitInv == Init => LimiterInv
<1>. SUFFICES ASSUME Init PROVE LimiterInv
  OBVIOUS
<1>1. \A k \in Keys : visitors[k] = Absent /\ ~Present(k)
  BY AbsentIs DEF Init, Present
<1>2. TypeOK
  BY <1>1 DEF Init, TypeOK
<1>. QED
  BY <1>1, <1>2 DEF LimiterInv, LookupStays, Refilled, Init

\* What a lookup makes of the map: the visitor has just been seen, those whose
\* time is up are gone, and nobody else has changed.
LEMMA LookupMap ==
  ASSUME LimiterInv, NEW w \in Workers, NEW k \in Keys, Lookup(w, k)
  PROVE  /\ visitors'[k] \in Visitor(k) /\ visitors'[k].idle = 0
         /\ visitors'[k].level = IF Present(k) THEN visitors[k].level ELSE Full[k]
         /\ \A i \in Keys : i # k =>
              visitors'[i] = IF Stale(i) THEN Absent ELSE visitors[i]
<1>1. visitors'[k] = IF Present(k) THEN Seen(visitors[k]) ELSE NewVisitor(k)
  BY DEF Lookup
<1>2. \A n \in 0..Full[k] : [level |-> n, idle |-> 0] \in Visitor(k)
  BY KeyBounds DEF Visitor
<1>3. \A i \in Keys : i # k =>
        visitors'[i] = IF Stale(i) THEN Absent ELSE visitors[i]
  BY DEF Lookup
<1>4. CASE Present(k)
  <2>1. visitors[k] = [level |-> visitors[k].level, idle |-> visitors[k].idle]
        /\ visitors[k].level \in 0..Full[k]
    BY <1>4, PresentType DEF LimiterInv
  <2>2. Seen(visitors[k]) = [level |-> visitors[k].level, idle |-> 0]
    BY <2>1 DEF Seen
  <2>3. visitors'[k] = [level |-> visitors[k].level, idle |-> 0]
    BY <1>1, <1>4, <2>2
  <2>. QED
    BY <1>2, <1>3, <1>4, <2>1, <2>3
<1>5. CASE ~Present(k)
  <2>1. visitors'[k] = [level |-> Full[k], idle |-> 0]
    BY <1>1, <1>5 DEF NewVisitor
  <2>2. Full[k] \in 0..Full[k]
    BY KeyBounds
  <2>. QED
    BY <1>2, <1>3, <1>5, <2>1, <2>2
<1>. QED
  BY <1>4, <1>5

\* Looking a limiter up, with the evictions.
LEMMA LookupInv ==
  ASSUME LimiterInv, NEW w \in Workers, NEW k \in Keys, Lookup(w, k)
  PROVE  LimiterInv'
<1>1. DOMAIN visitors' = Keys
  BY DEF Lookup
<1>2. ASSUME NEW i \in Keys
      PROVE  visitors'[i] \in Visitor(i) \cup {Absent}
  <2>1. visitors[i] \in Visitor(i) \cup {Absent}
    BY DEF LimiterInv, TypeOK
  <2>. QED
    BY <2>1, LookupMap
<1>3. req' = [req EXCEPT ![w] = [key |-> k, stall |-> 0]]
  BY DEF Lookup
<1>4. [key |-> k, stall |-> 0] \in [key: Keys, stall: 0..MaxStall]
  BY KeyBounds
<1>5. req' \in [Workers -> [key: Keys, stall: 0..MaxStall] \cup {Idle}]
  BY <1>3, <1>4 DEF LimiterInv, TypeOK
<1>6. TypeOK'
  BY <1>1, <1>2, <1>5 DEF TypeOK, Visitor, Absent, Idle
<1>7. LookupStays'
  <2>. SUFFICES ASSUME NEW v \in Workers, req'[v] # Idle
                PROVE  /\ visitors'[req'[v].key].idle >= 0
                       /\ visitors'[req'[v].key].idle <= req'[v].stall
    BY DEF LookupStays, Present, Idle
  <2>1. CASE req'[v].key = k
    <3>1. visitors'[k].idle = 0
      BY LookupMap
    <3>2. req'[v].stall \in 0..MaxStall
      BY <1>5
    <3>. QED
      BY <2>1, <3>1, <3>2, KeyBounds
  <2>2. CASE req'[v].key # k
    <3>1. req'[v] = req[v] /\ req[v] # Idle
      BY <1>3, <2>2 DEF LimiterInv, TypeOK
    <3>2. req[v].key \in Keys /\ ~Stale(req[v].key)
      BY <3>1, StaleIsFull, BusyType DEF LimiterInv
    <3>3. visitors'[req[v].key] = visitors[req[v].key]
      BY <2>2, <3>1, <3>2, LookupMap
    <3>. QED
      BY <3>1, <3>3 DEF LimiterInv, LookupStays, Present
  <2>. QED
    BY <2>1, <2>2
<1>8. Refilled'
  <2>. SUFFICES ASSUME NEW i \in Keys, Present(i)'
                PROVE  \/ visitors'[i].level = Full[i]
                       \/ visitors'[i].idle <= visitors'[i].level + MaxStall
    BY DEF Refilled
  <2>1. CASE i = k
    <3>1. CASE Present(k)
      <4>1. visitors[k].level \in 0..Full[k]
        BY <3>1, PresentType DEF LimiterInv
      <4>2. visitors'[k].idle = 0 /\ visitors'[k].level = visitors[k].level
        BY <3>1, LookupMap
      <4>. QED
        BY <2>1, <4>1, <4>2, KeyBounds
    <3>2. CASE ~Present(k)
      BY <2>1, <3>2, LookupMap
    <3>. QED
      BY <3>1, <3>2
  <2>2. CASE i # k
    <3>1. visitors'[i] = visitors[i] /\ Present(i)
      BY <2>2, LookupMap, AbsentIs DEF Present
    <3>. QED
      BY <3>1 DEF LimiterInv, Refilled
  <2>. QED
    BY <2>1, <2>2
<1>. QED
  BY <1>6, <1>7, <1>8 DEF LimiterInv

\* Asking the limiter: it has been idle for no longer than the request has
\* taken.
LEMMA AllowInv ==
  ASSUME LimiterInv, NEW w \in Workers, Allow(w)
  PROVE  LimiterInv'
<1>. DEFINE k == req[w].key
<1>1. k \in Keys /\ Present(k) /\ req[w].stall \in 0..MaxStall
  BY BusyType DEF Allow, LimiterInv
<1>0. Full[k] \in Nat /\ Cost[k] \in Nat /\ TTL[k] \in Nat /\ MaxStall \in Nat
  BY <1>1, KeyBounds
<1>. DEFINE v == visitors[k]
<1>11. v.level \in 0..Full[k] /\ v.idle \in 0..(TTL[k] + 1)
       /\ v = [level |-> v.level, idle |-> v.idle]
  BY <1>1, PresentType DEF LimiterInv
<1>2. v.idle <= MaxStall
  <2>1. v.idle <= req[w].stall
    BY DEF Allow, LimiterInv, LookupStays
  <2>. QED
    BY <1>0, <1>1, <1>11, <2>1
<1>3. \A i \in Keys : i # k => visitors'[i] = visitors[i]
  BY <1>1 DEF Allow, LimiterInv, TypeOK
<1>4. /\ visitors'[k].idle = v.idle
      /\ visitors'[k].level \in 0..Full[k]
      /\ visitors'[k] = [level |-> visitors'[k].level, idle |-> visitors'[k].idle]
  <2>1. CASE v.level >= Cost[k]
    <3>1. visitors'[k] = [v EXCEPT !.level = @ - Cost[k]]
      BY <1>1, <2>1 DEF Allow, LimiterInv, TypeOK
    <3>2. visitors'[k] = [level |-> v.level - Cost[k], idle |-> v.idle]
      BY <1>11, <3>1
    <3>3. v.level - Cost[k] \in 0..Full[k]
      BY <1>0, <1>11, <2>1
    <3>. QED
      BY <3>2, <3>3
  <2>2. CASE ~(v.level >= Cost[k])
    <3>1. visitors'[k] = v
      BY <2>2 DEF Allow
    <3>. QED
      BY <1>11, <3>1
  <2>. QED
    BY <2>1, <2>2
<1>5. DOMAIN visitors' = Keys
  BY DEF Allow, LimiterInv, TypeOK
<1>6. req' = [req EXCEPT ![w] = Idle]
  BY DEF Allow
<1>7. TypeOK'
  <2>1. visitors'[k] \in Visitor(k)
    BY <1>4, <1>11 DEF Visitor
  <2>2. \A i \in Keys : visitors'[i] \in Visitor(i) \cup {Absent}
    BY <1>3, <2>1 DEF LimiterInv, TypeOK
  <2>. QED
    BY <1>5, <1>6, <2>2 DEF LimiterInv, TypeOK, Visitor, Absent, Idle
<1>8. \A i \in Keys : visitors'[i].idle = visitors[i].idle
  BY <1>3, <1>4
<1>9. LookupStays'
  <2>. SUFFICES ASSUME NEW x \in Workers, req'[x] # Idle
                PROVE  /\ visitors'[req'[x].key].idle >= 0
                       /\ visitors'[req'[x].key].idle <= req'[x].stall
    BY DEF LookupStays, Present, Idle
  <2>1. req'[x] = req[x] /\ req[x] # Idle
    BY <1>6 DEF LimiterInv, TypeOK
  <2>2. req[x].key \in Keys
    BY <2>1, BusyType DEF LimiterInv
  <2>. QED
    BY <1>8, <2>1, <2>2 DEF LimiterInv, LookupStays, Present
<1>10. Refilled'
  <2>. SUFFICES ASSUME NEW i \in Keys, Present(i)'
                PROVE  \/ visitors'[i].level = Full[i]
                       \/ visitors'[i].idle <= visitors'[i].level + MaxStall
    BY DEF Refilled
  <2>1. CASE i = k
    <3>1. visitors'[k].level \in Nat /\ visitors'[k].idle \in Nat
      BY <1>0, <1>4, <1>11
    <3>. QED
      BY <1>0, <1>2, <1>4, <2>1, <3>1
  <2>2. CASE i # k
    BY <1>3, <2>2 DEF LimiterInv, Refilled, Present
  <2>. QED
    BY <2>1, <2>2
<1>. QED
  BY <1>7, <1>9, <1>10 DEF LimiterInv

\* A tick fills a limiter and makes its visitor older.
LEMMA TickMap ==
  ASSUME LimiterInv, Tick, NEW k \in Keys
  PROVE  /\ Present(k) =>
              /\ visitors'[k] \in Visitor(k) /\ Present(k)'
              /\ visitors'[k].level = IF visitors[k].level < Full[k]
                                      THEN visitors[k].level + 1 ELSE Full[k]
              /\ visitors'[k].idle <= visitors[k].idle + 1
         /\ ~Present(k) => visitors'[k] = Absent
<1>1. CASE Present(k)
  <2>1. visitors'[k] = [level |-> Capped(visitors[k].level, Full[k]),
                        idle |-> Capped(visitors[k].idle, TTL[k] + 1)]
    BY <1>1 DEF Tick
  <2>2. visitors[k].level \in 0..Full[k] /\ visitors[k].idle \in 0..(TTL[k] + 1)
    BY <1>1, PresentType DEF LimiterInv
  <2>3. /\ Capped(visitors[k].level, Full[k]) \in 0..Full[k]
        /\ Capped(visitors[k].idle, TTL[k] + 1) \in 0..(TTL[k] + 1)
        /\ Capped(visitors[k].idle, TTL[k] + 1) <= visitors[k].idle + 1
    BY <2>2, KeyBounds DEF Capped
  <2>4. visitors'[k].idle = Capped(visitors[k].idle, TTL[k] + 1)
        /\ visitors'[k].level = Capped(visitors[k].level, Full[k])
    BY <2>1
  <2>5. visitors'[k] \in Visitor(k)
    BY <2>1, <2>3 DEF Visitor
  <2>. QED
    BY <1>1, <2>2, <2>3, <2>4, <2>5, KeyBounds DEF Present, Capped
<1>2. CASE ~Present(k)
  BY <1>2 DEF Tick
<1>. QED
  BY <1>1, <1>2

\* Time passes.
LEMMA TickInv ==
  ASSUME LimiterInv, Tick
  PROVE  LimiterInv'
<1>1. \A w \in Workers :
        req'[w] = IF req[w] = Idle THEN Idle ELSE [req[w] EXCEPT !.stall = @ + 1]
  BY DEF Tick
<1>2. ASSUME NEW w \in Workers, req'[w] # Idle
      PROVE  /\ req[w] # Idle /\ req[w].key \in Keys
             /\ req'[w] = [key |-> req[w].key, stall |-> req[w].stall + 1]
             /\ req[w].stall \in 0..MaxStall
             /\ req'[w] \in [key: Keys, stall: 0..MaxStall]
  <2>1. req[w] # Idle
    BY <1>1, <1>2
  <2>2. req[w] \in [key: Keys, stall: 0..MaxStall]
    BY <2>1, BusyType DEF LimiterInv
  <2>3. req[w].stall < MaxStall
    BY <2>1 DEF Tick
  <2>4. req'[w] = [key |-> req[w].key, stall |-> req[w].stall + 1]
    BY <1>1, <2>1, <2>2
  <2>5. MaxStall \in Nat
    BY LimiterAssumption
  <2>. QED
    BY <2>1, <2>2, <2>3, <2>4, <2>5
<1>3. req' \in [Workers -> [key: Keys, stall: 0..MaxStall] \cup {Idle}]
  <2>1. req' = [w \in Workers |-> req'[w]]
    BY DEF Tick
  <2>2. ASSUME NEW w \in Workers, req'[w] # Idle
        PROVE  req'[w] \in [key: Keys, stall: 0..MaxStall]
    BY <1>2, <2>2
  <2>. QED
    BY <2>1, <2>2
<1>4. \A k \in Keys : visitors'[k] \in Visitor(k) \cup {Absent}
  BY TickMap
<1>5. DOMAIN visitors' = Keys
  BY DEF Tick
<1>6. TypeOK'
  BY <1>3, <1>4, <1>5 DEF TypeOK, Visitor, Absent, Idle
<1>7. LookupStays'
  <2>. SUFFICES ASSUME NEW w \in Workers, req'[w] # Idle
                PROVE  /\ visitors'[req'[w].key].idle >= 0
                       /\ visitors'[req'[w].key].idle <= req'[w].stall
    BY DEF LookupStays, Present, Idle
  <2>. DEFINE k == req[w].key
  <2>1. k \in Keys /\ req'[w].key = k /\ req'[w].stall = req[w].stall + 1
        /\ req[w] # Idle /\ req[w].stall \in 0..MaxStall
    <3>1. req'[w] = [key |-> k, stall |-> req[w].stall + 1]
      BY <1>2
    <3>. QED
      BY <1>2, <3>1
  <2>2. Present(k) /\ visitors[k].idle <= req[w].stall
    BY <2>1 DEF LimiterInv, LookupStays
  <2>3. Present(k)' /\ visitors'[k].idle <= visitors[k].idle + 1
    BY <2>1, <2>2, TickMap
  <2>4. visitors[k].idle \in Int /\ visitors'[k].idle \in Int /\ req[w].stall \in Int
    <3>1. visitors[k].idle \in 0..(TTL[k] + 1)
      BY <2>1, <2>2, PresentType DEF LimiterInv
    <3>2. visitors'[k] \in Visitor(k)
      BY <2>1, <2>2, TickMap
    <3>3. visitors'[k].idle \in 0..(TTL[k] + 1)
      BY <3>2 DEF Visitor
    <3>4. TTL[k] \in Nat /\ MaxStall \in Nat
      BY <2>1, KeyBounds
    <3>. QED
      BY <2>1, <3>1, <3>3, <3>4
  <2>5. visitors'[k].idle <= req[w].stall + 1
    BY <2>2, <2>3, <2>4
  <2>. QED
    BY <2>1, <2>3, <2>5 DEF Present
<1>8. Refilled'
  <2>. SUFFICES ASSUME NEW k \in Keys, Present(k)'
                PROVE  \/ visitors'[k].level = Full[k]
                       \/ visitors'[k].idle <= visitors'[k].level + MaxStall
    BY DEF Refilled
  <2>1. Present(k)
    BY TickMap, AbsentIs DEF Present
  <2>2. visitors[k].level \in 0..Full[k] /\ visitors[k].idle \in 0..(TTL[k] + 1)
    BY <2>1, PresentType DEF LimiterInv
  <2>3. visitors'[k].level = (IF visitors[k].level < Full[k]
                              THEN visitors[k].level + 1 ELSE Full[k])
        /\ visitors'[k].idle <= visitors[k].idle + 1 /\ visitors'[k] \in Visitor(k)
    BY <2>1, TickMap
  <2>4. visitors'[k].idle \in Int
    BY <2>3, KeyBounds DEF Visitor
  <2>5. \/ visitors[k].level = Full[k]
        \/ visitors[k].idle <= visitors[k].level + MaxStall
    BY <2>1 DEF LimiterInv, Refilled
  <2>. QED
    BY <2>2, <2>3, <2>4, <2>5, KeyBounds
<1>. QED
  BY <1>6, <1>7, <1>8 DEF LimiterInv

\* Every step.
LEMMA NextInv == LimiterInv /\ [Next]_vars => LimiterInv'
<1>. SUFFICES ASSUME LimiterInv, [Next]_vars PROVE LimiterInv'
  OBVIOUS
<1>1. CASE \E w \in Workers, k \in Keys : Lookup(w, k)
  BY <1>1, LookupInv
<1>2. CASE \E w \in Workers : Allow(w)
  BY <1>2, AllowInv
<1>3. CASE Tick
  BY <1>3, TickInv
<1>4. CASE UNCHANGED vars
  BY <1>4 DEF vars, LimiterInv, TypeOK, LookupStays, Refilled, Present, Visitor,
              Absent, Idle
<1>. QED
  BY <1>1, <1>2, <1>3, <1>4 DEF Next

\* Throughout every behaviour.
LEMMA AlwaysLimiterInv == Spec => []LimiterInv
BY InitInv, NextInv, PTL DEF Spec

\* Levels and requests stay of their types: no limiter is overdrawn and none
\* holds more than its burst (AuthRateLimitMiddleware).
THEOREM TypeCorrect == Spec => []TypeOK
<1>1. LimiterInv => TypeOK
  BY DEF LimiterInv
<1>. QED
  BY <1>1, AlwaysLimiterInv, PTL

\* Whoever evicts between a request's lookup and its Allow(), the limiter the
\* request holds is the one in the map (auth_rate_limit.go, Lock to Allow).
THEOREM LookedUpStays == Spec => []LookupStays
<1>1. LimiterInv => LookupStays
  BY DEF LimiterInv
<1>. QED
  BY <1>1, AlwaysLimiterInv, PTL

-----------------------------------------------------------------------------
(* The map of limiters implements one bucket for each client and path *)

\* The level a client sees: full, if the map has no limiter of theirs.
LEMMA LevelIs ==
  /\ Level = [k \in Keys |-> Level[k]]
  /\ Level' = [k \in Keys |-> Level'[k]]
  /\ \A k \in Keys :
       /\ Level[k] = IF Present(k) THEN visitors[k].level ELSE Full[k]
       /\ Level'[k] = IF visitors'[k].idle >= 0 THEN visitors'[k].level ELSE Full[k]
BY DEF Level, Present

\* Neither making a limiter nor evicting one changes what anybody has left.
LEMMA LookupStutters ==
  ASSUME LimiterInv, NEW w \in Workers, NEW k \in Keys, Lookup(w, k)
  PROVE  Level' = Level
<1>1. ASSUME NEW i \in Keys
      PROVE  Level'[i] = Level[i]
  <2>1. CASE i = k
    <3>1. visitors'[k].idle = 0
          /\ visitors'[k].level = IF Present(k) THEN visitors[k].level ELSE Full[k]
      BY LookupMap
    <3>. QED
      BY <2>1, <3>1, LevelIs
  <2>2. CASE i # k /\ Stale(i)
    <3>1. ~(visitors'[i].idle >= 0)
      BY <2>2, LookupMap, AbsentIs
    <3>2. Level[i] = Full[i]
      BY <2>2, StaleIsFull, LevelIs DEF Stale
    <3>. QED
      BY <3>1, <3>2, LevelIs
  <2>3. CASE i # k /\ ~Stale(i)
    BY <2>3, LookupMap, LevelIs DEF Present
  <2>. QED
    BY <2>1, <2>2, <2>3
<1>. QED
  BY <1>1, LevelIs

\* Allow takes from the bucket, or finds too little in it.
LEMMA AllowAdmits ==
  ASSUME LimiterInv, NEW w \in Workers, Allow(w)
  PROVE  (\E k \in Keys : Bucket!Admit(k)) \/ Level' = Level
<1>. DEFINE k == req[w].key
<1>1. k \in Keys /\ Present(k)
  BY BusyType DEF Allow, LimiterInv
<1>2. CASE visitors[k].level >= Cost[k]
  <2>1. visitors' = [visitors EXCEPT ![k].level = @ - Cost[k]]
    BY <1>2 DEF Allow
  <2>2. visitors'[k] = [visitors[k] EXCEPT !.level = @ - Cost[k]]
    BY <1>1, <2>1 DEF LimiterInv, TypeOK
  <2>3. visitors[k] = [level |-> visitors[k].level, idle |-> visitors[k].idle]
    BY <1>1, PresentType DEF LimiterInv
  <2>4. visitors'[k] = [level |-> visitors[k].level - Cost[k], idle |-> visitors[k].idle]
    BY <2>2, <2>3
  <2>5. Level[k] = visitors[k].level /\ Level'[k] = visitors[k].level - Cost[k]
    BY <1>1, <2>4, LevelIs DEF Present
  <2>6. \A i \in Keys : i # k => visitors'[i] = visitors[i]
    BY <2>1 DEF LimiterInv, TypeOK
  <2>7. \A i \in Keys : i # k => Level'[i] = Level[i]
    BY <2>6, LevelIs DEF Present
  <2>8. Level' = [Level EXCEPT ![k] = @ - Cost[k]]
    BY <2>5, <2>7, LevelIs
  <2>. QED
    BY <1>1, <1>2, <2>5, <2>8 DEF Bucket!Admit
<1>3. CASE ~(visitors[k].level >= Cost[k])
  BY <1>3 DEF Allow, Level, Present
<1>. QED
  BY <1>2, <1>3

\* A tick refills the buckets, also those the map does not hold.
LEMMA TickRefills ==
  ASSUME LimiterInv, Tick
  PROVE  Bucket!Refill
<1>1. ASSUME NEW k \in Keys
      PROVE  Level'[k] = IF Level[k] < Full[k] THEN Level[k] + 1 ELSE Full[k]
  <2>1. CASE Present(k)
    BY <2>1, TickMap, LevelIs DEF Present
  <2>2. CASE ~Present(k)
    <3>1. ~(visitors'[k].idle >= 0)
      BY <2>2, TickMap, AbsentIs
    <3>2. Level[k] = Full[k] /\ Level'[k] = Full[k] /\ Full[k] \in Nat
      BY <2>2, <3>1, LevelIs, KeyBounds
    <3>. QED
      BY <3>2
  <2>. QED
    BY <2>1, <2>2
<1>. QED
  BY <1>1, LevelIs DEF Bucket!Refill

\* Whatever is evicted and made again, the middleware admits what one bucket
\* for each client and path would: its burst, and its rate after that
\* (AuthRateLimitMiddleware, the limits of app.go).
THEOREM Limits == Spec => ImplementsTokenBucket
<1>1. Init => Bucket!Init
  BY AbsentIs DEF Init, Bucket!Init, Level, Present
<1>2. LimiterInv /\ [Next]_vars => [Bucket!Next]_Level
  <2>. SUFFICES ASSUME LimiterInv, [Next]_vars PROVE [Bucket!Next]_Level
    OBVIOUS
  <2>1. CASE \E w \in Workers, k \in Keys : Lookup(w, k)
    BY <2>1, LookupStutters
  <2>2. CASE \E w \in Workers : Allow(w)
    BY <2>2, AllowAdmits DEF Bucket!Next
  <2>3. CASE Tick
    BY <2>3, TickRefills DEF Bucket!Next
  <2>4. CASE UNCHANGED vars
    BY <2>4 DEF vars, Level, Present
  <2>. QED
    BY <2>1, <2>2, <2>3, <2>4 DEF Next
<1>. QED
  BY <1>1, <1>2, AlwaysLimiterInv, PTL DEF Spec, ImplementsTokenBucket, Bucket!Spec

-----------------------------------------------------------------------------
(* The rate over any window *)

\* What has been admitted and what is still there came from the burst or in
\* the time since.
Budget ==
  window.key # None =>
    window.admitted * Cost[window.key] + Level[window.key]
      <= Full[window.key] + window.length

WindowInv ==
  /\ window \in [key: Keys \cup {None}, admitted: Nat, length: Nat]
  /\ Budget

\* No bucket holds less than nothing.
LEMMA LevelRange ==
  ASSUME LimiterInv, NEW k \in Keys
  PROVE  Level[k] \in 0..Full[k]
<1>1. CASE Present(k)
  BY <1>1, PresentType, LevelIs DEF LimiterInv
<1>2. CASE ~Present(k)
  <2>1. Level[k] = Full[k] /\ Full[k] \in Nat
    BY <1>2, LevelIs, KeyBounds
  <2>. QED
    BY <2>1
<1>. QED
  BY <1>1, <1>2

\* One request more costs one Cost more.
LEMMA OneMore ==
  ASSUME NEW n \in Nat, NEW c \in Nat
  PROVE  n * c \in Nat /\ (n + 1) * c = n * c + c /\ 0 * c = 0
OBVIOUS

\* A window at its beginning.
LEMMA WindowOpens ==
  ASSUME LimiterInv, NEW k \in Keys, OpenWindow(k)
  PROVE  WindowInv'
<1>1. window' = [key |-> k, admitted |-> 0, length |-> 0] /\ Level' = Level
  BY DEF OpenWindow, vars, Level, Present
<1>2. window'.key = k /\ window'.admitted = 0 /\ window'.length = 0
  BY <1>1
<1>3. Level[k] \in 0..Full[k] /\ Full[k] \in Nat /\ 0 * Cost[k] = 0
  BY LevelRange, KeyBounds, OneMore
<1>4. 0 * Cost[k] + Level[k] <= Full[k] + 0
  BY <1>3
<1>5. window' \in [key: Keys \cup {None}, admitted: Nat, length: Nat]
  BY <1>1
<1>. QED
  BY <1>1, <1>2, <1>4, <1>5 DEF WindowInv, Budget

\* A request that is counted has taken its cost from the bucket.
LEMMA WindowCounts ==
  ASSUME LimiterInv, WindowInv, NEW w \in Workers, CountAllow(w)
  PROVE  WindowInv'
<1>. DEFINE k == req[w].key
            passes == visitors[k].level >= Cost[k]
<1>1. k \in Keys /\ Present(k) /\ k # None
  BY BusyType, LimiterAssumption DEF CountAllow, Allow, LimiterInv
<1>2. ASSUME NEW i \in Keys
      PROVE  Level'[i] = IF i = k /\ passes THEN Level[i] - Cost[i] ELSE Level[i]
  <2>1. CASE passes
    <3>1. visitors' = [visitors EXCEPT ![k].level = @ - Cost[k]]
      BY <2>1 DEF CountAllow, Allow
    <3>2. visitors[k] = [level |-> visitors[k].level, idle |-> visitors[k].idle]
      BY <1>1, PresentType DEF LimiterInv
    <3>3. visitors'[k] = [visitors[k] EXCEPT !.level = @ - Cost[k]]
      BY <1>1, <3>1 DEF LimiterInv, TypeOK
    <3>4. visitors'[k] = [level |-> visitors[k].level - Cost[k], idle |-> visitors[k].idle]
      BY <3>2, <3>3
    <3>5. i # k => visitors'[i] = visitors[i]
      BY <3>1 DEF LimiterInv, TypeOK
    <3>. QED
      BY <1>1, <2>1, <3>4, <3>5, LevelIs DEF Present
  <2>2. CASE ~passes
    <3>1. visitors' = visitors
      BY <2>2 DEF CountAllow, Allow
    <3>. QED
      BY <2>2, <3>1, LevelIs DEF Present
  <2>. QED
    BY <2>1, <2>2
<1>3. CASE window.key = k /\ passes
  <2>1. window' = [window EXCEPT !.admitted = @ + 1]
    BY <1>3 DEF CountAllow, Passes
  <2>2. /\ window \in [key: Keys \cup {None}, admitted: Nat, length: Nat]
        /\ window.admitted * Cost[k] + Level[k] <= Full[k] + window.length
    BY <1>1, <1>3 DEF WindowInv, Budget
  <2>3. /\ window' \in [key: Keys \cup {None}, admitted: Nat, length: Nat]
        /\ window'.key = k /\ window'.admitted = window.admitted + 1
        /\ window'.length = window.length
    BY <1>3, <2>1, <2>2
  <2>4. Cost[k] \in Nat /\ Full[k] \in Nat /\ Level[k] \in Int
    BY <1>1, LevelRange, KeyBounds
  <2>5. /\ window.admitted * Cost[k] \in Nat
        /\ (window.admitted + 1) * Cost[k] = window.admitted * Cost[k] + Cost[k]
    BY <2>2, <2>4, OneMore
  <2>6. (window.admitted + 1) * Cost[k] + (Level[k] - Cost[k]) <= Full[k] + window.length
    BY <2>2, <2>4, <2>5
  <2>7. Level'[k] = Level[k] - Cost[k]
    BY <1>1, <1>2, <1>3
  <2>. QED
    BY <2>3, <2>6, <2>7 DEF WindowInv, Budget
<1>4. CASE ~(window.key = k /\ passes)
  <2>1. window' = window
    BY <1>4 DEF CountAllow, Passes
  <2>2. window.key # None => Level'[window.key] = Level[window.key]
    BY <1>2, <1>4 DEF WindowInv
  <2>. QED
    BY <2>1, <2>2 DEF WindowInv, Budget
<1>. QED
  BY <1>3, <1>4

\* A tick of the window is a tick of refilling.
LEMMA WindowTicks ==
  ASSUME LimiterInv, LimiterInv', WindowInv, CountTick
  PROVE  WindowInv'
<1>1. ASSUME NEW k \in Keys
      PROVE  /\ Level[k] \in Int /\ Level'[k] \in Int /\ Level'[k] <= Level[k] + 1
             /\ Full[k] \in Nat
  <2>1. Level'[k] = IF Level[k] < Full[k] THEN Level[k] + 1 ELSE Full[k]
    BY TickRefills DEF CountTick, Bucket!Refill
  <2>2. Level[k] \in 0..Full[k] /\ Full[k] \in Nat
    BY LevelRange, KeyBounds
  <2>. QED
    BY <2>1, <2>2
<1>2. CASE window.key = None
  BY <1>2 DEF CountTick, WindowInv, Budget
<1>3. CASE window.key # None /\ window.length < MaxWindow
  <2>. DEFINE k == window.key
  <2>1. window' = [window EXCEPT !.length = @ + 1]
    BY <1>3 DEF CountTick
  <2>2. /\ window \in [key: Keys \cup {None}, admitted: Nat, length: Nat] /\ k \in Keys
        /\ window.admitted * Cost[k] + Level[k] <= Full[k] + window.length
    BY <1>3 DEF WindowInv, Budget
  <2>3. /\ window' \in [key: Keys \cup {None}, admitted: Nat, length: Nat]
        /\ window'.key = k /\ window'.admitted = window.admitted
        /\ window'.length = window.length + 1
    BY <2>1, <2>2
  <2>4. window.admitted * Cost[k] \in Nat
    BY <2>2, KeyBounds, OneMore
  <2>5. window.admitted * Cost[k] + Level'[k] <= Full[k] + (window.length + 1)
    BY <1>1, <2>2, <2>4
  <2>. QED
    BY <2>3, <2>5 DEF WindowInv, Budget
<1>4. CASE window.key # None /\ ~(window.length < MaxWindow)
  <2>1. window' = [key |-> None, admitted |-> 0, length |-> 0]
    BY <1>4 DEF CountTick, NoWindow
  <2>. QED
    BY <2>1 DEF WindowInv, Budget
<1>. QED
  BY <1>2, <1>3, <1>4

LEMMA WindowStep ==
  ASSUME LimiterInv, LimiterInv', WindowInv, [WindowNext]_<<vars, window>>
  PROVE  WindowInv'
<1>1. ASSUME NEW w \in Workers, NEW k \in Keys, Lookup(w, k), UNCHANGED window
      PROVE  WindowInv'
  BY <1>1, LookupStutters DEF WindowInv, Budget
<1>2. CASE UNCHANGED <<vars, window>>
  BY <1>2 DEF WindowInv, Budget, vars, Level, Present
<1>. QED
  BY <1>1, <1>2, WindowCounts, WindowTicks, WindowOpens DEF WindowNext

\* Over any stretch of time, of whatever length and from whatever moment on, a
\* client is admitted on a path no more often than its burst and its rate allow
\* (PathRateLimit's Rate and Burst), evicted limiters notwithstanding.
THEOREM RatesHold == WindowSpec => []RateHolds
<1>1. WindowSpec => Spec
  <2>1. WindowInit => Init
    BY DEF WindowInit
  <2>2. [WindowNext]_<<vars, window>> => [Next]_vars
    BY DEF WindowNext, Next, CountAllow, CountTick, OpenWindow
  <2>. QED
    BY <2>1, <2>2, PTL DEF WindowSpec, Spec
<1>2. WindowInit => WindowInv
  <2>. SUFFICES ASSUME WindowInit PROVE WindowInv
    OBVIOUS
  <2>1. window = [key |-> None, admitted |-> 0, length |-> 0]
    BY DEF WindowInit, NoWindow
  <2>. QED
    BY <2>1 DEF WindowInv, Budget
<1>3. LimiterInv /\ LimiterInv' /\ WindowInv /\ [WindowNext]_<<vars, window>>
        => WindowInv'
  BY WindowStep
<1>4. LimiterInv /\ WindowInv => RateHolds
  <2>. SUFFICES ASSUME LimiterInv, WindowInv, window.key # None
                PROVE  window.admitted * Cost[window.key] <= Full[window.key] + window.length
    BY DEF RateHolds
  <2>1. window.key \in Keys /\ window.admitted \in Nat /\ window.length \in Nat
    BY DEF WindowInv
  <2>2. /\ Level[window.key] \in 0..Full[window.key] /\ Full[window.key] \in Nat
        /\ window.admitted * Cost[window.key] \in Nat
    BY <2>1, LevelRange, KeyBounds, OneMore
  <2>. QED
    BY <2>1, <2>2 DEF WindowInv, Budget
<1>. QED
  BY <1>1, <1>2, <1>3, <1>4, AlwaysLimiterInv, PTL DEF WindowSpec

=============================================================================
