------------------------------ MODULE RateLimiter ------------------------------
(***************************************************************************)
(* AuthRateLimitMiddleware: a map from "ip:path" to a limiter of           *)
(* golang.org/x/time/rate, under a mutex.  Each request looks its limiter  *)
(* up, evicts those that have not been asked for longer than their path's  *)
(* TTL, unlocks, and only then asks its limiter.                           *)
(*                                                                         *)
(* A limiter's tokens are counted in ticks of refilling: a full one holds  *)
(* Burst tokens of Cost ticks each, Full in all.                           *)
(***************************************************************************)
EXTENDS Integers

CONSTANTS
  Keys,      \* pairs of a client and a limited path
  Full,      \* Burst * Cost of the path of a key
  Cost,      \* ticks in which the path's limiter gains one token
  TTL,       \* the path's TTL
  Workers,   \* requests that may be in progress at the same time
  None,      \* the value of an unused field
  MaxStall   \* bound: time a request may spend between unlock and Allow()

\* Every limiter of app.go is full again after its TTL: 5 tokens at 2 a second
\* in 10 minutes, 10 at 5 a second in 5 minutes, and for registration exactly,
\* 2 tokens at one every half hour in an hour.
ASSUME LimiterAssumption ==
  /\ None \notin Keys
  /\ MaxStall \in Nat
  /\ Full \in [Keys -> Nat] /\ TTL \in [Keys -> Nat] /\ Cost \in [Keys -> Nat]
  /\ \A k \in Keys : Cost[k] > 0 /\ Cost[k] <= Full[k]
  /\ \A k \in Keys : Full[k] + MaxStall <= TTL[k] + 1

VARIABLES
  visitors,  \* the map: level of the limiter and time since lastSeen
  req        \* what each worker is doing

vars == <<visitors, req>>

Absent == [level |-> 0, idle |-> -1]
Idle == [key |-> None, stall |-> 0]
Present(k) == visitors[k].idle >= 0

Init ==
  /\ visitors = [k \in Keys |-> Absent]
  /\ req = [w \in Workers |-> Idle]

-----------------------------------------------------------------------------
\* Mutant of NewVisitor: the limiter starts with one token too many.
NewVisitorPlus(k) == [level |-> Full[k] + Cost[k], idle |-> 0]

NewVisitor(k) == [level |-> Full[k], idle |-> 0]

\* Mutant of Seen: lastSeen is only set when the visitor is made.
SeenBefore(v) == v

Seen(v) == [v EXCEPT !.idle = 0]

\* Mutant of Stale: the smallest TTL holds for all paths.
StaleForAll(k) ==
  Present(k) /\ \E i \in Keys : visitors[k].idle > TTL[i]

Stale(k) == Present(k) /\ visitors[k].idle > TTL[k]

\* The part of the handler under the mutex.
Lookup(w, k) ==
  /\ req[w] = Idle
  /\ visitors' = [i \in Keys |->
       IF i = k THEN IF Present(k) THEN Seen(visitors[k]) ELSE NewVisitor(k)
       ELSE IF Stale(i) THEN Absent ELSE visitors[i]]
  /\ req' = [req EXCEPT ![w] = [key |-> k, stall |-> 0]]

\* v.limiter.Allow(), then the request goes on or is refused.  The limiter is
\* still the one in the map: LookupStays.
Allow(w) ==
  LET k == req[w].key IN
    /\ req[w] # Idle
    /\ Present(k)
    /\ visitors' = IF visitors[k].level >= Cost[k]
                   THEN [visitors EXCEPT ![k].level = @ - Cost[k]]
                   ELSE visitors
    /\ req' = [req EXCEPT ![w] = Idle]

Capped(n, bound) == IF n < bound THEN n + 1 ELSE bound

\* A visitor idle for longer than its TTL counts as idle for TTL + 1.
Tick ==
  /\ \A w \in Workers : req[w] # Idle => req[w].stall < MaxStall
  /\ visitors' = [k \in Keys |->
       IF Present(k) THEN [level |-> Capped(visitors[k].level, Full[k]),
                           idle |-> Capped(visitors[k].idle, TTL[k] + 1)]
       ELSE Absent]
  /\ req' = [w \in Workers |->
       IF req[w] = Idle THEN Idle ELSE [req[w] EXCEPT !.stall = @ + 1]]

Next ==
  \/ \E w \in Workers, k \in Keys : Lookup(w, k)
  \/ \E w \in Workers : Allow(w)
  \/ Tick

Spec == Init /\ [][Next]_vars

-----------------------------------------------------------------------------
(* Properties *)

Visitor(k) == [level: 0..Full[k], idle: 0..(TTL[k] + 1)]

\* Types: no limiter of the map holds more than its burst, or less than
\* nothing (AuthRateLimitMiddleware).
TypeOK ==
  /\ DOMAIN visitors = Keys
  /\ \A k \in Keys : visitors[k] \in Visitor(k) \cup {Absent}
  /\ req \in [Workers -> [key: Keys, stall: 0..MaxStall] \cup {Idle}]

\* The limiter a request has looked up stays in the map until it is asked,
\* whoever evicts in between: two requests of one client never ask two
\* limiters (auth_rate_limit.go, Lock to Allow).
LookupStays ==
  \A w \in Workers : req[w] # Idle =>
    /\ Present(req[w].key)
    /\ visitors[req[w].key].idle <= req[w].stall

\* A client without a limiter has a full bucket.
Level == [k \in Keys |-> IF Present(k) THEN visitors[k].level ELSE Full[k]]

Bucket == INSTANCE TokenBucket WITH level <- Level

\* Evicting and making limiters again gives nobody a token: over any time the
\* middleware admits what one bucket for each client and path would, which is
\* never more than its burst and its rate (AuthRateLimitMiddleware, the limits
\* of app.go).
ImplementsTokenBucket == Bucket!Spec

=============================================================================
