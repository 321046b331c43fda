------------------------------ MODULE RateWindow ------------------------------
(***************************************************************************)
(* RateLimiter with an observer: at any moment it may start to count what  *)
(* one client is admitted to on one path.  The middleware does not see it. *)
(***************************************************************************)
EXTENDS RateLimiter

CONSTANT MaxWindow  \* bound: length of the longest window that is counted

ASSUME WindowAssumption == MaxWindow \in Nat

VARIABLE window  \* history: whose requests are counted, how many have been
                 \*   admitted so far, and for how long

NoWindow == [key |-> None, admitted |-> 0, length |-> 0]

\* The observer forgets what it has counted, if anything, and starts anew.
OpenWindow(k) ==
  /\ window' = [key |-> k, admitted |-> 0, length |-> 0]
  /\ UNCHANGED vars

\* Worker w's limiter has a token for it.
Passes(w) == visitors[req[w].key].level >= Cost[req[w].key]

CountAllow(w) ==
  /\ Allow(w)
  /\ window' = IF req[w].key = window.key /\ Passes(w)
               THEN [window EXCEPT !.admitted = @ + 1] ELSE window

CountTick ==
  /\ Tick
  /\ window' = IF window.key = None THEN window
               ELSE IF window.length < MaxWindow
               THEN [window EXCEPT !.length = @ + 1] ELSE NoWindow

WindowInit == Init /\ window = NoWindow

WindowNext ==
  \/ \E w \in Workers, k \in Keys : Lookup(w, k) /\ UNCHANGED window
  \/ \E w \in Workers : CountAllow(w)
  \/ CountTick
  \/ \E k \in Keys : OpenWindow(k)

WindowSpec == WindowInit /\ [][WindowNext]_<<vars, window>>

-----------------------------------------------------------------------------
\* Over any time whatever, from any moment on, a client is admitted on a path
\* no more often than the burst of its limiter and the rate of that time
\* allow, although limiters are evicted and made anew (PathRateLimit's Rate
\* and Burst in app.go).
RateHolds ==
  window.key # None =>
    window.admitted * Cost[window.key] <= Full[window.key] + window.length

=============================================================================
