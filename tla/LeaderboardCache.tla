---------------------------- MODULE LeaderboardCache ----------------------------
(***************************************************************************)
(* The two caches of the hug service: leaderboard pages, thrown away after *)
(* every accepted hug, and the activity chart, which only runs out.  Both  *)
(* are filled from the database with no lock held between the SELECT and   *)
(* the Set, so a reader may put back what an accept has just thrown away.  *)
(*                                                                         *)
(* Data read from the database is the number of accepts it contains.       *)
(***************************************************************************)
EXTENDS Integers

CONSTANTS
  Keys,         \* the leaderboard pages asked for, and "activity"
  Leaderboard,  \* the keys of the leaderboard's cache
  TTL,          \* the time to live of a key's cache
  Workers,      \* requests that may be in progress at the same time
  None,         \* the value of an unused field
  MaxQuery,     \* bound: time a reader may take from its SELECT to its Set
  MaxVersion,   \* bound: accepted hugs
  MaxAge        \* bound: ages beyond it are not told apart

ASSUME CacheAssumption ==
  /\ Leaderboard \subseteq Keys
  /\ TTL \in [Keys -> Nat]
  /\ None \notin Keys /\ None \notin Nat
  /\ MaxQuery \in Nat \ {0}
  /\ MaxVersion \in Nat /\ MaxAge \in Nat
  /\ \A k \in Keys : TTL[k] + MaxQuery < MaxAge

VARIABLES
  version,    \* accepts committed to the database
  entries,    \* the caches' maps: value and time left until expiresAt
  req,        \* what each worker is doing
  age,        \* history: time since each accept was committed
  settled,    \* history: the last accept that has also run InvalidateAll
  overtaken   \* history: keys set by a reader that an InvalidateAll overtook

vars == <<version, entries, req, age, settled, overtaken>>

NoEntry == [value |-> None, left |-> -1]
Idle == [at |-> "idle", key |-> None, value |-> 0, stall |-> 0, late |-> FALSE]

Init ==
  /\ version = 0
  /\ entries = [k \in Keys |-> NoEntry]
  /\ req = [w \in Workers |-> Idle]
  /\ age = [v \in 1..MaxVersion |-> 0]
  /\ settled = 0
  /\ overtaken = {}

-----------------------------------------------------------------------------
(* cache.TTL *)

\* Mutant of Hit: Get does not look at expiresAt.
HitForever(k) == entries[k].value # None

\* Get finds an entry that has not expired.  Expired entries stay in the map.
Hit(k) == entries[k].value # None /\ entries[k].left >= 0

\* Mutant of Emptied: only what has expired is swept out.
EmptiedExpired(old) ==
  [k \in Keys |-> IF k \in Leaderboard /\ ~Hit(k) THEN NoEntry ELSE old[k]]

\* The maps after leaderboardCache.InvalidateAll().
Emptied(old) == [k \in Keys |-> IF k \in Leaderboard THEN NoEntry ELSE old[k]]

-----------------------------------------------------------------------------
(* GetLeaderboard and GetHugActivity *)

\* Mutant of Get: a hit renews the entry.
GetRenews(w, k) ==
  /\ req[w] = Idle
  /\ IF Hit(k)
     THEN entries' = [entries EXCEPT ![k].left = TTL[k]] /\ req' = req
     ELSE /\ req' = [req EXCEPT ![w] = [Idle EXCEPT !.at = "query", !.key = k]]
          /\ entries' = entries
  /\ UNCHANGED <<version, age, settled, overtaken>>

\* A hit is the answer; a miss goes to the database.
Get(w, k) ==
  /\ req[w] = Idle
  /\ req' = IF Hit(k) THEN req
            ELSE [req EXCEPT ![w] = [Idle EXCEPT !.at = "query", !.key = k]]
  /\ UNCHANGED <<version, entries, age, settled, overtaken>>

Query(w) ==
  /\ req[w].at = "query"
  /\ req' = [req EXCEPT ![w].at = "set", ![w].value = version]
  /\ UNCHANGED <<version, entries, age, settled, overtaken>>

\* Mutant of QueryFails: the error is not looked at.
QueryFailsStored(w) ==
  /\ req[w].at = "query"
  /\ req' = [req EXCEPT ![w].at = "set", ![w].value = None]
  /\ UNCHANGED <<version, entries, age, settled, overtaken>>

\* The query fails: nothing is stored.
QueryFails(w) ==
  /\ req[w].at = "query"
  /\ req' = [req EXCEPT ![w] = Idle]
  /\ UNCHANGED <<version, entries, age, settled, overtaken>>

\* Set stores whatever was read, over whatever is there.
Set(w) ==
  LET k == req[w].key IN
    /\ req[w].at = "set"
    /\ entries' = [entries EXCEPT ![k] = [value |-> req[w].value, left |-> TTL[k]]]
    /\ overtaken' = IF req[w].late THEN overtaken \cup {k} ELSE overtaken \ {k}
    /\ req' = [req EXCEPT ![w] = Idle]
    /\ UNCHANGED <<version, age, settled>>

-----------------------------------------------------------------------------
(* AcceptHug, seen from the caches *)

\* The transaction commits.
Accept(w) ==
  /\ req[w] = Idle
  /\ version < MaxVersion
  /\ version' = version + 1
  /\ req' = [req EXCEPT ![w] = [Idle EXCEPT !.at = "invalidate", !.value = version + 1]]
  /\ UNCHANGED <<entries, age, settled, overtaken>>

\* InvalidateAll, after which the accept is answered.
InvalidateAll(w) ==
  /\ req[w].at = "invalidate"
  /\ entries' = Emptied(entries)
  /\ settled' = IF req[w].value > settled THEN req[w].value ELSE settled
  /\ overtaken' = overtaken \ Leaderboard
  /\ req' = [i \in Workers |->
       IF i = w THEN Idle
       ELSE [req[i] EXCEPT !.late = @ \/ (req[i].at = "set" /\ req[i].key \in Leaderboard)]]
  /\ UNCHANGED <<version, age>>

-----------------------------------------------------------------------------

\* The process stops and starts again: the caches are in its memory.
Restart ==
  /\ entries' = [k \in Keys |-> NoEntry]
  /\ req' = [w \in Workers |-> Idle]
  /\ overtaken' = {}
  /\ UNCHANGED <<version, age, settled>>

Tick ==
  /\ \A w \in Workers : req[w].at = "set" => req[w].stall < MaxQuery
  /\ entries' = [k \in Keys |->
       IF entries[k].left >= 0 THEN [entries[k] EXCEPT !.left = @ - 1] ELSE entries[k]]
  /\ req' = [w \in Workers |->
       IF req[w].at = "set" THEN [req[w] EXCEPT !.stall = @ + 1] ELSE req[w]]
  /\ age' = [v \in 1..MaxVersion |->
       IF v <= version /\ age[v] < MaxAge THEN age[v] + 1 ELSE age[v]]
  /\ UNCHANGED <<version, settled, overtaken>>

Next ==
  \/ \E w \in Workers :
       \/ \E k \in Keys : Get(w, k)
       \/ Query(w)
       \/ QueryFails(w)
       \/ Set(w)
       \/ Accept(w)
       \/ InvalidateAll(w)
  \/ Restart
  \/ Tick

Spec == Init /\ [][Next]_vars

\* Time passes, and a request that has its data stores it.
FairSpec == Spec /\ WF_vars(Tick) /\ \A w \in Workers : WF_vars(Set(w))

-----------------------------------------------------------------------------
(* Properties *)

Request ==
  [at: {"idle"}, key: {None}, value: {0}, stall: {0}, late: {FALSE}]
    \cup [at: {"query"}, key: Keys, value: {0}, stall: {0}, late: {FALSE}]
    \cup [at: {"set"}, key: Keys, value: 0..MaxVersion, stall: 0..MaxQuery, late: BOOLEAN]
    \cup [at: {"invalidate"}, key: {None}, value: 1..MaxVersion, stall: {0}, late: {FALSE}]

\* Types: only what the database has answered is ever stored, and no entry
\* has longer to live than its cache's TTL (cache.TTL).
TypeOK ==
  /\ version \in 0..MaxVersion
  /\ DOMAIN entries = Keys
  /\ \A k \in Keys :
       entries[k] \in [value: 0..version, left: -1..TTL[k]] \cup {NoEntry}
  /\ req \in [Workers -> Request]
  /\ age \in [1..MaxVersion -> 0..MaxAge]
  /\ settled \in 0..version
  /\ overtaken \subseteq Keys

\* What a reader may be shown is at most TTL plus one query out of date,
\* whatever readers, accepts and restarts do meanwhile (GetLeaderboard and
\* GetHugActivity: "stale-tolerant").
StalenessBounded ==
  \A k \in Keys : Hit(k) /\ entries[k].value < version =>
    age[entries[k].value + 1] <= TTL[k] + MaxQuery

\* Once an accept is answered, the leaderboard shows it on every page, except
\* on those an overtaken reader has put back (AcceptHug, InvalidateAll).
AcceptShows ==
  \A k \in Leaderboard \ overtaken : Hit(k) => entries[k].value >= settled

\* When the last hug has been accepted, both caches come to show it for good:
\* also the page an overtaken reader put back, and the activity chart, which
\* nothing invalidates (cache.TTL.Get).
CachesCatchUp ==
  (version = MaxVersion)
    ~> [](\A k \in Keys : Hit(k) => entries[k].value = version)

=============================================================================
