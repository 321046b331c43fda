------------------------- MODULE LeaderboardCacheProofs -------------------------
(***************************************************************************)
(* Proofs about LeaderboardCache, for any pages, times to live and number  *)
(* of concurrent requests.                                                 *)
(***************************************************************************)
EXTENDS LeaderboardCache, TLAPS

-----------------------------------------------------------------------------
(* Requests and entries *)

\* The four shapes of a request.
LEMMA RequestIs ==
  ASSUME NEW r \in Request
  PROVE  /\ r.at \in {"idle", "query", "set", "invalidate"}
         /\ r.at = "idle" => r = Idle
         /\ r.at = "query" => r.key \in Keys
         /\ r.at = "set" => /\ r.key \in Keys /\ r.value \in 0..MaxVersion
                            /\ r.stall \in 0..MaxQuery /\ r.late \in BOOLEAN
         /\ r.at = "invalidate" => r.value \in 1..MaxVersion
BY DEF Request, Idle

LEMMA IdleIs == Idle \in Request /\ Idle.at = "idle"
BY DEF Request, Idle

\* A reader that misses,
LEMMA QueryIs ==
  ASSUME NEW k \in Keys
  PROVE  LET r == [Idle EXCEPT !.at = "query", !.key = k] IN
         r \in Request /\ r.at = "query" /\ r.key = k
<1>. DEFINE a == [Idle EXCEPT !.at = "query"]
            b == [a EXCEPT !.key = k]
<1>1. b = [Idle EXCEPT !.at = "query", !.key = k]
  OBVIOUS
<1>2. a \in [at: {"query"}, key: {None}, value: {0}, stall: {0}, late: {FALSE}]
  BY DEF Idle
<1>. HIDE DEF a
<1>3. /\ b \in [at: {"query"}, key: Keys, value: {0}, stall: {0}, late: {FALSE}]
      /\ b.key = k
  BY <1>2
<1>. HIDE DEF b
<1>4. b \in Request /\ b.at = "query" /\ b.key = k
  BY <1>3 DEF Request
<1>. QED
  BY <1>1, <1>4

\* an accept that has committed,
LEMMA AcceptIs ==
  ASSUME NEW v \in 1..MaxVersion
  PROVE  LET r == [Idle EXCEPT !.at = "invalidate", !.value = v] IN
         r \in Request /\ r.at = "invalidate" /\ r.value = v
<1>. DEFINE a == [Idle EXCEPT !.at = "invalidate"]
            b == [a EXCEPT !.value = v]
<1>1. b = [Idle EXCEPT !.at = "invalidate", !.value = v]
  OBVIOUS
<1>2. a \in [at: {"invalidate"}, key: {None}, value: {0}, stall: {0}, late: {FALSE}]
  BY DEF Idle
<1>. HIDE DEF a
<1>3. /\ b \in [at: {"invalidate"}, key: {None}, value: 1..MaxVersion, stall: {0},
                late: {FALSE}]
      /\ b.value = v
  BY <1>2
<1>. HIDE DEF b
<1>4. b \in Request /\ b.at = "invalidate" /\ b.value = v
  BY <1>3 DEF Request
<1>. QED
  BY <1>1, <1>4

\* a reader that has its data,
LEMMA SetIs ==
  ASSUME NEW r \in Request, r.at = "query", NEW v \in 0..MaxVersion
  PROVE  LET a == [r EXCEPT !.at = "set"]
             b == [a EXCEPT !.value = v]
         IN /\ b \in Request /\ b.at = "set" /\ b.key = r.key /\ b.value = v
            /\ b.stall = 0 /\ b.late = FALSE
<1>. DEFINE a == [r EXCEPT !.at = "set"]
            b == [a EXCEPT !.value = v]
<1>1. r \in [at: {"query"}, key: Keys, value: {0}, stall: {0}, late: {FALSE}]
  BY DEF Request
<1>2. /\ a \in [at: {"set"}, key: Keys, value: {0}, stall: {0}, late: {FALSE}]
      /\ a.key = r.key
  BY <1>1
<1>. HIDE DEF a
<1>3. /\ b \in [at: {"set"}, key: Keys, value: 0..MaxVersion, stall: {0}, late: {FALSE}]
      /\ b.key = a.key /\ b.value = v
  BY <1>2
<1>4. 0 \in 0..MaxQuery
  BY CacheAssumption
<1>. HIDE DEF b
<1>5. b \in Request
  BY <1>3, <1>4 DEF Request
<1>. QED
  BY <1>2, <1>3, <1>5 DEF a, b

\* one that waits to store it,
LEMMA StallIs ==
  ASSUME NEW r \in Request, r.at = "set", r.stall < MaxQuery
  PROVE  LET b == [r EXCEPT !.stall = @ + 1] IN
         /\ b \in Request /\ b.at = "set" /\ b.key = r.key /\ b.value = r.value
         /\ b.stall = r.stall + 1 /\ b.late = r.late
<1>0. r \in [at: {"set"}, key: Keys, value: 0..MaxVersion, stall: 0..MaxQuery,
             late: BOOLEAN]
  BY DEF Request
<1>1. r.stall + 1 \in 0..MaxQuery
  BY <1>0, CacheAssumption
<1>. QED
  BY <1>0, <1>1 DEF Request

\* and one that an InvalidateAll overtakes.
LEMMA LateIs ==
  ASSUME NEW r \in Request, NEW L
  PROVE  LET b == [r EXCEPT !.late = @ \/ (r.at = "set" /\ r.key \in L)] IN
         /\ b \in Request /\ b.at = r.at /\ b.key = r.key /\ b.value = r.value
         /\ b.stall = r.stall
         /\ r.at = "set" /\ r.key \in L => b.late
         /\ r.at = "set" /\ r.late => b.late
<1>. DEFINE late == r.late \/ (r.at = "set" /\ r.key \in L)
            b == [r EXCEPT !.late = late]
<1>1. late \in BOOLEAN
  OBVIOUS
<1>2. r.at # "set" => late = FALSE
  BY DEF Request
<1>. HIDE DEF late
<1>3. /\ b.at = r.at /\ b.key = r.key /\ b.value = r.value /\ b.stall = r.stall
      /\ b.late = late
  BY DEF Request
<1>4. b \in Request
  <2>1. CASE r.at = "set"
    <3>1. r \in [at: {"set"}, key: Keys, value: 0..MaxVersion, stall: 0..MaxQuery,
                 late: BOOLEAN]
      BY <2>1 DEF Request
    <3>. QED
      BY <1>1, <3>1 DEF Request
  <2>2. CASE r.at # "set"
    <3>1. r.late = FALSE
      BY <2>2 DEF Request
    <3>2. b = r
      BY <1>2, <2>2, <3>1 DEF Request
    <3>. QED
      BY <3>2
  <2>. QED
    BY <2>1, <2>2
<1>. QED
  BY <1>3, <1>4 DEF late

-----------------------------------------------------------------------------
(* The inductive invariant *)

Entry(k) == [value: 0..version, left: -1..TTL[k]]

\* What a reader has read is no older than it has been waiting for, and shows
\* every accept that is answered, unless an InvalidateAll has overtaken it.
ReadOK(r) ==
  /\ r.at \in {"set", "invalidate"} => r.value <= version
  /\ r.at = "set" /\ r.value < version => age[r.value + 1] <= r.stall
  /\ r.at = "set" /\ r.key \in Leaderboard /\ r.late = FALSE => settled <= r.value

\* An entry's data gets older as fast as the entry.
EntryOK(k) ==
  Hit(k) /\ entries[k].value < version =>
    age[entries[k].value + 1] + entries[k].left <= TTL[k] + MaxQuery

\* Accepts that are yet to come have no age.
AgesBegin == \A v \in 1..MaxVersion : version < v => age[v] = 0

Inv ==
  /\ TypeOK
  /\ \A w \in Workers : ReadOK(req[w])
  /\ \A k \in Keys : EntryOK(k)
  /\ AgesBegin
  /\ AcceptShows

\* What is shown was read from the database.
LEMMA HitIs ==
  ASSUME TypeOK, NEW k \in Keys, Hit(k)
  PROVE  /\ entries[k] \in Entry(k) /\ entries[k].value \in 0..version
         /\ entries[k].left \in 0..TTL[k]
<1>1. entries[k] # NoEntry
  BY DEF Hit, NoEntry
<1>2. entries[k] \in Entry(k)
  BY <1>1 DEF TypeOK, Entry
<1>3. TTL[k] \in Nat /\ version \in Nat
  BY CacheAssumption DEF TypeOK
<1>4. entries[k].value \in 0..version /\ entries[k].left \in -1..TTL[k]
  BY <1>2 DEF Entry
<1>. QED
  BY <1>2, <1>3, <1>4 DEF Hit

\* One request changes.
LEMMA OneRequest ==
  ASSUME TypeOK, NEW w \in Workers, NEW r \in Request, req' = [req EXCEPT ![w] = r]
  PROVE  /\ req' \in [Workers -> Request] /\ req'[w] = r
         /\ \A v \in Workers : v # w => req'[v] = req[v]
BY DEF TypeOK

LEMMA MoveInv ==
  ASSUME Inv, NEW w \in Workers, NEW r \in Request, req' = [req EXCEPT ![w] = r],
         ReadOK(r), UNCHANGED <<version, entries, age, settled, overtaken>>
  PROVE  Inv'
<1>1. /\ req' \in [Workers -> Request] /\ req'[w] = r
      /\ \A v \in Workers : v # w => req'[v] = req[v]
  BY OneRequest DEF Inv
<1>2. TypeOK'
  BY <1>1 DEF Inv, TypeOK, NoEntry
<1>3. \A v \in Workers : ReadOK(req[v])'
  BY <1>1 DEF Inv, ReadOK
<1>4. \A k \in Keys : EntryOK(k)'
  BY DEF Inv, EntryOK, Hit
<1>5. AgesBegin' /\ AcceptShows'
  BY DEF Inv, AgesBegin, AcceptShows, Hit
<1>. QED
  BY <1>2, <1>3, <1>4, <1>5 DEF Inv

LEMMA IdleOK == ReadOK(Idle)
BY DEF ReadOK, Idle

-----------------------------------------------------------------------------
(* Steps *)

LEMMA ReadInv ==
  ASSUME Inv, NEW w \in Workers,
         (\E k \in Keys : Get(w, k)) \/ Query(w) \/ QueryFails(w)
  PROVE  Inv'
<1>0. /\ req[w] \in Request /\ version \in 0..MaxVersion /\ settled \in 0..version
      /\ MaxVersion \in Nat
  BY CacheAssumption DEF Inv, TypeOK
<1>1. UNCHANGED <<version, entries, age, settled, overtaken>>
  BY DEF Get, Query, QueryFails
<1>2. ASSUME NEW k \in Keys, Get(w, k)
      PROVE  Inv'
  <2>. DEFINE r == [Idle EXCEPT !.at = "query", !.key = k]
  <2>1. r \in Request /\ ReadOK(r)
    <3>1. r \in Request /\ r.at = "query"
      BY QueryIs
    <3>. HIDE DEF r
    <3>. QED
      BY <3>1 DEF ReadOK
  <2>2. CASE req' = req
    <3>1. req' = [req EXCEPT ![w] = req[w]]
      BY <2>2 DEF Inv, TypeOK
    <3>. QED
      BY <1>0, <1>1, <3>1, MoveInv DEF Inv
  <2>3. CASE req' = [req EXCEPT ![w] = r]
    <3>. HIDE DEF r
    <3>. QED
      BY <1>1, <2>1, <2>3, MoveInv
  <2>. QED
    BY <1>2, <2>2, <2>3 DEF Get
<1>3. CASE Query(w)
  <2>. DEFINE a == [req[w] EXCEPT !.at = "set"]
              b == [a EXCEPT !.value = version]
  <2>1. /\ b \in Request /\ b.at = "set" /\ b.value = version
    BY <1>0, <1>3, SetIs DEF Query
  <2>2. req' = [req EXCEPT ![w] = b]
    BY <1>3 DEF Query, Inv, TypeOK
  <2>. HIDE DEF b
  <2>3. ReadOK(b)
    BY <1>0, <2>1 DEF ReadOK
  <2>. QED
    BY <1>1, <2>1, <2>2, <2>3, MoveInv
<1>4. CASE QueryFails(w)
  BY <1>1, <1>4, IdleIs, IdleOK, MoveInv DEF QueryFails
<1>. QED
  BY <1>2, <1>3, <1>4

LEMMA SetInv ==
  ASSUME Inv, NEW w \in Workers, Set(w)
  PROVE  Inv'
<1>. DEFINE r == req[w]
            k == r.key
            e == [value |-> r.value, left |-> TTL[k]]
<1>1. /\ r \in Request /\ r.at = "set" /\ k \in Keys /\ r.value \in 0..MaxVersion
      /\ r.stall \in 0..MaxQuery /\ ReadOK(r)
      /\ version \in 0..MaxVersion /\ TTL[k] \in Nat /\ MaxQuery \in Nat
      /\ MaxVersion \in Nat /\ r.late \in BOOLEAN
  BY RequestIs, CacheAssumption DEF Set, Inv, TypeOK
<1>2. /\ UNCHANGED <<version, age, settled>>
      /\ req' = [req EXCEPT ![w] = Idle]
      /\ entries' = [entries EXCEPT ![k] = e]
      /\ overtaken' = IF r.late THEN overtaken \cup {k} ELSE overtaken \ {k}
  BY DEF Set
<1>3. r.value \in 0..version
  BY <1>1 DEF ReadOK
<1>. HIDE DEF k, r
<1>4. /\ DOMAIN entries' = Keys /\ entries'[k] = e
      /\ \A x \in Keys : x # k => entries'[x] = entries[x]
  BY <1>1, <1>2 DEF Inv, TypeOK
<1>5. e \in Entry(k) /\ e.value = r.value /\ e.left = TTL[k]
  BY <1>1, <1>3 DEF Entry
<1>. HIDE DEF e
<1>6. /\ req' \in [Workers -> Request] /\ req'[w] = Idle
      /\ \A v \in Workers : v # w => req'[v] = req[v]
  BY <1>2, IdleIs, OneRequest DEF Inv
<1>7. TypeOK'
  <2>1. \A x \in Keys : entries'[x] \in [value: 0..version', left: -1..TTL[x]] \cup {NoEntry}
    BY <1>2, <1>4, <1>5 DEF Inv, TypeOK, Entry
  <2>2. overtaken' \subseteq Keys
    BY <1>1, <1>2 DEF Inv, TypeOK
  <2>. QED
    BY <1>2, <1>4, <1>6, <2>1, <2>2 DEF Inv, TypeOK, NoEntry
<1>8. \A v \in Workers : ReadOK(req[v])'
  <2>1. ReadOK(Idle)'
    BY DEF ReadOK, Idle
  <2>. QED
    BY <1>2, <1>6, <2>1 DEF Inv, ReadOK
<1>9. ASSUME NEW x \in Keys
      PROVE  EntryOK(x)'
  <2>1. CASE x # k
    BY <1>2, <1>4, <1>9, <2>1 DEF Inv, EntryOK, Hit
  <2>2. CASE x = k
    <3>1. ASSUME r.value < version
          PROVE  age[r.value + 1] + TTL[k] <= TTL[k] + MaxQuery
      <4>1. age[r.value + 1] <= r.stall
        BY <1>1, <3>1 DEF ReadOK
      <4>2. age[r.value + 1] \in Nat
        <5>1. r.value + 1 \in 1..MaxVersion
          BY <1>1, <3>1
        <5>2. age \in [1..MaxVersion -> 0..MaxAge] /\ MaxAge \in Nat
          BY CacheAssumption DEF Inv, TypeOK
        <5>. QED
          BY <5>1, <5>2
      <4>. QED
        BY <1>1, <4>1, <4>2
    <3>. QED
      BY <1>2, <1>4, <1>5, <2>2, <3>1 DEF EntryOK
  <2>. QED
    BY <2>1, <2>2
<1>10. AcceptShows'
  <2>1. ASSUME NEW x \in Leaderboard, x \notin overtaken', Hit(x)'
        PROVE  entries'[x].value >= settled
    <3>0. x \in Keys
      BY CacheAssumption
    <3>1. CASE x # k
      <4>1. x \notin overtaken /\ Hit(x)
        BY <1>2, <1>4, <2>1, <3>0, <3>1 DEF Hit
      <4>. QED
        BY <1>4, <3>0, <3>1, <4>1 DEF Inv, AcceptShows
    <3>2. CASE x = k
      <4>1. r.late = FALSE
        BY <1>1, <1>2, <2>1, <3>2
      <4>2. settled <= r.value
        BY <1>1, <2>1, <3>2, <4>1 DEF ReadOK, k
      <4>. QED
        BY <1>4, <1>5, <3>2, <4>2
    <3>. QED
      BY <3>1, <3>2
  <2>. QED
    BY <1>2, <2>1 DEF AcceptShows
<1>11. AgesBegin'
  BY <1>2 DEF Inv, AgesBegin
<1>. QED
  BY <1>7, <1>8, <1>9, <1>10, <1>11 DEF Inv

LEMMA AcceptInv ==
  ASSUME Inv, NEW w \in Workers, Accept(w)
  PROVE  Inv'
<1>. DEFINE a == [Idle EXCEPT !.at = "invalidate"]
            b == [a EXCEPT !.value = version + 1]
<1>1. /\ version \in 0..MaxVersion /\ version < MaxVersion /\ version' = version + 1
      /\ MaxVersion \in Nat /\ MaxQuery \in Nat /\ MaxAge \in Nat
      /\ UNCHANGED <<entries, age, settled, overtaken>>
      /\ version + 1 \in 1..MaxVersion /\ settled \in 0..version
  BY CacheAssumption DEF Accept, Inv, TypeOK
<1>2. b \in Request /\ b.at = "invalidate" /\ b.value = version + 1
  BY <1>1, AcceptIs
<1>3. req' = [req EXCEPT ![w] = b]
  BY DEF Accept
<1>. HIDE DEF a, b
<1>4. /\ req' \in [Workers -> Request] /\ req'[w] = b
      /\ \A v \in Workers : v # w => req'[v] = req[v]
  BY <1>2, <1>3, OneRequest DEF Inv
<1>5. TypeOK'
  <2>1. ASSUME NEW k \in Keys
        PROVE  entries'[k] \in [value: 0..version', left: -1..TTL[k]] \cup {NoEntry}
    BY <1>1 DEF Inv, TypeOK
  <2>. QED
    BY <1>1, <1>4, <2>1 DEF Inv, TypeOK, NoEntry
<1>6. age[version + 1] = 0
  BY <1>1 DEF Inv, AgesBegin
<1>7. ASSUME NEW v \in Workers
      PROVE  ReadOK(req[v])'
  <2>1. CASE v = w
    BY <1>1, <1>2, <1>4, <2>1 DEF ReadOK
  <2>2. CASE v # w
    <3>1. req'[v] = req[v] /\ req[v] \in Request /\ ReadOK(req[v])
      BY <1>4, <2>2 DEF Inv, TypeOK
    <3>. DEFINE r == req[v]
    <3>2. r.at = "set" => r.value \in 0..MaxVersion /\ r.stall \in 0..MaxQuery
      BY <3>1, RequestIs
    <3>3. r.at = "invalidate" => r.value \in 1..MaxVersion
      BY <3>1, RequestIs
    <3>. HIDE DEF r
    <3>4. r.at \in {"set", "invalidate"} => r.value <= version + 1
      BY <1>1, <3>1, <3>2, <3>3 DEF ReadOK, r
    <3>5. r.at = "set" /\ r.value < version + 1 => age[r.value + 1] <= r.stall
      <4>1. CASE r.value = version
        BY <1>1, <1>6, <3>2, <4>1
      <4>2. CASE r.value # version
        BY <1>1, <3>1, <3>2, <4>2 DEF ReadOK, r
      <4>. QED
        BY <4>1, <4>2
    <3>. QED
      BY <1>1, <3>1, <3>4, <3>5 DEF ReadOK, r
  <2>. QED
    BY <2>1, <2>2
<1>8. ASSUME NEW k \in Keys
      PROVE  EntryOK(k)'
  <2>1. ASSUME Hit(k), entries[k].value < version + 1
        PROVE  age[entries[k].value + 1] + entries[k].left <= TTL[k] + MaxQuery
    <3>1. entries[k].value \in 0..version /\ entries[k].left \in 0..TTL[k]
      BY <2>1, HitIs DEF Inv
    <3>2. TTL[k] \in Nat
      BY CacheAssumption
    <3>3. CASE entries[k].value = version
      BY <1>1, <1>6, <3>1, <3>2, <3>3
    <3>4. CASE entries[k].value # version
      BY <1>1, <2>1, <3>1, <3>4 DEF Inv, EntryOK
    <3>. QED
      BY <3>3, <3>4
  <2>. QED
    BY <1>1, <2>1 DEF EntryOK, Hit
<1>9. AgesBegin'
  BY <1>1 DEF Inv, AgesBegin
<1>10. AcceptShows'
  BY <1>1 DEF Inv, AcceptShows, Hit
<1>. QED
  BY <1>5, <1>7, <1>8, <1>9, <1>10 DEF Inv

LEMMA InvalidateInv ==
  ASSUME Inv, NEW w \in Workers, InvalidateAll(w)
  PROVE  Inv'
<1>1. /\ req[w] \in Request /\ req[w].at = "invalidate" /\ ReadOK(req[w])
      /\ version \in 0..MaxVersion /\ settled \in 0..version /\ MaxVersion \in Nat
      /\ Leaderboard \subseteq Keys
  BY CacheAssumption DEF InvalidateAll, Inv, TypeOK
<1>2. req[w].value \in 1..MaxVersion /\ req[w].value <= version
  BY <1>1, RequestIs DEF ReadOK
<1>3. /\ UNCHANGED <<version, age>>
      /\ settled' \in 0..version
      /\ overtaken' = overtaken \ Leaderboard
      /\ entries' = [k \in Keys |-> IF k \in Leaderboard THEN NoEntry ELSE entries[k]]
  BY <1>1, <1>2 DEF InvalidateAll, Emptied
<1>4. ASSUME NEW v \in Workers
      PROVE  req'[v] \in Request /\ ReadOK(req[v])'
  <2>1. CASE v = w
    <3>1. req'[v] = Idle
      BY <2>1 DEF InvalidateAll
    <3>2. ReadOK(Idle)'
      BY DEF ReadOK, Idle
    <3>. QED
      BY <3>1, <3>2, IdleIs
  <2>2. CASE v # w
    <3>. DEFINE r == req[v]
                b == [r EXCEPT !.late = @ \/ (r.at = "set" /\ r.key \in Leaderboard)]
    <3>1. req'[v] = b
      BY <2>2 DEF InvalidateAll
    <3>2. r \in Request /\ ReadOK(r)
      BY DEF Inv, TypeOK
    <3>3. /\ b \in Request /\ b.at = r.at /\ b.key = r.key /\ b.value = r.value
          /\ b.stall = r.stall /\ (r.at = "set" /\ r.key \in Leaderboard => b.late)
      BY <3>2, LateIs
    <3>. HIDE DEF b
    <3>4. ReadOK(req[v])'
      BY <1>3, <3>1, <3>2, <3>3 DEF ReadOK
    <3>. QED
      BY <3>1, <3>3, <3>4
  <2>. QED
    BY <2>1, <2>2
<1>5. TypeOK'
  <2>1. req' \in [Workers -> Request]
    BY <1>4 DEF InvalidateAll
  <2>2. DOMAIN entries' = Keys
    BY <1>3
  <2>3. ASSUME NEW k \in Keys
        PROVE  entries'[k] \in [value: 0..version', left: -1..TTL[k]] \cup {NoEntry}
    BY <1>3 DEF Inv, TypeOK
  <2>. QED
    BY <1>3, <2>1, <2>2, <2>3 DEF Inv, TypeOK, NoEntry
<1>6. ASSUME NEW k \in Keys, Hit(k)'
      PROVE  k \notin Leaderboard /\ entries'[k] = entries[k]
  BY <1>3, <1>6 DEF Hit, NoEntry
<1>7. ASSUME NEW k \in Keys
      PROVE  EntryOK(k)'
  BY <1>3, <1>6 DEF Inv, EntryOK, Hit
<1>8. AgesBegin' /\ AcceptShows'
  BY <1>1, <1>3, <1>6 DEF Inv, AgesBegin, AcceptShows
<1>. QED
  BY <1>4, <1>5, <1>7, <1>8 DEF Inv

LEMMA RestartInv ==
  ASSUME Inv, Restart
  PROVE  Inv'
<1>1. /\ UNCHANGED <<version, age, settled>> /\ overtaken' = {}
      /\ entries' = [k \in Keys |-> NoEntry]
      /\ req' = [w \in Workers |-> Idle]
  BY DEF Restart
<1>2. TypeOK'
  BY <1>1, IdleIs DEF Inv, TypeOK, NoEntry
<1>3. ReadOK(Idle)'
  BY DEF ReadOK, Idle
<1>4. \A k \in Keys : ~Hit(k)'
  BY <1>1 DEF Hit, NoEntry
<1>5. AcceptShows'
  BY <1>4, CacheAssumption DEF AcceptShows
<1>6. AgesBegin' /\ \A k \in Keys : EntryOK(k)'
  BY <1>1, <1>4 DEF Inv, AgesBegin, EntryOK
<1>. QED
  BY <1>1, <1>2, <1>3, <1>5, <1>6 DEF Inv

LEMMA TickInv ==
  ASSUME Inv, Tick
  PROVE  Inv'
<1>1. /\ UNCHANGED <<version, settled, overtaken>>
      /\ version \in 0..MaxVersion /\ MaxVersion \in Nat /\ MaxAge \in Nat
      /\ MaxQuery \in Nat /\ settled \in 0..version
  BY CacheAssumption DEF Tick, Inv, TypeOK
<1>2. ASSUME NEW v \in 1..MaxVersion
      PROVE  /\ age[v] \in 0..MaxAge /\ age'[v] \in 0..MaxAge
             /\ age'[v] <= age[v] + 1
             /\ version < v => age'[v] = age[v]
  <2>1. age[v] \in 0..MaxAge
    BY DEF Inv, TypeOK
  <2>2. age'[v] = IF v <= version /\ age[v] < MaxAge THEN age[v] + 1 ELSE age[v]
    BY DEF Tick
  <2>. QED
    BY <1>1, <2>1, <2>2
<1>3. ASSUME NEW w \in Workers
      PROVE  req'[w] \in Request /\ ReadOK(req[w])'
  <2>. DEFINE r == req[w]
              b == [r EXCEPT !.stall = @ + 1]
  <2>1. r \in Request /\ ReadOK(r)
    BY DEF Inv, TypeOK
  <2>2. CASE r.at = "set"
    <3>1. req'[w] = b /\ r.stall < MaxQuery
      BY <2>2 DEF Tick
    <3>2. /\ b \in Request /\ b.at = "set" /\ b.key = r.key /\ b.value = r.value
          /\ b.stall = r.stall + 1 /\ b.late = r.late
      BY <2>1, <2>2, <3>1, StallIs
    <3>3. r.value \in 0..MaxVersion /\ r.stall \in 0..MaxQuery
      BY <2>1, <2>2, RequestIs
    <3>0. r = req[w]
      OBVIOUS
    <3>. HIDE DEF b, r
    <3>4. ASSUME b.value < version
          PROVE  age'[b.value + 1] <= b.stall
      <4>1. r.value + 1 \in 1..MaxVersion
        BY <1>1, <3>2, <3>3, <3>4
      <4>2. age[r.value + 1] <= r.stall
        BY <2>1, <2>2, <3>2, <3>4 DEF ReadOK
      <4>3. age'[r.value + 1] <= age[r.value + 1] + 1 /\ age[r.value + 1] \in Int
            /\ age'[r.value + 1] \in Int
        BY <1>1, <1>2, <4>1
      <4>. QED
        BY <3>2, <3>3, <4>2, <4>3
    <3>5. ReadOK(req[w])'
      BY <1>1, <2>1, <2>2, <3>1, <3>2, <3>0, <3>4 DEF ReadOK
    <3>. QED
      BY <3>1, <3>2, <3>5
  <2>3. CASE r.at # "set"
    <3>1. req'[w] = r
      BY <2>3 DEF Tick
    <3>. QED
      BY <1>1, <2>1, <2>3, <3>1 DEF ReadOK
  <2>. QED
    BY <2>2, <2>3
<1>4. ASSUME NEW k \in Keys
      PROVE  /\ entries'[k] \in Entry(k) \cup {NoEntry}
             /\ Hit(k)' => /\ Hit(k) /\ entries'[k].value = entries[k].value
                           /\ entries'[k].left = entries[k].left - 1
  <2>1. entries'[k] = IF entries[k].left >= 0
                      THEN [entries[k] EXCEPT !.left = @ - 1] ELSE entries[k]
    BY DEF Tick
  <2>2. CASE entries[k] = NoEntry
    <3>1. entries'[k] = NoEntry
      BY <2>1, <2>2 DEF NoEntry
    <3>. QED
      BY <3>1 DEF Hit, NoEntry
  <2>3. CASE entries[k] # NoEntry
    <3>1. entries[k] \in Entry(k) /\ TTL[k] \in Nat
      BY <2>3, CacheAssumption DEF Inv, TypeOK, Entry
    <3>2. CASE entries[k].left >= 0
      <4>1. entries[k].left - 1 \in -1..TTL[k]
        BY <3>1, <3>2 DEF Entry
      <4>2. /\ entries'[k] \in Entry(k) /\ entries'[k].value = entries[k].value
            /\ entries'[k].left = entries[k].left - 1
        BY <2>1, <3>1, <3>2, <4>1 DEF Entry
      <4>. QED
        BY <3>2, <4>2 DEF Hit
    <3>3. CASE ~(entries[k].left >= 0)
      <4>1. entries'[k] = entries[k]
        BY <2>1, <3>3
      <4>. QED
        BY <3>1, <3>3, <4>1 DEF Hit
    <3>. QED
      BY <3>2, <3>3
  <2>. QED
    BY <2>2, <2>3
<1>5. TypeOK'
  <2>1. req' \in [Workers -> Request]
    BY <1>3 DEF Tick
  <2>2. DOMAIN entries' = Keys
    BY DEF Tick
  <2>3. age' \in [1..MaxVersion -> 0..MaxAge]
    BY <1>2 DEF Tick
  <2>. QED
    BY <1>1, <1>4, <2>1, <2>2, <2>3 DEF Inv, TypeOK, NoEntry, Entry
<1>6. ASSUME NEW k \in Keys
      PROVE  EntryOK(k)'
  <2>1. ASSUME Hit(k)', entries'[k].value < version
        PROVE  age'[entries'[k].value + 1] + entries'[k].left <= TTL[k] + MaxQuery
    <3>1. /\ Hit(k) /\ entries'[k].value = entries[k].value
          /\ entries'[k].left = entries[k].left - 1
      BY <1>4, <2>1
    <3>2. /\ entries[k].value \in 0..version /\ entries[k].left \in 0..TTL[k]
          /\ TTL[k] \in Nat
      BY <3>1, HitIs, CacheAssumption DEF Inv
    <3>3. entries[k].value + 1 \in 1..MaxVersion
      BY <1>1, <2>1, <3>1, <3>2
    <3>. DEFINE x == entries[k].value + 1
    <3>4. age[x] \in Int /\ age'[x] \in Int /\ age'[x] <= age[x] + 1
      BY <1>1, <1>2, <3>3
    <3>5. age[x] + entries[k].left <= TTL[k] + MaxQuery
      BY <2>1, <3>1 DEF Inv, EntryOK
    <3>6. entries'[k].value + 1 = x
      BY <3>1
    <3>. HIDE DEF x
    <3>7. age'[x] + entries'[k].left <= TTL[k] + MaxQuery
      BY <1>1, <3>1, <3>2, <3>4, <3>5
    <3>. QED
      BY <3>6, <3>7
  <2>. QED
    BY <1>1, <2>1 DEF EntryOK
<1>7. AgesBegin'
  BY <1>1, <1>2 DEF Inv, AgesBegin
<1>8. AcceptShows'
  BY <1>1, <1>4, CacheAssumption DEF Inv, AcceptShows
<1>. QED
  BY <1>3, <1>5, <1>6, <1>7, <1>8 DEF Inv

-----------------------------------------------------------------------------
(* The theorems *)

LEMMA InitInv == Init => Inv
<1>. SUFFICES ASSUME Init
              PROVE  Inv
  OBVIOUS
<1>1. TypeOK
  BY CacheAssumption, IdleIs DEF Init, TypeOK
<1>2. \A w \in Workers : ReadOK(req[w])
  BY IdleOK DEF Init
<1>3. \A k \in Keys : ~Hit(k)
  BY DEF Init, Hit, NoEntry
<1>4. (\A k \in Keys : EntryOK(k)) /\ AcceptShows
  BY <1>3, CacheAssumption DEF EntryOK, AcceptShows
<1>5. AgesBegin
  BY DEF Init, AgesBegin
<1>. QED
  BY <1>1, <1>2, <1>4, <1>5 DEF Inv

LEMMA NextInv == Inv /\ [Next]_vars => Inv'
<1>. SUFFICES ASSUME Inv, [Next]_vars
              PROVE  Inv'
  OBVIOUS
<1>1. CASE UNCHANGED vars
  <2>1. UNCHANGED <<version, entries, req, age, settled, overtaken>>
    BY <1>1 DEF vars
  <2>2. TypeOK'
    BY <2>1 DEF Inv, TypeOK, NoEntry
  <2>3. (\A w \in Workers : ReadOK(req[w])') /\ \A k \in Keys : EntryOK(k)'
    BY <2>1 DEF Inv, ReadOK, EntryOK, Hit
  <2>4. AgesBegin' /\ AcceptShows'
    BY <2>1 DEF Inv, AgesBegin, AcceptShows, Hit
  <2>. QED
    BY <2>2, <2>3, <2>4 DEF Inv
<1>2. CASE Next
  BY <1>2, ReadInv, SetInv, AcceptInv, InvalidateInv, RestartInv, TickInv DEF Next
<1>. QED
  BY <1>1, <1>2

LEMMA Invariant == Spec => []Inv
BY InitInv, NextInv, PTL DEF Spec

\* Only what the database has answered is ever stored, and no entry lives
\* longer than the time to live of its cache.
THEOREM TypeCorrect == Spec => []TypeOK
<1>1. Inv => TypeOK
  BY DEF Inv
<1>. QED
  BY <1>1, Invariant, PTL

\* What a reader may be shown is at most a time to live and a query out of
\* date, whatever readers, accepts and restarts do meanwhile.
THEOREM StalenessIsBounded == Spec => []StalenessBounded
<1>1. Inv => StalenessBounded
  <2>. SUFFICES ASSUME Inv, NEW k \in Keys, Hit(k), entries[k].value < version
                PROVE  age[entries[k].value + 1] <= TTL[k] + MaxQuery
    BY DEF StalenessBounded
  <2>1. entries[k].value \in 0..version /\ entries[k].left \in 0..TTL[k]
    BY HitIs DEF Inv
  <2>2. /\ version \in 0..MaxVersion /\ MaxVersion \in Nat /\ MaxAge \in Nat
        /\ age \in [1..MaxVersion -> 0..MaxAge] /\ TTL[k] \in Nat /\ MaxQuery \in Nat
    BY CacheAssumption DEF Inv, TypeOK
  <2>3. age[entries[k].value + 1] + entries[k].left <= TTL[k] + MaxQuery
    BY DEF Inv, EntryOK
  <2>4. entries[k].value + 1 \in 1..MaxVersion
    BY <2>1, <2>2
  <2>5. age[entries[k].value + 1] \in Nat
    BY <2>2, <2>4
  <2>. DEFINE x == age[entries[k].value + 1]
              y == entries[k].left
  <2>6. /\ x \in Nat /\ y \in Nat /\ TTL[k] \in Nat /\ MaxQuery \in Nat
        /\ x + y <= TTL[k] + MaxQuery
    BY <2>1, <2>2, <2>3, <2>5
  <2>. HIDE DEF x, y
  <2>7. x <= TTL[k] + MaxQuery
    BY <2>6
  <2>. QED
    BY <2>7 DEF x
<1>. QED
  BY <1>1, Invariant, PTL

\* Once an accept is answered, every page that no overtaken reader has put
\* back shows it.
THEOREM AcceptsShow == Spec => []AcceptShows
<1>1. Inv => AcceptShows
  BY DEF Inv
<1>. QED
  BY <1>1, Invariant, PTL

=============================================================================
