# TLA+ models of PRODHugs

PRODHugs is a Go backend (`src/backend`) for giving hugs: a user suggests a hug
to another, who accepts or declines it; accepted hugs pay both a coin and start
a cooldown for the pair; coins buy shorter cooldowns and more slots for pending
suggestions; a daily reward grows with a streak; a WebSocket hub tells browsers
who is online; accounts have sessions of rotating refresh tokens, and a rate
limiter stands before the routes that create them. This directory holds TLA+
modules of the parts of the backend whose correctness depends on the order of
events, configurations that check them with TLC, and proofs that TLAPS checks.

Contents: 1 inventory, 2 modules and code, 3 runs, 4 fairness, 5 proofs,
6 divergences and observations, 7 what is left out, 8 plan.

## 1. Inventory of the system

All paths are under `src/backend/internal` unless they say otherwise.

| Component | State | Operations | Talks to | Module |
|---|---|---|---|---|
| Hug lifecycle (`service/hug/hug.go`, `repository/hug`) | table `hugs` | suggest, accept, decline, cancel | cooldowns, balances, blocks, slots in its transactions; notifications and cache after them | `HugService` |
| Expiry job (`app/app.go`) | table `hugs` | every 5 minutes, one UPDATE | races the handlers for rows | `HugService` |
| Pair cooldowns (`repository/hug/cooldown.go`) | table `hug_cooldowns`, a row per pair | start on accept, decline cooldown, paid reduction | read by suggest | `HugService` |
| Balances and purchases (`repository/balance`, `service/hug/queries.go`) | `balances.amount`, `users.hug_slots` | earn, deduct, upgrade a cooldown, buy a slot, set by an administrator | every paying operation | `HugService`, `DailyReward` |
| Blocks (`repository/block`) | `user_blocks` | block, unblock | read by suggest, outside its transaction | `HugService` |
| Transactor (`repository/transactor.go`) | one PostgreSQL transaction | begin, commit, roll back | all of the above | `HugService`, `DailyReward` |
| Daily reward (`service/hug/queries.go`) | `daily_rewards` | claim | balances | `DailyReward` |
| WebSocket hub (`ws/hub.go`) | `clients`, `userIndex`, a send channel for each connection, an RWMutex | connect, disconnect, broadcast, send to a user | called by hug service goroutines | `WsHub` |
| Leaderboard and activity caches (`cache/cache.go`, `service/hug/queries.go`) | values with an expiry time | get, set, invalidate all | hug service | `LeaderboardCache` |
| Accounts and refresh tokens (`service/user`, `transport/http/v1/user/auth.go`, `repository/token`) | `users`, `refresh_tokens` | register, log in, refresh (rotate), log out | JWT manager | `Accounts` |
| Administration (`service/user/admin.go`) | users, balances | ban, unban, delete, set a balance | the tables above, without locks | `Accounts`, `HugService` |
| Rate limiter (`transport/http/middleware/auth_rate_limit.go`) | a map of limiters under a mutex | look up and evict, ask | the routes of `auth` | `RateLimiter` |
| Hug notifications (`service/hug/hug.go`, `service.go`) | none (goroutines) | after each commit, tell hub and Telegram | hub, Telegram | none, see 7 |
| Telegram linking (`telegram/linkstore.go`, `bot.go`) | tokens in memory, `users.telegram_id` | make a link, consume it, unlink | users | none, see 7 |
| Telegram messages, JWT signing, profiles, HTTP transport, read-only queries, wiring, migrations, generated code, Windows client | see `PROJECT.json` | | | none |

What is hard here:

* **Concurrency in the database.** Every request has its own transaction at
  READ COMMITTED. A check made by a SELECT is stale by the next statement; only
  row locks, guarded UPDATEs (`WHERE status = 'pending'`, `WHERE amount >= $2`)
  and upserts protect anything. Two accepts can lock two balances in opposite
  orders; PostgreSQL then aborts one. The account handlers have no transaction
  at all: every statement commits by itself.
* **Failure between two statements**: of a transaction, by a lost connection, a
  cancelled request, a CHECK or an INTEGER overflow; of a refresh, between
  revoking the old token and saving the new one, or after that and before the
  browser has its cookie.
* **Time.** `now()` is the time of BEGIN and `time.Now()` is the real time; a
  suggestion lives 24 hours but leaves the pending state when the job runs; a
  claim may straddle midnight; a token signed before a ban lives on.
* **State read without a lock and used after it**: a cache filled with what was
  read before an invalidation, a limiter asked after the mutex is released.
* **Goroutines and channels in the hub.** Broadcasts overtake each other,
  channels fill up, a channel is closed while loops of sends run, and a user
  may have several connections.

What makes each component correct:

* *Hugs:* one outcome for each hug, decided once; what a transaction has
  checked by locking stays true until it commits; every commit is one atomic
  step of a ledger; one live suggestion for a pair, no more of a user than
  slots, none while the pair cools down (as long as certain requests do not
  overlap, see 5 and 6); every request is answered; no overdue hug stays
  pending.
* *Coins:* balance plus coins spent = starting balance plus completed hugs;
  never negative, never outside the column.
* *Cooldowns:* what a completed hug started is not forgotten.
* *Daily reward:* a streak is covered by paid claims on consecutive days, and
  is exactly that run if claims do not overlap; then a claim is also paid only on
  a day after those already booked.
* *Hub:* never a send on a closed channel; the index and the set of clients
  agree; the last list broadcast to a client is right; handlers get on whatever
  other peers do, and return if the writes to their own peer end.
* *Caches:* what is shown is out of date by no more than a time to live and a
  query; an answered accept shows at once, but for pages an overtaken reader
  puts back; the caches catch up.
* *Sessions:* rotation neither multiplies sessions nor ends one by itself; bans
  and deletions take effect within the life of an access token.
* *Rate limiter:* eviction gives nobody tokens back early.

## 2. Modules and how they correspond to the code

| Module | Models |
|---|---|
| `HugService` | hug lifecycle, expiry job, cooldowns, balances, purchases, blocks, transactor, an administrator's balances |
| `HugLedger` | abstract: what the hug service promises, each change one atomic step |
| `HugRefinement` | the mapping from `HugService` to `HugLedger` |
| `DailyReward` | `ClaimDailyReward` |
| `WsHub` | the hub, the handler and the write pump of each connection, senders of events |
| `Presence` | abstract: who is online, and lists that say so |
| `Accounts` | registration, login, refresh, logout, bans, deletions, lifetimes of tokens |
| `RateLimiter` | `AuthRateLimitMiddleware` |
| `TokenBucket` | abstract: one bucket for each client and path, for ever |
| `RateWindow` | `RateLimiter` with an observer that counts what is admitted |
| `LeaderboardCache` | `cache.TTL`, its two readers and its invalidation |
| `MCHugService`, `MCDailyReward`, `MCWsHub`, `MCAccounts`, `MCRateLimiter`, `MCLeaderboardCache` | instances for TLC: symmetry sets, values of constants that are functions |
| `HugServiceProofs`, `HugLedgerProofs`, `HugRefinementProofs` | theorems about `HugService`; the last one extends the other two |
| `DailyRewardProofs`, `WsHubProofs`, `AccountsProofs`, `RateLimiterProofs`, `LeaderboardCacheProofs` | theorems about the module they are named for |

`PROJECT.json` maps every definition to its lines. Definitions whose comment
begins with "Mutant of" are not part of the models: they are slips the code
could have, used to see that a run would notice.

**HugService.** A *worker* is a request in progress: `req[w].pc` names its next
SQL statement, the other fields are the local variables of the handler, and
`began` is what `now()` gives in its transaction. Each action is one statement
with the Go code after it up to the next statement, so requests interleave
between any two statements, as they do at READ COMMITTED. A statement reads
committed rows (`hugs`, `cooldown`, `balance`, `slots`, `blocks`). Row locks are
not a variable: `HeldHugs(w)` and `HeldBalances(w)` derive from `pc` which rows
the transaction has updated, `WantedHugs` and `WantedBalances` which its next
statement updates, and `Free(w)` says nobody holds them. The writes of a
transaction are applied in the action that commits it (`StartCooldown` for
accept, `SetDeclineCooldown` for decline, `ReduceCooldown`, `IncrementSlots`).
The property `UncommittedWorkHolds` is what justifies that: nothing a
transaction has updated changes under it before it commits. An error answer or
`Fail(w)` drops the worker's request: a rollback. `AbortDeadlocked` is
PostgreSQL's deadlock detector. The expiry job updates overdue rows one by one
(`ExpirePendingHug`), holds them (`expiring`), and then commits or fails. The
UPDATE's row set is fixed when it starts, the model lets it also take rows that
become overdue while it waits: these behaviours are those of two jobs, one
after the other, committed together. `AdminSetBalance` is one UPDATE that
overwrites an amount once nobody holds the row; the amount arrives as an `int`
and is cut to 32 bits (`ToInt32`). `reply` is the last response, `spent` an
auxiliary total of the coins a user has paid, less those administrators gave.

**HugLedger** has no transactions, requests, locks or clock: suggest, complete,
decline, cancel, expire (several hugs together), buy a slot, shorten a
cooldown, set a balance. Its `BuySlot` says what the code does promise of a
price: overlapping purchases may pay the price of a slot the user has already
got, never more and never coins that are not there. `HugRefinement` maps a hug
to its row without the time of creation, and a cooldown to its length;
administrators set the amounts their requests come to (`LedgerAmounts`) and no
others, so a charge that buys nothing is not mistaken for theirs.

**DailyReward.** One action for each statement of `ClaimDailyReward`. The check
uses the clock at that step (`time.Now()`), the upsert the time of BEGIN
(`now()`). The clock has `DayLength` ticks a day, so a claim may begin on one
day and be checked on the next. `payments` and `overlapped` are auxiliary.

**WsHub.** Each handler goes through the statements of `HandleWS`. Go's RWMutex
is modelled with its writer preference: `AnnounceWriter` keeps new readers out,
`Register` and `Unregister` run once the readers have left. A broadcast holds
the read lock while it sends to one channel a step, in any order (Go's map
order). `TrySend` is the `select` with `default`. The write pump drains the
channel into `view`, what the browser knows. **Presence** is what is left of it
without locks, channels and loops: a connection joins or leaves in one step, and
a list told to a connection names those who are online at that moment.
`ImplementsPresence` maps the clients to the connections, and the last list
broadcast into a channel to what was told.

**Accounts.** A worker is a request, each action one statement with the code
after it; every statement commits by itself. `token[j]` is the row of refresh
token `j` with the time its `exp` is away; a session is named by its first
token. `RefreshToken` may bring any row back, not only the cookie: a second tab
or a retry still holds an old one. `Fail` may come after any statement, and
`SaveRefreshToken` may save the row and lose the answer. `access[u]` is the time
the youngest access token of `u` remains valid; the lifetimes of tokens run
from when they are signed (`age`). Deleting a user cascades to the user's rows,
and the foreign key keeps a row of a deleted user from being saved. Auxiliary:
what cookie the browser of a session holds, which sessions had one token used
by two refreshes at a time (`shared`) or lost an answer (`broken`), to whom
each request should give nothing (`barred`), and for how long nobody could
have given the user a token (`barredFor`).

**RateLimiter.** `Lookup` is the code under the mutex, eviction of all stale
visitors included; `Allow` runs after the unlock. A limiter's tokens are counted
in ticks of refilling, so `rate.Limiter` is a level that rises by one a tick.
`LimiterAssumption` states what makes eviction harmless, `Full + MaxStall <=
TTL + 1`, and the comment above it checks the three limits of `app.go`.
**TokenBucket** is the same without a map: a bucket that is always there.
**RateWindow** lets an observer open a window at any moment and count what one
client is admitted to on one path, for at most `MaxWindow` ticks; the middleware
is not aware of it. `RateHolds` is the limit as it is configured, in terms of
requests and time alone: no more than the burst and the rate of that time.

**LeaderboardCache.** Data is abstracted to the number of accepts it contains.
A reader that misses goes to the database (`Query`) and then stores what it got
(`Set`); an accept commits and then throws the leaderboard's pages away. No lock
is held in between. `Restart` empties the caches and drops requests. `age`,
`settled` and `overtaken` are history: since when an accept is committed, the
last one that was answered, and the pages a reader has put back although an
invalidation came between its SELECT and its Set.

## 3. Runs

All runs finish within five minutes with two workers. Bounds common to the
`hug_*` runs: `HugIds` bounds how many hugs are ever made (`IdsLeft` refuses a
suggestion that could not get an identifier), `MaxTime` the clock, `Workers`
the requests in progress at a time, `Operations` the kinds of requests.

| Run | Instance | Shows | States |
|---|---|---|---|
| `hug_concurrent` | 2 users, 1 hug, 2 workers, every operation but block; 3 slots, balances that start full at 2 coins; hugs are overdue at once | `TypeOK`, `UncommittedWorkHolds`, `CoinsAccounted`, `StatusIsFinal`, `ImplementsLedger` | 519 k |
| `hug_serial` | 3 users, 2 hugs, 1 worker; suggest, accept, decline, cancel, buySlot; 3 ticks | `OnePendingPerPair`, `SuggestedAfterCooldown`, `WithinSlots`, `CompletedHugHasCooldown` | 654 k |
| `hug_liveness` | 2 users, 2 hugs, 2 workers; suggest, accept, block; hugs are overdue at once | `CoinsAccounted`, `EveryRequestAnswered`, `OverdueHugsLeave`, `OnlyAcceptsDeadlock` | 60 k |
| `reward_claims` | 1 user, 2 workers, 4 days of 2 ticks | `TypeOK`, `StreakEarned`, `StreakIsRun`, `PaidOnLaterDay`, `StreakLostByAbsence` | 1.6 M |
| `hub_lists` | connections of 2 users, one an administrator, channels of capacity 2 | `TypeOK`, `BroadcastsConverge`, `ImplementsPresence` | 384 k |
| `hub_tabs` | 2 connections of one user, 1 sender, capacity 1 | `NoSendOnClosed`, `IndexFollowsClients`, `WaitsEnd`, `HandlersReturn` | 140 k |
| `accounts` | 1 user, 3 refresh tokens, 2 workers, lifetimes of 1 tick | `TypeOK`, `SessionHasOneToken`, `CookieWorks`, `BarredLoseAccess`, `NoTokenOfDeleted`, `EndedSessionsStayEnded` | 830 k |
| `limiter` | 3 clients on 2 paths, 3 workers, windows of up to 5 ticks | `TypeOK`, `LookupStays`, `RateHolds`, `ImplementsTokenBucket` | 692 k |
| `caches` | 1 page, the activity chart, 2 workers, 3 accepts | `TypeOK`, `StalenessBounded`, `AcceptShows`, `CachesCatchUp` | 231 k |
| `race_pair` | violation of `OnePendingPerPair` by two workers | see 6 | |
| `race_double_claim` | violation of `NoDoubleClaim` by two workers | see 6 | |
| `hub_greeting` | violation of `LastMessageIsCurrent` by two connections | see 6 | |

Why the bounds are enough for what is asked:

* Two workers are enough for every conflict on a row and for a cycle of locks,
  which takes two hugs of a pair in opposite directions (`hug_liveness` has
  them; TLC reaches `AbortDeadlocked`). The expiry job is a third party. What
  `hug_concurrent` shows of one hug is proved for any number (see 5).
* `Window` (24 hours) is 2 ticks in `hug_serial`, so suggestions become overdue
  there between two requests. In `hug_concurrent` and `hug_liveness` it is 0,
  which makes every hug overdue without a clock: the job may take it at any
  moment, next to any statement of a request.
* `MinCooldown` and `Reduction` are 1. `DefaultCooldown` is 3 in
  `hug_concurrent`: upgrades reach the minimum and the next does not go below
  it, and two upgrades in a row differ from two that both start from what the
  first has seen.
* `MaxAmount` stands for the largest INTEGER. It is small on purpose: the
  overflow that makes an accept fail half way is reached. `BodyAmounts` are an
  amount as it should be, one that wraps to a negative number (the CHECK
  refuses it) and one that wraps to a small amount.
* Three users are needed for two suggestions of one user that are not of one
  pair; with `MaxHugSlots` 2 they reach the limit of slots. Three slots in
  `hug_concurrent` let a purchase at an outdated price go through, or meet the
  limit after it has paid.
* `BufferSize` 1 or 2 instead of 256: a channel is full after a message or two,
  so the `default` branch is taken and, in `hub_tabs`, a send that waited for
  room would block. Two, because a list must still fit behind an older one for
  them to be in the wrong order.
* Three refresh tokens are a session's first and two rotations, or two sessions
  and a rotation; two workers race for one token. Lifetimes of one tick
  distinguish a token that is signed and not yet saved from one just saved.
  More users would only multiply the states: no statement relates two.
* In `limiter` one path's limiter takes as long to refill as its time to live,
  like registration (the tightest case), and the other less; two clients of
  one path evict each other's limiters. `MaxWindow` 5 is longer than either TTL,
  so a limiter can be used, left alone, evicted and made anew within a window.
* In `caches`, times to live of 1 and 2 ticks, queries of up to 1: an entry can
  run out while a reader is on its way. `MaxAge` is above what the property
  compares, ages beyond it are not told apart. Three accepts: one in the cache,
  one after it, one more that overtakes.
* Each connection is used once, so an execution can end: the hub runs have
  `CHECK_DEADLOCK FALSE`. All others check deadlock.
* Symmetry is used in runs without liveness; the action properties and the
  refinements of these runs treat the values permuted alike. `VIEW
  StateWithoutReply` in two runs leaves the last response out of the state: no
  step reads it and their properties do not speak of it.

Each property has a mutant in `PROJECT.json`, a change of one mapped definition
as a slip in the code would make it, under which TLC finds the property
violated by the same run.

## 4. Fairness

`HugService`: strong fairness of each worker's statements. A statement waits
only for row locks; PostgreSQL queues the waiters of a row, so one that could
run again and again runs. Strong fairness of the job taking *some* row, which
the ticker tries again and again for ever, and of its commit (a job does not
fail for ever); no single row is promised a turn, so `OverdueHugsLeave` also
says that rows handlers keep taking and releasing do not starve. Weak fairness
of the clock. Arrivals and failures are not fair: nothing forces requests to
come.

`WsHub`: weak fairness of each handler and loop of sends. It is
enough for locks because the RWMutex keeps new readers out while a writer
waits, and the model has that. Write pumps are not fair: a write to a socket
need not end, because the code sets no write deadline (`ws/hub.go:113`) and
closes the socket only after the handler has waited for its pump (`:62`,
`:137`). So `HandlersReturn` says without it that a handler always gets to its
reading loop and, once the peer is gone, to waiting for its own pump, even if
the pumps of all others are stuck; and that it returns if its own pump's writes
end (`WritesEnd`). Connecting, losing a connection and events are not fair.

`LeaderboardCache`: weak fairness of the clock and of storing what was read;
nobody needs to read, accept or restart.

`DailyReward`, `Accounts` and `RateLimiter` state safety only: no handler waits
for another for longer than a row lock or a mutex.

## 5. Proofs

For any sets of users, hugs (finite), workers (finite where counted),
connections, tokens, keys, and any prices, bounds and lifetimes that meet the
modules' assumptions (`IdAssumption`, `AmountAssumption`, `ClaimAssumption`,
`HubAssumption`, `AccountsAssumption`, `LimiterAssumption`, `WindowAssumption`,
`CacheAssumption`), TLAPS proves:

| Theorem | Statement |
|---|---|
| `HugServiceProofs!TypeCorrect` | `Spec => []TypeOK` |
| `HugServiceProofs!UncommittedWork` | `Spec => []UncommittedWorkHolds` |
| `HugServiceProofs!OnlyAcceptsBlock` | `Spec => []OnlyAcceptsDeadlock` |
| `HugLedgerProofs!StatusFinal` | `Spec => StatusIsFinal` |
| `HugLedgerProofs!Coins` | `Spec => []CoinsAccounted` |
| `HugLedgerProofs!CompletedHugsCoolDown` | `Spec => []CompletedHugHasCooldown` |
| `HugLedgerProofs!SlotsAreKept` | `Spec /\ []UsersApart => []WithinSlots` |
| `HugLedgerProofs!PairsAreKept` | `Spec /\ []PairsApart => []OnePendingPerPair` |
| `HugLedgerProofs!CooldownsAreKept` | `Spec /\ []AnswersApart => []SuggestedAfterCooldown` |
| `HugLedgerProofs!SerialPromises` | with one worker, `Spec => [](WithinSlots /\ OnePendingPerPair /\ SuggestedAfterCooldown)` |
| `HugRefinementProofs!Refines` | `Spec => ImplementsLedger` |
| `DailyRewardProofs!TypeCorrect` | `Spec => []TypeOK` |
| `DailyRewardProofs!StreaksAreEarned` | `Spec => []StreakEarned` |
| `DailyRewardProofs!PaidOnLaterDays` | `Spec => []PaidOnLaterDay` |
| `DailyRewardProofs!StreaksAreRuns` | `Spec => []StreakIsRun` |
| `DailyRewardProofs!StreaksAreKept` | `Spec => StreakLostByAbsence` |
| `DailyRewardProofs!ClaimsAreSingle` | `Spec /\ []ClaimsApart => []NoDoubleClaim` |
| `WsHubProofs!TypeCorrect` | `Spec => []TypeOK` |
| `WsHubProofs!NeverSendsOnClosed` | `Spec => []NoSendOnClosed` |
| `WsHubProofs!IndexIsRight` | `Spec => []IndexFollowsClients` |
| `WsHubProofs!ListsConverge` | `Spec => []BroadcastsConverge` |
| `WsHubProofs!AnnouncesPresence` | `Spec => ImplementsPresence` |
| `WsHubProofs!WaitsHaveAnEnd` | `Spec => []WaitsEnd` |
| `WsHubProofs!LastMessagesAreCurrent` | `Spec /\ []GreetingsCurrent => []LastMessageIsCurrent` |
| `AccountsProofs!TypeCorrect` | `Spec => []TypeOK` |
| `AccountsProofs!DeletedHaveNoToken` | `Spec => []NoTokenOfDeleted` |
| `AccountsProofs!BarredLose` | `Spec => []BarredLoseAccess` |
| `AccountsProofs!SessionsHaveOneToken` | `Spec => []SessionHasOneToken` |
| `AccountsProofs!CookiesWork` | `Spec => []CookieWorks` |
| `AccountsProofs!SessionsStayEnded` | `Spec => EndedSessionsStayEnded` |
| `RateLimiterProofs!TypeCorrect` | `Spec => []TypeOK` |
| `RateLimiterProofs!LookedUpStays` | `Spec => []LookupStays` |
| `RateLimiterProofs!Limits` | `Spec => ImplementsTokenBucket` |
| `RateLimiterProofs!RatesHold` | `WindowSpec => []RateHolds` |
| `LeaderboardCacheProofs!TypeCorrect` | `Spec => []TypeOK` |
| `LeaderboardCacheProofs!StalenessIsBounded` | `Spec => []StalenessBounded` |
| `LeaderboardCacheProofs!AcceptsShow` | `Spec => []AcceptShows` |

*The hug service.* `TypeOK` is not inductive: a commit subtracts a price from a
balance that was checked several steps before, or adds a coin to one. The
inductive invariant is `Inv == TypeOK /\ UncommittedWorkHolds`: row locks are
exclusive (`LocksExclusive`), a hug under update is pending and its receiver's
(`UpdatedHugIsPending`), a checked balance still covers the price
(`PaymentCovered`) and still has room for a coin (`CreditFits`), and the rows
the job has taken are pending and nobody else's (`ExpiringIsPending`). The
proof looks at it from one worker's side: `OwnWork(w)` is its own share,
`Undisturbed(w)` says its step leaves the rows of others and of the job alone,
and `WorkKept` shows these two and disjoint locks suffice; then there is a
lemma for each group of statements. `StatusFinal` follows from how a step can
change `hugs` (`HugsChange`). `Coins` adds that a commit of an accept adds one
hug to `Completed(u)` for just the two it pays. `CompletedHugsCoolDown` needs
`CooldownInv`: rows that exist have at least the minimal cooldown and no hug
has one user in both roles.

*Deadlocks.* `OnlyAcceptsDeadlock` follows from `Inv` by the order in which a
transaction takes rows: its hug first (`HugsComeFirst`), then balances, and only
an accept takes two of them (`OnlyPayReceiverHoldsAndWants`). Going round a
circle of waiting, the hugs end at somebody who waits for a balance
(`SomeoneWaitsForABalance`), even if the job is in it; and who is waited for by
an accept is again an accept that has paid one side, since locks are exclusive.

*Suggestions.* The checks of `SuggestHug` do not stand every overlap, which
`race_pair` shows. The three theorems with a second premise say which overlaps
they do stand: `WithinSlots` needs only that no user has two suggestions in
progress, `OnePendingPerPair` that no pair has, `SuggestedAfterCooldown` that
no answer or upgrade of the pair commits between the check and the insert.
Everything else may run next to them, failures, deadlocks and the job included.
What has been counted stays an upper bound (`CountsHold`, `PairsAreFree`,
`CooldownChecked`) because a suggestion once there only ever stops being live
(`LiveStays`), slots only grow, and time only ends a cooldown. `SerialPromises`
shows that the premises are met where they should be: with one worker they hold
of themselves, so what goes wrong takes an overlap.

*The refinement.* `RefInv` is `Inv`, `CooldownInv` and `ReadsHold`: what a
request has read and still relies on, the number of slots a purchase was priced
by and the row an upgrade has found, is still there. Then every commit is a
step of `HugLedger` and every other statement leaves what it sees alone
(`QuietInLedger`); there is a lemma for each kind of commit.

*The daily reward.* `Earned` says that an upserted row a transaction holds is
what its upsert makes of the row that is committed, and that one transaction
holds a row; then a payment and the streak that counts it commit together. For
users whose claims never overlapped, `Turn` says that claims come in the order
of their rows, and `Complete` that no day after the last claim and not the day
before the streak has been paid; `StreakIsRun` follows, the run being the
interval from 1 to the streak. `StreaksAreKept` uses both. `NoDoubleClaim`, which
`race_double_claim` refutes, holds as long as the claims of a user do not
overlap and none is in progress at midnight (`ClaimsApart`): then a payment is
booked on the day it was checked on (`PaidOnTheDay`), and `PaidOnLaterDay` says
the rest. `PaidOnLaterDay` itself also covers claims in progress at midnight: by
`Turn`, what the check saw when it let the claim through was a row of an earlier
day, and by `Complete` no day after the row's is booked.

*The hub.* `NoSendOnClosed` needs that a connection closes its channel only
after it left `clients` and when no loop of sends can still reach it; the
invariant says that what is being sent to are clients
(`TargetsAreClients`), that the index only names clients
(`IndexWithinClients`), and which labels a registered and a closed connection
can be at (`ClientsAreServed`, `ClosedLast`). Registration waits for the
readers to leave, which is why a loop's targets stay clients. `IndexIsRight`
is inductive given that. `ListsConverge` rests on `Lists`: either somebody who
has changed the maps has still to send the list (or sends it), or what is on
its way is the current one. `AnnouncesPresence` uses `Lists` once more: what a
loop of sends carries is the list of now, because nobody can register or
unregister before the loop has ended. `Membership` says at which labels a
handler is a client, so joining and leaving are one step each.

`WaitsEnd` is inductive with the places where a loop of sends can run
(`LoopsInPlace`) and the ones where the pump has not started (`PumpsInPlace`). A
handler that holds up all readers is thus none of the readers it waits for.

`hub_greeting` refutes `LastMessageIsCurrent`. `LastMessagesAreCurrent` says that
the greeting alone is to blame: if nobody comes online or goes offline between
the snapshot of a greeting and its send (`GreetingsCurrent`), then what a client
shows, or will show when it has read its channel, is who is online
(`ClientsCatchUp`), unless somebody still owes the list. `WillShow` is about the
last list in a channel; `AppendedList`, `AppendedOther` and `WrittenHead` say
how sends and the pump change it.

*Accounts.* `Typed` adds to `TypeOK` that registrations and logins carry no
token. `NoTokenOfDeleted` is inductive with it. `Barring` ties the auxiliary
sets to the accounts: a request about to give a token is not barred from its
user, and one who may still be given one has been barred for no time.
`Sessions` is what rotation keeps: rows and refreshes of a session are one
user's (`SessionsKnown`, `SessionsOwned`, `TokensUsed`), and in a session whose
tokens were never used by two refreshes at a time one refresh is on its way, on
the session's only valid token, or has revoked it (`OneRefresh`). `Cookies`
says that a browser holds a token of its own session. `SessionsStayEnded` goes
through the statements: time is never added to a row (`NoTimeAdded`), a refresh
becomes part of a session only on a valid token of it, and saves a row in no
other session.

*The rate limiter.* `LimiterInv` is `TypeOK`, `LookupStays` and `Refilled`: a
visitor idle for `n` ticks has at least `n - MaxStall` ticks' worth of tokens,
or is full. So an evicted limiter is a full one, and making a new one changes
nothing of `Level`, the bucket the middleware implements. `RatesHold` adds the
invariant of a window, `Budget`: what was admitted, at its cost, and what is in
the bucket came from the burst or with the time since. Nothing in it bounds the window, the
theorem holds for any `MaxWindow`.

*The caches.* The invariant of `LeaderboardCacheProofs` bounds the age of what
a reader holds by the time it has held it (`ReadOK`), and the age of an entry
by the time it has been in the cache (`EntryOK`); an invalidation makes exactly
the requests late that could break `AcceptShows`.

Every invariant, action property and refinement of the runs is proved, the
three that runs refute under the premises that name what breaks them. Only
model-checked: liveness (`EveryRequestAnswered`, `OverdueHugsLeave`,
`HandlersReturn`, `CachesCatchUp`), since fairness and ENABLED are beyond the
prover, and the refutations of 6. Two of them have their safe part proved:
`OnlyAcceptsDeadlock` says what a request may have to be aborted for, `WaitsEnd`
that what a handler waits for does not wait for it (a write that never ends waits
for the peer, see 4).

## 6. Where documents and code disagree, and what else was seen

Checked by violation runs:

* `race_pair`: the comment in `SuggestHug` (`service/hug/hug.go:45-46`) says
  its transaction prevents two requests from both passing the pending check. At
  READ COMMITTED without a unique index it does not.
* `race_double_claim`: the comment in `ClaimDailyReward`
  (`service/hug/queries.go:240`) says the transaction prevents double claims.
  Two overlapping claims both pass the check; the second upsert changes nothing
  and the second payment is made.
* `hub_greeting`: a new connection's greeting is looked up under the lock and
  sent after it; a newer list can get there first, and the older one is what
  the client keeps.

Seen while modelling, without a run of their own. Hugs and coins:

* The same race lets a user exceed their slots (`service/hug/hug.go:49`):
  `WithinSlots` is checked of requests one at a time, and proved as long as no
  user has two suggestions in progress.
* An upgrade pays before it looks its row up (`service/hug/hug.go:323`, `:332`),
  so it holds the payer's balance until it commits. An accept of the pair pays
  both sides and cannot commit between that lookup and the upsert; the other
  user's upgrade and a decline can, and lose nothing by it (`ImplementsLedger`).
* `AcceptHug` has no condition on the age of a hug: until the job has run, an
  overdue suggestion is accepted (`PLAN.md:20` says it expires after 24 hours).
* A live hug of another receiver is answered `HUG_EXPIRED`
  (`service/hug/hug.go:142`).
* `UpgradeCooldown` of a pair without a row starts a cooldown, though
  `PLAN.md:16` says it starts on accept.
* Two purchases of a slot both pay the price of the cheaper one
  (`service/hug/queries.go:180`).
* An administrator's amount has no maximum and is cut to 32 bits
  (`transport/http/v1/admin/balance.go:10`): 2^32 sets a balance of 0.
* A claim that begins before midnight and is checked after it is booked on the
  old day, even if that day has been paid, and the new day pays again, without
  any overlap. `PaidOnLaterDay` says that this is all there is to gain.
* The goroutine that announces a suggestion may run after the one that
  announces its cancellation (`service/hug/hug.go:99`). `PLAN.md` also names
  events `hug_expired` and `inbox_count`, which nothing sends.

Hub, caches and limiter:

* `register` and `unregister` set the gauge of online users after the lock is
  released, in whatever order (`ws/hub.go:153`, `:173`).
* A socket has no write deadline (`ws/hub.go:113`): a peer that stops reading and
  keeps TCP open holds its own handler, pump and memory for ever, although the
  comment on the read loop (`:124`) speaks of dead clients being detected.
  Nobody else waits for it (`HandlersReturn`).
* A reader that an accept overtakes puts the old page back, for up to a time to
  live (`service/hug/queries.go:52`): what `AcceptShows` excepts.
* The comment at `transport/http/middleware/auth_rate_limit.go:66-67` says other
  visitors are evicted after the default TTL; the code uses each path's own. As
  the comment has it, a registration limiter would be evicted before it has
  refilled; the mutant of `ImplementsTokenBucket` is a slip of that kind.
* The comment at `app/app.go:315` says 2 accounts per hour per IP. What the code
  admits, and `RateHolds` states, is a burst of 2 and 2 more an hour, as the
  comments at `:317-318` explain: up to 4 in the first hour.

Accounts:

* Two overlapping refreshes with one token both find it active, and double the
  session (`transport/http/v1/user/auth.go:65`): what `SessionHasOneToken`
  excepts.
* A refresh that fails between revoking and saving, or whose answer is lost,
  ends the session; the browser must log in again.
* `CreateUser` leaves an account behind if saving its token fails
  (`service/user/create.go:32`): a retry meets a taken name, a login works.
* `RevokeAllUserRefreshTokens` is never called: changing a password and logging
  out leave the refresh tokens valid until they expire.
* `ChangePassword` (`service/user/update.go:43-63`) reads, checks and writes in
  three steps and may overwrite a password an administrator has set in between.
* Telegram: a link token is consumed before linking can fail
  (`telegram/bot.go:137`); two users who link one Telegram account are told
  apart by the UNIQUE index of migration 00012, the loser sees an error
  (`telegram/bot.go:143`).

## 7. What is left out

In what is modelled:

* Foreign-key locks and lost acknowledgements of a COMMIT. In `HugService`
  users stay: an administrator's deletion (`AdminDeleteUser`) takes a user's
  hugs, coins and cooldowns with it, after which nothing is promised of them;
  its effect on sessions is in `Accounts`.
* A decline cooldown and the cooldown upsert at the end of a transaction wait
  for a row only as long as another commit takes: statement and COMMIT are one
  step. No lock is held across them that another step could see.
* The database session's time zone is UTC (the compose files set no other);
  Go uses UTC explicitly.
* A restart of the server forgets the visitors of the rate limiter, so every
  bucket is full again: `RateHolds` and the rest of `RateLimiter` are about one
  lifetime of the process. `LeaderboardCache` has restarts.
* Keepalive pings, payloads of events, wording, logging. `EnsureBalance` only
  creates a row of 0. Passwords are right or wrong. `Invalidate` of one cache
  key is never called.

Components that are not modelled:

* *Hug notifications:* goroutines without state; nothing orders the events of
  one hug, so there is no order to check, and what may be lost or overtaken is
  in the list above. `WsHub` has the senders of their events.
* *Telegram linking:* a map of single-use tokens under one mutex and three
  statements in a row; its two flaws are in the list above.
* *Telegram messages:* calls whose results are only logged.
* *JWT signing, password hashing, HTTP transport:* pure functions and library
  calls. Lifetimes of tokens are in `Accounts`, the order of the checks
  handlers make is in the actions.
* *Profiles, user search, feeds, statistics:* single statements.
* *Generated code, migrations, wiring, Swagger UI's scripts, the Windows
  client, CI:* no behaviour of the server's own; the CHECK and UNIQUE
  constraints of the migrations are in the guards of the models.

## 8. Plan

Done, in this order: `HugService` (the heart of the system) and its proofs,
`DailyReward`, `WsHub` and its proofs; then `HugLedger` and the refinement,
`Accounts`, `RateLimiter` with `TokenBucket`, `LeaderboardCache`, and proofs
about all of them; then what the hub and the limiter promise to those outside
(`Presence`, `RateWindow`), who can wait for whom, and the premises under which
the refuted properties hold.

What is left, by worth:

1. Measures for liveness: that each statement of a request brings its answer
   nearer, and each step of a hub handler its return, proved as action
   properties next to the liveness TLC checks.
2. `TelegramLink`: the link store, the bot and `users.telegram_id`, with a
   failure between any two steps; property: one account for each Telegram user,
   and a token links one account at most.
3. A composition of the notifications of `HugService` with `WsHub`, if the code
   comes to order the events of one hug.
4. Refinements of `DailyReward` and `LeaderboardCache` to what they promise,
   next to the invariants they have.
5. `AdminDeleteUser` next to running transactions of `HugService`.

At most a dozen runs are kept: a new question replaces or joins an old run
rather than adding one beside it.
