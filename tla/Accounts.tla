------------------------------- MODULE Accounts -------------------------------
(***************************************************************************)
(* Accounts and sessions: registration, login, refresh and logout          *)
(* (service/user, transport/http/v1/user), the tables users and            *)
(* refresh_tokens, the lifetimes of the tokens the JWT manager signs, and  *)
(* what administrators do to accounts meanwhile.  No handler here opens a  *)
(* transaction: every SQL statement commits by itself, and any handler may *)
(* stop after any of them.                                                 *)
(*                                                                         *)
(* Time is counted in ticks.  Lifetimes are counted down, so there is no   *)
(* clock.  Statements take no time, the code between them may.             *)
(* Passwords are left out: a login knows the right one or does not, and    *)
(* changing one touches no token; nor does renaming an account.            *)
(***************************************************************************)
EXTENDS Integers, FiniteSets

CONSTANTS
  Users,       \* identifiers a registration may draw
  Admins,      \* those whose row an operator has given the role admin
  Names,       \* usernames
  Tokens,      \* identifiers (jti) of refresh tokens: how many can be issued
  Workers,     \* requests that may be in progress at the same time
  None,        \* the value of an unused field
  AccessTTL,   \* accessTokenDuration
  RefreshTTL   \* refreshTokenDuration

ASSUME AccountsAssumption ==
  /\ Admins \subseteq Users
  /\ None \notin Users \cup Tokens \cup Names
  /\ AccessTTL \in Nat /\ RefreshTTL \in Nat

VARIABLES
  account,  \* table users
  token,    \* table refresh_tokens
  access,   \* time the user's youngest access token remains valid
  req,      \* what each worker is doing
  cookie,   \* auxiliary: the token the browser of a session holds
  shared,   \* auxiliary: sessions whose token two refreshes used at a time
  broken,   \* auxiliary: sessions that lost the answer of a refresh
  barredFor \* auxiliary: time since the user could last be given a token

vars == <<account, token, access, req, cookie, shared, broken, barredFor>>
aux == <<cookie, shared, broken, barredFor>>

-----------------------------------------------------------------------------
(* Rows and requests *)

Larger(a, b) == IF a < b THEN b ELSE a

NoAccount == [state |-> "none"]
Deleted == [state |-> "deleted"]
Account == [state: {"active", "banned"}, name: Names]
Exists(u) == account[u].state \in {"active", "banned"}
Active(u) == account[u].state = "active"
Holders(n) == {u \in Users : Exists(u) /\ account[u].name = n}

\* A session is named by its first token.
NoToken == [state |-> "none"]
Gone == [state |-> "gone"]
TokenRow == [state: {"valid", "revoked"}, user: Users, left: 0..RefreshTTL,
             session: Tokens]
Rows == {j \in Tokens : token[j].state \in {"valid", "revoked"}}
Valid(j) == token[j].state = "valid"

Idle == [pc |-> "idle", name |-> None, user |-> None, token |-> None,
         session |-> None, age |-> 0, barred |-> {}]

\* A request begins; barred are the users to whom it should give nothing.
Arrive(w, request) ==
  /\ req[w] = Idle
  /\ req' = [req EXCEPT ![w] =
       [request EXCEPT !.barred = {u \in Users : ~Active(u)}]]
  /\ UNCHANGED <<account, token, access, aux>>

\* From now on every request may give something to u.
Admitted(u) == [w \in Workers |-> [req[w] EXCEPT !.barred = @ \ {u}]]

Goto(w, pc) == req' = [req EXCEPT ![w].pc = pc]
Finish(w) == req' = [req EXCEPT ![w] = Idle]

-----------------------------------------------------------------------------
(* Registration and login *)

RegisterUser(w, n) ==
  Arrive(w, [Idle EXCEPT !.pc = "createUser", !.name = n])

\* users.username is UNIQUE.  The identifier is a new one.
CreateUser(w) ==
  LET r == req[w] IN
    /\ r.pc = "createUser"
    /\ \/ /\ Holders(r.name) # {}
          /\ Finish(w)
          /\ UNCHANGED <<account, barredFor>>
       \/ /\ Holders(r.name) = {}
          /\ \E u \in Users :
               /\ account[u] = NoAccount
               /\ account' = [account EXCEPT ![u] =
                    [state |-> "active", name |-> r.name]]
               /\ req' = [Admitted(u) EXCEPT ![w] =
                            [@ EXCEPT !.pc = "generate", !.user = u]]
               /\ barredFor' = [barredFor EXCEPT ![u] = 0]
    /\ UNCHANGED <<token, access, cookie, shared, broken>>

Login(w, n) ==
  Arrive(w, [Idle EXCEPT !.pc = "getByUsername", !.name = n])

\* The row is read once; password and ban are checked on what was read.
GetByUsername(w) ==
  /\ req[w].pc = "getByUsername"
  /\ \/ Finish(w)
     \/ \E u \in Holders(req[w].name) :
          /\ Active(u)
          /\ req' = [req EXCEPT ![w] = [@ EXCEPT !.pc = "generate", !.user = u]]
  /\ UNCHANGED <<account, token, access, aux>>

-----------------------------------------------------------------------------
(* Refresh *)

\* Any refresh token ever issued may come back, until its exp: the cookie, or
\* an older one a second tab or a retry still holds.
RefreshToken(w, j) ==
  /\ j \in Rows /\ token[j].left > 0
  /\ Arrive(w, [Idle EXCEPT !.pc = "isActive", !.token = j])

\* Refreshes that have found token j active and have not revoked it yet.
Using(j) ==
  {w \in Workers : req[w].token = j /\ req[w].pc \in
                     {"getByID", "generate", "revoke"}}

\* Mutant of IsRefreshTokenActive: revoked_at is not looked at.
IsRefreshTokenUnexpired(w) ==
  LET j == req[w].token IN
    /\ req[w].pc = "isActive"
    /\ IF j \in Rows /\ token[j].left > 0
       THEN /\ req' = [req EXCEPT ![w] = [@ EXCEPT !.pc = "getByID",
                 !.user = token[j].user, !.session = token[j].session]]
            /\ shared' = IF Using(j) = {} THEN shared
                         ELSE shared \cup {token[j].session}
       ELSE Finish(w) /\ UNCHANGED shared
    /\ UNCHANGED <<account, token, access, cookie, broken, barredFor>>

\* Mutant of IsRefreshTokenActive: expires_at is not looked at.
IsRefreshTokenUnrevoked(w) ==
  LET j == req[w].token IN
    /\ req[w].pc = "isActive"
    /\ IF Valid(j)
       THEN /\ req' = [req EXCEPT ![w] = [@ EXCEPT !.pc = "getByID",
                 !.user = token[j].user, !.session = token[j].session]]
            /\ shared' = IF Using(j) = {} THEN shared
                         ELSE shared \cup {token[j].session}
       ELSE Finish(w) /\ UNCHANGED shared
    /\ UNCHANGED <<account, token, access, cookie, broken, barredFor>>

\* The sub claim of the token is the user of its row.
IsRefreshTokenActive(w) ==
  LET j == req[w].token IN
    /\ req[w].pc = "isActive"
    /\ IF Valid(j) /\ token[j].left > 0
       THEN /\ req' = [req EXCEPT ![w] = [@ EXCEPT !.pc = "getByID",
                 !.user = token[j].user, !.session = token[j].session]]
            /\ shared' = IF Using(j) = {} THEN shared
                         ELSE shared \cup {token[j].session}
       ELSE Finish(w) /\ UNCHANGED shared
    /\ UNCHANGED <<account, token, access, cookie, broken, barredFor>>

\* Mutant of GetByID: the check of BannedAt is missing.
GetByIDOnly(w) ==
  /\ req[w].pc = "getByID"
  /\ IF Exists(req[w].user) THEN Goto(w, "generate") ELSE Finish(w)
  /\ UNCHANGED <<account, token, access, aux>>

GetByID(w) ==
  /\ req[w].pc = "getByID"
  /\ IF Active(req[w].user) THEN Goto(w, "generate") ELSE Finish(w)
  /\ UNCHANGED <<account, token, access, aux>>

\* Both tokens are signed; their lifetimes start.
GenerateTokens(w) ==
  /\ req[w].pc = "generate"
  /\ Goto(w, IF req[w].token = None THEN "save" ELSE "revoke")
  /\ UNCHANGED <<account, token, access, aux>>

\* Mutant of Revoked: the UPDATE names the user instead of the token.
RevokedAllOf(j) ==
  [i \in Tokens |-> IF i \in Rows /\ token[i].user = token[j].user
                    THEN [token[i] EXCEPT !.state = "revoked"] ELSE token[i]]

\* Mutant of Revoked: an upsert, which also writes a row that is gone.
RevokedBlindly(j) == [token EXCEPT ![j].state = "revoked"]

\* UPDATE ... SET revoked_at WHERE jti = j AND revoked_at IS NULL
Revoked(j) ==
  [token EXCEPT ![j] = IF Valid(j) THEN [@ EXCEPT !.state = "revoked"] ELSE @]

RevokeRefreshToken(w) ==
  /\ req[w].pc = "revoke"
  /\ token' = Revoked(req[w].token)
  /\ Goto(w, "save")
  /\ UNCHANGED <<account, access, aux>>

\* Sessions that are without a token if worker w does not answer.
AtStake(w) ==
  IF req[w].pc = "save" /\ req[w].token # None THEN {req[w].session} ELSE {}

\* Mutant of CanSave: refresh_tokens.user_id without its foreign key.
SaveAnyway(u) == TRUE

\* refresh_tokens.user_id refers to users(id).
CanSave(u) == Exists(u)

\* The answer may be lost after the row is there.
SaveRefreshToken(w) ==
  LET r == req[w] IN
    /\ r.pc = "save"
    /\ Finish(w)
    /\ \/ ~CanSave(r.user) /\ UNCHANGED <<token, access, cookie, broken>>
       \/ /\ CanSave(r.user)
          /\ \E j \in Tokens :
               LET session == IF r.token = None THEN j ELSE r.session IN
                 /\ token[j] = NoToken
                 /\ token' = [token EXCEPT ![j] =
                      [state |-> "valid", user |-> r.user,
                       left |-> Larger(0, RefreshTTL - r.age),
                       session |-> session]]
                 /\ \/ /\ access' = [access EXCEPT ![r.user] =
                            Larger(@, AccessTTL - r.age)]
                       /\ cookie' = [cookie EXCEPT ![session] = j]
                       /\ UNCHANGED broken
                    \/ /\ broken' = broken \cup AtStake(w)
                       /\ UNCHANGED <<access, cookie>>
    /\ UNCHANGED <<account, shared, barredFor>>

\* Logout only clears the cookie.
Logout(s) ==
  /\ cookie[s] # None
  /\ cookie' = [cookie EXCEPT ![s] = None]
  /\ UNCHANGED <<account, token, access, req, shared, broken, barredFor>>

\* The client goes away, or the connection to the database is lost.
Fail(w) ==
  /\ req[w].pc # "idle"
  /\ broken' = broken \cup AtStake(w)
  /\ Finish(w)
  /\ UNCHANGED <<account, token, access, cookie, shared, barredFor>>

-----------------------------------------------------------------------------
(* Administration *)

BanUser(u) ==
  /\ Active(u) /\ u \notin Admins
  /\ account' = [account EXCEPT ![u].state = "banned"]
  /\ UNCHANGED <<token, access, req, aux>>

UnbanUser(u) ==
  /\ account[u].state = "banned"
  /\ account' = [account EXCEPT ![u].state = "active"]
  /\ req' = Admitted(u)
  /\ barredFor' = [barredFor EXCEPT ![u] = 0]
  /\ UNCHANGED <<token, access, cookie, shared, broken>>

\* DELETE FROM users, which takes the user's refresh tokens with it.
AdminDeleteUser(u) ==
  /\ Exists(u) /\ u \notin Admins
  /\ account' = [account EXCEPT ![u] = Deleted]
  /\ token' = [j \in Tokens |->
       IF j \in Rows /\ token[j].user = u THEN Gone ELSE token[j]]
  /\ UNCHANGED <<access, req, aux>>

-----------------------------------------------------------------------------
(* Time *)

Less(n) == IF n = 0 THEN 0 ELSE n - 1
More(n, bound) == IF n < bound THEN n + 1 ELSE n

\* A token may still be given to u: the account is active, or a request that
\* began while it was is in progress.
Open(u) ==
  \/ Active(u)
  \/ \E w \in Workers : req[w].pc # "idle" /\ u \notin req[w].barred

\* Bounds: what is older than the longer lifetime counts as that old.
MaxAge == Larger(AccessTTL, RefreshTTL)

Tick ==
  /\ token' = [j \in Tokens |->
       IF j \in Rows THEN [token[j] EXCEPT !.left = Less(@)] ELSE token[j]]
  /\ access' = [u \in Users |-> Less(access[u])]
  /\ req' = [w \in Workers |->
       IF req[w].pc \in {"revoke", "save"}
       THEN [req[w] EXCEPT !.age = More(@, MaxAge)] ELSE req[w]]
  /\ barredFor' = [u \in Users |->
       IF Open(u) THEN 0 ELSE More(barredFor[u], AccessTTL)]
  /\ UNCHANGED <<account, cookie, shared, broken>>

-----------------------------------------------------------------------------
Init ==
  /\ account = [u \in Users |-> NoAccount]
  /\ token = [j \in Tokens |-> NoToken]
  /\ access = [u \in Users |-> 0]
  /\ req = [w \in Workers |-> Idle]
  /\ cookie = [s \in Tokens |-> None]
  /\ shared = {}
  /\ broken = {}
  /\ barredFor = [u \in Users |-> AccessTTL]

Arrival(w) ==
  \/ \E n \in Names : RegisterUser(w, n) \/ Login(w, n)
  \/ \E j \in Tokens : RefreshToken(w, j)

Step(w) ==
  \/ CreateUser(w) \/ GetByUsername(w)
  \/ IsRefreshTokenActive(w) \/ GetByID(w) \/ GenerateTokens(w)
  \/ RevokeRefreshToken(w) \/ SaveRefreshToken(w)

Next ==
  \/ \E w \in Workers : Arrival(w) \/ Step(w) \/ Fail(w)
  \/ \E s \in Tokens : Logout(s)
  \/ \E u \in Users : BanUser(u) \/ UnbanUser(u) \/ AdminDeleteUser(u)
  \/ Tick

Spec == Init /\ [][Next]_vars

-----------------------------------------------------------------------------
(* Properties *)

Requests ==
  [pc: {"idle", "createUser", "getByUsername", "isActive", "getByID",
        "generate", "revoke", "save"},
   name: Names \cup {None}, user: Users \cup {None},
   token: Tokens \cup {None}, session: Tokens \cup {None},
   age: 0..MaxAge, barred: SUBSET Users]

\* Every statement finds the fields it uses.
FieldsFit(r) ==
  /\ r.pc = "createUser" => r.name \in Names
  /\ r.pc \in {"isActive", "getByID", "revoke"} => r.token \in Tokens
  /\ r.pc \in {"getByID", "generate", "revoke", "save"} =>
       r.user \in Users
  /\ r.pc \in {"getByID", "generate", "revoke", "save"} =>
       (r.token \in Tokens <=> r.session \in Tokens)

\* The tables and the requests are of their types: what revokes, saves and
\* deletes in whatever order leaves rows whole (service/user,
\* repository/token).
TypeOK ==
  /\ account \in [Users -> Account \cup {NoAccount, Deleted}]
  /\ token \in [Tokens -> TokenRow \cup {NoToken, Gone}]
  /\ access \in [Users -> 0..AccessTTL]
  /\ req \in [Workers -> Requests]
  /\ \A w \in Workers : FieldsFit(req[w])
  /\ cookie \in [Tokens -> Tokens \cup {None}]
  /\ shared \subseteq Tokens /\ broken \subseteq Tokens
  /\ barredFor \in [Users -> 0..AccessTTL]

\* Rotation never makes two sessions of one: as long as no two refreshes use
\* one token at a time, at most one refresh token of a session is valid,
\* whatever fails between its revocation and the next (RefreshToken).
SessionHasOneToken ==
  \A i, j \in Rows :
    /\ Valid(i) /\ Valid(j)
    /\ token[i].session = token[j].session
    /\ token[i].session \notin shared
    => i = j

\* Worker w refreshes and has found its token active.
Past(w) == /\ req[w].pc \in {"getByID", "generate", "revoke", "save"}
           /\ req[w].token # None

\* A session goes on while one of its tokens is valid and has time left, or a
\* refresh that found one such has not ended.
Alive(s) ==
  \/ \E j \in Rows : Valid(j) /\ token[j].left > 0 /\ token[j].session = s
  \/ \E w \in Workers : Past(w) /\ req[w].session = s

\* A session that has ended, by expiry, by a rotation that failed or by the
\* deletion of its user, stays ended: no old token, retry, late refresh or
\* other session brings it back (RefreshToken, IsRefreshTokenActive,
\* RevokeRefreshToken, SaveRefreshToken).
EndedSessionsStayEnded ==
  [][\A s \in Tokens : token[s] # NoToken /\ ~Alive(s) => ~Alive(s)']_vars

\* The token a browser got last is good for the next refresh, other sessions,
\* older tokens and overlapping refreshes notwithstanding: it has not been
\* revoked, unless a refresh of its session has revoked it and not answered, or
\* the account is deleted (RefreshToken, RevokeRefreshToken).
CookieWorks ==
  \A s \in Tokens : cookie[s] # None =>
    \/ Valid(cookie[s]) \/ token[cookie[s]] = Gone
    \/ s \in broken
    \/ \E w \in Workers : s \in AtStake(w)

\* A ban and a deletion take effect: AccessTTL after the last request that
\* began before, no access token of the user is valid, however it was
\* refreshed (Login, RefreshToken, GenerateAccessToken, BanUser).
BarredLoseAccess ==
  \A u \in Users : access[u] + barredFor[u] <= AccessTTL

\* A deleted user has no refresh token, not even one saved by a login or a
\* refresh the deletion overtook (AdminDeleteUser, SaveRefreshToken).
NoTokenOfDeleted ==
  \A j \in Rows : Exists(token[j].user)

=============================================================================
