----------------------------- MODULE AccountsProofs -----------------------------
(***************************************************************************)
(* Proofs about Accounts, for any users, tokens, lifetimes and number of   *)
(* concurrent requests.                                                    *)
(***************************************************************************)
EXTENDS Accounts, TLAPS

Labels == {"idle", "createUser", "getByUsername", "isActive", "getByID",
           "generate", "revoke", "save"}

\* A registration or login works without a refresh token.
FreshFit(r) ==
  r.pc \in {"createUser", "getByUsername"} => r.token = None /\ r.session = None

\* A well-formed request.
Fit(r) == r \in Requests /\ FieldsFit(r) /\ FreshFit(r)

\* TypeOK, and the requests that carry no refresh token.
Typed == TypeOK /\ \A w \in Workers : FreshFit(req[w])

-----------------------------------------------------------------------------
(* Requests *)

\* The larger of two numbers is one of them, and at least the other.
LEMMA LargerIs ==
  ASSUME NEW a \in Int, NEW b \in Int
  PROVE  Larger(a, b) \in {a, b} /\ a <= Larger(a, b) /\ b <= Larger(a, b)
BY DEF Larger

\* MaxAge covers both lifetimes.
LEMMA MaxAgeIs == MaxAge \in Nat /\ AccessTTL <= MaxAge /\ RefreshTTL <= MaxAge
BY AccountsAssumption DEF MaxAge, Larger

\* A worker without a request fits.
LEMMA IdleFits == Fit(Idle) /\ Idle.pc = "idle" /\ Idle.token = None
BY MaxAgeIs DEF Idle, Fit, Requests, FieldsFit, FreshFit

\* The fields of a request have their types.
LEMMA RequestFields ==
  ASSUME NEW r \in Requests
  PROVE  /\ r.pc \in Labels /\ r.name \in Names \cup {None}
         /\ r.user \in Users \cup {None} /\ r.token \in Tokens \cup {None}
         /\ r.session \in Tokens \cup {None}
         /\ r.age \in 0..MaxAge /\ r.barred \in SUBSET Users
         /\ r = [pc |-> r.pc, name |-> r.name, user |-> r.user, token |-> r.token,
                 session |-> r.session, age |-> r.age, barred |-> r.barred]
BY DEF Requests, Labels

\* A request may go to another label; its other fields stay.
LEMMA WithPc ==
  ASSUME NEW r \in Requests, NEW p \in Labels
  PROVE  LET n == [r EXCEPT !.pc = p] IN
         /\ n \in Requests
         /\ n.pc = p /\ n.name = r.name /\ n.user = r.user /\ n.token = r.token
         /\ n.session = r.session /\ n.age = r.age /\ n.barred = r.barred
BY DEF Requests, Labels

\* It may find its user,
LEMMA WithUser ==
  ASSUME NEW r \in Requests, NEW u \in Users
  PROVE  LET n == [r EXCEPT !.user = u] IN
         /\ n \in Requests
         /\ n.user = u /\ n.pc = r.pc /\ n.name = r.name /\ n.token = r.token
         /\ n.session = r.session /\ n.age = r.age /\ n.barred = r.barred
BY DEF Requests

\* its session,
LEMMA WithSession ==
  ASSUME NEW r \in Requests, NEW s \in Tokens
  PROVE  LET n == [r EXCEPT !.session = s] IN
         /\ n \in Requests
         /\ n.session = s /\ n.pc = r.pc /\ n.name = r.name /\ n.user = r.user
         /\ n.token = r.token /\ n.age = r.age /\ n.barred = r.barred
BY DEF Requests

\* bring a name,
LEMMA WithName ==
  ASSUME NEW r \in Requests, NEW x \in Names
  PROVE  LET n == [r EXCEPT !.name = x] IN
         /\ n \in Requests
         /\ n.name = x /\ n.pc = r.pc /\ n.user = r.user /\ n.token = r.token
         /\ n.session = r.session /\ n.age = r.age /\ n.barred = r.barred
BY DEF Requests

\* or a token.
LEMMA WithToken ==
  ASSUME NEW r \in Requests, NEW j \in Tokens
  PROVE  LET n == [r EXCEPT !.token = j] IN
         /\ n \in Requests
         /\ n.token = j /\ n.pc = r.pc /\ n.name = r.name /\ n.user = r.user
         /\ n.session = r.session /\ n.age = r.age /\ n.barred = r.barred
BY DEF Requests

\* It may get older, or more users may be given something by it.
LEMMA WithAge ==
  ASSUME NEW r \in Requests, NEW a \in 0..MaxAge
  PROVE  LET n == [r EXCEPT !.age = a] IN
         /\ n \in Requests
         /\ n.pc = r.pc /\ n.name = r.name /\ n.user = r.user /\ n.token = r.token
         /\ n.session = r.session /\ n.barred = r.barred
BY DEF Requests

LEMMA WithBarred ==
  ASSUME NEW r \in Requests, NEW b \in SUBSET Users
  PROVE  LET n == [r EXCEPT !.barred = b] IN
         /\ n \in Requests
         /\ n.pc = r.pc /\ n.name = r.name /\ n.user = r.user /\ n.token = r.token
         /\ n.session = r.session /\ n.age = r.age /\ n.barred = b
BY DEF Requests

\* What TypeOK says of one request.
LEMMA RequestFits ==
  ASSUME Typed, NEW w \in Workers
  PROVE  Fit(req[w])
BY DEF Typed, TypeOK, Fit

\* One worker's request changes.
LEMMA OneRequest ==
  ASSUME Typed, NEW w \in Workers, NEW r, Fit(r), req' = [req EXCEPT ![w] = r]
  PROVE  /\ req' \in [Workers -> Requests] /\ \A v \in Workers : Fit(req'[v])
         /\ req'[w] = r
         /\ \A v \in Workers : v # w => req'[v] = req[v]
<1>1. req \in [Workers -> Requests]
  BY DEF Typed, TypeOK
<1>2. req'[w] = r /\ \A v \in Workers : v # w => req'[v] = req[v]
  BY <1>1
<1>3. \A v \in Workers : Fit(req'[v])
  BY <1>2, RequestFits
<1>4. req' \in [Workers -> Requests]
  BY <1>1 DEF Fit
<1>. QED
  BY <1>2, <1>3, <1>4

\* Finishing leaves the worker idle.
LEMMA FinishFits ==
  ASSUME Typed, NEW w \in Workers, Finish(w)
  PROVE  /\ req' \in [Workers -> Requests] /\ \A v \in Workers : Fit(req'[v])
         /\ req'[w] = Idle
         /\ \A v \in Workers : v # w => req'[v] = req[v]
BY OneRequest, IdleFits DEF Finish

\* Going on at a label whose fields are there.
LEMMA GotoFits ==
  ASSUME Typed, NEW w \in Workers, NEW p \in Labels, Goto(w, p),
         FieldsFit([req[w] EXCEPT !.pc = p]),
         p \notin {"createUser", "getByUsername"}
  PROVE  /\ req' \in [Workers -> Requests] /\ \A v \in Workers : Fit(req'[v])
         /\ req'[w] = [req[w] EXCEPT !.pc = p]
         /\ \A v \in Workers : v # w => req'[v] = req[v]
<1>. DEFINE r == [req[w] EXCEPT !.pc = p]
<1>1. req[w] \in Requests
  BY RequestFits DEF Fit
<1>2. r \in Requests /\ r.pc = p
  BY <1>1, WithPc
<1>3. Fit(r)
  BY <1>2 DEF Fit, FreshFit
<1>4. req' = [req EXCEPT ![w] = r]
  BY DEF Goto
<1>. HIDE DEF r
<1>5. /\ req' \in [Workers -> Requests] /\ \A v \in Workers : Fit(req'[v])
      /\ req'[w] = r /\ \A v \in Workers : v # w => req'[v] = req[v]
  BY <1>3, <1>4, OneRequest
<1>. QED
  BY <1>5 DEF r

\* A request arrives: it will give nothing to those who are not active.
LEMMA ArriveFits ==
  ASSUME Typed, NEW w \in Workers, NEW r, Fit(r), Arrive(w, r)
  PROVE  /\ req' \in [Workers -> Requests] /\ \A v \in Workers : Fit(req'[v])
         /\ req'[w].barred = {u \in Users : ~Active(u)}
         /\ req'[w].pc = r.pc /\ req'[w].token = r.token
         /\ \A v \in Workers : v # w => req'[v] = req[v]
         /\ req[w] = Idle
<1>. DEFINE b == {u \in Users : ~Active(u)}
            n == [r EXCEPT !.barred = b]
<1>1. r \in Requests /\ b \in SUBSET Users
  BY DEF Fit
<1>. HIDE DEF b
<1>2. /\ n \in Requests /\ n.pc = r.pc /\ n.name = r.name /\ n.user = r.user
      /\ n.token = r.token /\ n.session = r.session /\ n.barred = b
  BY <1>1, WithBarred
<1>3. req' = [req EXCEPT ![w] = n]
  BY DEF Arrive, b
<1>. HIDE DEF n
<1>4. Fit(n)
  BY <1>2 DEF Fit, FieldsFit, FreshFit
<1>5. /\ req' \in [Workers -> Requests] /\ \A v \in Workers : Fit(req'[v])
      /\ req'[w] = n /\ \A v \in Workers : v # w => req'[v] = req[v]
  BY <1>3, <1>4, OneRequest
<1>. QED
  BY <1>2, <1>5 DEF b, Arrive

\* The requests of registration, login and refresh.
LEMMA ArrivalFits ==
  ASSUME Typed, NEW w \in Workers, Arrival(w)
  PROVE  \E r : /\ Fit(r) /\ Arrive(w, r)
                /\ r.pc \in {"createUser", "getByUsername", "isActive"}
<1>1. ASSUME NEW n \in Names, RegisterUser(w, n)
      PROVE  \E r : /\ Fit(r) /\ Arrive(w, r)
                    /\ r.pc \in {"createUser", "getByUsername", "isActive"}
  <2>. DEFINE r == [Idle EXCEPT !.pc = "createUser", !.name = n]
              a == [Idle EXCEPT !.pc = "createUser"]
  <2>0. Idle \in Requests /\ "createUser" \in Labels
    BY IdleFits DEF Fit, Labels
  <2>1. /\ a \in Requests /\ a.pc = "createUser"
        /\ a.token = None /\ a.session = None
    BY <2>0, WithPc DEF Idle
  <2>2. r = [a EXCEPT !.name = n]
    OBVIOUS
  <2>. HIDE DEF a, r
  <2>4. r \in Requests /\ r.pc = "createUser" /\ r.name = n /\ r.token = None /\ r.session = None
    BY <2>1, <2>2, WithName
  <2>3. Fit(r) /\ r.pc = "createUser"
    BY <2>4 DEF Fit, FieldsFit, FreshFit
  <2>. QED
    BY <1>1, <2>3 DEF RegisterUser, r
<1>2. ASSUME NEW n \in Names, Login(w, n)
      PROVE  \E r : /\ Fit(r) /\ Arrive(w, r)
                    /\ r.pc \in {"createUser", "getByUsername", "isActive"}
  <2>. DEFINE r == [Idle EXCEPT !.pc = "getByUsername", !.name = n]
              a == [Idle EXCEPT !.pc = "getByUsername"]
  <2>0. Idle \in Requests /\ "getByUsername" \in Labels
    BY IdleFits DEF Fit, Labels
  <2>1. /\ a \in Requests /\ a.pc = "getByUsername"
        /\ a.token = None /\ a.session = None
    BY <2>0, WithPc DEF Idle
  <2>2. r = [a EXCEPT !.name = n]
    OBVIOUS
  <2>. HIDE DEF a, r
  <2>4. r \in Requests /\ r.pc = "getByUsername" /\ r.name = n /\ r.token = None /\ r.session = None
    BY <2>1, <2>2, WithName
  <2>3. Fit(r) /\ r.pc = "getByUsername"
    BY <2>4 DEF Fit, FieldsFit, FreshFit
  <2>. QED
    BY <1>2, <2>3 DEF Login, r
<1>3. ASSUME NEW j \in Tokens, RefreshToken(w, j)
      PROVE  \E r : /\ Fit(r) /\ Arrive(w, r)
                    /\ r.pc \in {"createUser", "getByUsername", "isActive"}
  <2>. DEFINE r == [Idle EXCEPT !.pc = "isActive", !.token = j]
              a == [Idle EXCEPT !.pc = "isActive"]
  <2>0. Idle \in Requests /\ "isActive" \in Labels
    BY IdleFits DEF Fit, Labels
  <2>1. /\ a \in Requests /\ a.pc = "isActive"
        /\ a.token = None /\ a.session = None
    BY <2>0, WithPc DEF Idle
  <2>2. r = [a EXCEPT !.token = j]
    OBVIOUS
  <2>. HIDE DEF a, r
  <2>4. r \in Requests /\ r.pc = "isActive" /\ r.token = j
    BY <2>1, <2>2, WithToken
  <2>3. Fit(r) /\ r.pc = "isActive"
    BY <2>4 DEF Fit, FieldsFit, FreshFit
  <2>. QED
    BY <1>3, <2>3 DEF RefreshToken, r
<1>. QED
  BY <1>1, <1>2, <1>3 DEF Arrival

\* Every request may now give something to u.
LEMMA AdmittedFits ==
  ASSUME Typed, NEW u \in Users
  PROVE  /\ Admitted(u) \in [Workers -> Requests]
         /\ \A v \in Workers :
              /\ Fit(Admitted(u)[v])
              /\ Admitted(u)[v].barred = req[v].barred \ {u}
              /\ Admitted(u)[v].pc = req[v].pc /\ Admitted(u)[v].token = req[v].token
              /\ Admitted(u)[v].user = req[v].user
              /\ Admitted(u)[v].session = req[v].session
<1>1. ASSUME NEW v \in Workers
      PROVE  /\ Fit(Admitted(u)[v])
             /\ Admitted(u)[v].barred = req[v].barred \ {u}
             /\ Admitted(u)[v].pc = req[v].pc /\ Admitted(u)[v].token = req[v].token
             /\ Admitted(u)[v].user = req[v].user
             /\ Admitted(u)[v].session = req[v].session
  <2>. DEFINE b == req[v].barred \ {u}
              n == [req[v] EXCEPT !.barred = b]
  <2>1. Fit(req[v])
    BY RequestFits
  <2>2. req[v] \in Requests /\ b \in SUBSET Users
    BY <2>1, RequestFields DEF Fit
  <2>3. Admitted(u)[v] = n
    BY DEF Admitted
  <2>. HIDE DEF b
  <2>4. /\ n \in Requests /\ n.pc = req[v].pc /\ n.name = req[v].name
        /\ n.user = req[v].user /\ n.token = req[v].token
        /\ n.session = req[v].session /\ n.barred = b
    BY <2>2, WithBarred
  <2>. HIDE DEF n
  <2>5. Fit(n)
    BY <2>1, <2>4 DEF Fit, FieldsFit, FreshFit
  <2>. QED
    BY <2>3, <2>4, <2>5 DEF b
<1>2. Admitted(u) = [v \in Workers |-> Admitted(u)[v]]
  BY DEF Admitted
<1>3. \A v \in Workers : Admitted(u)[v] \in Requests
  BY <1>1 DEF Fit
<1>. QED
  BY <1>1, <1>2, <1>3

-----------------------------------------------------------------------------
(* Rows *)

\* Who has an account, and who has none.
LEMMA AccountIs ==
  ASSUME TypeOK, NEW u \in Users
  PROVE  /\ Exists(u) => account[u] \in Account
         /\ Active(u) => Exists(u)
         /\ account[u] = NoAccount => ~Exists(u)
BY DEF TypeOK, Exists, Active, Account, NoAccount, Deleted

\* Rows are rows; the other identifiers are not used yet, or were.
LEMMA RowIs ==
  ASSUME TypeOK, NEW j \in Tokens
  PROVE  /\ j \in Rows => /\ token[j] \in TokenRow /\ token[j] # NoToken
                            /\ token[j] # Gone
         /\ j \notin Rows => token[j] \in {NoToken, Gone}
         /\ Valid(j) => j \in Rows
<1>1. token[j] \in TokenRow \cup {NoToken, Gone}
  BY DEF TypeOK
<1>2. NoToken.state = "none" /\ Gone.state = "gone"
  BY DEF NoToken, Gone
<1>3. \A r \in TokenRow : r.state \in {"valid", "revoked"}
  BY DEF TokenRow
<1>4. j \in Rows <=> token[j].state \in {"valid", "revoked"}
  BY DEF Rows
<1>5. Valid(j) => token[j].state = "valid"
  BY DEF Valid
<1>. QED
  BY <1>1, <1>2, <1>3, <1>4, <1>5

\* The fields of a row.
LEMMA RowFields ==
  ASSUME NEW r \in TokenRow
  PROVE  /\ r.state \in {"valid", "revoked"} /\ r.user \in Users
         /\ r.left \in 0..RefreshTTL /\ r.session \in Tokens
BY DEF TokenRow

\* A row may be revoked or get older.
LEMMA RowChanges ==
  ASSUME NEW r \in TokenRow, NEW n \in 0..RefreshTTL
  PROVE  LET a == [r EXCEPT !.state = "revoked"]
             b == [r EXCEPT !.left = n]
         IN /\ a \in TokenRow /\ a.state = "revoked" /\ a.user = r.user
            /\ a.session = r.session
            /\ b \in TokenRow /\ b.state = r.state /\ b.user = r.user
            /\ b.session = r.session
BY DEF TokenRow

-----------------------------------------------------------------------------
(* What the statements of a handler make of its request *)

\* The requests stay well-formed and only worker w's changes.
OnlyMoves(w) ==
  /\ req' \in [Workers -> Requests] /\ \A v \in Workers : Fit(req'[v])
  /\ \A v \in Workers : v # w => req'[v] = req[v]

\* Worker w is at label p, with the same token, user, session and barred users.
Advances(w, p) ==
  /\ OnlyMoves(w)
  /\ req'[w].pc = p
  /\ req'[w].token = req[w].token /\ req'[w].user = req[w].user
  /\ req'[w].session = req[w].session /\ req'[w].barred = req[w].barred

\* Worker w is done.
Ends(w) == OnlyMoves(w) /\ req'[w] = Idle

LEMMA FinishEnds ==
  ASSUME Typed, NEW w \in Workers, Finish(w)
  PROVE  Ends(w)
BY FinishFits DEF Ends, OnlyMoves

LEMMA GotoAdvances ==
  ASSUME Typed, NEW w \in Workers, NEW p \in {"generate", "revoke", "save"}, Goto(w, p),
         req[w].user \in Users, req[w].token \in Tokens <=> req[w].session \in Tokens,
         p = "revoke" => req[w].token \in Tokens
  PROVE  Advances(w, p)
<1>. DEFINE r == [req[w] EXCEPT !.pc = p]
<1>1. req[w] \in Requests /\ p \in Labels
  BY RequestFits DEF Fit, Labels
<1>2. /\ r \in Requests /\ r.pc = p /\ r.user = req[w].user
      /\ r.token = req[w].token /\ r.session = req[w].session
      /\ r.barred = req[w].barred
  BY <1>1, WithPc
<1>. HIDE DEF r
<1>3. FieldsFit(r)
  BY <1>2 DEF FieldsFit
<1>4. /\ req' \in [Workers -> Requests] /\ \A v \in Workers : Fit(req'[v])
      /\ req'[w] = r /\ \A v \in Workers : v # w => req'[v] = req[v]
  BY <1>1, <1>3, GotoFits DEF r
<1>. QED
  BY <1>2, <1>4 DEF Advances, OnlyMoves

\* A worker at a label has the fields it needs.
LEMMA FieldsThere ==
  ASSUME Typed, NEW w \in Workers
  PROVE  /\ req[w].token \in Tokens \cup {None} /\ None \notin Tokens
         /\ req[w].pc \in {"createUser", "getByUsername"} =>
              req[w].token = None /\ req[w].session = None
         /\ req[w].pc \in {"isActive", "getByID", "revoke"} => req[w].token \in Tokens
         /\ req[w].pc \in {"getByID", "generate", "revoke", "save"} =>
              /\ req[w].user \in Users
              /\ req[w].token \in Tokens <=> req[w].session \in Tokens
         /\ req[w].age \in 0..MaxAge /\ req[w].barred \in SUBSET Users
<1>1. Fit(req[w])
  BY RequestFits
<1>. QED
  BY <1>1, RequestFields, AccountsAssumption DEF Fit, FieldsFit, FreshFit

LEMMA CreateUserDoes ==
  ASSUME Typed, NEW w \in Workers, CreateUser(w)
  PROVE  \/ Ends(w) /\ UNCHANGED <<account, barredFor>>
         \/ \E u \in Users :
              /\ account[u] = NoAccount
              /\ account' \in [Users -> Account \cup {NoAccount, Deleted}]
              /\ Active(u)' /\ \A x \in Users : x # u => account'[x] = account[x]
              /\ req' \in [Workers -> Requests] /\ \A v \in Workers : Fit(req'[v])
              /\ req'[w].pc = "generate" /\ req'[w].token = None /\ req'[w].user = u
              /\ \A v \in Workers : req'[v].barred = req[v].barred \ {u}
              /\ \A v \in Workers : v # w =>
                   /\ req'[v].pc = req[v].pc /\ req'[v].token = req[v].token
                   /\ req'[v].user = req[v].user /\ req'[v].session = req[v].session
              /\ barredFor' = [barredFor EXCEPT ![u] = 0]
<1>1. CASE Finish(w) /\ UNCHANGED <<account, barredFor>>
  BY <1>1, FinishEnds
<1>2. CASE \E u \in Users :
             /\ account[u] = NoAccount
             /\ account' = [account EXCEPT ![u] = [state |-> "active", name |-> req[w].name]]
             /\ req' = [Admitted(u) EXCEPT ![w] = [@ EXCEPT !.pc = "generate", !.user = u]]
             /\ barredFor' = [barredFor EXCEPT ![u] = 0]
  <2>1. PICK u \in Users :
             /\ account[u] = NoAccount
             /\ account' = [account EXCEPT ![u] = [state |-> "active", name |-> req[w].name]]
             /\ req' = [Admitted(u) EXCEPT ![w] = [@ EXCEPT !.pc = "generate", !.user = u]]
             /\ barredFor' = [barredFor EXCEPT ![u] = 0]
    BY <1>2
  <2>. DEFINE q == Admitted(u)
              r == [q[w] EXCEPT !.pc = "generate", !.user = u]
  <2>2. q \in [Workers -> Requests] /\ \A v \in Workers : Fit(q[v])
    BY AdmittedFits
  <2>3. req[w].pc = "createUser" /\ req[w].name \in Names
        /\ req[w].token = None /\ req[w].session = None
    BY RequestFits DEF CreateUser, Fit, FreshFit, FieldsFit
  <2>4. q[w] \in Requests /\ q[w].token = None /\ q[w].session = None
    BY <2>2, <2>3, AdmittedFits DEF Fit
  <2>5. /\ r \in Requests /\ r.pc = "generate" /\ r.user = u /\ r.token = None
        /\ r.session = None /\ r.barred = q[w].barred
    <3>1. "generate" \in Labels
      BY DEF Labels
    <3>. DEFINE a == [q[w] EXCEPT !.pc = "generate"]
    <3>2. /\ a \in Requests /\ a.pc = "generate" /\ a.token = None
          /\ a.session = None /\ a.barred = q[w].barred
      BY <2>4, <3>1, WithPc
    <3>3. r = [a EXCEPT !.user = u]
      OBVIOUS
    <3>. HIDE DEF a, r
    <3>. QED
      BY <3>2, <3>3, WithUser
  <2>. HIDE DEF r
  <2>6. Fit(r)
    BY <2>5, AccountsAssumption DEF Fit, FieldsFit, FreshFit
  <2>7. /\ req' \in [Workers -> Requests] /\ req'[w] = r
        /\ \A v \in Workers : v # w => req'[v] = q[v]
    <3>1. req' = [q EXCEPT ![w] = r]
      BY <2>1 DEF r
    <3>. QED
      BY <2>2, <2>6, <3>1 DEF Fit
  <2>. HIDE DEF q
  <2>8. \A v \in Workers : Fit(req'[v])
    BY <2>2, <2>6, <2>7
  <2>9. /\ account' \in [Users -> Account \cup {NoAccount, Deleted}]
        /\ Active(u)' /\ \A x \in Users : x # u => account'[x] = account[x]
    <3>1. [state |-> "active", name |-> req[w].name] \in Account
      BY <2>3 DEF Account
    <3>. QED
      BY <2>1, <3>1 DEF Typed, TypeOK, Active
  <2>10. /\ req'[w].barred = req[w].barred \ {u}
         /\ \A v \in Workers : v # w =>
              /\ req'[v].pc = req[v].pc /\ req'[v].token = req[v].token
              /\ req'[v].user = req[v].user /\ req'[v].session = req[v].session
              /\ req'[v].barred = req[v].barred \ {u}
    BY <2>5, <2>7, AdmittedFits DEF q
  <2>. QED
    BY <2>1, <2>5, <2>7, <2>8, <2>9, <2>10
<1>. QED
  BY <1>1, <1>2 DEF CreateUser

LEMMA GetByUsernameDoes ==
  ASSUME Typed, NEW w \in Workers, GetByUsername(w)
  PROVE  \/ Ends(w)
         \/ /\ OnlyMoves(w) /\ req'[w].pc = "generate" /\ req'[w].token = None
            /\ req'[w].barred = req[w].barred /\ req[w].pc # "idle"
            /\ req'[w].user \in Users /\ Active(req'[w].user)
<1>1. CASE Finish(w)
  BY <1>1, FinishEnds
<1>2. CASE \E u \in Holders(req[w].name) :
             /\ Active(u)
             /\ req' = [req EXCEPT ![w] = [@ EXCEPT !.pc = "generate", !.user = u]]
  <2>1. PICK u \in Users :
             /\ Active(u)
             /\ req' = [req EXCEPT ![w] = [@ EXCEPT !.pc = "generate", !.user = u]]
    BY <1>2 DEF Holders
  <2>. DEFINE r == [req[w] EXCEPT !.pc = "generate", !.user = u]
  <2>2. req[w].pc = "getByUsername" /\ req[w].token = None /\ req[w].session = None
    BY FieldsThere DEF GetByUsername
  <2>3. /\ r \in Requests /\ r.pc = "generate" /\ r.user = u /\ r.token = None
        /\ r.session = None /\ r.barred = req[w].barred
    <3>1. "generate" \in Labels /\ req[w] \in Requests
      BY RequestFits DEF Labels, Fit
    <3>. DEFINE a == [req[w] EXCEPT !.pc = "generate"]
    <3>2. /\ a \in Requests /\ a.pc = "generate" /\ a.token = None
          /\ a.session = None /\ a.barred = req[w].barred
      BY <2>2, <3>1, WithPc
    <3>3. r = [a EXCEPT !.user = u]
      OBVIOUS
    <3>. HIDE DEF a, r
    <3>. QED
      BY <3>2, <3>3, WithUser
  <2>4. req' = [req EXCEPT ![w] = r]
    BY <2>1
  <2>. HIDE DEF r
  <2>5. Fit(r)
    BY <2>3, AccountsAssumption DEF Fit, FieldsFit, FreshFit
  <2>6. OnlyMoves(w) /\ req'[w] = r
    BY <2>4, <2>5, OneRequest DEF OnlyMoves
  <2>. QED
    BY <2>1, <2>2, <2>3, <2>6
<1>. QED
  BY <1>1, <1>2 DEF GetByUsername

LEMMA IsRefreshTokenActiveDoes ==
  ASSUME Typed, NEW w \in Workers, IsRefreshTokenActive(w)
  PROVE  \/ Ends(w) /\ UNCHANGED shared
         \/ /\ OnlyMoves(w) /\ req[w].pc = "isActive"
            /\ req[w].token \in Rows /\ Valid(req[w].token)
            /\ req'[w].pc = "getByID" /\ req'[w].token = req[w].token
            /\ req'[w].user = token[req[w].token].user
            /\ req'[w].session = token[req[w].token].session
            /\ req'[w].barred = req[w].barred
            /\ shared' = IF Using(req[w].token) = {} THEN shared
                         ELSE shared \cup {token[req[w].token].session}
<1>. DEFINE j == req[w].token
<1>1. req[w].pc = "isActive" /\ j \in Tokens
  BY FieldsThere DEF IsRefreshTokenActive
<1>2. CASE ~(Valid(j) /\ token[j].left > 0)
  BY <1>2, FinishEnds DEF IsRefreshTokenActive
<1>3. CASE Valid(j) /\ token[j].left > 0
  <2>. DEFINE u == token[j].user
              s == token[j].session
              r == [req[w] EXCEPT !.pc = "getByID", !.user = u, !.session = s]
  <2>1. j \in Rows /\ u \in Users /\ s \in Tokens
    BY <1>1, <1>3, RowIs, RowFields DEF Typed
  <2>2. /\ req' = [req EXCEPT ![w] = r]
        /\ shared' = IF Using(j) = {} THEN shared ELSE shared \cup {s}
    BY <1>3 DEF IsRefreshTokenActive
  <2>3. req[w] \in Requests
    BY RequestFits DEF Fit
  <2>. HIDE DEF u, s
  <2>4. /\ r \in Requests /\ r.pc = "getByID" /\ r.user = u /\ r.token = j
        /\ r.session = s /\ r.barred = req[w].barred
    <3>1. "getByID" \in Labels
      BY DEF Labels
    <3>. DEFINE a == [req[w] EXCEPT !.pc = "getByID"]
                b == [a EXCEPT !.user = u]
    <3>2. r = [b EXCEPT !.session = s]
      OBVIOUS
    <3>3. a \in Requests /\ a.pc = "getByID" /\ a.token = j /\ a.barred = req[w].barred
      BY <2>3, <3>1, WithPc
    <3>. HIDE DEF a, r
    <3>4. /\ b \in Requests /\ b.pc = "getByID" /\ b.user = u /\ b.token = j
          /\ b.barred = req[w].barred
      BY <2>1, <3>3, WithUser DEF u
    <3>. HIDE DEF b
    <3>. QED
      BY <2>1, <3>2, <3>4, WithSession
  <2>. HIDE DEF r
  <2>5. Fit(r)
    BY <1>1, <2>1, <2>4 DEF Fit, FieldsFit, FreshFit
  <2>6. OnlyMoves(w) /\ req'[w] = r
    BY <2>2, <2>5, OneRequest DEF OnlyMoves
  <2>. QED
    BY <1>1, <1>3, <2>1, <2>2, <2>4, <2>6 DEF u, s
<1>. QED
  BY <1>2, <1>3

LEMMA GetByIDDoes ==
  ASSUME Typed, NEW w \in Workers, GetByID(w)
  PROVE  \/ Ends(w)
         \/ Advances(w, "generate") /\ req[w].pc = "getByID" /\ Active(req[w].user)
<1>1. /\ req[w].user \in Users /\ req[w].pc = "getByID"
      /\ req[w].token \in Tokens <=> req[w].session \in Tokens
  BY FieldsThere DEF GetByID
<1>. QED
  BY <1>1, GotoAdvances, FinishEnds DEF GetByID

LEMMA GenerateTokensDoes ==
  ASSUME Typed, NEW w \in Workers, GenerateTokens(w)
  PROVE  /\ req[w].pc = "generate"
         /\ \/ Advances(w, "save") /\ req[w].token = None
            \/ Advances(w, "revoke")
<1>1. /\ req[w].user \in Users /\ req[w].pc = "generate"
      /\ req[w].token \in Tokens <=> req[w].session \in Tokens
      /\ req[w].token # None => req[w].token \in Tokens
  BY FieldsThere DEF GenerateTokens
<1>. QED
  BY <1>1, GotoAdvances DEF GenerateTokens

LEMMA RevokeRefreshTokenDoes ==
  ASSUME Typed, NEW w \in Workers, RevokeRefreshToken(w)
  PROVE  Advances(w, "save") /\ req[w].pc = "revoke" /\ req[w].token \in Tokens
<1>1. /\ req[w].user \in Users /\ req[w].pc = "revoke" /\ req[w].token \in Tokens
      /\ req[w].token \in Tokens <=> req[w].session \in Tokens
  BY FieldsThere DEF RevokeRefreshToken
<1>. QED
  BY <1>1, GotoAdvances DEF RevokeRefreshToken

LEMMA SaveRefreshTokenDoes ==
  ASSUME Typed, NEW w \in Workers, SaveRefreshToken(w)
  PROVE  /\ Ends(w) /\ req[w].pc = "save" /\ req[w].user \in Users
         /\ \/ ~Exists(req[w].user) /\ UNCHANGED <<token, access, cookie, broken>>
            \/ /\ Exists(req[w].user)
               /\ \E j, s \in Tokens :
                    /\ s = IF req[w].token = None THEN j ELSE req[w].session
                    /\ token[j] = NoToken
                    /\ token' \in [Tokens -> TokenRow \cup {NoToken, Gone}]
                    /\ token'[j] \in TokenRow /\ token'[j].state = "valid"
                    /\ token'[j].user = req[w].user /\ token'[j].session = s
                    /\ \A i \in Tokens : i # j => token'[i] = token[i]
                    /\ \/ /\ access' \in [Users -> 0..AccessTTL]
                          /\ \A u \in Users : u # req[w].user => access'[u] = access[u]
                          /\ cookie' = [cookie EXCEPT ![s] = j] /\ broken' = broken
                       \/ broken' = broken \cup AtStake(w) /\ UNCHANGED <<access, cookie>>
<1>. DEFINE r == req[w]
<1>1. r.pc = "save" /\ r.user \in Users /\ r.age \in Nat
      /\ (r.token # None => r.session \in Tokens)
  BY FieldsThere, MaxAgeIs DEF SaveRefreshToken
<1>2. Ends(w)
  BY FinishEnds DEF SaveRefreshToken
<1>. HIDE DEF r
<1>3. CASE ~CanSave(req[w].user) /\ UNCHANGED <<token, access, cookie, broken>>
  BY <1>1, <1>2, <1>3 DEF CanSave, r
<1>4. ASSUME CanSave(r.user), NEW j \in Tokens, NEW s \in Tokens,
             s = IF r.token = None THEN j ELSE r.session,
             token[j] = NoToken,
             token' = [token EXCEPT ![j] =
               [state |-> "valid", user |-> r.user,
                left |-> Larger(0, RefreshTTL - r.age), session |-> s]],
             \/ /\ access' = [access EXCEPT ![r.user] = Larger(@, AccessTTL - r.age)]
                /\ cookie' = [cookie EXCEPT ![s] = j] /\ UNCHANGED broken
             \/ broken' = broken \cup AtStake(w) /\ UNCHANGED <<access, cookie>>
      PROVE  /\ Exists(r.user)
             /\ token' \in [Tokens -> TokenRow \cup {NoToken, Gone}]
             /\ token'[j] \in TokenRow /\ token'[j].state = "valid"
             /\ token'[j].user = r.user /\ token'[j].session = s
             /\ \A i \in Tokens : i # j => token'[i] = token[i]
             /\ \/ /\ access' \in [Users -> 0..AccessTTL]
                   /\ \A u \in Users : u # r.user => access'[u] = access[u]
                   /\ cookie' = [cookie EXCEPT ![s] = j] /\ broken' = broken
                \/ broken' = broken \cup AtStake(w) /\ UNCHANGED <<access, cookie>>
  <2>. DEFINE row == [state |-> "valid", user |-> r.user,
                      left |-> Larger(0, RefreshTTL - r.age), session |-> s]
  <2>1. Larger(0, RefreshTTL - r.age) \in 0..RefreshTTL
    BY <1>1, AccountsAssumption DEF Larger
  <2>2. row \in TokenRow /\ row.state = "valid" /\ row.user = r.user /\ row.session = s
    BY <1>1, <2>1 DEF TokenRow
  <2>3. token' = [token EXCEPT ![j] = row]
    BY <1>4
  <2>4. token \in [Tokens -> TokenRow \cup {NoToken, Gone}]
        /\ access \in [Users -> 0..AccessTTL]
    BY DEF Typed, TypeOK
  <2>. HIDE DEF row
  <2>5. /\ token' \in [Tokens -> TokenRow \cup {NoToken, Gone}] /\ token'[j] = row
        /\ \A i \in Tokens : i # j => token'[i] = token[i]
    BY <2>2, <2>3, <2>4
  <2>6. ASSUME access' = [access EXCEPT ![r.user] = Larger(@, AccessTTL - r.age)]
        PROVE  /\ access' \in [Users -> 0..AccessTTL]
               /\ \A u \in Users : u # r.user => access'[u] = access[u]
    <3>1. access[r.user] \in 0..AccessTTL
      BY <1>1, <2>4
    <3>2. Larger(access[r.user], AccessTTL - r.age) \in 0..AccessTTL
      BY <1>1, <3>1, AccountsAssumption DEF Larger
    <3>. QED
      BY <1>1, <2>4, <2>6, <3>2
  <2>7. Exists(r.user)
    BY <1>4 DEF CanSave
  <2>. QED
    BY <1>4, <2>2, <2>5, <2>6, <2>7
<1>5. CASE ~(~CanSave(req[w].user) /\ UNCHANGED <<token, access, cookie, broken>>)
  <2>1. CanSave(r.user) /\ \E j \in Tokens :
          LET s == IF r.token = None THEN j ELSE r.session IN
            /\ token[j] = NoToken
            /\ token' = [token EXCEPT ![j] =
                 [state |-> "valid", user |-> r.user,
                  left |-> Larger(0, RefreshTTL - r.age), session |-> s]]
            /\ \/ /\ access' = [access EXCEPT ![r.user] = Larger(@, AccessTTL - r.age)]
                  /\ cookie' = [cookie EXCEPT ![s] = j] /\ UNCHANGED broken
               \/ broken' = broken \cup AtStake(w) /\ UNCHANGED <<access, cookie>>
    BY <1>5 DEF SaveRefreshToken, r
  <2>2. PICK j \in Tokens :
          LET s == IF r.token = None THEN j ELSE r.session IN
            /\ token[j] = NoToken
            /\ token' = [token EXCEPT ![j] =
                 [state |-> "valid", user |-> r.user,
                  left |-> Larger(0, RefreshTTL - r.age), session |-> s]]
            /\ \/ /\ access' = [access EXCEPT ![r.user] = Larger(@, AccessTTL - r.age)]
                  /\ cookie' = [cookie EXCEPT ![s] = j] /\ UNCHANGED broken
               \/ broken' = broken \cup AtStake(w) /\ UNCHANGED <<access, cookie>>
    BY <2>1
  <2>. DEFINE s == IF r.token = None THEN j ELSE r.session
  <2>3. s \in Tokens
    BY <1>1
  <2>4. /\ token[j] = NoToken
        /\ token' = [token EXCEPT ![j] =
             [state |-> "valid", user |-> r.user,
              left |-> Larger(0, RefreshTTL - r.age), session |-> s]]
        /\ \/ /\ access' = [access EXCEPT ![r.user] = Larger(@, AccessTTL - r.age)]
              /\ cookie' = [cookie EXCEPT ![s] = j] /\ UNCHANGED broken
           \/ broken' = broken \cup AtStake(w) /\ UNCHANGED <<access, cookie>>
    BY <2>2
  <2>5. s = IF r.token = None THEN j ELSE r.session
    OBVIOUS
  <2>. HIDE DEF s
  <2>6. /\ Exists(r.user)
        /\ token' \in [Tokens -> TokenRow \cup {NoToken, Gone}]
        /\ token'[j] \in TokenRow /\ token'[j].state = "valid"
        /\ token'[j].user = r.user /\ token'[j].session = s
        /\ \A i \in Tokens : i # j => token'[i] = token[i]
        /\ \/ /\ access' \in [Users -> 0..AccessTTL]
              /\ \A u \in Users : u # r.user => access'[u] = access[u]
              /\ cookie' = [cookie EXCEPT ![s] = j] /\ broken' = broken
           \/ broken' = broken \cup AtStake(w) /\ UNCHANGED <<access, cookie>>
    BY <1>4, <2>1, <2>3, <2>4, <2>5
  <2>. QED
    BY <1>1, <1>2, <2>2, <2>3, <2>5, <2>6 DEF r
<1>. QED
  BY <1>3, <1>5

-----------------------------------------------------------------------------
(* Types *)

\* The tables and the auxiliary variables.
TablesTyped ==
  /\ account \in [Users -> Account \cup {NoAccount, Deleted}]
  /\ token \in [Tokens -> TokenRow \cup {NoToken, Gone}]
  /\ access \in [Users -> 0..AccessTTL]
  /\ cookie \in [Tokens -> Tokens \cup {None}]
  /\ shared \subseteq Tokens /\ broken \subseteq Tokens
  /\ barredFor \in [Users -> 0..AccessTTL]

LEMMA TypedIs ==
  Typed <=> /\ TablesTyped /\ req \in [Workers -> Requests]
            /\ \A v \in Workers : Fit(req[v])
BY DEF Typed, TypeOK, TablesTyped, Fit

LEMMA AtStakeType ==
  ASSUME Typed, NEW w \in Workers
  PROVE  AtStake(w) \subseteq Tokens
BY FieldsThere DEF AtStake

LEMMA InitTyped == Init => Typed
<1>. SUFFICES ASSUME Init PROVE Typed
  OBVIOUS
<1>1. TablesTyped
  BY AccountsAssumption DEF Init, TablesTyped
<1>2. req \in [Workers -> Requests] /\ \A v \in Workers : Fit(req[v])
  BY IdleFits DEF Init, Fit
<1>. QED
  BY <1>1, <1>2, TypedIs

LEMMA StepTyped ==
  ASSUME Typed, NEW w \in Workers, Arrival(w) \/ Step(w) \/ Fail(w)
  PROVE  Typed'
<1>. SUFFICES /\ TablesTyped' /\ req' \in [Workers -> Requests]
              /\ \A v \in Workers : Fit(req'[v])
  BY DEF Typed, TypeOK, TablesTyped, Fit, FreshFit, FieldsFit, Requests, Account,
         NoAccount, Deleted, TokenRow, NoToken, Gone, MaxAge, Larger
<1>0. TablesTyped
  BY TypedIs
<1>1. CASE Arrival(w)
  <2>1. PICK r : Fit(r) /\ Arrive(w, r)
    BY <1>1, ArrivalFits
  <2>2. req' \in [Workers -> Requests] /\ \A v \in Workers : Fit(req'[v])
    BY <2>1, ArriveFits
  <2>. QED
    BY <1>0, <2>1, <2>2 DEF Arrive, aux, TablesTyped
<1>2. CASE CreateUser(w)
  <2>1. UNCHANGED <<token, access, cookie, shared, broken>>
    BY <1>2 DEF CreateUser
  <2>. QED
    BY <1>0, <1>2, <2>1, CreateUserDoes, AccountsAssumption DEF TablesTyped, Ends, OnlyMoves
<1>3. CASE GetByUsername(w)
  BY <1>0, <1>3, GetByUsernameDoes DEF GetByUsername, aux, TablesTyped, Ends, OnlyMoves
<1>4. CASE IsRefreshTokenActive(w)
  <2>1. /\ req' \in [Workers -> Requests] /\ \A v \in Workers : Fit(req'[v])
        /\ shared' \subseteq Tokens
    <3>1. CASE Ends(w) /\ UNCHANGED shared
      BY <1>0, <3>1 DEF Ends, OnlyMoves, TablesTyped
    <3>2. CASE /\ OnlyMoves(w) /\ req[w].token \in Rows
               /\ shared' = IF Using(req[w].token) = {} THEN shared
                            ELSE shared \cup {token[req[w].token].session}
      <4>1. req[w].token \in Tokens
        BY <3>2 DEF Rows
      <4>2. token[req[w].token].session \in Tokens
        BY <3>2, <4>1, RowIs, RowFields DEF Typed
      <4>. QED
        BY <1>0, <3>2, <4>2 DEF OnlyMoves, TablesTyped
    <3>. QED
      BY <1>4, <3>1, <3>2, IsRefreshTokenActiveDoes
  <2>. QED
    BY <1>0, <1>4, <2>1 DEF IsRefreshTokenActive, TablesTyped
<1>5. CASE GetByID(w)
  BY <1>0, <1>5, GetByIDDoes DEF GetByID, aux, TablesTyped, Ends, Advances, OnlyMoves
<1>6. CASE GenerateTokens(w)
  BY <1>0, <1>6, GenerateTokensDoes
     DEF GenerateTokens, aux, TablesTyped, Ends, Advances, OnlyMoves
<1>7. CASE RevokeRefreshToken(w)
  <2>1. req[w].token \in Tokens /\ Advances(w, "save")
    BY <1>7, RevokeRefreshTokenDoes
  <2>2. Valid(req[w].token) =>
          [token[req[w].token] EXCEPT !.state = "revoked"] \in TokenRow
    <3>1. CASE Valid(req[w].token)
      <4>1. token[req[w].token] \in TokenRow
        BY <2>1, <3>1, RowIs DEF Typed
      <4>2. 0 \in 0..RefreshTTL
        BY AccountsAssumption
      <4>. QED
        BY <4>1, <4>2, RowChanges
    <3>. QED
      BY <3>1
  <2>3. token' \in [Tokens -> TokenRow \cup {NoToken, Gone}]
    BY <1>0, <1>7, <2>1, <2>2 DEF RevokeRefreshToken, Revoked, TablesTyped
  <2>. QED
    BY <1>0, <1>7, <2>1, <2>3 DEF RevokeRefreshToken, aux, TablesTyped, Advances, OnlyMoves
<1>8. CASE SaveRefreshToken(w)
  <2>1. AtStake(w) \subseteq Tokens
    BY AtStakeType
  <2>2. Ends(w) /\ UNCHANGED <<account, shared, barredFor>>
    BY <1>8, SaveRefreshTokenDoes DEF SaveRefreshToken
  <2>3. /\ token' \in [Tokens -> TokenRow \cup {NoToken, Gone}]
        /\ access' \in [Users -> 0..AccessTTL]
        /\ cookie' \in [Tokens -> Tokens \cup {None}] /\ broken' \subseteq Tokens
    BY <1>0, <1>8, <2>1, SaveRefreshTokenDoes DEF TablesTyped
  <2>. QED
    BY <1>0, <2>2, <2>3 DEF TablesTyped, Ends, OnlyMoves
<1>9. CASE Fail(w)
  BY <1>0, <1>9, FinishEnds, AtStakeType DEF Fail, TablesTyped, Ends, OnlyMoves
<1>. QED
  BY <1>1, <1>2, <1>3, <1>4, <1>5, <1>6, <1>7, <1>8, <1>9 DEF Step

LEMMA AdminTyped ==
  ASSUME Typed, NEW u \in Users, BanUser(u) \/ UnbanUser(u) \/ AdminDeleteUser(u)
  PROVE  Typed'
<1>. SUFFICES /\ TablesTyped' /\ req' \in [Workers -> Requests]
              /\ \A v \in Workers : Fit(req'[v])
  BY DEF Typed, TypeOK, TablesTyped, Fit, FreshFit, FieldsFit, Requests, Account,
         NoAccount, Deleted, TokenRow, NoToken, Gone, MaxAge, Larger
<1>0. /\ TablesTyped /\ req \in [Workers -> Requests]
      /\ \A v \in Workers : Fit(req[v])
  BY TypedIs
<1>1. \A st \in {"active", "banned"} :
        account[u].state \in {"active", "banned"} =>
          [account[u] EXCEPT !.state = st] \in Account
  <2>1. account[u].state \in {"active", "banned"} => account[u] \in Account
    BY AccountIs DEF Typed, Exists
  <2>. QED
    BY <2>1 DEF Account
<1>2. CASE BanUser(u)
  BY <1>0, <1>1, <1>2 DEF BanUser, Active, aux, TablesTyped
<1>3. CASE UnbanUser(u)
  <2>1. account' \in [Users -> Account \cup {NoAccount, Deleted}]
    BY <1>0, <1>1, <1>3 DEF UnbanUser, TablesTyped
  <2>2. req' \in [Workers -> Requests] /\ \A v \in Workers : Fit(req'[v])
    BY <1>3, AdmittedFits DEF UnbanUser
  <2>. QED
    BY <1>0, <1>3, <2>1, <2>2, AccountsAssumption DEF UnbanUser, TablesTyped
<1>4. CASE AdminDeleteUser(u)
  BY <1>0, <1>4 DEF AdminDeleteUser, aux, TablesTyped
<1>. QED
  BY <1>2, <1>3, <1>4

LEMMA LogoutTyped ==
  ASSUME Typed, NEW s \in Tokens, Logout(s)
  PROVE  Typed'
BY DEF Logout, Typed, TypeOK, FreshFit, FieldsFit, Requests, Account,
       NoAccount, Deleted, TokenRow, NoToken, Gone, MaxAge, Larger

\* A tick makes rows and requests older, no more.
LEMMA TickDoes ==
  ASSUME Typed, Tick
  PROVE  /\ token' \in [Tokens -> TokenRow \cup {NoToken, Gone}]
         /\ \A j \in Tokens :
              /\ j \notin Rows => token'[j] = token[j]
              /\ j \in Rows => /\ token'[j] \in TokenRow
                               /\ token'[j].state = token[j].state
                               /\ token'[j].user = token[j].user
                               /\ token'[j].session = token[j].session
         /\ req' \in [Workers -> Requests] /\ \A v \in Workers : Fit(req'[v])
         /\ \A v \in Workers :
              /\ req'[v].pc = req[v].pc /\ req'[v].token = req[v].token
              /\ req'[v].user = req[v].user /\ req'[v].session = req[v].session
              /\ req'[v].barred = req[v].barred
<1>1. ASSUME NEW j \in Tokens
      PROVE  /\ j \notin Rows => token'[j] = token[j]
             /\ j \in Rows => /\ token'[j] \in TokenRow
                              /\ token'[j].state = token[j].state
                              /\ token'[j].user = token[j].user
                              /\ token'[j].session = token[j].session
             /\ token'[j] \in TokenRow \cup {NoToken, Gone}
  <2>1. CASE j \notin Rows
    <3>1. token'[j] = token[j]
      BY <2>1 DEF Tick
    <3>. QED
      BY <2>1, <3>1, RowIs DEF Typed
  <2>2. CASE j \in Rows
    <3>1. token[j] \in TokenRow
      BY <2>2, RowIs DEF Typed
    <3>2. token[j].left \in 0..RefreshTTL
      BY <3>1, RowFields
    <3>3. Less(token[j].left) \in 0..RefreshTTL
      BY <3>2, AccountsAssumption DEF Less
    <3>4. token'[j] = [token[j] EXCEPT !.left = Less(token[j].left)]
      BY <2>2 DEF Tick
    <3>. DEFINE n == Less(token[j].left)
                row == [token[j] EXCEPT !.left = n]
    <3>. HIDE DEF n
    <3>5. /\ row \in TokenRow /\ row.state = token[j].state
          /\ row.user = token[j].user /\ row.session = token[j].session
      BY <3>1, <3>3, RowChanges DEF n
    <3>6. token'[j] = row
      BY <3>4 DEF n
    <3>. QED
      BY <2>2, <3>5, <3>6
  <2>. QED
    BY <2>1, <2>2
<1>2. ASSUME NEW v \in Workers
      PROVE  /\ Fit(req'[v])
             /\ req'[v].pc = req[v].pc /\ req'[v].token = req[v].token
             /\ req'[v].user = req[v].user /\ req'[v].session = req[v].session
             /\ req'[v].barred = req[v].barred
  <2>. DEFINE a == More(req[v].age, MaxAge)
              n == [req[v] EXCEPT !.age = a]
  <2>1. Fit(req[v]) /\ req[v] \in Requests
    BY RequestFits DEF Fit
  <2>2. req[v].age \in 0..MaxAge
    BY <2>1, RequestFields
  <2>3. a \in 0..MaxAge
    BY <2>2, MaxAgeIs DEF More
  <2>4. req'[v] = n \/ req'[v] = req[v]
    BY DEF Tick
  <2>. HIDE DEF a
  <2>5. /\ n \in Requests
        /\ n.pc = req[v].pc /\ n.name = req[v].name /\ n.user = req[v].user
        /\ n.token = req[v].token /\ n.session = req[v].session
        /\ n.barred = req[v].barred
    BY <2>1, <2>3, WithAge
  <2>. HIDE DEF n
  <2>6. Fit(n)
    BY <2>1, <2>5 DEF Fit, FieldsFit, FreshFit
  <2>. QED
    BY <2>1, <2>4, <2>5, <2>6
<1>3. token' = [j \in Tokens |-> token'[j]] /\ req' = [v \in Workers |-> req'[v]]
  BY DEF Tick
<1>4. token' \in [Tokens -> TokenRow \cup {NoToken, Gone}]
  BY <1>1, <1>3
<1>5. req' \in [Workers -> Requests]
  BY <1>2, <1>3 DEF Fit
<1>. QED
  BY <1>1, <1>2, <1>4, <1>5

LEMMA TickTyped ==
  ASSUME Typed, Tick
  PROVE  Typed'
<1>. SUFFICES /\ TablesTyped' /\ req' \in [Workers -> Requests]
              /\ \A v \in Workers : Fit(req'[v])
  BY DEF Typed, TypeOK, TablesTyped, Fit, FreshFit, FieldsFit, Requests, Account,
         NoAccount, Deleted, TokenRow, NoToken, Gone, MaxAge, Larger
<1>0. TablesTyped
  BY TypedIs
<1>1. access' \in [Users -> 0..AccessTTL]
  <2>1. ASSUME NEW u \in Users
        PROVE  Less(access[u]) \in 0..AccessTTL
    <3>1. access[u] \in 0..AccessTTL
      BY <1>0 DEF TablesTyped
    <3>. QED
      BY <3>1, AccountsAssumption DEF Less
  <2>2. access' = [u \in Users |-> Less(access[u])]
    BY DEF Tick
  <2>. QED
    BY <2>1, <2>2
<1>2. barredFor' \in [Users -> 0..AccessTTL]
  BY <1>0, AccountsAssumption DEF Tick, TablesTyped, More
<1>. QED
  BY <1>0, <1>1, <1>2, TickDoes DEF Tick, TablesTyped

LEMMA NextTyped == Typed /\ [Next]_vars => Typed'
<1>. SUFFICES ASSUME Typed, [Next]_vars PROVE Typed'
  OBVIOUS
<1>1. CASE UNCHANGED vars
  BY <1>1 DEF vars, Typed, TypeOK, FreshFit, FieldsFit, Requests, Account,
       NoAccount, Deleted, TokenRow, NoToken, Gone, MaxAge, Larger
<1>2. CASE Next
  BY <1>2, StepTyped, AdminTyped, LogoutTyped, TickTyped DEF Next
<1>. QED
  BY <1>1, <1>2

LEMMA AlwaysTyped == Spec => []Typed
BY InitTyped, NextTyped, PTL DEF Spec

\* Whatever handlers do in whatever order, tables and requests keep their types
\* and every statement has the fields it uses (service/user, repository/token).
THEOREM TypeCorrect == Spec => []TypeOK
<1>1. Typed => TypeOK
  BY DEF Typed
<1>. QED
  BY <1>1, AlwaysTyped, PTL

-----------------------------------------------------------------------------
(* Tokens of deleted users *)

\* The step leaves state, user and session of every token alone.
TokensKept ==
  \A j \in Tokens :
    /\ token'[j] = NoToken <=> token[j] = NoToken
    /\ token[j] = Gone => token'[j] = Gone
    /\ j \in Rows' <=> j \in Rows
    /\ j \in Rows => /\ token'[j].state = token[j].state
                     /\ token'[j].user = token[j].user
                     /\ token'[j].session = token[j].session

LEMMA SameTokens == ASSUME token' = token PROVE TokensKept
BY DEF TokensKept, Rows

LEMMA TickKeepsTokens ==
  ASSUME Typed, Tick
  PROVE  TokensKept
<1>1. ASSUME NEW j \in Tokens, j \notin Rows
      PROVE  token'[j] = token[j] /\ token[j] \in {NoToken, Gone} /\ j \notin Rows'
  BY <1>1, TickDoes, RowIs DEF Typed, Rows
<1>2. ASSUME NEW j \in Tokens, j \in Rows
      PROVE  /\ token'[j].state = token[j].state /\ token'[j].user = token[j].user
             /\ token'[j].session = token[j].session
             /\ j \in Rows' /\ token'[j] # NoToken /\ token[j] # NoToken
             /\ token[j] # Gone
  <2>1. /\ token'[j].state = token[j].state /\ token'[j].user = token[j].user
        /\ token'[j].session = token[j].session
    BY <1>2, TickDoes
  <2>2. token[j].state \in {"valid", "revoked"} /\ token[j] # NoToken /\ token[j] # Gone
    BY <1>2, RowIs DEF Typed, Rows
  <2>3. token'[j] # NoToken
    BY <2>1, <2>2 DEF NoToken
  <2>. QED
    BY <2>1, <2>2, <2>3 DEF Rows
<1>. QED
  BY <1>1, <1>2 DEF TokensKept

\* A revoked row stays where it is.
LEMMA RevokeDoes ==
  ASSUME Typed, NEW w \in Workers, RevokeRefreshToken(w)
  PROVE  /\ req[w].token \in Tokens
         /\ \A j \in Tokens : j # req[w].token => token'[j] = token[j]
         /\ ~Valid(req[w].token) => token' = token
         /\ Valid(req[w].token) =>
              /\ req[w].token \in Rows /\ req[w].token \in Rows'
              /\ token'[req[w].token].state = "revoked"
              /\ token'[req[w].token].user = token[req[w].token].user
              /\ token'[req[w].token].session = token[req[w].token].session
<1>. DEFINE j == req[w].token
<1>1. j \in Tokens
  BY RevokeRefreshTokenDoes
<1>2. token \in [Tokens -> TokenRow \cup {NoToken, Gone}]
  BY DEF Typed, TypeOK
<1>3. token' = [token EXCEPT ![j] = IF Valid(j) THEN [@ EXCEPT !.state = "revoked"] ELSE @]
  BY DEF RevokeRefreshToken, Revoked
<1>. HIDE DEF j
<1>4. \A i \in Tokens : i # j => token'[i] = token[i]
  BY <1>2, <1>3
<1>5. CASE ~Valid(j)
  BY <1>1, <1>2, <1>3, <1>4, <1>5 DEF j
<1>6. CASE Valid(j)
  <2>. DEFINE row == [token[j] EXCEPT !.state = "revoked"]
  <2>1. token[j] \in TokenRow /\ j \in Rows
    BY <1>1, <1>6, RowIs DEF Typed
  <2>2. 0 \in 0..RefreshTTL
    BY AccountsAssumption
  <2>3. row.state = "revoked" /\ row.user = token[j].user /\ row.session = token[j].session
    BY <2>1, <2>2, RowChanges
  <2>4. token'[j] = row
    BY <1>1, <1>2, <1>3, <1>6
  <2>5. j \in Rows'
    BY <1>1, <2>3, <2>4 DEF Rows
  <2>. QED
    BY <1>1, <1>4, <1>6, <2>1, <2>3, <2>4, <2>5 DEF j
<1>. QED
  BY <1>5, <1>6

\* A deletion takes the user's rows, and only those.
LEMMA DeleteDoes ==
  ASSUME Typed, NEW u \in Users, AdminDeleteUser(u)
  PROVE  \A j \in Tokens :
           /\ token'[j] = token[j] \/ token'[j] = Gone
           /\ j \in Rows /\ token[j].user = u => token'[j] = Gone
           /\ j \in Rows' => j \in Rows /\ token'[j] = token[j] /\ token[j].user # u
           /\ token'[j] = NoToken => token[j] = NoToken
           /\ token[j] = NoToken => token'[j] = NoToken
<1>1. \A j \in Tokens :
        token'[j] = IF j \in Rows /\ token[j].user = u THEN Gone ELSE token[j]
  BY DEF AdminDeleteUser
<1>2. Gone.state = "gone" /\ Gone # NoToken
  BY DEF Gone, NoToken
<1>3. \A j \in Tokens : token[j] = NoToken => j \notin Rows
  BY DEF Rows, NoToken
<1>4. \A j \in Tokens : token'[j] = Gone => j \notin Rows'
  BY <1>2 DEF Rows
<1>. QED
  BY <1>1, <1>2, <1>3, <1>4 DEF Rows

LEMMA OwnersStay ==
  ASSUME NoTokenOfDeleted,
         \A u : Exists(u) => Exists(u)',
         \A j \in Tokens : j \in Rows' => j \in Rows /\ token'[j].user = token[j].user
  PROVE  NoTokenOfDeleted'
BY DEF NoTokenOfDeleted, Rows

LEMMA KeptOwnersStay ==
  ASSUME NoTokenOfDeleted, TokensKept, \A u : Exists(u) => Exists(u)'
  PROVE  NoTokenOfDeleted'
BY OwnersStay DEF TokensKept

LEMMA NextOwners ==
  ASSUME Typed, NoTokenOfDeleted, [Next]_vars
  PROVE  NoTokenOfDeleted'
<1>1. ASSUME account' = account
      PROVE  \A u : Exists(u) => Exists(u)'
  BY <1>1 DEF Exists
<1>2. CASE UNCHANGED vars
  BY <1>1, <1>2, SameTokens, KeptOwnersStay DEF vars
<1>3. ASSUME NEW w \in Workers, Arrival(w) \/ Fail(w) \/ GetByUsername(w)
               \/ IsRefreshTokenActive(w) \/ GetByID(w) \/ GenerateTokens(w)
      PROVE  NoTokenOfDeleted'
  <2>1. account' = account /\ token' = token
    BY <1>3 DEF Arrival, RegisterUser, Login, RefreshToken, Arrive, Fail, GetByUsername,
                IsRefreshTokenActive, GetByID, GenerateTokens
  <2>. QED
    BY <1>1, <2>1, SameTokens, KeptOwnersStay
<1>4. ASSUME NEW w \in Workers, CreateUser(w)
      PROVE  NoTokenOfDeleted'
  <2>1. token' = token
    BY <1>4 DEF CreateUser
  <2>2. \A u \in Users : Exists(u) => Exists(u)'
    <3>1. CASE UNCHANGED account
      BY <1>1, <3>1
    <3>2. CASE \E u \in Users :
                 /\ account[u] = NoAccount /\ Active(u)'
                 /\ \A x \in Users : x # u => account'[x] = account[x]
      BY <3>2 DEF Exists, Active
    <3>. QED
      BY <1>4, <3>1, <3>2, CreateUserDoes
  <2>3. \A j \in Rows : token[j].user \in Users
    BY RowIs, RowFields DEF Typed, Rows
  <2>. QED
    BY <2>1, <2>2, <2>3 DEF NoTokenOfDeleted, Rows
<1>5. ASSUME NEW w \in Workers, RevokeRefreshToken(w)
      PROVE  NoTokenOfDeleted'
  <2>1. \A u : Exists(u) => Exists(u)'
    BY <1>1, <1>5 DEF RevokeRefreshToken
  <2>2. \A j \in Tokens : j \in Rows' => j \in Rows /\ token'[j].user = token[j].user
    BY <1>5, RevokeDoes DEF Rows
  <2>. QED
    BY <2>1, <2>2, OwnersStay
<1>6. ASSUME NEW w \in Workers, SaveRefreshToken(w)
      PROVE  NoTokenOfDeleted'
  <2>1. \A u : Exists(u) => Exists(u)'
    BY <1>1, <1>6 DEF SaveRefreshToken
  <2>2. CASE UNCHANGED token
    BY <2>1, <2>2, SameTokens, KeptOwnersStay
  <2>3. CASE /\ Exists(req[w].user)
             /\ \E j \in Tokens : /\ token'[j].user = req[w].user
                                  /\ \A i \in Tokens : i # j => token'[i] = token[i]
    BY <2>1, <2>3 DEF NoTokenOfDeleted, Rows
  <2>. QED
    BY <1>6, <2>2, <2>3, SaveRefreshTokenDoes
<1>7. ASSUME NEW s \in Tokens, Logout(s)
      PROVE  NoTokenOfDeleted'
  BY <1>1, <1>7, SameTokens, KeptOwnersStay DEF Logout
<1>8. ASSUME NEW u \in Users, BanUser(u) \/ UnbanUser(u)
      PROVE  NoTokenOfDeleted'
  <2>1. token' = token
    BY <1>8 DEF BanUser, UnbanUser
  <2>2. \A x \in Users : Exists(x) => Exists(x)'
    <3>1. /\ account \in [Users -> Account \cup {NoAccount, Deleted}]
          /\ account[u] \in Account
      BY <1>8, AccountIs DEF Typed, TypeOK, BanUser, UnbanUser, Active, Exists
    <3>2. [account[u] EXCEPT !.state = "banned"].state = "banned"
          /\ [account[u] EXCEPT !.state = "active"].state = "active"
      BY <3>1 DEF Account
    <3>3. \/ account' = [account EXCEPT ![u] = [account[u] EXCEPT !.state = "banned"]]
          \/ account' = [account EXCEPT ![u] = [account[u] EXCEPT !.state = "active"]]
      BY <1>8 DEF BanUser, UnbanUser
    <3>4. account'[u].state \in {"active", "banned"}
      BY <3>1, <3>2, <3>3
    <3>5. \A x \in Users : x # u => account'[x] = account[x]
      BY <3>1, <3>3
    <3>. QED
      BY <3>4, <3>5 DEF Exists
  <2>3. \A j \in Rows : token[j].user \in Users
    BY RowIs, RowFields DEF Typed, Rows
  <2>. QED
    BY <2>1, <2>2, <2>3 DEF NoTokenOfDeleted, Rows
<1>9. ASSUME NEW u \in Users, AdminDeleteUser(u)
      PROVE  NoTokenOfDeleted'
  <2>1. account' = [account EXCEPT ![u] = Deleted]
    BY <1>9 DEF AdminDeleteUser
  <2>2. \A x \in Users : x # u => account'[x] = account[x]
    BY <2>1 DEF Typed, TypeOK
  <2>3. \A j \in Rows : token[j].user \in Users
    BY RowIs, RowFields DEF Typed, Rows
  <2>4. \A j \in Rows' : j \in Rows /\ token'[j].user = token[j].user /\ token[j].user # u
    BY <1>9, DeleteDoes DEF Rows
  <2>. QED
    BY <2>2, <2>3, <2>4 DEF NoTokenOfDeleted, Exists
<1>10. CASE Tick
  BY <1>1, <1>10, TickKeepsTokens, KeptOwnersStay DEF Tick
<1>. QED
  BY <1>2, <1>3, <1>4, <1>5, <1>6, <1>7, <1>8, <1>9, <1>10 DEF Next, Step

\* A deleted user never has a refresh token, however the deletion, logins and
\* refreshes interleave (AdminDeleteUser, SaveRefreshToken).
THEOREM DeletedHaveNoToken == Spec => []NoTokenOfDeleted
<1>1. Init => NoTokenOfDeleted
  BY DEF Init, NoTokenOfDeleted, Rows, NoToken
<1>2. Typed /\ NoTokenOfDeleted /\ [Next]_vars => NoTokenOfDeleted'
  BY NextOwners
<1>. QED
  BY <1>1, <1>2, AlwaysTyped, PTL DEF Spec

-----------------------------------------------------------------------------
(* Access of barred users *)

\* A request still owes nothing to those it is barred from, and one about to
\* give a token is not barred from its user; who may still be given one has
\* not been barred for any time.
Barring ==
  /\ \A w \in Workers : req[w].pc # "idle" =>
       \A u \in Users : u \in req[w].barred => ~Active(u)
  /\ \A w \in Workers : req[w].pc \in {"generate", "revoke", "save"} =>
       req[w].user \notin req[w].barred
  /\ \A u \in Users : Open(u) => barredFor[u] = 0
  /\ BarredLoseAccess

\* Steps of a request after its arrival, which may finish it.
LEMMA WorkKeepsBarring ==
  ASSUME Barring,
         UNCHANGED <<account, access, barredFor>>,
         \A v \in Workers :
           \/ req'[v].pc = "idle"
           \/ /\ req[v].pc # "idle" /\ req'[v].barred = req[v].barred
              /\ req'[v].pc \in {"generate", "revoke", "save"} =>
                   req'[v].user \notin req[v].barred
  PROVE  Barring'
<1>1. \A u : Active(u)' <=> Active(u)
  BY DEF Active
<1>2. \A u : Open(u)' => Open(u)
  BY <1>1 DEF Open
<1>3. BarredLoseAccess'
  BY DEF Barring, BarredLoseAccess
<1>. QED
  BY <1>1, <1>2, <1>3 DEF Barring

\* One worker goes on with what it had, or ends.
LEMMA AdvanceKeepsBarring ==
  ASSUME Barring, NEW w \in Workers, UNCHANGED <<account, access, barredFor>>,
         \/ Ends(w)
         \/ /\ OnlyMoves(w) /\ req[w].pc # "idle"
            /\ req'[w].barred = req[w].barred
            /\ req'[w].pc \in {"generate", "revoke", "save"} =>
                 req'[w].user \notin req[w].barred
  PROVE  Barring'
<1>1. \A v \in Workers : v # w => req'[v] = req[v]
  BY DEF Ends, OnlyMoves
<1>2. ASSUME NEW v \in Workers
      PROVE  \/ req'[v].pc = "idle"
             \/ /\ req[v].pc # "idle" /\ req'[v].barred = req[v].barred
                /\ req'[v].pc \in {"generate", "revoke", "save"} =>
                     req'[v].user \notin req[v].barred
  <2>1. CASE v = w
    BY <2>1, IdleFits DEF Ends
  <2>2. CASE v # w
    BY <1>1, <2>2 DEF Barring
  <2>. QED
    BY <2>1, <2>2
<1>. QED
  BY <1>2, WorkKeepsBarring

\* An arriving request is barred from those who are not active.
LEMMA ArrivalKeepsBarring ==
  ASSUME Typed, Barring, NEW w \in Workers, Arrival(w)
  PROVE  Barring'
<1>1. PICK r : /\ Fit(r) /\ Arrive(w, r)
               /\ r.pc \in {"createUser", "getByUsername", "isActive"}
  BY ArrivalFits
<1>2. /\ req'[w].barred = {u \in Users : ~Active(u)} /\ req'[w].pc = r.pc
      /\ \A v \in Workers : v # w => req'[v] = req[v]
  BY <1>1, ArriveFits
<1>3. UNCHANGED <<account, access, barredFor>>
  BY <1>1 DEF Arrive, aux
<1>4. \A u : Active(u)' <=> Active(u)
  BY <1>3 DEF Active
<1>5. \A u \in Users : Open(u)' => Open(u)
  BY <1>2, <1>4 DEF Open
<1>6. BarredLoseAccess'
  BY <1>3 DEF Barring, BarredLoseAccess
<1>. QED
  BY <1>1, <1>2, <1>3, <1>4, <1>5, <1>6 DEF Barring

\* A user is admitted: created, or no longer banned.
LEMMA AdmissionKeepsBarring ==
  ASSUME Typed, Barring, NEW u \in Users,
         \A x \in Users : x # u => account'[x] = account[x],
         access' = access, barredFor' = [barredFor EXCEPT ![u] = 0],
         \A v \in Workers :
           /\ req'[v].barred = req[v].barred \ {u}
           /\ req'[v].pc = "idle" <=> req[v].pc = "idle"
           /\ req'[v].pc \in {"generate", "revoke", "save"} =>
                \/ req'[v].user = u
                \/ req'[v].user = req[v].user
                   /\ req[v].pc \in {"generate", "revoke", "save"}
  PROVE  Barring'
<1>1. \A x \in Users : x # u => (Active(x)' <=> Active(x))
  BY DEF Active
<1>2. \A x \in Users : x # u => (Open(x)' => Open(x))
  BY <1>1 DEF Open
<1>3. barredFor'[u] = 0 /\ \A x \in Users : x # u => barredFor'[x] = barredFor[x]
  BY DEF Typed, TypeOK
<1>4. ASSUME NEW x \in Users
      PROVE  access'[x] + barredFor'[x] <= AccessTTL
  <2>1. access[x] \in 0..AccessTTL /\ AccessTTL \in Nat
    BY AccountsAssumption DEF Typed, TypeOK
  <2>2. access[x] + barredFor[x] <= AccessTTL
    BY DEF Barring, BarredLoseAccess
  <2>. QED
    BY <1>3, <2>1, <2>2
<1>5. \A v \in Workers : req'[v].pc # "idle" =>
        \A x \in Users : x \in req'[v].barred => ~Active(x)'
  BY <1>1 DEF Barring
<1>6. \A v \in Workers : req'[v].pc \in {"generate", "revoke", "save"} =>
        req'[v].user \notin req'[v].barred
  BY DEF Barring
<1>7. \A x \in Users : Open(x)' => barredFor'[x] = 0
  BY <1>2, <1>3 DEF Barring
<1>. QED
  BY <1>4, <1>5, <1>6, <1>7 DEF Barring, BarredLoseAccess

\* A user is banned or deleted, which closes nothing by itself.
LEMMA RemovalKeepsBarring ==
  ASSUME Barring, UNCHANGED <<req, access, barredFor>>,
         \A x \in Users : Active(x)' => Active(x)
  PROVE  Barring'
<1>1. \A x \in Users : Open(x)' => Open(x)
  BY DEF Open
<1>2. BarredLoseAccess'
  BY DEF Barring, BarredLoseAccess
<1>. QED
  BY <1>1, <1>2 DEF Barring

\* A token is given: its user can still be given one.
LEMMA SaveKeepsBarring ==
  ASSUME Typed, Barring, NEW w \in Workers, SaveRefreshToken(w)
  PROVE  Barring'
<1>1. /\ Ends(w) /\ req[w].pc = "save" /\ req[w].user \in Users
      /\ UNCHANGED <<account, barredFor>>
  BY SaveRefreshTokenDoes DEF SaveRefreshToken
<1>2. CASE UNCHANGED access
  BY <1>1, <1>2, AdvanceKeepsBarring
<1>3. CASE /\ access' \in [Users -> 0..AccessTTL]
           /\ \A u \in Users : u # req[w].user => access'[u] = access[u]
  <2>1. Open(req[w].user)
    BY <1>1 DEF Barring, Open
  <2>2. barredFor[req[w].user] = 0
    BY <1>1, <2>1 DEF Barring
  <2>3. ASSUME NEW u \in Users
        PROVE  access'[u] + barredFor'[u] <= AccessTTL
    <3>1. CASE u = req[w].user
      <4>1. access'[u] \in 0..AccessTTL /\ barredFor'[u] = 0 /\ AccessTTL \in Nat
        BY <1>1, <1>3, <2>2, <3>1, AccountsAssumption
      <4>. QED
        BY <4>1
    <3>2. CASE u # req[w].user
      BY <1>1, <1>3, <3>2 DEF Barring, BarredLoseAccess
    <3>. QED
      BY <3>1, <3>2
  <2>4. \A v \in Workers : v # w => req'[v] = req[v]
    BY <1>1 DEF Ends, OnlyMoves
  <2>5. req'[w].pc = "idle"
    BY <1>1, IdleFits DEF Ends
  <2>6. \A u \in Users : Active(u)' <=> Active(u)
    BY <1>1 DEF Active
  <2>7. \A u \in Users : Open(u)' => Open(u)
    BY <2>4, <2>5, <2>6 DEF Open
  <2>. QED
    BY <1>1, <2>3, <2>4, <2>5, <2>6, <2>7 DEF Barring, BarredLoseAccess
<1>. QED
  BY <1>2, <1>3, SaveRefreshTokenDoes

\* Time passes for access tokens as for those who are barred.
LEMMA TickKeepsBarring ==
  ASSUME Typed, Barring, Tick
  PROVE  Barring'
<1>1. \A v \in Workers : /\ req'[v].pc = req[v].pc /\ req'[v].user = req[v].user
                         /\ req'[v].barred = req[v].barred
  BY TickDoes
<1>2. \A u : Active(u)' <=> Active(u)
  BY DEF Tick, Active
<1>3. \A u : Open(u)' <=> Open(u)
  BY <1>1, <1>2 DEF Open
<1>4. ASSUME NEW u \in Users
      PROVE  /\ Open(u) => barredFor'[u] = 0
             /\ access'[u] + barredFor'[u] <= AccessTTL
  <2>1. /\ access[u] \in 0..AccessTTL /\ barredFor[u] \in 0..AccessTTL
        /\ AccessTTL \in Nat /\ access[u] + barredFor[u] <= AccessTTL
    BY AccountsAssumption DEF Typed, TypeOK, Barring, BarredLoseAccess
  <2>2. access'[u] = Less(access[u])
        /\ barredFor'[u] = IF Open(u) THEN 0 ELSE More(barredFor[u], AccessTTL)
    BY DEF Tick
  <2>3. CASE Open(u)
    BY <2>1, <2>2, <2>3 DEF Less
  <2>4. CASE ~Open(u)
    BY <2>1, <2>2, <2>4 DEF Less, More
  <2>. QED
    BY <2>3, <2>4
<1>. QED
  BY <1>1, <1>2, <1>3, <1>4 DEF Barring, BarredLoseAccess

LEMMA NextBarring ==
  ASSUME Typed, Barring, [Next]_vars
  PROVE  Barring'
<1>1. CASE UNCHANGED vars
  BY <1>1, RemovalKeepsBarring DEF vars, Active
<1>2. ASSUME NEW w \in Workers, Arrival(w)
      PROVE  Barring'
  BY <1>2, ArrivalKeepsBarring
<1>3. ASSUME NEW w \in Workers, CreateUser(w)
      PROVE  Barring'
  <2>1. CASE Ends(w) /\ UNCHANGED <<account, barredFor>>
    BY <1>3, <2>1, AdvanceKeepsBarring DEF CreateUser
  <2>2. CASE \E u \in Users :
              /\ \A x \in Users : x # u => account'[x] = account[x]
              /\ req'[w].pc = "generate" /\ req'[w].user = u
              /\ \A v \in Workers : req'[v].barred = req[v].barred \ {u}
              /\ \A v \in Workers : v # w =>
                   req'[v].pc = req[v].pc /\ req'[v].user = req[v].user
              /\ barredFor' = [barredFor EXCEPT ![u] = 0]
    <3>1. access' = access /\ req[w].pc = "createUser"
      BY <1>3 DEF CreateUser
    <3>2. PICK u \in Users :
              /\ \A x \in Users : x # u => account'[x] = account[x]
              /\ req'[w].pc = "generate" /\ req'[w].user = u
              /\ \A v \in Workers : req'[v].barred = req[v].barred \ {u}
              /\ \A v \in Workers : v # w =>
                   req'[v].pc = req[v].pc /\ req'[v].user = req[v].user
              /\ barredFor' = [barredFor EXCEPT ![u] = 0]
      BY <2>2
    <3>3. \A v \in Workers :
           /\ req'[v].barred = req[v].barred \ {u}
           /\ req'[v].pc = "idle" <=> req[v].pc = "idle"
           /\ req'[v].pc \in {"generate", "revoke", "save"} =>
                \/ req'[v].user = u
                \/ req'[v].user = req[v].user
                   /\ req[v].pc \in {"generate", "revoke", "save"}
      BY <3>1, <3>2
    <3>4. /\ u \in Users /\ access' = access
          /\ barredFor' = [barredFor EXCEPT ![u] = 0]
          /\ \A x \in Users : x # u => account'[x] = account[x]
      BY <3>1, <3>2
    <3>. QED
      BY <3>3, <3>4, AdmissionKeepsBarring
  <2>. QED
    BY <1>3, <2>1, <2>2, CreateUserDoes
<1>4. ASSUME NEW w \in Workers, GetByUsername(w)
      PROVE  Barring'
  <2>1. UNCHANGED <<account, access, barredFor>>
    BY <1>4 DEF GetByUsername, aux
  <2>2. \A u \in Users : req[w].pc # "idle" /\ Active(u) => u \notin req[w].barred
    BY DEF Barring
  <2>. QED
    BY <1>4, <2>1, <2>2, GetByUsernameDoes, AdvanceKeepsBarring
<1>5. ASSUME NEW w \in Workers, IsRefreshTokenActive(w)
      PROVE  Barring'
  <2>1. UNCHANGED <<account, access, barredFor>>
    BY <1>5 DEF IsRefreshTokenActive
  <2>. QED
    BY <1>5, <2>1, IsRefreshTokenActiveDoes, AdvanceKeepsBarring
<1>6. ASSUME NEW w \in Workers, GetByID(w)
      PROVE  Barring'
  <2>1. UNCHANGED <<account, access, barredFor>>
    BY <1>6 DEF GetByID, aux
  <2>2. req[w].pc = "getByID" /\ req[w].user \in Users
    BY <1>6, FieldsThere DEF GetByID
  <2>3. Active(req[w].user) => req[w].user \notin req[w].barred
    BY <2>2 DEF Barring
  <2>. QED
    BY <1>6, <2>1, <2>2, <2>3, GetByIDDoes, AdvanceKeepsBarring DEF Advances
<1>7. ASSUME NEW w \in Workers, GenerateTokens(w) \/ RevokeRefreshToken(w)
      PROVE  Barring'
  <2>1. UNCHANGED <<account, access, barredFor>>
    BY <1>7 DEF GenerateTokens, RevokeRefreshToken, aux
  <2>2. req[w].pc \in {"generate", "revoke"} /\ \E p : Advances(w, p)
    BY <1>7, GenerateTokensDoes, RevokeRefreshTokenDoes
  <2>3. req[w].user \notin req[w].barred
    BY <2>2 DEF Barring
  <2>. QED
    BY <2>1, <2>2, <2>3, AdvanceKeepsBarring DEF Advances
<1>8. ASSUME NEW w \in Workers, SaveRefreshToken(w)
      PROVE  Barring'
  BY <1>8, SaveKeepsBarring
<1>9. ASSUME NEW w \in Workers, Fail(w)
      PROVE  Barring'
  BY <1>9, FinishEnds, AdvanceKeepsBarring DEF Fail
<1>10. ASSUME NEW s \in Tokens, Logout(s)
       PROVE  Barring'
  BY <1>10, RemovalKeepsBarring DEF Logout, Active
<1>11. ASSUME NEW u \in Users, BanUser(u) \/ AdminDeleteUser(u)
       PROVE  Barring'
  <2>1. UNCHANGED <<req, access, barredFor>>
    BY <1>11 DEF BanUser, AdminDeleteUser, aux
  <2>2. \A x \in Users : x # u => account'[x] = account[x]
    BY <1>11 DEF BanUser, AdminDeleteUser, Typed, TypeOK
  <2>3. Active(u)' => Active(u)
    <3>1. CASE BanUser(u)
      BY <3>1 DEF BanUser
    <3>2. CASE AdminDeleteUser(u)
      <4>1. account'[u] = Deleted
        BY <3>2 DEF AdminDeleteUser, Typed, TypeOK
      <4>. QED
        BY <4>1 DEF Active, Deleted
    <3>. QED
      BY <1>11, <3>1, <3>2
  <2>. QED
    BY <2>1, <2>2, <2>3, RemovalKeepsBarring DEF Active
<1>12. ASSUME NEW u \in Users, UnbanUser(u)
       PROVE  Barring'
  <2>1. /\ \A x \in Users : x # u => account'[x] = account[x]
        /\ access' = access /\ barredFor' = [barredFor EXCEPT ![u] = 0]
    BY <1>12 DEF UnbanUser, Typed, TypeOK
  <2>2. \A v \in Workers : /\ req'[v].barred = req[v].barred \ {u}
                           /\ req'[v].pc = req[v].pc /\ req'[v].user = req[v].user
    BY <1>12, AdmittedFits DEF UnbanUser
  <2>. QED
    BY <2>1, <2>2, AdmissionKeepsBarring
<1>13. CASE Tick
  BY <1>13, TickKeepsBarring
<1>. QED
  BY <1>1, <1>2, <1>3, <1>4, <1>5, <1>6, <1>7, <1>8, <1>9, <1>10, <1>11, <1>12, <1>13
     DEF Next, Step

\* A ban and a deletion take effect when the last request that began before is
\* answered and AccessTTL has passed, whatever is refreshed meanwhile (Login,
\* RefreshToken, BanUser, AdminDeleteUser).
THEOREM BarredLose == Spec => []BarredLoseAccess
<1>1. Init => Barring
  BY AccountsAssumption DEF Init, Barring, BarredLoseAccess, Open, Active, NoAccount, Idle
<1>2. Typed /\ Barring /\ [Next]_vars => Barring'
  BY NextBarring
<1>3. Barring => BarredLoseAccess
  BY DEF Barring
<1>. QED
  BY <1>1, <1>2, <1>3, AlwaysTyped, PTL DEF Spec

-----------------------------------------------------------------------------
(* What most steps leave alone of tokens and refreshes *)

\* No row is new, none belongs to another session or user, and none is made
\* valid; one that disappears is gone.
TokensThin ==
  \A j \in Tokens :
    /\ token'[j] = NoToken <=> token[j] = NoToken
    /\ token[j] = Gone => token'[j] = Gone
    /\ j \in Rows => j \in Rows' \/ token'[j] = Gone
    /\ j \in Rows' => /\ j \in Rows /\ token'[j].user = token[j].user
                      /\ token'[j].session = token[j].session
                      /\ Valid(j)' => Valid(j)

\* None is revoked either.
TokensQuiet ==
  TokensThin /\ \A j \in Tokens : Valid(j) => Valid(j)' \/ token'[j] = Gone

\* No further refresh has found its token active.
RefreshesStay ==
  \A v \in Workers : Past(v)' =>
    /\ Past(v) /\ req'[v].token = req[v].token /\ req'[v].user = req[v].user
    /\ req'[v].session = req[v].session

\* No further refresh has revoked its token; one that has and ends without
\* an answer breaks its session; no browser gets a token.
Quiet ==
  /\ shared' = shared /\ broken \subseteq broken'
  /\ TokensQuiet /\ RefreshesStay
  /\ \A v \in Workers : Past(v)' /\ req'[v].pc = "save" => req[v].pc = "save"
  /\ \A v \in Workers : AtStake(v) \subseteq AtStake(v)' \cup broken'
  /\ \A s \in Tokens : cookie'[s] # None => cookie'[s] = cookie[s]

\* A refresh that has found its token active has its fields.
LEMMA PastFields ==
  ASSUME Typed, NEW w \in Workers, Past(w)
  PROVE  /\ req[w].token \in Tokens /\ req[w].session \in Tokens
         /\ req[w].user \in Users
BY FieldsThere DEF Past

LEMMA KeptQuiet ==
  ASSUME TokensKept
  PROVE  TokensQuiet
<1>1. \A j \in Tokens : (Valid(j) => j \in Rows) /\ (Valid(j)' => j \in Rows')
  BY DEF Valid, Rows
<1>. QED
  BY <1>1 DEF TokensKept, TokensQuiet, TokensThin, Valid

LEMMA DeleteQuiet ==
  ASSUME Typed, NEW u \in Users, AdminDeleteUser(u)
  PROVE  TokensQuiet
<1>1. \A j \in Tokens :
        /\ token'[j] = token[j] \/ token'[j] = Gone
        /\ j \in Rows' => j \in Rows /\ token'[j] = token[j]
        /\ token'[j] = NoToken <=> token[j] = NoToken
  BY DeleteDoes
<1>2. \A j \in Tokens : j \in Rows /\ token'[j] = token[j] => j \in Rows'
  BY DEF Rows
<1>. QED
  BY <1>1, <1>2 DEF TokensQuiet, TokensThin, Valid

LEMMA RevokeThins ==
  ASSUME Typed, NEW w \in Workers, RevokeRefreshToken(w)
  PROVE  TokensThin /\ ~Valid(req[w].token)'
<1>. DEFINE j == req[w].token
<1>1. /\ j \in Tokens
      /\ \A i \in Tokens : i # j => token'[i] = token[i]
      /\ ~Valid(j) => token' = token
      /\ Valid(j) => /\ j \in Rows /\ j \in Rows'
                     /\ token'[j].state = "revoked"
                     /\ token'[j].user = token[j].user
                     /\ token'[j].session = token[j].session
  BY RevokeDoes
<1>2. CASE ~Valid(j)
  <2>1. token' = token
    BY <1>1, <1>2
  <2>2. TokensThin
    BY <2>1, SameTokens, KeptQuiet DEF TokensQuiet
  <2>3. req'[w].token = req[w].token
    BY RevokeRefreshTokenDoes DEF Advances
  <2>. QED
    BY <1>2, <2>1, <2>2, <2>3 DEF Valid
<1>3. CASE Valid(j)
  <2>. HIDE DEF j
  <2>1. ASSUME NEW i \in Tokens, i # j
        PROVE  token'[i] = token[i] /\ (i \in Rows' <=> i \in Rows)
    BY <1>1, <2>1 DEF Rows
  <2>2. token[j] # NoToken /\ token'[j] # NoToken /\ token[j] # Gone /\ token'[j].state # "valid"
    BY <1>1, <1>3 DEF Valid, NoToken, Gone
  <2>3. TokensThin
    BY <1>1, <1>3, <2>1, <2>2 DEF TokensThin, Valid
  <2>4. j = req[w].token /\ req'[w].token = req[w].token
    BY RevokeRefreshTokenDoes DEF j, Advances
  <2>. QED
    BY <2>2, <2>3, <2>4 DEF Valid
<1>. QED
  BY <1>2, <1>3

\* The worker's request is all that changes, and it ends or goes on before the
\* revocation.
LEMMA EndQuiet ==
  ASSUME Typed, NEW w \in Workers, Ends(w),
         UNCHANGED <<token, cookie, shared>>, broken \subseteq broken',
         AtStake(w) \subseteq broken'
  PROVE  Quiet
<1>1. req'[w].pc = "idle" /\ \A v \in Workers : v # w => req'[v] = req[v]
  BY IdleFits DEF Ends, OnlyMoves
<1>2. TokensQuiet
  BY SameTokens, KeptQuiet
<1>3. \A v \in Workers : v # w => AtStake(v) = AtStake(v)'
  BY <1>1 DEF AtStake
<1>. QED
  BY <1>1, <1>2, <1>3 DEF Quiet, RefreshesStay, Past

LEMMA MoveQuiet ==
  ASSUME Typed, NEW w \in Workers, \A v \in Workers : v # w => req'[v] = req[v],
         UNCHANGED <<token, cookie, shared, broken>>,
         req[w].pc # "save" \/ req[w].token = None,
         \/ ~Past(w)'
         \/ /\ Past(w) /\ req'[w].token = req[w].token /\ req'[w].pc # "save"
            /\ req'[w].user = req[w].user /\ req'[w].session = req[w].session
  PROVE  Quiet
<1>1. TokensQuiet
  BY SameTokens, KeptQuiet
<1>2. \A v \in Workers : v # w => AtStake(v) = AtStake(v)'
  BY DEF AtStake
<1>3. AtStake(w) = {}
  BY DEF AtStake
<1>. QED
  BY <1>1, <1>2, <1>3 DEF Quiet, RefreshesStay, Past

\* All requests stay at their labels.
LEMMA StayQuiet ==
  ASSUME Typed, TokensQuiet, UNCHANGED <<shared, broken>>,
         \A v \in Workers :
           /\ req'[v].pc = req[v].pc /\ req'[v].token = req[v].token
           /\ req'[v].user = req[v].user /\ req'[v].session = req[v].session,
         \A s \in Tokens : cookie'[s] # None => cookie'[s] = cookie[s]
  PROVE  Quiet
<1>1. \A v \in Workers : AtStake(v) = AtStake(v)'
  BY DEF AtStake
<1>. QED
  BY <1>1 DEF Quiet, RefreshesStay, Past

LEMMA StepQuiet ==
  ASSUME Typed, NEW w \in Workers, Arrival(w) \/ Step(w) \/ Fail(w)
  PROVE  \/ Quiet
         \/ IsRefreshTokenActive(w) \/ RevokeRefreshToken(w) \/ SaveRefreshToken(w)
<1>1. CASE Arrival(w)
  <2>1. PICK r : /\ Fit(r) /\ Arrive(w, r)
                 /\ r.pc \in {"createUser", "getByUsername", "isActive"}
    BY <1>1, ArrivalFits
  <2>2. /\ req'[w].pc = r.pc /\ req[w] = Idle
        /\ \A v \in Workers : v # w => req'[v] = req[v]
    BY <2>1, ArriveFits
  <2>3. UNCHANGED <<token, cookie, shared, broken>>
    BY <2>1 DEF Arrive, aux
  <2>4. ~Past(w)' /\ req[w].pc # "save"
    BY <2>1, <2>2 DEF Past, Idle
  <2>. QED
    BY <2>2, <2>3, <2>4, MoveQuiet
<1>2. CASE Fail(w)
  <2>1. Ends(w)
    BY <1>2, FinishEnds DEF Fail
  <2>. QED
    BY <1>2, <2>1, EndQuiet DEF Fail
<1>3. CASE CreateUser(w)
  <2>1. UNCHANGED <<token, cookie, shared, broken>> /\ req[w].pc = "createUser"
    BY <1>3 DEF CreateUser
  <2>2. CASE Ends(w)
    <3>1. ~Past(w)' /\ \A v \in Workers : v # w => req'[v] = req[v]
      BY <2>2, IdleFits DEF Ends, OnlyMoves, Past
    <3>. QED
      BY <2>1, <3>1, MoveQuiet
  <2>3. CASE /\ req'[w].token = None
             /\ \A v \in Workers : v # w =>
                   /\ req'[v].pc = req[v].pc /\ req'[v].token = req[v].token
                   /\ req'[v].user = req[v].user /\ req'[v].session = req[v].session
    <3>1. ~Past(w)' /\ AtStake(w) = {}
      BY <2>1, <2>3 DEF Past, AtStake
    <3>2. \A v \in Workers : v # w => AtStake(v) = AtStake(v)'
      BY <2>3 DEF AtStake
    <3>3. TokensQuiet
      BY <2>1, SameTokens, KeptQuiet
    <3>4. RefreshesStay
      BY <2>3, <3>1 DEF RefreshesStay, Past
    <3>. QED
      BY <2>1, <2>3, <3>1, <3>2, <3>3, <3>4 DEF Quiet
  <2>. QED
    BY <1>3, <2>2, <2>3, CreateUserDoes
<1>4. CASE GetByUsername(w)
  <2>1. UNCHANGED <<token, cookie, shared, broken>> /\ req[w].pc = "getByUsername"
    BY <1>4 DEF GetByUsername, aux
  <2>2. ~Past(w)' /\ \A v \in Workers : v # w => req'[v] = req[v]
    BY <1>4, GetByUsernameDoes, IdleFits DEF Ends, OnlyMoves, Past
  <2>. QED
    BY <2>1, <2>2, MoveQuiet
<1>5. CASE GetByID(w)
  <2>1. UNCHANGED <<token, cookie, shared, broken>> /\ req[w].pc = "getByID"
    BY <1>5 DEF GetByID, aux
  <2>2. \A v \in Workers : v # w => req'[v] = req[v]
    BY <1>5, GetByIDDoes DEF Advances, Ends, OnlyMoves
  <2>3. CASE Ends(w)
    <3>1. ~Past(w)'
      BY <2>3, IdleFits DEF Ends, Past
    <3>. QED
      BY <2>1, <2>2, <3>1, MoveQuiet
  <2>4. CASE Advances(w, "generate")
    BY <2>1, <2>2, <2>4, MoveQuiet DEF Advances, Past
  <2>. QED
    BY <1>5, <2>3, <2>4, GetByIDDoes
<1>6. CASE GenerateTokens(w)
  <2>1. UNCHANGED <<token, cookie, shared, broken>> /\ req[w].pc = "generate"
    BY <1>6 DEF GenerateTokens, aux
  <2>2. \A v \in Workers : v # w => req'[v] = req[v]
    BY <1>6, GenerateTokensDoes DEF Advances, OnlyMoves
  <2>3. CASE Advances(w, "save") /\ req[w].token = None
    <3>1. ~Past(w)'
      BY <2>3 DEF Advances, Past
    <3>. QED
      BY <2>1, <2>2, <3>1, MoveQuiet
  <2>4. CASE Advances(w, "revoke")
    BY <2>1, <2>2, <2>4, MoveQuiet DEF Advances, Past
  <2>. QED
    BY <1>6, <2>3, <2>4, GenerateTokensDoes
<1>. QED
  BY <1>1, <1>2, <1>3, <1>4, <1>5, <1>6 DEF Step

LEMMA OtherQuiet ==
  ASSUME Typed,
         \/ UNCHANGED vars \/ Tick \/ \E s \in Tokens : Logout(s)
         \/ \E u \in Users : BanUser(u) \/ UnbanUser(u) \/ AdminDeleteUser(u)
  PROVE  Quiet
<1>1. CASE UNCHANGED vars
  <2>1. TokensQuiet
    BY <1>1, SameTokens, KeptQuiet DEF vars
  <2>. QED
    BY <1>1, <2>1, StayQuiet DEF vars
<1>2. CASE Tick
  <2>1. TokensQuiet
    BY <1>2, TickKeepsTokens, KeptQuiet
  <2>2. UNCHANGED <<cookie, shared, broken>>
    BY <1>2 DEF Tick
  <2>. QED
    BY <1>2, <2>1, <2>2, TickDoes, StayQuiet
<1>3. ASSUME NEW s \in Tokens, Logout(s)
      PROVE  Quiet
  <2>1. UNCHANGED <<token, req, shared, broken>>
    BY <1>3 DEF Logout
  <2>2. TokensQuiet
    BY <2>1, SameTokens, KeptQuiet
  <2>3. cookie \in [Tokens -> Tokens \cup {None}]
    BY DEF Typed, TypeOK
  <2>4. \A x \in Tokens : cookie'[x] # None => cookie'[x] = cookie[x]
    BY <1>3, <2>3 DEF Logout
  <2>. QED
    BY <2>1, <2>2, <2>4, StayQuiet
<1>4. ASSUME NEW u \in Users, BanUser(u)
      PROVE  Quiet
  <2>1. UNCHANGED <<token, req, cookie, shared, broken>>
    BY <1>4 DEF BanUser, aux
  <2>2. TokensQuiet
    BY <2>1, SameTokens, KeptQuiet
  <2>. QED
    BY <2>1, <2>2, StayQuiet
<1>5. ASSUME NEW u \in Users, UnbanUser(u)
      PROVE  Quiet
  <2>1. UNCHANGED <<token, cookie, shared, broken>> /\ req' = Admitted(u)
    BY <1>5 DEF UnbanUser
  <2>2. TokensQuiet
    BY <2>1, SameTokens, KeptQuiet
  <2>. QED
    BY <2>1, <2>2, AdmittedFits, StayQuiet
<1>6. ASSUME NEW u \in Users, AdminDeleteUser(u)
      PROVE  Quiet
  <2>1. UNCHANGED <<req, cookie, shared, broken>>
    BY <1>6 DEF AdminDeleteUser, aux
  <2>2. TokensQuiet
    BY <1>6, DeleteQuiet
  <2>. QED
    BY <2>1, <2>2, StayQuiet
<1>. QED
  BY <1>1, <1>2, <1>3, <1>4, <1>5, <1>6

-----------------------------------------------------------------------------
(* Sessions *)

\* The first token of a session is not free, as long as a row or a refresh
\* belongs to the session.
SessionsKnown ==
  /\ \A j \in Rows : token[token[j].session] # NoToken
  /\ \A w \in Workers : Past(w) => token[req[w].session] # NoToken

\* Rows and refreshes of one session belong to one user.
SessionsOwned ==
  /\ \A i, j \in Rows :
       token[i].session = token[j].session => token[i].user = token[j].user
  /\ \A w \in Workers, j \in Rows :
       Past(w) /\ req[w].session = token[j].session => req[w].user = token[j].user
  /\ \A v, w \in Workers :
       Past(v) /\ Past(w) /\ req[v].session = req[w].session
         => req[v].user = req[w].user

\* The token of a refresh is one of its session, or deleted.
TokensUsed ==
  \A w \in Workers : Past(w) =>
    \/ token[req[w].token] = Gone
    \/ req[w].token \in Rows /\ token[req[w].token].session = req[w].session

\* Of a session whose tokens are used by one refresh at a time, only one
\* refresh is on its way; it uses the valid token, if there is one, and there
\* is none when it is about to save the next.
OneRefresh ==
  /\ \A v, w \in Workers :
       /\ Past(v) /\ Past(w)
       /\ req[v].session = req[w].session /\ req[v].session \notin shared
       => v = w
  /\ \A w \in Workers, j \in Rows :
       /\ Past(w) /\ Valid(j)
       /\ req[w].session = token[j].session /\ req[w].session \notin shared
       => req[w].pc # "save" /\ j = req[w].token

Sessions ==
  /\ SessionsKnown /\ SessionsOwned /\ TokensUsed /\ OneRefresh
  /\ SessionHasOneToken

LEMMA SessionOfRow ==
  ASSUME Typed, NEW j \in Rows
  PROVE  j \in Tokens /\ token[j].session \in Tokens /\ token[j].user \in Users
<1>1. j \in Tokens
  BY DEF Rows
<1>. QED
  BY <1>1, RowIs, RowFields DEF Typed

\* Nothing here is disturbed by fewer rows, fewer valid rows and fewer refreshes.
LEMMA ThinSessions ==
  ASSUME Typed, Sessions, TokensThin, RefreshesStay, shared' = shared,
         \A w \in Workers, j \in Rows' :
           /\ Past(w)' /\ req'[w].pc = "save" /\ Valid(j)'
           /\ req'[w].session = token'[j].session /\ req'[w].session \notin shared
           => req[w].pc = "save"
  PROVE  Sessions'
<1>1. \A j \in Rows' :
        /\ j \in Rows /\ j \in Tokens /\ token'[j].user = token[j].user
        /\ token'[j].session = token[j].session /\ token[j].session \in Tokens
        /\ Valid(j)' => Valid(j)
  <2>1. ASSUME NEW j \in Tokens, j \in Rows'
        PROVE  /\ j \in Rows /\ token'[j].user = token[j].user
               /\ token'[j].session = token[j].session
               /\ Valid(j)' => Valid(j)
    BY <2>1 DEF TokensThin, Valid
  <2>2. \A j \in Rows' : j \in Tokens
    BY DEF Rows
  <2>3. \A j \in Rows : token[j].session \in Tokens
    BY SessionOfRow
  <2>4. ASSUME NEW j \in Rows'
        PROVE  /\ j \in Rows /\ j \in Tokens /\ token'[j].user = token[j].user
               /\ token'[j].session = token[j].session /\ token[j].session \in Tokens
               /\ Valid(j)' => Valid(j)
    BY <2>1, <2>2, <2>3
  <2>. QED
    BY <2>4
<1>2. \A v \in Workers : Past(v)' =>
        /\ Past(v) /\ req'[v].token = req[v].token /\ req'[v].user = req[v].user
        /\ req'[v].session = req[v].session
        /\ req[v].session \in Tokens /\ req[v].token \in Tokens
  BY PastFields DEF RefreshesStay
<1>3. SessionsKnown'
  BY <1>1, <1>2 DEF SessionsKnown, Sessions, TokensThin, NoToken
<1>4. SessionsOwned'
  BY <1>1, <1>2 DEF SessionsOwned, Sessions
<1>5. TokensUsed'
  BY <1>1, <1>2 DEF TokensUsed, Sessions, TokensThin, Gone
<1>6. OneRefresh'
  BY <1>1, <1>2 DEF OneRefresh, Sessions
<1>7. SessionHasOneToken'
  BY <1>1 DEF SessionHasOneToken, Sessions
<1>. QED
  BY <1>3, <1>4, <1>5, <1>6, <1>7 DEF Sessions

LEMMA QuietSessions ==
  ASSUME Typed, Sessions, Quiet
  PROVE  Sessions'
BY ThinSessions DEF Quiet, TokensQuiet

LEMMA RevokeSessions ==
  ASSUME Typed, Sessions, NEW w \in Workers, RevokeRefreshToken(w)
  PROVE  Sessions'
<1>1. /\ req'[w].token = req[w].token /\ req'[w].user = req[w].user
      /\ req'[w].session = req[w].session
      /\ req[w].pc = "revoke" /\ req[w].token \in Tokens
      /\ \A v \in Workers : v # w => req'[v] = req[v]
  BY RevokeRefreshTokenDoes DEF Advances, OnlyMoves
<1>2. Past(w)
  BY <1>1, FieldsThere DEF Past
<1>3. TokensThin /\ ~Valid(req[w].token)'
  BY RevokeThins
<1>4. shared' = shared
  BY DEF RevokeRefreshToken, aux
<1>5. RefreshesStay
  BY <1>1, <1>2 DEF RefreshesStay, Past
<1>6. ASSUME NEW v \in Workers, NEW j \in Rows', Past(v)', req'[v].pc = "save", Valid(j)',
             req'[v].session = token'[j].session, req'[v].session \notin shared
      PROVE  req[v].pc = "save"
  <2>1. CASE v # w
    BY <1>1, <1>6, <2>1
  <2>2. CASE v = w
    <3>1. j \in Tokens
      BY DEF Rows
    <3>2. j \in Rows /\ Valid(j) /\ token'[j].session = token[j].session
      BY <1>3, <1>6, <3>1 DEF TokensThin, Valid
    <3>3. j = req[w].token
      BY <1>1, <1>2, <1>6, <2>2, <3>2 DEF Sessions, OneRefresh
    <3>4. ~Valid(j)'
      BY <1>1, <1>3, <3>3 DEF Valid
    <3>. QED
      BY <1>6, <3>4
  <2>. QED
    BY <2>1, <2>2
<1>. QED
  BY <1>3, <1>4, <1>5, <1>6, ThinSessions

LEMMA ActiveSessions ==
  ASSUME Typed, Sessions, NEW w \in Workers, IsRefreshTokenActive(w)
  PROVE  Sessions'
<1>. DEFINE j == req[w].token
            s == token[j].session
<1>0. token' = token /\ UNCHANGED <<cookie, broken>>
  BY DEF IsRefreshTokenActive
<1>1. CASE Ends(w) /\ shared' = shared
  <2>1. AtStake(w) = {}
    BY DEF IsRefreshTokenActive, AtStake
  <2>. QED
    BY <1>0, <1>1, <2>1, EndQuiet, QuietSessions
<1>2. CASE /\ \A v \in Workers : v # w => req'[v] = req[v]
           /\ req[w].pc = "isActive" /\ j \in Rows /\ Valid(j)
           /\ req'[w].pc = "getByID" /\ req'[w].token = j
           /\ req'[w].user = token[j].user /\ req'[w].session = s
           /\ shared' = IF Using(j) = {} THEN shared ELSE shared \cup {s}
  <2>1. ~Past(w) /\ \A v \in Workers : v # w =>
          /\ req'[v] = req[v] /\ (Past(v)' <=> Past(v))
    BY <1>2 DEF Past
  <2>2. Rows' = Rows /\ \A i : Valid(i)' <=> Valid(i)
    BY <1>0 DEF Rows, Valid
  <2>3. shared \subseteq shared' /\ (s \notin shared' => Using(j) = {})
    BY <1>2
  <2>4. \A v \in Workers : Past(v) /\ req[v].token = j /\ req[v].pc # "save"
          => v \in Using(j)
    BY DEF Using, Past
  <2>5. SessionsKnown'
    BY <1>0, <1>2, <2>1, <2>2 DEF Sessions, SessionsKnown, NoToken
  <2>6. SessionsOwned'
    BY <1>0, <1>2, <2>1, <2>2 DEF Sessions, SessionsOwned
  <2>7. TokensUsed'
    BY <1>0, <1>2, <2>1, <2>2 DEF Sessions, TokensUsed, Gone
  <2>8. SessionHasOneToken'
    BY <1>0, <2>2, <2>3 DEF Sessions, SessionHasOneToken
  <2>9. ASSUME NEW v \in Workers, v # w, Past(v), req[v].session = s, s \notin shared'
        PROVE  FALSE
    <3>1. req[v].pc # "save" /\ j = req[v].token
      BY <1>2, <2>3, <2>9 DEF Sessions, OneRefresh
    <3>. QED
      BY <2>3, <2>4, <2>9, <3>1
  <2>10. ASSUME NEW i \in Rows, Valid(i), token[i].session = s, s \notin shared'
         PROVE  i = j
    BY <1>2, <2>3, <2>10 DEF Sessions, SessionHasOneToken
  <2>11. ASSUME NEW u \in Workers, NEW v \in Workers, Past(u)', Past(v)',
                req'[u].session = req'[v].session, req'[u].session \notin shared'
         PROVE  u = v
    <3>1. CASE u # w /\ v # w
      BY <2>1, <2>3, <2>11, <3>1 DEF Sessions, OneRefresh
    <3>2. CASE u = w /\ v # w
      BY <1>2, <2>1, <2>9, <2>11, <3>2
    <3>3. CASE u # w /\ v = w
      BY <1>2, <2>1, <2>9, <2>11, <3>3
    <3>. QED
      BY <3>1, <3>2, <3>3
  <2>12. ASSUME NEW v \in Workers, NEW i \in Rows, Past(v)', Valid(i),
                req'[v].session = token[i].session, req'[v].session \notin shared'
         PROVE  req'[v].pc # "save" /\ i = req'[v].token
    <3>1. CASE v # w
      BY <2>1, <2>3, <2>12, <3>1 DEF Sessions, OneRefresh
    <3>2. CASE v = w
      BY <1>2, <2>10, <2>12, <3>2
    <3>. QED
      BY <3>1, <3>2
  <2>13. OneRefresh'
    BY <1>0, <2>2, <2>11, <2>12 DEF OneRefresh
  <2>. QED
    BY <2>5, <2>6, <2>7, <2>8, <2>13 DEF Sessions
<1>. QED
  BY <1>1, <1>2, IsRefreshTokenActiveDoes DEF OnlyMoves

\* Row j is added for the session of worker w, or is the first of a new one.
LEMMA SaveSessions ==
  ASSUME Typed, Sessions, NEW w \in Workers, SaveRefreshToken(w)
  PROVE  Sessions'
<1>1. /\ Ends(w) /\ req[w].pc = "save" /\ req[w].user \in Users
      /\ \A v \in Workers : v # w => req'[v] = req[v]
      /\ req'[w].pc = "idle" /\ shared' = shared
  BY SaveRefreshTokenDoes, IdleFits DEF Ends, OnlyMoves, SaveRefreshToken
<1>2. /\ ~Past(w)'
      /\ \A v \in Workers : v # w => (Past(v)' <=> Past(v))
  BY <1>1 DEF Past
<1>3. RefreshesStay
  BY <1>1, <1>2 DEF RefreshesStay
<1>4. CASE token' = token
  <2>1. TokensThin
    BY <1>4, SameTokens, KeptQuiet DEF TokensQuiet
  <2>2. \A v \in Workers : Past(v)' /\ req'[v].pc = "save" => req[v].pc = "save"
    BY <1>1
  <2>. QED
    BY <1>1, <1>3, <2>1, <2>2, ThinSessions
<1>5. ASSUME NEW j \in Tokens, NEW s \in Tokens,
             s = IF req[w].token = None THEN j ELSE req[w].session,
             token[j] = NoToken, token'[j] \in TokenRow, token'[j].state = "valid",
             token'[j].user = req[w].user, token'[j].session = s,
             \A i \in Tokens : i # j => token'[i] = token[i]
      PROVE  Sessions'
  <2>1. /\ token'[j] # NoToken /\ token'[j] # Gone /\ j \notin Rows
        /\ \A i \in Tokens : token[i] # NoToken => i # j /\ token'[i] = token[i]
    BY <1>5 DEF NoToken, Gone, Rows
  <2>2. Rows' = Rows \cup {j}
    BY <1>5 DEF Rows
  <2>3. \A i \in Rows : /\ i # j /\ i \in Tokens /\ token'[i] = token[i]
                        /\ token[i].session \in Tokens
                        /\ Valid(i)' <=> Valid(i)
    BY <1>5, <2>1, SessionOfRow DEF Rows, Valid
  <2>4. \A v \in Workers : Past(v)' =>
          /\ v # w /\ Past(v) /\ req'[v] = req[v]
          /\ req[v].session \in Tokens /\ req[v].token \in Tokens
    BY <1>1, <1>2, PastFields
  <2>5. CASE req[w].token = None
    <3>1. s = j
      BY <1>5, <2>5
    <3>2. /\ \A i \in Rows : token[i].session # j
          /\ \A v \in Workers : Past(v) => req[v].session # j
      BY <1>5 DEF Sessions, SessionsKnown
    <3>3. SessionsKnown'
      BY <1>5, <2>1, <2>2, <2>3, <2>4, <3>1 DEF Sessions, SessionsKnown, NoToken
    <3>4. SessionsOwned'
      BY <1>5, <2>1, <2>2, <2>3, <2>4, <3>1, <3>2 DEF Sessions, SessionsOwned
    <3>5. TokensUsed'
      BY <2>1, <2>2, <2>3, <2>4 DEF Sessions, TokensUsed, Gone, NoToken
    <3>6. OneRefresh'
      BY <1>1, <1>5, <2>2, <2>3, <2>4, <3>1, <3>2 DEF Sessions, OneRefresh
    <3>7. SessionHasOneToken'
      BY <1>1, <1>5, <2>2, <2>3, <3>1, <3>2 DEF Sessions, SessionHasOneToken
    <3>. QED
      BY <3>3, <3>4, <3>5, <3>6, <3>7 DEF Sessions
  <2>6. CASE req[w].token # None
    <3>1. s = req[w].session /\ Past(w)
      BY <1>1, <1>5, <2>6 DEF Past
    <3>2. token[s] # NoToken
      BY <3>1 DEF Sessions, SessionsKnown
    <3>3. s \notin shared =>
            /\ \A i \in Rows : Valid(i) => token[i].session # s
            /\ \A v \in Workers : v # w /\ Past(v) => req[v].session # s
      BY <1>1, <3>1 DEF Sessions, OneRefresh
    <3>4. SessionsKnown'
      BY <1>5, <2>1, <2>2, <2>3, <2>4, <3>2 DEF Sessions, SessionsKnown, NoToken
    <3>5. SessionsOwned'
      BY <1>5, <2>1, <2>2, <2>3, <2>4, <3>1 DEF Sessions, SessionsOwned
    <3>6. TokensUsed'
      BY <2>1, <2>2, <2>3, <2>4 DEF Sessions, TokensUsed, Gone, NoToken
    <3>7. OneRefresh'
      BY <1>1, <1>5, <2>2, <2>3, <2>4, <3>1, <3>3 DEF Sessions, OneRefresh
    <3>8. SessionHasOneToken'
      BY <1>1, <1>5, <2>2, <2>3, <3>1, <3>3 DEF Sessions, SessionHasOneToken
    <3>. QED
      BY <3>4, <3>5, <3>6, <3>7, <3>8 DEF Sessions
  <2>. QED
    BY <2>5, <2>6
<1>. QED
  BY <1>4, <1>5, SaveRefreshTokenDoes

LEMMA NextSessions ==
  ASSUME Typed, Sessions, [Next]_vars
  PROVE  Sessions'
<1>1. ASSUME NEW w \in Workers, Arrival(w) \/ Step(w) \/ Fail(w)
      PROVE  Sessions'
  BY <1>1, StepQuiet, QuietSessions, ActiveSessions, RevokeSessions, SaveSessions
<1>2. CASE \/ UNCHANGED vars \/ Tick \/ \E s \in Tokens : Logout(s)
           \/ \E u \in Users : BanUser(u) \/ UnbanUser(u) \/ AdminDeleteUser(u)
  BY <1>2, OtherQuiet, QuietSessions
<1>. QED
  BY <1>1, <1>2 DEF Next

LEMMA InitSessions == Init => Sessions
<1>. SUFFICES ASSUME Init PROVE Sessions
  OBVIOUS
<1>1. Rows = {} /\ \A w \in Workers : ~Past(w)
  BY DEF Init, Rows, NoToken, Past, Idle
<1>. QED
  BY <1>1 DEF Sessions, SessionsKnown, SessionsOwned, TokensUsed, OneRefresh,
              SessionHasOneToken

LEMMA AlwaysSessions == Spec => []Sessions
BY InitSessions, NextSessions, AlwaysTyped, PTL DEF Spec

\* As long as no two refreshes use one token at a time, rotation leaves at most
\* one valid refresh token to a session, wherever a refresh stops (RefreshToken,
\* RevokeRefreshToken, SaveRefreshToken).
THEOREM SessionsHaveOneToken == Spec => []SessionHasOneToken
<1>1. Sessions => SessionHasOneToken
  BY DEF Sessions
<1>. QED
  BY <1>1, AlwaysSessions, PTL

-----------------------------------------------------------------------------
(* The token a browser holds *)

\* The browser of a session holds a token of the session, or a deleted one.
Cookies ==
  /\ \A s \in Tokens : cookie[s] # None =>
       \/ token[cookie[s]] = Gone
       \/ cookie[s] \in Rows /\ token[cookie[s]].session = s
  /\ CookieWorks

LEMMA CookieIs ==
  ASSUME Typed, NEW s \in Tokens, cookie[s] # None
  PROVE  cookie[s] \in Tokens
BY DEF Typed, TypeOK

LEMMA QuietCookies ==
  ASSUME Typed, Cookies, Quiet
  PROVE  Cookies'
<1>. SUFFICES ASSUME NEW s \in Tokens, cookie'[s] # None
              PROVE  /\ \/ token'[cookie'[s]] = Gone
                        \/ /\ cookie'[s] \in Rows'
                           /\ token'[cookie'[s]].session = s
                     /\ \/ Valid(cookie[s])' \/ token'[cookie'[s]] = Gone
                        \/ s \in broken'
                        \/ \E w \in Workers : s \in AtStake(w)'
  BY DEF Cookies, CookieWorks, Gone
<1>. DEFINE c == cookie[s]
<1>1. cookie'[s] = c /\ c # None /\ c \in Tokens
  BY CookieIs DEF Quiet
<1>2. /\ token[c] = Gone \/ (c \in Rows /\ token[c].session = s)
      /\ \/ Valid(c) \/ token[c] = Gone \/ s \in broken
         \/ \E w \in Workers : s \in AtStake(w)
  BY <1>1 DEF Cookies, CookieWorks
<1>. HIDE DEF c
<1>3. /\ token[c] = Gone => token'[c] = Gone
      /\ c \in Rows => c \in Rows' \/ token'[c] = Gone
      /\ c \in Rows' => token'[c].session = token[c].session
      /\ Valid(c) => token'[c].state = "valid" \/ token'[c] = Gone
  BY <1>1 DEF Quiet, TokensQuiet, TokensThin, Valid
<1>4. /\ s \in broken => s \in broken'
      /\ (\E w \in Workers : s \in AtStake(w)) =>
            s \in broken' \/ \E w \in Workers : s \in AtStake(w)'
  BY DEF Quiet
<1>5. token'[c].state = "valid" => Valid(cookie[s])'
  BY <1>1 DEF Valid
<1>. QED
  BY <1>1, <1>2, <1>3, <1>4, <1>5

LEMMA RevokeCookies ==
  ASSUME Typed, Sessions, Cookies, NEW w \in Workers, RevokeRefreshToken(w)
  PROVE  Cookies'
<1>. DEFINE j == req[w].token
<1>1. /\ req'[w].pc = "save" /\ req'[w].token = j /\ req'[w].session = req[w].session
      /\ req[w].pc = "revoke" /\ j \in Tokens
      /\ \A v \in Workers : v # w => req'[v] = req[v]
  BY RevokeRefreshTokenDoes DEF Advances, OnlyMoves
<1>2. /\ AtStake(w) = {} /\ AtStake(w)' = {req[w].session} /\ Past(w)
      /\ \A v \in Workers : v # w => AtStake(v)' = AtStake(v)
  BY <1>1, FieldsThere DEF AtStake, Past
<1>3. UNCHANGED <<cookie, broken>>
  BY DEF RevokeRefreshToken, aux
<1>4. TokensThin /\ \A i \in Tokens : i # j => token'[i] = token[i]
  BY RevokeThins, RevokeDoes
<1>5. token[j] = Gone \/ (j \in Rows /\ token[j].session = req[w].session)
  BY <1>2 DEF Sessions, TokensUsed
<1>. HIDE DEF j
<1>6. ASSUME NEW s \in Tokens, cookie[s] # None
      PROVE  /\ \/ token'[cookie[s]] = Gone
                \/ cookie[s] \in Rows' /\ token'[cookie[s]].session = s
             /\ \/ token'[cookie[s]].state = "valid" \/ token'[cookie[s]] = Gone
                \/ s \in broken
                \/ \E v \in Workers : s \in AtStake(v)'
  <2>. DEFINE c == cookie[s]
  <2>1. c \in Tokens
    BY <1>6, CookieIs
  <2>2. /\ token[c] = Gone \/ (c \in Rows /\ token[c].session = s)
        /\ \/ token[c].state = "valid" \/ token[c] = Gone \/ s \in broken
           \/ \E v \in Workers : s \in AtStake(v)
    BY <1>6 DEF Cookies, CookieWorks, Valid
  <2>. HIDE DEF c
  <2>3. token'[c] = Gone \/ (c \in Rows' /\ token'[c].session = s)
    BY <1>4, <2>1, <2>2 DEF TokensThin
  <2>4. (\E v \in Workers : s \in AtStake(v)) => \E v \in Workers : s \in AtStake(v)'
    BY <1>2
  <2>5. CASE c # j
    BY <1>4, <2>1, <2>2, <2>3, <2>4, <2>5 DEF c
  <2>6. CASE c = j
    <3>1. token[c] = Gone \/ s \in AtStake(w)'
      BY <1>2, <1>5, <2>2, <2>6
    <3>2. token[c] = Gone => token'[c] = Gone
      BY <1>4, <2>1 DEF TokensThin
    <3>. QED
      BY <2>3, <3>1, <3>2 DEF c
  <2>. QED
    BY <2>5, <2>6
<1>. QED
  BY <1>3, <1>6 DEF Cookies, CookieWorks, Gone, Valid

LEMMA ActiveCookies ==
  ASSUME Typed, Cookies, NEW w \in Workers, IsRefreshTokenActive(w)
  PROVE  Cookies'
<1>1. UNCHANGED <<token, cookie, broken>> /\ req[w].pc = "isActive"
  BY DEF IsRefreshTokenActive
<1>2. \A v \in Workers : v # w => req'[v] = req[v]
  BY IsRefreshTokenActiveDoes DEF Ends, OnlyMoves
<1>3. \A v \in Workers : AtStake(v) \subseteq AtStake(v)'
  BY <1>1, <1>2 DEF AtStake
<1>. QED
  BY <1>1, <1>3 DEF Cookies, CookieWorks, Gone, Valid, Rows

\* A token saved and sent is valid; the one before it is the worker's affair.
LEMMA SaveCookies ==
  ASSUME Typed, Sessions, NoTokenOfDeleted, Cookies,
         NEW w \in Workers, SaveRefreshToken(w)
  PROVE  Cookies'
<1>1. /\ req[w].pc = "save" /\ req[w].user \in Users
      /\ \A v \in Workers : v # w => req'[v] = req[v]
  BY SaveRefreshTokenDoes DEF Ends, OnlyMoves
<1>2. \A v \in Workers : v # w => AtStake(v)' = AtStake(v)
  BY <1>1 DEF AtStake
<1>3. \A s \in Tokens : s \in AtStake(w) => s = req[w].session /\ Past(w)
  BY <1>1 DEF AtStake, Past
<1>4. CASE ~Exists(req[w].user) /\ UNCHANGED <<token, cookie, broken>>
  <2>1. ASSUME NEW s \in Tokens, cookie[s] # None, s \in AtStake(w)
        PROVE  token[cookie[s]] = Gone
    <3>1. CASE cookie[s] \in Rows /\ token[cookie[s]].session = s
      <4>1. req[w].user = token[cookie[s]].user
        BY <1>3, <2>1, <3>1 DEF Sessions, SessionsOwned
      <4>. QED
        BY <1>4, <3>1, <4>1 DEF NoTokenOfDeleted
    <3>. QED
      BY <2>1, <3>1 DEF Cookies
  <2>2. ASSUME NEW s \in Tokens, NEW v \in Workers, cookie[s] # None, s \in AtStake(v)
        PROVE  token[cookie[s]] = Gone \/ \E x \in Workers : s \in AtStake(x)'
    BY <1>2, <2>1, <2>2
  <2>. QED
    BY <1>4, <2>2 DEF Cookies, CookieWorks, Gone, Valid, Rows
<1>5. ASSUME NEW j \in Tokens, NEW s \in Tokens,
             s = IF req[w].token = None THEN j ELSE req[w].session,
             token[j] = NoToken, token'[j].state = "valid", token'[j].session = s,
             \A i \in Tokens : i # j => token'[i] = token[i],
             \/ cookie' = [cookie EXCEPT ![s] = j] /\ broken' = broken
             \/ broken' = broken \cup AtStake(w) /\ UNCHANGED cookie
      PROVE  Cookies'
  <2>1. NoToken.state = "none" /\ Gone.state = "gone" /\ NoToken # Gone
    BY DEF NoToken, Gone
  <2>2. \A x \in Tokens : cookie[x] # None =>
          /\ cookie[x] \in Tokens /\ cookie[x] # j
          /\ token'[cookie[x]] = token[cookie[x]]
          /\ cookie[x] \in Rows => cookie[x] \in Rows'
    <3>1. ASSUME NEW x \in Tokens, cookie[x] # None
          PROVE  cookie[x] # j
      BY <1>5, <2>1, <3>1 DEF Cookies, Rows
    <3>. QED
      BY <1>5, <3>1, CookieIs DEF Rows
  <2>3. j \in Rows' /\ token'[j].state = "valid" /\ token'[j].session = s
    BY <1>5 DEF Rows
  <2>4. \A x \in Tokens : x \in AtStake(w) => x = s
    BY <1>1, <1>3, <1>5 DEF Past
  <2>5. cookie \in [Tokens -> Tokens \cup {None}]
    BY DEF Typed, TypeOK
  <2>6. ASSUME NEW x \in Tokens, cookie'[x] # None
        PROVE  /\ \/ token'[cookie'[x]] = Gone
                  \/ cookie'[x] \in Rows' /\ token'[cookie'[x]].session = x
               /\ \/ token'[cookie'[x]].state = "valid"
                  \/ token'[cookie'[x]] = Gone \/ x \in broken'
                  \/ \E v \in Workers : x \in AtStake(v)'
    <3>1. CASE cookie'[x] = j /\ x = s
      BY <2>3, <3>1
    <3>2. CASE cookie'[x] = cookie[x] /\ (x \in AtStake(w) => x \in broken')
      <4>1. /\ \/ token[cookie[x]] = Gone
               \/ cookie[x] \in Rows /\ token[cookie[x]].session = x
            /\ \/ token[cookie[x]].state = "valid" \/ token[cookie[x]] = Gone
               \/ x \in broken \/ \E v \in Workers : x \in AtStake(v)
        BY <2>6, <3>2 DEF Cookies, CookieWorks, Valid
      <4>2. (\E v \in Workers : x \in AtStake(v)) =>
               x \in broken' \/ \E v \in Workers : x \in AtStake(v)'
        BY <1>2, <3>2
      <4>3. x \in broken => x \in broken'
        BY <1>5
      <4>. QED
        BY <2>2, <2>6, <3>2, <4>1, <4>2, <4>3
    <3>. QED
      BY <1>5, <2>4, <2>5, <3>1, <3>2
  <2>. QED
    BY <2>6 DEF Cookies, CookieWorks, Gone, Valid
<1>. QED
  BY <1>4, <1>5, SaveRefreshTokenDoes

LEMMA NextCookies ==
  ASSUME Typed, Sessions, NoTokenOfDeleted, Cookies, [Next]_vars
  PROVE  Cookies'
<1>1. ASSUME NEW w \in Workers, Arrival(w) \/ Step(w) \/ Fail(w)
      PROVE  Cookies'
  BY <1>1, StepQuiet, QuietCookies, ActiveCookies, RevokeCookies, SaveCookies
<1>2. CASE \/ UNCHANGED vars \/ Tick \/ \E s \in Tokens : Logout(s)
           \/ \E u \in Users : BanUser(u) \/ UnbanUser(u) \/ AdminDeleteUser(u)
  BY <1>2, OtherQuiet, QuietCookies
<1>. QED
  BY <1>1, <1>2 DEF Next

\* The token a browser got last is good for the next refresh, unless a refresh
\* of its session has revoked it and not answered, or the account is deleted
\* (RefreshToken, RevokeRefreshToken, SaveRefreshToken, AdminDeleteUser).
THEOREM CookiesWork == Spec => []CookieWorks
<1>1. Init => Cookies
  BY DEF Init, Cookies, CookieWorks
<1>2. Typed /\ Sessions /\ NoTokenOfDeleted /\ Cookies /\ [Next]_vars => Cookies'
  BY NextCookies
<1>3. Cookies => CookieWorks
  BY DEF Cookies
<1>. QED
  BY <1>1, <1>2, <1>3, AlwaysTyped, AlwaysSessions, DeletedHaveNoToken, PTL DEF Spec

-----------------------------------------------------------------------------
(* Sessions that have ended *)

\* No step adds time to a token.
NoTimeAdded ==
  \A j \in Tokens : j \in Rows /\ j \in Rows' /\ token'[j].left > 0
                    => token[j].left > 0

LEMMA KeptTime ==
  ASSUME \A j \in Tokens : j \in Rows /\ j \in Rows' => token'[j] = token[j]
  PROVE  NoTimeAdded
BY DEF NoTimeAdded

LEMMA RevokeAddsNoTime ==
  ASSUME Typed, NEW w \in Workers, RevokeRefreshToken(w)
  PROVE  NoTimeAdded
<1>. DEFINE j == req[w].token
<1>1. j \in Tokens /\ \A i \in Tokens : i # j => token'[i] = token[i]
  BY RevokeDoes
<1>2. token \in [Tokens -> TokenRow \cup {NoToken, Gone}]
  BY DEF Typed, TypeOK
<1>3. token' = [token EXCEPT ![j] = IF Valid(j) THEN [@ EXCEPT !.state = "revoked"] ELSE @]
  BY DEF RevokeRefreshToken, Revoked
<1>. HIDE DEF j
<1>4. ASSUME j \in Rows
      PROVE  token'[j].left = token[j].left
  <2>1. token[j] \in TokenRow
    BY <1>1, <1>4, RowIs DEF Typed
  <2>2. [token[j] EXCEPT !.state = "revoked"].left = token[j].left
    BY <2>1 DEF TokenRow
  <2>. QED
    BY <1>1, <1>2, <1>3, <2>2
<1>. QED
  BY <1>1, <1>4 DEF NoTimeAdded

LEMMA TickAddsNoTime ==
  ASSUME Typed, Tick
  PROVE  NoTimeAdded
<1>. SUFFICES ASSUME NEW j \in Tokens, j \in Rows, token'[j].left > 0
              PROVE  token[j].left > 0
  BY DEF NoTimeAdded
<1>1. token[j] \in TokenRow
  BY RowIs DEF Typed
<1>2. token[j].left \in Nat
  BY <1>1, AccountsAssumption DEF TokenRow
<1>3. token'[j] = [token[j] EXCEPT !.left = Less(@)]
  BY DEF Tick
<1>4. token'[j].left = Less(token[j].left)
  BY <1>1, <1>3 DEF TokenRow
<1>. QED
  BY <1>2, <1>4 DEF Less

LEMMA NextAddsNoTime ==
  ASSUME Typed, [Next]_vars
  PROVE  NoTimeAdded
<1>1. CASE token' = token
  BY <1>1, KeptTime
<1>2. CASE Tick
  BY <1>2, TickAddsNoTime
<1>3. ASSUME NEW u \in Users, AdminDeleteUser(u)
      PROVE  NoTimeAdded
  BY <1>3, DeleteDoes, KeptTime
<1>4. ASSUME NEW w \in Workers, RevokeRefreshToken(w)
      PROVE  NoTimeAdded
  BY <1>4, RevokeAddsNoTime
<1>5. ASSUME NEW w \in Workers, SaveRefreshToken(w)
      PROVE  NoTimeAdded
  <2>1. \A j \in Tokens : token[j] = NoToken => j \notin Rows
    BY DEF Rows, NoToken
  <2>. QED
    BY <1>5, <2>1, SaveRefreshTokenDoes, KeptTime
<1>6. ASSUME NEW w \in Workers, Arrival(w)
      PROVE  token' = token
  BY <1>6, ArrivalFits DEF Arrive
<1>7. ASSUME NEW w \in Workers, Step(w) \/ Fail(w)
      PROVE  token' = token \/ RevokeRefreshToken(w) \/ SaveRefreshToken(w)
  BY <1>7 DEF Step, CreateUser, GetByUsername, IsRefreshTokenActive, GetByID,
              GenerateTokens, Fail
<1>8. ASSUME NEW u \in Users, BanUser(u) \/ UnbanUser(u)
      PROVE  token' = token
  BY <1>8 DEF BanUser, UnbanUser
<1>9. ASSUME NEW s \in Tokens, Logout(s)
      PROVE  token' = token
  BY <1>9 DEF Logout
<1>10. UNCHANGED vars => token' = token
  BY DEF vars
<1>. QED
  BY <1>1, <1>2, <1>3, <1>4, <1>5, <1>6, <1>7, <1>8, <1>9, <1>10 DEF Next

\* Steps that make no token valid and pass no further refresh end no end.
LEMMA ThinStaysEnded ==
  ASSUME Typed, [Next]_vars, TokensThin, RefreshesStay,
         NEW s \in Tokens, ~Alive(s)
  PROVE  ~Alive(s)'
<1>1. NoTimeAdded
  BY NextAddsNoTime
<1>2. ASSUME NEW j \in Rows', Valid(j)', token'[j].left > 0, token'[j].session = s
      PROVE  FALSE
  <2>1. j \in Tokens
    BY DEF Rows
  <2>2. j \in Rows /\ Valid(j) /\ token[j].session = s
    BY <1>2, <2>1 DEF TokensThin
  <2>3. token[j].left > 0
    BY <1>1, <1>2, <2>1, <2>2 DEF NoTimeAdded
  <2>. QED
    BY <2>2, <2>3 DEF Alive
<1>3. ASSUME NEW v \in Workers, Past(v)', req'[v].session = s
      PROVE  FALSE
  BY <1>3 DEF RefreshesStay, Alive
<1>. QED
  BY <1>2, <1>3 DEF Alive

LEMMA ActiveStaysEnded ==
  ASSUME Typed, NEW w \in Workers, IsRefreshTokenActive(w), [Next]_vars,
         NEW s \in Tokens, ~Alive(s)
  PROVE  ~Alive(s)'
<1>. DEFINE j == req[w].token
<1>1. token' = token /\ UNCHANGED <<cookie, broken>>
  BY DEF IsRefreshTokenActive
<1>2. CASE Ends(w) /\ shared' = shared
  <2>1. AtStake(w) = {}
    BY DEF IsRefreshTokenActive, AtStake
  <2>2. Quiet
    BY <1>1, <1>2, <2>1, EndQuiet
  <2>. QED
    BY <2>2, ThinStaysEnded DEF Quiet, TokensQuiet
<1>3. CASE /\ OnlyMoves(w) /\ j \in Rows /\ Valid(j)
           /\ req'[w].pc = "getByID" /\ req'[w].session = token[j].session
  <2>1. token[j].left > 0
    <3>1. ASSUME Finish(w)
          PROVE  FALSE
      <4>1. req'[w] = Idle
        BY <3>1, FinishEnds DEF Ends
      <4>. QED
        BY <1>3, <4>1 DEF Idle
    <3>. QED
      BY <3>1 DEF IsRefreshTokenActive
  <2>2. req'[w].session # s
    BY <1>3, <2>1 DEF Alive
  <2>3. \A v \in Workers : v # w => req'[v] = req[v]
    BY <1>3 DEF OnlyMoves
  <2>4. Rows' = Rows /\ \A i : Valid(i)' <=> Valid(i)
    BY <1>1 DEF Rows, Valid
  <2>. QED
    BY <1>1, <2>2, <2>3, <2>4 DEF Alive, Past
<1>. QED
  BY <1>2, <1>3, IsRefreshTokenActiveDoes

LEMMA RevokeStaysEnded ==
  ASSUME Typed, NEW w \in Workers, RevokeRefreshToken(w), [Next]_vars,
         NEW s \in Tokens, ~Alive(s)
  PROVE  ~Alive(s)'
<1>1. TokensThin
  BY RevokeThins
<1>2. Advances(w, "save") /\ req[w].pc = "revoke"
  BY RevokeRefreshTokenDoes
<1>3. RefreshesStay
  BY <1>2 DEF RefreshesStay, Advances, OnlyMoves, Past
<1>. QED
  BY <1>1, <1>3, ThinStaysEnded

\* What is saved belongs to the session of the refresh, which has not ended, or
\* begins a session.
LEMMA SaveStaysEnded ==
  ASSUME Typed, NEW w \in Workers, SaveRefreshToken(w),
         NEW s \in Tokens, token[s] # NoToken, ~Alive(s)
  PROVE  ~Alive(s)'
<1>1. Ends(w) /\ req[w].pc = "save"
  BY SaveRefreshTokenDoes
<1>2. ASSUME NEW v \in Workers, Past(v)', req'[v].session = s
      PROVE  FALSE
  <2>1. v # w /\ req'[v] = req[v]
    BY <1>1, <1>2, IdleFits DEF Ends, OnlyMoves, Past
  <2>. QED
    BY <1>2, <2>1 DEF Alive, Past
<1>3. ASSUME NEW i \in Tokens, token'[i] = token[i]
      PROVE  ~(i \in Rows' /\ Valid(i)' /\ token'[i].left > 0 /\ token'[i].session = s)
  <2>1. i \in Rows' /\ Valid(i)' => i \in Rows /\ Valid(i)
    BY <1>3 DEF Rows, Valid
  <2>. QED
    BY <1>3, <2>1 DEF Alive
<1>4. CASE token' = token
  <2>1. \A i \in Rows' : i \in Tokens /\ token'[i] = token[i]
    BY <1>4 DEF Rows
  <2>. QED
    BY <1>2, <1>3, <2>1 DEF Alive
<1>5. ASSUME NEW j \in Tokens, token[j] = NoToken,
             token'[j].session = IF req[w].token = None THEN j ELSE req[w].session,
             \A i \in Tokens : i # j => token'[i] = token[i]
      PROVE  ~Alive(s)'
  <2>1. token'[j].session # s
    <3>1. CASE req[w].token = None
      BY <1>5, <3>1
    <3>2. CASE req[w].token # None
      <4>1. Past(w)
        BY <1>1, <3>2 DEF Past
      <4>. QED
        BY <1>5, <3>2, <4>1 DEF Alive
    <3>. QED
      BY <3>1, <3>2
  <2>2. \A i \in Rows' : i \in Tokens
    BY DEF Rows
  <2>. QED
    BY <1>2, <1>3, <1>5, <2>1, <2>2 DEF Alive
<1>6. \/ token' = token
      \/ \E j \in Tokens :
           /\ token[j] = NoToken
           /\ token'[j].session = IF req[w].token = None THEN j ELSE req[w].session
           /\ \A i \in Tokens : i # j => token'[i] = token[i]
  BY SaveRefreshTokenDoes
<1>. QED
  BY <1>4, <1>5, <1>6

\* A session of which no token is good any more and no refresh is on its way
\* never gets a token again (IsRefreshTokenActive, SaveRefreshToken).
THEOREM SessionsStayEnded == Spec => EndedSessionsStayEnded
<1>1. Typed /\ [Next]_vars
        => [\A s \in Tokens : token[s] # NoToken /\ ~Alive(s) => ~Alive(s)']_vars
  <2>. SUFFICES ASSUME Typed, Next,
                       NEW s \in Tokens, token[s] # NoToken, ~Alive(s)
                PROVE  ~Alive(s)'
    OBVIOUS
  <2>1. CASE Quiet
    BY <2>1, ThinStaysEnded DEF Quiet, TokensQuiet
  <2>2. ASSUME NEW w \in Workers, Arrival(w) \/ Step(w) \/ Fail(w)
        PROVE  ~Alive(s)'
    BY <2>1, <2>2, StepQuiet, ActiveStaysEnded, RevokeStaysEnded, SaveStaysEnded
  <2>. QED
    BY <2>1, <2>2, OtherQuiet DEF Next
<1>. QED
  BY <1>1, AlwaysTyped, PTL DEF Spec, EndedSessionsStayEnded

=============================================================================
