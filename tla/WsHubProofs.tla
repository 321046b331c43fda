----------------------------- MODULE WsHubProofs -----------------------------
(***************************************************************************)
(* Proofs about WsHub, for any connections, senders, users and capacity.   *)
(***************************************************************************)
EXTENDS WsHub, FiniteSetTheorems, TLAPS

-----------------------------------------------------------------------------
(* Messages and channels *)

\* The number of any users fits the type of a count.
LEMMA CountOfUsers ==
  ASSUME NEW S \in SUBSET Users
  PROVE  Cardinality(S) \in 0..Cardinality(Users)
<1>1. IsFiniteSet(Users)
  BY HubAssumption
<1>2. Cardinality(S) <= Cardinality(Users)
  BY <1>1, FS_Subset
<1>3. Cardinality(S) \in Nat /\ Cardinality(Users) \in Nat
  BY <1>1, FS_Subset, FS_CardinalityType
<1>. QED
  BY <1>2, <1>3

\* What the hub says about users is a message.
LEMMA ListsAndCounts ==
  ASSUME NEW S \in SUBSET Users
  PROVE  UsersMessage(S) \in Messages /\ CountMessage(Cardinality(S)) \in Messages
BY CountOfUsers DEF Messages

\* A list names users, a count is in range.
LEMMA MessageFields ==
  ASSUME NEW m \in Messages
  PROVE  /\ m.kind = "online_users" => m.users \in SUBSET Users
         /\ m.kind = "online_count" => m.count \in 0..Cardinality(Users)
BY DEF Messages, UsersMessage, CountMessage, Event

\* The channels and their auxiliary records.
ChannelsOK ==
  /\ buffer \in [Conns -> Seq(Messages)]
  /\ \A c \in Conns : Len(buffer[c]) <= BufferSize
  /\ told \in [Conns -> SUBSET Users]
  /\ missed \subseteq Conns

\* A send that does not block keeps a channel within its capacity.
LEMMA TrySendKeepsChannels ==
  ASSUME ChannelsOK, NEW c \in Conns, NEW m \in Messages,
         NEW b \in BOOLEAN, TrySend(c, m, b)
  PROVE  ChannelsOK'
<1>1. CASE Len(buffer[c]) < BufferSize
  <2>1. /\ buffer' = [buffer EXCEPT ![c] = Append(@, m)]
        /\ told' = IF b /\ m.kind = "online_users"
                   THEN [told EXCEPT ![c] = m.users] ELSE told
        /\ missed' \subseteq missed
    BY <1>1 DEF TrySend
  <2>2. Append(buffer[c], m) \in Seq(Messages)
    BY DEF ChannelsOK
  <2>3. Len(Append(buffer[c], m)) = Len(buffer[c]) + 1 /\ Len(buffer[c]) \in Nat
    BY DEF ChannelsOK
  <2>4. Len(Append(buffer[c], m)) <= BufferSize
    BY <1>1, <2>3, HubAssumption
  <2>5. told' \in [Conns -> SUBSET Users]
    BY <2>1, MessageFields DEF ChannelsOK
  <2>6. buffer' \in [Conns -> Seq(Messages)]
    BY <2>1, <2>2 DEF ChannelsOK
  <2>7. \A d \in Conns : Len(buffer'[d]) <= BufferSize
    BY <2>1, <2>4 DEF ChannelsOK
  <2>. QED
    BY <2>1, <2>5, <2>6, <2>7 DEF ChannelsOK
<1>2. CASE ~(Len(buffer[c]) < BufferSize)
  BY <1>2 DEF TrySend, ChannelsOK
<1>. QED
  BY <1>1, <1>2

-----------------------------------------------------------------------------
(* The inductive invariant *)

\* A channel is closed at the very end of its handler ...
ClosedLast == \A c \in closed : pc[c] \in {"awaitPump", "gone"}

\* ... which no longer is, or can be, in the map of clients ...
ClientsAreServed == \A c \in clients : pc[c] \notin {"close", "awaitPump", "gone"}

\* ... nor in the index, which has no other connections ...
IndexWithinClients == \A u \in OnlineUsers : userIndex[u] \subseteq clients

\* ... nor in a loop of sends, because register and unregister wait for those.
TargetsAreClients == \A g \in Goroutines : sending[g].targets \subseteq clients

Inv ==
  /\ TypeOK
  /\ ClosedLast /\ ClientsAreServed /\ IndexWithinClients /\ TargetsAreClients

\* The invariant rules out a send on a closed channel.
LEMMA InvNoSendOnClosed ==
  ASSUME Inv
  PROVE  NoSendOnClosed
BY DEF Inv, ClosedLast, ClientsAreServed, IndexWithinClients,
       TargetsAreClients, NoSendOnClosed

\* Nobody is connected at the start.
LEMMA InitInv == Init => Inv
<1>. SUFFICES ASSUME Init PROVE Inv
  OBVIOUS
<1>1. Cardinality({}) = 0 /\ 0 \in 0..Cardinality(Users)
  BY CountOfUsers, FS_EmptySet
<1>2. Event \in Messages
  BY DEF Messages
<1>3. \A c \in Conns : Len(buffer[c]) <= BufferSize
  BY HubAssumption DEF Init
<1>4. TypeOK
  BY <1>1, <1>2, <1>3, HubAssumption
  DEF Init, TypeOK, Labels, OnlineUsers, NotSending
<1>. QED
  BY <1>4 DEF Init, Inv, ClosedLast, ClientsAreServed, IndexWithinClients,
              TargetsAreClients, OnlineUsers, NotSending

-----------------------------------------------------------------------------
(* Steps *)

\* Steps that move a handler or a pump and leave maps and channels alone.
LEMMA HandlerStep ==
  ASSUME Inv, NEW c \in Conns,
         \/ Connect(c) \/ AnnounceWriter(c) \/ SetGauge(c) \/ Snapshot(c)
         \/ ReadFails(c) \/ CloseChannel(c) \/ Return(c)
  PROVE  Inv'
<1>. USE DEF Inv, channel, hub
<1>1. OnlineUsers \in SUBSET Users
  BY DEF TypeOK
<1>2. Cardinality(online[c]) \in 0..Cardinality(Users)
  BY CountOfUsers DEF TypeOK
<1>3. CASE Connect(c) \/ ReadFails(c)
  <2>1. TypeOK'
    BY <1>3 DEF Connect, ReadFails, Goto, TypeOK, Labels, OnlineUsers
  <2>. QED
    BY <1>3, <2>1 DEF Connect, ReadFails, Goto, TypeOK, ClosedLast,
      ClientsAreServed, IndexWithinClients, TargetsAreClients, OnlineUsers
<1>4. CASE AnnounceWriter(c)
  BY <1>4 DEF AnnounceWriter, TypeOK, ClosedLast, ClientsAreServed,
    IndexWithinClients, TargetsAreClients, OnlineUsers
<1>5. CASE SetGauge(c)
  <2>1. TypeOK'
    BY <1>2, <1>5 DEF SetGauge, At, Goto, TypeOK, Labels, OnlineUsers
  <2>. QED
    BY <1>5, <2>1 DEF SetGauge, At, Goto, TypeOK, ClosedLast,
      ClientsAreServed, IndexWithinClients, TargetsAreClients, OnlineUsers
<1>6. CASE Snapshot(c)
  <2>1. TypeOK'
    BY <1>1, <1>6 DEF Snapshot, At, Goto, TypeOK, Labels, OnlineUsers
  <2>. QED
    BY <1>6, <2>1 DEF Snapshot, At, Goto, TypeOK, ClosedLast,
      ClientsAreServed, IndexWithinClients, TargetsAreClients, OnlineUsers
<1>7. CASE CloseChannel(c)
  <2>1. TypeOK'
    BY <1>7 DEF CloseChannel, At, Goto, TypeOK, Labels, OnlineUsers
  <2>2. c \notin clients
    BY <1>7 DEF CloseChannel, At, ClientsAreServed
  <2>. QED
    BY <1>7, <2>1, <2>2 DEF CloseChannel, At, Goto, TypeOK, ClosedLast,
      ClientsAreServed, IndexWithinClients, TargetsAreClients, OnlineUsers
<1>8. CASE Return(c)
  <2>1. TypeOK'
    BY <1>8 DEF Return, Goto, TypeOK, Labels, OnlineUsers
  <2>. QED
    BY <1>8, <2>1 DEF Return, Goto, TypeOK, ClosedLast,
      ClientsAreServed, IndexWithinClients, TargetsAreClients, OnlineUsers
<1>. QED
  BY <1>3, <1>4, <1>5, <1>6, <1>7, <1>8

\* The sections under Lock: no loop of sends is under way.
LEMMA RegisterStep ==
  ASSUME Inv, NEW c \in Conns, Register(c)
  PROVE  Inv'
<1>. USE DEF Inv, channel, Register
<1>1. User[c] \in Users
  BY HubAssumption
<1>2. c \notin closed
  BY DEF ClosedLast
<1>3. \A g \in Goroutines : sending[g].targets = {}
  BY DEF Locked, Readers
<1>4. OnlineUsers' = OnlineUsers \cup {User[c]}
  BY DEF OnlineUsers
<1>5. \A u \in OnlineUsers' : userIndex'[u] \subseteq clients \cup {c}
  BY <1>4 DEF IndexWithinClients, TypeOK, OnlineUsers
<1>6. clients \cup {c} \subseteq Conns
  BY DEF TypeOK
<1>7. TypeOK'
  BY <1>1, <1>4, <1>5, <1>6 DEF TypeOK, Locked, Goto, Labels, OnlineUsers
<1>8. ClosedLast' /\ ClientsAreServed'
  BY <1>2 DEF TypeOK, ClosedLast, ClientsAreServed, Goto
<1>9. IndexWithinClients' /\ TargetsAreClients'
  BY <1>3, <1>5 DEF IndexWithinClients, TargetsAreClients
<1>. QED
  BY <1>7, <1>8, <1>9

LEMMA UnregisterStep ==
  ASSUME Inv, NEW c \in Conns, Unregister(c)
  PROVE  Inv'
<1>. USE DEF Inv, channel, Unregister
<1>1. c \notin closed
  BY DEF ClosedLast
<1>2. \A g \in Goroutines : sending[g].targets = {}
  BY DEF Locked, Readers
<1>3. /\ OnlineUsers' = DOMAIN Left(c)
      /\ OnlineUsers' \subseteq OnlineUsers
      /\ \A u \in OnlineUsers' : userIndex'[u] = userIndex[u] \ {c}
  BY DEF Left, OnlineUsers
<1>4. \A u \in OnlineUsers' : userIndex'[u] \subseteq clients'
  BY <1>3 DEF IndexWithinClients
<1>5. userIndex' = [u \in OnlineUsers' |-> userIndex'[u]]
  BY DEF Left, OnlineUsers
<1>6. clients' \subseteq Conns /\ OnlineUsers' \subseteq Users
  BY <1>3 DEF TypeOK
<1>7. userIndex' \in [OnlineUsers' -> SUBSET Conns]
  BY <1>4, <1>5, <1>6
<1>8. TypeOK'
  BY <1>3, <1>6, <1>7 DEF TypeOK, Locked, Goto, Labels, OnlineUsers
<1>9. ClosedLast' /\ ClientsAreServed'
  BY <1>1 DEF TypeOK, ClosedLast, ClientsAreServed, Goto
<1>10. IndexWithinClients' /\ TargetsAreClients'
  BY <1>2, <1>4 DEF IndexWithinClients, TargetsAreClients
<1>. QED
  BY <1>8, <1>9, <1>10

\* Taking the read lock for a loop of sends to some of the clients.
LEMMA StartSendingStep ==
  ASSUME Inv, NEW g \in Goroutines, NEW m \in Messages,
         NEW targets \in SUBSET clients, StartSending(g, m, targets),
         UNCHANGED <<hub, writer, online, channel, closed, pump, view, gauge>>,
         pc' \in [Conns -> Labels], ClosedLast', ClientsAreServed'
  PROVE  Inv'
<1>1. targets \subseteq Conns
  BY DEF Inv, TypeOK
<1>2. sending' \in [Goroutines -> [message: Messages, targets: SUBSET Conns]]
  BY <1>1 DEF Inv, TypeOK, StartSending
<1>3. TypeOK'
  BY <1>2 DEF Inv, TypeOK, hub, channel, OnlineUsers
<1>4. IndexWithinClients' /\ TargetsAreClients'
  BY DEF Inv, TypeOK, StartSending, IndexWithinClients, TargetsAreClients,
         hub, OnlineUsers
<1>. QED
  BY <1>3, <1>4 DEF Inv

LEMMA BroadcastStep ==
  ASSUME Inv, NEW c \in Conns,
         BroadcastOnlineCount(c) \/ BroadcastOnlineUsers(c)
  PROVE  Inv'
<1>1. OnlineUsers \in SUBSET Users
  BY DEF Inv, TypeOK
<1>2. c \in Goroutines /\ c \notin closed
  BY DEF Goroutines, Inv, ClosedLast, BroadcastOnlineCount,
         BroadcastOnlineUsers, At
<1>3. CASE BroadcastOnlineCount(c)
  <2>1. pc' \in [Conns -> Labels] /\ ClosedLast' /\ ClientsAreServed'
    BY <1>2, <1>3 DEF BroadcastOnlineCount, At, Goto, Labels, Inv, TypeOK,
      ClosedLast, ClientsAreServed, hub
  <2>. QED
    BY <1>1, <1>2, <1>3, <2>1, ListsAndCounts, StartSendingStep
    DEF BroadcastOnlineCount
<1>4. CASE BroadcastOnlineUsers(c)
  <2>1. pc' \in [Conns -> Labels] /\ ClosedLast' /\ ClientsAreServed'
    BY <1>2, <1>4 DEF BroadcastOnlineUsers, AfterBroadcast, At, Goto, Labels,
      Inv, TypeOK, ClosedLast, ClientsAreServed, hub
  <2>. QED
    BY <1>1, <1>2, <1>4, <2>1, ListsAndCounts, StartSendingStep
    DEF BroadcastOnlineUsers
<1>. QED
  BY <1>3, <1>4

LEMMA EventStep ==
  ASSUME Inv, NEW s \in Senders, NEW targets \in SUBSET clients,
         SendEvent(s, targets)
  PROVE  Inv'
<1>1. s \in Goroutines /\ Event \in Messages
  BY DEF Goroutines, Messages
<1>2. pc' \in [Conns -> Labels] /\ ClosedLast' /\ ClientsAreServed'
  BY DEF SendEvent, Inv, TypeOK, ClosedLast, ClientsAreServed, hub
<1>. QED
  BY <1>1, <1>2, StartSendingStep DEF SendEvent

\* One turn of a loop of sends.
LEMMA DeliverStep ==
  ASSUME Inv, NEW g \in Goroutines, NEW c \in Conns, Deliver(g, c)
  PROVE  Inv'
<1>1. sending[g].message \in Messages
  BY DEF Inv, TypeOK
<1>2. ChannelsOK
  BY DEF Inv, TypeOK, ChannelsOK
<1>3. ChannelsOK'
  BY <1>1, <1>2, TrySendKeepsChannels DEF Deliver
<1>4. /\ sending' \in [Goroutines -> [message: Messages, targets: SUBSET Conns]]
      /\ \A f \in Goroutines : sending'[f].targets \subseteq sending[f].targets
  BY DEF Inv, TypeOK, Deliver
<1>5. TypeOK'
  BY <1>3, <1>4 DEF Inv, TypeOK, ChannelsOK, Deliver, hub, OnlineUsers
<1>. QED
  BY <1>4, <1>5 DEF Inv, Deliver, hub, ClosedLast, ClientsAreServed,
    IndexWithinClients, TargetsAreClients, OnlineUsers

LEMMA GreetStep ==
  ASSUME Inv, NEW c \in Conns, Greet(c)
  PROVE  Inv'
<1>1. ChannelsOK
  BY DEF Inv, TypeOK, ChannelsOK
<1>2. online[c] \in SUBSET Users
  BY DEF Inv, TypeOK
<1>3. ChannelsOK'
  BY <1>1, <1>2, ListsAndCounts, TrySendKeepsChannels DEF Greet
<1>4. c \notin closed
  BY DEF Greet, At, Inv, ClosedLast
<1>5. pc' \in [Conns -> Labels] /\ pump' \in [Conns -> {"waiting", "running", "ended"}]
  BY DEF Greet, Goto, Labels, Inv, TypeOK
<1>6. TypeOK'
  BY <1>3, <1>5 DEF Inv, TypeOK, ChannelsOK, Greet, hub, OnlineUsers
<1>7. ClosedLast' /\ ClientsAreServed'
  BY <1>4 DEF Inv, TypeOK, ClosedLast, ClientsAreServed, Greet, Goto, hub
<1>. QED
  BY <1>6, <1>7 DEF Inv, Greet, hub, IndexWithinClients, TargetsAreClients,
    OnlineUsers

LEMMA PumpStep ==
  ASSUME Inv, NEW c \in Conns, Pump(c) \/ WriteFails(c)
  PROVE  Inv'
<1>1. CASE WriteMessage(c)
  <2>1. /\ buffer[c] \in Seq(Messages) /\ buffer[c] # <<>>
        /\ Len(buffer[c]) <= BufferSize
    BY <1>1 DEF Inv, TypeOK, WriteMessage
  <2>2. /\ Tail(buffer[c]) \in Seq(Messages) /\ Head(buffer[c]) \in Messages
        /\ Len(Tail(buffer[c])) = Len(buffer[c]) - 1
    BY <2>1
  <2>3. Len(Tail(buffer[c])) <= BufferSize
    BY <2>1, <2>2, HubAssumption
  <2>4. buffer' \in [Conns -> Seq(Messages)]
    BY <1>1, <2>2 DEF Inv, TypeOK, WriteMessage
  <2>5. \A d \in Conns : Len(buffer'[d]) <= BufferSize
    BY <1>1, <2>3 DEF Inv, TypeOK, WriteMessage
  <2>6. Told(view[c], Head(buffer[c])) \in
          [users: SUBSET Users, count: 0..Cardinality(Users)]
    BY <2>2, MessageFields DEF Inv, TypeOK, Told
  <2>7. view' \in [Conns -> [users: SUBSET Users, count: 0..Cardinality(Users)]]
    BY <1>1, <2>6 DEF Inv, TypeOK, WriteMessage
  <2>8. TypeOK'
    BY <1>1, <2>4, <2>5, <2>7 DEF Inv, TypeOK, WriteMessage, hub, OnlineUsers
  <2>. QED
    BY <1>1, <2>8 DEF Inv, WriteMessage, hub, ClosedLast, ClientsAreServed,
      IndexWithinClients, TargetsAreClients, OnlineUsers
<1>2. CASE PumpEnds(c) \/ WriteFails(c)
  <2>1. TypeOK'
    BY <1>2 DEF Inv, TypeOK, PumpEnds, WriteFails, hub, channel, OnlineUsers
  <2>. QED
    BY <1>2, <2>1 DEF Inv, PumpEnds, WriteFails, hub, ClosedLast,
      ClientsAreServed, IndexWithinClients, TargetsAreClients, OnlineUsers
<1>. QED
  BY <1>1, <1>2 DEF Pump

\* Every step of the hub keeps the invariant.
LEMMA NextInv == Inv /\ [Next]_vars => Inv'
<1>. SUFFICES ASSUME Inv, [Next]_vars PROVE Inv'
  OBVIOUS
<1>1. ASSUME NEW c \in Conns,
             Connect(c) \/ Handle(c) \/ ReadFails(c) \/ Pump(c) \/ WriteFails(c)
      PROVE  Inv'
  BY <1>1, HandlerStep, RegisterStep, UnregisterStep, BroadcastStep, GreetStep,
     PumpStep DEF Handle
<1>2. ASSUME NEW g \in Goroutines, Loop(g) PROVE Inv'
  BY <1>2, DeliverStep DEF Loop
<1>3. ASSUME NEW s \in Senders, Broadcast(s) PROVE Inv'
  BY <1>3, EventStep DEF Broadcast
<1>4. ASSUME NEW s \in Senders, NEW u \in Users, SendToUser(s, u) PROVE Inv'
  BY <1>4, EventStep DEF SendToUser, Inv, IndexWithinClients
<1>5. CASE UNCHANGED vars
  BY <1>5 DEF vars, hub, channel, Inv, TypeOK, ClosedLast, ClientsAreServed,
    IndexWithinClients, TargetsAreClients, OnlineUsers
<1>. QED
  BY <1>1, <1>2, <1>3, <1>4, <1>5 DEF Next

-----------------------------------------------------------------------------
(* Theorems *)

THEOREM InvHolds == Spec => []Inv
BY InitInv, NextInv, PTL DEF Spec

\* The hub's state is of its type; above all no channel ever holds more than
\* its capacity (the select with default in Broadcast, SendToUser and the
\* greeting).
THEOREM TypeCorrect == Spec => []TypeOK
<1>1. Inv => TypeOK
  BY DEF Inv
<1>. QED
  BY <1>1, InvHolds, PTL

\* No goroutine sends on a closed channel (HandleWS unregisters before it
\* closes, and unregister waits for the loops of sends).
THEOREM NeverSendsOnClosed == Spec => []NoSendOnClosed
<1>1. Inv => NoSendOnClosed
  BY InvNoSendOnClosed
<1>. QED
  BY <1>1, InvHolds, PTL

-----------------------------------------------------------------------------
(* The two maps *)

\* Users who have entries, and the entries.
LEMMA IndexIs ==
  ASSUME IndexFollowsClients
  PROVE  /\ OnlineUsers = {User[c] : c \in clients}
         /\ \A u \in OnlineUsers : userIndex[u] = {c \in clients : User[c] = u}
         /\ userIndex = [u \in OnlineUsers |-> userIndex[u]]
BY DEF IndexFollowsClients, OnlineUsers

LEMMA RegisterIndexes ==
  ASSUME IndexFollowsClients, NEW c \in Conns, Register(c)
  PROVE  IndexFollowsClients'
<1>. DEFINE users == {User[d] : d \in clients \cup {c}}
            New(u) == (IF u \in OnlineUsers THEN userIndex[u] ELSE {})
                        \cup (IF u = User[c] THEN {c} ELSE {})
<1>1. OnlineUsers \cup {User[c]} = users
  BY IndexIs
<1>2. ASSUME NEW u \in users
      PROVE  New(u) = {d \in clients \cup {c} : User[d] = u}
  <2>1. (IF u \in OnlineUsers THEN userIndex[u] ELSE {}) = {d \in clients : User[d] = u}
    BY IndexIs
  <2>. QED
    BY <2>1
<1>3. userIndex' = [u \in OnlineUsers \cup {User[c]} |-> New(u)]
      /\ clients' = clients \cup {c}
  BY DEF Register
<1>. HIDE DEF New, users
<1>4. userIndex' = [u \in users |-> {d \in clients \cup {c} : User[d] = u}]
  BY <1>1, <1>2, <1>3
<1>. QED
  BY <1>3, <1>4 DEF IndexFollowsClients, users

LEMMA UnregisterIndexes ==
  ASSUME IndexFollowsClients, NEW c \in Conns, Unregister(c)
  PROVE  IndexFollowsClients'
<1>. DEFINE users == {User[d] : d \in clients \ {c}}
            left == {u \in OnlineUsers : userIndex[u] # {c}}
<1>1. left = users
  <2>1. ASSUME NEW u \in left
        PROVE  u \in users
    <3>1. PICK d \in clients : User[d] = u
      BY IndexIs
    <3>2. PICK e \in userIndex[u] : e # c
      BY <3>1, IndexIs
    <3>. QED
      BY <3>2, IndexIs
  <2>2. ASSUME NEW d \in clients \ {c}
        PROVE  User[d] \in left
    BY IndexIs
  <2>. QED
    BY <2>1, <2>2
<1>2. \A u \in left : userIndex[u] \ {c} = {d \in clients \ {c} : User[d] = u}
  BY IndexIs
<1>3. userIndex' = [u \in left |-> userIndex[u] \ {c}] /\ clients' = clients \ {c}
  BY DEF Unregister, Left
<1>. HIDE DEF left, users
<1>4. userIndex' = [u \in users |-> {d \in clients \ {c} : User[d] = u}]
  BY <1>1, <1>2, <1>3
<1>. QED
  BY <1>3, <1>4 DEF IndexFollowsClients, users

\* Only register and unregister change the maps.
LEMMA MapsStay ==
  ASSUME [Next]_vars, \A c \in Conns : ~Register(c) /\ ~Unregister(c)
  PROVE  UNCHANGED hub
BY DEF Next, Handle, Pump, Loop, Connect, AnnounceWriter, SetGauge, BroadcastOnlineCount,
       BroadcastOnlineUsers, Snapshot, Greet, CloseChannel, Return, ReadFails, WriteMessage,
       PumpEnds, WriteFails, Deliver, Broadcast, SendToUser, SendEvent, vars

\* A user has an entry exactly while one of their connections is registered, and
\* the entry holds all of these (register and unregister).
THEOREM IndexIsRight == Spec => []IndexFollowsClients
<1>1. Init => IndexFollowsClients
  BY DEF Init, IndexFollowsClients
<1>2. IndexFollowsClients /\ [Next]_vars => IndexFollowsClients'
  <2>. SUFFICES ASSUME IndexFollowsClients, [Next]_vars PROVE IndexFollowsClients'
    OBVIOUS
  <2>1. CASE \A c \in Conns : ~Register(c) /\ ~Unregister(c)
    BY <2>1, MapsStay DEF IndexFollowsClients, hub
  <2>2. CASE \E c \in Conns : Register(c) \/ Unregister(c)
    BY <2>2, RegisterIndexes, UnregisterIndexes
  <2>. QED
    BY <2>1, <2>2
<1>. QED
  BY <1>1, <1>2, PTL DEF Spec

-----------------------------------------------------------------------------
(* The last list in every channel *)

\* Handlers that have changed the maps and have not broadcast the list since.
Owing == {d \in Conns : pc[d] \in {"setGauge", "broadcastCount", "broadcastUsers"}}

\* Goroutine g still has to send the list to connection c.
Listing(g, c) == c \in sending[g].targets /\ sending[g].message.kind = "online_users"

\* A list that is being broadcast is current: nobody registers meanwhile.
ListsCurrent ==
  \A g \in Goroutines, c \in Conns :
    Listing(g, c) => sending[g].message.users = OnlineUsers

\* A client without the current list will have it, or miss it.
ListsOnTheirWay ==
  \A c \in clients \ missed :
    \/ told[c] = OnlineUsers
    \/ Owing # {}
    \/ \E d \in Conns : Listing(d, c)

Lists == ListsCurrent /\ ListsOnTheirWay

\* A section under Lock makes its handler owe everyone the list.
LEMMA LockedLists ==
  ASSUME Inv, NEW c \in Conns, Register(c) \/ Unregister(c)
  PROVE  Lists'
<1>1. pc' = [pc EXCEPT ![c] = "setGauge"] /\ Readers = {} /\ sending' = sending
  BY DEF Register, Unregister, Goto, Locked
<1>2. pc'[c] = "setGauge"
  BY <1>1 DEF Inv, TypeOK
<1>3. c \in Owing'
  BY <1>2 DEF Owing
<1>4. \A g \in Goroutines : sending'[g].targets = {}
  BY <1>1 DEF Readers
<1>. QED
  BY <1>3, <1>4 DEF Lists, ListsCurrent, ListsOnTheirWay, Listing

\* Handlers that owe the list still do, and the channels stay.
LEMMA OwingLists ==
  ASSUME Inv, Lists, UNCHANGED <<hub, sending, told, missed>>, Owing \subseteq Owing'
  PROVE  Lists'
BY DEF Lists, ListsCurrent, ListsOnTheirWay, Listing, OnlineUsers, hub

\* A goroutine that was not sending starts to send something else than the list.
LEMMA OtherSendLists ==
  ASSUME Inv, Lists, UNCHANGED <<hub, told, missed>>, NEW g \in Goroutines,
         sending[g].targets = {}, NEW m, m.kind # "online_users", NEW targets,
         StartSending(g, m, targets), Owing \subseteq Owing'
  PROVE  Lists'
<1>1. /\ sending'[g].message = m
      /\ \A f \in Goroutines : f # g => sending'[f] = sending[f]
  BY DEF StartSending, Inv, TypeOK
<1>2. \A f \in Goroutines, c \in Conns : Listing(f, c)' <=> Listing(f, c)
  BY <1>1 DEF Listing
<1>3. Conns \subseteq Goroutines /\ OnlineUsers' = OnlineUsers
  BY DEF Goroutines, OnlineUsers, hub
<1>4. \A f \in Goroutines, c \in Conns : Listing(f, c)' => sending'[f] = sending[f]
  BY <1>1 DEF Listing
<1>5. ListsCurrent'
  BY <1>2, <1>3, <1>4 DEF Lists, ListsCurrent
<1>6. ListsOnTheirWay'
  BY <1>2, <1>3 DEF Lists, ListsOnTheirWay, hub, Inv, TypeOK
<1>. QED
  BY <1>5, <1>6 DEF Lists

LEMMA BroadcastUsersLists ==
  ASSUME Inv, Lists, NEW c \in Conns, BroadcastOnlineUsers(c)
  PROVE  Lists'
<1>1. /\ sending'[c] = [message |-> UsersMessage(OnlineUsers), targets |-> clients]
      /\ \A f \in Goroutines : f # c => sending'[f] = sending[f]
      /\ OnlineUsers' = OnlineUsers /\ clients' = clients /\ clients \subseteq Conns
  BY DEF BroadcastOnlineUsers, StartSending, Inv, TypeOK, OnlineUsers, hub, Goroutines
<1>2. \A d \in clients : Listing(c, d)'
  BY <1>1 DEF Listing, UsersMessage
<1>3. ListsOnTheirWay'
  BY <1>1, <1>2 DEF ListsOnTheirWay
<1>4. ASSUME NEW f \in Goroutines, NEW d \in Conns, Listing(f, d)'
      PROVE  sending'[f].message.users = OnlineUsers'
  <2>1. CASE f = c
    BY <1>1, <2>1 DEF UsersMessage
  <2>2. CASE f # c
    <3>1. sending'[f] = sending[f] /\ Listing(f, d)
      BY <1>1, <1>4, <2>2 DEF Listing
    <3>. QED
      BY <1>1, <3>1 DEF Lists, ListsCurrent
  <2>. QED
    BY <2>1, <2>2
<1>. QED
  BY <1>3, <1>4 DEF Lists, ListsCurrent

LEMMA DeliverLists ==
  ASSUME Inv, Lists, NEW g \in Goroutines, NEW c \in Conns, Deliver(g, c)
  PROVE  Lists'
<1>. DEFINE m == sending[g].message
<1>1. /\ sending'[g].message = m /\ sending'[g].targets = sending[g].targets \ {c}
      /\ \A f \in Goroutines : f # g => sending'[f] = sending[f]
      /\ c \in sending[g].targets
  BY DEF Deliver, Inv, TypeOK
<1>2. /\ OnlineUsers' = OnlineUsers /\ clients' = clients /\ clients \subseteq Conns
      /\ Owing' = Owing /\ Conns \subseteq Goroutines
  BY DEF Deliver, Inv, TypeOK, OnlineUsers, hub, Goroutines, Owing
<1>3. \A f \in Goroutines, d \in Conns :
        /\ Listing(f, d)' => Listing(f, d) /\ sending'[f].message = sending[f].message
        /\ Listing(f, d) => Listing(f, d)' \/ (f = g /\ d = c)
  BY <1>1 DEF Listing
<1>4. ListsCurrent'
  BY <1>2, <1>3 DEF Lists, ListsCurrent
<1>5. \A d \in Conns \ {c} : /\ told'[d] = told[d]
                             /\ d \in missed' <=> d \in missed
  BY DEF Deliver, TrySend, Inv, TypeOK
<1>6. CASE m.kind # "online_users"
  <2>1. UNCHANGED <<told, missed>>
    BY <1>6 DEF Deliver, TrySend
  <2>2. \A d \in Conns : ~Listing(g, d)
    BY <1>6 DEF Listing
  <2>3. ListsOnTheirWay'
    BY <1>2, <1>3, <2>1, <2>2 DEF Lists, ListsOnTheirWay
  <2>. QED
    BY <1>4, <2>3 DEF Lists
<1>7. CASE m.kind = "online_users"
  <2>1. Listing(g, c) /\ m.users = OnlineUsers
    BY <1>1, <1>7 DEF Listing, Lists, ListsCurrent
  <2>2. told'[c] = OnlineUsers \/ c \in missed'
    <3>1. TrySend(c, m, TRUE) /\ told \in [Conns -> SUBSET Users]
      BY DEF Deliver, Inv, TypeOK
    <3>. HIDE DEF m
    <3>. QED
      BY <1>7, <2>1, <3>1 DEF TrySend
  <2>3. ASSUME NEW d \in clients' \ missed'
        PROVE  \/ told'[d] = OnlineUsers' \/ Owing' # {}
               \/ \E f \in Conns : Listing(f, d)'
    <3>1. CASE d = c
      BY <1>2, <2>2, <2>3, <3>1
    <3>2. CASE d # c
      BY <1>2, <1>3, <1>5, <2>3, <3>2 DEF Lists, ListsOnTheirWay
    <3>. QED
      BY <3>1, <3>2
  <2>. QED
    BY <1>4, <2>3 DEF Lists, ListsOnTheirWay
<1>. QED
  BY <1>6, <1>7

\* The other steps of a handler and its pump.
LEMMA HandlerLists ==
  ASSUME Inv, Lists, NEW c \in Conns,
         \/ Connect(c) \/ AnnounceWriter(c) \/ SetGauge(c) \/ Snapshot(c) \/ Greet(c)
         \/ ReadFails(c) \/ CloseChannel(c) \/ Return(c) \/ Pump(c) \/ WriteFails(c)
  PROVE  Lists'
<1>1. UNCHANGED <<hub, sending>>
  BY DEF Connect, AnnounceWriter, SetGauge, Snapshot, Greet, ReadFails, CloseChannel,
         Return, Pump, WriteMessage, PumpEnds, WriteFails, hub
<1>2. UNCHANGED <<told, missed>>
  <2>1. CASE Greet(c)
    BY <2>1 DEF Greet, TrySend
  <2>. QED
    BY <2>1 DEF Connect, AnnounceWriter, SetGauge, Snapshot, ReadFails, CloseChannel,
                Return, Pump, WriteMessage, PumpEnds, WriteFails, channel
<1>3. Owing \subseteq Owing'
  <2>1. pc \in [Conns -> Labels]
    BY DEF Inv, TypeOK
  <2>2. CASE pc' = pc
    BY <2>2 DEF Owing
  <2>3. CASE SetGauge(c)
    BY <2>1, <2>3 DEF SetGauge, Goto, Owing
  <2>4. CASE /\ pc[c] \notin {"setGauge", "broadcastCount", "broadcastUsers"}
             /\ \E l : Goto(c, l)
    BY <2>1, <2>4 DEF Goto, Owing
  <2>. QED
    BY <2>2, <2>3, <2>4 DEF Connect, AnnounceWriter, Snapshot, Greet, ReadFails,
       CloseChannel, Return, Pump, WriteMessage, PumpEnds, WriteFails, At
<1>. QED
  BY <1>1, <1>2, <1>3, OwingLists

LEMMA BroadcastCountLists ==
  ASSUME Inv, Lists, NEW c \in Conns, BroadcastOnlineCount(c)
  PROVE  Lists'
<1>. DEFINE m == CountMessage(Cardinality(OnlineUsers))
            targets == {d \in clients : User[d] \in Admins}
<1>1. /\ c \in Goroutines /\ sending[c].targets = {} /\ m.kind # "online_users"
      /\ StartSending(c, m, targets) /\ UNCHANGED <<hub, told, missed>>
  BY DEF BroadcastOnlineCount, At, Goroutines, CountMessage, channel
<1>2. Owing \subseteq Owing'
  BY DEF BroadcastOnlineCount, At, Goto, Owing, Inv, TypeOK
<1>. HIDE DEF m, targets
<1>. QED
  BY <1>1, <1>2, OtherSendLists

LEMMA EventLists ==
  ASSUME Inv, Lists, NEW s \in Senders, NEW targets, SendEvent(s, targets)
  PROVE  Lists'
<1>1. /\ s \in Goroutines /\ sending[s].targets = {} /\ Event.kind # "online_users"
      /\ StartSending(s, Event, targets) /\ UNCHANGED <<hub, told, missed>>
  BY DEF SendEvent, Readers, Goroutines, Event, channel
<1>2. Owing \subseteq Owing'
  BY DEF SendEvent, Owing
<1>. QED
  BY <1>1, <1>2, OtherSendLists

LEMMA NextLists ==
  ASSUME Inv, Lists, [Next]_vars
  PROVE  Lists'
<1>1. ASSUME NEW c \in Conns,
             Connect(c) \/ Handle(c) \/ ReadFails(c) \/ Pump(c) \/ WriteFails(c)
      PROVE  Lists'
  BY <1>1, HandlerLists, LockedLists, BroadcastCountLists, BroadcastUsersLists DEF Handle
<1>2. ASSUME NEW g \in Goroutines, Loop(g) PROVE Lists'
  BY <1>2, DeliverLists DEF Loop
<1>3. ASSUME NEW s \in Senders, Broadcast(s) \/ \E u \in Users : SendToUser(s, u)
      PROVE  Lists'
  BY <1>3, EventLists DEF Broadcast, SendToUser
<1>4. CASE UNCHANGED vars
  BY <1>4, OwingLists DEF vars, channel, Owing
<1>. QED
  BY <1>1, <1>2, <1>3, <1>4 DEF Next

\* However the broadcasts of handlers overtake each other: when none is under
\* way, the last list in the channel of every client names the users who are
\* online, unless there was no room for it (broadcastOnlineUsers takes the list
\* and the clients under one RLock).
THEOREM ListsConverge == Spec => []BroadcastsConverge
<1>1. Init => Lists
  BY DEF Init, Lists, ListsCurrent, ListsOnTheirWay, Listing, NotSending
<1>2. Inv /\ Lists /\ [Next]_vars => Lists'
  BY NextLists
<1>3. Inv /\ Lists => BroadcastsConverge
  BY DEF Inv, TypeOK, Lists, ListsOnTheirWay, BroadcastsConverge, NothingToAnnounce,
         Owing, Listing
<1>. QED
  BY <1>1, <1>2, <1>3, InvHolds, PTL DEF Spec

-----------------------------------------------------------------------------
(* The hub implements Presence *)

\* A handler is registered from its greeting to its unregister, and not before
\* its register.
Membership ==
  \A c \in Conns :
    /\ pc[c] \in {"new", "register"} => c \notin clients
    /\ pc[c] \in {"snapshotUsers", "greetUsers", "snapshotCount", "greetCount",
                  "read", "unregister"} => c \in clients

\* Only a handler moves itself, and only register and unregister change clients.
LEMMA MembershipStep ==
  ASSUME Inv, Membership, [Next]_vars
  PROVE  Membership'
<1>1. pc \in [Conns -> Labels]
  BY DEF Inv, TypeOK
<1>2. ASSUME NEW c \in Conns,
             \/ Connect(c) \/ AnnounceWriter(c) \/ SetGauge(c) \/ BroadcastOnlineCount(c)
             \/ Snapshot(c) \/ Greet(c) \/ ReadFails(c) \/ CloseChannel(c) \/ Return(c)
             \/ Pump(c) \/ WriteFails(c)
      PROVE  Membership'
  BY <1>1, <1>2 DEF Membership, Connect, AnnounceWriter, SetGauge, BroadcastOnlineCount,
     Snapshot, Greet, ReadFails, CloseChannel, Return, Pump, WriteMessage, PumpEnds,
     WriteFails, At, Goto, hub
<1>3. ASSUME NEW c \in Conns, BroadcastOnlineUsers(c)
      PROVE  Membership'
  BY <1>1, <1>3 DEF Membership, BroadcastOnlineUsers, AfterBroadcast, At, Goto, hub
<1>4. ASSUME NEW c \in Conns, Register(c) \/ Unregister(c)
      PROVE  Membership'
  BY <1>1, <1>4 DEF Membership, Register, Unregister, Goto
<1>5. ASSUME NEW g \in Goroutines, Loop(g)
      PROVE  Membership'
  BY <1>5 DEF Membership, Loop, Deliver, hub
<1>6. ASSUME NEW s \in Senders, Broadcast(s) \/ \E u \in Users : SendToUser(s, u)
      PROVE  Membership'
  BY <1>6 DEF Membership, Broadcast, SendToUser, SendEvent, hub
<1>7. CASE UNCHANGED vars
  BY <1>7 DEF Membership, vars, hub
<1>. QED
  BY <1>2, <1>3, <1>4, <1>5, <1>6, <1>7 DEF Next, Handle

\* Joining and leaving.
LEMMA LockedSteps ==
  ASSUME Membership, NEW c \in Conns, Register(c) \/ Unregister(c)
  PROVE  Announced!Next
<1>1. UNCHANGED told
  BY DEF Register, Unregister, channel
<1>2. CASE Register(c)
  <2>1. c \notin clients /\ clients' = clients \cup {c}
    BY <1>2 DEF Membership, Register
  <2>. QED
    BY <1>1, <2>1 DEF Announced!Next, Announced!Join
<1>3. CASE Unregister(c)
  <2>1. c \in clients /\ clients' = clients \ {c}
    BY <1>3 DEF Membership, Unregister
  <2>. QED
    BY <1>1, <2>1 DEF Announced!Next, Announced!Leave
<1>. QED
  BY <1>2, <1>3

\* A list goes into the channel of a client, and is the right one.
LEMMA DeliverTells ==
  ASSUME Inv, Lists, IndexFollowsClients, NEW g \in Goroutines, NEW c \in Conns,
         Deliver(g, c)
  PROVE  Announced!Tell(c) \/ UNCHANGED <<clients, told>>
<1>. DEFINE m == sending[g].message
<1>1. UNCHANGED clients /\ c \in clients
  BY DEF Deliver, hub, Inv, TargetsAreClients
<1>2. CASE m.kind = "online_users" /\ Len(buffer[c]) < BufferSize
  <2>1. told' = [told EXCEPT ![c] = m.users]
    BY <1>2 DEF Deliver, TrySend
  <2>2. Listing(g, c)
    BY <1>2 DEF Listing, Deliver
  <2>3. m.users = OnlineUsers
    BY <2>2 DEF Lists, ListsCurrent
  <2>4. OnlineUsers = {User[d] : d \in clients}
    BY IndexIs
  <2>. QED
    BY <1>1, <2>1, <2>3, <2>4 DEF Announced!Tell, Announced!Online
<1>3. CASE ~(m.kind = "online_users" /\ Len(buffer[c]) < BufferSize)
  BY <1>1, <1>3 DEF Deliver, TrySend
<1>. QED
  BY <1>2, <1>3

\* The other steps change neither the clients nor what they were last told.
LEMMA QuietInPresence ==
  ASSUME [Next]_vars, \A c \in Conns : ~Register(c) /\ ~Unregister(c),
         \A g \in Goroutines, c \in Conns : ~Deliver(g, c)
  PROVE  UNCHANGED <<clients, told>>
<1>1. ASSUME NEW c \in Conns, Greet(c)
      PROVE  UNCHANGED <<clients, told>>
  BY <1>1 DEF Greet, TrySend, hub
<1>. QED
  BY <1>1 DEF Next, Handle, Pump, Loop, Connect, AnnounceWriter, SetGauge,
     BroadcastOnlineCount, BroadcastOnlineUsers, Snapshot, CloseChannel, Return, ReadFails,
     WriteMessage, PumpEnds, WriteFails, Broadcast, SendToUser, SendEvent, vars, hub, channel

\* Seen from outside, connections come and go in single steps, and every list
\* broadcast to one of them is right when it goes into its channel, however
\* long the loops of sends are and whoever waits for them (register,
\* unregister, broadcastOnlineUsers).
THEOREM AnnouncesPresence == Spec => ImplementsPresence
<1>1. Init => Lists /\ IndexFollowsClients /\ Membership /\ Announced!Init
  BY DEF Init, Lists, ListsCurrent, ListsOnTheirWay, Listing, NotSending,
         IndexFollowsClients, Membership, Announced!Init
<1>2. Inv /\ Lists /\ [Next]_vars => Lists'
  BY NextLists
<1>3. Inv /\ Membership /\ [Next]_vars => Membership'
  BY MembershipStep
<1>4. Inv /\ Lists /\ IndexFollowsClients /\ Membership /\ [Next]_vars
        => [Announced!Next]_<<clients, told>>
  <2>. SUFFICES ASSUME Inv, Lists, IndexFollowsClients, Membership, [Next]_vars
                PROVE  [Announced!Next]_<<clients, told>>
    OBVIOUS
  <2>1. CASE \E c \in Conns : Register(c) \/ Unregister(c)
    BY <2>1, LockedSteps
  <2>2. CASE \E g \in Goroutines, c \in Conns : Deliver(g, c)
    BY <2>2, DeliverTells DEF Announced!Next
  <2>3. CASE /\ \A c \in Conns : ~Register(c) /\ ~Unregister(c)
             /\ \A g \in Goroutines, c \in Conns : ~Deliver(g, c)
    BY <2>3, QuietInPresence
  <2>. QED
    BY <2>1, <2>2, <2>3
<1>5. Spec => []IndexFollowsClients
  BY IndexIsRight
<1>. QED
  BY <1>1, <1>2, <1>3, <1>4, <1>5, InvHolds, PTL
  DEF Spec, ImplementsPresence, Announced!Spec, Announced!vars

-----------------------------------------------------------------------------
(* Waiting *)

\* A handler runs a loop of sends only where it has just begun a broadcast.
LoopsInPlace ==
  \A c \in Conns : sending[c].targets # {} =>
    pc[c] \in {"broadcastUsers", "snapshotUsers", "close"}

\* The handler has not finished its greeting.
Greeting(c) ==
  \/ pc[c] \in {"new", "register", "snapshotUsers", "greetUsers", "snapshotCount",
                "greetCount"}
  \/ pc[c] \in {"setGauge", "broadcastCount", "broadcastUsers"} /\ c \in clients

\* The pump starts at the end of the greeting; the channel is closed when the
\* handler waits for the pump.
PumpsInPlace ==
  \A c \in Conns :
    /\ pump[c] = "waiting" <=> Greeting(c)
    /\ pc[c] = "awaitPump" => c \in closed

Waits ==
  /\ LoopsInPlace /\ PumpsInPlace
  /\ writer # Nobody => pc[writer] \in {"register", "unregister"}

LEMMA WaitsEndWell ==
  ASSUME Inv, Waits
  PROVE  WaitsEnd
<1>1. ASSUME writer # Nobody
      PROVE  writer \notin Readers
  <2>1. writer \in Conns /\ pc[writer] \in {"register", "unregister"}
    BY <1>1 DEF Inv, TypeOK, Waits
  <2>2. sending[writer].targets = {}
    BY <2>1 DEF Waits, LoopsInPlace
  <2>. QED
    BY <2>2 DEF Readers
<1>. QED
  BY <1>1 DEF WaitsEnd, Waits, PumpsInPlace, Greeting

\* Steps of a handler outside the lock and the broadcasts.
LEMMA HandlerWaits ==
  ASSUME Inv, Membership, Waits, NEW c \in Conns,
         \/ Connect(c) \/ AnnounceWriter(c) \/ SetGauge(c) \/ Snapshot(c) \/ Greet(c)
         \/ ReadFails(c) \/ CloseChannel(c) \/ Return(c)
  PROVE  Waits'
<1>. USE DEF Waits, LoopsInPlace, PumpsInPlace, Greeting, hub, At, Goto
<1>0. /\ pc \in [Conns -> Labels] /\ pump \in [Conns -> {"waiting", "running", "ended"}]
      /\ writer \in Conns \cup {Nobody}
  BY DEF Inv, TypeOK
<1>1. CASE Connect(c) \/ SetGauge(c) \/ Snapshot(c)
  BY <1>0, <1>1 DEF Connect, SetGauge, Snapshot
<1>2. CASE AnnounceWriter(c)
  BY <1>0, <1>2 DEF AnnounceWriter
<1>3. CASE Greet(c)
  BY <1>0, <1>3 DEF Greet
<1>4. CASE ReadFails(c) \/ CloseChannel(c) \/ Return(c)
  BY <1>0, <1>4 DEF ReadFails, CloseChannel, Return
<1>. QED
  BY <1>1, <1>2, <1>3, <1>4

\* Register and unregister leave the lock to others.
LEMMA LockedWaits ==
  ASSUME Inv, Membership, Waits, NEW c \in Conns, Register(c) \/ Unregister(c)
  PROVE  Waits'
<1>1. /\ pc \in [Conns -> Labels] /\ pc' = [pc EXCEPT ![c] = "setGauge"]
      /\ writer' = Nobody /\ UNCHANGED <<sending, closed, pump>>
  BY DEF Inv, TypeOK, Register, Unregister, Locked, Goto
<1>2. \A g \in Goroutines : sending'[g].targets = {}
  BY <1>1 DEF Register, Unregister, Locked, Readers
<1>3. LoopsInPlace'
  BY <1>2 DEF LoopsInPlace, Goroutines
<1>4. pump[c] = "waiting" <=> c \in clients'
  BY DEF Register, Unregister, Waits, PumpsInPlace, Greeting
<1>5. \A d \in Conns \ {c} : d \in clients <=> d \in clients'
  BY DEF Register, Unregister
<1>6. PumpsInPlace'
  BY <1>1, <1>4, <1>5 DEF Waits, PumpsInPlace, Greeting
<1>. QED
  BY <1>1, <1>3, <1>6 DEF Waits

\* A broadcast begins with the lock free, and the handler is at the label after.
LEMMA BroadcastWaits ==
  ASSUME Inv, Membership, Waits, NEW c \in Conns,
         BroadcastOnlineCount(c) \/ BroadcastOnlineUsers(c)
  PROVE  Waits'
<1>0. pc \in [Conns -> Labels] /\ sending \in [Goroutines ->
        [message: Messages, targets: SUBSET Conns]] /\ Conns \subseteq Goroutines
  BY DEF Inv, TypeOK, Goroutines
<1>1. \A d \in Conns \ {c} : sending'[d] = sending[d] /\ pc'[d] = pc[d]
  BY <1>0 DEF BroadcastOnlineCount, BroadcastOnlineUsers, StartSending, Goto
<1>2. /\ pc'[c] \in {"broadcastUsers", "snapshotUsers", "close"}
      /\ pc[c] \in {"broadcastCount", "broadcastUsers"}
      /\ pc'[c] = "snapshotUsers" => c \in clients
      /\ pc'[c] = "close" => c \notin clients
  BY <1>0 DEF BroadcastOnlineCount, BroadcastOnlineUsers, AfterBroadcast, At, Goto
<1>3. UNCHANGED <<clients, closed, pump>> /\ writer' = Nobody
  BY DEF BroadcastOnlineCount, BroadcastOnlineUsers, StartSending, hub
<1>4. LoopsInPlace'
  BY <1>1, <1>2 DEF Waits, LoopsInPlace
<1>5. PumpsInPlace'
  BY <1>1, <1>2, <1>3 DEF Waits, PumpsInPlace, Greeting
<1>. QED
  BY <1>3, <1>4, <1>5 DEF Waits

\* Loops, senders and pumps move no handler.
LEMMA AsideWaits ==
  ASSUME Waits, UNCHANGED <<clients, writer, pc, closed>>,
         \A c \in Conns : /\ sending'[c].targets # {} => sending[c].targets # {}
                          /\ pump'[c] = "waiting" <=> pump[c] = "waiting"
  PROVE  Waits'
BY DEF Waits, LoopsInPlace, PumpsInPlace, Greeting

LEMMA NextWaits ==
  ASSUME Inv, Membership, Waits, [Next]_vars
  PROVE  Waits'
<1>0. /\ sending \in [Goroutines -> [message: Messages, targets: SUBSET Conns]]
      /\ pump \in [Conns -> {"waiting", "running", "ended"}]
      /\ Conns \subseteq Goroutines /\ Conns \cap Senders = {}
      /\ \A s \in Senders : s \in Goroutines
  BY HubAssumption DEF Inv, TypeOK, Goroutines
<1>1. ASSUME NEW c \in Conns, Connect(c) \/ Handle(c) \/ ReadFails(c)
      PROVE  Waits'
  BY <1>1, HandlerWaits, LockedWaits, BroadcastWaits DEF Handle
<1>2. ASSUME NEW c \in Conns, Pump(c) \/ WriteFails(c)
      PROVE  Waits'
  <2>1. /\ UNCHANGED <<clients, writer, pc, closed, sending>>
        /\ \A d \in Conns : pump'[d] = "waiting" <=> pump[d] = "waiting"
    BY <1>0, <1>2 DEF Pump, WriteMessage, PumpEnds, WriteFails, hub
  <2>. QED
    BY <2>1, AsideWaits
<1>3. ASSUME NEW g \in Goroutines, Loop(g)
      PROVE  Waits'
  <2>1. PICK c \in Conns : Deliver(g, c)
    BY <1>3 DEF Loop
  <2>2. UNCHANGED <<clients, writer, pc, closed, pump>>
    BY <2>1 DEF Deliver, hub
  <2>3. \A d \in Conns : sending'[d].targets # {} => sending[d].targets # {}
    BY <1>0, <2>1 DEF Deliver
  <2>. QED
    BY <2>2, <2>3, AsideWaits
<1>4. ASSUME NEW s \in Senders, NEW targets, SendEvent(s, targets)
      PROVE  Waits'
  <2>1. UNCHANGED <<clients, writer, pc, closed, pump>>
    BY <1>4 DEF SendEvent, hub
  <2>2. \A d \in Conns : sending'[d] = sending[d]
    BY <1>0, <1>4 DEF SendEvent, StartSending
  <2>. QED
    BY <2>1, <2>2, AsideWaits
<1>5. ASSUME NEW s \in Senders, Broadcast(s) \/ \E u \in Users : SendToUser(s, u)
      PROVE  Waits'
  BY <1>4, <1>5 DEF Broadcast, SendToUser
<1>6. CASE UNCHANGED vars
  BY <1>6, AsideWaits DEF vars, hub
<1>. QED
  BY <1>1, <1>2, <1>3, <1>5, <1>6 DEF Next

LEMMA AlwaysMembership == Spec => []Membership
<1>1. Init => Membership
  BY DEF Init, Membership
<1>2. Inv /\ Membership /\ [Next]_vars => Membership'
  BY MembershipStep
<1>. QED
  BY <1>1, <1>2, InvHolds, PTL DEF Spec

\* Nobody waits for someone who waits for them, however many connections and
\* senders there are: a handler lets go of the lock before it broadcasts, and
\* waits only for a pump that has started and whose channel it has closed.
THEOREM WaitsHaveAnEnd == Spec => []WaitsEnd
<1>1. Init => Waits
  BY DEF Init, Waits, LoopsInPlace, PumpsInPlace, Greeting, NotSending, Goroutines
<1>2. Inv /\ Membership /\ Waits /\ [Next]_vars => Waits'
  BY NextWaits
<1>3. Inv /\ Waits => WaitsEnd
  BY WaitsEndWell
<1>. QED
  BY <1>1, <1>2, <1>3, InvHolds, AlwaysMembership, PTL DEF Spec

-----------------------------------------------------------------------------
(* What a client is told last.  The greeting is the one list that is sent   *)
(* with the lock released, so it is the one that can be out of date.        *)

\* Nobody comes online or goes offline between the snapshot of a greeting and
\* its send.
GreetingsCurrent ==
  \A c \in Conns : pc[c] = "greetUsers" => online[c] = OnlineUsers

IsList(m) == m.kind = "online_users"

\* A client that shows the users shown, and has yet to read sent, will show
\* users when it has read everything.
LastList(sent, shown, users) ==
  \/ \E i \in 1..Len(sent) :
       /\ sent[i] = UsersMessage(users)
       /\ \A k \in (i + 1)..Len(sent) : ~IsList(sent[k])
  \/ /\ \A k \in 1..Len(sent) : ~IsList(sent[k])
     /\ shown = users

WillShow(c, users) == LastList(buffer[c], view[c].users, users)

LEMMA LastListCases ==
  ASSUME NEW s, NEW shown, NEW users
  PROVE  LastList(s, shown, users) <=>
           \/ \E i \in 1..Len(s) :
                s[i] = UsersMessage(users) /\ \A k \in (i + 1)..Len(s) : ~IsList(s[k])
           \/ (\A k \in 1..Len(s) : ~IsList(s[k])) /\ shown = users
BY DEF LastList

LEMMA AppendedList ==
  ASSUME NEW s \in Seq(Messages), NEW shown, NEW users
  PROVE  LastList(Append(s, UsersMessage(users)), shown, users)
<1>. DEFINE t == Append(s, UsersMessage(users))
<1>1. Len(t) = Len(s) + 1 /\ t[Len(t)] = UsersMessage(users) /\ Len(s) \in Nat
  OBVIOUS
<1>. HIDE DEF t
<1>2. Len(t) \in 1..Len(t) /\ (Len(t) + 1)..Len(t) = {}
  BY <1>1
<1>3. LastList(t, shown, users)
  BY <1>1, <1>2 DEF LastList
<1>. QED
  BY <1>3 DEF t

LEMMA AppendedOther ==
  ASSUME NEW s \in Seq(Messages), NEW shown, NEW users, NEW m \in Messages, ~IsList(m),
         LastList(s, shown, users)
  PROVE  LastList(Append(s, m), shown, users)
<1>. DEFINE t == Append(s, m)
<1>1. /\ Len(t) = Len(s) + 1 /\ t[Len(t)] = m /\ Len(s) \in Nat
      /\ \A k \in 1..Len(s) : t[k] = s[k]
  OBVIOUS
<1>. SUFFICES LastList(t, shown, users)
  OBVIOUS
<1>. HIDE DEF t
<1>2. \A k \in 1..Len(t) : k \in 1..Len(s) \/ k = Len(t)
  BY <1>1
<1>3. ASSUME NEW i \in 1..Len(s), s[i] = UsersMessage(users),
             \A k \in (i + 1)..Len(s) : ~IsList(s[k])
      PROVE  LastList(t, shown, users)
  <2>1. i \in 1..Len(t) /\ t[i] = UsersMessage(users)
    BY <1>1, <1>3
  <2>2. ASSUME NEW k \in (i + 1)..Len(t)
        PROVE  ~IsList(t[k])
    <3>1. k \in (i + 1)..Len(s) \/ k = Len(t)
      BY <1>1
    <3>2. \A n \in (i + 1)..Len(s) : t[n] = s[n]
      BY <1>1
    <3>. QED
      BY <1>1, <1>3, <3>1, <3>2
  <2>. QED
    BY <2>1, <2>2, LastListCases
<1>4. CASE (\A k \in 1..Len(s) : ~IsList(s[k])) /\ shown = users
  <2>1. \A k \in 1..Len(t) : ~IsList(t[k])
    BY <1>1, <1>2, <1>4
  <2>. QED
    BY <1>4, <2>1, LastListCases
<1>. QED
  BY <1>3, <1>4, LastListCases

\* The pump writes the head of the channel to the client.
LEMMA WrittenHead ==
  ASSUME NEW s \in Seq(Messages), s # <<>>, NEW users,
         NEW seen \in [users: SUBSET Users, count: 0..Cardinality(Users)],
         LastList(s, seen.users, users)
  PROVE  LastList(Tail(s), Told(seen, Head(s)).users, users)
<1>. DEFINE t == Tail(s)
            shown == Told(seen, Head(s)).users
<1>1. /\ Len(s) \in Nat \ {0} /\ Len(t) = Len(s) - 1 /\ Head(s) = s[1]
      /\ \A k \in 1..Len(t) : t[k] = s[k + 1] /\ k + 1 \in 1..Len(s)
      /\ Head(s) \in Messages
  OBVIOUS
<1>2. /\ IsList(Head(s)) => shown = Head(s).users
      /\ ~IsList(Head(s)) => shown = seen.users
  BY <1>1 DEF Told, IsList, Messages
<1>. SUFFICES LastList(t, shown, users)
  OBVIOUS
<1>. HIDE DEF t, shown
<1>3. ASSUME NEW i \in 1..Len(s), s[i] = UsersMessage(users),
             \A k \in (i + 1)..Len(s) : ~IsList(s[k])
      PROVE  LastList(t, shown, users)
  <2>1. CASE i = 1
    <3>1. \A k \in 1..Len(t) : k + 1 \in (i + 1)..Len(s)
      BY <1>1, <2>1
    <3>2. \A k \in 1..Len(t) : ~IsList(t[k])
      BY <1>1, <1>3, <3>1
    <3>3. shown = users
      BY <1>1, <1>2, <1>3, <2>1 DEF IsList, UsersMessage
    <3>. QED
      BY <3>2, <3>3, LastListCases
  <2>2. CASE i # 1
    <3>. DEFINE j == i - 1
    <3>1. j \in 1..Len(t) /\ t[j] = UsersMessage(users)
      <4>1. j \in 1..Len(t) /\ j + 1 = i
        BY <1>1, <2>2
      <4>. QED
        BY <1>1, <1>3, <4>1
    <3>2. \A k \in (j + 1)..Len(t) : k \in 1..Len(t) /\ k + 1 \in (i + 1)..Len(s)
      BY <1>1, <2>2
    <3>3. \A k \in (j + 1)..Len(t) : ~IsList(t[k])
      BY <1>1, <1>3, <3>2
    <3>. HIDE DEF j
    <3>. QED
      BY <3>1, <3>3, LastListCases
  <2>. QED
    BY <2>1, <2>2
<1>4. CASE (\A k \in 1..Len(s) : ~IsList(s[k])) /\ seen.users = users
  <2>1. \A k \in 1..Len(t) : ~IsList(t[k])
    BY <1>1, <1>4
  <2>2. shown = users
    <3>1. 1 \in 1..Len(s)
      BY <1>1
    <3>. QED
      BY <1>1, <1>2, <1>4, <3>1
  <2>. QED
    BY <2>1, <2>2, LastListCases
<1>. QED
  BY <1>3, <1>4, LastListCases

\* A client will show who is online, or a list that says so is on its way.
ClientsCatchUp ==
  \A c \in clients \ missed :
    \/ pump[c] = "ended"
    \/ WillShow(c, OnlineUsers)
    \/ Owing # {}
    \/ \E d \in Conns : Listing(d, c)

\* A non-blocking send keeps what a client will show, or makes it the list sent.
LEMMA SendShows ==
  ASSUME Inv, NEW c \in Conns, NEW m \in Messages, NEW b \in BOOLEAN, TrySend(c, m, b),
         view' = view
  PROVE  /\ \A d \in Conns \ {c} : buffer'[d] = buffer[d] /\ (d \in missed' <=> d \in missed)
         /\ ~b => missed' = missed
         /\ ~IsList(m) => /\ missed' = missed
                          /\ \A users : WillShow(c, users) => WillShow(c, users)'
         /\ IsList(m) /\ b => c \in missed' \/ WillShow(c, m.users)'
         /\ \A users : m = UsersMessage(users) /\ WillShow(c, users)
                         => WillShow(c, users)'
<1>0. buffer \in [Conns -> Seq(Messages)] /\ missed \subseteq Conns
  BY DEF Inv, TypeOK
<1>1. CASE Len(buffer[c]) < BufferSize
  <2>1. buffer' = [buffer EXCEPT ![c] = Append(@, m)]
    BY <1>1 DEF TrySend
  <2>2. buffer'[c] = Append(buffer[c], m) /\ \A d \in Conns \ {c} : buffer'[d] = buffer[d]
    BY <1>0, <2>1
  <2>3. missed' = IF b /\ IsList(m) THEN missed \ {c} ELSE missed
    BY <1>1 DEF TrySend, IsList
  <2>4. ASSUME NEW users, m = UsersMessage(users)
        PROVE  WillShow(c, users)'
    BY <1>0, <2>2, <2>4, AppendedList DEF WillShow
  <2>5. ASSUME ~IsList(m), NEW users, WillShow(c, users)
        PROVE  WillShow(c, users)'
    BY <1>0, <2>2, <2>5, AppendedOther DEF WillShow
  <2>6. IsList(m) => m = UsersMessage(m.users)
    BY DEF IsList, Messages, UsersMessage, CountMessage, Event
  <2>. QED
    BY <2>2, <2>3, <2>4, <2>5, <2>6
<1>2. CASE ~(Len(buffer[c]) < BufferSize)
  <2>1. /\ buffer' = buffer
        /\ missed' = IF b /\ IsList(m) THEN missed \cup {c} ELSE missed
    BY <1>2 DEF TrySend, IsList
  <2>2. \A users : WillShow(c, users)' <=> WillShow(c, users)
    BY <2>1 DEF WillShow
  <2>. QED
    BY <2>1, <2>2
<1>. QED
  BY <1>1, <1>2

\* Steps after which as many owe the list, and channels and views are the same.
LEMMA StillCatchUp ==
  ASSUME ClientsCatchUp, UNCHANGED <<hub, sending, buffer, view, missed>>,
         Owing \subseteq Owing', \A c \in Conns : pump[c] = "ended" => pump'[c] = "ended",
         clients \subseteq Conns
  PROVE  ClientsCatchUp'
BY DEF ClientsCatchUp, WillShow, Listing, OnlineUsers, hub

\* A step that begins no list and ends none.
LEMMA ListingsStay ==
  ASSUME ClientsCatchUp, UNCHANGED <<hub, buffer, view, missed, pump>>,
         Owing \subseteq Owing', clients \subseteq Conns,
         \A d, c \in Conns : Listing(d, c) => Listing(d, c)'
  PROVE  ClientsCatchUp'
BY DEF ClientsCatchUp, WillShow, OnlineUsers, hub

\* The steps of handlers and pumps that touch no channel.
LEMMA HandlerCatchesUp ==
  ASSUME Inv, ClientsCatchUp, NEW c \in Conns,
         \/ Connect(c) \/ AnnounceWriter(c) \/ SetGauge(c) \/ Snapshot(c)
         \/ ReadFails(c) \/ CloseChannel(c) \/ Return(c) \/ PumpEnds(c) \/ WriteFails(c)
  PROVE  ClientsCatchUp'
<1>0. /\ pc \in [Conns -> Labels] /\ clients \subseteq Conns
      /\ pump \in [Conns -> {"waiting", "running", "ended"}]
  BY DEF Inv, TypeOK
<1>1. UNCHANGED <<hub, sending, buffer, view, missed>>
  BY DEF Connect, AnnounceWriter, SetGauge, Snapshot, ReadFails, CloseChannel, Return,
         PumpEnds, WriteFails, hub, channel
<1>2. \A d \in Conns : pump[d] = "ended" => pump'[d] = "ended"
  BY <1>0 DEF Connect, AnnounceWriter, SetGauge, Snapshot, ReadFails, CloseChannel, Return,
         PumpEnds, WriteFails
<1>3. Owing \subseteq Owing'
  <2>1. CASE pc' = pc
    BY <2>1 DEF Owing
  <2>2. CASE SetGauge(c)
    BY <1>0, <2>2 DEF SetGauge, Goto, Owing
  <2>3. CASE /\ pc[c] \notin {"setGauge", "broadcastCount", "broadcastUsers"}
             /\ \E l : Goto(c, l)
    BY <1>0, <2>3 DEF Goto, Owing
  <2>. QED
    BY <2>1, <2>2, <2>3 DEF Connect, AnnounceWriter, Snapshot, ReadFails, CloseChannel,
       Return, PumpEnds, WriteFails, At
<1>. QED
  BY <1>0, <1>1, <1>2, <1>3, StillCatchUp

LEMMA BroadcastCatchesUp ==
  ASSUME Inv, ClientsCatchUp, NEW c \in Conns,
         BroadcastOnlineCount(c) \/ BroadcastOnlineUsers(c)
  PROVE  ClientsCatchUp'
<1>0. /\ c \in Goroutines /\ clients \subseteq Conns
      /\ sending \in [Goroutines -> [message: Messages, targets: SUBSET Conns]]
      /\ pc \in [Conns -> Labels] /\ Conns \subseteq Goroutines
  BY DEF Goroutines, Inv, TypeOK
<1>1. CASE BroadcastOnlineUsers(c)
  <2>1. \A d \in clients' : Listing(c, d)'
    BY <1>0, <1>1 DEF BroadcastOnlineUsers, StartSending, Listing, UsersMessage, hub
  <2>. QED
    BY <2>1 DEF ClientsCatchUp
<1>2. CASE BroadcastOnlineCount(c)
  <2>1. /\ UNCHANGED <<hub, buffer, view, missed, pump>>
        /\ \A f \in Conns \ {c} : sending'[f] = sending[f]
        /\ sending[c].targets = {}
    BY <1>0, <1>2 DEF BroadcastOnlineCount, StartSending, At, channel, hub
  <2>2. \A f, d \in Conns : Listing(f, d) => Listing(f, d)'
    BY <2>1 DEF Listing
  <2>3. Owing \subseteq Owing'
    BY <1>0, <1>2 DEF BroadcastOnlineCount, At, Goto, Owing
  <2>. QED
    BY <1>0, <2>1, <2>2, <2>3, ListingsStay
<1>. QED
  BY <1>1, <1>2

LEMMA EventCatchesUp ==
  ASSUME Inv, ClientsCatchUp, NEW s \in Senders, NEW targets, SendEvent(s, targets)
  PROVE  ClientsCatchUp'
<1>1. /\ UNCHANGED <<hub, buffer, view, missed, pump, pc>> /\ clients \subseteq Conns
      /\ \A d \in Conns : sending'[d] = sending[d]
  BY HubAssumption
  DEF SendEvent, StartSending, channel, hub, Inv, TypeOK, Goroutines
<1>2. /\ \A f, d \in Conns : Listing(f, d) => Listing(f, d)'
      /\ Owing \subseteq Owing'
  BY <1>1 DEF Listing, Owing
<1>. QED
  BY <1>1, <1>2, ListingsStay

LEMMA DeliverCatchesUp ==
  ASSUME Inv, Lists, ClientsCatchUp, NEW g \in Goroutines, NEW c \in Conns, Deliver(g, c)
  PROVE  ClientsCatchUp'
<1>1. PICK m \in Messages : m = sending[g].message
  BY DEF Inv, TypeOK
<1>2. /\ TrySend(c, m, TRUE) /\ UNCHANGED <<hub, pc, pump, view>> /\ clients \subseteq Conns
      /\ OnlineUsers' = OnlineUsers /\ Owing' = Owing /\ Conns \subseteq Goroutines
  BY <1>1 DEF Deliver, hub, OnlineUsers, Owing, Inv, TypeOK, Goroutines
<1>3. \A f \in Goroutines, d \in Conns :
        Listing(f, d) => Listing(f, d)' \/ (f = g /\ d = c)
  BY DEF Deliver, Listing, Inv, TypeOK
<1>4. \A d \in Conns \ {c} :
        /\ d \in missed' <=> d \in missed
        /\ WillShow(d, OnlineUsers) => WillShow(d, OnlineUsers)'
  <2>1. \A d \in Conns \ {c} : buffer'[d] = buffer[d] /\ (d \in missed' <=> d \in missed)
    BY <1>2, SendShows
  <2>. QED
    BY <1>2, <2>1 DEF WillShow
<1>5. CASE IsList(m)
  <2>1. m.users = OnlineUsers
    BY <1>1, <1>5 DEF IsList, Lists, ListsCurrent, Listing, Deliver
  <2>2. c \in missed' \/ WillShow(c, OnlineUsers)'
    <3>1. PICK users : users = m.users
      OBVIOUS
    <3>2. c \in missed' \/ WillShow(c, users)'
      BY <1>2, <1>5, <3>1, SendShows
    <3>. QED
      BY <1>2, <2>1, <3>1, <3>2 DEF WillShow
  <2>. QED
    BY <1>2, <1>3, <1>4, <2>2 DEF ClientsCatchUp, hub
<1>6. CASE ~IsList(m)
  <2>1. ~Listing(g, c)
    BY <1>1, <1>6 DEF Listing, IsList
  <2>2. missed' = missed /\ (WillShow(c, OnlineUsers) => WillShow(c, OnlineUsers)')
    <3>1. PICK users : users = OnlineUsers
      OBVIOUS
    <3>2. missed' = missed /\ (WillShow(c, users) => WillShow(c, users)')
      BY <1>2, <1>6, SendShows
    <3>. QED
      BY <1>2, <3>1, <3>2 DEF WillShow
  <2>. QED
    BY <1>2, <1>3, <1>4, <2>1, <2>2 DEF ClientsCatchUp, hub
<1>. QED
  BY <1>5, <1>6

\* Here it matters that the snapshot is still right.
LEMMA GreetCatchesUp ==
  ASSUME Inv, Waits, GreetingsCurrent, ClientsCatchUp, NEW c \in Conns, Greet(c)
  PROVE  ClientsCatchUp'
<1>0. /\ clients \subseteq Conns /\ online[c] \in SUBSET Users /\ pc \in [Conns -> Labels]
      /\ pump \in [Conns -> {"waiting", "running", "ended"}]
  BY DEF Inv, TypeOK
<1>1. PICK m \in Messages :
        /\ TrySend(c, m, FALSE)
        /\ ~IsList(m) \/ m = UsersMessage(OnlineUsers)
  <2>1. CASE pc[c] = "greetUsers"
    BY <1>0, <2>1, ListsAndCounts DEF Greet, At, GreetingsCurrent
  <2>2. CASE pc[c] = "greetCount"
    BY <1>0, <2>2, ListsAndCounts DEF Greet, At, IsList, CountMessage
  <2>. QED
    BY <2>1, <2>2 DEF Greet, At
<1>2. /\ UNCHANGED <<hub, sending, view>> /\ OnlineUsers' = OnlineUsers
      /\ pc[c] \in {"greetUsers", "greetCount"}
      /\ \A d \in Conns \ {c} : pc'[d] = pc[d]
  BY <1>0 DEF Greet, At, Goto, hub, OnlineUsers
<1>3. Owing \subseteq Owing'
  BY <1>2 DEF Owing
<1>4. \A f, d \in Conns : Listing(f, d) => Listing(f, d)'
  BY <1>2 DEF Listing
<1>5. missed' = missed /\ \A d \in Conns \ {c} : buffer'[d] = buffer[d]
  BY <1>1, <1>2, SendShows DEF Greet, TrySend
<1>6. \A d \in Conns : WillShow(d, OnlineUsers) => WillShow(d, OnlineUsers)'
  <2>1. PICK users : users = OnlineUsers
    OBVIOUS
  <2>2. WillShow(c, users) => WillShow(c, users)'
    BY <1>1, <1>2, <2>1, SendShows
  <2>3. \A d \in Conns \ {c} : WillShow(d, users) => WillShow(d, users)'
    BY <1>2, <1>5 DEF WillShow
  <2>. QED
    BY <1>2, <2>1, <2>2, <2>3 DEF WillShow
<1>7. \A d \in Conns : pump[d] = "ended" => pump'[d] = "ended"
  <2>1. pump[c] = "waiting"
    BY <1>2 DEF Waits, PumpsInPlace, Greeting
  <2>. QED
    BY <1>0, <2>1 DEF Greet
<1>. QED
  BY <1>0, <1>2, <1>3, <1>4, <1>5, <1>6, <1>7 DEF ClientsCatchUp, hub

LEMMA WriteCatchesUp ==
  ASSUME Inv, ClientsCatchUp, NEW c \in Conns, WriteMessage(c)
  PROVE  ClientsCatchUp'
<1>0. /\ clients \subseteq Conns /\ buffer \in [Conns -> Seq(Messages)]
      /\ view \in [Conns -> [users: SUBSET Users, count: 0..Cardinality(Users)]]
      /\ buffer[c] # <<>>
  BY DEF Inv, TypeOK, WriteMessage
<1>1. /\ buffer'[c] = Tail(buffer[c]) /\ view'[c] = Told(view[c], Head(buffer[c]))
      /\ \A d \in Conns \ {c} : buffer'[d] = buffer[d] /\ view'[d] = view[d]
  BY <1>0 DEF WriteMessage
<1>2. UNCHANGED <<hub, pc, sending, missed, pump>>
  BY DEF WriteMessage
<1>3. \A d \in Conns : WillShow(d, OnlineUsers) => WillShow(d, OnlineUsers)'
  <2>1. PICK users : users = OnlineUsers
    OBVIOUS
  <2>2. ASSUME WillShow(c, users)
        PROVE  WillShow(c, users)'
    <3>1. /\ buffer[c] \in Seq(Messages)
          /\ view[c] \in [users: SUBSET Users, count: 0..Cardinality(Users)]
          /\ LastList(buffer[c], view[c].users, users)
      BY <1>0, <2>2 DEF WillShow
    <3>2. LastList(Tail(buffer[c]), Told(view[c], Head(buffer[c])).users, users)
      BY <1>0, <3>1, WrittenHead
    <3>. QED
      BY <1>1, <3>2 DEF WillShow
  <2>3. \A d \in Conns \ {c} : WillShow(d, users) => WillShow(d, users)'
    BY <1>1 DEF WillShow
  <2>4. OnlineUsers' = OnlineUsers
    BY <1>2 DEF OnlineUsers, hub
  <2>. QED
    BY <2>1, <2>2, <2>3, <2>4 DEF WillShow
<1>4. Owing' = Owing /\ \A f, d \in Conns : Listing(f, d)' <=> Listing(f, d)
  BY <1>2 DEF Owing, Listing
<1>. QED
  BY <1>0, <1>2, <1>3, <1>4 DEF ClientsCatchUp, hub

LEMMA LockedCatchesUp ==
  ASSUME Inv, NEW c \in Conns, Register(c) \/ Unregister(c)
  PROVE  ClientsCatchUp'
<1>1. pc'[c] = "setGauge"
  BY DEF Register, Unregister, Goto, Inv, TypeOK
<1>. QED
  BY <1>1 DEF ClientsCatchUp, Owing

LEMMA NextCatchesUp ==
  ASSUME Inv, Waits, Lists, GreetingsCurrent, ClientsCatchUp, [Next]_vars
  PROVE  ClientsCatchUp'
<1>1. ASSUME NEW c \in Conns,
             Connect(c) \/ Handle(c) \/ ReadFails(c) \/ Pump(c) \/ WriteFails(c)
      PROVE  ClientsCatchUp'
  BY <1>1, HandlerCatchesUp, LockedCatchesUp, BroadcastCatchesUp, GreetCatchesUp,
     WriteCatchesUp DEF Handle, Pump
<1>2. ASSUME NEW g \in Goroutines, Loop(g)
      PROVE  ClientsCatchUp'
  BY <1>2, DeliverCatchesUp DEF Loop
<1>3. ASSUME NEW s \in Senders, Broadcast(s) \/ \E u \in Users : SendToUser(s, u)
      PROVE  ClientsCatchUp'
  BY <1>3, EventCatchesUp DEF Broadcast, SendToUser
<1>4. CASE UNCHANGED vars
  BY <1>4, StillCatchUp DEF vars, channel, Owing, Inv, TypeOK
<1>. QED
  BY <1>1, <1>2, <1>3, <1>4 DEF Next

\* When no handler is at work, no list is on its way but those in the channels.
LEMMA CaughtUp ==
  ASSUME Inv, ClientsCatchUp
  PROVE  LastMessageIsCurrent
<1>. SUFFICES ASSUME Quiet, NEW c \in clients \ missed, pump[c] = "running",
                     buffer[c] = <<>>
              PROVE  view[c].users = OnlineUsers
  BY DEF LastMessageIsCurrent
<1>1. Owing = {} /\ \A d \in Conns : ~Listing(d, c)
  BY DEF Quiet, Owing, Listing
<1>2. WillShow(c, OnlineUsers)
  BY <1>1 DEF ClientsCatchUp
<1>3. LastList(<<>>, view[c].users, OnlineUsers)
  BY <1>2 DEF WillShow
<1>4. 1..Len(<<>>) = {}
  OBVIOUS
<1>. QED
  BY <1>3, <1>4, LastListCases

\* The greeting is all that breaks the promise to tell a new client the current
\* state: as long as nobody comes online or goes offline between the snapshot of
\* a greeting and its send, every client that has read its channel shows the
\* users who are online, unless its last list met a full channel
\* (sendOnlineUsers, broadcastOnlineUsers).
THEOREM LastMessagesAreCurrent ==
  Spec /\ []GreetingsCurrent => []LastMessageIsCurrent
<1>1. Init => ClientsCatchUp /\ Waits /\ Lists
  BY DEF Init, ClientsCatchUp, Waits, LoopsInPlace, PumpsInPlace, Greeting, NotSending,
         Goroutines, Lists, ListsCurrent, ListsOnTheirWay, Listing
<1>2. Inv /\ Membership /\ Waits /\ [Next]_vars => Waits'
  BY NextWaits
<1>3. Inv /\ Lists /\ [Next]_vars => Lists'
  BY NextLists
<1>4. Inv /\ Waits /\ Lists /\ GreetingsCurrent /\ ClientsCatchUp /\ [Next]_vars
        => ClientsCatchUp'
  BY NextCatchesUp
<1>5. Inv /\ ClientsCatchUp => LastMessageIsCurrent
  BY CaughtUp
<1>. QED
  BY <1>1, <1>2, <1>3, <1>4, <1>5, InvHolds, AlwaysMembership, PTL DEF Spec

=============================================================================
